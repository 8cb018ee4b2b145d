# A verification project for Squallz

Squallz is an archive manager: a Rust core that creates, reads, converts,
updates and repairs archives, a queue that runs this work, a desktop
application around it, a command line and a few helpers. The modules here
model the parts whose correctness depends on the order of things: crashes
between two file-system calls, other programs at the same path, worker threads
and callers that meet at a lock. Paths below are relative to `src/`.

## 1. The system

### Parts, state and operations

| Part | Where | State | Operations | What is hard |
|---|---|---|---|---|
| durable replacement | `crates/squallz-core/src/replacement/` | the target, a private stage, a holder directory with the protected, previous and retired files, a journal record under one of three anchor names, two lock files | `prepare`, `persist`, `commit_resume`, `complete`, `recover`, the discards | a crash or a loss of power between any two calls, recovery by another process, other programs that replace the target, a failing call |
| archive update | `crates/squallz-core/src/update/commit.rs` | evidence about the source, a cancellation token | `run`, `commit_created_archive`, `finish`, `recover_scope` | the source changes during a long rewrite; cancellation up to the last safe moment |
| job queue | `crates/squallz-core/src/queue.rs` | slots, the queue, reserved jobs and CPU threads, the ceiling, `shutdown`, two condition variables | `submit`, `try_pause`, `resume`, `try_cancel_many`, `set_max_running`, `forget_terminal`, the moves, `wait_idle`, `Drop`, the worker loop | two locks, calls in several critical sections, missed notifications, accounting |
| control token | `crates/squallz-format-api/src/progress.rs` | two flags | `cancel`, `pause`, `resume`, `checkpoint` | two relaxed flags read one after the other |
| GUI job manager | `crates/squallz-gui/src/jobs.rs` | the registry, released windows, `shutting_down` | submit, pause, resume, cancel, answer, release of a window, shutdown | decisions about the queue's state that is read, not held |
| job snapshots | `crates/squallz-gui/src/jobs/snapshots.rs` | a revision, one versioned record per job, bounded histories of changes and removals, the order of terminal records | insertion, state and progress changes, dismissal, pruning, deltas | a window that is behind what the histories still hold |
| window task list | `frontend/src/lib/jobs.svelte.ts`, `job-snapshot.ts` | rows, the revision and generation, rows being cleared | submission, polling, events, queue moves, clearing and its rollback | replies and events that come late, twice or not at all |
| question bridge | `crates/squallz-gui/src/bridge.rs` | pending questions and answers | ask, answer, wake on cancellation | a late answer; a cancellation that races with an answer |
| source cleanup | `crates/squallz-gui/src/jobs/source_cleanup.rs`, `source_cleanup_journal.rs` | a journal file with a lock, a private directory, the notice of the last recovery | plan, stage, compare, trash, recover | a crash between a finished job and the removal of its source; a source that changes while it is removed |
| volume sets | `crates/squallz-core/src/volumes.rs`, `volumes/publication.rs` | staged parts, backups, a journal | publish, roll back, recover | many renames that must look like one |
| self-extracting products | `crates/squallz-core/src/sfx.rs`, `sfx/` | the SFX domain of the replacement journal, bundles | build, install, restore a backup | as the replacement, with a backup that stays |
| output sets | `crates/squallz-core/src/output_set.rs`, `destination_guard.rs`, `archive_output.rs`; `protect_files` in `crates/squallz-recovery/src/lib.rs` | a private directory per run, a journal, a lock | prepare, commit, recover, clean up after a failure | never replacing a file; a failed run that cleans up without the lock |
| repair workspace | `crates/squallz-recovery/src/repair_workspace.rs` | a record beside the output, an owner file, a directory, two locks | begin, recover, clean up | a crash between the record and what it names, on the way in and out |
| temporary plaintext | `crates/squallz-core/src/plaintext.rs` | a registry of directories with owner files and markers, locks | create with a sweep, close | sweeping what others have left while others work |
| extraction | `crates/squallz-format-api/src/extract.rs`, `links.rs`; the readers that drive it | the outputs made so far, the report, a private name for the output in work | `file_target`, `write_file`, `write_meta_entry`, `finish`, the conflict question | another program at an output's name between the look and the commit; links to links, repeated paths |
| open archives | `crates/squallz-gui/src/state.rs`, `preview_sessions.rs`, `nested.rs`, `create_preflight.rs` | handles and the temporary files they own, requests, sessions, leases and their budget | open, preview, nest, close, release of a window, exit | work that finishes after its window, or the program, has gone |
| passwords | `crates/squallz-gui/src/password_cache.rs`, `commands.rs` | session passwords with generations, the platform's key store | try, remember, forget, save, cancel | a password remembered after it was forgotten, saved after the save was cancelled |
| the rest | formats, command line, frontend, native shells, publisher, updater | | | data formats, arithmetic over large data, external services, presentation |

`PROJECT.json` lists every part with its status; what is not modelled has its
reason there.

### How they interact

A command of the window or the command line becomes a job. The job manager
resolves its sources, registers it and hands a closure to the queue; a worker
claims it and runs the engine, which reports progress and reaches checkpoints
of the control token. What a job makes durable goes through one of three
publishers: the replacement for single archives and products, the volume sets
for split ones, the output guards for everything that must not replace
anything. The next operation on an archive recovers the replacement record it
finds before it does anything else.

What a job does is written into the snapshot store. A window learns of it by
polling for the changes since the revision it has, by an event for each change
of a job that it submitted itself, and from the replies to some of its
commands; it reduces the three into one list.

### What makes the parts correct

* Replacement: at every instant, and after a crash at any instant, the disk
  has the version the last caller was told about or its completed successor;
  recovery accepts whatever the program itself can leave; a competitor's file
  is never deleted; an update replaces exactly the version it was made from; a
  durable record is finished some day.
* Queue: a job runs at most once, and never after it was cancelled in the
  queue; reservations are returned exactly once; nobody sleeps through the
  notification it needs; a cancelled job ends; dropping the queue returns.
* Job manager: no job of a released window survives; what a window shows of a
  job ends in the state the job ended in; an answer reaches the question it
  was given to.
* Snapshots and task list: a window that has caught up shows what the store
  has, whatever it missed; nothing goes back in time; the completion effects
  of a submitted job run once; what the user cleared stays away.
* Volume sets: never members of two sets side by side; what was there is kept as
  a backup; the next run finishes what a crash has left.
* Source cleanup: only what is in the archive goes to the trash; nothing is lost
  and nothing stays hidden without a record; what the user is told is so.
* Extraction: nothing is replaced that the policy or the user did not agree to;
  a link becomes content of the archive; the report adds up.
* Repair workspace: a private copy of an archive always has a record that the
  next repair finds; what cannot be proved to be the program's own is left alone.
* Output sets (not modelled): the primary file appears last and only with all the
  others. Temporary plaintext (not modelled): a sweep leaves what is in use alone
  and removes the rest.
* Open archives: nothing is published for a window that is gone, plaintext goes
  when its last user goes, the budget is that of what exists, and forgotten
  passwords and cancelled saves stay so.

The full list of hazards, each at its line, is in `PROJECT.json`.

## 2. Modules

| Module | Models |
|---|---|
| `AtomicReplace` | what replacing an archive promises: one load-linked/store-conditional register over a write-back cache |
| `Replacement` | the durable replacement and its driver, one action per file-system call that matters, and the refinement mapping to `AtomicReplace` |
| `MCReplacement` | small instances |
| `ReplacementProofs` | theorems about `Replacement`, that it implements `AtomicReplace` among them |
| `JobSlots` | what the queue promises about a job: its slot and the critical sections that change it |
| `JobQueue` | the queue, the worker loop and the control token, one action per critical section, and the refinement mapping to `JobSlots` |
| `MCJobQueue` | small instances |
| `JobQueueProofs` | theorems about `JobQueue`, that it implements `JobSlots` among them |
| `JobFeed` | the snapshot store and the main window's task list, joined by commands, replies and events |
| `MCJobFeed` | small instances |
| `JobFeedProofs` | theorems about `JobFeed` |
| `JobManager` | the GUI's job manager, the question bridge and the body of a job, on the actions of `JobSlots` |
| `MCJobManager` | small instances |
| `JobManagerProofs` | theorems about `JobManager`, that it keeps to `JobSlots` among them |
| `SplitPublication` | the commit and the recovery of a volume set |
| `MCSplitPublication` | a small instance |
| `SplitPublicationProofs` | theorems about `SplitPublication` |
| `SourceCleanup` | removal of archived sources, its journal and its recovery |
| `MCSourceCleanup` | a small instance |
| `SourceCleanupProofs` | theorems about `SourceCleanup` |
| `Extraction` | the extraction sink and its two drivers |
| `MCExtraction` | archives that repeat, chain and cycle |
| `RepairWorkspace` | the private workspace of a repair |
| `MCRepairWorkspace` | a small instance |
| `ExtractionAndRepairProofs` | theorems about `Extraction` and about `RepairWorkspace` |
| `OpenArchives` | handles, previews, passwords and requests of the windows |
| `MCOpenArchives` | a small instance |
| `OpenArchivesProofs` | theorems about `OpenArchives` |

Three compositions carry the rest, and all three are proved. `Replacement`
implements `AtomicReplace`. `JobQueue` implements `JobSlots`, and `JobManager`,
which takes the queue's steps from `JobSlots`, takes only steps that `JobSlots`
allows: the manager asks of a job's slot nothing but what the queue was proved
to do, and what is proved of the manager holds over the queue as far as slots
and tokens go. `JobFeed` stands on the same snapshots as `JobManager`: it has their
versions and histories, the manager their contents. `SplitPublication`,
`SourceCleanup` and `RepairWorkspace` have the tree and disk of `Replacement`.

`Extraction` and `RepairWorkspace` write beside the user's files and share a proof
module, which extends both; the names in `RepairWorkspace` that the other has too
are therefore its own (`WorkspaceInit`, `WorkspaceNext`, `WorkspaceTypeOK`, `Becomes`
for a change, `Unwritten` for none, `Proceeds` for the next point of the code).

### Replacement

`fs` is the tree that running processes see, `disk` the set of trees a power
loss may leave: a change adds a tree, a directory sync reduces the set to the
current one. This is the ordering the code relies on; writes are not reordered
across a sync. A file is an identity with a version; evidence (identity, size,
times and digest in the code) is such a pair, so comparing evidence is
comparing pairs, and the identity is what can be compared at once after a
rename. The record is its name and the two pairs it binds; its temporary and
its discarded name are the ones recovery does not look for.

`pc` follows the code: opening (`Begin`, `Recover`, `Bind`), writing
(`ReserveStage`, `Rewrite`, `Prepare`, `PrepareSync`, `WriteRecord`), the record
(`RenameRecord`, `SyncRecord` for pending, installing and completed alike), the
moves (`Resume` decides from the positions, `Rename`, `Observe`, `Settle`,
`Restore`, `RestoreRename` are one `checked_move` in its steps, for protect,
preserve, install and retire alike), `Installed`, completion (`Finish`,
`CheckRetired`, `UnlinkRetired`, ...), and the discards. `IoError` makes any of
the calls fail, `Crash` ends the process, `PowerLoss` everything. Other
programs replace, edit or remove the target (`Foreign...`); they do not touch
the private names, which are unpredictable, in a directory of mode 0700.

Abstracted: hashing and metadata comparisons (they decide equality of pairs),
the guard of an open window (another reason to refuse in `Bind`), Windows
sharing modes, alias pairs of hard links (only a file system without an atomic
no-replace rename leaves them), and the contents of the archive.

The histories `base` (the entry an update was rewritten from), `acked` (the
last version whose record was cleared) and `outside` (what other programs
destroyed) state the properties and decide nothing.

### JobQueue

A step is one critical section, or one atomic access of the token. `Reserve`
and `Sleep` are the two ends of a scan under the queue lock, `Claim` is
`claim_job`, the body of a job is any closure that announces phases, reaches
checkpoints and returns; `Store` and `Release` end it. Calls that unlock in
between are split where the code unlocks: `Submit`, `Push`, `Wake`; `TryPause`,
`MarkPaused`; `Resume`, `MarkRunning` or `NotifyWaiters`; `TryCancelMany`,
`NotifyWaiters`; `WaitIdle`, `IdleLook`. `notify_all` moves the sleepers back to
looking; spurious wake-ups only repeat a look and are left out. The histories
are `starts`, `caught` (cancelled while queued) and `ended`.

The queue is a sequence without repetition (`Listed` in section 4), so an entry
is removed by its id where the code removes it by its index (`Without`), and
`Entries` lists the entries at some places in their order.

Abstracted: job results, the text of a failure, and the queries that change
nothing.

### JobFeed

The backend half is `JobSnapshotStore`: `store` has its fields, except that the
history of changes is the last `MaxChanges` revisions and therefore only its
oldest one (`Oldest`) is kept. `Register`, `SetState`, `SetProgress` (with `ask` and
`clear_question`), `SyncQueueStatuses` and the dismissals are its operations, each
under the snapshot lock; a step that ends a job also renumbers the queue and
prunes, as the code does before it unlocks. `Delta` and `Snapshot` are what a
window is told.

The window half is the module of the frontend: `tasks`, `snapshotRevision`,
`snapshotGeneration`, `locallyDismissed`. A command is an element of `calls` from
the moment it is sent until its reply is handled, which is where the code has
an `await`: `submitJob` and `SubmitReturns`, `Poll` and `PollReturns` or `PollFails`,
`requestQueueMove`, `MoveReturns` and `DeltaReturns`, `clearFinished` and
`ClearReturns`, `refreshQuestionTask` and `RefreshReturns`. The backend answers
commands one at a time in the order sent (`Answer...`), because the commands are
synchronous functions that Tauri runs on one thread; an answered command waits
in `calls` with its `reply` until the window handles it, in order only when
`InOrder`. A clearing is a click on the rows that have ended, or on one of them
while none is being cleared (`clearFinished`). Events may be lost, or late and in
any order.

Abstracted: a row is its version, its state and whether the window submitted
the job; paused is running, failed and cancelled are done, since the reducer
tells only waiting, active and terminal apart. Queue positions are the set of
records that take a new revision. One other window owns the jobs that are not
`Mine`; of it only its dismissals matter here. Form state, control intents,
toasts, the status of the feed and the development previews are left out, and
`retryTask`, which nothing calls. The history `ran` counts completion effects,
`refused` says that a clearing was refused.

### JobManager

A job has a body on a worker thread: it shows its starting state, then reaches
checkpoints, announces phases and asks questions (`Reach`, `Checkpoint`, `Phase`,
`Prepare`, `Ask`, ...), shows its end and returns; a panic is caught by the worker
loop. The conflict question and the password question have the same shape and
are one. Callers are the threads that run commands and window events, and may be
anybody: `BeginSubmit` to `Register` is one submission, with the registry lock kept
from the second step on; `BeginPause` to `ShowPaused`, `BeginResume` to `ShowResumed`,
`CancelOne`, `ReleaseWindow` and `CancelAll` with their common tail `CancelManaged`,
`ShowCancelled`, `WakeCancelled`; `BeginAnswer` and `Answer`, which hold the snapshot
lock around the bridge; `TidyUp`, `Reconcile`, `Tidy` and `Query`. Between two of them
the code holds no lock, so anything may happen. A question is known by the
revision it was asked at, and an answer by the question it was given to: that is
how an answer to an earlier question is told from one to the current one.

`WakeCancelled` has no effect here: the wait of the bridge looks at the token every
100 ms by itself. Abstracted: the contents of answers (`apply_all` included),
queue positions, progress, revisions and pruning, which `JobFeed` has, and what a
job does between its questions. A question is asked only while the job can be
interrupted, as in the code. The history `spared` notes the jobs that refused a
cancellation.

### SplitPublication

A run stages its parts, takes the lock of the output family, finishes what an
earlier run left (`Recover`), looks at the members (`Snapshot`, `Admits`), writes and
syncs the journal, backs up each member and syncs (`MoveBackup`, `SyncBackup`),
installs each part (`MoveInstall`, `SyncInstall`), verifies and clears. `NoReplace` has
no journal: `Place` puts the parts there one by one. Recovery is the same code
that the run uses (`resume_with`), and so the same actions. A run that fails removes
its parts when its journal is known not to be durable (`Fail`, `CleanUp`).

Abstracted: how bytes are split, how a set is found for reading, the private
directory in which a staged part is isolated before it is removed, and the
digests. The histories are `used`, `decided` (the sets published, in order), `sets`,
`acked` (the last set reported), `lost` and `kept`.

### SourceCleanup

Each source has its own path, the path in the private directory, a path beside
it and the trash. A job takes a snapshot of what it archives (`Run`), prepares the
private directory, begins a record (`Begin`, `SaveJournal`), stages and syncs the
source (`Stage`, `SyncStage`), compares it with the snapshot (`Verify`), gives it to
the trash (`MoveToTrash`, which may fail after it has moved the file, or say that it
has when it has not), and settles the record (`Decide`, `Move`, `Sync`, `Clear`,
`SyncClear`; a recovery after a failed sync of the clearing finds nothing to clear
and syncs nothing, `AlreadyClear`). The same settling undoes a failure, runs at the start of an instance
and when a job cannot begin because a record is there. One lock lets one of
them in at a time; a second instance reports that it is busy.

Assumed of others: the private directory has mode 0700, so they only edit there
what they had open, and they stop before the comparison ends; identities are
not used again. Abstracted: the directories (one file stands for a tree), the
candidate names beside the source (the code tries a thousand, the model one,
so the limit is met early), and the contents. After a failing trash every
outcome asks for a review, so the loop over sources does not go on.

### Extraction

`driver` says whether the entries come as a stream (`TarReader::extract`,
solid 7z) or from a list (`extract_entries`); the other constants of a run are
the conflict policy, the link policy, best effort and whether the file system
has hard links. `Look` is `file_target`, `write_meta_entry` or the link arms, up to
the question; `Ask` is the answer; `Write` stages the output; `CommitReplacing`,
`CommitNew` and `RenameOver` are the three ways of `commit_using`, the last one with
the reservation where a hard link is not possible. `Refuse` is any check or call
that ends the run. `Follow` is `LinkResolver::resolve_to_file` as a recursive
function. Another program changes the destination at any point; it leaves the
empty reservation alone. Paths are atoms in one directory: confinement, names
and metadata are not here, nor is a selection of entries.

### OpenArchives

A request opens an archive or a nested one, prepares a preview or saves a
password, each step taking one of the locks: `Begin`, `Resolve`, `Reserve`, the
attempts at the outer and the inner password, `Read`, `List`, `Publish` or `Keep`,
`Commit`, `SetPassword`, `DropRequest`, `Complete`. Commands cancel, close, use, forget,
open a preview in another program and release it. The main thread destroys
windows (`Destroyed`, `ReleaseArchives`, `ReleasePreviews`) and exits (`ClosePreviews`,
`CancelAll`, `BeginShutdown`, `Idle`, `Shutdown`, `Cleanup`), in the order of `lib.rs`.
A handle is kept open by the registry, by requests that pin it, by a job and by a
command that reads the index; its temporary file goes with the last of them
(`Settle`).

The generation counters of attempts and reservations are abstracted to fresh
and stale, the sequence number of a preview is the code's counter; checks for a source that changed to an attempt that fails; request
ids are unique; the keychain is the set `saved`. Commands that read the index of an
archive on a thread of their own (`search_entries`,
`missing_archive_paths`, `inspect_archive_target`, `plan_archive_move`; `commands.rs`:505-590) keep its handle open and
are not awaited at exit; the variable `search` stands for them, one at a time.
What such a command still reads is the only plaintext that `NothingOutlives`
lets the exit leave.
A window that never made a request and the registry behind a temporary file are
not modelled.

### RepairWorkspace

A process has a point in the code (`at`) and every call that changes the file
system is a step; `Fail`, `Die` and `PowerLoss` come between any two.
`RecoverTemp` to `SyncClear` are `recover_pending` and, with the
record of the repair itself, `RepairWorkspace::cleanup`; `Begin` to `MakeWork` are
`begin`, in which `CreateTemp`, `WriteTemp`, `MoveTemp` and `SyncRecord` write either of
the two records. `Cleaning` is the decision about a record. Others change what
is left behind while no repair of the output runs; identity and permissions
decide whether a path is `own`. The tool and what it makes are one step (`Work`).

## 3. Runs

| Run | Instance | Shows |
|---|---|---|
| `replacement` | 2 processes, 2 updates, 1 stray file; 1 failing call, 2 crashes, 1 foreign change, at any moment or, in half of the behaviours, before the last check of the inputs | `TypeOK`, `CrashSafe` (`NothingDestroyed`, `NoOrphans`), `RecoveryAdmits`, `OnlyOwnedRemoval`, `NoLostUpdate`, `ImplementsRegister`, `Completes` (`Delivered`, `Terminates`) |
| `queue_safety` | 2 workers, 2 callers, 3 jobs, the middle one twice as heavy, 2 calls besides submit | `TypeOK`, `BudgetIsUsed` (`ResourcesConserved` and `NoMissedWakeup`), `CaughtNeverStarts` |
| `queue_liveness` | 2 workers, 1 caller, 2 jobs, 1 checkpoint or phase for each, 2 calls | `ImplementsSlots`, `NobodyHangs` (`Drains`, `CancelEnds`, `JoinReturns`, `WaitIdleReturns`) |
| `feed` | 2 jobs, one of this window; 1 terminal record and 2 changes remembered; 3 commands awaited, 1 clearing, 1 move, question or update, 1 event on its way; replies in order | `TypeOK`, `RowsAreRight` (`EffectsOnce`, `CaughtUp`, `NoStaleRows`, `ClearedStaysCleared`), `Converges` |
| `feed_refused` | 3 jobs of another window, 1 clearing and 2 moves | `NoStaleRows` fails after a refused clearing (section 6) |
| `manager` | 1 job with 3 steps, its window, 2 calling threads, 2 calls besides submission, release and exit | `TypeOK`, `QuestionsInStep`, `NoOrphanedJob`, `EndsAreTrue`, `EveryoneGetsOn` |
| `manager_exit` | the same with 2 steps, 1 thread and 3 calls | `ExitEnds` fails (section 6) |
| `split` | 2 processes, 2 runs over nothing or a whole set, 2 members, 2 faults, 1 of them foreign | `TypeOK`, `AlwaysOneSet` (`NeverMixed`, `WholeFamily`), `RecoveryAdmits`, `NothingLost` |
| `cleanup` | 2 instances, 2 sources, 2 jobs, 2 faults, 1 foreign change | `TypeOK`, `TrashedWasArchived`, `NothingLost` (with `HiddenIsRecorded`), `ReportsAreTrue` (`ResultsAreTrue`, `RecoveryTellsTheTruth`) |
| `extraction` | 32 archives of 2 or 3 entries over 2 paths, all policies, 1 foreign change | `TypeOK`, `OnlyAgreedIsReplaced`, `LinksComeFromTheArchive`, `ReportAddsUp` |
| `repair_workspace` | 2 processes, 3 repairs, 5 faults | `WorkspaceTypeOK`, `NothingForgotten` (`Recorded`, `Finishable`, `Gone`), `LeftUntouched` |
| `archives` | 2 requests of 3 mixtures, 2 windows, a budget of 2 with reservations of 2, 1 forgotten password | `TypeOK`, `NothingOutlives`, `BudgetHolds`, `PasswordsStayForgotten`, `CancelledSavesNothing` |

A property that names others in brackets is their conjunction: each part is
defined and commented by itself, and the parts are checked together because
they are about one promise of one run.

Bounds. Two processes are enough for one to recover what the other left while
it wants to update; two updates for one to be lost under the other. Two
crashes let the recovery itself be interrupted, one failing call reaches every
error path, and one foreign change can be placed at every point. Two callers
make every pair of calls overlap; three jobs, the middle one twice as heavy,
put a blocked job between two light ones. One checkpoint or phase for each job
is one of each place at which a flag can be read. The feed remembers so little
that two jobs outrun both histories: one terminal record makes the second end
prune the first, two remembered changes make a slow window need a reset. Three
awaited commands are a poll and two others that it overlaps. `MaxExtras` is one
budget for progress, renumbering, the other window's clearings, moves and
questions, so each is explored with everything else but not two at once;
`MaxUpdates` bounds those of them that are not the window's own.

One job is enough for the manager, because its locks are held for one job at a
time and what jobs share is the queue, which has runs of its own. Two steps are
two questions, so that an answer can be late; three are an uninterruptible phase,
an interruptible one behind it, and a question or a checkpoint there, so that a
job that refused the cancellation of the exit waits for somebody later on. Two
threads are a command and a window event at once. In `split` and `cleanup` a fault may be a failing call, a
death or a loss of power: two let a recovery be interrupted or fail, and two
runs or instances let one recover what the other has left while it wants
something itself. Two members make a mixture, two sources a loop that is left
halfway. Three entries make a path repeat around a link, two paths a chain and
a cycle. Three repairs let one find what a recovery of the first has left; five
faults are a crash at each of them, a failing call and a foreign change. The
budget of previews holds one file on its way, or two that have arrived, so a
second request is refused or evicts.

The refinement is a statement about the behaviours in which the foreign change
comes before the final check (`budget.races` is chosen at the start; the others
map to a register at rest). A change that falls between that check and the preserving rename moves the
competitor's file into the holder: the code notices by its identity and puts
it back, but for a moment the register has no value that an atomic register
could have. All other properties of the run cover those instants too.

Fairness. In `Replacement` a process that has the locks is weakly fair, since it
waits for nobody, and archives are opened again: without that nobody would
ever recover. Crashes and failures are not fair, they are bounded. In
`JobQueue` and `JobManager` every worker is weakly fair (the operating system runs
it, and closures go on to the next checkpoint), and a call that was begun goes
on; no call is ever owed, and no answer. `CHECK_DEADLOCK FALSE` is set for the
queue because it may be dropped, and because nobody has to call it again; for
the other modules because their jobs, runs and requests come to an end. In `JobFeed` the window
polls again (its loop has no other exit than closing the window), the backend
runs the commands it was sent and their replies arrive, and a poll does not
fail for ever: the strong fairness of `PollReturns` says that of polls that fail
again and again, one succeeds. Nobody owes an event, a job or a click.

Every property of a passing run has a mutant of one definition, in the
module, that breaks it.

## 4. Proofs

Every safety property that a run checks is proved, for any processes, jobs,
windows, archives and bounds, and so are the two refinements and the manager's
side of `JobSlots`. The proofs use the assumption of each module on its constants
and nothing else.

| Theorem | States | Behind it |
|---|---|---|
| `ReplacementProofs!TypeCorrect` | `TypeOK` | itself |
| `CrashesAreSafe`, `RecoveryGoesOn`, `NoUpdateIsLost`, `OnlyItsOwn` | `CrashSafe`, `RecoveryAdmits`, `NoLostUpdate`, `OnlyOwnedRemoval` | `Kept`, `LedgerOK`, `Exclusive`, `Knows` |
| `ReplacesAtomically` | `ImplementsRegister` | these, `Tame`, `Numbered` |
| `JobQueueProofs!CancelledStaysOut` | `CaughtNeverStarts` | `ClosureUnused` |
| `TypeCorrect`, `BudgetIsAllUsed`, `QueueImplementsSlots` | `TypeOK`, `BudgetIsUsed`, `ImplementsSlots` | `Sound` |
| `JobManagerProofs!TypeCorrect`, `QuestionsAnswered`, `NobodyIsOrphaned`, `ShownEndsAreTrue` | `TypeOK`, `QuestionsInStep`, `NoOrphanedJob`, `EndsAreTrue` | `Typed`, `Ways`, `Questions`, `Orphans`, `Ends` |
| `KeepsThePromise` | `SlotsSpec`, the specification of `JobSlots` | these; `WorkerSlots`, `CallSlots` |
| `JobFeedProofs!FeedTypeCorrect`, `EffectsRunOnce` | `TypeOK`, `EffectsOnce` | `Feed` |
| `MissesNothing`, `NothingStale`, `RowsStayRight` | `RowsAreRight` and its parts | `Feed`, `Ahead`, `Fresh` |
| `SplitPublicationProofs!TypeCorrect`, `OneSet`, `RecoveryGoesOn`, `MembersSurvive` | `TypeOK`, `AlwaysOneSet`, `RecoveryAdmits`, `NothingLost` | `Kept`, `Firm`, `Distinct`, `Knows` |
| `SourceCleanupProofs!TypeCorrect`, `TrashedIsArchived`, `NoFileIsLost`, `ReportsAreTruthful` | `TypeOK`, `TrashedWasArchived`, `NothingLost`, `ReportsAreTrue` | `Apart`, `Safe`, `Hidden`, `Knows`, `Tallies` |
| `ExtractionAndRepairProofs!TypeCorrect`, `LinksAreOfTheArchive`, `TheReportAddsUp`, `ReplacesWhatIsAgreed` | `TypeOK`, `LinksComeFromTheArchive`, `ReportAddsUp`, `OnlyAgreedIsReplaced` | `Typed`, `Linked`, `Counted`; `JobOK`, `ReservedOK` |
| `ExtractionAndRepairProofs!WorkspaceTypeCorrect`, `CopiesAreRemembered`, `ForeignStays` | `WorkspaceTypeOK`, `NothingForgotten`, `LeftUntouched` | `Kept`, `Knows` |
| `OpenArchivesProofs!TypeCorrect`, `BudgetIsKept`, `NothingStaysOpen`, `ForgottenStaysForgotten`, `CancelledIsNotSaved` | `TypeOK`, `BudgetHolds`, `NothingOutlives`, `PasswordsStayForgotten`, `CancelledSavesNothing` | `Typed`, `Handles`, `Leases`, `Budget`; `Forgetful`; `Parted`, `Resting`; `CommittedOK`, `ToldOK` |

`SourceCleanupProofs!RecoveryIsTruthful` is the half of `ReportsAreTrue` that needs
no counting.

### The publishers

`Replacement`, `SplitPublication`, `SourceCleanup` and `RepairWorkspace` share one
argument. What a power loss may leave is any tree of `disk`, so a promise about
crashes is an invariant of every tree of it (`Kept`, or `DirOK` and its
companions): what the durable record says, and where the named files are. A
sync only takes trees away. A change adds one, and to know that the new tree is
good one has to know what the process knows at that point of the code: `Knows`
is the annotation of the program, one line for each point, and it has to survive
what other programs do to the target between any two steps. It is why the
checks that the code repeats after each lock, sync and rename are there, and
leaving out any conjunct of it breaks a step. The lock makes the knowledge of
one process safe from the others (`Exclusive`, and a part of `TypeOK` in the rest).

* `Replacement`: `EarlyMoves` and `LateMoves` are the positions before and after
  the target is preserved, `Intact` that a file is where it was or was destroyed
  by others. A completed record differs from the others in that its replacement
  may already be the acknowledged version, which is why recovery may go either
  way until the record is cleared.
* `SplitPublication`: the parts of a set have to be durable before the journal
  names them (`Firm`), and no two live runs share a number (`Distinct`); a run that
  was not decided has left nothing but parts (`Traceless`), so a failed one may
  remove them. What the members were is known only while no other program
  meddled (`touched = 0`); that nothing is lost does not depend on it.
* `SourceCleanup`: a source that is hidden in the private directory is named by
  every record that may be left (`Hidden`), since the record is made durable
  before the move and cleared after the move back was synced. `Tallies` counts,
  at each point of a job, what was taken, trashed and reported.
* `RepairWorkspace`: a directory or owner file of a run implies a record of that
  run under one of two names, on the way in and out.

`ReplacesAtomically` is the refinement. The value of the register is what the
target will be once recovery is done (`Logical`), what a power loss may leave is
the set of those values over `disk`, and the step at which an update takes effect is the one that gives its record the first durable name, not one of
the renames that follow: from there every position recovery may find leads to
the new version. `RegisterInv` is the invariant of the safety proofs with two
more parts. `Tame`: where no other program acts within an installation, every
tree of `disk` is one of the positions of the protocol (`Placed`), and from the
last check of the inputs to the name "pending" the target stays what was checked
(`Steady`); without it the register could have the value of a stranger. `Numbered`:
only updates have a version to count. Each action is shown to be a step of the
register or to leave it alone.

### The queue

`CaughtNeverStarts` needs only `ClosureUnused`: a closure that is still in its
slot has not been run and its job was not cancelled while queued. The closure is
the token that `claim_job` and `request_cancel_many` compete for under one lock;
nothing ever puts it back.

The rest is `Sound`. `Listed` and `HeldOnce` say that an id is in one place: about
to be enlisted by the caller that submitted it, in the queue, held by one
worker, or gone; that is what `reserve_next_job`, which removes entries by
index, and the moves, which rewrite them, have to keep. From it follow the
counters (`Counters`) and, because only one worker executes a job, that the
steps of its body are steps of `JobSlots`.

No wake-up is missed because of `WorkersCalled`, which is stronger than the
property: while all workers sleep nothing in the queue can be run at all, or a
notification is under way. `~Claimable` would not do, as the ceiling and the CPU
budget change without it: but a worker that goes to sleep because of a limit
leaves another one that holds something and will look again, so the last one to
fall asleep looked when nothing was reserved, and then the first reorderable job
always fits. `WaitersCalled` says the same of `wait_idle`.

`QueueImplementsSlots` is the refinement, step by step (`PromiseStart`,
`PromiseStep`): `reserved` and `executing` are read off the workers, `writing` off
the callers between the two halves of `try_pause` and `resume`. A step of the
queue takes at most one job to another place. With it, `JobManager`, which runs
over the actions of `JobSlots`, runs over what the queue really does.

The operators of the queue are about sequences without repetition; `Ranks`,
`Listing`, `WithoutIs`, `RefilledIs`, `MovedIs` and `SwappedIs` say what they return.

### The manager

`Ways` is the life of an id: nobody but the caller that submits it knows it before
it is registered; its closure is there until it is taken or cancelled; while its
body runs its slot is running or paused, and no late write of `try_pause` can say
"queued". `Questions` says that an answer in the bridge or in a body's hands is
that to the question it has asked now: one that is given too late finds the
question gone, because `answer` holds the snapshots while it looks. `Orphans` adds
that every job that waits or runs is in the registry, or its submitter is about
to register it under the lock that a release and an exit take to find the jobs
(`Found`). `Ends` relates what is shown to the slot and to the body's outcome, also
for the cleanup that has collected ends and shows them later (`Reconciled`).

`KeepsThePromise` closes the chain from the queue to the manager. `WorkerSlots` goes
through what a body does, `CallSlots` through the commands and the window events;
a step that ends a job needs the invariant, because `JobSlots` lets a job end
only with an outcome and only after it was taken.

### The window's task list

Two copies are compared, so the invariants are about what is under way between
them, and have to hold for every list of awaited commands with their replies.

`Feed` holds in whatever order replies come: the store and the list are well
formed, every version anywhere comes from the store and agrees with it, and for
each submitted job the effects have run exactly if its row has ended, counting
the reply to the submission that will run them (`Onces`). `EffectsOnce` follows.

`Ahead` is for replies in order. The difficulty is that a revision in the window,
in a question on its way or in a delta on its way all mean the same only if
nothing between them takes rows away. `Upto` says what a list at a revision
has: each job created by then, each in the state it has if it did not change
since; `Covers` says it of a list with a delta laid over it, which is what makes
it survive the replies before. Jobs that are being cleared count as present, and
come back only with a reset; `Unheard` is needed because a row may come from a
submission before any delta has named it, `Informed` because such a row must not
be taken away by a delta that is older than the job, `Finished` and `Gone` because a
clearing that is granted takes only rows that may go.

`Fresh` is for replies in order while no clearing was refused. `Warns`: all that is
held, in a row or in a reply under way, and not shown any more, is among the
removals since whatever revision the window asks from, or that is so far back
that the answer is a reset. `Clean`: what brings a row of another window's job back
comes before the reply to the clearing that takes it away. A refused clearing
puts back rows from a memory that nobody has warned, which is the finding of
section 6, and the reason for `~refused`.

Behind both is how the store may change (`Grown`): a record that changes takes a
new version, one that has ended does not change, and what stops being shown is
announced in the bounded history, or so far back that a reset says it
(`Announced`). Each action of the backend is shown to be such a growth once
(`BackendWorks`); the invariants are then preserved by four kinds of step: the
store grows, a command is answered, sent, or its reply taken.

### Open archives

`Handles`: before a request is published nobody else can hold its archive or its
temporary file, and what a request is pinned on has one. `Leases`: a temporary
file is leased exactly while somebody holds it. With that the counters of
`Budget` count what exists, and a file that arrives takes the place of its
reservation. `Forgetful`: a request that was trying a password of a path when it
was forgotten has a stale attempt and makes no other one at that path. `Parted`
and `Resting`: a request of a released window has no token, and what is left of
the window is a preview that another program uses and that goes when that is
over.

`CancelledSavesNothing` is about two requests of the user that race, but the code
never compares them: it compares both with `active`, under the lock of
`create_preflight.rs`. `CommittedOK`: a request whose password is written, or about
to be, has left `active` and nobody was told that it is cancelled. `ToldOK`: one
that was cancelled stays marked until it completes, so `MayCommit` does not admit
it.

### Extraction

`OnlyAgreedIsReplaced` is an action property. `JobOK`: whether an output may
replace is decided when the conflict is resolved, from the policy or an answer,
and is carried with it unchanged. `ReservedOK`: an output without that
permission, on a file system without hard links, holds its name by an empty
reservation until the rename. The second needs that the model of other programs
leaves an empty reservation alone, which is what is assumed of them. `Linked`:
what the run has made, an output under way and the links already resolved have
content of the archive, as long as nobody else writes there. `Counted`: each
entry is counted once when its turn ends, and the names that are new are those
counted as created or renamed, with the reservation on its way.

### What the proofs found

* A stage no record names was once required to be outside what other programs
  had destroyed. With more crashes than the run has that is false, and says
  nothing the code promises: `Ours`, what an update wrote and nobody has changed
  since, is what the code relies on when it deletes one.
* `OpenArchives` chose a sequence number for a preview above those that exist, out
  of as many as there are requests; nothing said that one is left. It now has
  the counter of the code (`next_sequence`, in `counts`).
* `Missing \notin File` and `None \notin ...` were used and not said; they are
  assumptions now, and say only that "no file" is not a file.
* `JobQueue` filtered its queue with a recursive operator, about which nothing can
  be proved; `Entries` states the order instead. `Reserved` is the set of pairs of
  a worker and a thread it has reserved rather than a folded sum.
* `JobFeed` laid rows over each other with folds; it now states the result, and
  its history of removals is a set with versions rather than a sequence.
* `NoStaleRows` and `ClearedStaysCleared` were checked as if they held always. A
  clearing that is refused breaks the first even when replies come in order
  (`feed_refused`), and, with more than one, the second; with replies out of
  order, and larger bounds than a run can have, `CaughtUp` fails too.
  `RowsAreRight` says what does hold, and under which conditions.

### Only model-checked

Liveness (`Completes`, `NobodyHangs`, `EveryoneGetsOn`, `Converges`) rests on fairness
and is out of the prover's reach. The two violations (`ExitEnds`, `NoStaleRows`) are
counterexamples TLC finds.

## 5. Plan

1. `JobFeed` with replies out of order: which weaker promise about missing rows
   holds then is not known; `CaughtUp` does not.
2. The SFX domain of the replacement, as a second instance of the moves with
   another completion.
3. Output sets (`output_set.rs` and the run of `protect_files` that cleans up
   without the lock) and the registry of temporary plaintext (`plaintext.rs`),
   whose sweep runs beside processes that make, use and close directories.
4. An abstract specification of the feed: the window shows a past state of the
   store, and later ones later.

## 6. Where comments and code disagree

* `manager_exit`: `cancel_all` "Cancels all unfinished jobs before application
  shutdown" (`jobs.rs`:890) and `wait_idle` "Blocks until all queued and running work
  has drained" (:935); the exit calls one after the other (`lib.rs`:221-223). A job
  that is paused while it can still be interrupted, and then announces a phase
  that cannot be, stops at the checkpoint behind the announcement
  (`volumes.rs`:2235, `sfx/product.rs`:1286, `update/commit.rs`:292). `cancel_all` leaves it
  alone, no window is left to resume it, and the exit waits for ever. The same
  holds for what a job does after it has refused that cancellation: nobody
  cancels it again, so when it goes back to a phase that can be interrupted, as
  the test of a created archive is (`OutputCommit` and then `OutputVerify`,
  `jobs/execution.rs`:753), a pause that comes before the exit holds
  it up as well, and so would a question. `ExitEndsUnlessHeld`, a part of `EveryoneGetsOn`, shows
  that nothing else does: the exit ends unless, from some moment on, a job that
  refused the cancellation waits at a checkpoint while paused, or for an answer.

* `feed_refused`: "Snapshots remain authoritative when native event listeners
  cannot start" (`jobs.svelte.ts`:594). A job is pruned between the click that clears
  its row and the dismissal, so the clearing is refused (`snapshots.rs`:447) and the
  row is put back, with the revision forgotten and the generation raised
  (:880-884). A queue move that was sent before then applies its delta (:832)
  without looking at the generation, as the poll does (:557), and its revision is
  past the removal: the row stays, and no later delta names it. Replies come in
  order, and no event is needed. `NothingStale` shows that a refused clearing is
  necessary for it.

The models also contain the following, which no run singles out:

* `try_pause` and `resume` (`queue.rs`:385-416) read the state, unlock and then write
  the new one. A job that ends in between stays `Paused` or `Running` in the slot
  although the comment on the state says that it executes (:78), and its slot
  can not be forgotten any more. `JobSlots!WriteState` is that write.
* A queued job that is paused after a worker has reserved it is started all the
  same and holds the worker (`queue.rs`:157), although `pause` promises that it
  "remains queued without occupying a worker until resumed" (:378).
* Pausing the job that waits for CPU threads, or moving another one before it,
  makes a job claimable without waking a worker, although its status says that
  enough capacity exists "to claim the job now" (`queue.rs`:64).
* `resume_for_window` reads the queue's state and shows it later (`jobs.rs`:717-732): a
  row may say "queued" again after the job has shown "running", until it ends.
* A hard link that is extracted twice under the policy to overwrite: the
  staged link and the target are one file, `rename` does nothing and succeeds, and
  the private name stays (`extract.rs`:271, the variable `left`).
* `Finishable` names what a crash of a repair can leave to the user besides a torn
  temporary record: an owner file without its token, and a directory whose
  identity was not recorded yet.

Limits of the statements: a row of a job that this window submitted may come
back after it was cleared, when the reply to the submission or to a question
arrives only then. `ClearedStaysCleared` is therefore about the jobs of others.
And when replies may overtake each other only `EffectsOnce` and the types hold: two
clearings that make the window forget its revision let an older one follow a
newer one.

## 7. Running

    tlc -workers 2 -config MCReplacement.cfg MCReplacement
    tlapm ReplacementProofs.tla          # and the other seven *Proofs modules

## 8. Not modelled

Formats and codecs, the PAR2 tool and its format, path confinement and
metadata during extraction, filters, presets and layout, update planning, the
pipelines of create, convert and repair, the command line, the frontend except
its task list, shell integration, the updater and the native helpers: data,
arithmetic, names, external services and presentation rather than control. They
are most of the repository's lines, which is why the share of lines the
modules stand for is small although the parts in which order decides are
mostly there. Waiting for their turn are the output sets, the registry of
temporary plaintext and the SFX domain of the replacement (section 5).
`PROJECT.json` names each part with its status and reason.
