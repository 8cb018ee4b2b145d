--------------------------- MODULE SourceCleanup ---------------------------
(***************************************************************************)
(* Moving archived sources to the trash: crates/squallz-gui,               *)
(* src/jobs/source_cleanup.rs and src/source_cleanup_journal.rs.           *)
(*                                                                         *)
(* A job that has made an archive may remove what it archived.  One source *)
(* after the other is recorded in the journal, moved aside into a private  *)
(* directory, compared there with what was archived, and given to the      *)
(* system's trash.  Whatever fails after the record is written is undone   *)
(* by the recovery, which the next instance runs when it starts: it puts   *)
(* the source back, or beside its place when another file is there by then.*)
(* One lock beside the journal lets one cleanup or recovery run at a time. *)
(*                                                                         *)
(* Every call that changes the file system is a step; between two of them  *)
(* the instance may die, the machine lose power, a call fail, or another   *)
(* program create, replace, remove or edit a file.  No other program goes  *)
(* into the private directory (mode 0700); what it edits there it has had  *)
(* open since before, and it stops before the comparison ends.             *)
(***************************************************************************)
EXTENDS Integers, FiniteSets, Sequences, SequencesExt

CONSTANTS Procs,          \* instances of the program, with one job each
          Sources,        \* paths of sources
          Jobs,           \* instance -> the sources its job removes, in order
          NoProc,         \* nobody holds the lock
          MaxRuns,        \* bound: jobs, of all instances together
          MaxFaults,      \* bound: failing calls, deaths and power losses
          MaxForeign      \* bound: changes by other programs

ASSUME CleanupAssumption ==
  /\ Sources \subseteq Nat \ {0} /\ IsFiniteSet(Sources)
  /\ Jobs \in [Procs -> Seq(Sources)]
  /\ NoProc \notin Procs
  /\ {MaxRuns, MaxFaults, MaxForeign} \subseteq Nat

(***************************************************************************)
(* A file is its identity (file system and inode); identities are not used *)
(* again.  The file first at a path has the number of the path.            *)
(***************************************************************************)
None  == 0
Fresh == {-k : k \in 1 .. MaxForeign}
File  == Sources \cup Fresh
Slot  == File \cup {None}

\* The paths around one source: its own, the one in the private directory,
\* the name beside it where it is preserved, and what the trash has of it.
\* One preserved name instead of a thousand: the limit is met early.
Dir == [orig : Slot, staged : Slot, spare : Slot, bin : SUBSET File]

\* SourceCleanupRecord; its paths follow from the source.
Record   == [src : Sources, identity : File]
NoRecord == [src |-> None, identity |-> None]

Outcomes == {"none", "busy", "restored", "preserved", "changed", "cleared",
             "unknown", "error"}
Statuses == {"none", "completed", "blocked", "partial", "failed", "cancelled"}
NoResult == [status |-> "none", moved |-> 0, review |-> FALSE]

Points == {"off", "idle", "next", "begin", "saveJournal", "stage", "syncStage",
           "verify", "trash", "complete", "again", "decide", "move", "sync",
           "clear", "syncClear"}

\* Why a record is being settled: at the start of an instance, after a begin
\* that failed, to undo, or because the trash has the source.
Modes == {"start", "begin", "restore", "trash"}

\* A snapshot is what was archived: the file, and whether it was edited yet.
NoFile == [file |-> None, edited |-> FALSE]
Snapshot == [file : Slot, edited : BOOLEAN]

Process ==
  [at : Points, todo : Seq(Sources), plan : [Sources -> Snapshot],
   rec : Record \cup {NoRecord}, mode : Modes, gives : Statuses,
   reviewed : BOOLEAN, to : {"orig", "spare"}, outcome : Outcomes,
   moved : Nat, taken : SUBSET File, notice : Outcomes,
   result : [status : Statuses, moved : Nat, review : BOOLEAN]]

Newborn ==
  [at |-> "off", todo |-> <<>>, plan |-> [s \in Sources |-> NoFile],
   rec |-> NoRecord, mode |-> "start", gives |-> "failed", reviewed |-> FALSE,
   to |-> "orig", outcome |-> "none", moved |-> 0, taken |-> {},
   notice |-> "none", result |-> NoResult]

VARIABLES
  fs,         \* source -> the files around it, as programs see them
  disk,       \* source -> what a power loss may leave of it
  journal,    \* the record in source-cleanup.json
  saved,      \* what a power loss may leave of the journal
  lock,       \* who holds source-cleanup.lock
  proc,       \* instance -> Process
  edited,     \* files whose content was changed
  archived,   \* history: snapshots of all jobs
  kept,       \* history: files that are safely there and that no other
              \* program has removed
  runs, touched, faults       \* what was used of the bounds

disks == <<fs, disk, journal, saved>>
others == <<edited, archived, kept>>
bounds == <<runs, touched, faults>>
vars == <<disks, lock, proc, others, bounds>>

Settling == {"decide", "move", "sync", "clear"}
Locked   == Settling \cup {"saveJournal", "stage", "syncStage", "verify",
                           "trash", "complete", "syncClear"}

TypeOK ==
  /\ fs \in [Sources -> Dir]
  /\ disk \in [Sources -> SUBSET Dir] /\ \A s \in Sources : fs[s] \in disk[s]
  /\ journal \in saved /\ saved \subseteq Record \cup {NoRecord}
  /\ proc \in [Procs -> Process]
  /\ \A p \in Procs : (lock = p) <=> (proc[p].at \in Locked)
  /\ edited \subseteq File /\ kept \subseteq File
  /\ archived \subseteq Snapshot
  /\ runs <= MaxRuns /\ touched <= MaxForeign /\ faults <= MaxFaults

Init ==
  /\ fs = [s \in Sources |-> [orig |-> s, staged |-> None, spare |-> None,
                              bin |-> {}]]
  /\ disk = [s \in Sources |-> {fs[s]}]
  /\ journal = NoRecord /\ saved = {NoRecord}
  /\ lock = NoProc
  /\ proc = [p \in Procs |-> Newborn]
  /\ edited = {} /\ archived = {} /\ kept = Sources
  /\ runs = 0 /\ touched = 0 /\ faults = 0

-----------------------------------------------------------------------------
(***************************************************************************)
(* Building blocks.  Operators that change `proc` take the process as it   *)
(* is to be; a step with Fails in it is one of the bounded failures.       *)
(***************************************************************************)
At(p, point) == proc[p].at = point /\ UNCHANGED <<touched, runs>>
Works == UNCHANGED faults
Fails == faults < MaxFaults /\ faults' = faults + 1

Becomes(p, q) == proc' = [proc EXCEPT ![p] = q]
Goes(p, at) == Becomes(p, [proc[p] EXCEPT !.at = at])
Holds == UNCHANGED lock
Releases == lock' = NoProc

Put(s, d) ==
  /\ fs' = [fs EXCEPT ![s] = d]
  /\ disk' = [disk EXCEPT ![s] = @ \cup {d}]
Present(d) == ({d.orig, d.staged, d.spare} \cup d.bin) \ {None}
SyncSource(s) ==
  /\ disk' = [disk EXCEPT ![s] = {fs[s]}]
  /\ kept' = kept \cup Present(fs[s])
  /\ UNCHANGED <<fs, edited, archived>>
SyncJournal == saved' = {journal} /\ UNCHANGED journal
WriteJournal(r) == journal' = r /\ saved' = saved \cup {r}

SameFiles == UNCHANGED <<fs, disk>>
SameJournal == UNCHANGED <<journal, saved>>

\* StagedRestoreOutcome::needs_recovery of what a recovery has come to.
NeedsReview(outcome, reviewed) ==
  reviewed \/ outcome \notin {"restored", "cleared"}

\* The end of a job: cleanup_result_after_restore and the other results.
Reports(q, status, review) ==
  [q EXCEPT !.at = "idle", !.rec = NoRecord, !.todo = <<>>, !.outcome = "none",
            !.plan = Newborn.plan, !.moved = 0, !.taken = {},
            !.gives = "failed", !.reviewed = FALSE, !.to = "orig",
            !.mode = "start",
            !.result = [status |-> IF ~review THEN status
                                   ELSE IF q.moved = 0 THEN "failed"
                                   ELSE "partial",
                        moved |-> q.moved, review |-> review]]

\* restore_staged_cleanup: what the job reports when the source is back.
Restores(q, status, reviewed) ==
  [q EXCEPT !.at = "decide", !.mode = "restore", !.gives = status,
            !.reviewed = reviewed]

\* A recovery that q has run comes to an end: at the start, and after a
\* failed begin, the user is told; otherwise the job only reports.
Ended(q, outcome) ==
  LET told == IF q.mode = "restore" THEN q
              ELSE [q EXCEPT !.notice = outcome]
  IN  IF q.mode = "start" THEN [told EXCEPT !.at = "idle", !.rec = NoRecord]
      ELSE Reports(told, q.gives, NeedsReview(outcome, q.reviewed))

\* A call fails while a record is settled.  When it fails after the trash has
\* taken the source the recovery has a look at it too.
Stuck(p) ==
  LET q == proc[p]
  IN  IF q.mode = "trash"
        THEN /\ Becomes(p, Restores([q EXCEPT !.moved = @ + 1], "failed", TRUE))
             /\ Holds
        ELSE Becomes(p, Ended(q, "error")) /\ Releases

-----------------------------------------------------------------------------
(***************************************************************************)
(* Pending records: at the start of an instance, when the user looks again *)
(* after the lock was busy, and when a job cannot begin.                   *)
(***************************************************************************)
\* Mutant: the lock is not tried.
RecoverPending_Anyway(p, mode) ==
  LET q == [proc[p] EXCEPT !.mode = mode]
  IN  \/ journal = NoRecord /\ Becomes(p, Ended(q, "none")) /\ Holds
      \/ /\ journal # NoRecord
         /\ lock' = p
         /\ Becomes(p, [q EXCEPT !.at = "decide", !.rec = journal])

RecoverPending(p, mode) ==
  LET q == [proc[p] EXCEPT !.mode = mode]
  IN  \/ lock # NoProc /\ Becomes(p, Ended(q, "busy")) /\ Holds
      \/ /\ lock = NoProc /\ journal = NoRecord
         /\ Becomes(p, Ended(q, "none")) /\ Holds
      \/ /\ lock = NoProc /\ journal # NoRecord
         /\ lock' = p
         /\ Becomes(p, [q EXCEPT !.at = "decide", !.rec = journal])

Start(p) ==
  /\ At(p, "off") /\ RecoverPending(p, "start")
  /\ SameFiles /\ SameJournal /\ UNCHANGED others /\ Works

Notice(p) ==
  /\ At(p, "idle") /\ proc[p].notice = "busy" /\ RecoverPending(p, "start")
  /\ SameFiles /\ SameJournal /\ UNCHANGED others /\ Works

Again(p) ==
  /\ At(p, "again") /\ RecoverPending(p, "begin")
  /\ SameFiles /\ SameJournal /\ UNCHANGED others /\ Works

-----------------------------------------------------------------------------
(***************************************************************************)
(* A job.  It archives the sources, keeps their snapshots, and when the    *)
(* archive is finished it removes them one by one.                         *)
(***************************************************************************)
\* capture_tree_snapshot.
Snap(file) == [file |-> file, edited |-> file \in edited]

Run(p) ==
  LET job  == Jobs[p]
      plan == [s \in Sources |->
                 IF s \in ToSet(job)
                   THEN Snap(fs[s].orig)
                   ELSE NoFile]
  IN  /\ proc[p].at = "idle" /\ runs < MaxRuns
      /\ \A s \in ToSet(job) : fs[s].orig # None
      /\ Becomes(p, [proc[p] EXCEPT !.at = "next", !.todo = job, !.plan = plan,
                                    !.result = NoResult])
      /\ archived' = archived \cup {plan[s] : s \in ToSet(job)}
      /\ runs' = runs + 1
      /\ UNCHANGED <<disks, lock, edited, kept, touched, faults>>

\* Everything is in the trash, or the job is cancelled between two sources.
Finish(p) ==
  /\ At(p, "next")
  /\ \/ proc[p].todo = <<>> /\ Becomes(p, Reports(proc[p], "completed", FALSE))
     \/ proc[p].todo # <<>> /\ Becomes(p, Reports(proc[p], "cancelled", FALSE))
  /\ Works /\ UNCHANGED <<disks, lock, others>>

\* create_cleanup_staging_dir and SourceCleanupRecord::new.
Prepare(p) ==
  LET q == proc[p]
      s == Head(q.todo)
  IN  /\ At(p, "next") /\ q.todo # <<>>
      /\ \/ /\ fs[s].orig # None /\ fs[s].spare = None /\ Works
            /\ Becomes(p, [q EXCEPT !.at = "begin",
                                    !.rec = [src |-> s, identity |-> fs[s].orig]])
         \/ /\ IF fs[s].orig # None /\ fs[s].spare = None THEN Fails ELSE Works
            /\ Becomes(p, Reports(q, "failed", FALSE))
      /\ UNCHANGED <<disks, lock, others>>

\* SourceCleanupJournal::begin.  A lock that is held, a record that is there
\* already, and a source that was exchanged stop it; so does a failing write.
MayBegin(rec) ==
  /\ journal = NoRecord
  /\ fs[rec.src].orig = rec.identity
  /\ fs[rec.src].spare = None

Begin(p) ==
  LET rec == proc[p].rec
      may == lock = NoProc /\ MayBegin(rec)
  IN  /\ At(p, "begin")
      /\ \/ /\ may /\ lock' = p /\ WriteJournal(rec)
            /\ Goes(p, "saveJournal") /\ Works
         \/ /\ IF may THEN Fails ELSE Works
            /\ Goes(p, "again") /\ Holds /\ SameJournal
      /\ SameFiles /\ UNCHANGED others

SaveJournal(p) ==
  /\ At(p, "saveJournal")
  /\ \/ SyncJournal /\ Goes(p, "stage") /\ Holds /\ Works
     \/ SameJournal /\ Goes(p, "again") /\ Releases /\ Fails
  /\ SameFiles /\ UNCHANGED others

\* move_path_no_replace into the private directory.
Stage(p) ==
  LET q == proc[p]
      s == q.rec.src
      d == fs[s]
  IN  /\ At(p, "stage")
      /\ \/ /\ d.orig # None /\ Works
            /\ Put(s, [d EXCEPT !.staged = d.orig, !.orig = None])
            /\ Becomes(p, [q EXCEPT !.at = "syncStage",
                                    !.taken = @ \cup {d.orig}])
         \/ /\ IF d.orig # None THEN Fails ELSE Works
            /\ SameFiles /\ Becomes(p, Restores(q, "failed", FALSE))
      /\ Holds /\ SameJournal /\ UNCHANGED others

SyncStage(p) ==
  /\ At(p, "syncStage")
  /\ \/ SyncSource(proc[p].rec.src) /\ Goes(p, "verify") /\ Works
     \/ /\ Becomes(p, Restores(proc[p], "failed", FALSE)) /\ Fails
        /\ SameFiles /\ UNCHANGED others
  /\ Holds /\ SameJournal

-----------------------------------------------------------------------------
(***************************************************************************)
(* The comparison in the private directory, and the trash.                 *)
(***************************************************************************)
\* Mutant: only the identity is compared.
Unchanged_ByIdentity(q) == fs[q.rec.src].staged = q.plan[q.rec.src].file

\* verify_cleanup_candidate_at and confirm_staged_source: the tree is the one
\* that was archived, and the one that was recorded.
Unchanged(q) ==
  LET file == fs[q.rec.src].staged
  IN  /\ Snap(file) = q.plan[q.rec.src]
      /\ file = q.rec.identity

Verify(p) ==
  LET q == proc[p]
      no == IF q.moved = 0 THEN "blocked" ELSE "partial"
  IN  /\ At(p, "verify")
      /\ \/ Unchanged(q) /\ Goes(p, "trash") /\ Works
         \/ /\ Becomes(p, Restores(q, no, FALSE))
            /\ IF Unchanged(q) THEN Fails ELSE Works
         \/ Becomes(p, Restores(q, "cancelled", FALSE)) /\ Works
      /\ Holds /\ SameFiles /\ SameJournal /\ UNCHANGED others

\* What the adapter says and what it has done need not agree.
MoveToTrash(p) ==
  LET q == proc[p]
      s == q.rec.src
      d == fs[s]
      moves == Put(s, [d EXCEPT !.staged = None, !.bin = @ \cup {d.staged}])
      fine  == Becomes(p, [q EXCEPT !.at = "complete"])
      error == Becomes(p, Restores(q, "failed", TRUE))
  IN  /\ At(p, "trash")
      /\ \/ moves /\ fine /\ Works
         \/ moves /\ error /\ Fails
         \/ SameFiles /\ (fine \/ error) /\ Fails
      /\ Holds /\ SameJournal /\ UNCHANGED others

\* Mutant: the adapter's word is taken.
Accepted_Blindly(d) == d.spare = None

\* complete_trash looks before it clears the record.
Accepted(d) == d.staged = None /\ d.spare = None

CompleteTrash(p) ==
  LET q == proc[p]
      d == fs[q.rec.src]
  IN  /\ At(p, "complete")
      /\ \/ /\ Accepted(d)
            /\ Becomes(p, [q EXCEPT !.at = "sync", !.mode = "trash"])
         \/ /\ ~Accepted(d)
            /\ Becomes(p, Restores(IF d.staged = None
                                     THEN [q EXCEPT !.moved = @ + 1] ELSE q,
                                   "failed", TRUE))
      /\ Holds /\ SameFiles /\ SameJournal /\ UNCHANGED others /\ Works

-----------------------------------------------------------------------------
(***************************************************************************)
(* recover_record: where the source is decides what is done and told.      *)
(* Then the directories are synced, and only then the record goes.         *)
(***************************************************************************)
Settled(q, outcome) == [q EXCEPT !.at = "sync", !.outcome = outcome]

\* What is told when nothing is in the private directory.
Found(d, mine) ==
  IF d.spare = mine THEN "preserved"
  ELSE IF d.spare # None THEN "changed"
  ELSE IF d.orig = mine THEN "cleared"
  ELSE IF d.orig # None THEN "changed" ELSE "unknown"

Decide(p) ==
  LET q == proc[p]
      d == fs[q.rec.src]
  IN  /\ At(p, "decide")
      /\ \/ d.staged # None /\ d.spare # None /\ Stuck(p)
         \/ /\ d.staged # None /\ d.spare = None /\ Holds
            /\ Becomes(p, [q EXCEPT !.at = "move",
                             !.to = IF d.orig = None THEN "orig" ELSE "spare"])
         \/ /\ d.staged = None /\ Holds
            /\ Becomes(p, Settled(q, Found(d, q.rec.identity)))
      /\ SameFiles /\ SameJournal /\ UNCHANGED others /\ Works

\* Mutant: the rename replaces what is there.
Free_Anyway(d, to) == to \in {"orig", "spare"}

\* move_path_no_replace fails when the destination has been taken meanwhile.
Free(d, to) == d[to] = None

Move(p) ==
  LET q == proc[p]
      s == q.rec.src
      d == fs[s]
      outcome == IF d.staged # q.rec.identity THEN "changed"
                 ELSE IF q.to = "orig" THEN "restored" ELSE "preserved"
  IN  /\ At(p, "move")
      /\ \/ /\ Free(d, q.to) /\ Works /\ Holds
            /\ Put(s, [d EXCEPT ![q.to] = d.staged, !.staged = None])
            /\ Becomes(p, Settled(q, outcome))
         \/ /\ IF Free(d, q.to) THEN Fails ELSE Works
            /\ Stuck(p) /\ SameFiles
      /\ SameJournal /\ UNCHANGED others

Sync(p) ==
  /\ At(p, "sync")
  /\ \/ SyncSource(proc[p].rec.src) /\ Goes(p, "clear") /\ Holds /\ Works
     \/ Stuck(p) /\ SameFiles /\ UNCHANGED others /\ Fails
  /\ SameJournal

Clear(p) ==
  /\ At(p, "clear")
  /\ \/ /\ journal # NoRecord /\ WriteJournal(NoRecord) /\ Works
        /\ Goes(p, "syncClear") /\ Holds
     \/ SameJournal /\ Stuck(p) /\ Fails
  /\ SameFiles /\ UNCHANGED others

\* The record is gone: the next source follows, or the recovery has ended.
Closes(p) ==
  LET q == proc[p]
  IN  /\ Releases /\ Works
      /\ Becomes(p, IF q.mode = "trash"
                      THEN [q EXCEPT !.at = "next", !.todo = Tail(@),
                                     !.rec = NoRecord, !.mode = "start",
                                     !.moved = @ + 1]
                      ELSE Ended(q, q.outcome))

SyncClear(p) ==
  /\ At(p, "syncClear")
  /\ \/ SyncJournal /\ Closes(p)
     \/ SameJournal /\ Stuck(p) /\ Fails
  /\ SameFiles /\ UNCHANGED others

\* A recovery that follows a failed sync of the clearing finds no journal any
\* more; then clear_journal syncs nothing.
AlreadyClear(p) ==
  /\ At(p, "clear") /\ journal = NoRecord
  /\ Closes(p) /\ SameJournal
  /\ SameFiles /\ UNCHANGED others

-----------------------------------------------------------------------------
(***************************************************************************)
(* What happens to the program and around it.                              *)
(***************************************************************************)
\* The operating system gives the lock back.
Die(p) ==
  /\ proc[p].at # "off" /\ Fails
  /\ Becomes(p, Newborn)
  /\ lock' = IF lock = p THEN NoProc ELSE lock
  /\ UNCHANGED <<disks, others, runs, touched>>

\* Each source's directories and the journal come back as far as they were
\* written.
PowerLoss ==
  /\ Fails
  /\ \E now \in [Sources -> UNION {disk[s] : s \in Sources}] :
       /\ \A s \in Sources : now[s] \in disk[s]
       /\ fs' = now
       /\ disk' = [s \in Sources |-> {now[s]}]
  /\ \E r \in saved : journal' = r /\ saved' = {r}
  /\ proc' = [p \in Procs |-> Newborn]
  /\ lock' = NoProc
  /\ UNCHANGED <<others, runs, touched>>

\* Another program puts a new file at the source's path, or at the name beside
\* it, or removes what is at the source's path.
NewFile == -(touched + 1)

Change(s) ==
  LET d == fs[s] IN
  /\ touched < MaxForeign /\ touched' = touched + 1
  /\ \/ Put(s, [d EXCEPT !.orig = NewFile]) /\ kept' = kept \ {d.orig}
     \/ /\ d.orig # None
        /\ Put(s, [d EXCEPT !.orig = None]) /\ kept' = kept \ {d.orig}
     \/ /\ d.spare = None
        /\ Put(s, [d EXCEPT !.spare = NewFile]) /\ UNCHANGED kept
  /\ UNCHANGED <<journal, saved, lock, proc, edited, archived, runs, faults>>

\* It has it synced.
Flush(s) ==
  /\ disk[s] # {fs[s]}
  /\ \E file \in Fresh : file \in Present(fs[s]) \ kept
  /\ SyncSource(s)
  /\ UNCHANGED <<journal, saved, lock, proc, bounds>>

\* It edits a file in place, one that it has had open perhaps.
Edit(s) ==
  LET d == fs[s] IN
  /\ touched < MaxForeign /\ touched' = touched + 1
  /\ \E file \in {d.orig, d.staged} \ ({None} \cup edited) :
       /\ file = d.staged =>
            \A p \in Procs : ~(proc[p].at = "trash" /\ proc[p].rec.src = s)
       /\ edited' = edited \cup {file}
  /\ UNCHANGED <<disks, lock, proc, archived, kept, runs, faults>>

-----------------------------------------------------------------------------
Step(p) ==
  \/ Start(p) \/ Notice(p) \/ Again(p)
  \/ Run(p) \/ Finish(p) \/ Prepare(p)
  \/ Begin(p) \/ SaveJournal(p) \/ Stage(p) \/ SyncStage(p)
  \/ Verify(p) \/ MoveToTrash(p) \/ CompleteTrash(p)
  \/ Decide(p) \/ Move(p) \/ Sync(p) \/ Clear(p) \/ SyncClear(p)
  \/ AlreadyClear(p) \/ Die(p)

Next ==
  \/ \E p \in Procs : Step(p)
  \/ PowerLoss
  \/ \E s \in Sources : Change(s) \/ Flush(s) \/ Edit(s)

Spec == Init /\ [][Next]_vars

-----------------------------------------------------------------------------
(***************************************************************************)
(* Properties.                                                             *)
(***************************************************************************)
\* What the trash gets is what an archive has: the same file, not edited
\* since the job took its snapshot, even when it was exchanged or edited
\* while the archive was written or on its way into the private directory
\* (verify_cleanup_candidate_at).
TrashedWasArchived ==
  \A s \in Sources : \A file \in fs[s].bin : Snap(file) \in archived

\* No file is lost: what is safely there, a source or a file that another
\* program has put in its way, stays at its place, in the private directory,
\* beside its place or in the trash, through crashes and failing calls, until
\* another program removes it (move_path_no_replace).  And a source in the
\* private directory is in the record, so that no later start leaves it hidden
\* there (begin writes and syncs the record first, clear_then_remove_holder
\* removes it last).
HiddenIsRecorded ==
  \A s \in Sources : fs[s].staged # None => journal.src = s
NothingLost ==
  /\ \A file \in kept : \E s \in Sources : file \in Present(fs[s])
  /\ HiddenIsRecorded

\* A result that asks for no review is true: of the sources the job has taken
\* those it counts as moved are in the trash, the others are back at their
\* places unless another program has removed them; and a completed job has
\* removed all (cleanup_result_after_restore).
ResultsAreTrue ==
  [][\A p \in Procs :
       LET r == proc'[p].result
           q == proc[p]
           gone == {file \in q.taken :
                      \E s \in Sources : file \in fs'[s].bin}
           back == {file \in q.taken :
                      \E s \in Sources : fs'[s].orig = file}
       IN  (r # q.result /\ r.status # "none" /\ ~r.review) =>
             /\ Cardinality(gone) = r.moved
             /\ q.taken \cap kept' \subseteq gone \cup back
             /\ r.status = "completed" => r.moved = Len(Jobs[p])]_vars

\* What a recovery tells is true when its record is gone: a restored or a
\* cleared source is at its place, a preserved one beside it, unless another
\* program has removed it, and none is left in the private directory.
RecoveryTellsTheTruth ==
  [][\A p \in Procs :
       LET q == proc[p]
           d == fs[q.rec.src]
           there(place) == d[place] = q.rec.identity \/ q.rec.identity \notin kept
       IN  (q.at = "clear" /\ q.mode # "trash" /\ proc'[p].at = "syncClear") =>
             /\ d.staged = None
             /\ q.outcome \in {"restored", "cleared"} => there("orig")
             /\ q.outcome = "preserved" => there("spare")
             /\ q.outcome = "unknown" => q.rec.identity \notin {d.orig, d.spare}
    ]_vars

\* What the two kinds of report say is true.  [source_cleanup.rs
\* SourceCleanupResult; source_cleanup_journal.rs SourceCleanupRecovery]
ReportsAreTrue == ResultsAreTrue /\ RecoveryTellsTheTruth
=============================================================================
