------------------------ MODULE SourceCleanupProofs ------------------------
(***************************************************************************)
(* Theorems about SourceCleanup, for any instances, sources, jobs and      *)
(* faults: no file is lost or left hidden, and the trash gets nothing that *)
(* is not in an archive.                                                   *)
(***************************************************************************)
EXTENDS SourceCleanup, FiniteSetTheorems, TLAPS

(***************************************************************************)
(* What holds of every directory that a power loss may leave, whichever    *)
(* combination of them it leaves.                                          *)
(***************************************************************************)
\* A file is at one place of a source.
Proper(d) ==
  /\ d.orig # None => d.orig \notin {d.staged, d.spare} \cup d.bin
  /\ d.staged # None => d.staged \notin {d.spare} \cup d.bin
  /\ d.spare # None => d.spare \notin d.bin

\* Identities are used once: the ones to come are smaller.
Known(file) == file >= -touched

DirOK(s, d) ==
  /\ Proper(d) /\ \A file \in Present(d) : Known(file)
  /\ d.bin \subseteq fs[s].bin
  /\ \A file \in d.bin : Snap(file) \in archived

\* A file belongs to one source.
Apart ==
  \A s, t \in Sources : s # t =>
    \A d \in disk[s], e \in disk[t] : Present(d) \cap Present(e) = {}

Safe == \A file \in kept : \E s \in Sources : \A d \in disk[s] :
          file \in Present(d)

\* Whatever is left of the journal names the source that is hidden.
Hidden ==
  \A s \in Sources : \A d \in disk[s] :
    d.staged # None => \A r \in saved : r.src = s

DiskOK ==
  /\ \A s \in Sources : \A d \in disk[s] : DirOK(s, d)
  /\ \A r \in saved : r # NoRecord => Known(r.identity)
  /\ Apart /\ Safe /\ Hidden

Counted == runs \in Nat /\ touched \in Nat /\ faults \in Nat

-----------------------------------------------------------------------------
(***************************************************************************)
(* What an instance knows, at each point.                                  *)
(***************************************************************************)
Removing == {"saveJournal", "stage", "syncStage", "verify", "trash",
             "complete"}

\* The private directories are empty, whatever is lost.
Bare(s) == \A d \in disk[s] : d.staged = None

\* The file is nowhere and not owed to anybody.
Vanished(file) ==
  file \notin kept /\ \A s \in Sources : file \notin Present(fs[s])

\* What the outcome of a recovery says.
Truth(q) ==
  LET d == fs[q.rec.src] IN
  /\ q.outcome \in {"restored", "cleared"} =>
       d.orig = q.rec.identity \/ Vanished(q.rec.identity)
  /\ q.outcome = "preserved" =>
       d.spare = q.rec.identity \/ Vanished(q.rec.identity)
  /\ q.outcome = "unknown" => q.rec.identity \notin {d.orig, d.spare}

Knows(p) ==
  LET q  == proc[p]
      at == q.at
      s  == q.rec.src IN
  /\ \A t \in Sources : q.plan[t] = NoFile \/ q.plan[t] \in archived
  /\ at \in {"begin", "syncClear"} \cup Removing \cup Settling =>
       q.rec \in Record /\ Known(q.rec.identity)
  /\ at \in {"begin"} \cup Removing => q.todo # <<>>
  /\ at \in {"syncClear"} \cup Settling /\ q.mode = "trash" => q.todo # <<>>
  /\ at \in Removing => journal = q.rec
  /\ at \in {"saveJournal", "stage"} => \A t \in Sources : Bare(t)
  /\ at \in Removing \ {"saveJournal"} => saved = {journal}
  /\ at = "trash" => fs[s].staged \in File /\ Snap(fs[s].staged) \in archived
  /\ at \in Settling => journal \in {q.rec, NoRecord}
  /\ at \in {"sync", "clear"} => fs[s].staged = None
  /\ at \in {"sync", "clear", "syncClear"} /\ q.mode # "trash" => Truth(q)
  /\ at = "clear" => Bare(s)
  /\ at = "syncClear" => journal = NoRecord

IInv == TypeOK /\ DiskOK /\ Counted /\ \A p \in Procs : Knows(p)

-----------------------------------------------------------------------------
(***************************************************************************)
(* Values, and the records of an instance.                                 *)
(***************************************************************************)
\* What there is to know about files and records.
LEMMA Values ==
  /\ Sources \subseteq Nat /\ None \notin File /\ File \subseteq Int
  /\ Fresh \subseteq Int
  /\ NoRecord \notin Record /\ NoFile \in Snapshot
  /\ \A r \in Record : r.src \in Sources /\ r.identity \in File
                       /\ r # NoRecord
  /\ \A file \in File : file # None /\ file \in Slot
  /\ None \in Slot
<1>1. Sources \subseteq Nat \ {0} /\ MaxForeign \in Nat
  BY CleanupAssumption
<1>2. Fresh \subseteq Int /\ 0 \notin Fresh
  BY <1>1 DEF Fresh
<1>3. NoRecord.src \notin Sources
  BY <1>1 DEF NoRecord, None
<1> QED
  BY <1>1, <1>2, <1>3
  DEF None, File, Slot, Record, NoFile, Snapshot

\* The file another program puts somewhere is one that was nowhere before.
LEMMA NewOne ==
  ASSUME touched \in Nat, touched < MaxForeign, NEW file \in Int, Known(file)
  PROVE  /\ NewFile \in File /\ NewFile \in Slot /\ NewFile # None
         /\ NewFile # file /\ NewFile >= -(touched + 1)
<1>1. /\ touched + 1 \in 1 .. MaxForeign /\ NewFile = -(touched + 1)
      /\ NewFile # 0
  BY CleanupAssumption DEF NewFile
<1>2. NewFile \in Fresh
  BY <1>1 DEF Fresh
<1> QED
  BY <1>1, <1>2 DEF File, Slot, None, Known

\* A snapshot changes when the file is edited, and only then.
LEMMA Snaps ==
  ASSUME NEW file
  PROVE  /\ file \in Slot => Snap(file) \in Snapshot
         /\ Snap(file).file = file
         /\ (file \in edited' <=> file \in edited) => Snap(file)' = Snap(file)
<1>1. CASE file \in edited
  <2>1. Snap(file) = [file |-> file, edited |-> TRUE]
    BY <1>1 DEF Snap
  <2>2. file \in edited' => Snap(file)' = [file |-> file, edited |-> TRUE]
    BY DEF Snap
  <2> QED
    BY <1>1, <2>1, <2>2 DEF Snapshot
<1>2. CASE file \notin edited
  <2>1. Snap(file) = [file |-> file, edited |-> FALSE]
    <3>1. (file \in edited) = FALSE
      BY <1>2
    <3> QED
      BY <3>1 DEF Snap
  <2>2. file \notin edited' => Snap(file)' = [file |-> file, edited |-> FALSE]
    <3>1. file \notin edited' => (file \in edited') = FALSE
      OBVIOUS
    <3> QED
      BY <3>1 DEF Snap
  <2> QED
    BY <1>2, <2>1, <2>2 DEF Snapshot
<1> QED
  BY <1>1, <1>2

\* The end of a job.  [source_cleanup.rs cleanup_result_after_restore]
LEMMA Reported ==
  ASSUME NEW q \in Process, NEW status \in Statuses, NEW review \in BOOLEAN
  PROVE  /\ Reports(q, status, review) \in Process
         /\ Reports(q, status, review).at = "idle"
         /\ \A t \in Sources : Reports(q, status, review).plan[t] = NoFile
<1>1. PICK r : r = [status |-> IF ~review THEN status
                               ELSE IF q.moved = 0 THEN "failed" ELSE "partial",
                    moved |-> q.moved, review |-> review]
  OBVIOUS
<1>2. r \in [status : Statuses, moved : Nat, review : BOOLEAN]
  <2>1. CASE review
    BY <1>1, <2>1 DEF Statuses, Process
  <2>2. CASE ~review
    BY <1>1, <2>2 DEF Statuses, Process
  <2> QED
    BY <2>1, <2>2
<1>3. /\ Newborn.plan \in [Sources -> Snapshot]
      /\ \A t \in Sources : Newborn.plan[t] = NoFile
  BY Values DEF Newborn
<1>4. PICK next : next =
        [q EXCEPT !.at = "idle", !.rec = NoRecord, !.todo = <<>>,
                  !.outcome = "none", !.plan = Newborn.plan, !.moved = 0,
                  !.taken = {}, !.gives = "failed", !.reviewed = FALSE,
                  !.to = "orig", !.mode = "start", !.result = r]
  OBVIOUS
<1>5. next \in Process /\ next.at = "idle" /\ next.plan = Newborn.plan
  <2>1. <<>> \in Seq(Sources)
    OBVIOUS
  <2>2. PICK plan \in [Sources -> Snapshot] : plan = Newborn.plan
    BY <1>3
  <2>3. next = [at |-> "idle", todo |-> <<>>, plan |-> plan, rec |-> NoRecord,
                mode |-> "start", gives |-> "failed", reviewed |-> FALSE,
                to |-> "orig", outcome |-> "none", moved |-> 0, taken |-> {},
                notice |-> q.notice, result |-> r]
    BY <1>4, <2>2 DEF Process
  <2>4. q.notice \in Outcomes
    BY DEF Process
  <2>5. /\ next.at = "idle" /\ next.plan = Newborn.plan
    BY <2>2, <2>3
  <2>6. next \in Process
    BY <1>2, <2>1, <2>2, <2>3, <2>4 DEF Process, Points, Statuses, Outcomes, Modes
  <2> QED
    BY <2>5, <2>6
<1>6. Reports(q, status, review) = next
  BY <1>1, <1>4 DEF Reports
<1> QED
  BY <1>3, <1>5, <1>6

\* The end of a recovery.  [source_cleanup_journal.rs recover_pending]
LEMMA HasEnded ==
  ASSUME NEW q \in Process, NEW outcome \in Outcomes
  PROVE  /\ Ended(q, outcome) \in Process /\ Ended(q, outcome).at = "idle"
         /\ \A t \in Sources : Ended(q, outcome).plan[t] \in {NoFile, q.plan[t]}
<1>1. PICK told : told = IF q.mode = "restore" THEN q
                         ELSE [q EXCEPT !.notice = outcome]
  OBVIOUS
<1>2. told \in Process /\ told.plan = q.plan /\ q.gives \in Statuses
  BY <1>1 DEF Process
<1>3. CASE q.mode = "start"
  <2>1. Ended(q, outcome) = [told EXCEPT !.at = "idle", !.rec = NoRecord]
    BY <1>1, <1>3 DEF Ended
  <2> QED
    BY <1>2, <2>1 DEF Process, Points
<1>4. CASE q.mode # "start"
  <2>1. PICK review \in BOOLEAN : review = NeedsReview(outcome, q.reviewed)
    BY DEF NeedsReview
  <2>2. Ended(q, outcome) = Reports(told, q.gives, review)
    BY <1>1, <1>4, <2>1 DEF Ended
  <2> QED
    BY <1>2, <2>2, Reported
<1> QED
  BY <1>3, <1>4

\* The recovery is asked to put the source back.
LEMMA Restored ==
  ASSUME NEW q \in Process, NEW status \in Statuses, NEW reviewed \in BOOLEAN
  PROVE  /\ Restores(q, status, reviewed) \in Process
         /\ Restores(q, status, reviewed).at = "decide"
         /\ Restores(q, status, reviewed).mode = "restore"
         /\ Restores(q, status, reviewed).rec = q.rec
         /\ Restores(q, status, reviewed).plan = q.plan
BY DEF Restores, Process, Points, Modes, Statuses

-----------------------------------------------------------------------------
(***************************************************************************)
(* What all steps have in common.                                          *)
(***************************************************************************)
\* What there is to know about the state.
LEMMA Types ==
  ASSUME IInv, NEW p \in Procs
  PROVE  /\ proc \in [Procs -> Process] /\ proc[p] \in Process /\ Knows(p)
         /\ \A q \in Procs : Knows(q)
         /\ fs \in [Sources -> Dir] /\ touched \in Nat /\ faults \in Nat
         /\ runs \in Nat
         /\ \A s \in Sources : fs[s] \in disk[s]
                               /\ \A d \in disk[s] : d \in Dir /\ DirOK(s, d)
         /\ journal \in saved /\ saved \subseteq Record \cup {NoRecord}
         /\ (lock = p) <=> (proc[p].at \in Locked)
         /\ proc[p].at \in Points
         /\ Apart /\ Safe /\ Hidden
BY DEF IInv, TypeOK, DiskOK, Counted, Process

\* Identities that were given stay given.
LEMMA Later ==
  ASSUME touched \in Nat, touched' \in {touched, touched + 1}
  PROVE  \A file \in Int : Known(file) => Known(file)'
<1>1. PICK a, b : a = touched /\ b = touched'
  OBVIOUS
<1>2. a \in Nat /\ b \in Nat /\ a <= b
  BY <1>1
<1>3. \A file \in Int : file >= -a => file >= -b
  BY <1>2
<1> QED
  BY <1>1, <1>3 DEF Known

\* Who does not hold the lock knows nothing of the directories.
LEMMA Waits ==
  ASSUME IInv, NEW q \in Procs, proc'[q] = proc[q], proc[q].at \notin Locked,
         archived \subseteq archived', touched' \in {touched, touched + 1}
  PROVE  Knows(q)'
<1>1. /\ Knows(q) /\ touched \in Nat /\ proc[q].at \in Points
      /\ proc[q].at \notin {"syncClear"} \cup Removing \cup Settling
  BY Types DEF Locked, Removing
<1>2. proc[q].rec \in Record /\ Known(proc[q].rec.identity) =>
        Known(proc[q].rec.identity)'
  BY <1>1, Later, Values
<1> QED
  BY <1>1, <1>2 DEF Knows, Removing, Settling

\* What an instance knows stays true when the files stay as they are.
LEMMA Stays ==
  ASSUME IInv, NEW q \in Procs, proc'[q] = proc[q],
         UNCHANGED <<fs, disk, journal, saved, edited, kept, touched>>,
         archived \subseteq archived'
  PROVE  Knows(q)'
<1>1. Knows(q)
  BY Types
<1>2. \A file : Snap(file)' = Snap(file) /\ Known(file)' = Known(file)
                /\ Vanished(file)' = Vanished(file)
  BY Snaps DEF Known, Vanished
<1>3. Truth(proc[q]) => Truth(proc[q])'
  BY <1>2 DEF Truth
<1>4. \A s : Bare(s)' = Bare(s)
  BY DEF Bare
<1> QED
  BY <1>1, <1>2, <1>3, <1>4 DEF Knows

\* The invariant of the disk looks at no instance: it stays when the disk, the
\* record and the lists of what was ever archived do.
LEMMA SameDisk ==
  ASSUME IInv, UNCHANGED <<fs, disk, journal, saved, edited, kept, touched>>,
         archived \subseteq archived'
  PROVE  DiskOK'
<1>1. \A file : Snap(file)' = Snap(file) /\ Known(file)' = Known(file)
  BY Snaps DEF Known
<1>2. ASSUME NEW s \in Sources, NEW d \in disk[s] PROVE DirOK(s, d)'
  <2>1. DirOK(s, d)
    BY DEF IInv, DiskOK
  <2> QED
    BY <1>1, <2>1 DEF DirOK
<1>3. Apart' /\ Safe' /\ Hidden'
  BY DEF IInv, DiskOK, Apart, Safe, Hidden
<1> QED
  BY <1>1, <1>2, <1>3 DEF IInv, DiskOK

\* Instance p is `next` afterwards; files and journal are as they should.
LEMMA Assemble ==
  ASSUME IInv, NEW p \in Procs, NEW next \in Process,
         proc' = [proc EXCEPT ![p] = next],
         lock' = lock \/ {lock, lock'} \subseteq {p, NoProc},
         (lock' = p) <=> (next.at \in Locked),
         fs' \in [Sources -> Dir],
         disk' \in [Sources -> SUBSET Dir], \A s \in Sources : fs'[s] \in disk'[s],
         journal' \in saved', saved' \subseteq Record \cup {NoRecord},
         edited' \subseteq File, kept' \subseteq File,
         archived' \subseteq Snapshot,
         runs' \in Nat, runs' <= MaxRuns, touched' = touched,
         faults' \in Nat, faults' <= MaxFaults,
         DiskOK', Knows(p)', \A q \in Procs \ {p} : Knows(q)'
  PROVE  IInv'
<1>1. /\ proc' \in [Procs -> Process] /\ proc'[p] = next
      /\ \A q \in Procs \ {p} : proc'[q] = proc[q]
  BY Types
<1>2. \A q \in Procs : (lock' = q) <=> (proc'[q].at \in Locked)
  BY <1>1, CleanupAssumption DEF IInv, TypeOK
<1>3. TypeOK'
  BY <1>1, <1>2 DEF IInv, TypeOK
<1>4. Counted'
  BY DEF IInv, Counted
<1> QED
  BY <1>3, <1>4 DEF IInv

\* A call succeeds, or fails while there are failures left.
LEMMA Bounded ==
  ASSUME IInv, Works \/ Fails
  PROVE  faults' \in Nat /\ faults' <= MaxFaults
BY CleanupAssumption DEF IInv, TypeOK, Counted, Works, Fails

\* A step that leaves files and journal as they are.
LEMMA Looks ==
  ASSUME IInv, NEW p \in Procs, NEW next \in Process,
         proc' = [proc EXCEPT ![p] = next],
         lock' = lock \/ {lock, lock'} \subseteq {p, NoProc},
         (lock' = p) <=> (next.at \in Locked),
         UNCHANGED <<fs, disk, journal, saved, edited, kept, touched>>,
         archived \subseteq archived', archived' \subseteq Snapshot,
         runs' \in Nat, runs' <= MaxRuns,
         faults' \in Nat, faults' <= MaxFaults, Knows(p)'
  PROVE  IInv'
<1>1. \A q \in Procs \ {p} : proc'[q] = proc[q]
  BY Types
<1>2. \A q \in Procs \ {p} : Knows(q)'
  BY <1>1, Stays
<1>3. DiskOK'
  BY SameDisk
<1>4. /\ fs \in [Sources -> Dir]
      /\ disk \in [Sources -> SUBSET Dir] /\ \A s \in Sources : fs[s] \in disk[s]
      /\ journal \in saved /\ saved \subseteq Record \cup {NoRecord}
      /\ edited \subseteq File /\ kept \subseteq File
  BY DEF IInv, TypeOK
<1> QED
  BY <1>2, <1>3, <1>4, Assemble

\* The instance is idle afterwards, or not there any more.
LEMMA Rests ==
  ASSUME IInv, NEW p \in Procs, NEW next \in Process,
         proc' = [proc EXCEPT ![p] = next], next.at \in {"off", "idle"},
         \A t \in Sources : next.plan[t] \in {NoFile, proc[p].plan[t]},
         lock' = NoProc \/ (lock' = lock /\ lock # p),
         lock' # lock => lock = p,
         UNCHANGED <<disks, others, runs, touched>>,
         faults' \in Nat, faults' <= MaxFaults
  PROVE  IInv'
<1>1. proc'[p] = next /\ Knows(p) /\ proc[p] \in Process
  BY Types
<1>2. UNCHANGED <<fs, disk, journal, saved, edited, archived, kept>>
  BY DEF disks, others
<1>3. Knows(p)'
  BY <1>1, <1>2 DEF Knows, Removing, Settling
<1>4. lock' # p /\ (lock' = lock \/ {lock, lock'} \subseteq {p, NoProc})
  BY CleanupAssumption
<1>5. archived \subseteq Snapshot /\ runs \in Nat /\ runs <= MaxRuns
  BY DEF IInv, TypeOK, Counted
<1> QED
  BY <1>2, <1>3, <1>4, <1>5, Looks DEF Locked, Settling

-----------------------------------------------------------------------------
(***************************************************************************)
(* Steps that only look.                                                   *)
(***************************************************************************)
\* A call fails while a record is settled.  [source_cleanup_journal.rs
\* recover_record; source_cleanup.rs restore_staged_cleanup]
LEMMA StuckStep ==
  ASSUME IInv, NEW p \in Procs, proc[p].at \in Settling \cup {"syncClear"},
         Stuck(p), UNCHANGED <<disks, others, runs, touched>>,
         Works \/ Fails
  PROVE  IInv'
<1>1. /\ faults' \in Nat /\ faults' <= MaxFaults
      /\ UNCHANGED <<fs, disk, journal, saved, edited, archived, kept, touched>>
      /\ archived \subseteq Snapshot /\ runs \in Nat /\ runs <= MaxRuns
  BY Bounded DEF disks, others, IInv, TypeOK, Counted
<1>2. /\ proc[p] \in Process /\ Knows(p) /\ lock = p
  BY Types DEF Locked
<1>3. CASE /\ proc[p].mode # "trash"
           /\ Becomes(p, Ended(proc[p], "error")) /\ Releases
  BY <1>1, <1>2, <1>3, HasEnded, Rests DEF Becomes, Releases, Outcomes
<1>4. CASE /\ proc[p].mode = "trash" /\ Holds
           /\ Becomes(p, Restores([proc[p] EXCEPT !.moved = @ + 1], "failed",
                                  TRUE))
  <2>0. PICK q, next : /\ q = [proc[p] EXCEPT !.moved = @ + 1]
                       /\ next = Restores(q, "failed", TRUE)
    OBVIOUS
  <2>1. q \in Process /\ q.rec = proc[p].rec /\ q.plan = proc[p].plan
    BY <1>2, <2>0 DEF Process
  <2>2. /\ next \in Process /\ next.at = "decide"
        /\ next.mode = "restore" /\ next.rec = proc[p].rec
        /\ next.plan = proc[p].plan
    BY <2>0, <2>1, Restored DEF Statuses
  <2>3. proc' = [proc EXCEPT ![p] = next] /\ proc'[p] = next /\ lock' = lock
    BY <1>4, <2>0, Types DEF Becomes, Holds
  <2>4. journal \in {proc[p].rec, NoRecord}
    BY <1>2 DEF Knows
  <2>5. Knows(p)'
    BY <1>1, <1>2, <2>2, <2>3, <2>4 DEF Knows, Removing, Settling, Known
  <2> QED
    BY <1>1, <1>2, <2>2, <2>3, <2>5, Looks DEF Locked, Settling
<1> QED
  BY <1>3, <1>4 DEF Stuck

\* source_cleanup_journal.rs recover_pending: the lock is busy, there is
\* nothing to settle, or the record is taken up.
LEMMA Recovering ==
  ASSUME IInv, NEW p \in Procs, NEW mode \in {"start", "begin"},
         proc[p].at \notin Locked, RecoverPending(p, mode),
         UNCHANGED <<disks, others, bounds>>
  PROVE  IInv'
<1>1. /\ faults \in Nat /\ faults <= MaxFaults
      /\ UNCHANGED <<fs, disk, journal, saved, edited, archived, kept, touched,
                     runs, faults>>
      /\ archived \subseteq Snapshot /\ runs \in Nat /\ runs <= MaxRuns
  BY DEF disks, others, bounds, IInv, TypeOK, Counted
<1>2. /\ proc[p] \in Process /\ Knows(p) /\ lock # p
  BY Types
<1>0. PICK q : q = [proc[p] EXCEPT !.mode = mode]
  OBVIOUS
<1>3. q \in Process /\ q.plan = proc[p].plan /\ q.mode = mode
  BY <1>0, <1>2 DEF Process, Modes
<1>4. CASE \E outcome \in Outcomes : Becomes(p, Ended(q, outcome)) /\ Holds
  <2>1. PICK outcome \in Outcomes :
          Becomes(p, Ended(q, outcome)) /\ Holds
    BY <1>4
  <2>2. PICK next : next = Ended(q, outcome)
    OBVIOUS
  <2>3. /\ next \in Process /\ next.at = "idle"
        /\ \A t \in Sources : next.plan[t] \in {NoFile, proc[p].plan[t]}
    BY <1>3, <2>2, HasEnded
  <2> QED
    BY <1>1, <1>2, <2>1, <2>2, <2>3, Rests DEF Becomes, Holds
<1>5. CASE /\ lock = NoProc /\ journal # NoRecord /\ lock' = p
           /\ Becomes(p, [q EXCEPT !.at = "decide", !.rec = journal])
  <2>1. journal \in Record /\ Known(journal.identity)
    BY <1>5, Types DEF IInv, DiskOK
  <2>0. PICK next : next = [q EXCEPT !.at = "decide", !.rec = journal]
    OBVIOUS
  <2>2. /\ next \in Process
        /\ next.at = "decide" /\ next.rec = journal /\ next.mode = mode
        /\ next.plan = proc[p].plan
    BY <1>3, <2>0, <2>1 DEF Process, Points
  <2>3. proc' = [proc EXCEPT ![p] = next] /\ proc'[p] = next
    BY <1>5, <2>0, Types DEF Becomes
  <2>4. Known(journal.identity)'
    BY <1>1, <2>1 DEF Known
  <2>5. Knows(p)'
    BY <1>1, <1>2, <2>1, <2>2, <2>3, <2>4 DEF Knows, Removing, Settling, Known
  <2> QED
    BY <1>1, <1>5, <2>2, <2>3, <2>5, Looks DEF Locked, Settling
<1> QED
  BY <1>0, <1>4, <1>5 DEF RecoverPending, Outcomes

\* source_cleanup.rs new, notice, stage_cleanup_candidate
LEMMA StartSteps ==
  ASSUME IInv, NEW p \in Procs, Start(p) \/ Notice(p) \/ Again(p)
  PROVE  IInv'
BY Recovering DEF Start, Notice, Again, At, SameFiles, SameJournal, Works,
   disks, bounds, Locked, Settling

\* A job takes the snapshots of what it archives.
LEMMA RunStep ==
  ASSUME IInv, NEW p \in Procs, Run(p)
  PROVE  IInv'
<1>1. PICK plan : /\ plan = [s \in Sources |->
                               IF s \in ToSet(Jobs[p]) THEN Snap(fs[s].orig)
                               ELSE NoFile]
                  /\ archived' = archived \cup {plan[s] : s \in ToSet(Jobs[p])}
                  /\ Becomes(p, [proc[p] EXCEPT !.at = "next", !.todo = Jobs[p],
                                       !.plan = plan, !.result = NoResult])
                  /\ \A s \in ToSet(Jobs[p]) : fs[s].orig # None
  BY DEF Run
<1>2. /\ proc[p].at = "idle" /\ runs < MaxRuns /\ runs' = runs + 1
      /\ UNCHANGED <<fs, disk, journal, saved, lock, edited, kept, touched,
                     faults>>
  BY DEF Run, disks
<1>3. /\ proc[p] \in Process /\ Knows(p) /\ lock # p /\ archived \subseteq Snapshot
      /\ faults \in Nat /\ faults <= MaxFaults /\ runs \in Nat
  BY <1>2, Types DEF IInv, TypeOK, Counted, Locked, Settling
<1>4. Jobs[p] \in Seq(Sources) /\ ToSet(Jobs[p]) \subseteq Sources
  BY CleanupAssumption DEF ToSet
<1>5. plan \in [Sources -> Snapshot]
  <2>1. \A s \in Sources : fs[s].orig \in Slot
    BY Types DEF Dir
  <2>2. \A s \in Sources : Snap(fs[s].orig) \in Snapshot
    BY <2>1, Snaps
  <2> QED
    BY <1>1, <2>2, Values
<1>6. archived \subseteq archived' /\ archived' \subseteq Snapshot
  BY <1>1, <1>3, <1>4, <1>5
<1>7. \A t \in Sources : plan[t] = NoFile \/ plan[t] \in archived'
  BY <1>1
<1> DEFINE next == [proc[p] EXCEPT !.at = "next", !.todo = Jobs[p],
                                   !.plan = plan, !.result = NoResult]
<1>8. next \in Process /\ next.at = "next" /\ next.plan = plan
  BY <1>3, <1>4, <1>5 DEF Process, Points, NoResult, Statuses
<1>9. proc' = [proc EXCEPT ![p] = next] /\ proc'[p] = next
  BY <1>1, Types DEF Becomes
<1> HIDE DEF next
<1>10. Knows(p)'
  BY <1>7, <1>8, <1>9 DEF Knows, Removing, Settling
<1>11. runs' \in Nat /\ runs' <= MaxRuns
  BY <1>2, <1>3, CleanupAssumption
<1> QED
  BY <1>2, <1>3, <1>6, <1>8, <1>9, <1>10, <1>11, Looks DEF Locked, Settling

\* source_cleanup.rs complete: everything is moved, or the job is cancelled
LEMMA FinishStep ==
  ASSUME IInv, NEW p \in Procs, Finish(p)
  PROVE  IInv'
<1>1. PICK status \in Statuses : Becomes(p, Reports(proc[p], status, FALSE))
  BY DEF Finish, Statuses
<1>2. /\ proc[p].at = "next"
      /\ UNCHANGED <<disks, lock, others, touched, runs, faults>>
  BY DEF Finish, At, Works
<1>3. proc[p] \in Process /\ lock # p /\ faults \in Nat /\ faults <= MaxFaults
  BY <1>2, Types DEF Locked, Settling, IInv, TypeOK
<1> QED
  <2>1. PICK next : next = Reports(proc[p], status, FALSE)
    OBVIOUS
  <2>2. /\ next \in Process /\ next.at = "idle"
        /\ \A t \in Sources : next.plan[t] = NoFile
    BY <1>3, <2>1, Reported
  <2> QED
    BY <1>1, <1>2, <1>3, <2>1, <2>2, Rests DEF Becomes

\* source_cleanup.rs create_cleanup_staging_dir
LEMMA PrepareStep ==
  ASSUME IInv, NEW p \in Procs, Prepare(p)
  PROVE  IInv'
<1>0. PICK s : s = Head(proc[p].todo)
  OBVIOUS
<1>1. /\ proc[p].at = "next" /\ proc[p].todo # <<>> /\ (Works \/ Fails)
      /\ UNCHANGED <<disks, lock, others, touched, runs>>
  BY DEF Prepare, At
<1>2. /\ proc[p] \in Process /\ Knows(p) /\ lock # p
      /\ archived \subseteq Snapshot /\ faults' \in Nat /\ faults' <= MaxFaults
      /\ runs \in Nat /\ runs <= MaxRuns
      /\ UNCHANGED <<fs, disk, journal, saved, edited, archived, kept>>
  BY <1>1, Types, Bounded DEF Locked, Settling, IInv, TypeOK, Counted, disks, others
<1>3. s \in Sources
  BY <1>0, <1>1, <1>2 DEF Process
<1>4. CASE Becomes(p, Reports(proc[p], "failed", FALSE))
  <2>1. PICK next : next = Reports(proc[p], "failed", FALSE)
    OBVIOUS
  <2>2. /\ next \in Process /\ next.at = "idle"
        /\ \A t \in Sources : next.plan[t] = NoFile
    BY <1>2, <2>1, Reported DEF Statuses
  <2> QED
    BY <1>1, <1>2, <1>4, <2>1, <2>2, Rests DEF Becomes
<1>5. CASE /\ fs[s].orig # None
           /\ Becomes(p, [proc[p] EXCEPT !.at = "begin",
                            !.rec = [src |-> s, identity |-> fs[s].orig]])
  <2>1. fs[s].orig \in File /\ Known(fs[s].orig)
    BY <1>3, <1>5, Types DEF Dir, Slot, DirOK, Present
  <2>0. PICK rec, next :
          /\ rec = [src |-> s, identity |-> fs[s].orig]
          /\ next = [proc[p] EXCEPT !.at = "begin", !.rec = rec]
    OBVIOUS
  <2>2. rec \in Record /\ Known(rec.identity)
    BY <1>3, <2>0, <2>1 DEF Record
  <2>3. /\ next \in Process
        /\ next.at = "begin" /\ next.rec = rec /\ next.plan = proc[p].plan
        /\ next.todo = proc[p].todo
    BY <1>2, <2>0, <2>2 DEF Process, Points
  <2>4. proc' = [proc EXCEPT ![p] = next] /\ proc'[p] = next
    BY <1>5, <2>0, Types DEF Becomes
  <2>5. Knows(p)'
    BY <1>1, <1>2, <2>2, <2>3, <2>4 DEF Knows, Removing, Settling, Known
  <2> QED
    BY <1>1, <1>2, <2>3, <2>4, <2>5, Looks DEF Locked, Settling
<1> QED
  BY <1>0, <1>4, <1>5 DEF Prepare

-----------------------------------------------------------------------------
(***************************************************************************)
(* Changes of files and of the journal.                                    *)
(***************************************************************************)
\* While a loss of power may leave no record, nothing is hidden.
LEMMA AllBare ==
  ASSUME IInv, NoRecord \in saved
  PROVE  \A s \in Sources : Bare(s)
<1>1. NoRecord.src \notin Sources
  BY CleanupAssumption DEF NoRecord, None
<1> QED
  BY <1>1 DEF IInv, DiskOK, Hidden, Bare

\* The journal is written or synced.
LEMMA JournalOK ==
  ASSUME IInv, UNCHANGED <<fs, disk, edited, archived, kept, touched>>,
         \A r \in saved' : r # NoRecord => Known(r.identity),
         (\A s \in Sources : Bare(s)) \/ saved' \subseteq saved
  PROVE  DiskOK'
<1>1. \A file : Snap(file)' = Snap(file)
  BY Snaps
<1>2. ASSUME NEW s \in Sources, NEW d \in disk[s] PROVE DirOK(s, d)'
  <2>1. DirOK(s, d)
    BY DEF IInv, DiskOK
  <2> QED
    BY <1>1, <2>1 DEF DirOK, Known
<1>3. Apart' /\ Safe' /\ Hidden'
  BY DEF IInv, DiskOK, Apart, Safe, Hidden, Bare
<1>4. \A r \in saved' : r # NoRecord => Known(r.identity)'
  BY DEF Known
<1> QED
  BY <1>2, <1>3, <1>4 DEF DiskOK

\* The files around a source are moved, by the instance or another program.
Fitting(s, e, files) ==
  /\ e \in Dir /\ Proper(e) /\ fs[s].bin \subseteq e.bin
  /\ \A file \in e.bin : Snap(file) \in archived
  /\ \A file \in Present(e) :
       \/ file \in Present(fs[s])
       \/ \A t \in Sources : \A d \in disk[t] : file \notin Present(d)
  /\ \A file \in files \cap Present(fs[s]) : file \in Present(e)
  /\ e.staged # None => \A r \in saved : r.src = s

\* Such a change keeps the invariant of the disk.
LEMMA PutOK ==
  ASSUME IInv, NEW s \in Sources, NEW e, Put(s, e),
         UNCHANGED <<saved, edited, archived>>,
         kept' \subseteq kept, touched' \in {touched, touched + 1},
         \A file \in Present(e) : Known(file)', Fitting(s, e, kept')
  PROVE  /\ DiskOK' /\ fs' \in [Sources -> Dir]
         /\ disk' \in [Sources -> SUBSET Dir] /\ \A t \in Sources : fs'[t] \in disk'[t]
         /\ fs'[s] = e /\ \A t \in Sources : t # s => fs'[t] = fs[t]
<1>1. /\ fs \in [Sources -> Dir] /\ touched \in Nat
      /\ \A t \in Sources : fs[t] \in disk[t]
                            /\ \A d \in disk[t] : d \in Dir /\ DirOK(t, d)
      /\ Apart /\ Safe /\ Hidden /\ saved \subseteq Record \cup {NoRecord}
      /\ \A r \in saved : r # NoRecord => Known(r.identity)
      /\ disk \in [Sources -> SUBSET Dir]
  BY DEF IInv, TypeOK, DiskOK, Counted
<1>2. /\ fs'[s] = e /\ \A t \in Sources : t # s => fs'[t] = fs[t]
      /\ fs' \in [Sources -> Dir]
  BY <1>1 DEF Put, Fitting
<1>3. \A t \in Sources : /\ fs'[t] \in disk'[t]
                         /\ \A d \in disk'[t] : d \in disk[t] \/ (t = s /\ d = e)
  BY <1>1, <1>2 DEF Put
<1>4. disk' \in [Sources -> SUBSET Dir]
  BY <1>1 DEF Put, Fitting
<1>5. \A d \in Dir : Present(d) \subseteq Int
  BY Values DEF Dir, Present, Slot
<1>6. \A file \in Int : Known(file) => Known(file)'
  BY <1>1, Later
<1>7. \A file : Snap(file)' = Snap(file)
  BY Snaps
<1>8. ASSUME NEW t \in Sources, NEW d \in disk'[t] PROVE DirOK(t, d)'
  <2>1. CASE d \in disk[t]
    <3>1. DirOK(t, d) /\ d \in Dir
      BY <1>1, <2>1
    <3>2. d.bin \subseteq fs'[t].bin
      BY <1>2, <3>1 DEF DirOK, Fitting
    <3>3. \A file \in Present(d) : Known(file)'
      BY <1>5, <1>6, <3>1 DEF DirOK
    <3> QED
      BY <1>7, <3>1, <3>2, <3>3 DEF DirOK
  <2>2. CASE t = s /\ d = e
    BY <1>2, <1>7, <2>2 DEF DirOK, Fitting
  <2> QED
    BY <1>3, <1>8, <2>1, <2>2
<1>9. Apart'
  <2>1. ASSUME NEW t \in Sources, t # s, NEW d \in disk[t]
        PROVE  Present(d) \cap Present(e) = {}
    <3>1. Present(d) \cap Present(fs[s]) = {}
      BY <1>1, <2>1 DEF Apart
    <3> QED
      BY <2>1, <3>1 DEF Fitting
  <2> QED
    BY <1>1, <1>3, <2>1 DEF Apart
<1>10. Safe'
  <2>1. ASSUME NEW file \in kept'
        PROVE  \E t \in Sources : \A d \in disk'[t] : file \in Present(d)
    <3>1. PICK t \in Sources : \A d \in disk[t] : file \in Present(d)
      BY <1>1, <2>1 DEF Safe
    <3>2. t = s => file \in Present(e)
      BY <1>1, <3>1 DEF Fitting
    <3> QED
      BY <1>3, <3>1, <3>2
  <2> QED
    BY <2>1 DEF Safe
<1>11. Hidden'
  BY <1>1, <1>3 DEF Hidden, Fitting
<1>12. \A r \in saved' : r # NoRecord => Known(r.identity)'
  <2>1. ASSUME NEW r \in saved, r # NoRecord PROVE Known(r.identity)'
    BY <1>1, <1>6, <2>1, Values
  <2> QED
    BY <2>1
<1>13. DiskOK'
  BY <1>8, <1>9, <1>10, <1>11, <1>12 DEF DiskOK
<1> QED
  BY <1>2, <1>3, <1>4, <1>13

\* The directories of a source are synced.
LEMMA SyncOK ==
  ASSUME IInv, NEW s \in Sources, SyncSource(s), UNCHANGED <<saved, touched>>
  PROVE  /\ DiskOK' /\ kept' \subseteq File
         /\ disk' \in [Sources -> SUBSET Dir] /\ \A t \in Sources : fs'[t] \in disk'[t]
         /\ \A t \in Sources : disk'[t] \subseteq disk[t]
         /\ \A d \in disk'[s] : d = fs[s]
         /\ \A file : Vanished(file) => Vanished(file)'
<1>1. /\ fs \in [Sources -> Dir]
      /\ \A t \in Sources : fs[t] \in disk[t]
                            /\ \A d \in disk[t] : d \in Dir /\ DirOK(t, d)
      /\ Apart /\ Safe /\ Hidden /\ kept \subseteq File
      /\ \A r \in saved : r # NoRecord => Known(r.identity)
      /\ UNCHANGED <<fs, edited, archived>> /\ kept' = kept \cup Present(fs[s])
  BY DEF IInv, TypeOK, DiskOK, SyncSource
<1>2. \A t \in Sources : /\ fs[t] \in disk'[t] /\ disk'[t] \subseteq disk[t]
                         /\ t = s => disk'[t] = {fs[s]}
                         /\ disk' \in [Sources -> SUBSET Dir]
  <2>1. disk' = [disk EXCEPT ![s] = {fs[s]}]
    BY DEF SyncSource
  <2> QED
    BY <1>1, <2>1 DEF IInv, TypeOK
<1>3. \A file : Snap(file)' = Snap(file) /\ Known(file)' = Known(file)
  BY <1>1, Snaps DEF Known
<1>4. \A t \in Sources : \A d \in disk'[t] : DirOK(t, d)'
  BY <1>1, <1>2, <1>3 DEF DirOK
<1>5. Safe'
  <2>1. \A file \in Present(fs[s]) : \A d \in disk'[s] : file \in Present(d)
    BY <1>2
  <2> QED
    BY <1>1, <1>2, <2>1 DEF Safe
<1>6. Apart' /\ Hidden'
  BY <1>1, <1>2 DEF Apart, Hidden
<1>7. DiskOK'
  BY <1>1, <1>3, <1>4, <1>5, <1>6 DEF DiskOK
<1>8. Present(fs[s]) \subseteq File
  BY <1>1 DEF Dir, Present, Slot
<1>9. \A file : Vanished(file) => Vanished(file)'
  BY <1>1 DEF Vanished
<1> QED
  BY <1>1, <1>2, <1>7, <1>8, <1>9

\* A step of an instance that holds the lock, or takes it.
LEMMA Acts ==
  ASSUME IInv, NEW p \in Procs, NEW next \in Process,
         proc' = [proc EXCEPT ![p] = next],
         {lock, lock'} \subseteq {p, NoProc},
         (lock' = p) <=> (next.at \in Locked),
         fs' \in [Sources -> Dir],
         disk' \in [Sources -> SUBSET Dir], \A s \in Sources : fs'[s] \in disk'[s],
         journal' \in saved', saved' \subseteq Record \cup {NoRecord},
         UNCHANGED <<edited, archived, runs, touched>>, kept' \subseteq File,
         Works \/ Fails, DiskOK', Knows(p)'
  PROVE  IInv'
<1>1. \A q \in Procs \ {p} : proc[q].at \notin Locked /\ proc'[q] = proc[q]
  BY CleanupAssumption, Types DEF IInv, TypeOK
<1>2. \A q \in Procs \ {p} : Knows(q)'
  BY <1>1, Waits
<1>3. faults' \in Nat /\ faults' <= MaxFaults
  BY Bounded
<1>4. /\ edited \subseteq File /\ archived \subseteq Snapshot /\ runs \in Nat
      /\ runs <= MaxRuns
  BY DEF IInv, TypeOK, Counted
<1> QED
  BY <1>2, <1>3, <1>4, Assemble

-----------------------------------------------------------------------------
(***************************************************************************)
(* Recording a source and moving it aside.                                 *)
(***************************************************************************)
\* A record that is being removed is given to the recovery.
\* [source_cleanup.rs restore_staged_cleanup]
LEMMA Undoes ==
  ASSUME IInv, NEW p \in Procs, NEW next \in Process,
         proc[p].at \in Removing, proc' = [proc EXCEPT ![p] = next],
         next.at = "decide", next.mode = "restore", next.rec = proc[p].rec,
         next.plan = proc[p].plan,
         UNCHANGED <<disks, lock, others, runs, touched>>, Works \/ Fails
  PROVE  IInv'
<1>1. /\ faults' \in Nat /\ faults' <= MaxFaults
      /\ UNCHANGED <<fs, disk, journal, saved, edited, archived, kept, touched>>
      /\ archived \subseteq Snapshot /\ runs \in Nat /\ runs <= MaxRuns
  BY Bounded DEF disks, others, IInv, TypeOK, Counted
<1>2. /\ proc[p] \in Process /\ Knows(p) /\ lock = p /\ proc'[p] = next
  BY Types DEF Locked, Removing
<1>3. Knows(p)'
  BY <1>1, <1>2 DEF Knows, Removing, Settling, Known
<1> QED
  BY <1>1, <1>2, <1>3, Looks DEF Locked, Settling

\* source_cleanup_journal.rs begin
LEMMA BeginStep ==
  ASSUME IInv, NEW p \in Procs, Begin(p)
  PROVE  IInv'
<1>1. /\ proc[p].at = "begin" /\ (Works \/ Fails)
      /\ UNCHANGED <<fs, disk, edited, archived, kept, touched, runs>>
  BY DEF Begin, At, SameFiles, others
<1>2. /\ proc[p] \in Process /\ Knows(p) /\ lock # p
      /\ faults' \in Nat /\ faults' <= MaxFaults
      /\ archived \subseteq Snapshot /\ runs \in Nat /\ runs <= MaxRuns
  BY <1>1, Types, Bounded DEF Locked, Settling, IInv, TypeOK, Counted
<1>3. CASE Goes(p, "again") /\ Holds /\ SameJournal
  <2>0. PICK next : next = [proc[p] EXCEPT !.at = "again"]
    OBVIOUS
  <2>1. next \in Process /\ next.at = "again" /\ next.plan = proc[p].plan
    BY <1>2, <2>0 DEF Process, Points
  <2>2. /\ proc' = [proc EXCEPT ![p] = next] /\ proc'[p] = next
        /\ UNCHANGED <<lock, journal, saved>>
    BY <1>3, <2>0, Types DEF Goes, Becomes, Holds, SameJournal
  <2>3. Knows(p)'
    BY <1>1, <1>2, <2>1, <2>2 DEF Knows, Removing, Settling
  <2> QED
    BY <1>1, <1>2, <2>1, <2>2, <2>3, Looks DEF Locked, Settling
<1>4. CASE /\ lock = NoProc /\ journal = NoRecord /\ lock' = p
           /\ WriteJournal(proc[p].rec) /\ Goes(p, "saveJournal")
  <2>0. PICK next : next = [proc[p] EXCEPT !.at = "saveJournal"]
    OBVIOUS
  <2>1. /\ next \in Process /\ next.at = "saveJournal"
        /\ next.plan = proc[p].plan /\ next.rec = proc[p].rec
        /\ next.todo = proc[p].todo
    BY <1>2, <2>0 DEF Process, Points
  <2>2. /\ proc' = [proc EXCEPT ![p] = next] /\ proc'[p] = next
        /\ journal' = proc[p].rec /\ saved' = saved \cup {proc[p].rec}
    BY <1>4, <2>0, Types DEF Goes, Becomes, WriteJournal
  <2>3. /\ proc[p].rec \in Record /\ Known(proc[p].rec.identity)
        /\ proc[p].todo # <<>>
    BY <1>1, <1>2 DEF Knows
  <2>4. /\ journal \in saved /\ saved \subseteq Record \cup {NoRecord}
        /\ \A r \in saved : r # NoRecord => Known(r.identity)
        /\ fs \in [Sources -> Dir] /\ kept \subseteq File
        /\ disk \in [Sources -> SUBSET Dir] /\ \A s \in Sources : fs[s] \in disk[s]
    BY DEF IInv, TypeOK, DiskOK
  <2>5. \A s \in Sources : Bare(s)
    BY <1>4, <2>4, AllBare
  <2>6. DiskOK'
    BY <1>1, <2>2, <2>3, <2>4, <2>5, JournalOK
  <2>7. Knows(p)'
    BY <1>1, <1>2, <2>1, <2>2, <2>3, <2>5
    DEF Knows, Removing, Settling, Known, Bare
  <2>8. journal' \in saved' /\ saved' \subseteq Record \cup {NoRecord}
    BY <2>2, <2>3, <2>4
  <2> QED
    BY <1>1, <1>4, <2>1, <2>2, <2>4, <2>6, <2>7, <2>8, Acts DEF Locked
<1> QED
  BY <1>3, <1>4 DEF Begin, MayBegin

\* source_cleanup_journal.rs begin, write_record
LEMMA SaveJournalStep ==
  ASSUME IInv, NEW p \in Procs, SaveJournal(p)
  PROVE  IInv'
<1>1. /\ proc[p].at = "saveJournal" /\ (Works \/ Fails)
      /\ UNCHANGED <<fs, disk, edited, archived, kept, touched, runs>>
  BY DEF SaveJournal, At, SameFiles, others
<1>2. /\ proc[p] \in Process /\ Knows(p) /\ lock = p
      /\ faults' \in Nat /\ faults' <= MaxFaults
      /\ archived \subseteq Snapshot /\ runs \in Nat /\ runs <= MaxRuns
  BY <1>1, Types, Bounded DEF Locked, Settling, IInv, TypeOK, Counted
<1>3. CASE SameJournal /\ Goes(p, "again") /\ Releases
  <2>0. PICK next : next = [proc[p] EXCEPT !.at = "again"]
    OBVIOUS
  <2>1. next \in Process /\ next.at = "again" /\ next.plan = proc[p].plan
    BY <1>2, <2>0 DEF Process, Points
  <2>2. /\ proc' = [proc EXCEPT ![p] = next] /\ proc'[p] = next
        /\ lock' = NoProc /\ UNCHANGED <<journal, saved>>
    BY <1>3, <2>0, Types DEF Goes, Becomes, Releases, SameJournal
  <2>3. Knows(p)'
    BY <1>1, <1>2, <2>1, <2>2 DEF Knows, Removing, Settling
  <2>4. (lock' = p) <=> (next.at \in Locked)
    BY <2>1, <2>2, CleanupAssumption DEF Locked, Settling
  <2> QED
    BY <1>1, <1>2, <2>1, <2>2, <2>3, <2>4, Looks
<1>4. CASE SyncJournal /\ Goes(p, "stage") /\ Holds
  <2>0. PICK next : next = [proc[p] EXCEPT !.at = "stage"]
    OBVIOUS
  <2>1. /\ next \in Process /\ next.at = "stage"
        /\ next.plan = proc[p].plan /\ next.rec = proc[p].rec
        /\ next.todo = proc[p].todo
    BY <1>2, <2>0 DEF Process, Points
  <2>2. /\ proc' = [proc EXCEPT ![p] = next] /\ proc'[p] = next
        /\ saved' = {journal} /\ journal' = journal /\ lock' = lock
    BY <1>4, <2>0, Types DEF Goes, Becomes, SyncJournal, Holds
  <2>4. /\ journal \in saved /\ saved \subseteq Record \cup {NoRecord}
        /\ \A r \in saved : r # NoRecord => Known(r.identity)
        /\ fs \in [Sources -> Dir] /\ kept \subseteq File
        /\ disk \in [Sources -> SUBSET Dir] /\ \A s \in Sources : fs[s] \in disk[s]
    BY DEF IInv, TypeOK, DiskOK
  <2>5. \A s \in Sources : Bare(s)
    BY <1>1, <1>2 DEF Knows
  <2>6. DiskOK'
    BY <1>1, <2>2, <2>4, <2>5, JournalOK
  <2>7. Knows(p)'
    BY <1>1, <1>2, <2>1, <2>2, <2>5
    DEF Knows, Removing, Settling, Known, Bare
  <2>8. journal' \in saved' /\ saved' \subseteq Record \cup {NoRecord}
    BY <2>2, <2>4
  <2> QED
    BY <1>1, <1>2, <2>1, <2>2, <2>4, <2>6, <2>7, <2>8, Acts DEF Locked
<1> QED
  BY <1>3, <1>4 DEF SaveJournal

\* source_cleanup.rs stage_cleanup_candidate
LEMMA StageStep ==
  ASSUME IInv, NEW p \in Procs, Stage(p)
  PROVE  IInv'
<1>0. PICK s, d : s = proc[p].rec.src /\ d = fs[s]
  OBVIOUS
<1>1. /\ proc[p].at = "stage" /\ (Works \/ Fails)
      /\ UNCHANGED <<journal, saved, lock, edited, archived, kept, touched, runs>>
  BY DEF Stage, At, SameJournal, others, Holds
<1>2. /\ proc[p] \in Process /\ Knows(p) /\ lock = p
      /\ kept \subseteq File /\ journal \in saved
      /\ saved \subseteq Record \cup {NoRecord}
  BY <1>1, Types DEF Locked, Settling, IInv, TypeOK
<1>3. CASE SameFiles /\ Becomes(p, Restores(proc[p], "failed", FALSE))
  <2>0. PICK next : next = Restores(proc[p], "failed", FALSE)
    OBVIOUS
  <2>1. /\ next \in Process /\ next.at = "decide" /\ next.mode = "restore"
        /\ next.rec = proc[p].rec /\ next.plan = proc[p].plan
    BY <1>2, <2>0, Restored DEF Statuses
  <2> QED
    BY <1>1, <1>3, <2>0, <2>1, Undoes
    DEF Becomes, SameFiles, Removing, disks, others
<1>4. CASE /\ d.orig # None
           /\ Put(s, [d EXCEPT !.staged = d.orig, !.orig = None])
           /\ Becomes(p, [proc[p] EXCEPT !.at = "syncStage",
                                         !.taken = @ \cup {d.orig}])
  <2>0. PICK next, e :
          /\ next = [proc[p] EXCEPT !.at = "syncStage",
                                    !.taken = @ \cup {d.orig}]
          /\ e = [d EXCEPT !.staged = d.orig, !.orig = None]
    OBVIOUS
  <2>1. /\ proc[p].rec \in Record /\ Known(proc[p].rec.identity)
        /\ proc[p].todo # <<>> /\ journal = proc[p].rec /\ saved = {journal}
        /\ \A t \in Sources : Bare(t)
    BY <1>1, <1>2 DEF Knows, Removing
  <2>2. s \in Sources /\ d \in Dir /\ DirOK(s, d) /\ d \in disk[s]
    BY <1>0, <2>1, Types, Values
  <2>3. /\ d.staged = None /\ d.orig \in File
    BY <1>4, <2>1, <2>2 DEF Bare, Dir, Slot
  <2>4. /\ e \in Dir /\ e.orig = None /\ e.staged = d.orig /\ e.spare = d.spare
        /\ e.bin = d.bin
    BY <2>0, <2>2, Values DEF Dir
  <2>5. Present(e) = Present(d)
    BY <2>3, <2>4 DEF Present
  <2>6. Proper(e)
    BY <2>2, <2>4 DEF Proper, DirOK
  <2>7. Fitting(s, e, kept')
    BY <1>0, <2>1, <2>2, <2>4, <2>5, <2>6 DEF Fitting, DirOK
  <2>8. \A file \in Present(e) : Known(file)'
    BY <1>1, <2>2, <2>5 DEF DirOK, Known
  <2>9. Put(s, e)
    BY <1>4, <2>0
  <2>10. /\ DiskOK' /\ fs' \in [Sources -> Dir]
         /\ disk' \in [Sources -> SUBSET Dir]
         /\ \A t \in Sources : fs'[t] \in disk'[t]
    BY <1>1, <2>2, <2>7, <2>8, <2>9, PutOK
  <2>11. /\ next \in Process /\ next.at = "syncStage"
         /\ next.plan = proc[p].plan /\ next.rec = proc[p].rec
         /\ next.todo = proc[p].todo
    BY <1>2, <2>0, <2>3 DEF Process, Points
  <2>12. proc' = [proc EXCEPT ![p] = next] /\ proc'[p] = next
    BY <1>4, <2>0, Types DEF Becomes
  <2>13. Knows(p)'
    BY <1>1, <1>2, <2>1, <2>11, <2>12 DEF Knows, Removing, Settling, Known
  <2> QED
    BY <1>1, <1>2, <2>10, <2>11, <2>12, <2>13, Acts DEF Locked
<1> QED
  BY <1>0, <1>3, <1>4 DEF Stage

\* source_cleanup.rs stage_cleanup_candidate, sync_source_cleanup_directories
LEMMA SyncStageStep ==
  ASSUME IInv, NEW p \in Procs, SyncStage(p)
  PROVE  IInv'
<1>0. PICK s : s = proc[p].rec.src
  OBVIOUS
<1>1. /\ proc[p].at = "syncStage" /\ (Works \/ Fails)
      /\ UNCHANGED <<journal, saved, lock, touched, runs>>
  BY DEF SyncStage, At, SameJournal, Holds
<1>2. /\ proc[p] \in Process /\ Knows(p) /\ lock = p
      /\ journal \in saved /\ saved \subseteq Record \cup {NoRecord}
  BY <1>1, Types DEF Locked, Settling, IInv, TypeOK
<1>3. CASE /\ SameFiles /\ UNCHANGED others
           /\ Becomes(p, Restores(proc[p], "failed", FALSE))
  <2>0. PICK next : next = Restores(proc[p], "failed", FALSE)
    OBVIOUS
  <2>1. /\ next \in Process /\ next.at = "decide" /\ next.mode = "restore"
        /\ next.rec = proc[p].rec /\ next.plan = proc[p].plan
    BY <1>2, <2>0, Restored DEF Statuses
  <2> QED
    BY <1>1, <1>3, <2>0, <2>1, Undoes DEF Becomes, SameFiles, Removing, disks
<1>4. CASE SyncSource(s) /\ Goes(p, "verify")
  <2>0. PICK next : next = [proc[p] EXCEPT !.at = "verify"]
    OBVIOUS
  <2>1. /\ proc[p].rec \in Record /\ Known(proc[p].rec.identity)
        /\ proc[p].todo # <<>> /\ journal = proc[p].rec /\ saved = {journal}
    BY <1>1, <1>2 DEF Knows, Removing
  <2>2. s \in Sources
    BY <1>0, <2>1, Values
  <2>3. /\ DiskOK' /\ kept' \subseteq File /\ disk' \in [Sources -> SUBSET Dir]
        /\ \A t \in Sources : fs'[t] \in disk'[t]
    BY <1>1, <1>4, <2>2, SyncOK
  <2>4. /\ fs' \in [Sources -> Dir] /\ UNCHANGED <<edited, archived>>
    BY <1>4, Types DEF SyncSource
  <2>5. /\ next \in Process /\ next.at = "verify" /\ next.plan = proc[p].plan
        /\ next.rec = proc[p].rec /\ next.todo = proc[p].todo
    BY <1>2, <2>0 DEF Process, Points
  <2>6. proc' = [proc EXCEPT ![p] = next] /\ proc'[p] = next
    BY <1>4, <2>0, Types DEF Goes, Becomes
  <2>7. Knows(p)'
    BY <1>1, <1>2, <2>1, <2>4, <2>5, <2>6 DEF Knows, Removing, Settling, Known
  <2> QED
    BY <1>1, <1>2, <2>3, <2>4, <2>5, <2>6, <2>7, Acts DEF Locked
<1> QED
  BY <1>0, <1>3, <1>4 DEF SyncStage

-----------------------------------------------------------------------------
(***************************************************************************)
(* The comparison, and the trash.                                          *)
(***************************************************************************)
\* source_cleanup.rs verify_cleanup_candidate_at, confirm_staged_source
LEMMA VerifyStep ==
  ASSUME IInv, NEW p \in Procs, Verify(p)
  PROVE  IInv'
<1>1. /\ proc[p].at = "verify" /\ (Works \/ Fails)
      /\ UNCHANGED <<fs, disk, journal, saved, lock, edited, archived, kept,
                     touched, runs>>
  BY DEF Verify, At, SameFiles, SameJournal, Holds, others
<1>2. /\ proc[p] \in Process /\ Knows(p) /\ lock = p
      /\ faults' \in Nat /\ faults' <= MaxFaults
      /\ archived \subseteq Snapshot /\ runs \in Nat /\ runs <= MaxRuns
  BY <1>1, Types, Bounded DEF Locked, Settling, IInv, TypeOK, Counted
<1>3. CASE \E status \in Statuses : Becomes(p, Restores(proc[p], status, FALSE))
  <2>1. PICK status \in Statuses : Becomes(p, Restores(proc[p], status, FALSE))
    BY <1>3
  <2>0. PICK next : next = Restores(proc[p], status, FALSE)
    OBVIOUS
  <2>2. /\ next \in Process /\ next.at = "decide" /\ next.mode = "restore"
        /\ next.rec = proc[p].rec /\ next.plan = proc[p].plan
    BY <1>2, <2>0, Restored
  <2> QED
    BY <1>1, <2>0, <2>1, <2>2, Undoes DEF Becomes, Removing, disks, others
<1>4. CASE Unchanged(proc[p]) /\ Goes(p, "trash")
  <2>0. PICK next, s : /\ next = [proc[p] EXCEPT !.at = "trash"]
                       /\ s = proc[p].rec.src
    OBVIOUS
  <2>1. /\ proc[p].rec \in Record /\ Known(proc[p].rec.identity)
        /\ proc[p].todo # <<>> /\ journal = proc[p].rec /\ saved = {journal}
    BY <1>1, <1>2 DEF Knows, Removing
  <2>2. s \in Sources /\ proc[p].rec.identity \in File
    BY <2>0, <2>1, Values
  <2>3. /\ fs[s].staged = proc[p].rec.identity
        /\ Snap(fs[s].staged) = proc[p].plan[s]
    BY <1>4, <2>0 DEF Unchanged
  <2>4. Snap(fs[s].staged) # NoFile
    BY <2>2, <2>3, Values, Snaps DEF NoFile
  <2>5. fs[s].staged \in File /\ Snap(fs[s].staged) \in archived
    BY <1>2, <2>2, <2>3, <2>4 DEF Knows
  <2>6. /\ next \in Process /\ next.at = "trash" /\ next.plan = proc[p].plan
        /\ next.rec = proc[p].rec /\ next.todo = proc[p].todo
    BY <1>2, <2>0 DEF Process, Points
  <2>7. proc' = [proc EXCEPT ![p] = next] /\ proc'[p] = next
    BY <1>4, <2>0, Types DEF Goes, Becomes
  <2>8. fs'[s].staged \in File /\ Snap(fs[s].staged)' \in archived'
    BY <1>1, <2>5, Snaps
  <2>9. Knows(p)'
    BY <1>1, <1>2, <2>0, <2>1, <2>6, <2>7, <2>8
    DEF Knows, Removing, Settling, Known
  <2> QED
    BY <1>1, <1>2, <2>6, <2>7, <2>9, Looks DEF Locked
<1>5. {"blocked", "partial", "cancelled"} \subseteq Statuses
  BY DEF Statuses
<1>6. \/ Unchanged(proc[p]) /\ Goes(p, "trash")
      \/ \E status \in {"blocked", "partial", "cancelled"} :
           Becomes(p, Restores(proc[p], status, FALSE))
  BY DEF Verify
<1> QED
  BY <1>3, <1>4, <1>5, <1>6

\* source_cleanup.rs move_staged_source_to_trash; whatever the adapter says,
\* the source is in the trash or still in the private directory.
LEMMA MoveToTrashStep ==
  ASSUME IInv, NEW p \in Procs, MoveToTrash(p)
  PROVE  IInv'
<1>0. PICK s, d, e : /\ s = proc[p].rec.src /\ d = fs[s]
                     /\ e = [d EXCEPT !.staged = None, !.bin = @ \cup {d.staged}]
  OBVIOUS
<1>1. /\ proc[p].at = "trash" /\ (Works \/ Fails)
      /\ UNCHANGED <<journal, saved, lock, edited, archived, kept, touched, runs>>
  BY DEF MoveToTrash, At, SameJournal, others, Holds
<1>2. /\ proc[p] \in Process /\ Knows(p) /\ lock = p
      /\ kept \subseteq File /\ journal \in saved
      /\ saved \subseteq Record \cup {NoRecord}
      /\ fs \in [Sources -> Dir] /\ disk \in [Sources -> SUBSET Dir]
      /\ \A t \in Sources : fs[t] \in disk[t]
  BY <1>1, Types DEF Locked, Settling, IInv, TypeOK
<1>3. /\ proc[p].rec \in Record /\ Known(proc[p].rec.identity)
      /\ proc[p].todo # <<>> /\ journal = proc[p].rec /\ saved = {journal}
      /\ d.staged \in File /\ Snap(d.staged) \in archived
  BY <1>0, <1>1, <1>2 DEF Knows, Removing
<1>4. s \in Sources /\ d \in Dir /\ DirOK(s, d) /\ d \in disk[s]
  BY <1>0, <1>3, Types, Values
<1>5. /\ DiskOK' /\ fs' \in [Sources -> Dir]
      /\ disk' \in [Sources -> SUBSET Dir]
      /\ \A t \in Sources : fs'[t] \in disk'[t]
  <2>1. CASE SameFiles
    BY <1>1, <1>2, <2>1, SameDisk DEF SameFiles
  <2>2. CASE Put(s, e)
    <3>1. /\ e \in Dir /\ e.orig = d.orig /\ e.staged = None
          /\ e.spare = d.spare /\ e.bin = d.bin \cup {d.staged}
      BY <1>0, <1>3, <1>4, Values DEF Dir
    <3>2. Present(e) = Present(d) /\ d.staged # None
      BY <1>3, <3>1, Values DEF Present
    <3>3. Proper(e)
      BY <1>4, <3>1, <3>2 DEF Proper, DirOK
    <3>4. \A file \in e.bin : Snap(file) \in archived
      BY <1>3, <1>4, <3>1 DEF DirOK
    <3>5. Fitting(s, e, kept')
      BY <1>0, <3>1, <3>2, <3>3, <3>4 DEF Fitting
    <3>6. \A file \in Present(e) : Known(file)'
      BY <1>1, <1>4, <3>2 DEF DirOK, Known
    <3> QED
      BY <1>1, <1>4, <2>2, <3>5, <3>6, PutOK
  <2> QED
    BY <1>0, <2>1, <2>2 DEF MoveToTrash
<1>6. PICK next : /\ Becomes(p, next)
                  /\ \/ next = [proc[p] EXCEPT !.at = "complete"]
                     \/ next = Restores(proc[p], "failed", TRUE)
  BY DEF MoveToTrash
<1>7. /\ next \in Process /\ next.rec = proc[p].rec /\ next.plan = proc[p].plan
      /\ \/ next.at = "complete" /\ next.todo = proc[p].todo
         \/ next.at = "decide" /\ next.mode = "restore"
  <2>1. CASE next = [proc[p] EXCEPT !.at = "complete"]
    BY <1>2, <2>1 DEF Process, Points
  <2>2. CASE next = Restores(proc[p], "failed", TRUE)
    BY <1>2, <2>2, Restored DEF Statuses
  <2> QED
    BY <1>6, <2>1, <2>2
<1>8. proc' = [proc EXCEPT ![p] = next] /\ proc'[p] = next
  BY <1>6, Types DEF Becomes
<1>9. Knows(p)'
  BY <1>1, <1>2, <1>3, <1>7, <1>8 DEF Knows, Removing, Settling, Known
<1> QED
  BY <1>1, <1>2, <1>5, <1>7, <1>8, <1>9, Acts DEF Locked, Settling

\* source_cleanup_journal.rs complete_trash
LEMMA CompleteTrashStep ==
  ASSUME IInv, NEW p \in Procs, CompleteTrash(p)
  PROVE  IInv'
<1>0. PICK s, d : s = proc[p].rec.src /\ d = fs[s]
  OBVIOUS
<1>1. /\ proc[p].at = "complete" /\ Works
      /\ UNCHANGED <<fs, disk, journal, saved, lock, edited, archived, kept,
                     touched, runs>>
  BY DEF CompleteTrash, At, SameFiles, SameJournal, others, Holds
<1>2. /\ proc[p] \in Process /\ Knows(p) /\ lock = p
      /\ faults' \in Nat /\ faults' <= MaxFaults
      /\ archived \subseteq Snapshot /\ runs \in Nat /\ runs <= MaxRuns
  BY <1>1, Types, Bounded DEF Locked, Settling, IInv, TypeOK, Counted
<1>3. CASE /\ Accepted(d)
           /\ Becomes(p, [proc[p] EXCEPT !.at = "sync", !.mode = "trash"])
  <2>0. PICK next : next = [proc[p] EXCEPT !.at = "sync", !.mode = "trash"]
    OBVIOUS
  <2>1. /\ proc[p].rec \in Record /\ Known(proc[p].rec.identity)
        /\ proc[p].todo # <<>> /\ journal = proc[p].rec
    BY <1>1, <1>2 DEF Knows, Removing
  <2>2. /\ next \in Process /\ next.at = "sync" /\ next.plan = proc[p].plan
        /\ next.rec = proc[p].rec /\ next.todo = proc[p].todo
        /\ next.mode = "trash"
    BY <1>2, <2>0 DEF Process, Points, Modes
  <2>3. proc' = [proc EXCEPT ![p] = next] /\ proc'[p] = next
    BY <1>3, <2>0, Types DEF Becomes
  <2>4. fs[s].staged = None
    BY <1>0, <1>3 DEF Accepted
  <2>5. Knows(p)'
    BY <1>0, <1>1, <1>2, <2>1, <2>2, <2>3, <2>4
    DEF Knows, Removing, Settling, Known
  <2> QED
    BY <1>1, <1>2, <2>2, <2>3, <2>5, Looks DEF Locked, Settling
<1>4. CASE \E q \in {proc[p], [proc[p] EXCEPT !.moved = @ + 1]} :
             Becomes(p, Restores(q, "failed", TRUE))
  <2>1. PICK q \in {proc[p], [proc[p] EXCEPT !.moved = @ + 1]} :
          Becomes(p, Restores(q, "failed", TRUE))
    BY <1>4
  <2>2. q \in Process /\ q.rec = proc[p].rec /\ q.plan = proc[p].plan
    BY <1>2, <2>1 DEF Process
  <2>3. PICK next : next = Restores(q, "failed", TRUE)
    OBVIOUS
  <2>4. /\ next \in Process /\ next.at = "decide" /\ next.mode = "restore"
        /\ next.rec = proc[p].rec /\ next.plan = proc[p].plan
    BY <2>2, <2>3, Restored DEF Statuses
  <2> QED
    BY <1>1, <2>1, <2>3, <2>4, Undoes DEF Becomes, Removing, disks, others
<1> QED
  BY <1>0, <1>3, <1>4 DEF CompleteTrash

-----------------------------------------------------------------------------
(***************************************************************************)
(* The recovery.                                                           *)
(***************************************************************************)
\* source_cleanup_journal.rs recover_record: where the source is.
LEMMA DecideStep ==
  ASSUME IInv, NEW p \in Procs, Decide(p)
  PROVE  IInv'
<1>0. PICK s, d : s = proc[p].rec.src /\ d = fs[s]
  OBVIOUS
<1>1. /\ proc[p].at = "decide" /\ Works
      /\ UNCHANGED <<fs, disk, journal, saved, edited, archived, kept, touched,
                     runs>>
  BY DEF Decide, At, SameFiles, SameJournal, others
<1>2. /\ proc[p] \in Process /\ Knows(p) /\ lock = p
      /\ faults' \in Nat /\ faults' <= MaxFaults
      /\ archived \subseteq Snapshot /\ runs \in Nat /\ runs <= MaxRuns
  BY <1>1, Types, Bounded DEF Locked, Settling, IInv, TypeOK, Counted
<1>3. /\ proc[p].rec \in Record /\ Known(proc[p].rec.identity)
      /\ proc[p].mode = "trash" => proc[p].todo # <<>>
      /\ journal \in {proc[p].rec, NoRecord}
  BY <1>1, <1>2 DEF Knows, Settling
<1>4. CASE Stuck(p)
  BY <1>1, <1>4, StuckStep DEF Settling, disks, others
<1>5. CASE \E to \in {"orig", "spare"} :
             Holds /\ Becomes(p, [proc[p] EXCEPT !.at = "move", !.to = to])
  <2>1. PICK to \in {"orig", "spare"} :
             Holds /\ Becomes(p, [proc[p] EXCEPT !.at = "move", !.to = to])
    BY <1>5
  <2>2. PICK next : next = [proc[p] EXCEPT !.at = "move", !.to = to]
    OBVIOUS
  <2>3. /\ next \in Process /\ next.at = "move" /\ next.plan = proc[p].plan
        /\ next.rec = proc[p].rec /\ next.todo = proc[p].todo
        /\ next.mode = proc[p].mode
    BY <1>2, <2>2 DEF Process, Points
  <2>4. proc' = [proc EXCEPT ![p] = next] /\ proc'[p] = next /\ lock' = lock
    BY <2>1, <2>2, Types DEF Becomes, Holds
  <2>5. Knows(p)'
    BY <1>1, <1>2, <1>3, <2>3, <2>4 DEF Knows, Removing, Settling, Known
  <2> QED
    BY <1>1, <1>2, <2>3, <2>4, <2>5, Looks DEF Locked, Settling
<1>6. CASE /\ d.staged = None /\ Holds
           /\ Becomes(p, Settled(proc[p], Found(d, proc[p].rec.identity)))
  <2>1. PICK next, outcome : /\ next = Settled(proc[p], outcome)
                             /\ outcome = Found(d, proc[p].rec.identity)
    OBVIOUS
  <2>2. outcome \in Outcomes
    BY <2>1 DEF Found, Outcomes
  <2>3. /\ next \in Process /\ next.at = "sync" /\ next.plan = proc[p].plan
        /\ next.rec = proc[p].rec /\ next.todo = proc[p].todo
        /\ next.mode = proc[p].mode /\ next.outcome = outcome
    BY <1>2, <2>1, <2>2 DEF Settled, Process, Points
  <2>4. proc' = [proc EXCEPT ![p] = next] /\ proc'[p] = next /\ lock' = lock
    BY <1>6, <2>1, Types DEF Becomes, Holds
  <2>5. proc[p].rec.identity # None
    BY <1>3, Values
  <2>6. Truth(next)
    BY <1>0, <2>1, <2>3, <2>5 DEF Truth, Found
  <2>7. \A file : Vanished(file)' = Vanished(file)
    BY <1>1 DEF Vanished
  <2>8. Truth(next)'
    BY <1>1, <2>6, <2>7 DEF Truth
  <2>9. Knows(p)'
    BY <1>0, <1>1, <1>2, <1>3, <1>6, <2>3, <2>4, <2>8
    DEF Knows, Removing, Settling, Known, Truth
  <2> QED
    BY <1>1, <1>2, <2>3, <2>4, <2>9, Looks DEF Locked, Settling
<1> QED
  BY <1>0, <1>4, <1>5, <1>6 DEF Decide

\* source_cleanup_journal.rs recover_record: the source is put back, or beside
\* its place.
LEMMA MoveStep ==
  ASSUME IInv, NEW p \in Procs, Move(p)
  PROVE  IInv'
<1>0. PICK s, d, to : s = proc[p].rec.src /\ d = fs[s] /\ to = proc[p].to
  OBVIOUS
<1>1. /\ proc[p].at = "move" /\ (Works \/ Fails)
      /\ UNCHANGED <<journal, saved, edited, archived, kept, touched, runs>>
  BY DEF Move, At, SameJournal, others
<1>2. /\ proc[p] \in Process /\ Knows(p) /\ lock = p
      /\ kept \subseteq File /\ journal \in saved
      /\ saved \subseteq Record \cup {NoRecord}
  BY <1>1, Types DEF Locked, Settling, IInv, TypeOK
<1>3. /\ proc[p].rec \in Record /\ Known(proc[p].rec.identity)
      /\ proc[p].mode = "trash" => proc[p].todo # <<>>
      /\ journal \in {proc[p].rec, NoRecord} /\ to \in {"orig", "spare"}
  BY <1>0, <1>1, <1>2 DEF Knows, Settling, Process
<1>4. CASE Stuck(p) /\ SameFiles
  BY <1>1, <1>4, StuckStep DEF Settling, disks, others, SameFiles
<1>5. ASSUME NEW outcome \in Outcomes, d[to] = None, Holds,
             outcome \in {"restored", "cleared"} =>
               d.staged = proc[p].rec.identity /\ to = "orig",
             outcome = "preserved" =>
               d.staged = proc[p].rec.identity /\ to = "spare",
             outcome # "unknown",
             Put(s, [d EXCEPT ![to] = d.staged, !.staged = None]),
             Becomes(p, Settled(proc[p], outcome))
      PROVE  IInv'
  <2>0. PICK next, e : /\ next = Settled(proc[p], outcome)
                       /\ e = [d EXCEPT ![to] = d.staged, !.staged = None]
    OBVIOUS
  <2>1. s \in Sources /\ d \in Dir /\ DirOK(s, d) /\ d \in disk[s]
    BY <1>0, <1>3, Types, Values
  <2>2. /\ e \in Dir /\ e.staged = None /\ e.bin = d.bin
        /\ to = "orig" => e.orig = d.staged /\ e.spare = d.spare /\ d.orig = None
        /\ to = "spare" => e.spare = d.staged /\ e.orig = d.orig /\ d.spare = None
    <3>1. CASE to = "orig"
      BY <1>5, <2>0, <2>1, <3>1, Values DEF Dir
    <3>2. CASE to = "spare"
      BY <1>5, <2>0, <2>1, <3>2, Values DEF Dir
    <3> QED
      BY <1>3, <3>1, <3>2
  <2>3. Present(e) = Present(d)
    BY <1>3, <2>2 DEF Present
  <2>4. Proper(e)
    BY <1>3, <2>1, <2>2 DEF Proper, DirOK
  <2>5. Fitting(s, e, kept')
    BY <1>0, <2>1, <2>2, <2>3, <2>4 DEF Fitting, DirOK
  <2>6. \A file \in Present(e) : Known(file)'
    BY <1>1, <2>1, <2>3 DEF DirOK, Known
  <2>7. Put(s, e)
    BY <1>5, <2>0
  <2>8. /\ DiskOK' /\ fs' \in [Sources -> Dir] /\ fs'[s] = e
        /\ disk' \in [Sources -> SUBSET Dir]
        /\ \A t \in Sources : fs'[t] \in disk'[t]
    BY <1>1, <2>1, <2>5, <2>6, <2>7, PutOK
  <2>9. /\ next \in Process /\ next.at = "sync" /\ next.plan = proc[p].plan
        /\ next.rec = proc[p].rec /\ next.todo = proc[p].todo
        /\ next.mode = proc[p].mode /\ next.outcome = outcome
    BY <1>2, <2>0 DEF Settled, Process, Points
  <2>10. /\ proc' = [proc EXCEPT ![p] = next] /\ proc'[p] = next
         /\ lock' = lock
    BY <1>5, <2>0, Types DEF Becomes, Holds
  <2>11. Truth(next)'
    BY <1>0, <1>5, <2>2, <2>8, <2>9 DEF Truth
  <2>12. Knows(p)'
    BY <1>0, <1>1, <1>2, <1>3, <2>2, <2>8, <2>9, <2>10, <2>11
    DEF Knows, Removing, Settling, Known, Truth
  <2> QED
    BY <1>1, <1>2, <2>8, <2>9, <2>10, <2>12, Acts DEF Locked, Settling
<1>6. \/ Stuck(p) /\ SameFiles
      \/ \E outcome \in Outcomes :
           /\ d[to] = None /\ Holds
           /\ outcome \in {"restored", "cleared"} =>
                d.staged = proc[p].rec.identity /\ to = "orig"
           /\ outcome = "preserved" =>
                d.staged = proc[p].rec.identity /\ to = "spare"
           /\ outcome # "unknown"
           /\ Put(s, [d EXCEPT ![to] = d.staged, !.staged = None])
           /\ Becomes(p, Settled(proc[p], outcome))
  <2>1. PICK outcome : outcome =
          IF d.staged # proc[p].rec.identity THEN "changed"
          ELSE IF to = "orig" THEN "restored" ELSE "preserved"
    OBVIOUS
  <2>2. outcome \in Outcomes
    BY <2>1 DEF Outcomes
  <2> QED
    BY <1>0, <1>3, <2>1, <2>2 DEF Move, Free
<1> QED
  BY <1>4, <1>5, <1>6

\* source_cleanup_journal.rs recover_record, sync_source_cleanup_directories
LEMMA SyncStep ==
  ASSUME IInv, NEW p \in Procs, Sync(p)
  PROVE  IInv'
<1>0. PICK s : s = proc[p].rec.src
  OBVIOUS
<1>1. /\ proc[p].at = "sync" /\ (Works \/ Fails)
      /\ UNCHANGED <<journal, saved, touched, runs>>
  BY DEF Sync, At, SameJournal
<1>2. /\ proc[p] \in Process /\ Knows(p) /\ lock = p
      /\ journal \in saved /\ saved \subseteq Record \cup {NoRecord}
  BY <1>1, Types DEF Locked, Settling, IInv, TypeOK
<1>3. /\ proc[p].rec \in Record /\ Known(proc[p].rec.identity)
      /\ proc[p].mode = "trash" => proc[p].todo # <<>>
      /\ journal \in {proc[p].rec, NoRecord} /\ fs[s].staged = None
      /\ proc[p].mode # "trash" => Truth(proc[p])
  BY <1>0, <1>1, <1>2 DEF Knows, Settling
<1>4. CASE Stuck(p) /\ SameFiles /\ UNCHANGED others
  BY <1>1, <1>4, StuckStep DEF Settling, disks, SameFiles
<1>5. CASE SyncSource(s) /\ Goes(p, "clear") /\ Holds
  <2>0. PICK next : next = [proc[p] EXCEPT !.at = "clear"]
    OBVIOUS
  <2>1. s \in Sources
    BY <1>0, <1>3, Values
  <2>2. /\ DiskOK' /\ kept' \subseteq File /\ disk' \in [Sources -> SUBSET Dir]
        /\ \A t \in Sources : fs'[t] \in disk'[t]
        /\ \A d \in disk'[s] : d = fs[s]
        /\ \A file : Vanished(file) => Vanished(file)'
    BY <1>1, <1>5, <2>1, SyncOK
  <2>3. /\ fs' \in [Sources -> Dir] /\ UNCHANGED <<fs, edited, archived>>
    BY <1>5, Types DEF SyncSource
  <2>4. /\ next \in Process /\ next.at = "clear" /\ next.plan = proc[p].plan
        /\ next.rec = proc[p].rec /\ next.todo = proc[p].todo
        /\ next.mode = proc[p].mode /\ next.outcome = proc[p].outcome
    BY <1>2, <2>0 DEF Process, Points
  <2>5. /\ proc' = [proc EXCEPT ![p] = next] /\ proc'[p] = next
        /\ lock' = lock
    BY <1>5, <2>0, Types DEF Goes, Becomes, Holds
  <2>6. next.mode # "trash" => Truth(next)'
    BY <1>3, <2>2, <2>3, <2>4 DEF Truth
  <2>7. Bare(s)'
    BY <1>3, <2>2 DEF Bare
  <2>8. Knows(p)'
    BY <1>0, <1>1, <1>2, <1>3, <2>3, <2>4, <2>5, <2>6, <2>7
    DEF Knows, Removing, Settling, Known, Truth
  <2> QED
    BY <1>1, <1>2, <2>2, <2>3, <2>4, <2>5, <2>8, Acts DEF Locked, Settling
<1> QED
  BY <1>0, <1>4, <1>5 DEF Sync

\* source_cleanup_journal.rs clear_then_remove_holder
LEMMA ClearStep ==
  ASSUME IInv, NEW p \in Procs, Clear(p)
  PROVE  IInv'
<1>0. PICK s : s = proc[p].rec.src
  OBVIOUS
<1>1. /\ proc[p].at = "clear" /\ (Works \/ Fails)
      /\ UNCHANGED <<fs, disk, edited, archived, kept, touched, runs>>
  BY DEF Clear, At, SameFiles, others
<1>2. /\ proc[p] \in Process /\ Knows(p) /\ lock = p
      /\ journal \in saved /\ saved \subseteq Record \cup {NoRecord}
      /\ fs \in [Sources -> Dir] /\ kept \subseteq File
      /\ disk \in [Sources -> SUBSET Dir] /\ \A t \in Sources : fs[t] \in disk[t]
      /\ \A r \in saved : r # NoRecord => Known(r.identity)
      /\ Hidden
  BY <1>1, Types DEF Locked, Settling, IInv, TypeOK, DiskOK
<1>3. /\ proc[p].rec \in Record /\ Known(proc[p].rec.identity)
      /\ proc[p].mode = "trash" => proc[p].todo # <<>>
      /\ journal \in {proc[p].rec, NoRecord} /\ Bare(s)
      /\ proc[p].mode # "trash" => Truth(proc[p])
  BY <1>0, <1>1, <1>2 DEF Knows, Settling
<1>4. CASE Stuck(p) /\ SameJournal
  BY <1>1, <1>4, StuckStep DEF Settling, disks, SameJournal, others
<1>5. CASE WriteJournal(NoRecord) /\ Goes(p, "syncClear") /\ Holds
  <2>0. PICK next : next = [proc[p] EXCEPT !.at = "syncClear"]
    OBVIOUS
  <2>1. journal' = NoRecord /\ saved' = saved \cup {NoRecord}
    BY <1>5 DEF WriteJournal
  <2>2. \A t \in Sources : Bare(t)
    <3>1. \A t \in Sources : t # s => journal.src # t
      BY <1>0, <1>3, CleanupAssumption DEF NoRecord, None
    <3> QED
      BY <1>2, <1>3, <3>1 DEF Hidden, Bare
  <2>3. DiskOK'
    BY <1>1, <1>2, <2>1, <2>2, JournalOK
  <2>4. /\ next \in Process /\ next.at = "syncClear"
        /\ next.plan = proc[p].plan /\ next.rec = proc[p].rec
        /\ next.todo = proc[p].todo /\ next.mode = proc[p].mode
        /\ next.outcome = proc[p].outcome
    BY <1>2, <2>0 DEF Process, Points
  <2>5. /\ proc' = [proc EXCEPT ![p] = next] /\ proc'[p] = next
        /\ lock' = lock
    BY <1>5, <2>0, Types DEF Goes, Becomes, Holds
  <2>6. Knows(p)'
    BY <1>1, <1>2, <1>3, <2>1, <2>4, <2>5
    DEF Knows, Removing, Settling, Known, Truth, Vanished
  <2>7. journal' \in saved' /\ saved' \subseteq Record \cup {NoRecord}
    BY <1>2, <2>1
  <2> QED
    BY <1>1, <1>2, <2>3, <2>4, <2>5, <2>6, <2>7, Acts DEF Locked
<1> QED
  BY <1>4, <1>5 DEF Clear

\* source_cleanup_journal.rs clear_then_remove_holder: the record is gone.
LEMMA SyncClearStep ==
  ASSUME IInv, NEW p \in Procs, SyncClear(p) \/ AlreadyClear(p)
  PROVE  IInv'
<1>1. /\ proc[p].at \in {"clear", "syncClear"} /\ (Works \/ Fails)
      /\ UNCHANGED <<fs, disk, edited, archived, kept, touched, runs>>
  BY DEF SyncClear, AlreadyClear, Closes, At, SameFiles, others
<1>2. /\ proc[p] \in Process /\ Knows(p) /\ lock = p
      /\ journal \in saved /\ saved \subseteq Record \cup {NoRecord}
      /\ fs \in [Sources -> Dir] /\ kept \subseteq File
      /\ disk \in [Sources -> SUBSET Dir] /\ \A t \in Sources : fs[t] \in disk[t]
      /\ \A r \in saved : r # NoRecord => Known(r.identity)
  BY <1>1, Types DEF Locked, Settling, IInv, TypeOK, DiskOK
<1>3. CASE Stuck(p) /\ SameJournal
  BY <1>1, <1>3, StuckStep DEF Settling, disks, SameJournal, others
<1>4. ASSUME NEW next, SyncJournal \/ SameJournal, Releases, Becomes(p, next),
             journal = NoRecord,
             \/ /\ proc[p].mode = "trash"
                /\ next = [proc[p] EXCEPT !.at = "next", !.todo = Tail(@),
                                          !.rec = NoRecord, !.mode = "start",
                                          !.moved = @ + 1]
             \/ next = Ended(proc[p], proc[p].outcome)
      PROVE  IInv'
  <2>1. /\ UNCHANGED journal /\ saved' \subseteq saved /\ journal \in saved'
        /\ journal = NoRecord
    BY <1>2, <1>4 DEF SyncJournal, SameJournal
  <2>2. DiskOK'
    BY <1>1, <1>2, <2>1, JournalOK
  <2>3. /\ next \in Process /\ next.at \in {"next", "idle"}
        /\ \A t \in Sources : next.plan[t] \in {NoFile, proc[p].plan[t]}
    <3>1. CASE next = Ended(proc[p], proc[p].outcome)
      <4>1. proc[p].outcome \in Outcomes
        BY <1>2 DEF Process
      <4> QED
        BY <1>2, <3>1, <4>1, HasEnded
    <3>2. CASE /\ proc[p].mode = "trash"
               /\ next = [proc[p] EXCEPT !.at = "next", !.todo = Tail(@),
                                         !.rec = NoRecord, !.mode = "start",
                                         !.moved = @ + 1]
      <4>1. proc[p].todo # <<>> /\ proc[p].todo \in Seq(Sources)
        BY <1>1, <1>2, <3>2 DEF Knows, Process, Settling
      <4>2. PICK rest, moved : /\ rest = Tail(proc[p].todo)
                               /\ moved = proc[p].moved + 1
        OBVIOUS
      <4>3. rest \in Seq(Sources) /\ moved \in Nat
        BY <1>2, <4>1, <4>2 DEF Process
      <4>4. /\ next = [proc[p] EXCEPT !.at = "next", !.todo = rest,
                         !.rec = NoRecord, !.mode = "start", !.moved = moved]
        BY <3>2, <4>2
      <4>5. next.at = "next" /\ next.plan = proc[p].plan
        BY <1>2, <4>4 DEF Process
      <4>6. next \in Process
        BY <1>2, <4>3, <4>4 DEF Process, Points, Modes
      <4> QED
        BY <4>5, <4>6
    <3> QED
      BY <1>4, <3>1, <3>2
  <2>4. proc' = [proc EXCEPT ![p] = next] /\ proc'[p] = next /\ lock' = NoProc
    BY <1>4, Types DEF Becomes, Releases
  <2>5. Knows(p)'
    BY <1>1, <1>2, <2>3, <2>4 DEF Knows, Removing, Settling
  <2>6. lock' # p /\ next.at \notin Locked
    BY <2>3, <2>4, CleanupAssumption DEF Locked, Settling
  <2> QED
    BY <1>1, <1>2, <2>1, <2>2, <2>3, <2>4, <2>5, <2>6, Acts
<1>5. SyncClear(p) => journal = NoRecord
  BY <1>2 DEF SyncClear, At, Knows
<1> QED
  BY <1>3, <1>4, <1>5 DEF SyncClear, AlreadyClear, Closes

-----------------------------------------------------------------------------
(***************************************************************************)
(* What happens to the program and around it.                              *)
(***************************************************************************)
\* An instance that is not there.
LEMMA Unborn ==
  /\ Newborn \in Process /\ Newborn.at = "off"
  /\ \A t \in Sources : Newborn.plan[t] = NoFile
<1>1. PICK plan : plan = [s \in Sources |-> NoFile]
  OBVIOUS
<1>2. plan \in [Sources -> Snapshot] /\ \A t \in Sources : plan[t] = NoFile
  BY <1>1, Values
<1>3. Newborn =
        [at |-> "off", todo |-> <<>>, plan |-> plan, rec |-> NoRecord,
         mode |-> "start", gives |-> "failed", reviewed |-> FALSE,
         to |-> "orig", outcome |-> "none", moved |-> 0, taken |-> {},
         notice |-> "none", result |-> NoResult]
  BY <1>1 DEF Newborn
<1>4. /\ <<>> \in Seq(Sources)
      /\ NoResult \in [status : Statuses, moved : Nat, review : BOOLEAN]
  BY DEF NoResult, Statuses
<1> QED
  BY <1>2, <1>3, <1>4 DEF Process, Points, Modes, Statuses, Outcomes

\* The instance dies, and the lock is free.
LEMMA DieStep ==
  ASSUME IInv, NEW p \in Procs, Die(p)
  PROVE  IInv'
<1>1. /\ proc' = [proc EXCEPT ![p] = Newborn] /\ Fails
      /\ UNCHANGED <<disks, others, runs, touched>>
      /\ lock' = NoProc \/ (lock' = lock /\ lock # p)
      /\ lock' # lock => lock = p
  BY DEF Die, Becomes
<1>2. faults' \in Nat /\ faults' <= MaxFaults
  BY <1>1, Bounded
<1> QED
  BY <1>1, <1>2, Unborn, Rests

\* The machine loses power.
LEMMA PowerLossStep ==
  ASSUME IInv, PowerLoss
  PROVE  IInv'
<1>1. /\ disk \in [Sources -> SUBSET Dir] /\ DiskOK /\ Counted
      /\ saved \subseteq Record \cup {NoRecord}
      /\ edited \subseteq File /\ kept \subseteq File
      /\ archived \subseteq Snapshot /\ runs <= MaxRuns /\ touched <= MaxForeign
  BY DEF IInv, TypeOK
<1>2. /\ faults' \in Nat /\ faults' <= MaxFaults /\ lock' = NoProc
      /\ UNCHANGED <<edited, archived, kept, runs, touched>>
      /\ proc' = [q \in Procs |-> Newborn]
  BY Bounded DEF PowerLoss, others
<1>3. PICK now \in [Sources -> UNION {disk[s] : s \in Sources}] :
        /\ \A s \in Sources : now[s] \in disk[s]
        /\ fs' = now /\ disk' = [s \in Sources |-> {now[s]}]
  BY DEF PowerLoss
<1>4. PICK r \in saved : journal' = r /\ saved' = {r}
  BY DEF PowerLoss
<1>5. /\ fs' \in [Sources -> Dir] /\ disk' \in [Sources -> SUBSET Dir]
      /\ \A s \in Sources : fs'[s] \in disk'[s]
      /\ \A s \in Sources : \A d \in disk'[s] : d = fs'[s] /\ d \in disk[s]
  <2>1. now \in [Sources -> Dir]
    BY <1>1, <1>3
  <2> QED
    BY <1>1, <1>3, <2>1
<1>6. \A file : Snap(file)' = Snap(file) /\ Known(file)' = Known(file)
  BY <1>2, Snaps DEF Known
<1>7. ASSUME NEW s \in Sources, NEW d \in disk'[s] PROVE DirOK(s, d)'
  <2>1. DirOK(s, d) /\ d = fs'[s]
    BY <1>1, <1>5 DEF DiskOK
  <2> QED
    BY <1>2, <1>6, <2>1 DEF DirOK
<1>8. Apart' /\ Safe' /\ Hidden'
  BY <1>1, <1>2, <1>4, <1>5 DEF DiskOK, Apart, Safe, Hidden
<1>9. \A x \in saved' : x # NoRecord => Known(x.identity)'
  BY <1>1, <1>4, <1>6 DEF DiskOK
<1>10. DiskOK'
  BY <1>7, <1>8, <1>9 DEF DiskOK
<1>11. /\ proc' \in [Procs -> Process]
       /\ \A q \in Procs : proc'[q] = Newborn /\ proc'[q].at = "off"
  BY <1>2, Unborn
<1>12. \A q \in Procs : (lock' = q) <=> (proc'[q].at \in Locked)
  BY <1>2, <1>11, CleanupAssumption DEF Locked, Settling
<1>13. TypeOK'
  BY <1>1, <1>2, <1>4, <1>5, <1>11, <1>12 DEF TypeOK
<1>14. Counted'
  BY <1>1, <1>2 DEF Counted
<1>15. \A q \in Procs : Knows(q)'
  BY <1>11, Unborn DEF Knows, Removing, Settling
<1> QED
  BY <1>10, <1>13, <1>14, <1>15 DEF IInv

\* What another program does to the files around a source.
LEMMA Changed ==
  ASSUME IInv, NEW s \in Sources, touched < MaxForeign, touched' = touched + 1,
         NEW e \in Dir, Put(s, e), e.staged = fs[s].staged, e.bin = fs[s].bin,
         \/ /\ e.orig \in {NewFile, None} /\ e.spare = fs[s].spare
            /\ kept' = kept \ {fs[s].orig}
         \/ /\ fs[s].spare = None /\ e.spare = NewFile /\ e.orig = fs[s].orig
            /\ kept' = kept,
         UNCHANGED <<journal, saved, lock, proc, edited, archived, runs, faults>>
  PROVE  IInv'
<1>0. PICK d, new : d = fs[s] /\ new = NewFile
  OBVIOUS
<1>1. /\ d \in Dir /\ d \in disk[s] /\ Proper(d) /\ Apart /\ Hidden /\ Safe
      /\ \A t \in Sources : /\ fs[t] \in disk[t]
                            /\ \A x \in disk[t] : x \in Dir /\ DirOK(t, x)
      /\ touched \in Nat
  BY <1>0 DEF IInv, TypeOK, DiskOK, DirOK, Counted
<1>2. \A x \in Dir : Present(x) \subseteq Int /\ Present(x) \subseteq File
  BY Values DEF Dir, Present, Slot
<1>3. \A file \in Int : Known(file) => new # file /\ Known(file)'
  BY <1>0, <1>1, NewOne, Later
<1>4. new \in File /\ new # None /\ Known(new)'
  <2>1. Known(0)
    BY <1>1 DEF Known
  <2>2. PICK file \in Int : file = 0 /\ Known(file)
    BY <2>1
  <2>3. new \in File /\ new # None /\ new >= -(touched + 1)
    BY <1>0, <1>1, <2>2, NewOne
  <2> QED
    BY <2>3 DEF Known
<1>5. \A t \in Sources : \A x \in disk[t] : new \notin Present(x)
  BY <1>1, <1>2, <1>3 DEF DirOK
<1>6. Present(e) \subseteq Present(d) \cup {new}
  BY <1>0 DEF Present
<1>7. Proper(e)
  <2>1. new \notin {d.orig, d.staged, d.spare} \cup d.bin
    BY <1>1, <1>4, <1>5 DEF Present
  <2> QED
    BY <1>0, <1>1, <1>4, <2>1 DEF Proper
<1>8. Fitting(s, e, kept')
  <2>1. \A file \in e.bin : Snap(file) \in archived
    BY <1>0, <1>1 DEF DirOK
  <2>2. \A file \in kept' \cap Present(fs[s]) : file \in Present(e)
    BY <1>0 DEF Present
  <2>3. e.staged # None => \A r \in saved : r.src = s
    BY <1>0, <1>1 DEF Hidden
  <2> QED
    BY <1>0, <1>5, <1>6, <1>7, <2>1, <2>2, <2>3 DEF Fitting
<1>9. \A file \in Present(e) : Known(file)'
  BY <1>1, <1>2, <1>3, <1>4, <1>6 DEF DirOK
<1>10. /\ DiskOK' /\ fs' \in [Sources -> Dir]
       /\ disk' \in [Sources -> SUBSET Dir]
       /\ \A t \in Sources : fs'[t] \in disk'[t]
       /\ fs'[s] = e /\ \A t \in Sources : t # s => fs'[t] = fs[t]
  BY <1>1, <1>8, <1>9, PutOK
<1>11. \A t \in Sources : fs'[t].staged = fs[t].staged
  BY <1>0, <1>10
<1>12. \A t \in Sources : Bare(t) => Bare(t)'
  <2>1. \A t \in Sources : \A x \in disk'[t] : x \in disk[t] \/ (t = s /\ x = e)
    BY DEF Put, IInv, TypeOK
  <2> QED
    BY <1>0, <1>1, <2>1 DEF Bare
<1>13. \A file : Snap(file)' = Snap(file)
  BY Snaps
<1>14. ASSUME NEW file \in File, Known(file), Vanished(file)
       PROVE  Vanished(file)'
  <2>1. file # new
    BY <1>3, <1>14, Values
  <2> QED
    BY <1>0, <1>6, <1>10, <1>14, <2>1 DEF Vanished
<1>15. ASSUME NEW file \in File, Known(file), d.orig = file, e.orig # file
       PROVE  Vanished(file)'
  <2>1. file # new /\ file # None
    BY <1>3, <1>15, Values
  <2>2. file \notin Present(e) /\ file \in Present(d)
    BY <1>0, <1>1, <1>15, <2>1 DEF Present, Proper
  <2>3. \A t \in Sources : t # s => file \notin Present(fs[t])
    BY <1>1, <2>2 DEF Apart
  <2>4. file \notin kept'
    BY <1>0, <1>15
  <2> QED
    BY <1>10, <2>2, <2>3, <2>4 DEF Vanished
<1>16. ASSUME NEW q, q.rec \in Record, Known(q.rec.identity), Truth(q)
       PROVE  Truth(q)'
  <2>1. /\ q.rec.src \in Sources /\ q.rec.identity \in File
        /\ q.rec.identity # None /\ q.rec.identity # new
    BY <1>3, <1>16, Values
  <2>2. CASE q.rec.src = s
    BY <1>0, <1>10, <1>14, <1>15, <1>16, <2>1, <2>2 DEF Truth
  <2>3. CASE q.rec.src # s
    BY <1>10, <1>14, <1>16, <2>1, <2>3 DEF Truth
  <2> QED
    BY <2>2, <2>3
<1>17. ASSUME NEW q \in Procs PROVE Knows(q)'
  <2>1. PICK x : x = proc[q]
    OBVIOUS
  <2>2. /\ Knows(q) /\ proc'[q] = x
    BY <2>1 DEF IInv
  <2>3. x.rec \in Record /\ Known(x.rec.identity) =>
          /\ x.rec.src \in Sources /\ Known(x.rec.identity)'
          /\ Truth(x) => Truth(x)'
    BY <1>3, <1>16, Values
  <2> QED
    BY <1>11, <1>12, <1>13, <2>1, <2>2, <2>3
    DEF Knows, Removing, Settling, Truth, Known
<1>18. TypeOK' /\ Counted'
  <2>1. touched' \in Nat /\ touched' <= MaxForeign /\ kept' \subseteq File
    BY <1>1, CleanupAssumption DEF IInv, TypeOK
  <2> QED
    BY <1>10, <2>1 DEF IInv, TypeOK, Counted
<1> QED
  BY <1>10, <1>17, <1>18 DEF IInv

\* Another program creates, replaces or removes a file.
LEMMA ChangeStep ==
  ASSUME IInv, NEW s \in Sources, Change(s)
  PROVE  IInv'
<1>1. PICK d : d = fs[s]
  OBVIOUS
<1>2. /\ touched < MaxForeign /\ touched' = touched + 1
      /\ UNCHANGED <<journal, saved, lock, proc, edited, archived, runs, faults>>
  BY DEF Change
<1>3. d \in Dir /\ touched \in Nat
  BY <1>1 DEF IInv, TypeOK, Counted
<1>4. NewFile \in Slot
  <2>1. PICK file \in Int : file = 0
    OBVIOUS
  <2>2. Known(file)
    BY <1>3, <2>1 DEF Known
  <2> QED
    BY <1>2, <1>3, <2>2, NewOne
<1>5. PICK e : /\ Put(s, e)
               /\ \/ e = [d EXCEPT !.orig = NewFile] /\ kept' = kept \ {d.orig}
                  \/ e = [d EXCEPT !.orig = None] /\ kept' = kept \ {d.orig}
                  \/ /\ d.spare = None /\ kept' = kept
                     /\ e = [d EXCEPT !.spare = NewFile]
  BY <1>1 DEF Change
<1>6. e \in Dir /\ e.staged = d.staged /\ e.bin = d.bin
  BY <1>3, <1>4, <1>5, Values DEF Dir
<1>7. \/ /\ e.orig \in {NewFile, None} /\ e.spare = d.spare
         /\ kept' = kept \ {d.orig}
      \/ /\ d.spare = None /\ e.spare = NewFile /\ e.orig = d.orig
         /\ kept' = kept
  BY <1>3, <1>5 DEF Dir
<1> QED
  BY <1>1, <1>2, <1>5, <1>6, <1>7, Changed

\* It has them synced.
LEMMA FlushStep ==
  ASSUME IInv, NEW s \in Sources, Flush(s)
  PROVE  IInv'
<1>1. /\ SyncSource(s)
      /\ UNCHANGED <<journal, saved, lock, proc, runs, touched, faults>>
      /\ UNCHANGED <<fs, edited, archived>>
  BY DEF Flush, bounds, SyncSource
<1>2. /\ DiskOK' /\ kept' \subseteq File
      /\ disk' \in [Sources -> SUBSET Dir] /\ \A t \in Sources : fs'[t] \in disk'[t]
      /\ \A t \in Sources : disk'[t] \subseteq disk[t]
      /\ \A file : Vanished(file) => Vanished(file)'
  BY <1>1, SyncOK
<1>3. \A file : Snap(file)' = Snap(file) /\ Known(file)' = Known(file)
  BY <1>1, Snaps DEF Known
<1>4. \A t \in Sources : Bare(t) => Bare(t)'
  BY <1>2 DEF Bare
<1>5. \A q \in Procs : Truth(proc[q]) => Truth(proc[q])'
  BY <1>1, <1>2 DEF Truth
<1>6. ASSUME NEW q \in Procs PROVE Knows(q)'
  <2>1. Knows(q)
    BY DEF IInv
  <2>2. proc[q].rec \in Record => proc[q].rec.src \in Sources
    BY Values
  <2> QED
    BY <1>1, <1>3, <1>4, <1>5, <2>1, <2>2 DEF Knows, Removing, Settling
<1>7. TypeOK' /\ Counted'
  BY <1>1, <1>2 DEF IInv, TypeOK, Counted
<1> QED
  BY <1>2, <1>6, <1>7 DEF IInv

\* Another program edits a file in place.
LEMMA EditStep ==
  ASSUME IInv, NEW s \in Sources, Edit(s)
  PROVE  IInv'
<1>1. PICK f \in {fs[s].orig, fs[s].staged} \ ({None} \cup edited) :
        /\ f = fs[s].staged =>
             \A q \in Procs : ~(proc[q].at = "trash" /\ proc[q].rec.src = s)
        /\ edited' = edited \cup {f}
  BY DEF Edit
<1>2. /\ touched < MaxForeign /\ touched' = touched + 1
      /\ UNCHANGED <<fs, disk, journal, saved, lock, proc, archived, kept, runs,
                     faults>>
  BY DEF Edit, disks
<1>3. /\ touched \in Nat /\ fs[s] \in Dir /\ fs[s] \in disk[s]
      /\ Proper(fs[s]) /\ Apart /\ Safe /\ Hidden
      /\ \A t \in Sources : /\ fs[t] \in disk[t]
                            /\ \A d \in disk[t] : d \in Dir /\ DirOK(t, d)
  BY DEF IInv, TypeOK, DiskOK, DirOK, Counted
<1>4. f \in File /\ f \in Present(fs[s]) /\ f \notin fs[s].bin
  BY <1>1, <1>3 DEF Dir, Slot, Present, Proper
<1>5. \A file : file # f => Snap(file)' = Snap(file)
  BY <1>1, Snaps
<1>6. \A file \in Int : Known(file) => Known(file)'
  BY <1>2, <1>3, Later
<1>7. \A t \in Sources : t # s => f \notin Present(fs[t])
  BY <1>3, <1>4 DEF Apart
<1>8. ASSUME NEW t \in Sources, NEW d \in disk[t] PROVE DirOK(t, d)'
  <2>1. DirOK(t, d) /\ Present(d) \subseteq Int
    BY <1>3, Values DEF Dir, Present, Slot
  <2>2. f \notin fs[t].bin
    <3>1. None \notin fs[t].bin
      BY <1>3, Values DEF Dir
    <3> QED
      BY <1>4, <1>7, <3>1 DEF Present
  <2>3. \A file \in d.bin : Snap(file)' \in archived
    BY <1>5, <2>1, <2>2 DEF DirOK
  <2> QED
    BY <1>2, <1>6, <2>1, <2>3 DEF DirOK
<1>9. Apart' /\ Safe' /\ Hidden'
  BY <1>2, <1>3 DEF Apart, Safe, Hidden
<1>10. \A r \in saved' : r # NoRecord => Known(r.identity)'
  BY <1>2, <1>6, Values DEF IInv, TypeOK, DiskOK
<1>11. DiskOK'
  BY <1>2, <1>8, <1>9, <1>10 DEF DiskOK
<1>12. \A q : Truth(q) => Truth(q)'
  BY <1>2 DEF Truth, Vanished
<1>13. \A t \in Sources : Bare(t) => Bare(t)'
  BY <1>2 DEF Bare
<1>14. ASSUME NEW q \in Procs PROVE Knows(q)'
  <2>1. PICK x : x = proc[q]
    OBVIOUS
  <2>2. Knows(q) /\ proc'[q] = x
    BY <1>2, <2>1 DEF IInv
  <2>3. x.rec \in Record /\ Known(x.rec.identity) =>
          x.rec.src \in Sources /\ Known(x.rec.identity)'
    BY <1>6, Values
  <2>4. x.at = "trash" => Snap(fs[x.rec.src].staged)' \in archived
    <3>1. SUFFICES ASSUME x.at = "trash"
                   PROVE  Snap(fs[x.rec.src].staged)' \in archived
      OBVIOUS
    <3>2. PICK t, file : t = x.rec.src /\ file = fs[t].staged
      OBVIOUS
    <3>3. t \in Sources /\ file \in File /\ Snap(file) \in archived
      BY <2>1, <2>2, <2>3, <3>1, <3>2 DEF Knows, Removing
    <3>4. CASE t = s
      <4>1. file # f
        BY <1>1, <2>1, <3>1, <3>2, <3>4
      <4> QED
        BY <1>2, <1>5, <3>2, <3>3, <4>1
    <3>5. CASE t # s
      <4>1. file \in Present(fs[t])
        BY <3>2, <3>3, Values DEF Present
      <4>2. file # f
        BY <1>7, <3>3, <3>5, <4>1
      <4> QED
        BY <1>2, <1>5, <3>2, <3>3, <4>2
    <3> QED
      BY <3>4, <3>5
  <2> QED
    BY <1>2, <1>12, <1>13, <2>1, <2>2, <2>3, <2>4
    DEF Knows, Removing, Settling, Truth, Known
<1>15. TypeOK' /\ Counted'
  <2>1. touched' \in Nat /\ touched' <= MaxForeign /\ edited' \subseteq File
    BY <1>1, <1>2, <1>3, <1>4, CleanupAssumption DEF IInv, TypeOK
  <2> QED
    BY <1>2, <2>1 DEF IInv, TypeOK, Counted
<1> QED
  BY <1>11, <1>14, <1>15 DEF IInv

-----------------------------------------------------------------------------
(***************************************************************************)
(* The invariant holds at the start, and every step keeps it.              *)
(***************************************************************************)
\* Initial states.
LEMMA Beginning ==
  ASSUME Init
  PROVE  IInv
<1>1. /\ fs = [s \in Sources |-> [orig |-> s, staged |-> None, spare |-> None,
                                  bin |-> {}]]
      /\ disk = [s \in Sources |-> {fs[s]}]
      /\ journal = NoRecord /\ saved = {NoRecord} /\ lock = NoProc
      /\ proc = [p \in Procs |-> Newborn]
      /\ edited = {} /\ archived = {} /\ kept = Sources
      /\ runs = 0 /\ touched = 0 /\ faults = 0
  BY DEF Init
<1>2. Sources \subseteq Nat \ {0} /\ Sources \subseteq File
  BY CleanupAssumption DEF File
<1>3. \A s \in Sources : /\ fs[s].orig = s /\ fs[s].staged = None
                         /\ fs[s].spare = None /\ fs[s].bin = {}
                         /\ disk[s] = {fs[s]} /\ fs[s] \in Dir
  BY <1>1, <1>2 DEF Dir, Slot
<1>4. \A s \in Sources : Present(fs[s]) = {s}
  BY <1>2, <1>3 DEF Present, None
<1>5. \A s \in Sources : Known(s)
  BY <1>1, <1>2 DEF Known
<1>6. ASSUME NEW s \in Sources, NEW d \in disk[s] PROVE DirOK(s, d)
  BY <1>3, <1>4, <1>5 DEF DirOK, Proper
<1>7. Apart /\ Safe /\ Hidden
  BY <1>1, <1>3, <1>4 DEF Apart, Safe, Hidden
<1>8. DiskOK
  BY <1>1, <1>6, <1>7 DEF DiskOK
<1>9. /\ proc \in [Procs -> Process]
      /\ \A p \in Procs : proc[p] = Newborn /\ proc[p].at = "off"
  BY <1>1, Unborn
<1>10. \A p \in Procs : (lock = p) <=> (proc[p].at \in Locked)
  BY <1>1, <1>9, CleanupAssumption DEF Locked, Settling
<1>11. fs \in [Sources -> Dir] /\ disk \in [Sources -> SUBSET Dir]
  BY <1>1, <1>3
<1>12. TypeOK
  BY <1>1, <1>2, <1>3, <1>9, <1>10, <1>11, CleanupAssumption DEF TypeOK
<1>13. \A p \in Procs : Knows(p)
  BY <1>9, Unborn DEF Knows, Removing, Settling
<1> QED
  BY <1>1, <1>8, <1>12, <1>13 DEF IInv, Counted

\* Every step.
LEMMA Inductive ==
  ASSUME IInv, [Next]_vars
  PROVE  IInv'
<1>1. ASSUME NEW p \in Procs, Step(p) PROVE IInv'
  BY <1>1, StartSteps, RunStep, FinishStep, PrepareStep, BeginStep,
     SaveJournalStep, StageStep, SyncStageStep, VerifyStep, MoveToTrashStep,
     CompleteTrashStep, DecideStep, MoveStep, SyncStep, ClearStep,
     SyncClearStep, DieStep DEF Step
<1>2. CASE UNCHANGED vars
  <2>1. UNCHANGED <<fs, disk, journal, saved, lock, proc, edited, archived,
                    kept, runs, touched, faults>>
    BY <1>2 DEF vars, disks, others, bounds
  <2>2. DiskOK'
    BY <2>1, SameDisk
  <2>3. \A q \in Procs : Knows(q)'
    BY <2>1, Stays
  <2>4. TypeOK' /\ Counted'
    BY <2>1 DEF IInv, TypeOK, Counted
  <2> QED
    BY <2>2, <2>3, <2>4 DEF IInv
<1> QED
  BY <1>1, <1>2, PowerLossStep, ChangeStep, FlushStep, EditStep DEF Next

-----------------------------------------------------------------------------
\* Every file, record, lock and instance is as SourceCleanup's TypeOK says, on
\* disk too; who holds source-cleanup.lock is at a point where it is held.
THEOREM TypeCorrect == Spec => []TypeOK
<1>1. IInv => TypeOK
  BY DEF IInv
<1> QED
  BY Beginning, Inductive, <1>1, PTL DEF Spec

\* Whatever fails, dies or is exchanged, the trash has only what an archive
\* has.  [source_cleanup.rs verify_cleanup_candidate_at]
THEOREM TrashedIsArchived == Spec => []TrashedWasArchived
<1>1. IInv => TrashedWasArchived
  BY DEF IInv, TypeOK, DiskOK, DirOK, TrashedWasArchived
<1> QED
  BY Beginning, Inductive, <1>1, PTL DEF Spec

\* Through any number of crashes, failing calls and losses of power no file
\* that was safely there is lost, and a source in the private directory is in
\* the record.  [source_cleanup_journal.rs begin, recover_record,
\* clear_then_remove_holder]
THEOREM NoFileIsLost == Spec => []NothingLost
<1>1. IInv => NothingLost
  <2>1. ASSUME IInv PROVE NothingLost
    <3>1. /\ Safe /\ Hidden /\ journal \in saved
          /\ \A s \in Sources : fs[s] \in disk[s]
      BY <2>1 DEF IInv, TypeOK, DiskOK
    <3> QED
      BY <3>1 DEF Safe, Hidden, NothingLost, HiddenIsRecorded
  <2> QED
    BY <2>1
<1> QED
  BY Beginning, Inductive, <1>1, PTL DEF Spec

\* What the user is told of a record that was settled is true when it goes.
\* [source_cleanup_journal.rs SourceCleanupRecovery]
THEOREM RecoveryIsTruthful == Spec => RecoveryTellsTheTruth
<1>1. IInv /\ [Next]_vars =>
        [\A p \in Procs :
           LET q == proc[p]
               d == fs[q.rec.src]
               there(place) ==
                 d[place] = q.rec.identity \/ q.rec.identity \notin kept
           IN  (q.at = "clear" /\ q.mode # "trash" /\ proc'[p].at = "syncClear") =>
                 /\ d.staged = None
                 /\ q.outcome \in {"restored", "cleared"} => there("orig")
                 /\ q.outcome = "preserved" => there("spare")
                 /\ q.outcome = "unknown" => q.rec.identity \notin {d.orig, d.spare}
        ]_vars
  BY DEF IInv, Knows, Truth, Vanished
<1> QED
  BY Beginning, Inductive, <1>1, PTL DEF Spec, RecoveryTellsTheTruth

-----------------------------------------------------------------------------
(***************************************************************************)
(* What a job reports: the files it has taken, those of them that are in   *)
(* the trash, and those it counts.                                         *)
(***************************************************************************)
Trash == UNION {fs[s].bin : s \in Sources}

\* All that the job has taken is in the trash and counted.
AllMoved(q, moved) ==
  q.taken \subseteq Trash /\ Cardinality(q.taken) = moved

\* All but one file, at most, are: that one is `file`.
AllBut(q, file) ==
  /\ Cardinality(q.taken \cap Trash) = q.moved
  /\ q.taken \subseteq Trash \cup {file}

\* What an instance counts, at each point.
Tally(p) ==
  LET q  == proc[p]
      at == q.at
      s  == q.rec.src
      goes == Settling \cup {"syncClear"} IN
  /\ IsFiniteSet(q.taken) /\ q.gives # "completed"
  /\ at \in {"off", "idle"} \/ (at \in goes /\ q.mode = "start") =>
       q.taken = {} /\ q.moved = 0
  /\ (\/ at \in {"next", "begin", "again", "saveJournal", "stage"}
      \/ at \in goes /\ q.mode = "begin")
     => AllMoved(q, q.moved)
  /\ (\/ at \in {"next", "begin"} \cup Removing
      \/ at \in goes /\ q.mode = "trash")
     => q.moved + Len(q.todo) = Len(Jobs[p])
  /\ at \in {"syncStage", "verify", "trash"} =>
       AllBut(q, fs[s].staged) /\ fs[s].staged \in q.taken \ Trash
  /\ at = "complete" =>
       /\ Cardinality(q.taken) = q.moved + 1
       /\ q.taken \subseteq Trash \cup {fs[s].staged}
  /\ at \in goes /\ q.mode = "trash" =>
       at \notin {"decide", "move"} /\ AllMoved(q, q.moved + 1)
  /\ at \in goes /\ q.mode = "restore" /\ ~q.reviewed =>
       /\ at \in {"decide", "move"} => AllBut(q, fs[s].staged)
       /\ (at \notin {"decide", "move"} /\ q.outcome \in {"restored", "cleared"})
            => AllBut(q, q.rec.identity)

Tallies == \A p \in Procs : Tally(p)

\* A step of an instance leaves the other instances alone, and the files too
\* unless it has the lock; what is in the trash stays there.
LEMMA Turns ==
  ASSUME IInv, NEW p \in Procs, Step(p)
  PROVE  /\ \A q \in Procs \ {p} : proc'[q] = proc[q]
         /\ \/ fs' = fs
            \/ /\ proc[p].at \in Locked
               /\ \A s \in Sources : fs[s].bin \subseteq fs'[s].bin
<1>1. \A q : Becomes(p, q) => \A r \in Procs \ {p} : proc'[r] = proc[r]
  BY DEF Becomes, IInv, TypeOK
<1>2. fs \in [Sources -> Dir]
  BY DEF IInv, TypeOK
<1>3. ASSUME NEW s, NEW d, Put(s, d), s \in Sources => fs[s].bin \subseteq d.bin
      PROVE  \A t \in Sources : fs[t].bin \subseteq fs'[t].bin
  BY <1>2, <1>3 DEF Put
<1>4. CASE Stage(p)
  <2>1. PICK s, d : s = proc[p].rec.src /\ d = fs[s]
    OBVIOUS
  <2>2. s \in Sources => d \in Dir
    BY <1>2, <2>1
  <2>3. \/ SameFiles
        \/ Put(s, [d EXCEPT !.staged = d.orig, !.orig = None])
    BY <1>4, <2>1 DEF Stage
  <2>4. s \in Sources => [d EXCEPT !.staged = d.orig, !.orig = None].bin = d.bin
    BY <2>2 DEF Dir
  <2>5. fs' = fs \/ \A t \in Sources : fs[t].bin \subseteq fs'[t].bin
    BY <1>3, <2>1, <2>3, <2>4 DEF SameFiles
  <2> QED
    BY <1>1, <1>4, <2>5 DEF Stage, At, Locked
<1>5. CASE MoveToTrash(p)
  <2>1. PICK s, d : s = proc[p].rec.src /\ d = fs[s]
    OBVIOUS
  <2>2. s \in Sources => d \in Dir
    BY <1>2, <2>1
  <2>3. \/ SameFiles
        \/ Put(s, [d EXCEPT !.staged = None, !.bin = @ \cup {d.staged}])
    BY <1>5, <2>1 DEF MoveToTrash
  <2>4. s \in Sources =>
          d.bin \subseteq [d EXCEPT !.staged = None, !.bin = @ \cup {d.staged}].bin
    BY <2>2 DEF Dir
  <2>5. fs' = fs \/ \A t \in Sources : fs[t].bin \subseteq fs'[t].bin
    BY <1>3, <2>1, <2>3, <2>4 DEF SameFiles
  <2> QED
    BY <1>1, <1>5, <2>5 DEF MoveToTrash, At, Locked
<1>6. CASE Move(p)
  <2>1. PICK s, d, to : s = proc[p].rec.src /\ d = fs[s] /\ to = proc[p].to
    OBVIOUS
  <2>2. (s \in Sources => d \in Dir) /\ to \in {"orig", "spare"}
    BY <1>2, <2>1 DEF IInv, TypeOK, Process
  <2>3. \/ SameFiles /\ Stuck(p)
        \/ /\ Put(s, [d EXCEPT ![to] = d.staged, !.staged = None])
           /\ \E q : Becomes(p, q)
    BY <1>6, <2>1 DEF Move
  <2>4. s \in Sources =>
          [d EXCEPT ![to] = d.staged, !.staged = None].bin = d.bin
    BY <2>2 DEF Dir
  <2>5. fs' = fs \/ \A t \in Sources : fs[t].bin \subseteq fs'[t].bin
    BY <1>3, <2>1, <2>3, <2>4 DEF SameFiles
  <2> QED
    BY <1>1, <1>6, <2>3, <2>5 DEF Move, At, Locked, Settling, Stuck
<1>7. CASE \/ Start(p) \/ Notice(p) \/ Again(p) \/ Run(p) \/ Finish(p)
           \/ Prepare(p)
  BY <1>1, <1>7 DEF Start, Notice, Again, RecoverPending, Run, Finish, Prepare,
     SameFiles, disks
<1>8. CASE \/ Begin(p) \/ SaveJournal(p) \/ SyncStage(p) \/ Verify(p)
           \/ CompleteTrash(p) \/ Die(p)
  BY <1>1, <1>8 DEF Begin, SaveJournal, SyncStage, Verify, CompleteTrash, Die,
     Goes, SameFiles, SyncSource, disks
<1>9. CASE \/ Decide(p) \/ Sync(p) \/ Clear(p) \/ SyncClear(p)
           \/ AlreadyClear(p)
  BY <1>1, <1>9 DEF Decide, Sync, Clear, SyncClear, AlreadyClear, Closes, Stuck,
     Goes, SameFiles, SyncSource
<1> QED
  BY <1>4, <1>5, <1>6, <1>7, <1>8, <1>9 DEF Step

\* What an instance counts stays right while the trash and the private
\* directories stay as they are; without the lock, also while the trash grows.
LEMMA Counts ==
  ASSUME IInv, NEW q \in Procs, Tally(q), proc'[q] = proc[q],
         Trash \subseteq Trash',
         \/ proc[q].at \notin Locked
         \/ Trash' = Trash /\ \A s \in Sources : fs'[s].staged = fs[s].staged
  PROVE  Tally(q)'
<1>1. PICK x : x = proc[q]
  OBVIOUS
<1>2. Knows(q) /\ x \in Process /\ proc'[q] = x
  BY <1>1, Types
<1>3. CASE x.at \notin Locked
  <2>1. x.at \in {"off", "idle", "next", "begin", "again"}
    BY <1>2, <1>3 DEF Process, Points, Locked, Settling
  <2> QED
    BY <1>1, <1>2, <2>1 DEF Tally, AllMoved, Settling, Removing
<1>4. CASE /\ x.at \in Locked /\ Trash' = Trash
           /\ \A s \in Sources : fs'[s].staged = fs[s].staged
  <2>1. x.rec \in Record
    BY <1>1, <1>2, <1>4 DEF Knows, Locked, Removing, Settling
  <2>2. fs'[x.rec.src].staged = fs[x.rec.src].staged
    BY <1>4, <2>1, Values
  <2> QED
    BY <1>1, <1>2, <1>4, <2>2 DEF Tally, AllMoved, AllBut
<1> QED
  BY <1>1, <1>3, <1>4

\* The trash grows with what is put there.
LEMMA Grown ==
  (\A s \in Sources : fs[s].bin \subseteq fs'[s].bin) => Trash \subseteq Trash'
BY DEF Trash

\* What is reported, and what is left of the job.
LEMMA Told ==
  ASSUME NEW q \in Process, NEW status \in Statuses, NEW review \in BOOLEAN
  PROVE  LET next == Reports(q, status, review)
         IN  /\ next.at = "idle" /\ next.taken = {} /\ next.moved = 0
             /\ next.gives = "failed"
             /\ next.result.review = review /\ next.result.moved = q.moved
             /\ ~review => next.result.status = status
<1>1. PICK r : r = [status |-> IF ~review THEN status
                               ELSE IF q.moved = 0 THEN "failed" ELSE "partial",
                    moved |-> q.moved, review |-> review]
  OBVIOUS
<1>2. /\ r.review = review /\ r.moved = q.moved
      /\ ~review => r.status = status
  BY <1>1
<1>3. PICK done : done =
        [q EXCEPT !.at = "idle", !.rec = NoRecord, !.todo = <<>>,
                  !.outcome = "none", !.plan = Newborn.plan, !.moved = 0,
                  !.taken = {}, !.gives = "failed", !.reviewed = FALSE,
                  !.to = "orig", !.mode = "start", !.result = r]
  OBVIOUS
<1>4. Reports(q, status, review) = done
  BY <1>1, <1>3 DEF Reports
<1>5. /\ done.at = "idle" /\ done.taken = {} /\ done.moved = 0
      /\ done.gives = "failed" /\ done.result = r
  BY <1>3 DEF Process
<1>6. /\ done.result.review = review /\ done.result.moved = q.moved
      /\ ~review => done.result.status = status
  BY <1>2, <1>5
<1> QED
  BY <1>4, <1>5, <1>6

\* The same at the end of a recovery.
LEMMA Settles ==
  ASSUME NEW q \in Process, NEW outcome \in Outcomes,
         q.mode = "start" => q.taken = {} /\ q.moved = 0,
         q.gives # "completed"
  PROVE  LET next == Ended(q, outcome)
         IN  /\ next.at = "idle" /\ next.taken = {} /\ next.moved = 0
             /\ next.gives # "completed"
             /\ q.mode = "start" => next.result = q.result
             /\ q.mode # "start" =>
                  /\ next.result.moved = q.moved
                  /\ ~next.result.review =>
                       /\ next.result.status = q.gives /\ ~q.reviewed
                       /\ outcome \in {"restored", "cleared"}
<1>1. PICK told : told = IF q.mode = "restore" THEN q
                         ELSE [q EXCEPT !.notice = outcome]
  OBVIOUS
<1>2. /\ told \in Process /\ told.taken = q.taken /\ told.moved = q.moved
      /\ told.gives = q.gives /\ told.result = q.result /\ q.gives \in Statuses
  BY <1>1 DEF Process
<1>3. CASE q.mode = "start"
  <2>1. Ended(q, outcome) = [told EXCEPT !.at = "idle", !.rec = NoRecord]
    BY <1>1, <1>3 DEF Ended
  <2> QED
    BY <1>2, <1>3, <2>1 DEF Process
<1>4. CASE q.mode # "start"
  <2>1. PICK review \in BOOLEAN : review = NeedsReview(outcome, q.reviewed)
    BY DEF NeedsReview
  <2>2. Ended(q, outcome) = Reports(told, q.gives, review)
    BY <1>1, <1>4, <2>1 DEF Ended
  <2>3. PICK next : next = Ended(q, outcome)
    OBVIOUS
  <2>4. /\ next.at = "idle" /\ next.taken = {} /\ next.moved = 0
        /\ next.gives = "failed"
        /\ next.result.review = review /\ next.result.moved = q.moved
        /\ ~review => next.result.status = q.gives
    BY <1>2, <2>2, <2>3, Told
  <2> QED
    BY <1>4, <2>1, <2>3, <2>4 DEF NeedsReview
<1> QED
  BY <1>3, <1>4

\* Nothing is counted for an instance that has nothing to do.
LEMMA Nothing ==
  ASSUME NEW p, proc'[p].at \in {"off", "idle"}, proc'[p].taken = {},
         proc'[p].moved = 0, proc'[p].gives # "completed"
  PROVE  Tally(p)'
BY FS_EmptySet DEF Tally, Settling, Removing

\* The recovery takes over from the job.
LEMMA Recovers ==
  ASSUME IInv, NEW p \in Procs, Tally(p), UNCHANGED fs,
         NEW q \in {proc[p], [proc[p] EXCEPT !.moved = @ + 1]},
         NEW status \in Statuses \ {"completed"}, NEW reviewed \in BOOLEAN,
         Becomes(p, Restores(q, status, reviewed)),
         reviewed \/ (q = proc[p] /\ AllBut(q, fs[q.rec.src].staged))
  PROVE  Tally(p)'
<1>1. proc[p] \in Process /\ proc \in [Procs -> Process]
  BY DEF IInv, TypeOK
<1>2. /\ q \in Process /\ q.taken = proc[p].taken /\ q.rec = proc[p].rec
  <2>1. CASE q = proc[p]
    BY <1>1, <2>1
  <2>2. CASE q = [proc[p] EXCEPT !.moved = @ + 1]
    <3>1. PICK x, moved : x = proc[p] /\ moved = proc[p].moved + 1
      OBVIOUS
    <3>2. x \in Process /\ moved \in Nat /\ q = [x EXCEPT !.moved = moved]
      BY <1>1, <2>2, <3>1 DEF Process
    <3>3. q \in Process
      BY <3>2 DEF Process
    <3> QED
      BY <3>1, <3>2, <3>3 DEF Process
  <2> QED
    BY <2>1, <2>2
<1>3. PICK next : next = Restores(q, status, reviewed)
  OBVIOUS
<1>4. /\ next.at = "decide" /\ next.mode = "restore" /\ next.taken = q.taken
      /\ next.gives = status /\ next.reviewed = reviewed /\ next.rec = q.rec
      /\ next.moved = q.moved
  BY <1>2, <1>3 DEF Restores, Process
<1>5. proc'[p] = next
  BY <1>1, <1>3 DEF Becomes
<1>6. Trash' = Trash
  BY DEF Trash
<1>7. IsFiniteSet(next.taken)
  BY <1>2, <1>4 DEF Tally
<1>8. ~reviewed => AllBut(next, fs[next.rec.src].staged)
  BY <1>4 DEF AllBut
<1> QED
  BY <1>4, <1>5, <1>6, <1>7, <1>8 DEF Tally, Settling, Removing, AllBut

\* A call fails while a record is settled.
LEMMA StuckTally ==
  ASSUME IInv, NEW p \in Procs, Tally(p), UNCHANGED fs,
         proc[p].at \in Settling \cup {"syncClear"}, Stuck(p)
  PROVE  Tally(p)'
<1>1. proc[p] \in Process /\ proc \in [Procs -> Process]
  BY DEF IInv, TypeOK
<1>2. CASE proc[p].mode # "trash"
  <2>1. PICK next : next = Ended(proc[p], "error")
    OBVIOUS
  <2>2. /\ proc[p].mode = "start" => proc[p].taken = {} /\ proc[p].moved = 0
        /\ proc[p].gives # "completed"
    BY DEF Tally
  <2>3. /\ next.at = "idle" /\ next.taken = {} /\ next.moved = 0
        /\ next.gives # "completed"
    BY <1>1, <2>1, <2>2, Settles DEF Outcomes
  <2>4. proc'[p] = next
    BY <1>1, <1>2, <2>1 DEF Stuck, Becomes
  <2> QED
    BY <2>3, <2>4, Nothing
<1>3. CASE proc[p].mode = "trash"
  BY <1>3, Recovers DEF Stuck, Statuses
<1> QED
  BY <1>2, <1>3

\* Pending records are looked for.
LEMMA RecoveringTally ==
  ASSUME IInv, NEW p \in Procs, Tally(p), UNCHANGED fs,
         NEW mode \in {"start", "begin"}, RecoverPending(p, mode),
         mode = "start" => proc[p].at \in {"off", "idle"},
         mode = "begin" => proc[p].at = "again"
  PROVE  Tally(p)'
<1>1. proc[p] \in Process /\ proc \in [Procs -> Process]
  BY DEF IInv, TypeOK
<1>2. PICK q : q = [proc[p] EXCEPT !.mode = mode]
  OBVIOUS
<1>3. /\ q \in Process /\ q.taken = proc[p].taken /\ q.moved = proc[p].moved
      /\ q.mode = mode /\ q.gives = proc[p].gives
  BY <1>1, <1>2 DEF Process, Modes
<1>4. /\ mode = "start" => q.taken = {} /\ q.moved = 0
      /\ q.gives # "completed" /\ IsFiniteSet(q.taken)
      /\ mode = "begin" => AllMoved(q, q.moved)
  BY <1>3 DEF Tally, AllMoved
<1>5. CASE \E outcome \in Outcomes : Becomes(p, Ended(q, outcome))
  <2>1. PICK outcome \in Outcomes : Becomes(p, Ended(q, outcome))
    BY <1>5
  <2>2. PICK next : next = Ended(q, outcome)
    OBVIOUS
  <2>3. /\ next.at = "idle" /\ next.taken = {} /\ next.moved = 0
        /\ next.gives # "completed"
    BY <1>3, <1>4, <2>2, Settles
  <2>4. proc'[p] = next
    BY <1>1, <2>1, <2>2 DEF Becomes
  <2> QED
    BY <2>3, <2>4, Nothing
<1>6. CASE Becomes(p, [q EXCEPT !.at = "decide", !.rec = journal])
  <2>1. PICK next : next = [q EXCEPT !.at = "decide", !.rec = journal]
    OBVIOUS
  <2>2. /\ next.at = "decide" /\ next.mode = mode /\ next.taken = q.taken
        /\ next.moved = q.moved /\ next.gives = q.gives
    BY <1>3, <2>1 DEF Process
  <2>3. proc'[p] = next
    BY <1>1, <1>6, <2>1 DEF Becomes
  <2>4. Trash' = Trash
    BY DEF Trash
  <2> QED
    BY <1>4, <2>2, <2>3, <2>4 DEF Tally, AllMoved, Settling, Removing
<1> QED
  BY <1>2, <1>5, <1>6 DEF RecoverPending, Outcomes

\* The job begins with nothing taken, and ends with nothing left to count.
LEMMA JobTally ==
  ASSUME IInv, NEW p \in Procs, Tally(p), Run(p) \/ Finish(p) \/ Prepare(p)
  PROVE  Tally(p)'
<1>1. /\ proc[p] \in Process /\ proc \in [Procs -> Process] /\ UNCHANGED fs
      /\ Trash' = Trash
  BY DEF IInv, TypeOK, Run, Finish, Prepare, disks, Trash
<1>2. CASE Run(p)
  <2>1. PICK plan : Becomes(p, [proc[p] EXCEPT !.at = "next", !.todo = Jobs[p],
                                       !.plan = plan, !.result = NoResult])
    BY <1>2 DEF Run
  <2>2. PICK next : next = [proc[p] EXCEPT !.at = "next", !.todo = Jobs[p],
                                    !.plan = plan, !.result = NoResult]
    OBVIOUS
  <2>3. /\ next.at = "next" /\ next.todo = Jobs[p] /\ next.taken = {}
        /\ next.moved = 0 /\ next.gives # "completed"
    BY <1>1, <1>2, <2>2 DEF Tally, Run, Process
  <2>4. proc'[p] = next
    BY <1>1, <2>1, <2>2 DEF Becomes
  <2>5. next.moved + Len(next.todo) = Len(Jobs[p])
    BY <2>3, CleanupAssumption
  <2>6. IsFiniteSet(next.taken) /\ Cardinality(next.taken) = next.moved
    BY <2>3, FS_EmptySet
  <2>7. next.taken \subseteq Trash'
    BY <2>3
  <2> QED
    BY <2>3, <2>4, <2>5, <2>6, <2>7 DEF Tally, AllMoved, Settling, Removing
<1>3. CASE \E status \in Statuses : Becomes(p, Reports(proc[p], status, FALSE))
  <2>1. PICK status \in Statuses : Becomes(p, Reports(proc[p], status, FALSE))
    BY <1>3
  <2>2. PICK next : next = Reports(proc[p], status, FALSE)
    OBVIOUS
  <2>3. /\ next.at = "idle" /\ next.taken = {} /\ next.moved = 0
        /\ next.gives = "failed"
    BY <1>1, <2>2, Told
  <2>4. proc'[p] = next
    BY <1>1, <2>1, <2>2 DEF Becomes
  <2> QED
    BY <2>3, <2>4, Nothing
<1>4. CASE /\ proc[p].at = "next"
           /\ \E rec : Becomes(p, [proc[p] EXCEPT !.at = "begin", !.rec = rec])
  <2>1. PICK rec : Becomes(p, [proc[p] EXCEPT !.at = "begin", !.rec = rec])
    BY <1>4
  <2>2. PICK next : next = [proc[p] EXCEPT !.at = "begin", !.rec = rec]
    OBVIOUS
  <2>3. /\ next.at = "begin" /\ next.todo = proc[p].todo
        /\ next.taken = proc[p].taken
        /\ next.moved = proc[p].moved /\ next.gives = proc[p].gives
    BY <1>1, <2>2 DEF Process
  <2>4. proc'[p] = next
    BY <1>1, <2>1, <2>2 DEF Becomes
  <2> QED
    BY <1>1, <1>4, <2>3, <2>4 DEF Tally, AllMoved, Settling, Removing
<1> QED
  BY <1>2, <1>3, <1>4 DEF Finish, Prepare, At, Statuses

\* Its record is written.
LEMMA BeginTally ==
  ASSUME IInv, NEW p \in Procs, Tally(p), Begin(p) \/ SaveJournal(p)
  PROVE  Tally(p)'
<1>1. /\ proc[p] \in Process /\ proc \in [Procs -> Process] /\ UNCHANGED fs
      /\ Trash' = Trash
  BY DEF IInv, TypeOK, Begin, SaveJournal, SameFiles, Trash
<1>2. PICK at \in {"saveJournal", "again", "stage"} :
        proc[p].at \in {"begin", "saveJournal"} /\ Goes(p, at)
  BY DEF Begin, SaveJournal, At
<1>3. PICK next : next = [proc[p] EXCEPT !.at = at]
  OBVIOUS
<1>4. /\ next.at = at /\ next.todo = proc[p].todo
      /\ next.taken = proc[p].taken
      /\ next.moved = proc[p].moved /\ next.gives = proc[p].gives
  BY <1>1, <1>3 DEF Process
<1>5. proc'[p] = next
  BY <1>1, <1>2, <1>3 DEF Goes, Becomes
<1> QED
  BY <1>1, <1>2, <1>4, <1>5 DEF Tally, AllMoved, Settling, Removing

\* The source that is moved aside is not in the trash.
LEMMA StageTally ==
  ASSUME IInv, NEW p \in Procs, Tally(p), Stage(p)
  PROVE  Tally(p)'
<1>0. PICK s, d : s = proc[p].rec.src /\ d = fs[s]
  OBVIOUS
<1>1. /\ proc[p] \in Process /\ proc \in [Procs -> Process]
      /\ proc[p].at = "stage" /\ Knows(p) /\ Apart /\ fs \in [Sources -> Dir]
  BY Types DEF Stage, At
<1>2. /\ proc[p].taken \subseteq Trash /\ Cardinality(proc[p].taken) = proc[p].moved
      /\ IsFiniteSet(proc[p].taken) /\ proc[p].gives # "completed"
      /\ proc[p].moved + Len(proc[p].todo) = Len(Jobs[p])
  BY <1>1 DEF Tally, AllMoved, Removing
<1>3. CASE SameFiles /\ Becomes(p, Restores(proc[p], "failed", FALSE))
  <2>1. AllBut(proc[p], fs[proc[p].rec.src].staged)
    <3>1. proc[p].taken \cap Trash = proc[p].taken
      BY <1>2
    <3> QED
      BY <1>2, <3>1 DEF AllBut
  <2> QED
    BY <1>3, <2>1, Recovers DEF SameFiles, Statuses
<1>4. CASE /\ d.orig # None
           /\ Put(s, [d EXCEPT !.staged = d.orig, !.orig = None])
           /\ Becomes(p, [proc[p] EXCEPT !.at = "syncStage",
                                         !.taken = @ \cup {d.orig}])
  <2>0. PICK next, e, f : /\ next = [proc[p] EXCEPT !.at = "syncStage",
                                                    !.taken = @ \cup {f}]
                          /\ f = d.orig
                          /\ e = [d EXCEPT !.staged = d.orig, !.orig = None]
    OBVIOUS
  <2>1. s \in Sources /\ d \in Dir /\ d \in disk[s] /\ Proper(d)
    BY <1>0, <1>1, Types, Values DEF Knows, Removing, DirOK
  <2>2. e.staged = f /\ e.bin = d.bin
    BY <2>0, <2>1 DEF Dir
  <2>3. /\ fs'[s] = e /\ \A t \in Sources : t # s => fs'[t] = fs[t]
    BY <1>1, <1>4, <2>0, <2>1 DEF Put
  <2>4. Trash' = Trash
    <3>1. \A t \in Sources : fs'[t].bin = fs[t].bin
      BY <1>0, <2>2, <2>3
    <3> QED
      BY <3>1 DEF Trash
  <2>5. f \notin Trash
    <3>1. f \in Present(d) /\ f \notin d.bin
      BY <1>4, <2>0, <2>1 DEF Present, Proper
    <3>2. ASSUME NEW t \in Sources, t # s PROVE f \notin fs[t].bin
      <4>1. Present(d) \cap Present(fs[t]) = {}
        BY <1>1, <2>1, <3>2, Types DEF Apart
      <4> QED
        BY <1>4, <2>0, <3>1, <4>1 DEF Present
    <3> QED
      BY <1>0, <3>1, <3>2 DEF Trash
  <2>6. /\ next.at = "syncStage" /\ next.taken = proc[p].taken \cup {f}
        /\ next.moved = proc[p].moved /\ next.gives = proc[p].gives
        /\ next.todo = proc[p].todo /\ next.rec = proc[p].rec
    BY <1>1, <2>0 DEF Process
  <2>7. proc'[p] = next
    BY <1>1, <1>4, <2>0 DEF Becomes
  <2>8. next.taken \cap Trash = proc[p].taken
    BY <1>2, <2>5, <2>6
  <2>9. IsFiniteSet(next.taken)
    BY <1>2, <2>6, FS_AddElement
  <2>10. AllBut(next, f)' /\ f \in next.taken \ Trash'
    BY <1>2, <2>4, <2>5, <2>6, <2>8 DEF AllBut
  <2> QED
    BY <1>0, <1>2, <2>2, <2>3, <2>6, <2>7, <2>9, <2>10
    DEF Tally, AllBut, Settling, Removing
<1> QED
  BY <1>0, <1>3, <1>4 DEF Stage

\* It is synced and compared.
LEMMA VerifyTally ==
  ASSUME IInv, NEW p \in Procs, Tally(p), SyncStage(p) \/ Verify(p)
  PROVE  Tally(p)'
<1>1. /\ proc[p] \in Process /\ proc \in [Procs -> Process] /\ UNCHANGED fs
      /\ Trash' = Trash
  BY DEF IInv, TypeOK, SyncStage, Verify, SameFiles, SyncSource, Trash
<1>2. proc[p].at \in {"syncStage", "verify"}
  BY DEF SyncStage, Verify, At
<1>3. /\ AllBut(proc[p], fs[proc[p].rec.src].staged)
      /\ fs[proc[p].rec.src].staged \in proc[p].taken \ Trash
      /\ IsFiniteSet(proc[p].taken) /\ proc[p].gives # "completed"
      /\ proc[p].moved + Len(proc[p].todo) = Len(Jobs[p])
  BY <1>2 DEF Tally, Removing
<1>4. CASE \E at \in {"verify", "trash"} : Goes(p, at)
  <2>1. PICK at \in {"verify", "trash"} : Goes(p, at)
    BY <1>4
  <2>2. PICK next : next = [proc[p] EXCEPT !.at = at]
    OBVIOUS
  <2>3. /\ next.at = at /\ next.taken = proc[p].taken
        /\ next.moved = proc[p].moved /\ next.gives = proc[p].gives
        /\ next.todo = proc[p].todo /\ next.rec = proc[p].rec
    BY <1>1, <2>2 DEF Process
  <2>4. proc'[p] = next
    BY <1>1, <2>1, <2>2 DEF Goes, Becomes
  <2> QED
    BY <1>1, <1>3, <2>3, <2>4 DEF Tally, AllBut, Settling, Removing
<1>5. CASE \E status \in Statuses \ {"completed"} :
             Becomes(p, Restores(proc[p], status, FALSE))
  BY <1>1, <1>3, <1>5, Recovers
<1>6. \/ \E at \in {"verify", "trash"} : Goes(p, at)
      \/ \E status \in {"failed", "blocked", "partial", "cancelled"} :
           Becomes(p, Restores(proc[p], status, FALSE))
  BY DEF SyncStage, Verify
<1>7. {"failed", "blocked", "partial", "cancelled"} \subseteq Statuses \ {"completed"}
  BY DEF Statuses
<1> QED
  BY <1>4, <1>5, <1>6, <1>7

\* The trash has it, or the private directory still does.
LEMMA TrashTally ==
  ASSUME IInv, NEW p \in Procs, Tally(p), MoveToTrash(p)
  PROVE  Tally(p)'
<1>0. PICK s, d, f : s = proc[p].rec.src /\ d = fs[s] /\ f = d.staged
  OBVIOUS
<1>1. /\ proc[p] \in Process /\ proc \in [Procs -> Process]
      /\ proc[p].at = "trash" /\ Knows(p) /\ fs \in [Sources -> Dir]
  BY Types DEF MoveToTrash, At
<1>2. /\ AllBut(proc[p], f) /\ f \in proc[p].taken \ Trash
      /\ IsFiniteSet(proc[p].taken) /\ proc[p].gives # "completed"
      /\ proc[p].moved + Len(proc[p].todo) = Len(Jobs[p])
  BY <1>0, <1>1 DEF Tally, Removing
<1>3. Cardinality(proc[p].taken) = proc[p].moved + 1
  <2>1. PICK in : in = proc[p].taken \cap Trash
    OBVIOUS
  <2>2. proc[p].taken = in \cup {f} /\ f \notin in
    BY <1>2, <2>1 DEF AllBut
  <2>3. IsFiniteSet(in) /\ Cardinality(in) = proc[p].moved
    BY <1>2, <2>1, FS_Subset DEF AllBut
  <2> QED
    BY <2>2, <2>3, FS_AddElement
<1>4. s \in Sources /\ d \in Dir
  BY <1>0, <1>1, Types, Values DEF Knows, Removing
<1>5. /\ proc[p].taken \subseteq Trash' \cup {fs'[s].staged}
      /\ fs'[s].staged = None => f \in Trash'
  <2>1. CASE SameFiles
    <3>1. fs' = fs /\ Trash' = Trash
      BY <2>1 DEF SameFiles, Trash
    <3>2. f # None
      BY <1>0, <1>1, Values DEF Knows, Removing
    <3> QED
      BY <1>0, <1>2, <3>1, <3>2 DEF AllBut
  <2>2. CASE Put(s, [d EXCEPT !.staged = None, !.bin = @ \cup {d.staged}])
    <3>1. fs'[s] = [d EXCEPT !.staged = None, !.bin = @ \cup {d.staged}]
      BY <1>1, <1>4, <2>2 DEF Put
    <3>2. f \in Trash'
      <4>1. fs'[s].bin = d.bin \cup {f}
        BY <1>0, <1>4, <3>1 DEF Dir
      <4>2. f \in fs'[s].bin
        BY <4>1
      <4> QED
        BY <1>4, <4>2 DEF Trash
    <3>3. Trash \subseteq Trash'
      BY <1>1, Turns, Grown DEF Step
    <3> QED
      BY <1>2, <3>2, <3>3 DEF AllBut
  <2> QED
    BY <1>0, <2>1, <2>2 DEF MoveToTrash
<1>6. CASE Becomes(p, [proc[p] EXCEPT !.at = "complete"])
  <2>1. PICK next : next = [proc[p] EXCEPT !.at = "complete"]
    OBVIOUS
  <2>2. /\ next.at = "complete" /\ next.taken = proc[p].taken
        /\ next.moved = proc[p].moved /\ next.gives = proc[p].gives
        /\ next.todo = proc[p].todo /\ next.rec = proc[p].rec
    BY <1>1, <2>1 DEF Process
  <2>3. proc'[p] = next
    BY <1>1, <1>6, <2>1 DEF Becomes
  <2> QED
    BY <1>0, <1>2, <1>3, <1>5, <2>2, <2>3 DEF Tally, Settling, Removing
<1>7. CASE Becomes(p, Restores(proc[p], "failed", TRUE))
  <2>1. PICK next : next = Restores(proc[p], "failed", TRUE)
    OBVIOUS
  <2>2. /\ next.at = "decide" /\ next.mode = "restore" /\ next.reviewed
        /\ next.taken = proc[p].taken /\ next.gives = "failed"
    BY <1>1, <2>1 DEF Process, Restores
  <2>3. proc'[p] = next
    BY <1>1, <1>7, <2>1 DEF Becomes
  <2> QED
    BY <1>2, <2>2, <2>3 DEF Tally, Settling, Removing
<1> QED
  BY <1>6, <1>7 DEF MoveToTrash

\* It is counted when it is in the trash.
LEMMA CompleteTally ==
  ASSUME IInv, NEW p \in Procs, Tally(p), CompleteTrash(p)
  PROVE  Tally(p)'
<1>0. PICK d : d = fs[proc[p].rec.src]
  OBVIOUS
<1>1. /\ proc[p] \in Process /\ proc \in [Procs -> Process] /\ UNCHANGED fs
      /\ Trash' = Trash /\ proc[p].at = "complete"
  BY DEF IInv, TypeOK, CompleteTrash, At, SameFiles, Trash
<1>2. /\ Cardinality(proc[p].taken) = proc[p].moved + 1
      /\ proc[p].taken \subseteq Trash \cup {d.staged}
      /\ IsFiniteSet(proc[p].taken) /\ proc[p].gives # "completed"
      /\ proc[p].moved + Len(proc[p].todo) = Len(Jobs[p])
  BY <1>0, <1>1 DEF Tally, Removing
<1>3. CASE /\ Accepted(d)
           /\ Becomes(p, [proc[p] EXCEPT !.at = "sync", !.mode = "trash"])
  <2>1. PICK next : next = [proc[p] EXCEPT !.at = "sync", !.mode = "trash"]
    OBVIOUS
  <2>2. /\ next.at = "sync" /\ next.mode = "trash"
        /\ next.taken = proc[p].taken
        /\ next.moved = proc[p].moved /\ next.gives = proc[p].gives
        /\ next.todo = proc[p].todo
    BY <1>1, <2>1 DEF Process
  <2>3. proc'[p] = next
    BY <1>1, <1>3, <2>1 DEF Becomes
  <2>4. proc[p].taken \subseteq Trash
    BY <1>1, <1>2, <1>3, Values DEF Accepted, Process
  <2> QED
    BY <1>1, <1>2, <2>2, <2>3, <2>4 DEF Tally, AllMoved, Settling, Removing
<1>4. CASE \E q \in {proc[p], [proc[p] EXCEPT !.moved = @ + 1]} :
             Becomes(p, Restores(q, "failed", TRUE))
  BY <1>1, <1>4, Recovers DEF Statuses
<1> QED
  BY <1>0, <1>3, <1>4 DEF CompleteTrash

\* Where the recovery has found the source.
LEMMA DecideTally ==
  ASSUME IInv, NEW p \in Procs, Tally(p), Decide(p)
  PROVE  Tally(p)'
<1>0. PICK d : d = fs[proc[p].rec.src]
  OBVIOUS
<1>1. /\ proc[p] \in Process /\ proc \in [Procs -> Process] /\ UNCHANGED fs
      /\ Trash' = Trash /\ proc[p].at = "decide"
  BY DEF IInv, TypeOK, Decide, At, SameFiles, Trash
<1>2. CASE Stuck(p)
  BY <1>1, <1>2, StuckTally DEF Settling
<1>3. ASSUME NEW next, Becomes(p, next),
             \/ \E to : next = [proc[p] EXCEPT !.at = "move", !.to = to]
             \/ /\ d.staged = None
                /\ \E outcome : next = Settled(proc[p], outcome)
      PROVE  Tally(p)'
  <2>1. /\ next.taken = proc[p].taken /\ next.moved = proc[p].moved
        /\ next.gives = proc[p].gives /\ next.mode = proc[p].mode
        /\ next.reviewed = proc[p].reviewed /\ next.rec = proc[p].rec
        /\ next.at = "move" \/ (next.at = "sync" /\ d.staged = None)
    BY <1>1, <1>3 DEF Settled, Process
  <2>2. proc'[p] = next
    BY <1>1, <1>3 DEF Becomes
  <2>3. /\ IsFiniteSet(next.taken) /\ next.gives # "completed"
        /\ next.mode # "trash"
        /\ next.mode = "start" => next.taken = {} /\ next.moved = 0
        /\ next.mode = "begin" => AllMoved(next, next.moved)'
        /\ next.mode = "restore" /\ ~next.reviewed => AllBut(next, d.staged)'
    BY <1>0, <1>1, <2>1 DEF Tally, AllMoved, AllBut, Settling
  <2>4. CASE next.at = "move"
    BY <1>0, <1>1, <2>1, <2>2, <2>3, <2>4
    DEF Tally, AllMoved, AllBut, Settling, Removing
  <2>5. CASE next.at = "sync" /\ d.staged = None
    <3>1. next.mode = "restore" /\ ~next.reviewed =>
            AllBut(next, next.rec.identity)'
      BY <1>1, <2>1, <2>3, <2>5, Values DEF AllBut, Process
    <3> QED
      BY <2>1, <2>2, <2>3, <2>5, <3>1
      DEF Tally, AllMoved, AllBut, Settling, Removing
  <2> QED
    BY <2>1, <2>4, <2>5
<1> QED
  BY <1>0, <1>2, <1>3 DEF Decide

\* Where it puts it.
LEMMA MoveTally ==
  ASSUME IInv, NEW p \in Procs, Tally(p), Move(p)
  PROVE  Tally(p)'
<1>0. PICK s, d, to : s = proc[p].rec.src /\ d = fs[s] /\ to = proc[p].to
  OBVIOUS
<1>1. /\ proc[p] \in Process /\ proc \in [Procs -> Process]
      /\ proc[p].at = "move" /\ Knows(p) /\ fs \in [Sources -> Dir]
      /\ to \in {"orig", "spare"}
  BY <1>0, Types DEF Move, At, Process
<1>2. CASE SameFiles /\ Stuck(p)
  BY <1>1, <1>2, StuckTally DEF Settling, SameFiles
<1>3. ASSUME NEW outcome, outcome \in {"restored", "cleared"} =>
                            d.staged = proc[p].rec.identity,
             Put(s, [d EXCEPT ![to] = d.staged, !.staged = None]),
             Becomes(p, Settled(proc[p], outcome))
      PROVE  Tally(p)'
  <2>1. PICK next : next = Settled(proc[p], outcome)
    OBVIOUS
  <2>2. /\ next.at = "sync" /\ next.outcome = outcome
        /\ next.taken = proc[p].taken /\ next.moved = proc[p].moved
        /\ next.gives = proc[p].gives /\ next.mode = proc[p].mode
        /\ next.reviewed = proc[p].reviewed /\ next.rec = proc[p].rec
    BY <1>1, <2>1 DEF Settled, Process
  <2>3. proc'[p] = next
    BY <1>1, <1>3, <2>1 DEF Becomes
  <2>4. Trash' = Trash
    <3>1. s \in Sources /\ d \in Dir
      BY <1>0, <1>1, Values DEF Knows, Settling
    <3>2. [d EXCEPT ![to] = d.staged, !.staged = None].bin = d.bin
      BY <1>1, <3>1 DEF Dir
    <3>3. \A t \in Sources : fs'[t].bin = fs[t].bin
      BY <1>0, <1>1, <1>3, <3>1, <3>2 DEF Put
    <3> QED
      BY <3>3 DEF Trash
  <2>5. /\ IsFiniteSet(next.taken) /\ next.gives # "completed"
        /\ next.mode # "trash"
        /\ next.mode = "start" => next.taken = {} /\ next.moved = 0
        /\ next.mode = "begin" => AllMoved(next, next.moved)'
        /\ next.mode = "restore" /\ ~next.reviewed => AllBut(next, d.staged)'
    BY <1>0, <1>1, <2>2, <2>4 DEF Tally, AllMoved, AllBut, Settling
  <2> QED
    BY <1>3, <2>2, <2>3, <2>5 DEF Tally, AllMoved, AllBut, Settling, Removing
<1>4. \/ SameFiles /\ Stuck(p)
      \/ \E outcome :
           /\ outcome \in {"restored", "cleared"} =>
                d.staged = proc[p].rec.identity
           /\ Put(s, [d EXCEPT ![to] = d.staged, !.staged = None])
           /\ Becomes(p, Settled(proc[p], outcome))
  <2>1. PICK outcome : outcome =
          IF d.staged # proc[p].rec.identity THEN "changed"
          ELSE IF to = "orig" THEN "restored" ELSE "preserved"
    OBVIOUS
  <2> QED
    BY <1>0, <2>1 DEF Move
<1> QED
  BY <1>2, <1>3, <1>4

\* Directories and journal are synced.
LEMMA ClearTally ==
  ASSUME IInv, NEW p \in Procs, Tally(p), Sync(p) \/ Clear(p)
  PROVE  Tally(p)'
<1>1. /\ proc[p] \in Process /\ proc \in [Procs -> Process]
      /\ proc[p].at \in {"sync", "clear"} /\ UNCHANGED fs /\ Trash' = Trash
  BY DEF IInv, TypeOK, Sync, Clear, At, SameFiles, SyncSource, Trash
<1>2. CASE Stuck(p)
  BY <1>1, <1>2, StuckTally DEF Settling
<1>3. CASE \E at \in {"clear", "syncClear"} : Goes(p, at)
  <2>1. PICK at \in {"clear", "syncClear"} : Goes(p, at)
    BY <1>3
  <2>2. PICK next : next = [proc[p] EXCEPT !.at = at]
    OBVIOUS
  <2>3. /\ next.at = at /\ next.outcome = proc[p].outcome
        /\ next.taken = proc[p].taken /\ next.moved = proc[p].moved
        /\ next.gives = proc[p].gives /\ next.mode = proc[p].mode
        /\ next.reviewed = proc[p].reviewed /\ next.rec = proc[p].rec
        /\ next.todo = proc[p].todo
    BY <1>1, <2>2 DEF Process
  <2>4. proc'[p] = next
    BY <1>1, <2>1, <2>2 DEF Goes, Becomes
  <2> QED
    BY <1>1, <2>3, <2>4 DEF Tally, AllMoved, AllBut, Settling, Removing
<1> QED
  BY <1>2, <1>3 DEF Sync, Clear

\* The record is gone, and the next source follows.
LEMMA SyncClearTally ==
  ASSUME IInv, NEW p \in Procs, Tally(p), SyncClear(p) \/ AlreadyClear(p)
  PROVE  Tally(p)'
<1>1. /\ proc[p] \in Process /\ proc \in [Procs -> Process]
      /\ proc[p].at \in {"clear", "syncClear"} /\ UNCHANGED fs /\ Trash' = Trash /\ Knows(p)
  BY Types DEF SyncClear, AlreadyClear, At, SameFiles, Trash
<1>2. CASE Stuck(p)
  BY <1>1, <1>2, StuckTally DEF Settling
<1>3. CASE Becomes(p, Ended(proc[p], proc[p].outcome))
  <2>1. PICK next : next = Ended(proc[p], proc[p].outcome)
    OBVIOUS
  <2>2. /\ proc[p].mode = "start" => proc[p].taken = {} /\ proc[p].moved = 0
        /\ proc[p].gives # "completed" /\ proc[p].outcome \in Outcomes
    BY <1>1 DEF Tally, Process, Settling
  <2>3. /\ next.at = "idle" /\ next.taken = {} /\ next.moved = 0
        /\ next.gives # "completed"
    BY <1>1, <2>1, <2>2, Settles
  <2>4. proc'[p] = next
    BY <1>1, <1>3, <2>1 DEF Becomes
  <2> QED
    BY <2>3, <2>4, Nothing
<1>4. CASE /\ proc[p].mode = "trash"
           /\ Becomes(p, [proc[p] EXCEPT !.at = "next", !.todo = Tail(@),
                            !.rec = NoRecord, !.mode = "start",
                            !.moved = @ + 1])
  <2>1. PICK rest, moved, next :
          /\ rest = Tail(proc[p].todo) /\ moved = proc[p].moved + 1
          /\ next = [proc[p] EXCEPT !.at = "next", !.todo = rest,
                       !.rec = NoRecord, !.mode = "start", !.moved = moved]
    OBVIOUS
  <2>2. /\ next.at = "next" /\ next.todo = rest /\ next.moved = moved
        /\ next.taken = proc[p].taken /\ next.gives = proc[p].gives
    BY <1>1, <2>1 DEF Process
  <2>3. proc'[p] = next
    BY <1>1, <1>4, <2>1 DEF Becomes
  <2>4. moved + Len(rest) = Len(Jobs[p])
    <3>1. /\ proc[p].moved + Len(proc[p].todo) = Len(Jobs[p])
      BY <1>1, <1>4 DEF Tally, Settling
    <3>2. PICK todo : todo = proc[p].todo
      OBVIOUS
    <3>3. todo # <<>> /\ todo \in Seq(Sources)
      BY <1>1, <1>4, <3>2 DEF Knows, Process, Settling
    <3>4. Len(Tail(todo)) = Len(todo) - 1
      BY <3>3
    <3>5. Len(todo) \in Nat /\ proc[p].moved \in Nat
      BY <1>1, <3>3 DEF Process
    <3> QED
      BY <2>1, <3>1, <3>2, <3>4, <3>5
  <2>5. /\ next.taken \subseteq Trash' /\ Cardinality(next.taken) = next.moved
        /\ IsFiniteSet(next.taken) /\ next.gives # "completed"
    BY <1>1, <1>4, <2>1, <2>2 DEF Tally, AllMoved, Settling
  <2> QED
    BY <2>2, <2>3, <2>4, <2>5 DEF Tally, AllMoved, Settling, Removing
<1> QED
  BY <1>2, <1>3, <1>4 DEF SyncClear, AlreadyClear, Closes

\* The counts of all instances stay right.
LEMMA StepTallies ==
  ASSUME IInv, Tallies, NEW p \in Procs, Step(p)
  PROVE  Tallies'
<1>1. Tally(p)
  BY DEF Tallies
<1>2. Tally(p)'
  <2>1. CASE Start(p) \/ Notice(p)
    BY <1>1, <2>1, RecoveringTally DEF Start, Notice, At, SameFiles
  <2>2. CASE Again(p)
    BY <1>1, <2>2, RecoveringTally DEF Again, At, SameFiles
  <2>3. CASE Die(p)
    <3>1. proc'[p] = Newborn
      BY <2>3 DEF Die, Becomes, IInv, TypeOK
    <3> QED
      BY <3>1, Nothing DEF Newborn
  <2> QED
    BY <1>1, <2>1, <2>2, <2>3, JobTally, BeginTally, StageTally, VerifyTally,
       TrashTally, CompleteTally, DecideTally, MoveTally, ClearTally,
       SyncClearTally DEF Step
<1>3. ASSUME NEW q \in Procs \ {p} PROVE Tally(q)'
  <2>1. Tally(q) /\ proc'[q] = proc[q]
    BY Turns DEF Tallies
  <2>2. CASE fs' = fs
    <3>1. Trash' = Trash
      BY <2>2 DEF Trash
    <3> QED
      BY <2>1, <2>2, <3>1, Counts
  <2>3. CASE /\ proc[p].at \in Locked
             /\ \A s \in Sources : fs[s].bin \subseteq fs'[s].bin
    <3>1. proc[q].at \notin Locked
      BY <2>3 DEF IInv, TypeOK
    <3>2. Trash \subseteq Trash'
      BY <2>3, Grown
    <3> QED
      BY <2>1, <3>1, <3>2, Counts
  <2> QED
    BY <2>2, <2>3, Turns
<1> QED
  BY <1>2, <1>3 DEF Tallies

\* Other programs and losses of power do not make them wrong.
LEMMA InductiveTallies ==
  ASSUME IInv, Tallies, [Next]_vars
  PROVE  Tallies'
<1>1. CASE PowerLoss
  <2>1. \A q \in Procs : proc'[q] = Newborn
    BY <1>1 DEF PowerLoss
  <2> QED
    BY <2>1, Nothing DEF Tallies, Newborn
<1>2. ASSUME UNCHANGED proc,
             \A s \in Sources : /\ fs'[s].bin = fs[s].bin
                                /\ fs'[s].staged = fs[s].staged
      PROVE  Tallies'
  <2>1. Trash' = Trash
    BY <1>2 DEF Trash
  <2> QED
    BY <1>2, <2>1, Counts DEF Tallies
<1>3. ASSUME NEW s \in Sources, Change(s)
      PROVE  /\ UNCHANGED proc
             /\ \A t \in Sources : /\ fs'[t].bin = fs[t].bin
                                   /\ fs'[t].staged = fs[t].staged
  <2>1. PICK d : d = fs[s]
    OBVIOUS
  <2>2. fs \in [Sources -> Dir] /\ d \in Dir
    BY <2>1 DEF IInv, TypeOK
  <2>3. PICK e : /\ Put(s, e)
                 /\ \/ e = [d EXCEPT !.orig = NewFile]
                    \/ e = [d EXCEPT !.orig = None]
                    \/ e = [d EXCEPT !.spare = NewFile]
    BY <1>3, <2>1 DEF Change
  <2>4. e.bin = d.bin /\ e.staged = d.staged
    BY <2>2, <2>3 DEF Dir
  <2> QED
    BY <1>3, <2>1, <2>2, <2>3, <2>4 DEF Put, Change
<1>4. CASE UNCHANGED <<fs, proc>>
  BY <1>2, <1>4
<1> QED
  BY <1>1, <1>2, <1>3, <1>4, StepTallies
  DEF Next, Flush, SyncSource, Edit, disks, vars

-----------------------------------------------------------------------------
(***************************************************************************)
(* Which steps report something that needs no review.                      *)
(***************************************************************************)
\* The instance reports nothing, or asks for a review.
Silent(p) == \/ proc'[p].result = proc[p].result
             \/ proc'[p].result.status = "none"
             \/ proc'[p].result.review

\* A failing call while a record is settled asks for one.
LEMMA StuckIsSilent ==
  ASSUME IInv, NEW p \in Procs, Tally(p),
         proc[p].at \in Settling \cup {"syncClear"}, Stuck(p)
  PROVE  Silent(p)
<1>1. proc[p] \in Process /\ proc \in [Procs -> Process]
  BY DEF IInv, TypeOK
<1>2. CASE proc[p].mode # "trash"
  <2>1. PICK next : next = Ended(proc[p], "error")
    OBVIOUS
  <2>2. /\ proc[p].mode = "start" => proc[p].taken = {} /\ proc[p].moved = 0
        /\ proc[p].gives # "completed"
    BY DEF Tally
  <2>3. next.result = proc[p].result \/ next.result.review
    BY <1>1, <2>1, <2>2, Settles DEF Outcomes
  <2>4. proc'[p] = next
    BY <1>1, <1>2, <2>1 DEF Stuck, Becomes
  <2> QED
    BY <2>3, <2>4 DEF Silent
<1>3. CASE proc[p].mode = "trash"
  <2>1. PICK q, next : /\ q = [proc[p] EXCEPT !.moved = @ + 1]
                       /\ next = Restores(q, "failed", TRUE)
    OBVIOUS
  <2>2. proc'[p] = next
    BY <1>1, <1>3, <2>1 DEF Stuck, Becomes
  <2>3. next.result = proc[p].result
    BY <1>1, <2>1 DEF Restores, Process
  <2> QED
    BY <2>2, <2>3 DEF Silent
<1> QED
  BY <1>2, <1>3

\* So does a recovery that cannot tell, and one at the start reports nothing.
LEMMA RecoveringIsSilent ==
  ASSUME IInv, NEW p \in Procs, Tally(p), Start(p) \/ Notice(p) \/ Again(p)
  PROVE  Silent(p)
<1>1. proc[p] \in Process /\ proc \in [Procs -> Process]
  BY DEF IInv, TypeOK
<1>2. PICK mode \in {"start", "begin"} :
        /\ RecoverPending(p, mode)
        /\ mode = "start" => proc[p].at \in {"off", "idle"}
  BY DEF Start, Notice, Again, At
<1>3. PICK q : q = [proc[p] EXCEPT !.mode = mode]
  OBVIOUS
<1>4. /\ q \in Process /\ q.result = proc[p].result
      /\ q.mode = "start" => q.taken = {} /\ q.moved = 0
      /\ q.gives # "completed"
  BY <1>1, <1>2, <1>3 DEF Process, Modes, Tally
<1>5. CASE \E outcome \in {"busy", "none"} : Becomes(p, Ended(q, outcome))
  <2>1. PICK outcome \in {"busy", "none"} : Becomes(p, Ended(q, outcome))
    BY <1>5
  <2>2. PICK next : next = Ended(q, outcome)
    OBVIOUS
  <2>3. next.result = q.result \/ next.result.review
    BY <1>4, <2>1, <2>2, Settles DEF Outcomes
  <2>4. proc'[p] = next
    BY <1>1, <2>1, <2>2 DEF Becomes
  <2> QED
    BY <1>4, <2>3, <2>4 DEF Silent
<1>6. CASE Becomes(p, [q EXCEPT !.at = "decide", !.rec = journal])
  <2>1. PICK next : next = [q EXCEPT !.at = "decide", !.rec = journal]
    OBVIOUS
  <2>2. next.result = q.result
    BY <1>4, <2>1 DEF Process
  <2>3. proc'[p] = next
    BY <1>1, <1>6, <2>1 DEF Becomes
  <2> QED
    BY <1>4, <2>2, <2>3 DEF Silent
<1> QED
  BY <1>2, <1>3, <1>5, <1>6 DEF RecoverPending

\* The steps between the beginning of a job and its end report nothing.
LEMMA WorkIsSilent ==
  ASSUME IInv, NEW p \in Procs, Tally(p),
         \/ Run(p) \/ Begin(p) \/ SaveJournal(p) \/ Stage(p) \/ SyncStage(p)
         \/ Verify(p) \/ MoveToTrash(p) \/ CompleteTrash(p) \/ Die(p)
         \/ Decide(p) \/ Move(p) \/ Sync(p) \/ Clear(p)
  PROVE  Silent(p)
<1>1. proc[p] \in Process /\ proc \in [Procs -> Process]
  BY DEF IInv, TypeOK
<1>2. \A next : Becomes(p, next) => proc'[p] = next
  BY <1>1 DEF Becomes
<1>3. CASE Run(p)
  <2>1. PICK plan : Becomes(p, [proc[p] EXCEPT !.at = "next", !.todo = Jobs[p],
                                       !.plan = plan, !.result = NoResult])
    BY <1>3 DEF Run
  <2>2. PICK none, next :
          /\ none = NoResult
          /\ next = [proc[p] EXCEPT !.at = "next", !.todo = Jobs[p],
                                    !.plan = plan, !.result = none]
    OBVIOUS
  <2>3. next.result = none
    BY <1>1, <2>2 DEF Process
  <2>4. none.status = "none"
    BY <2>2 DEF NoResult
  <2>5. proc'[p] = next
    BY <1>2, <2>1, <2>2
  <2> QED
    BY <2>3, <2>4, <2>5 DEF Silent
<1>4. CASE Die(p)
  BY <1>2, <1>4 DEF Silent, Die, Newborn, NoResult
<1>5. CASE Stuck(p) /\ (Decide(p) \/ Move(p) \/ Sync(p) \/ Clear(p))
  BY <1>5, StuckIsSilent DEF Decide, Move, Sync, Clear, At, Settling
<1>6. CASE \E at : Goes(p, at)
  <2>1. PICK at : Goes(p, at)
    BY <1>6
  <2>2. [proc[p] EXCEPT !.at = at].result = proc[p].result
    BY <1>1 DEF Process
  <2> QED
    BY <1>2, <2>1, <2>2 DEF Silent, Goes
<1>7. CASE \E q \in {proc[p], [proc[p] EXCEPT !.moved = @ + 1]} :
             \E status, reviewed : Becomes(p, Restores(q, status, reviewed))
  <2>1. PICK q \in {proc[p], [proc[p] EXCEPT !.moved = @ + 1]} :
          \E status, reviewed : Becomes(p, Restores(q, status, reviewed))
    BY <1>7
  <2>0. PICK status, reviewed : Becomes(p, Restores(q, status, reviewed))
    BY <2>1
  <2>2. Restores(q, status, reviewed).result = proc[p].result
    BY <1>1, <2>1 DEF Process, Restores
  <2> QED
    BY <1>2, <2>0, <2>2 DEF Silent
<1>8. CASE Stage(p) \/ CompleteTrash(p)
  <2>1. CASE \E taken : Becomes(p, [proc[p] EXCEPT !.at = "syncStage",
                                                   !.taken = taken])
    <3>1. PICK taken : Becomes(p, [proc[p] EXCEPT !.at = "syncStage",
                                                  !.taken = taken])
      BY <2>1
    <3>2. [proc[p] EXCEPT !.at = "syncStage", !.taken = taken].result
            = proc[p].result
      BY <1>1 DEF Process
    <3> QED
      BY <1>2, <3>1, <3>2 DEF Silent
  <2>2. CASE Becomes(p, [proc[p] EXCEPT !.at = "sync", !.mode = "trash"])
    <3>1. [proc[p] EXCEPT !.at = "sync", !.mode = "trash"].result
            = proc[p].result
      BY <1>1 DEF Process
    <3> QED
      BY <1>2, <2>2, <3>1 DEF Silent
  <2> QED
    BY <1>7, <1>8, <2>1, <2>2 DEF Stage, CompleteTrash
<1>9. CASE Decide(p) \/ Move(p)
  <2>1. CASE \E to : Becomes(p, [proc[p] EXCEPT !.at = "move", !.to = to])
    <3>1. PICK to : Becomes(p, [proc[p] EXCEPT !.at = "move", !.to = to])
      BY <2>1
    <3>2. [proc[p] EXCEPT !.at = "move", !.to = to].result = proc[p].result
      BY <1>1 DEF Process
    <3> QED
      BY <1>2, <3>1, <3>2 DEF Silent
  <2>2. CASE \E outcome : Becomes(p, Settled(proc[p], outcome))
    <3>1. PICK outcome : Becomes(p, Settled(proc[p], outcome))
      BY <2>2
    <3>2. Settled(proc[p], outcome).result = proc[p].result
      BY <1>1 DEF Process, Settled
    <3> QED
      BY <1>2, <3>1, <3>2 DEF Silent
  <2> QED
    BY <1>5, <1>9, <2>1, <2>2 DEF Decide, Move
<1>10. CASE Begin(p) \/ SaveJournal(p) \/ SyncStage(p) \/ Verify(p)
            \/ MoveToTrash(p)
  BY <1>6, <1>7, <1>10 DEF Begin, SaveJournal, SyncStage, Verify, MoveToTrash,
     Goes
<1>11. CASE Sync(p) \/ Clear(p)
  BY <1>5, <1>6, <1>11 DEF Sync, Clear
<1> QED
  BY <1>3, <1>4, <1>8, <1>9, <1>10, <1>11

\* What a report that needs no review is based on.
LEMMA Reporting ==
  ASSUME IInv, NEW p \in Procs, Tally(p), Step(p), ~Silent(p)
  PROVE  LET q == proc[p]
             r == proc'[p].result
         IN  /\ UNCHANGED <<fs, kept>>
             /\ \/ /\ AllMoved(q, r.moved)
                   /\ r.status = "completed" => r.moved = Len(Jobs[p])
                \/ /\ AllBut(q, q.rec.identity) /\ r.moved = q.moved
                   /\ r.status # "completed" /\ q.rec.src \in Sources
                   /\ \/ fs[q.rec.src].orig = q.rec.identity
                      \/ Vanished(q.rec.identity)
<1>1. proc[p] \in Process /\ proc \in [Procs -> Process] /\ Knows(p)
  BY Types
<1>2. Finish(p) \/ Prepare(p) \/ SyncClear(p) \/ AlreadyClear(p)
  BY RecoveringIsSilent, WorkIsSilent DEF Step
<1>3. UNCHANGED <<fs, kept>>
  BY <1>2 DEF Finish, Prepare, SyncClear, AlreadyClear, disks, others, SameFiles
<1>4. CASE Finish(p)
  <2>1. PICK status \in {"completed", "cancelled"} :
          /\ Becomes(p, Reports(proc[p], status, FALSE))
          /\ status = "completed" => proc[p].todo = <<>>
    BY <1>4 DEF Finish
  <2>2. PICK next : next = Reports(proc[p], status, FALSE)
    OBVIOUS
  <2>3. next.result.moved = proc[p].moved /\ next.result.status = status
    <3>1. status \in Statuses
      BY <2>1 DEF Statuses
    <3> QED
      BY <1>1, <2>2, <3>1, Told
  <2>4. proc'[p] = next
    BY <1>1, <2>1, <2>2 DEF Becomes
  <2>5. /\ AllMoved(proc[p], proc[p].moved)
        /\ proc[p].moved + Len(proc[p].todo) = Len(Jobs[p])
    BY <1>4 DEF Tally, Finish, At
  <2>6. status = "completed" => proc[p].moved = Len(Jobs[p])
    <3>1. Len(<<>>) = 0 /\ proc[p].moved \in Nat
      BY <1>1 DEF Process
    <3> QED
      BY <2>1, <2>5, <3>1
  <2> QED
    BY <1>3, <2>3, <2>4, <2>5, <2>6
<1>5. CASE Prepare(p)
  <2>1. CASE Becomes(p, Reports(proc[p], "failed", FALSE))
    <3>1. PICK next : next = Reports(proc[p], "failed", FALSE)
      OBVIOUS
    <3>2. next.result.moved = proc[p].moved /\ next.result.status = "failed"
      BY <1>1, <3>1, Told DEF Statuses
    <3>3. proc'[p] = next
      BY <1>1, <2>1, <3>1 DEF Becomes
    <3>4. AllMoved(proc[p], proc[p].moved)
      BY <1>5 DEF Tally, Prepare, At
    <3> QED
      BY <1>3, <3>2, <3>3, <3>4
  <2>2. CASE \E rec : Becomes(p, [proc[p] EXCEPT !.at = "begin", !.rec = rec])
    <3>1. PICK rec : Becomes(p, [proc[p] EXCEPT !.at = "begin", !.rec = rec])
      BY <2>2
    <3>2. [proc[p] EXCEPT !.at = "begin", !.rec = rec].result = proc[p].result
      BY <1>1 DEF Process
    <3> QED
      BY <1>1, <3>1, <3>2 DEF Becomes, Silent
  <2> QED
    BY <1>5, <2>1, <2>2 DEF Prepare
<1>6. CASE SyncClear(p) \/ AlreadyClear(p)
  <2>0. PICK q : q = proc[p]
    OBVIOUS
  <2>1. q.at \in {"clear", "syncClear"} /\ q \in Process
    BY <1>1, <1>6, <2>0 DEF SyncClear, AlreadyClear, At
  <2>2. CASE Stuck(p)
    BY <2>0, <2>1, <2>2, StuckIsSilent DEF Settling
  <2>3. CASE /\ q.mode = "trash"
             /\ Becomes(p, [q EXCEPT !.at = "next", !.todo = Tail(@),
                              !.rec = NoRecord, !.mode = "start",
                              !.moved = @ + 1])
    <3>1. PICK rest, moved : rest = Tail(q.todo) /\ moved = q.moved + 1
      OBVIOUS
    <3>2. [q EXCEPT !.at = "next", !.todo = rest, !.rec = NoRecord,
                    !.mode = "start", !.moved = moved].result = q.result
      BY <2>1 DEF Process
    <3>3. proc'[p] = [q EXCEPT !.at = "next", !.todo = rest, !.rec = NoRecord,
                               !.mode = "start", !.moved = moved]
      BY <1>1, <2>3, <3>1 DEF Becomes
    <3> QED
      BY <2>0, <3>2, <3>3 DEF Silent
  <2>4. CASE q.mode # "trash" /\ Becomes(p, Ended(q, q.outcome))
    <3>1. PICK next : next = Ended(q, q.outcome)
      OBVIOUS
    <3>2. proc'[p] = next
      BY <1>1, <2>4, <3>1 DEF Becomes
    <3>3. /\ q.mode = "start" => q.taken = {} /\ q.moved = 0
          /\ q.gives # "completed" /\ q.outcome \in Outcomes
      BY <2>0, <2>1 DEF Tally, Process, Settling
    <3>4. /\ q.mode = "start" => next.result = q.result
          /\ q.mode # "start" =>
               /\ next.result.moved = q.moved
               /\ ~next.result.review =>
                    /\ next.result.status = q.gives /\ ~q.reviewed
                    /\ q.outcome \in {"restored", "cleared"}
      BY <2>1, <3>1, <3>3, Settles
    <3>5. /\ q.mode # "start" /\ ~next.result.review
      BY <2>0, <3>2, <3>4 DEF Silent
    <3>6. /\ next.result.moved = q.moved /\ next.result.status # "completed"
          /\ ~q.reviewed /\ q.outcome \in {"restored", "cleared"}
      BY <3>3, <3>4, <3>5
    <3>7. CASE q.mode = "begin"
      <4>1. AllMoved(q, q.moved)
        BY <2>0, <2>1, <3>7 DEF Tally, Settling
      <4> QED
        BY <1>3, <2>0, <3>2, <3>6, <4>1
    <3>8. CASE q.mode = "restore"
      <4>1. AllBut(q, q.rec.identity)
        BY <2>0, <2>1, <3>6, <3>8 DEF Tally, Settling
      <4>2. Truth(q) /\ q.rec \in Record
        BY <1>1, <2>0, <2>1, <3>8 DEF Knows, Settling
      <4>3. /\ q.rec.src \in Sources
            /\ \/ fs[q.rec.src].orig = q.rec.identity
               \/ Vanished(q.rec.identity)
        BY <3>6, <4>2, Values DEF Truth
      <4> QED
        BY <1>3, <2>0, <3>2, <3>6, <4>1, <4>3
    <3> QED
      BY <2>1, <2>4, <3>5, <3>7, <3>8 DEF Process, Modes
  <2> QED
    BY <1>6, <2>0, <2>2, <2>3, <2>4 DEF SyncClear, AlreadyClear, Closes
<1> QED
  BY <1>2, <1>4, <1>5, <1>6

\* A report that needs no review is true.
LEMMA TrueResult ==
  ASSUME IInv, Tallies, [Next]_vars, NEW p \in Procs,
         proc'[p].result # proc[p].result, proc'[p].result.status # "none",
         ~proc'[p].result.review
  PROVE  LET r == proc'[p].result
             q == proc[p]
             gone == {file \in q.taken : \E s \in Sources : file \in fs'[s].bin}
             back == {file \in q.taken : \E s \in Sources : fs'[s].orig = file}
         IN  /\ Cardinality(gone) = r.moved
             /\ q.taken \cap kept' \subseteq gone \cup back
             /\ r.status = "completed" => r.moved = Len(Jobs[p])
<1>1. Step(p)
  <2>1. \A q \in Procs \ {p} : ~Step(q)
    BY Turns
  <2>2. ~PowerLoss
    BY DEF PowerLoss, Newborn, NoResult
  <2>3. proc' # proc
    OBVIOUS
  <2> QED
    BY <2>1, <2>2, <2>3
    DEF Next, Change, Flush, Edit, disks, vars
<1>2. Tally(p) /\ ~Silent(p)
  BY DEF Tallies, Silent
<1>3. PICK q, r : q = proc[p] /\ r = proc'[p].result
  OBVIOUS
<1>4. /\ UNCHANGED <<fs, kept>>
      /\ \/ /\ AllMoved(q, r.moved)
            /\ r.status = "completed" => r.moved = Len(Jobs[p])
         \/ /\ AllBut(q, q.rec.identity) /\ r.moved = q.moved
            /\ r.status # "completed" /\ q.rec.src \in Sources
            /\ \/ fs[q.rec.src].orig = q.rec.identity
               \/ Vanished(q.rec.identity)
  BY <1>1, <1>2, <1>3, Reporting
<1>5. PICK gone : gone = {file \in q.taken :
                            \E s \in Sources : file \in fs'[s].bin}
  OBVIOUS
<1>6. gone = q.taken \cap Trash
  BY <1>4, <1>5 DEF Trash
<1>7. Cardinality(gone) = r.moved
  <2>1. AllMoved(q, r.moved) => gone = q.taken
    BY <1>6 DEF AllMoved
  <2> QED
    BY <1>4, <1>6, <2>1 DEF AllMoved, AllBut
<1>8. q.taken \cap kept' \subseteq
        gone \cup {file \in q.taken : \E s \in Sources : fs'[s].orig = file}
  BY <1>4, <1>6 DEF AllMoved, AllBut, Vanished
<1>9. r.status = "completed" => r.moved = Len(Jobs[p])
  BY <1>4
<1> QED
  BY <1>3, <1>5, <1>7, <1>8, <1>9

\* At the start nothing is counted.
LEMMA FirstTallies ==
  ASSUME Init
  PROVE  Tallies
<1>1. \A p \in Procs : /\ proc[p].at = "off" /\ proc[p].taken = {}
                       /\ proc[p].moved = 0 /\ proc[p].gives # "completed"
  BY DEF Init, Newborn
<1> QED
  BY <1>1, FS_EmptySet DEF Tallies, Tally, Settling, Removing

\* What the two kinds of report say is true, in whatever order jobs and
\* recoveries of several instances, failures and other programs come.
\* [source_cleanup.rs SourceCleanupResult; source_cleanup_journal.rs
\* SourceCleanupRecovery]
THEOREM ReportsAreTruthful == Spec => ReportsAreTrue
<1>1. Init => IInv /\ Tallies
  BY Beginning, FirstTallies
<1>2. IInv /\ Tallies /\ [Next]_vars => (IInv /\ Tallies)'
  BY Inductive, InductiveTallies
<1>3. IInv /\ Tallies /\ [Next]_vars =>
        [\A p \in Procs :
           LET r == proc'[p].result
               q == proc[p]
               gone == {file \in q.taken :
                          \E s \in Sources : file \in fs'[s].bin}
               back == {file \in q.taken :
                          \E s \in Sources : fs'[s].orig = file}
           IN  (r # q.result /\ r.status # "none" /\ ~r.review) =>
                 /\ Cardinality(gone) = r.moved
                 /\ q.taken \cap kept' \subseteq gone \cup back
                 /\ r.status = "completed" => r.moved = Len(Jobs[p])]_vars
  BY TrueResult
<1>4. Spec => ResultsAreTrue
  BY <1>1, <1>2, <1>3, PTL DEF Spec, ResultsAreTrue
<1> QED
  BY <1>4, RecoveryIsTruthful, PTL DEF ReportsAreTrue
=============================================================================
