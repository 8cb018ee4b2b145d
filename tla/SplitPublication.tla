-------------------------- MODULE SplitPublication --------------------------
(***************************************************************************)
(* The publication of a split archive: crates/squallz-core, the commit of  *)
(* src/volumes.rs and src/volumes/publication.rs.                          *)
(*                                                                         *)
(* A split run writes the parts of an archive under private names.  Under  *)
(* the lock of the output family it finishes a transaction that somebody   *)
(* left behind, binds the present members, writes a journal, moves every   *)
(* member to a backup name, then every part to its final name, verifies    *)
(* and clears the journal.  Backups stay.  A run that must not replace     *)
(* anything has no journal.                                                *)
(*                                                                         *)
(* Every file-system call that changes something is a step of its own;     *)
(* between any two the process may die, the machine lose power, the call   *)
(* fail, or another program change a member or a backup.  Parts and the    *)
(* journal are left alone by other programs.                               *)
(***************************************************************************)
EXTENDS Integers, FiniteSets, Sequences, SequencesExt

CONSTANTS Procs,          \* processes that split archives to this base
          Runs,           \* split runs, numbered
          Names,          \* names of members, in the order they are moved
          Firsts,         \* the sets of members there may be at the start
          Missing,        \* nothing at a path
          NoProc,         \* the family is not locked
          MaxFaults,      \* bound: failing calls, deaths of a process, losses
                          \* of power and changes by other programs, together
          MaxForeign      \* bound: changes by other programs

(***************************************************************************)
(* A file is known by the run that wrote it and its name: 0 stands for     *)
(* what was there first, Stray for other programs.  Evidence is identity   *)
(* and digest, so a file that was rewritten counts as another one.         *)
(***************************************************************************)
First == 0
Stray == -1
File  == [by : Runs \cup {First, Stray}, name : Nat]
Slot  == File \cup {Missing}
Part(r, n) == [by |-> r, name |-> n]

ASSUME SplitAssumption ==
  /\ Runs \subseteq Nat \ {0} /\ IsFiniteSet(Runs)
  /\ Names \subseteq Nat /\ IsFiniteSet(Names)
  /\ Firsts \subseteq SUBSET Names
  /\ NoProc \notin Procs /\ Missing \notin File
  /\ {MaxFaults, MaxForeign} \subseteq Nat

\* SplitTransactionRecord: the members with their bindings, and the outputs.
Record  == [run : Runs \cup {0}, prev : [Names -> Slot], outs : SUBSET Names]
Nowhere == [n \in Names |-> Missing]
NoTx    == [run |-> 0, prev |-> Nowhere, outs |-> {}]
Bound(t) == {n \in Names : t.prev[n] # Missing}

\* The directory: members, private parts, backups and the journal.
Tree == [final : [Names -> Slot], part : [Runs -> SUBSET Names],
         backup : [Runs -> [Names -> Slot]], journal : Record]

Policies == {"NoReplace", "ReplaceExisting", "ReplaceIfUnchanged"}

Points == {"idle", "staged", "open", "snapshot", "source", "journal",
           "journalSync", "backup", "moveBackup", "syncBackup", "rebind",
           "install", "moveInstall", "syncInstall", "verify", "clear",
           "clearSync", "place", "placeSync", "bind", "cleanup"}

\* What a process knows: its own run, the transaction it drives, the names
\* that are left of its loop, and the transaction it has finished for others.
Process == [at : Points, run : Runs \cup {0}, policy : Policies,
            outs : SUBSET Names, guard : [Names -> Slot], tx : Record,
            left : SUBSET Names, recovered : Record]
NoProcess == [at |-> "idle", run |-> 0, policy |-> "NoReplace", outs |-> {},
              guard |-> Nowhere, tx |-> NoTx, left |-> {}, recovered |-> NoTx]

VARIABLES
  fs,          \* the directory as every running process sees it
  disk,        \* the directories a power loss may leave
  lock,        \* who holds the lock of the output family
  proc,        \* process -> Process
  used,        \* history: runs that have begun
  decided,     \* history: runs whose outputs are to be the family, in order
  sets,        \* history: the names each run writes, and whether at once
  acked,       \* history: the last run that reported success
  kept,        \* history: files that have been members and that no other
               \* program has removed
  lost,        \* history: runs that died or could not clean up
  touched,     \* history: changes that other programs have made
  faults       \* what is left of MaxFaults

history == <<used, decided, sets, acked, lost>>
vars == <<fs, disk, lock, proc, history, kept, touched, faults>>

TypeOK ==
  /\ fs \in Tree /\ \A s \in disk : s \in Tree
  /\ lock \in Procs \cup {NoProc}
  /\ proc \in [Procs -> Process]
  /\ \A p \in Procs :
       /\ lock = p => proc[p].at \notin {"idle", "staged"}
       /\ lock # p => proc[p].at \in {"idle", "staged", "cleanup"}
  /\ used \in SUBSET Runs /\ lost \in SUBSET Runs
  /\ decided \in Seq(Runs \cup {First})
  /\ sets \in [Runs \cup {First} -> [names : SUBSET Names, whole : BOOLEAN]]
  /\ acked \in Runs \cup {First}
  /\ kept \in SUBSET File
  /\ touched + faults <= MaxFaults

Init ==
  \E there \in Firsts :
    /\ fs = [final   |-> [n \in Names |-> IF n \in there THEN Part(First, n)
                                          ELSE Missing],
             part    |-> [r \in Runs |-> {}],
             backup  |-> [r \in Runs |-> Nowhere],
             journal |-> NoTx]
    /\ disk = {fs}
    /\ lock = NoProc
    /\ proc = [p \in Procs |-> NoProcess]
    /\ used = {} /\ lost = {}
    /\ decided = <<First>>
    /\ sets = [r \in Runs \cup {First} |->
                 [names |-> IF r = First THEN there ELSE {}, whole |-> TRUE]]
    /\ acked = First
    /\ kept = {Part(First, n) : n \in there}
    /\ touched = 0 /\ faults = MaxFaults

-----------------------------------------------------------------------------
(***************************************************************************)
(* Building blocks.  A call changes the directory at once and the disk     *)
(* when it pleases; the changes reach the disk in order.                   *)
(***************************************************************************)
Change(s) == fs' = s /\ disk' = disk \cup {s}
Sync == disk' = {fs} /\ UNCHANGED fs
Look == UNCHANGED <<fs, disk>>

Least(S) == CHOOSE n \in S : \A m \in S : n <= m
Becomes(p, q) == proc' = [proc EXCEPT ![p] = q]
Goes(p, at) == Becomes(p, [proc[p] EXCEPT !.at = at])
At(p, point) == proc[p].at = point /\ UNCHANGED <<touched, faults>>

Stop(p) ==
  /\ Becomes(p, NoProcess)
  /\ lock' = IF lock = p THEN NoProc ELSE lock

\* A process drives its own transaction or one that it has found.
Own(p) == proc[p].tx.run = proc[p].run

\* Once its journal may be there a run leaves its parts to the journal; until
\* then, and while it finishes somebody else's work, a failure removes them.
Published == {"journalSync", "backup", "moveBackup", "syncBackup", "rebind",
              "install", "moveInstall", "syncInstall", "verify", "clear",
              "clearSync", "bind"}

\* Mutant: a failed run always removes its parts.
Refuse_CleansUp(p) == Goes(p, "cleanup") /\ UNCHANGED lock

Refuse(p) ==
  IF Own(p) /\ proc[p].policy # "NoReplace" /\ proc[p].at \in Published
    THEN Stop(p)
    ELSE Goes(p, "cleanup") /\ UNCHANGED lock

-----------------------------------------------------------------------------
(***************************************************************************)
(* Writing the parts, the lock, the recovery, the snapshot.                *)
(***************************************************************************)
\* The next run splits into the first k names.  What the user has agreed to
\* replace is remembered before.
Stage(p) ==
  /\ At(p, "idle") /\ used # Runs
  /\ \E k \in Names, policy \in Policies :
       LET r    == Least(Runs \ used)
           outs == {n \in Names : n <= k}
       IN  /\ Change([fs EXCEPT !.part[r] = outs])
           /\ Becomes(p, [NoProcess EXCEPT !.at = "staged", !.run = r,
                            !.policy = policy, !.outs = outs,
                            !.guard = IF policy = "ReplaceIfUnchanged"
                                      THEN fs.final ELSE Nowhere])
           /\ used' = used \cup {r}
           /\ sets' = [sets EXCEPT ![r] = [names |-> outs,
                                           whole |-> policy # "NoReplace"]]
  /\ UNCHANGED <<lock, decided, acked, kept, lost>>

\* The checkpoint of the commit phase, before the lock.
Cancelled(p) ==
  /\ At(p, "staged")
  /\ Refuse(p) /\ Look
  /\ UNCHANGED <<history, kept>>

\* Mutant: the lock is not waited for.
Lock_Anyway(p) ==
  /\ At(p, "staged")
  /\ lock' = p
  /\ Goes(p, "open") /\ Look
  /\ UNCHANGED <<history, kept>>

Lock(p) ==
  /\ At(p, "staged") /\ lock = NoProc
  /\ lock' = p
  /\ Goes(p, "open") /\ Look
  /\ UNCHANGED <<history, kept>>

\* Mutant: a journal that is found is removed.
Recover_Discards(p) ==
  /\ At(p, "open")
  /\ Change([fs EXCEPT !.journal = NoTx])
  /\ Goes(p, "snapshot")
  /\ UNCHANGED <<lock, history, kept>>

Recover(p) ==
  /\ At(p, "open")
  /\ IF fs.journal = NoTx THEN Goes(p, "snapshot")
     ELSE Becomes(p, [proc[p] EXCEPT !.at = "backup", !.tx = fs.journal,
                                     !.left = Bound(fs.journal)])
  /\ Look /\ UNCHANGED <<lock, history, kept>>

Admits(p) ==
  CASE proc[p].policy = "NoReplace"          -> fs.final = Nowhere
    [] proc[p].policy = "ReplaceExisting"    -> TRUE
    [] proc[p].policy = "ReplaceIfUnchanged" -> fs.final = proc[p].guard

Snapshot(p) ==
  /\ At(p, "snapshot")
  /\ IF Admits(p)
     THEN /\ Becomes(p, [proc[p] EXCEPT !.at = "source",
               !.tx = [run |-> proc[p].run, prev |-> fs.final,
                       outs |-> proc[p].outs]])
          /\ UNCHANGED lock
     ELSE Refuse(p)
  /\ Look /\ UNCHANGED <<history, kept>>

\* The complete archive is removed and the directory synchronised: from here
\* on the parts are all there is of it.
DropSource(p) ==
  /\ At(p, "source")
  /\ Sync
  /\ IF proc[p].policy = "NoReplace"
     THEN /\ Becomes(p, [proc[p] EXCEPT !.at = "place", !.left = proc[p].outs])
          /\ decided' = Append(decided, proc[p].run)
     ELSE Goes(p, "journal") /\ UNCHANGED decided
  /\ UNCHANGED <<lock, used, sets, acked, kept, lost>>

-----------------------------------------------------------------------------
(***************************************************************************)
(* The transaction: journal, backups, outputs.                             *)
(***************************************************************************)
\* A journal that is there already is an error.
WriteJournal(p) ==
  /\ At(p, "journal")
  /\ IF fs.journal # NoTx
     THEN Refuse(p) /\ Look /\ UNCHANGED decided
     ELSE /\ Change([fs EXCEPT !.journal = proc[p].tx])
          /\ decided' = Append(decided, proc[p].run)
          /\ Goes(p, "journalSync") /\ UNCHANGED lock
  /\ UNCHANGED <<used, sets, acked, kept, lost>>

SyncJournal(p) ==
  /\ At(p, "journalSync")
  /\ Sync
  /\ Becomes(p, [proc[p] EXCEPT !.at = "backup", !.left = Bound(proc[p].tx)])
  /\ UNCHANGED <<lock, history, kept>>

\* The name the loop is at, and what it has to find there.
Next_(p) == Least(proc[p].left)
Visited(p, at) ==
  Becomes(p, [proc[p] EXCEPT !.at = at, !.left = @ \ {Next_(p)}])
Output(t, n) == IF n \in t.outs THEN Part(t.run, n) ELSE Missing

Backup(p) ==
  LET t == proc[p].tx
      n == Next_(p)
  IN  /\ At(p, "backup")
      /\ IF proc[p].left = {}
         THEN Goes(p, "rebind") /\ UNCHANGED lock
         ELSE \/ /\ fs.final[n] = t.prev[n] /\ fs.backup[t.run][n] = Missing
                 /\ Goes(p, "moveBackup") /\ UNCHANGED lock
              \/ /\ fs.final[n] \in {Missing, Output(t, n)}
                 /\ fs.backup[t.run][n] = t.prev[n]
                 /\ Visited(p, "backup") /\ UNCHANGED lock
              \/ /\ ~(fs.final[n] = t.prev[n] /\ fs.backup[t.run][n] = Missing)
                 /\ ~(/\ fs.final[n] \in {Missing, Output(t, n)}
                      /\ fs.backup[t.run][n] = t.prev[n])
                 /\ Refuse(p)
      /\ Look /\ UNCHANGED <<history, kept>>

\* Mutant: the move overwrites what is at the other end.
MoveFile_Overwrites(from, to) == from # Missing

\* move_path_no_replace.
MoveFile(from, to) == from # Missing /\ to = Missing

MoveBackup(p) ==
  LET r == proc[p].tx.run
      n == Next_(p)
  IN  /\ At(p, "moveBackup")
      /\ IF MoveFile(fs.final[n], fs.backup[r][n])
         THEN /\ Change([fs EXCEPT !.final[n] = Missing,
                                   !.backup[r][n] = fs.final[n]])
              /\ Goes(p, "syncBackup") /\ UNCHANGED lock
         ELSE Refuse(p) /\ Look
      /\ UNCHANGED <<history, kept>>

SyncBackup(p) ==
  LET t == proc[p].tx
      n == Next_(p)
  IN  /\ At(p, "syncBackup")
      /\ Sync
      /\ IF fs.backup[t.run][n] = t.prev[n] /\ fs.final[n] = Missing
         THEN Visited(p, "backup") /\ UNCHANGED lock
         ELSE Refuse(p)
      /\ UNCHANGED <<history, kept>>

BackedUp(t) == \A n \in Bound(t) : fs.backup[t.run][n] = t.prev[n]

Rebind(p) ==
  /\ At(p, "rebind")
  /\ IF BackedUp(proc[p].tx)
     THEN /\ Becomes(p, [proc[p] EXCEPT !.at = "install",
                                        !.left = proc[p].tx.outs])
          /\ UNCHANGED lock
     ELSE Refuse(p)
  /\ Look /\ UNCHANGED <<history, kept>>

Install(p) ==
  LET t == proc[p].tx
      n == Next_(p)
  IN  /\ At(p, "install")
      /\ IF proc[p].left = {}
         THEN Goes(p, "verify") /\ UNCHANGED lock
         ELSE \/ /\ n \in fs.part[t.run] /\ fs.final[n] = Missing
                 /\ Goes(p, "moveInstall") /\ UNCHANGED lock
              \/ /\ n \notin fs.part[t.run] /\ fs.final[n] = Output(t, n)
                 /\ Visited(p, "install") /\ UNCHANGED lock
              \/ /\ fs.final[n] # IF n \in fs.part[t.run] THEN Missing
                                  ELSE Output(t, n)
                 /\ Refuse(p)
      /\ Look /\ UNCHANGED <<history, kept>>

\* A part becomes a member.
Placed(r, n) ==
  /\ Change([fs EXCEPT !.final[n] = Part(r, n), !.part[r] = @ \ {n}])
  /\ kept' = kept \cup {Part(r, n)}

MoveInstall(p) ==
  LET r == proc[p].tx.run
      n == Next_(p)
  IN  /\ At(p, "moveInstall")
      /\ IF MoveFile(Part(r, n), fs.final[n])
         THEN /\ Placed(r, n)
              /\ Goes(p, "syncInstall") /\ UNCHANGED lock
         ELSE Refuse(p) /\ Look /\ UNCHANGED kept
      /\ UNCHANGED history

SyncInstall(p) ==
  LET n == Next_(p)
  IN  /\ At(p, "syncInstall")
      /\ Sync
      /\ IF fs.final[n] = Output(proc[p].tx, n)
         THEN Visited(p, "install") /\ UNCHANGED lock
         ELSE Refuse(p)
      /\ UNCHANGED <<history, kept>>

\* Backups, retired names and outputs once more, and nothing else may be a
\* member.
Verify(p) ==
  LET t == proc[p].tx
  IN  /\ At(p, "verify")
      /\ Sync
      /\ IF BackedUp(t) /\ \A n \in Names : fs.final[n] = Output(t, n)
         THEN Goes(p, "clear") /\ UNCHANGED lock
         ELSE Refuse(p)
      /\ UNCHANGED <<history, kept>>

Clear(p) ==
  /\ At(p, "clear")
  /\ Change([fs EXCEPT !.journal = NoTx])
  /\ Goes(p, "clearSync")
  /\ UNCHANGED <<lock, history, kept>>

SyncClear(p) ==
  /\ At(p, "clearSync")
  /\ Sync
  /\ IF Own(p) THEN Goes(p, "bind")
     ELSE Becomes(p, [proc[p] EXCEPT !.at = "snapshot", !.tx = NoTx,
                                     !.recovered = proc[p].tx])
  /\ UNCHANGED <<lock, history, kept>>

\* Success is reported while all backups are where the report says.
Bind(p) ==
  /\ At(p, "bind")
  /\ acked' = IF BackedUp(proc[p].tx) /\ (proc[p].recovered.run # 0 =>
                                            BackedUp(proc[p].recovered))
              THEN proc[p].run ELSE acked
  /\ Stop(p) /\ Look
  /\ UNCHANGED <<used, decided, sets, kept, lost>>

-----------------------------------------------------------------------------
(***************************************************************************)
(* Publication into free names, and the removal of parts.                  *)
(***************************************************************************)
Place(p) ==
  LET r == proc[p].run
      n == Next_(p)
  IN  /\ At(p, "place")
      /\ IF proc[p].left = {}
         THEN Goes(p, "placeSync") /\ Look /\ UNCHANGED <<lock, kept>>
         ELSE IF MoveFile(Part(r, n), fs.final[n])
         THEN Placed(r, n) /\ Visited(p, "place") /\ UNCHANGED lock
         ELSE Refuse(p) /\ Look /\ UNCHANGED kept
      /\ UNCHANGED history

SyncPlace(p) ==
  /\ At(p, "placeSync")
  /\ Sync
  /\ Goes(p, "bind")
  /\ UNCHANGED <<lock, history, kept>>

\* Each part that is still there is moved aside and removed, and the directory
\* synchronised at once; the last synchronisation ends the run.
CleanUp(p) ==
  LET r == proc[p].run
  IN  /\ At(p, "cleanup")
      /\ IF fs.part[r] = {}
         THEN Sync /\ Stop(p)
         ELSE /\ fs' = [fs EXCEPT !.part[r] = @ \ {Least(@)}]
              /\ disk' = {fs'}
              /\ UNCHANGED <<lock, proc>>
      /\ UNCHANGED <<history, kept>>

-----------------------------------------------------------------------------
(***************************************************************************)
(* What goes wrong.                                                        *)
(***************************************************************************)
Calls == {"source", "journal", "journalSync", "moveBackup", "syncBackup",
          "moveInstall", "syncInstall", "verify", "clear", "clearSync",
          "place", "placeSync"}

Fault == faults > 0 /\ faults' = faults - 1

\* A call fails and changes nothing; the run takes its error path.
Fail(p) ==
  /\ Fault /\ UNCHANGED touched
  /\ \/ /\ proc[p].at \in Calls
        /\ Refuse(p) /\ UNCHANGED lost
     \/ /\ proc[p].at = "cleanup"
        /\ Stop(p) /\ lost' = lost \cup {proc[p].run}
  /\ Look /\ UNCHANGED <<used, decided, sets, acked, kept>>

Die(p) ==
  /\ Fault /\ UNCHANGED touched
  /\ proc[p].at # "idle"
  /\ lost' = lost \cup {proc[p].run}
  /\ Stop(p) /\ Look
  /\ UNCHANGED <<used, decided, sets, acked, kept>>

\* Parts that had been removed may be back, and what other programs did may
\* be undone.
PowerLoss ==
  /\ Fault /\ UNCHANGED touched
  /\ fs' \in disk /\ disk' = {fs'}
  /\ proc' = [p \in Procs |-> NoProcess]
  /\ lock' = NoProc
  /\ lost' = lost \cup used
  /\ kept' = {f \in kept : f.by # Stray}
  /\ UNCHANGED <<used, decided, sets, acked>>

\* Another program removes or replaces a member or a backup.
Foreign ==
  /\ Fault /\ touched < MaxForeign /\ touched' = touched + 1
  /\ \E n \in Names, new \in {Missing, Part(Stray, touched)} :
       \/ /\ fs.final[n] # new
          /\ Change([fs EXCEPT !.final[n] = new])
          /\ kept' = (kept \ {fs.final[n]}) \cup ({new} \ {Missing})
       \/ \E r \in Runs :
            /\ fs.backup[r][n] # Missing
            /\ Change([fs EXCEPT !.backup[r][n] = new])
            /\ kept' = (kept \ {fs.backup[r][n]}) \cup ({new} \ {Missing})
  /\ UNCHANGED <<lock, proc, history>>

-----------------------------------------------------------------------------
Step(p) ==
  \/ Cancelled(p) \/ Lock(p) \/ Recover(p) \/ Snapshot(p) \/ DropSource(p)
  \/ WriteJournal(p) \/ SyncJournal(p) \/ Backup(p) \/ MoveBackup(p)
  \/ SyncBackup(p) \/ Rebind(p) \/ Install(p) \/ MoveInstall(p)
  \/ SyncInstall(p) \/ Verify(p) \/ Clear(p) \/ SyncClear(p) \/ Bind(p)
  \/ Place(p) \/ SyncPlace(p) \/ CleanUp(p)

Next ==
  \/ \E p \in Procs : Stage(p) \/ Step(p) \/ Fail(p) \/ Die(p)
  \/ PowerLoss \/ Foreign

Spec == Init /\ [][Next]_vars

-----------------------------------------------------------------------------
(***************************************************************************)
(* Properties.                                                             *)
(***************************************************************************)
Members(s) == {s.final[n] : n \in Names} \ {Missing}

\* Members of two generations never stand side by side, at no moment and after
\* no power loss: a reader that collects the set finds too little or a whole
\* set, never a mixture.  [publication.rs resume_with: all backups before the
\* first output]
NeverMixed(s) ==
  \A e, f \in Members(s) : e.by # Stray /\ f.by # Stray => e.by = f.by

\* Without a journal the family is one whole set, the one reported last or one
\* decided since; a run that may not replace anything may leave its first
\* members.  [publication.rs resume_with, ensure_completed_family, clear]
SetOf(r) == {Part(r, n) : n \in sets[r].names}
Since(r) == {decided[i] : i \in {k \in DOMAIN decided :
               \E a \in 1..k : decided[a] = r}}
WholeFamily(s) ==
  touched = 0 /\ s.journal = NoTx =>
    \E r \in Since(acked) :
      \/ Members(s) = SetOf(r)
      \/ Members(s) \subseteq SetOf(r) /\ r # acked /\ ~sets[r].whole

\* What a reader finds is one set, now and after any power loss.
\* [publication.rs resume_with, clear]
AlwaysOneSet == \A s \in disk : NeverMixed(s) /\ WholeFamily(s)

\* Whatever a power loss leaves of a transaction, the next run can finish it:
\* each bound member is at its name or at its backup, each output at its part
\* or at its name, and nothing else is in the way.  [publication.rs
\* resume_with; volumes.rs commit: "Only its journal owner can decide whether
\* staging must be kept for recovery"]
RecoveryAdmits ==
  touched = 0 => \A s \in disk : s.journal # NoTx =>
    LET t == s.journal IN
    \A n \in Names :
      /\ n \in Bound(t) =>
           \/ s.final[n] = t.prev[n] /\ s.backup[t.run][n] = Missing
           \/ /\ s.final[n] \in {Missing, Output(t, n)}
              /\ s.backup[t.run][n] = t.prev[n]
      /\ n \in t.outs => (n \in s.part[t.run]) # (s.final[n] = Part(t.run, n))
      /\ s.final[n] \in {Missing, t.prev[n], Output(t, n)}

\* A file that has been a member is never removed or overwritten, whoever put
\* it there and whatever failed: it is a member, a backup or, after a power
\* loss, a part again.  [publication.rs: "no competing path was removed or
\* overwritten"]
Backups(s) == {s.backup[r][n] : r \in Runs, n \in Names} \ {Missing}
Parts(s) == UNION {{Part(r, n) : n \in s.part[r]} : r \in Runs}
Held(s) == Members(s) \cup Backups(s) \cup Parts(s)
NothingLost ==
  /\ kept \subseteq Held(fs)
  /\ \A s \in disk : {f \in kept : f.by # Stray} \subseteq Held(s)
=============================================================================
