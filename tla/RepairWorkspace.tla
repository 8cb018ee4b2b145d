--------------------------- MODULE RepairWorkspace ---------------------------
(***************************************************************************)
(* The private workspace of a PAR2 repair: crates/squallz-recovery,        *)
(* src/repair_workspace.rs.                                                *)
(*                                                                         *)
(* A repair copies an archive into a directory beside the output and works *)
(* there.  So that a crash does not leave such copies lying about, a       *)
(* record beside the output announces the directory before it is made      *)
(* (Reserved), names its identity and that of an owner file before it is   *)
(* used (Active), and goes after both are removed.  The next repair of the *)
(* same output finishes what it finds, and leaves alone what it cannot     *)
(* prove to be its own.  Repairs of one output exclude each other by a     *)
(* lock; the owner file is locked as well.                                 *)
(*                                                                         *)
(* Every call that changes the file system is a step; between any two the  *)
(* process may die, the machine lose power or the call fail.  Other        *)
(* programs and the user change directories that are left behind, while no *)
(* repair of the output runs.                                              *)
(***************************************************************************)
EXTENDS Integers, FiniteSets

CONSTANTS Procs,          \* processes that repair to this output
          Runs,           \* repairs, numbered; a repair names its workspace
          NoProc,         \* nobody holds a lock
          MaxFaults       \* bound: failing calls, deaths of a process, losses
                          \* of power and changes by others, together

ASSUME WorkspaceAssumption ==
  /\ Runs \subseteq Nat \ {0} /\ IsFiniteSet(Runs)
  /\ NoProc \notin Procs /\ MaxFaults \in Nat

(***************************************************************************)
(* JournalRecord and WorkspaceState.  A record under its temporary name is *)
(* torn until it is written and synced, and so is an owner file without    *)
(* its token; `other` is not what the record names.                        *)
(***************************************************************************)
Record   == [run : Runs, state : {"reserved", "active"}]
Named(r, state) == [run |-> r, state |-> state]
Absent   == [run |-> 0, state |-> "absent"]
Torn     == [run |-> 0, state |-> "torn"]
Tree == [journal : Record \cup {Absent}, temp : Record \cup {Absent, Torn},
         work : [Runs -> {"none", "own", "other"}],
         owner : [Runs -> {"none", "torn", "own", "other"}]]

Points == {"idle", "recoverTemp", "tempSync", "recover", "rmWork", "workSync",
           "rmOwner", "ownerSync", "clear", "clearSync", "begin", "createTemp",
           "writeTemp", "moveTemp", "recordSync", "createOwner", "writeOwner",
           "lockOwner", "mkdir", "work", "cleanup"}

\* What a process knows: its repair, from the moment it has a name for it, and
\* the record it has written or found.
Process == [at : Points, run : Runs \cup {0}, rec : Record \cup {Absent}]
NoProcess == [at |-> "idle", run |-> 0, rec |-> Absent]

VARIABLES
  fs,          \* the directory of the output as every process sees it
  disk,        \* the directories a power loss may leave
  lock,        \* who holds the lock of the output
  held,        \* owner file -> who has locked it
  proc,        \* process -> Process
  used,        \* history: repairs that have begun
  clean,       \* history: repairs that reported that nothing is left
  touched,     \* history: workspaces that others have changed
  faults       \* what is left of MaxFaults

workspaceVars == <<fs, disk, lock, held, proc, used, clean, touched, faults>>

WorkspaceTypeOK ==
  /\ fs \in Tree /\ \A s \in disk : s \in Tree
  /\ lock \in Procs \cup {NoProc}
  /\ held \in [Runs -> Procs \cup {NoProc}]
  /\ proc \in [Procs -> Process]
  /\ \A p \in Procs : lock = p <=> proc[p].at # "idle"
  /\ used \subseteq Runs /\ clean \subseteq used
  /\ touched \subseteq Runs /\ faults \in 0 .. MaxFaults

WorkspaceInit ==
  /\ fs = [journal |-> Absent, temp |-> Absent,
           work |-> [r \in Runs |-> "none"], owner |-> [r \in Runs |-> "none"]]
  /\ disk = {fs}
  /\ lock = NoProc /\ held = [r \in Runs |-> NoProc]
  /\ proc = [p \in Procs |-> NoProcess]
  /\ used = {} /\ clean = {} /\ touched = {}
  /\ faults = MaxFaults

-----------------------------------------------------------------------------
(***************************************************************************)
(* Building blocks.  A call changes the directory at once and the disk     *)
(* when it pleases; the changes reach the disk in order.                   *)
(***************************************************************************)
Becomes(s) == fs' = s /\ disk' = disk \cup {s}
Sync == disk' = {fs} /\ UNCHANGED fs
Unwritten == UNCHANGED <<fs, disk>>

AtPoint(p, point) ==
  proc[p].at = point /\ UNCHANGED <<used, clean, touched, faults>>
Proceeds(p, at) ==
  proc' = [proc EXCEPT ![p].at = at] /\ UNCHANGED <<lock, held>>

\* WorkspaceDebt, and every other end: the handles are dropped.
Stop(p) ==
  /\ proc' = [proc EXCEPT ![p] = NoProcess]
  /\ lock' = IF lock = p THEN NoProc ELSE lock
  /\ held' = [r \in Runs |-> IF held[r] = p THEN NoProc ELSE held[r]]

\* Mutant: the lock of the output is not waited for.
Lock_Anyway(p) ==
  /\ proc[p].at = "idle" /\ used # Runs
  /\ lock' = p /\ proc' = [proc EXCEPT ![p].at = "recoverTemp"]
  /\ Unwritten /\ UNCHANGED <<held, used, clean, touched, faults>>

Lock(p) ==
  /\ proc[p].at = "idle" /\ used # Runs
  /\ lock = NoProc /\ lock' = p
  /\ proc' = [proc EXCEPT ![p].at = "recoverTemp"]
  /\ Unwritten /\ UNCHANGED <<held, used, clean, touched, faults>>

-----------------------------------------------------------------------------
(***************************************************************************)
(* recover_pending.                                                        *)
(***************************************************************************)
\* journal_can_advance_from_reserved.
Advances(from, to) ==
  from.run = to.run /\ from.state = "reserved" /\ to.state = "active"

\* recover_interrupted_journal_write: a record under its temporary name takes
\* the place of none and of the one it continues; an equal one is removed.
RecoverTemp(p) ==
  LET fits == fs.journal \in {Absent, fs.temp} \/ Advances(fs.journal, fs.temp)
  IN  /\ AtPoint(p, "recoverTemp")
      /\ \/ fs.temp = Absent /\ Proceeds(p, "recover") /\ Unwritten
         \/ /\ fs.temp \in Record /\ fits
            /\ Becomes([fs EXCEPT !.journal = fs.temp, !.temp = Absent])
            /\ Proceeds(p, "tempSync")
         \/ /\ fs.temp = Torn \/ (fs.temp \in Record /\ ~fits)
            /\ Stop(p) /\ Unwritten

SyncTemp(p) == AtPoint(p, "tempSync") /\ Sync /\ Proceeds(p, "recover")

\* Mutant: a workspace is believed to be the one that the record names.
BoundWork_Loose(s, r) == s.work[r] # "none"

\* open_bound_workspace, open_bound_owner: by identity, token and permissions.
BoundWork(s, r)  == s.work[r] = "own"
BoundOwner(s, r) == s.owner[r] = "own"

\* What is to be done about a record: cleanup_active_workspace_with,
\* recover_reserved_workspace and cleanup_owner_and_journal.
Cleaning(s) ==
  LET r == s.journal.run
  IN  IF s.work[r] # "none"
        THEN IF s.journal.state = "active" /\ BoundWork(s, r) /\ BoundOwner(s, r)
               THEN "rmWork" ELSE "leave"
      ELSE IF s.owner[r] = "none" THEN "clear"
      ELSE IF BoundOwner(s, r) THEN "rmOwner" ELSE "leave"

\* The owner must not be in use.  Also the end of a repair comes here, with its
\* own record.
Recover(p) ==
  LET r == fs.journal.run
      next == Cleaning(fs)
  IN  /\ AtPoint(p, "recover")
      /\ \/ /\ fs.journal = Absent /\ proc[p].run = 0
            /\ Proceeds(p, "begin")
         \/ /\ fs.journal # Absent
            /\ proc[p].run # 0 => fs.journal = proc[p].rec
            /\ next = "clear" \/ (next # "leave" /\ held[r] = NoProc)
            /\ proc' = [proc EXCEPT ![p].at = next, ![p].rec = fs.journal]
            /\ held' = IF next = "clear" THEN held
                       ELSE [held EXCEPT ![r] = p]
            /\ UNCHANGED lock
         \/ /\ IF fs.journal = Absent THEN proc[p].run # 0
               ELSE \/ proc[p].run # 0 /\ fs.journal # proc[p].rec
                    \/ next = "leave"
                    \/ next # "clear" /\ held[r] # NoProc
            /\ Stop(p)
      /\ Unwritten

\* Mutant: the record goes before the directory that it names.
RemoveWork_RecordFirst(p) ==
  /\ AtPoint(p, "rmWork")
  /\ Becomes([fs EXCEPT !.journal = Absent])
  /\ Proceeds(p, "workSync")

\* remove_dir_all; a directory that is only emptied is still there.
RemoveWork(p) ==
  /\ AtPoint(p, "rmWork")
  /\ Becomes([fs EXCEPT !.work[proc[p].rec.run] = "none"])
  /\ Proceeds(p, "workSync")

SyncWork(p) == AtPoint(p, "workSync") /\ Sync /\ Proceeds(p, "rmOwner")

RemoveOwner(p) ==
  LET r == proc[p].rec.run
  IN  /\ AtPoint(p, "rmOwner")
      /\ IF BoundOwner(fs, r)
         THEN Becomes([fs EXCEPT !.owner[r] = "none"]) /\ Proceeds(p, "ownerSync")
         ELSE Stop(p) /\ Unwritten

SyncOwner(p) == AtPoint(p, "ownerSync") /\ Sync /\ Proceeds(p, "clear")

\* clear_journal: a record that is not the one that was found stays.
Clear(p) ==
  /\ AtPoint(p, "clear")
  /\ \/ /\ fs.journal = proc[p].rec
        /\ Becomes([fs EXCEPT !.journal = Absent]) /\ Proceeds(p, "clearSync")
     \/ fs.journal # proc[p].rec /\ Stop(p) /\ Unwritten

SyncClear(p) ==
  /\ proc[p].at = "clearSync" /\ Sync
  /\ IF proc[p].run = 0
     THEN /\ proc' = [proc EXCEPT ![p] = [NoProcess EXCEPT !.at = "begin"]]
          /\ held' = [held EXCEPT ![proc[p].rec.run] = NoProc]
          /\ UNCHANGED <<lock, clean>>
     ELSE Stop(p) /\ clean' = clean \cup {proc[p].run}
  /\ UNCHANGED <<used, touched, faults>>

-----------------------------------------------------------------------------
(***************************************************************************)
(* begin, and the end of a repair.                                         *)
(***************************************************************************)
\* The source is looked at in between: a repair may end here without having
\* made anything.
Begin(p) ==
  /\ proc[p].at = "begin"
  /\ \/ \E r \in Runs \ used :
          /\ \A k \in Runs \ used : r <= k
          /\ fs.journal = Absent
          /\ proc' = [proc EXCEPT ![p] = [at |-> "createTemp", run |-> r,
                                          rec |-> Named(r, "reserved")]]
          /\ used' = used \cup {r} /\ UNCHANGED <<lock, held>>
     \/ Stop(p) /\ UNCHANGED used
  /\ Unwritten /\ UNCHANGED <<clean, touched, faults>>

\* write_new_journal for Reserved, replace_journal for Active.  The temporary
\* name must be free.
CreateTemp(p) ==
  /\ AtPoint(p, "createTemp")
  /\ IF fs.temp = Absent /\ (proc[p].rec.state = "active" =>
                               fs.journal = Named(proc[p].run, "reserved"))
     THEN Becomes([fs EXCEPT !.temp = Torn]) /\ Proceeds(p, "writeTemp")
     ELSE Stop(p) /\ Unwritten

WriteTemp(p) ==
  /\ AtPoint(p, "writeTemp")
  /\ Becomes([fs EXCEPT !.temp = proc[p].rec]) /\ Proceeds(p, "moveTemp")

MoveTemp(p) ==
  /\ AtPoint(p, "moveTemp")
  /\ IF proc[p].rec.state = "active" \/ fs.journal = Absent
     THEN /\ Becomes([fs EXCEPT !.journal = fs.temp, !.temp = Absent])
          /\ Proceeds(p, "recordSync")
     ELSE Becomes([fs EXCEPT !.temp = Absent]) /\ Stop(p)

SyncRecord(p) ==
  /\ AtPoint(p, "recordSync") /\ Sync
  /\ Proceeds(p, IF proc[p].rec.state = "active" THEN "work" ELSE "createOwner")

CreateOwner(p) ==
  /\ AtPoint(p, "createOwner")
  /\ Becomes([fs EXCEPT !.owner[proc[p].run] = "torn"])
  /\ Proceeds(p, "writeOwner")

WriteOwner(p) ==
  /\ AtPoint(p, "writeOwner")
  /\ Becomes([fs EXCEPT !.owner[proc[p].run] = "own"])
  /\ Proceeds(p, "lockOwner")

LockOwner(p) ==
  /\ AtPoint(p, "lockOwner")
  /\ held' = [held EXCEPT ![proc[p].run] = p]
  /\ proc' = [proc EXCEPT ![p].at = "mkdir"]
  /\ Unwritten /\ UNCHANGED lock

\* The directory, its identity, and the record that names both.
MakeWork(p) ==
  /\ AtPoint(p, "mkdir")
  /\ Becomes([fs EXCEPT !.work[proc[p].run] = "own"])
  /\ proc' = [proc EXCEPT ![p].at = "createTemp",
                          ![p].rec = Named(proc[p].run, "active")]
  /\ UNCHANGED <<lock, held>>

\* The repair itself, in the workspace, with any outcome.
Work(p) == AtPoint(p, "work") /\ Proceeds(p, "cleanup") /\ Unwritten

\* RepairWorkspace::cleanup gives up its handles and takes them again.
CleanUp(p) ==
  /\ AtPoint(p, "cleanup")
  /\ proc' = [proc EXCEPT ![p].at = "recover"]
  /\ held' = [held EXCEPT ![proc[p].run] = NoProc]
  /\ Unwritten /\ UNCHANGED lock

-----------------------------------------------------------------------------
(***************************************************************************)
(* What goes wrong.                                                        *)
(***************************************************************************)
Fault == faults > 0 /\ faults' = faults - 1

\* A call fails and changes nothing.  The temporary record of a new journal,
\* and one that could not be written, is removed, if that succeeds.
Fail(p) ==
  /\ Fault /\ proc[p].at # "idle" /\ Stop(p)
  /\ \/ Unwritten
     \/ /\ \/ proc[p].at = "writeTemp"
           \/ proc[p].at = "moveTemp" /\ proc[p].rec.state = "reserved"
        /\ Becomes([fs EXCEPT !.temp = Absent])
  /\ UNCHANGED <<used, clean, touched>>

Die(p) ==
  /\ Fault /\ proc[p].at # "idle" /\ Stop(p)
  /\ Unwritten /\ UNCHANGED <<used, clean, touched>>

PowerLoss ==
  /\ Fault
  /\ fs' \in disk /\ disk' = {fs'}
  /\ proc' = [p \in Procs |-> NoProcess]
  /\ lock' = NoProc /\ held' = [r \in Runs |-> NoProc]
  /\ UNCHANGED <<used, clean, touched>>

\* Somebody removes or replaces what is left behind.
Interference ==
  /\ Fault /\ lock = NoProc
  /\ \E r \in Runs, new \in {"none", "other"} :
     /\ touched' = touched \cup {r}
     /\ \/ /\ fs.work[r] \notin {"none", new}
          /\ Becomes([fs EXCEPT !.work[r] = new])
        \/ /\ fs.owner[r] \notin {"none", new}
          /\ Becomes([fs EXCEPT !.owner[r] = new])
  /\ UNCHANGED <<lock, held, proc, used, clean>>

StepOf(p) ==
  \/ Lock(p) \/ RecoverTemp(p) \/ SyncTemp(p) \/ Recover(p) \/ RemoveWork(p)
  \/ SyncWork(p) \/ RemoveOwner(p) \/ SyncOwner(p) \/ Clear(p) \/ SyncClear(p)
  \/ Begin(p) \/ CreateTemp(p) \/ WriteTemp(p) \/ MoveTemp(p) \/ SyncRecord(p)
  \/ CreateOwner(p) \/ WriteOwner(p) \/ LockOwner(p) \/ MakeWork(p) \/ Work(p)
  \/ CleanUp(p)

WorkspaceNext ==
  (\E p \in Procs : StepOf(p) \/ Fail(p) \/ Die(p)) \/ PowerLoss \/ Interference

WorkspaceSpec == WorkspaceInit /\ [][WorkspaceNext]_workspaceVars

-----------------------------------------------------------------------------
(***************************************************************************)
(* Properties.                                                             *)
(***************************************************************************)
\* A copy of an archive that a crash leaves has a record beside the output.
Recorded(s) ==
  \A r \in Runs :
    s.work[r] = "own" \/ s.owner[r] \in {"torn", "own"} =>
      r \in {s.journal.run, s.temp.run}

\* Two records never conflict, and the next repair finishes what they name,
\* except an owner without its token and a directory whose identity was not
\* recorded.  [recover_interrupted_journal_write; "stopped before the private
\* workspace identity was committed"]
Finishable(s) ==
  LET t  == IF s.temp \in Record THEN s.temp ELSE s.journal
      at == [s EXCEPT !.journal = t]
  IN  /\ s.temp \in Record => \/ s.journal \in {Absent, s.temp}
                              \/ Advances(s.journal, s.temp)
      /\ t # Absent /\ t.run \notin touched /\ Cleaning(at) = "leave" =>
           /\ t.state = "reserved"
           /\ s.work[t.run] = "own" \/ s.owner[t.run] = "torn"

\* A repair that reports no debt has left nothing.  [RepairWorkspace::cleanup]
Gone(s) ==
  \A r \in clean :
    /\ s.work[r] # "own" /\ s.owner[r] # "own"
    /\ r \notin {s.journal.run, s.temp.run}

\* No copy of an archive is forgotten: whatever a crash leaves at any moment is
\* recorded, and can be finished or is one of two known cases, and what was
\* reported clean is gone.  [repair_workspace.rs begin,
\* cleanup_active_workspace_with]
NothingForgotten == \A s \in disk : Recorded(s) /\ Finishable(s) /\ Gone(s)

\* A path that somebody has put in the place of a workspace or of its owner is
\* never removed.  [repair_workspace.rs: "no unbound path was removed"]
LeftUntouched ==
  [][\A r \in Runs :
       /\ fs.work[r] = "other" /\ fs'.work[r] # "other" => faults' # faults
       /\ fs.owner[r] = "other" /\ fs'.owner[r] # "other" => faults' # faults
    ]_workspaceVars
=============================================================================
