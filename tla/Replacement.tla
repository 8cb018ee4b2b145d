---------------------------- MODULE Replacement ----------------------------
(***************************************************************************)
(* The durable replacement of one archive file: crates/squallz-core,       *)
(* src/replacement/ driven by src/update/commit.rs.                        *)
(*                                                                         *)
(* An update rewrites the target into a private stage next to it, reserves *)
(* a holder directory, writes a journal record and then moves three files: *)
(*   protect   stage            -> holder/replacement                      *)
(*   preserve  target           -> holder/previous                         *)
(*   install   holder/replacement -> target                                *)
(* It then names the record "completed", retires and deletes the previous  *)
(* file, removes the holder and clears the record.  A process that opens   *)
(* the target and finds a record first drives it to the end.               *)
(*                                                                         *)
(* Every file-system call that changes something is a step of its own.     *)
(* Between any two of them the process may die, the machine may lose       *)
(* power, the call may fail, or another program may change the target.     *)
(* The private names are left alone by other programs: they are            *)
(* unpredictable and the holder is created with mode 0700.                 *)
(***************************************************************************)
EXTENDS Naturals, FiniteSets

CONSTANTS Procs,          \* processes that update this archive
          Files,          \* file identities (PathIdentity)
          Orig,           \* the archive that exists at the start
          Strays,         \* identities that only other programs create
          Missing,        \* nothing at a path
          NoProc,         \* the target lock is free
          MaxIo,          \* bound: failing file-system calls
          MaxCrashes,     \* bound: deaths of a process, losses of power
          MaxForeign      \* bound: changes other programs make

(***************************************************************************)
(* A file and its content: the identity stays, the version counts the      *)
(* writes other programs make in place.  Evidence in a record is such a    *)
(* pair (identity, size, times and digest in the code).                    *)
(***************************************************************************)
Entry == [file : Files, ver : Nat]
Slot  == Entry \cup {Missing}

ASSUME ConstantsAssumption ==
  /\ Orig \in Files
  /\ Strays \subseteq Files \ {Orig}
  /\ Missing \notin Entry
  /\ NoProc \notin Procs
  /\ MaxIo \in Nat /\ MaxCrashes \in Nat /\ MaxForeign \in Nat

\* The names a record may have.  The first two are never found by recovery.
Unanchored == {"none", "temp", "discard"}
Anchors    == {"pending", "installing", "completed"}

RecordState == [at : Unanchored \cup Anchors, prev : Slot, repl : Slot]

\* One directory tree: the target and the paths that one record owns.
Tree == [target : Slot, stage : Slot, protected : Slot, previous : Slot,
         retired : Slot, holder : {"absent", "held", "isolated"},
         rec : RecordState]

Moves == {"protect", "preserve", "install", "retire"}

Points == {"idle", "open", "clear", "reserve", "rewrite", "prepare",
           "prepareSync", "persist", "recRename", "recSync", "recDiscard",
           "recUnlink", "resume", "rename", "observe", "settle", "restore",
           "restoreRename", "installed", "finish", "retired", "unlink",
           "unlinkSync", "emptied", "isolate", "rmdir", "rmdirSync",
           "clearRec", "clearSync", "dropStage", "dropStageSync"}

MovePoints   == {"rename", "observe", "settle", "restore", "restoreRename"}
RecordPoints == {"recRename", "recSync"}

VARIABLES
  fs,          \* the tree as every running process sees it
  disk,        \* the trees a power loss may leave
  lock,        \* the holder of the directory and target locks
  pc,          \* where each process is
  step,        \* the move, or the anchor, that pc is about
  src, new,    \* the previous and the replacement the process has bound
  recovering,  \* whether the process is finishing somebody else's record
  seen,        \* the identity it observed right after a rename
  used,        \* file identities that have been allocated
  base,        \* history: the entry each update was rewritten from
  acked,       \* history: the last version whose record was cleared
  outside,     \* history: the entries other programs destroyed
  budget       \* what is left of the three bounds, and whether the changes of
               \* other programs may fall into an installation

memory  == <<step, src, new, recovering, seen>>
history == <<used, base, acked, outside>>
vars    == <<fs, disk, lock, pc, memory, history, budget>>

-----------------------------------------------------------------------------
NoRecord == [at |-> "none", prev |-> Missing, repl |-> Missing]
Fresh(f) == [file |-> f, ver |-> 0]

Anchored(s) == s.rec.at \in Anchors
Held(s) == {s.target, s.stage, s.protected, s.previous, s.retired}
             \ {Missing}
HolderEmpty(s) == s.protected = Missing /\ s.previous = Missing
                    /\ s.retired = Missing

TreeOK == fs \in Tree /\ \A s \in disk : s \in Tree

\* A process knows the move or the anchor it works on while it does.
ControlOK ==
  /\ lock \in Procs \cup {NoProc}
  /\ pc \in [Procs -> Points]
  /\ step \in [Procs -> Moves \cup Anchors \cup {"none"}]
  /\ \A p \in Procs : (pc[p] \in MovePoints) = (step[p] \in Moves)
  /\ \A p \in Procs : pc[p] \in RecordPoints => step[p] \in Anchors

MemoryOK ==
  /\ src \in [Procs -> Slot]
  /\ new \in [Procs -> Slot]
  /\ recovering \in [Procs -> BOOLEAN]
  /\ seen \in [Procs -> Files \cup {Missing}]

HistoryOK ==
  /\ used \in SUBSET Files
  /\ base \in [Files -> Slot]
  /\ acked \in Slot
  /\ \A e \in outside : e \in Slot

BudgetOK == budget \in [io : Nat, crash : Nat, foreign : Nat, races : BOOLEAN]

TypeOK == TreeOK /\ ControlOK /\ MemoryOK /\ HistoryOK /\ BudgetOK

Init ==
  /\ fs = [target |-> Fresh(Orig), stage |-> Missing, protected |-> Missing,
           previous |-> Missing, retired |-> Missing, holder |-> "absent",
           rec |-> NoRecord]
  /\ disk = {fs}
  /\ lock = NoProc
  /\ pc = [p \in Procs |-> "idle"]
  /\ step = [p \in Procs |-> "none"]
  /\ src = [p \in Procs |-> Missing]
  /\ new = [p \in Procs |-> Missing]
  /\ recovering = [p \in Procs |-> FALSE]
  /\ seen = [p \in Procs |-> Missing]
  /\ used = {Orig}
  /\ base = [f \in Files |-> Missing]
  /\ acked = Fresh(Orig)
  /\ outside = {}
  /\ budget \in [io : {MaxIo}, crash : {MaxCrashes}, foreign : {MaxForeign},
                  races : BOOLEAN]

-----------------------------------------------------------------------------
(***************************************************************************)
(* Building blocks.  A file-system call changes the tree at once and the   *)
(* disk when it pleases; metadata reaches the disk in order, so a power    *)
(* loss leaves one of the trees since the last directory sync.             *)
(***************************************************************************)
Change(s) == fs' = s /\ disk' = disk \cup {s}
Sync      == disk' = {fs} /\ UNCHANGED fs
SyncThenChange(s) == fs' = s /\ disk' = {fs, s}
Look      == UNCHANGED <<fs, disk>>

Goto(p, point) == pc' = [pc EXCEPT ![p] = point]

\* The locks go with the scope, the memory with the process.
Forget(p) ==
  /\ step' = [step EXCEPT ![p] = "none"]
  /\ src' = [src EXCEPT ![p] = Missing]
  /\ new' = [new EXCEPT ![p] = Missing]
  /\ recovering' = [recovering EXCEPT ![p] = FALSE]
  /\ seen' = [seen EXCEPT ![p] = Missing]
Stop(p) ==
  /\ Goto(p, "idle")
  /\ lock' = NoProc
  /\ Forget(p)

Stay == UNCHANGED <<lock, memory>>
AtPoint(p, point) == pc[p] = point /\ UNCHANGED budget

-----------------------------------------------------------------------------
(***************************************************************************)
(* Opening: the locks, the recovery of a record, the refusal to touch work *)
(* without one, the source.                                                *)
(***************************************************************************)
Begin(p) ==
  /\ AtPoint(p, "idle")
  /\ lock = NoProc
  /\ lock' = p
  /\ Goto(p, "open")
  /\ Look /\ UNCHANGED <<memory, history>>

\* Mutant: the holder that a crash left isolated is never admitted.
HolderAdmitted_Never(s) == s.holder # "isolated"

\* An isolated holder is admitted under a completed record only, and empty.
HolderAdmitted(s) ==
  s.holder = "isolated" => s.rec.at = "completed" /\ HolderEmpty(s)

Recover(p) ==
  /\ AtPoint(p, "open")
  /\ Look /\ UNCHANGED history
  /\ \/ /\ ~Anchored(fs)
        /\ Goto(p, "clear") /\ Stay
     \/ /\ Anchored(fs) /\ ~HolderAdmitted(fs)
        /\ Stop(p)
     \/ /\ Anchored(fs) /\ HolderAdmitted(fs)
        /\ src' = [src EXCEPT ![p] = fs.rec.prev]
        /\ new' = [new EXCEPT ![p] = fs.rec.repl]
        /\ recovering' = [recovering EXCEPT ![p] = TRUE]
        /\ \/ /\ fs.rec.at = "pending"
              /\ Goto(p, "recRename")
              /\ step' = [step EXCEPT ![p] = "installing"]
           \/ /\ fs.rec.at = "installing"
              /\ Goto(p, "resume") /\ UNCHANGED step
           \/ /\ fs.rec.at = "completed"
              /\ Goto(p, "finish") /\ UNCHANGED step
        /\ UNCHANGED <<lock, seen>>

\* require_clear: no reserved name may be left without a record.
IsClear(s) == s.rec.at = "none" /\ s.stage = Missing /\ s.holder = "absent"

\* Source::bind.  The update is numbered (f) when it reads its source; the
\* refusals are a missing target, a changed guard and a full disk.
Bind(p) ==
  /\ AtPoint(p, "clear")
  /\ Look
  /\ \/ /\ Stop(p) /\ UNCHANGED history
     \/ /\ IsClear(fs) /\ fs.target # Missing
        /\ \E f \in (Files \ Strays) \ used :
             /\ used' = used \cup {f}
             /\ base' = [base EXCEPT ![f] = fs.target]
             /\ new' = [new EXCEPT ![p] = Fresh(f)]
        /\ src' = [src EXCEPT ![p] = fs.target]
        /\ recovering' = [recovering EXCEPT ![p] = FALSE]
        /\ Goto(p, "reserve")
        /\ UNCHANGED <<lock, step, seen, acked, outside>>

-----------------------------------------------------------------------------
(***************************************************************************)
(* Writing the new archive; nothing durable names it yet.  Failures and    *)
(* cancellation remove what was reserved.                                  *)
(***************************************************************************)
ReserveStage(p) ==
  /\ AtPoint(p, "reserve")
  /\ Change([fs EXCEPT !.stage = new[p]])
  /\ Goto(p, "rewrite") /\ Stay /\ UNCHANGED history

\* The rewrite may fail or be cancelled; source.verify() ends it.
Rewrite(p) ==
  /\ AtPoint(p, "rewrite")
  /\ Look /\ Stay /\ UNCHANGED history
  /\ \/ fs.target = src[p] /\ Goto(p, "prepare")
     \/ Goto(p, "dropStage")

\* Mutant: prepare records what is at the target instead of comparing it
\* with the evidence the caller bound.
Prepare_Rebinds(p) ==
  /\ AtPoint(p, "prepare")
  /\ UNCHANGED history
  /\ src' = [src EXCEPT ![p] = fs.target]
  /\ Change([fs EXCEPT !.holder = "held"])
  /\ Goto(p, "prepareSync")
  /\ UNCHANGED <<lock, step, new, recovering, seen>>

\* prepare: bind both inputs, then reserve the holder directory ...
Prepare(p) ==
  /\ AtPoint(p, "prepare")
  /\ Stay /\ UNCHANGED history
  /\ \/ /\ fs.target = src[p] /\ fs.stage = new[p]
        /\ Change([fs EXCEPT !.holder = "held"])
        /\ Goto(p, "prepareSync")
     \/ /\ Look /\ Goto(p, "dropStage")

\* ... sync the parent and check both inputs once more; the last moment at
\* which the user can cancel.
PrepareSync(p) ==
  /\ AtPoint(p, "prepareSync")
  /\ Sync /\ Stay /\ UNCHANGED history
  /\ \/ fs.target = src[p] /\ fs.stage = new[p] /\ Goto(p, "persist")
     \/ Goto(p, "isolate")

\* persist: the record is written and synced under a temporary name.
WriteRecord(p) ==
  /\ AtPoint(p, "persist")
  /\ fs.rec.at = "none"
  /\ Change([fs EXCEPT !.rec = [at |-> "temp", prev |-> src[p],
                                repl |-> new[p]]])
  /\ Goto(p, "recRename")
  /\ step' = [step EXCEPT ![p] = "pending"]
  /\ UNCHANGED <<lock, src, new, recovering, seen, history>>

\* move_record, in its two steps.
RenameRecord(p) ==
  /\ AtPoint(p, "recRename")
  /\ Change([fs EXCEPT !.rec.at = step[p]])
  /\ Goto(p, "recSync") /\ Stay /\ UNCHANGED history

SyncRecord(p) ==
  /\ AtPoint(p, "recSync")
  /\ Sync /\ UNCHANGED <<lock, src, new, recovering, seen, history>>
  /\ \/ /\ step[p] = "pending"
        /\ Goto(p, "recRename")
        /\ step' = [step EXCEPT ![p] = "installing"]
     \/ /\ step[p] = "installing"
        /\ Goto(p, "resume") /\ step' = [step EXCEPT ![p] = "none"]
     \/ /\ step[p] = "completed"
        /\ Goto(p, "finish") /\ step' = [step EXCEPT ![p] = "none"]

\* A temporary record that cannot be published is isolated and unlinked.
DiscardRecord(p) ==
  /\ AtPoint(p, "recDiscard")
  /\ Change([fs EXCEPT !.rec.at = "discard"])
  /\ Goto(p, "recUnlink")
  /\ Stay /\ UNCHANGED history

UnlinkDiscarded(p) ==
  /\ AtPoint(p, "recUnlink")
  /\ SyncThenChange([fs EXCEPT !.rec = NoRecord])
  /\ Goto(p, "isolate")
  /\ Stay /\ UNCHANGED history

DropStage(p) ==
  /\ AtPoint(p, "dropStage")
  /\ Change([fs EXCEPT !.stage = Missing])
  /\ Goto(p, "dropStageSync") /\ Stay /\ UNCHANGED history

DropStageSync(p) ==
  /\ AtPoint(p, "dropStageSync")
  /\ Sync /\ Stop(p) /\ UNCHANGED history

-----------------------------------------------------------------------------
(***************************************************************************)
(* commit_resume.  Which recorded file is where decides the next move; a   *)
(* position nobody could have left is an error and nothing is touched.     *)
(***************************************************************************)
ProtectDue(s, prev, repl) ==
  s.stage = repl /\ s.protected = Missing /\ s.target = prev
    /\ s.previous = Missing
PreserveDue(s, prev, repl) ==
  s.stage = Missing /\ s.protected = repl /\ s.target = prev
    /\ s.previous = Missing
InstallDue(s, prev, repl) ==
  s.stage = Missing /\ s.protected = repl /\ s.target = Missing
    /\ s.previous = prev
\* The previous file may be gone already, and then the holder may be too.
IsInstalled(s, prev, repl) ==
  s.stage = Missing /\ s.protected = Missing /\ s.target = repl
    /\ s.previous \in {prev, Missing}

\* Mutant: the last of the three position matches is missing.
Plan_ForgetsInstall(s, prev, repl) ==
  IF s.retired # Missing THEN "refuse"
  ELSE IF IsInstalled(s, prev, repl) THEN "installed"
  ELSE IF s.holder # "held" THEN "refuse"
  ELSE IF ProtectDue(s, prev, repl) THEN "protect"
  ELSE IF PreserveDue(s, prev, repl) THEN "preserve"
  ELSE "refuse"

\* What commit_resume does in tree s.
Plan(s, prev, repl) ==
  IF s.retired # Missing THEN "refuse"
  ELSE IF IsInstalled(s, prev, repl) THEN "installed"
  ELSE IF s.holder # "held" THEN "refuse"
  ELSE IF ProtectDue(s, prev, repl) THEN "protect"
  ELSE IF PreserveDue(s, prev, repl) THEN "preserve"
  ELSE IF InstallDue(s, prev, repl) THEN "install"
  ELSE "refuse"

Resume(p) ==
  LET plan == Plan(fs, src[p], new[p]) IN
  /\ AtPoint(p, "resume")
  /\ Look /\ UNCHANGED history
  /\ \/ /\ plan = "refuse"
        /\ Stop(p)
     \/ /\ plan = "installed"
        /\ Goto(p, "installed") /\ Stay
     \/ /\ plan \in Moves
        /\ Goto(p, "rename")
        /\ step' = [step EXCEPT ![p] = plan]
        /\ UNCHANGED <<lock, src, new, recovering, seen>>

From(s, m) == CASE m = "protect"  -> s.stage
                [] m = "preserve" -> s.target
                [] m = "install"  -> s.protected
                [] m = "retire"   -> s.previous
To(s, m) == CASE m = "protect"  -> s.protected
              [] m = "preserve" -> s.previous
              [] m = "install"  -> s.target
              [] m = "retire"   -> s.retired
Expected(p) == IF step[p] \in {"protect", "install"} THEN new[p] ELSE src[p]

\* The tree with the two ends of move m set.
WithEnds(s, m, from, to) ==
  CASE m = "protect"  -> [s EXCEPT !.stage = from, !.protected = to]
    [] m = "preserve" -> [s EXCEPT !.target = from, !.previous = to]
    [] m = "install"  -> [s EXCEPT !.protected = from, !.target = to]
    [] m = "retire"   -> [s EXCEPT !.previous = from, !.retired = to]

\* Mutant: the rename may replace what is at its destination.
CanRename_Replacing(s, m) == From(s, m) # Missing

CanRename(s, m) == From(s, m) # Missing /\ To(s, m) = Missing

\* checked_move, after its checks: a no-replace rename of whatever is at the
\* source by now.
Rename(p) ==
  /\ AtPoint(p, "rename")
  /\ Stay /\ UNCHANGED history
  /\ Goto(p, "observe")
  /\ \/ /\ CanRename(fs, step[p])
        /\ Change(WithEnds(fs, step[p], Missing, From(fs, step[p])))
     \/ /\ ~CanRename(fs, step[p]) /\ Look

\* The identity found at the destination: another one is a competitor, which
\* goes back; the rename's own failure is reported when nothing is there.
Observe(p) ==
  LET to == To(fs, step[p]) IN
  /\ AtPoint(p, "observe")
  /\ Look /\ UNCHANGED history
  /\ \/ /\ to = Missing /\ Stop(p)
     \/ /\ to # Missing
        /\ seen' = [seen EXCEPT ![p] = to.file]
        /\ Goto(p, IF to.file = Expected(p).file THEN "settle"
                   ELSE "restore")
        /\ UNCHANGED <<lock, step, src, new, recovering>>

\* Mutant: the finished move is still noted as under way.
Settle_KeepsMove(p) ==
  /\ AtPoint(p, "settle")
  /\ Sync /\ UNCHANGED history
  /\ From(fs, step[p]) = Missing /\ To(fs, step[p]) = Expected(p)
  /\ Goto(p, IF step[p] = "retire" THEN "retired" ELSE "resume")
  /\ Stay

\* sync_bindings, then the final proof of source, destination and content.
Settle(p) ==
  /\ AtPoint(p, "settle")
  /\ Sync /\ UNCHANGED history
  /\ \/ /\ From(fs, step[p]) = Missing /\ To(fs, step[p]) = Expected(p)
        /\ Goto(p, IF step[p] = "retire" THEN "retired" ELSE "resume")
        /\ step' = [step EXCEPT ![p] = "none"]
        /\ seen' = [seen EXCEPT ![p] = Missing]
        /\ UNCHANGED <<lock, src, new, recovering>>
     \/ /\ ~(From(fs, step[p]) = Missing /\ To(fs, step[p]) = Expected(p))
        /\ Goto(p, "restore") /\ Stay

\* restore_known: only the identity first observed, only into a free name.
Restore(p) ==
  LET to == To(fs, step[p])
      admitted == /\ to # Missing /\ From(fs, step[p]) = Missing
                  /\ to.file = seen[p]
  IN
  /\ AtPoint(p, "restore")
  /\ Look /\ UNCHANGED history
  /\ \/ /\ admitted
        /\ Goto(p, "restoreRename") /\ Stay
     \/ /\ ~admitted
        /\ Stop(p)

\* Its sync may succeed or fail: the error is returned either way.
RestoreRename(p) ==
  /\ AtPoint(p, "restoreRename")
  /\ Stop(p) /\ UNCHANGED history
  /\ \/ /\ To(fs, step[p]) # Missing /\ From(fs, step[p]) = Missing
        /\ Change(WithEnds(fs, step[p], To(fs, step[p]), Missing))
     \/ /\ ~(To(fs, step[p]) # Missing /\ From(fs, step[p]) = Missing)
        /\ Look

\* Mutant: clean-up starts while the record still says "installing".
Installed_FinishesEarly(p) ==
  /\ AtPoint(p, "installed")
  /\ Sync /\ UNCHANGED history
  /\ IF IsInstalled(fs, src[p], new[p]) /\ fs.retired = Missing
     THEN Goto(p, "finish") /\ Stay
     ELSE Stop(p)

\* verify_installed and sync_bindings, at the end of commit_resume and again
\* in complete.
Installed(p) ==
  /\ AtPoint(p, "installed")
  /\ UNCHANGED history
  /\ \/ /\ IsInstalled(fs, src[p], new[p]) /\ fs.retired = Missing
        /\ Sync
        /\ Goto(p, "recRename")
        /\ step' = [step EXCEPT ![p] = "completed"]
        /\ UNCHANGED <<lock, src, new, recovering, seen>>
     \/ /\ ~(IsInstalled(fs, src[p], new[p]) /\ fs.retired = Missing)
        /\ Look /\ Stop(p)

-----------------------------------------------------------------------------
(***************************************************************************)
(* finish_completed: the previous file, the holder and the record go.      *)
(***************************************************************************)
FinishAdmitted(s, repl) ==
  s.stage = Missing /\ s.protected = Missing /\ s.target = repl
CanFinish(s, prev, repl) ==
  /\ FinishAdmitted(s, repl)
  /\ \/ s.previous = prev /\ s.retired = Missing
     \/ s.previous = Missing

Finish(p) ==
  /\ AtPoint(p, "finish")
  /\ Look /\ UNCHANGED history
  /\ \/ /\ FinishAdmitted(fs, new[p])
        /\ fs.previous = src[p] /\ fs.retired = Missing
        /\ Goto(p, "rename")
        /\ step' = [step EXCEPT ![p] = "retire"]
        /\ UNCHANGED <<lock, src, new, recovering, seen>>
     \/ /\ FinishAdmitted(fs, new[p])
        /\ fs.previous = Missing /\ fs.retired # Missing
        /\ Goto(p, "retired") /\ Stay
     \/ /\ FinishAdmitted(fs, new[p])
        /\ fs.previous = Missing /\ fs.retired = Missing
        /\ Goto(p, "emptied") /\ Stay
     \/ /\ ~CanFinish(fs, src[p], new[p])
        /\ Stop(p)

\* remove_retired: the retired file and the installed one are proved, and
\* only then is the retired name unlinked.
CheckRetired(p) ==
  /\ AtPoint(p, "retired")
  /\ Look /\ UNCHANGED history
  /\ \/ /\ fs.retired = src[p] /\ fs.target = new[p]
        /\ Goto(p, "unlink") /\ Stay
     \/ /\ ~(fs.retired = src[p] /\ fs.target = new[p])
        /\ Stop(p)

UnlinkRetired(p) ==
  /\ AtPoint(p, "unlink")
  /\ Change([fs EXCEPT !.retired = Missing])
  /\ Goto(p, "unlinkSync") /\ Stay /\ UNCHANGED history

UnlinkSync(p) ==
  /\ AtPoint(p, "unlinkSync")
  /\ Sync /\ Goto(p, "emptied") /\ Stay /\ UNCHANGED history

Emptied(p) ==
  /\ AtPoint(p, "emptied")
  /\ UNCHANGED history
  /\ \/ /\ fs.target = new[p] /\ Sync /\ Stay
        /\ Goto(p, CASE fs.holder = "held"     -> "isolate"
                     [] fs.holder = "isolated" -> "rmdir"
                     [] fs.holder = "absent"   -> "clearRec")
     \/ /\ fs.target # new[p] /\ Look /\ Stop(p)

\* clear_empty_directory, shared with the failures before publication.
IsolateHolder(p) ==
  /\ AtPoint(p, "isolate")
  /\ UNCHANGED history
  /\ \/ /\ HolderEmpty(fs)
        /\ SyncThenChange([fs EXCEPT !.holder = "isolated"])
        /\ Goto(p, "rmdir") /\ Stay
     \/ /\ ~HolderEmpty(fs) /\ Look /\ Stop(p)

RemoveHolder(p) ==
  /\ AtPoint(p, "rmdir")
  /\ SyncThenChange([fs EXCEPT !.holder = "absent"])
  /\ Goto(p, "rmdirSync") /\ Stay /\ UNCHANGED history

RemoveHolderSync(p) ==
  /\ AtPoint(p, "rmdirSync")
  /\ Sync /\ Stay /\ UNCHANGED history
  /\ Goto(p, IF fs.rec.at = "completed" THEN "clearRec" ELSE "dropStage")

\* record::clear.  The update is done: `acked` is what the caller is told.
ClearRecord(p) ==
  /\ AtPoint(p, "clearRec")
  /\ fs.rec.at = "completed"
  /\ Change([fs EXCEPT !.rec = NoRecord])
  /\ acked' = fs.rec.repl
  /\ Goto(p, "clearSync") /\ Stay /\ UNCHANGED <<used, base, outside>>

\* Recovery hands the scope on to the update that found the record.
ClearSync(p) ==
  /\ AtPoint(p, "clearSync")
  /\ Sync /\ UNCHANGED history
  /\ \/ recovering[p] /\ Goto(p, "clear") /\ Stay
     \/ ~recovering[p] /\ Stop(p)

-----------------------------------------------------------------------------
(***************************************************************************)
(* Failing calls.  Before publication they lead to the clean-up; after it  *)
(* everything is kept for recovery ("requires recovery") and the process   *)
(* gives up.                                                               *)
(***************************************************************************)
Unpublished == {"rewrite", "prepare"}
Reserved    == {"prepareSync", "persist"}

IoError(p) ==
  /\ pc[p] \notin {"idle", "open", "clear"}
  /\ budget.io > 0
  /\ budget' = [budget EXCEPT !.io = @ - 1]
  /\ Look /\ UNCHANGED history
  /\ \/ /\ pc[p] \in Unpublished
        /\ Goto(p, "dropStage") /\ Stay
     \/ /\ pc[p] \in Reserved
        /\ Goto(p, "isolate") /\ Stay
     \/ /\ pc[p] = "recRename" /\ fs.rec.at = "temp"
        /\ Goto(p, "recDiscard") /\ Stay
     \/ /\ pc[p] \notin Unpublished \cup Reserved
        /\ ~(pc[p] = "recRename" /\ fs.rec.at = "temp")
        /\ Stop(p)

\* The process dies: its locks are released, the tree stays.
Crash(p) ==
  /\ pc[p] # "idle"
  /\ budget.crash > 0
  /\ budget' = [budget EXCEPT !.crash = @ - 1]
  /\ Look /\ Stop(p) /\ UNCHANGED history

\* The machine loses power: the disk holds one of the trees it may hold.
PowerLoss ==
  /\ budget.crash > 0
  /\ budget' = [budget EXCEPT !.crash = @ - 1]
  /\ \E s \in disk : fs' = s /\ disk' = {s}
  /\ lock' = NoProc
  /\ pc' = [p \in Procs |-> "idle"]
  /\ step' = [p \in Procs |-> "none"]
  /\ src' = [p \in Procs |-> Missing]
  /\ new' = [p \in Procs |-> Missing]
  /\ recovering' = [p \in Procs |-> FALSE]
  /\ seen' = [p \in Procs |-> Missing]
  /\ UNCHANGED history

(***************************************************************************)
(* Other programs replace, edit in place or delete the target.             *)
(***************************************************************************)
Early == {"idle", "open", "clear", "reserve", "rewrite", "prepare",
          "prepareSync"}
ForeignMayAct ==
  /\ budget.foreign > 0
  /\ budget.races \/ (~Anchored(fs) /\ \A p \in Procs : pc[p] \in Early)
  /\ budget' = [budget EXCEPT !.foreign = @ - 1]
  /\ outside' = outside \cup ({fs.target} \ {Missing})
  /\ UNCHANGED <<lock, pc, memory, base, acked>>

ForeignReplace ==
  /\ ForeignMayAct
  /\ \E f \in Strays \ used :
       /\ used' = used \cup {f}
       /\ Change([fs EXCEPT !.target = Fresh(f)])

ForeignEdit ==
  /\ ForeignMayAct
  /\ fs.target # Missing
  /\ Change([fs EXCEPT !.target.ver = @ + 1])
  /\ UNCHANGED used

ForeignRemove ==
  /\ ForeignMayAct
  /\ fs.target # Missing
  /\ Change([fs EXCEPT !.target = Missing])
  /\ UNCHANGED used

Foreign == ForeignReplace \/ ForeignEdit \/ ForeignRemove

-----------------------------------------------------------------------------
Opening(p)    == Begin(p) \/ Recover(p) \/ Bind(p)
Writing(p)    == ReserveStage(p) \/ Rewrite(p) \/ Prepare(p) \/ PrepareSync(p)
                   \/ WriteRecord(p)
Recording(p)  == RenameRecord(p) \/ SyncRecord(p)
Discarding(p) == DiscardRecord(p) \/ UnlinkDiscarded(p) \/ DropStage(p)
                   \/ DropStageSync(p)
Moving(p)     == Resume(p) \/ Rename(p) \/ Observe(p) \/ Settle(p)
                   \/ Restore(p) \/ RestoreRename(p) \/ Installed(p)
Finishing(p)  == Finish(p) \/ CheckRetired(p) \/ UnlinkRetired(p)
                   \/ UnlinkSync(p) \/ Emptied(p) \/ ClearRecord(p)
                   \/ ClearSync(p)
Clearing(p)   == IsolateHolder(p) \/ RemoveHolder(p)
                   \/ RemoveHolderSync(p)

Work(p) == Recover(p) \/ Bind(p) \/ Writing(p) \/ Recording(p)
             \/ Discarding(p) \/ Moving(p) \/ Finishing(p) \/ Clearing(p)

Next ==
  \/ \E p \in Procs : Opening(p) \/ Writing(p) \/ Recording(p)
                        \/ Discarding(p) \/ Moving(p) \/ Finishing(p)
                        \/ Clearing(p) \/ IoError(p) \/ Crash(p)
  \/ PowerLoss
  \/ Foreign

Spec == Init /\ [][Next]_vars

(***************************************************************************)
(* A process that has the locks runs on: nothing it waits for is held by   *)
(* another one.  That the archive is opened again after a failure is an    *)
(* assumption about its user.                                              *)
(***************************************************************************)
Fairness ==
  /\ \A p \in Procs : WF_vars(Work(p))
  /\ WF_vars(\E p \in Procs : Begin(p))

FairSpec == Spec /\ Fairness

-----------------------------------------------------------------------------
(***************************************************************************)
(* Safety.                                                                 *)
(***************************************************************************)

\* Whatever instant the power fails at, the disk has the version the last
\* caller was told about, or the completed successor written from it; and a
\* record that recovery will find still has both its files to work with.
\* Only another program can have destroyed them.
\* [owner.rs commit_resume, finish_completed; moves.rs checked_move]
NothingDestroyed(s) ==
  /\ \/ acked \in Held(s) \cup outside
     \/ s.rec.at = "completed" /\ s.rec.prev = acked
  /\ Anchored(s) => s.rec.repl \in Held(s) \cup outside
  /\ s.rec.at \in {"pending", "installing"} =>
       s.rec.prev \in Held(s) \cup outside

\* What an update wrote and nobody has changed since.
Ours(e) == e.ver = 0 /\ base[e.file] # Missing

\* Nor does a file of the user end under a private name that no durable record
\* names, where nothing would ever look for it: all that is there is a stage
\* nobody was told about.  [prepare.rs, record.rs persist, clear; owner.rs
\* finish_completed]
NoOrphans(s) ==
  ~Anchored(s) => /\ HolderEmpty(s)
                  /\ s.stage # Missing => Ours(s.stage) /\ s.stage # acked

\* Whatever the power leaves, nothing of the user is destroyed or out of reach.
\* [scope.rs archive; owner.rs recover]
CrashSafe == \A s \in disk : NothingDestroyed(s) /\ NoOrphans(s)

\* Recovery never meets a tree of the program's own making that it refuses:
\* unless another program destroyed one of the two files or holds the name,
\* every tree a crash may leave with a record has a next step.
\* [owner.rs commit_resume: the three position matches; finish_completed]
RecoveryAdmits ==
  \A s \in disk :
    (/\ Anchored(s)
     /\ s.rec.prev \notin outside /\ s.rec.repl \notin outside
     /\ s.target \in {s.rec.prev, s.rec.repl, Missing})
    => /\ HolderAdmitted(s)
       /\ IF s.rec.at = "completed"
          THEN CanFinish(s, s.rec.prev, s.rec.repl)
          ELSE Plan(s, s.rec.prev, s.rec.repl) # "refuse"

\* A step of this program removes a file for good only if it is its own
\* unpublished stage, or the recorded previous file of a completed record
\* whose replacement stands at the target.  A competitor's file may be moved
\* by a rename that lost a race; it is never deleted.
\* [moves.rs remove_retired, prepare.rs discard_archive_stage]
OnlyOwnedRemoval ==
  [][fs' \notin disk =>
       \A e \in Held(fs) \ Held(fs') :
         \/ e \in outside'
         \/ e = fs.stage /\ ~Anchored(fs) /\ Ours(e)
         \/ fs.rec.at = "completed" /\ e = fs.rec.prev]_vars

\* The version the caller is told about was written from the very file it
\* replaced, and that was the version the previous caller was told about:
\* no update, and no change another program made in time, is lost under it.
\* [commit.rs run, Source::verify; prepare.rs prepare; scope.rs archive]
NoLostUpdate ==
  [][acked' # acked =>
       /\ base[acked'.file] = fs.rec.prev
       /\ fs.rec.prev = acked \/ acked \in outside]_vars

(***************************************************************************)
(* Liveness.                                                               *)
(***************************************************************************)

\* Once an anchored record is on the disk for good, the version it names is
\* delivered, whatever crashes and failing calls come between, unless another
\* program has changed the target.
\* [owner.rs recover: Pending, Installing and Completed are all resumed]
Meddled == outside # {} \/ used \cap Strays # {}
Delivered ==
  \A f \in Files \ Strays :
    (\A s \in disk : Anchored(s) /\ s.rec.repl = Fresh(f))
      ~> (acked = Fresh(f) \/ Meddled)

\* Every operation ends and gives the locks back, recovery included: it is
\* never the case that two processes or a process and its record wait for
\* each other.  [commit.rs run, finish; owner.rs recover]
Terminates == \A p \in Procs : (pc[p] # "idle") ~> (pc[p] = "idle")

\* What is recorded is delivered, and nobody waits for ever.
\* [owner.rs recover; commit.rs run]
Completes == Delivered /\ Terminates

(***************************************************************************)
(* Refinement: the tree as one register.  A record at an anchor decides    *)
(* for the replacement as long as recovery will install it.                *)
(***************************************************************************)
WillInstall(s) ==
  /\ Anchored(s)
  /\ \/ s.target \in {s.rec.prev, s.rec.repl}
     \/ s.target = Missing /\ s.previous = s.rec.prev
Logical(s) == IF WillInstall(s) THEN s.rec.repl ELSE s.target

UpdateVersions == {Fresh(f) : f \in Files \ (Strays \cup {Orig})}

\* Where another program may act between the last check and the rename no
\* file system could implement the register: those behaviours map to a
\* register at rest.
Value    == IF budget.races THEN Fresh(Orig) ELSE Logical(fs)
Possible == IF budget.races THEN {Fresh(Orig)} ELSE {Logical(s) : s \in disk}
Loaded   == [u \in UpdateVersions |->
               IF budget.races THEN Missing ELSE base[u.file]]

Register == INSTANCE AtomicReplace WITH
  Updates  <- UpdateVersions,
  Others   <- Slot \ UpdateVersions,
  Unset    <- Missing,
  value    <- Value,
  possible <- Possible,
  loaded   <- Loaded

\* The journal, the holder and the moves implement the register: the change
\* from one version to the next is one atomic step.  [scope.rs archive,
\* owner.rs recover]
ImplementsRegister == Register!Spec
=============================================================================
