------------------------- MODULE ReplacementProofs -------------------------
(***************************************************************************)
(* Theorems about Replacement, for any number of processes, files, crashes *)
(* and failing calls.                                                      *)
(***************************************************************************)
EXTENDS Replacement, TLAPS

-----------------------------------------------------------------------------
(***************************************************************************)
(* Type correctness: the tree, the control state, the memory of a process  *)
(* and the histories, one after the other.                                 *)
(***************************************************************************)

\* The archive as it is found, with nobody at work on it, is well-typed.
LEMMA TypeInit == Init => TypeOK
<1> SUFFICES ASSUME Init PROVE TypeOK
  OBVIOUS
<1> USE ConstantsAssumption DEF Init
<1>1. TreeOK
  BY DEF TreeOK, Tree, Slot, Entry, Fresh, NoRecord, RecordState, Unanchored
<1>2. ControlOK
  BY DEF ControlOK, Points, MovePoints, RecordPoints, Moves, Anchors
<1>3. MemoryOK
  BY DEF MemoryOK, Slot
<1>4. HistoryOK
  BY DEF HistoryOK, Slot, Entry, Fresh
<1>5. BudgetOK
  BY DEF BudgetOK
<1> QED
  BY <1>1, <1>2, <1>3, <1>4, <1>5 DEF TypeOK

\* What a step writes into one field leaves a tree a tree.
LEMMA TreeUpdate ==
  ASSUME NEW s \in Tree, NEW x \in Slot, NEW y \in Slot,
         NEW a \in Unanchored \cup Anchors
  PROVE  /\ Missing \in Slot
         /\ [s EXCEPT !.target = x] \in Tree
         /\ [s EXCEPT !.stage = x] \in Tree
         /\ [s EXCEPT !.retired = x] \in Tree
         /\ [s EXCEPT !.holder = "held"] \in Tree
         /\ [s EXCEPT !.holder = "isolated"] \in Tree
         /\ [s EXCEPT !.holder = "absent"] \in Tree
         /\ [s EXCEPT !.rec = NoRecord] \in Tree
         /\ [s EXCEPT !.rec = [at |-> "temp", prev |-> x, repl |-> y]] \in Tree
         /\ [s EXCEPT !.rec.at = a] \in Tree
<1>1. Missing \in Slot
  BY DEF Slot
<1>2. NoRecord \in RecordState
  BY <1>1 DEF NoRecord, RecordState, Unanchored
<1>3. [at |-> "temp", prev |-> x, repl |-> y] \in RecordState
  BY DEF RecordState, Unanchored
<1>4. [s.rec EXCEPT !.at = a] \in RecordState
  BY DEF RecordState, Tree
<1> QED
  BY <1>1, <1>2, <1>3, <1>4 DEF Tree

\* So do the two ends of a move.  [moves.rs checked_move]
LEMMA EndsUpdate ==
  ASSUME NEW s \in Tree, NEW x \in Slot, NEW y \in Slot, NEW m \in Moves
  PROVE  /\ From(s, m) \in Slot /\ To(s, m) \in Slot
         /\ WithEnds(s, m, x, y) \in Tree
  BY DEF Tree, Moves, From, To, WithEnds

\* The building blocks keep the tree and the disk well-typed.
LEMMA TreeBlocks ==
  ASSUME TreeOK
  PROVE  /\ Look => TreeOK'
         /\ Sync => TreeOK'
         /\ \A s \in Tree : Change(s) => TreeOK'
         /\ \A s \in Tree : SyncThenChange(s) => TreeOK'
  BY DEF TreeOK, Look, Sync, Change, SyncThenChange

\* Going on to another point, with the same work or none.
LEMMA GotoKeeps ==
  ASSUME ControlOK, MemoryOK, NEW p \in Procs, NEW q \in Points, Goto(p, q),
         Stay, q \notin RecordPoints,
         (q \in MovePoints) = (pc[p] \in MovePoints)
  PROVE  ControlOK' /\ MemoryOK'
  BY DEF ControlOK, MemoryOK, Goto, Stay, memory

\* Giving up, or dying, forgets the work.  [commit.rs archive_error]
LEMMA StopKeeps ==
  ASSUME ControlOK, MemoryOK, NEW p \in Procs, Stop(p)
  PROVE  ControlOK' /\ MemoryOK'
<1> USE DEF Stop, Goto, Forget
<1>1. ControlOK'
  BY DEF ControlOK, Points, MovePoints, RecordPoints, Moves, Anchors
<1>2. MemoryOK'
  BY DEF MemoryOK, Slot
<1> QED
  BY <1>1, <1>2

\* Every step writes well-formed trees, whether it is synced or not.
LEMMA TreeStep == TypeOK /\ [Next]_vars => TreeOK'
<1> SUFFICES ASSUME TypeOK, [Next]_vars PROVE TreeOK'
  OBVIOUS
<1> USE TreeBlocks DEF TypeOK
<1>1. fs \in Tree /\ Missing \in Slot
  BY DEF TreeOK, Slot
<1>2. ASSUME NEW p \in Procs,
             \/ Begin(p) \/ Recover(p) \/ Bind(p) \/ Rewrite(p) \/ Resume(p)
             \/ Observe(p) \/ Restore(p) \/ Finish(p) \/ CheckRetired(p)
             \/ ClearSync(p) \/ IoError(p) \/ Crash(p)
      PROVE  TreeOK'
  BY <1>2 DEF Begin, Recover, Bind, Rewrite, Resume, Observe, Restore, Finish,
              CheckRetired, ClearSync, IoError, Crash
<1>3. ASSUME NEW p \in Procs,
             \/ PrepareSync(p) \/ SyncRecord(p) \/ DropStageSync(p)
             \/ Settle(p) \/ Installed(p) \/ UnlinkSync(p) \/ Emptied(p)
             \/ RemoveHolderSync(p)
      PROVE  TreeOK'
  BY <1>3 DEF PrepareSync, SyncRecord, DropStageSync, Settle, Installed,
              UnlinkSync, Emptied, RemoveHolderSync
<1>4. ASSUME NEW p \in Procs,
             \/ ReserveStage(p) \/ Prepare(p) \/ DropStage(p)
             \/ UnlinkRetired(p) \/ IsolateHolder(p) \/ RemoveHolder(p)
      PROVE  TreeOK'
  <2>1. new[p] \in Slot
    BY DEF MemoryOK
  <2> QED
    BY <1>1, <1>4, <2>1, TreeUpdate
    DEF ReserveStage, Prepare, DropStage, UnlinkRetired, IsolateHolder,
        RemoveHolder, Unanchored
<1>5. ASSUME NEW p \in Procs,
             \/ WriteRecord(p) \/ RenameRecord(p) \/ DiscardRecord(p)
             \/ UnlinkDiscarded(p) \/ ClearRecord(p)
      PROVE  TreeOK'
  <2>1. src[p] \in Slot /\ new[p] \in Slot
    BY DEF MemoryOK
  <2>2. RenameRecord(p) => step[p] \in Anchors
    BY DEF RenameRecord, AtPoint, ControlOK, RecordPoints
  <2> QED
    BY <1>1, <1>5, <2>1, <2>2, TreeUpdate
    DEF WriteRecord, RenameRecord, DiscardRecord, UnlinkDiscarded, ClearRecord,
        Unanchored
<1>6. ASSUME NEW p \in Procs, Rename(p) \/ RestoreRename(p) PROVE TreeOK'
  <2>1. step[p] \in Moves
    BY <1>6 DEF Rename, RestoreRename, AtPoint, ControlOK, MovePoints
  <2> QED
    BY <1>1, <1>6, <2>1, EndsUpdate DEF Rename, RestoreRename
<1>7. CASE PowerLoss
  BY <1>7 DEF PowerLoss, TreeOK
<1>8. CASE Foreign
  <2>1. ASSUME NEW f \in Files PROVE Fresh(f) \in Slot
    BY DEF Fresh, Slot, Entry
  <2>2. fs.target # Missing => [fs EXCEPT !.target.ver = @ + 1] \in Tree
    BY <1>1 DEF Tree, Slot, Entry
  <2> QED
    BY <1>1, <1>8, <2>1, <2>2, TreeUpdate, ConstantsAssumption
    DEF Foreign, ForeignReplace, ForeignEdit, ForeignRemove, Unanchored
<1>9. CASE UNCHANGED vars
  BY <1>9 DEF vars, TreeOK
<1> QED
  BY <1>2, <1>3, <1>4, <1>5, <1>6, <1>7, <1>8, <1>9
  DEF Next, Opening, Writing, Recording, Discarding, Moving, Finishing, Clearing


\* Every step leaves a process with a move or an anchor exactly where the
\* code has one.  [owner.rs commit_resume, finish_completed; record.rs]
LEMMA ControlStep == TypeOK /\ [Next]_vars => ControlOK' /\ MemoryOK'
<1> SUFFICES ASSUME TypeOK, [Next]_vars PROVE ControlOK' /\ MemoryOK'
  OBVIOUS
<1> USE DEF TypeOK, AtPoint
\* Steps that go to another point and change nothing else here.
<1>1. ASSUME NEW p \in Procs,
             \/ ReserveStage(p) \/ Rewrite(p) \/ Prepare(p) \/ PrepareSync(p)
             \/ RenameRecord(p) \/ DiscardRecord(p) \/ UnlinkDiscarded(p)
             \/ DropStage(p) \/ Rename(p) \/ UnlinkRetired(p) \/ UnlinkSync(p)
             \/ RemoveHolder(p) \/ RemoveHolderSync(p) \/ ClearRecord(p)
      PROVE  ControlOK' /\ MemoryOK'
  BY <1>1
  DEF ReserveStage, Rewrite, Prepare, PrepareSync, RenameRecord, DiscardRecord,
      UnlinkDiscarded, DropStage, Rename, UnlinkRetired, UnlinkSync,
      RemoveHolder, RemoveHolderSync, ClearRecord, Goto, Stay, memory,
      ControlOK, MemoryOK, Points, MovePoints, RecordPoints
\* Steps that may end the operation.
<1>2. ASSUME NEW p \in Procs,
             \/ DropStageSync(p) \/ CheckRetired(p) \/ Emptied(p)
             \/ IsolateHolder(p) \/ ClearSync(p) \/ RestoreRename(p)
             \/ Restore(p) \/ Crash(p) \/ IoError(p)
      PROVE  ControlOK' /\ MemoryOK'
  <2>1. CASE Stop(p)
    BY <2>1, StopKeeps
  <2>2. ASSUME ~Stop(p)
        PROVE  /\ Stay
               /\ \E q \in Points \ RecordPoints :
                    Goto(p, q) /\ (q \in MovePoints) = (pc[p] \in MovePoints)
    <3>1. CASE CheckRetired(p) \/ IsolateHolder(p) \/ ClearSync(p)
      BY <2>2, <3>1
      DEF CheckRetired, IsolateHolder, ClearSync, Points, MovePoints,
          RecordPoints
    <3>2. CASE Emptied(p)
      <4>1. fs.holder \in {"absent", "held", "isolated"}
        BY DEF TreeOK, Tree
      <4> QED
        BY <2>2, <3>2, <4>1 DEF Emptied, Points, MovePoints, RecordPoints
    <3>3. CASE Restore(p)
      BY <2>2, <3>3 DEF Restore, Points, MovePoints, RecordPoints
    <3>4. CASE IoError(p)
      BY <2>2, <3>4
      DEF IoError, Points, MovePoints, RecordPoints, Unpublished, Reserved
    <3> QED
      BY <1>2, <2>2, <3>1, <3>2, <3>3, <3>4
      DEF DropStageSync, RestoreRename, Crash
  <2>3. CASE ~Stop(p)
    BY <2>2, <2>3, GotoKeeps
  <2> QED
    BY <2>1, <2>3
<1>3. ASSUME NEW p \in Procs, Begin(p) PROVE ControlOK' /\ MemoryOK'
  BY <1>3
  DEF Begin, Goto, memory, ControlOK, MemoryOK, Points, MovePoints, RecordPoints
<1>4. ASSUME NEW p \in Procs, Recover(p) PROVE ControlOK' /\ MemoryOK'
  <2>1. CASE Stop(p)
    BY <2>1, StopKeeps
  <2>2. CASE ~Anchored(fs)
    BY <1>4, <2>2
    DEF Recover, Goto, Stay, memory, ControlOK, MemoryOK, Points, MovePoints,
        RecordPoints
  <2>3. CASE Anchored(fs) /\ ~Stop(p)
    <3>1. fs.rec.prev \in Slot /\ fs.rec.repl \in Slot
      BY DEF TreeOK, Tree, RecordState
    <3> QED
      <4>1. ControlOK'
        BY <1>4, <2>3
        DEF Recover, Goto, ControlOK, Points, MovePoints, RecordPoints, Moves,
            Anchors
      <4>2. MemoryOK'
        BY <1>4, <2>3, <3>1 DEF Recover, MemoryOK
      <4> QED
        BY <4>1, <4>2
  <2> QED
    BY <2>1, <2>2, <2>3
<1>5. ASSUME NEW p \in Procs, Bind(p) PROVE ControlOK' /\ MemoryOK'
  <2>1. CASE Stop(p)
    BY <2>1, StopKeeps
  <2>2. CASE ~Stop(p)
    <3>1. fs.target \in Slot
      BY DEF TreeOK, Tree
    <3>2. \A f \in Files : Fresh(f) \in Slot
      BY DEF Fresh, Slot, Entry
    <3> QED
      <4>1. ControlOK'
        BY <1>5, <2>2
        DEF Bind, Goto, ControlOK, Points, MovePoints, RecordPoints
      <4>2. MemoryOK'
        BY <1>5, <2>2, <3>1, <3>2 DEF Bind, MemoryOK
      <4> QED
        BY <4>1, <4>2
  <2> QED
    BY <2>1, <2>2
<1>6. ASSUME NEW p \in Procs, WriteRecord(p) \/ SyncRecord(p)
      PROVE  ControlOK' /\ MemoryOK'
  BY <1>6
  DEF WriteRecord, SyncRecord, Goto, memory, ControlOK, MemoryOK, Points,
      MovePoints, RecordPoints, Moves, Anchors
<1>7. ASSUME NEW p \in Procs, Resume(p) \/ Installed(p) \/ Finish(p)
      PROVE  ControlOK' /\ MemoryOK'
  <2>1. CASE Stop(p)
    BY <2>1, StopKeeps
  <2>2. CASE ~Stop(p)
    BY <1>7, <2>2
    DEF Resume, Installed, Finish, Goto, Stay, memory, ControlOK, MemoryOK,
        Points, MovePoints, RecordPoints, Moves, Anchors
  <2> QED
    BY <2>1, <2>2
<1>8. ASSUME NEW p \in Procs, Observe(p) \/ Settle(p)
      PROVE  ControlOK' /\ MemoryOK'
  <2>1. CASE Stop(p)
    BY <2>1, StopKeeps
  <2>2. CASE ~Stop(p)
    <3>1. To(fs, step[p]) # Missing => To(fs, step[p]).file \in Files
      <4>1. step[p] \in Moves
        BY <1>8 DEF Observe, Settle, ControlOK, MovePoints
      <4>2. To(fs, step[p]) \in Slot
        BY <4>1, EndsUpdate DEF TreeOK, Slot
      <4> QED
        BY <4>2 DEF Slot, Entry
    <3>2. CASE Observe(p)
      BY <2>2, <3>1, <3>2
      DEF Observe, Goto, ControlOK, MemoryOK, Points, MovePoints, RecordPoints
    <3>3. CASE Settle(p)
      BY <2>2, <3>3
      DEF Settle, Goto, Stay, memory, ControlOK, MemoryOK, Points, MovePoints,
          RecordPoints, Moves, Anchors
    <3> QED
      BY <1>8, <3>2, <3>3
  <2> QED
    BY <2>1, <2>2
<1>9. CASE PowerLoss
  BY <1>9, ConstantsAssumption
  DEF PowerLoss, ControlOK, MemoryOK, Points, MovePoints, RecordPoints, Moves,
      Slot
<1>10. CASE Foreign
  BY <1>10
  DEF Foreign, ForeignReplace, ForeignEdit, ForeignRemove, ForeignMayAct,
      memory, ControlOK, MemoryOK
<1>11. CASE UNCHANGED vars
  BY <1>11 DEF vars, memory, ControlOK, MemoryOK
<1> QED
  BY <1>1, <1>2, <1>3, <1>4, <1>5, <1>6, <1>7, <1>8, <1>9, <1>10, <1>11
  DEF Next, Opening, Writing, Recording, Discarding, Moving, Finishing, Clearing

\* Every step keeps the histories and the bounds in their types.
LEMMA HistoryStep == TypeOK /\ [Next]_vars => HistoryOK' /\ BudgetOK'
<1> SUFFICES ASSUME TypeOK, [Next]_vars PROVE HistoryOK' /\ BudgetOK'
  OBVIOUS
<1> USE DEF TypeOK, AtPoint
<1>1. ASSUME NEW p \in Procs,
             \/ Begin(p) \/ Recover(p) \/ ReserveStage(p) \/ Rewrite(p)
             \/ Prepare(p) \/ PrepareSync(p) \/ WriteRecord(p)
             \/ Recording(p) \/ Discarding(p) \/ Moving(p) \/ Finish(p)
             \/ CheckRetired(p) \/ UnlinkRetired(p) \/ UnlinkSync(p)
             \/ Emptied(p) \/ ClearSync(p) \/ Clearing(p)
      PROVE  UNCHANGED <<history, budget>>
  BY <1>1
  DEF Begin, Recover, ReserveStage, Rewrite, Prepare, PrepareSync, WriteRecord,
      Recording, RenameRecord, SyncRecord, Discarding, DiscardRecord,
      UnlinkDiscarded, DropStage, DropStageSync, Moving, Resume, Rename,
      Observe, Settle, Restore, RestoreRename, Installed, Finish, CheckRetired,
      UnlinkRetired, UnlinkSync, Emptied, ClearSync, Clearing, IsolateHolder,
      RemoveHolder, RemoveHolderSync, history
<1>2. ASSUME NEW p \in Procs, Bind(p) PROVE HistoryOK' /\ BudgetOK'
  <2>1. fs.target \in Slot
    BY DEF TreeOK, Tree
  <2> QED
    BY <1>2, <2>1 DEF Bind, history, HistoryOK, BudgetOK
<1>3. ASSUME NEW p \in Procs, ClearRecord(p) PROVE HistoryOK' /\ BudgetOK'
  BY <1>3 DEF ClearRecord, HistoryOK, BudgetOK, TreeOK, Tree, RecordState
<1>4. ASSUME NEW p \in Procs, IoError(p) \/ Crash(p)
      PROVE  HistoryOK' /\ BudgetOK'
  BY <1>4 DEF IoError, Crash, history, HistoryOK, BudgetOK
<1>5. CASE PowerLoss
  BY <1>5 DEF PowerLoss, history, HistoryOK, BudgetOK
<1>6. CASE Foreign
  <2>1. fs.target \in Slot
    BY DEF TreeOK, Tree
  <2>2. used' \in SUBSET Files
    <3>1. used' = used \/ \E f \in Strays : used' = used \cup {f}
      BY <1>6 DEF Foreign, ForeignReplace, ForeignEdit, ForeignRemove
    <3> QED
      BY <3>1, ConstantsAssumption DEF HistoryOK
  <2>3. ForeignMayAct
    BY <1>6 DEF Foreign, ForeignReplace, ForeignEdit, ForeignRemove
  <2> QED
    <3>1. base' = base /\ acked' = acked
      BY <2>3 DEF ForeignMayAct
    <3>2. \A e \in outside' : e \in Slot
      BY <2>1, <2>3 DEF ForeignMayAct, HistoryOK
    <3>3. BudgetOK'
      BY <2>3 DEF ForeignMayAct, BudgetOK
    <3> QED
      BY <2>2, <3>1, <3>2, <3>3 DEF HistoryOK
<1>7. CASE UNCHANGED vars
  BY <1>7 DEF vars, history, HistoryOK, BudgetOK
<1>8. UNCHANGED <<history, budget>> => HistoryOK' /\ BudgetOK'
  BY DEF history, HistoryOK, BudgetOK
<1> QED
  BY <1>1, <1>2, <1>3, <1>4, <1>5, <1>6, <1>7, <1>8
  DEF Next, Opening, Writing, Finishing

\* The form of the variables is inductive by itself.
LEMMA TypeStep == TypeOK /\ [Next]_vars => TypeOK'
BY TreeStep, ControlStep, HistoryStep DEF TypeOK

\* Type correctness of every variable.
THEOREM TypeCorrect == Spec => []TypeOK
BY TypeInit, TypeStep, PTL DEF Spec

-----------------------------------------------------------------------------
(***************************************************************************)
(* The inductive invariant.  Kept says what holds of every tree that a     *)
(* power loss may leave; Knows says what the holder of the locks can rely  *)
(* on at each point, although other programs go on changing the target.    *)
(***************************************************************************)
\* Evidence is either where it was or was destroyed by another program.
Intact(slot, e) == slot = e \/ e \in outside

\* repl is the version an update wrote from prev.
Written(prev, repl) ==
  /\ prev \in Entry /\ prev.file \in used
  /\ repl \in Entry /\ repl.file \in used /\ repl.ver = 0
  /\ base[repl.file] = prev

\* The positions of a record under way, before and after the target is
\* preserved.
EarlyMoves(s) ==
  /\ s.previous = Missing /\ Intact(s.target, s.rec.prev)
  /\ \/ s.stage = s.rec.repl /\ s.protected = Missing
     \/ s.stage = Missing /\ s.protected = s.rec.repl
LateMoves(s) ==
  /\ s.stage = Missing
  /\ s.previous # Missing /\ s.previous.file \in used
  /\ \/ s.previous = s.rec.prev
     \/ s.rec.prev \in outside /\ s.protected = s.rec.repl
  /\ \/ /\ s.protected = s.rec.repl
        /\ s.target # Missing =>
             s.target.file \notin {s.rec.prev.file, s.rec.repl.file}
     \/ s.protected = Missing /\ s.target = s.rec.repl
     \/ s.rec.repl \in outside

UnderWay(s) == s.retired = Missing /\ s.holder = "held"

KeptUnanchored(s) ==
  /\ HolderEmpty(s) /\ Intact(s.target, acked)
  /\ s.stage # Missing => Ours(s.stage) /\ s.stage # acked
KeptPending(s) == UnderWay(s) /\ EarlyMoves(s) /\ s.stage = s.rec.repl
KeptInstalling(s) == UnderWay(s) /\ (EarlyMoves(s) \/ LateMoves(s))
KeptCompleted(s) ==
  /\ s.stage = Missing /\ s.protected = Missing
  /\ Intact(s.target, s.rec.repl)
  /\ s.previous \in {Missing, s.rec.prev} /\ s.retired \in {Missing, s.rec.prev}
  /\ s.previous = Missing \/ s.retired = Missing
  /\ s.holder = "held" \/ HolderEmpty(s)

Kept(s) ==
  /\ s.rec.at # "none" =>
       /\ Written(s.rec.prev, s.rec.repl)
       /\ \/ Intact(s.rec.prev, acked)
          \/ s.rec.at = "completed" /\ s.rec.repl = acked
  /\ ~Anchored(s) => KeptUnanchored(s)
  /\ s.rec.at = "pending" => KeptPending(s)
  /\ s.rec.at = "installing" => KeptInstalling(s)
  /\ s.rec.at = "completed" => KeptCompleted(s)

DiskOK == fs \in disk /\ \A s \in disk : Kept(s)

LedgerOK ==
  /\ acked \in Entry /\ acked.file \in used
  /\ \A f \in Files : base[f] # Missing => f \in used
  /\ \A s \in disk : s.target # Missing => s.target.file \in used

\* The scope's locks: whoever is at work has them.
Exclusive == \A p \in Procs : lock = p <=> pc[p] # "idle"

\* The update has its source and no record yet.
Unrecorded(p, stage, holder) ==
  /\ fs.rec.at = "none" /\ fs.stage = stage /\ fs.holder = holder
  /\ Written(src[p], new[p]) /\ new[p] # acked
  /\ Intact(src[p], acked) /\ Intact(fs.target, src[p])

Recorded(p, at) == fs.rec = [at |-> at, prev |-> src[p], repl |-> new[p]]

\* Before a move, and after its rename was tried.
Before(p, m) ==
  /\ Recorded(p, IF m = "retire" THEN "completed" ELSE "installing")
  /\ m = "protect"  => fs.stage = new[p]
  /\ m = "preserve" => fs.protected = new[p] /\ fs.previous = Missing
  /\ m = "install"  => fs.protected = new[p] /\ fs.previous = src[p]
  /\ m = "retire"   => fs.previous = src[p]
After(p, m) ==
  /\ Recorded(p, IF m = "retire" THEN "completed" ELSE "installing")
  /\ m = "protect"  => /\ fs.stage = Missing /\ fs.protected = new[p]
                       /\ fs.previous = Missing
  /\ m = "preserve" => fs.stage = Missing /\ fs.protected = new[p]
  /\ m = "install"  => fs.previous = src[p]
  /\ m = "retire"   => fs.previous = Missing /\ fs.retired = src[p]

\* Before the record moves to its next name.
Due(p, anchor) ==
  /\ anchor = "pending"    => /\ Recorded(p, "temp")
                              /\ fs.stage = new[p] /\ fs.holder = "held"
                              /\ Intact(fs.target, src[p])
  /\ anchor = "installing" => Recorded(p, "pending")
  /\ anchor = "completed"  => /\ Recorded(p, "installing")
                              /\ fs.stage = Missing /\ fs.protected = Missing
                              /\ fs.previous \in {src[p], Missing}
                              /\ Intact(fs.target, new[p])

Knows(p) ==
  LET at == pc[p] IN
  /\ at = "reserve" => Unrecorded(p, Missing, "absent")
  /\ at \in {"rewrite", "prepare"} => Unrecorded(p, new[p], "absent")
  /\ at \in {"prepareSync", "persist"} => Unrecorded(p, new[p], "held")
  /\ at = "recRename" => Due(p, step[p])
  /\ at = "recSync" => Recorded(p, step[p])
  /\ at = "recDiscard" => fs.rec.at = "temp"
  /\ at \in {"recUnlink", "dropStage"} => ~Anchored(fs)
  /\ at \in {"resume", "installed"} => Recorded(p, "installing")
  /\ at = "rename" => Before(p, step[p])
  /\ at \in {"observe", "settle", "restore", "restoreRename"} => After(p, step[p])
  /\ at \in {"restore", "restoreRename"} => step[p] \in {"preserve", "install"}
  /\ at = "finish" => Recorded(p, "completed")
  /\ at = "retired" => Recorded(p, "completed") /\ fs.previous = Missing
  /\ at = "unlink" => /\ Recorded(p, "completed") /\ fs.previous = Missing
                      /\ fs.retired = src[p]
  /\ at \in {"unlinkSync", "emptied", "clearRec"} =>
       fs.rec.at = "completed" /\ HolderEmpty(fs)
  /\ at \in {"isolate", "rmdir", "rmdirSync"} =>
       fs.rec.at \in {"none", "completed"}
  /\ at \in {"rmdir", "rmdirSync"} => HolderEmpty(fs)
  /\ at = "clearRec" => \A s \in disk : s.rec = fs.rec

IInv == /\ TypeOK /\ DiskOK /\ LedgerOK /\ Exclusive
        /\ \A p \in Procs : Knows(p)

-----------------------------------------------------------------------------
(***************************************************************************)
(* What all steps have in common.                                          *)
(***************************************************************************)
\* The archive as it is found.
LEMMA Start == Init => IInv
<1> SUFFICES ASSUME Init PROVE IInv
  OBVIOUS
<1> USE ConstantsAssumption DEF Init
<1>1. Kept(fs)
  BY DEF Kept, KeptUnanchored, Anchored, Anchors, NoRecord, HolderEmpty, Intact
<1>2. LedgerOK
  BY DEF LedgerOK, Fresh, Entry
<1>3. Exclusive /\ \A p \in Procs : Knows(p)
  BY DEF Exclusive, Knows
<1> QED
  BY <1>1, <1>2, <1>3, TypeInit DEF IInv, DiskOK

\* What can be said at once in every step.
LEMMA Types ==
  ASSUME IInv
  PROVE  /\ fs \in Tree /\ Kept(fs) /\ fs \in disk
         /\ fs.rec \in RecordState /\ Missing \notin Entry
         /\ fs.target # Missing => fs.target.file \in used
         /\ \A p \in Procs : Knows(p)
BY ConstantsAssumption
DEF IInv, DiskOK, LedgerOK, TypeOK, TreeOK, Tree

\* A process without the locks relies on nothing.
LEMMA Idle ==
  ASSUME NEW p \in Procs, pc[p] \in {"idle", "open", "clear", "clearSync",
                                     "dropStageSync"}
  PROVE  Knows(p)
BY DEF Knows

\* Histories that stay leave the disk as good as it is.
LEMMA Same ==
  ASSUME UNCHANGED history, NEW t
  PROVE  Kept(t)' <=> Kept(t)
BY DEF history, Kept, KeptUnanchored, KeptPending, KeptInstalling,
       KeptCompleted, EarlyMoves, LateMoves, UnderWay, HolderEmpty, Intact,
       Written, Ours, Anchored

\* The holder of the locks goes on or gives up; s is the tree that it leaves.
LEMMA Works ==
  ASSUME IInv, [Next]_vars, NEW p \in Procs, pc[p] # "idle",
         NEW at, pc' = [pc EXCEPT ![p] = at],
         (at = "idle" /\ lock' = NoProc) \/ (at # "idle" /\ lock' = lock),
         DiskOK', LedgerOK', Knows(p)'
  PROVE  IInv'
<1>1. TypeOK' /\ pc \in [Procs -> Points]
  BY TypeStep DEF IInv, TypeOK, ControlOK
<1>2. lock = p /\ \A q \in Procs \ {p} : pc[q] = "idle"
  BY DEF IInv, Exclusive
<1>3. Exclusive'
  BY <1>1, <1>2, ConstantsAssumption DEF Exclusive
<1>4. \A q \in Procs \ {p} : Knows(q)'
  BY <1>1, <1>2, Idle DEF Knows
<1> QED
  BY <1>1, <1>3, <1>4 DEF IInv

\* The same for a step without effect on the histories.
LEMMA Changes ==
  ASSUME IInv, [Next]_vars, NEW p \in Procs, pc[p] # "idle",
         UNCHANGED history,
         NEW s, Kept(s), s.target # Missing => s.target.file \in used,
         fs' = s, s \in disk', disk' \subseteq disk \cup {s},
         NEW at, pc' = [pc EXCEPT ![p] = at],
         (at = "idle" /\ lock' = NoProc) \/ (at # "idle" /\ lock' = lock),
         Knows(p)'
  PROVE  IInv'
<1>1. DiskOK'
  BY Same DEF IInv, DiskOK
<1>2. LedgerOK'
  BY DEF IInv, LedgerOK, history
<1> QED
  BY <1>1, <1>2, Works

\* The same for a step that at most synchronizes a directory.
LEMMA Stays ==
  ASSUME IInv, [Next]_vars, NEW p \in Procs, pc[p] # "idle",
         UNCHANGED history, Look \/ Sync,
         NEW at, Goto(p, at),
         (at = "idle" /\ lock' = NoProc) \/ (at # "idle" /\ lock' = lock),
         Knows(p)'
  PROVE  IInv'
<1>1. fs' = fs /\ fs \in disk' /\ disk' \subseteq disk \cup {fs}
  BY Types DEF Look, Sync
<1> QED
  BY <1>1, Types, Changes DEF Goto

\* And for one that gives up.
LEMMA Halts ==
  ASSUME IInv, [Next]_vars, NEW p \in Procs, pc[p] # "idle",
         UNCHANGED history, Look \/ Sync, Stop(p)
  PROVE  IInv'
<1>1. Knows(p)'
  <2>1. pc'[p] = "idle"
    BY DEF Stop, Goto, IInv, TypeOK, ControlOK
  <2> QED
    BY <2>1 DEF Knows
<1>2. Goto(p, "idle") /\ lock' = NoProc
  BY DEF Stop
<1> QED
  BY <1>1, <1>2, Stays

\* What it is to go somewhere.
LEMMA Arrives ==
  ASSUME IInv, NEW p \in Procs, NEW at, Goto(p, at)
  PROVE  pc'[p] = at
BY DEF Goto, IInv, TypeOK, ControlOK

-----------------------------------------------------------------------------
(***************************************************************************)
(* Opening.                                                                *)
(***************************************************************************)
\* Stages and moves that the record of p is about stay what they are while p
\* only looks.
LEMMA LooksOn ==
  ASSUME IInv, NEW p \in Procs, fs' = fs, UNCHANGED history,
         src'[p] = src[p], new'[p] = new[p]
  PROVE  /\ \A stage, holder : Unrecorded(p, stage, holder)' <=>
                                 Unrecorded(p, stage, holder)
         /\ \A at : Recorded(p, at)' <=> Recorded(p, at)
         /\ \A at : Due(p, at)' <=> Due(p, at)
         /\ \A m : Before(p, m)' <=> Before(p, m)
         /\ \A m : After(p, m)' <=> After(p, m)
<1>1. \A at : Recorded(p, at)' <=> Recorded(p, at)
  BY DEF Recorded
<1>2. \A stage, holder : Unrecorded(p, stage, holder)' <=>
                           Unrecorded(p, stage, holder)
  BY DEF Unrecorded, Written, Intact, history
<1>3. \A at : Due(p, at)' <=> Due(p, at)
  BY <1>1 DEF Due, Intact, history
<1>4. \A m : (Before(p, m)' <=> Before(p, m)) /\ (After(p, m)' <=> After(p, m))
  BY <1>1 DEF Before, After
<1> QED
  BY <1>1, <1>2, <1>3, <1>4

\* scope.rs open
LEMMA BeginStep ==
  ASSUME IInv, [Next]_vars, NEW p \in Procs, Begin(p)
  PROVE  IInv'
<1>1. /\ lock = NoProc /\ lock' = p /\ UNCHANGED <<fs, disk, history>>
      /\ pc' = [pc EXCEPT ![p] = "open"]
  BY DEF Begin, Goto, Look
<1>2. TypeOK' /\ pc \in [Procs -> Points]
  BY TypeStep DEF IInv, TypeOK, ControlOK
<1>3. \A q \in Procs : pc'[q] \in {"idle", "open"}
  BY <1>1, <1>2, ConstantsAssumption DEF IInv, Exclusive
<1>4. \A q \in Procs : Knows(q)'
  BY <1>3 DEF Knows
<1>5. Exclusive'
  BY <1>1, <1>2, ConstantsAssumption DEF IInv, Exclusive
<1>6. DiskOK' /\ LedgerOK'
  BY <1>1, Same DEF IInv, DiskOK, LedgerOK, history
<1> QED
  BY <1>2, <1>4, <1>5, <1>6 DEF IInv

\* owner.rs recover: the record tells what there is to do.
LEMMA RecoverStep ==
  ASSUME IInv, [Next]_vars, NEW p \in Procs, Recover(p)
  PROVE  IInv'
<1>1. pc[p] = "open" /\ Look /\ UNCHANGED history
  BY DEF Recover, AtPoint
<1>2. CASE Stop(p)
  BY <1>1, <1>2, Halts
<1>3. CASE Goto(p, "clear") /\ Stay
  <2>1. Knows(p)' /\ lock' = lock
    BY <1>3, Arrives DEF Stay, Knows
  <2> QED
    BY <1>1, <1>3, <2>1, Stays
<1>4. ASSUME Anchored(fs),
             src' = [src EXCEPT ![p] = fs.rec.prev],
             new' = [new EXCEPT ![p] = fs.rec.repl],
             UNCHANGED lock,
             NEW at, Goto(p, at),
             \/ /\ fs.rec.at = "pending" /\ at = "recRename"
                /\ step' = [step EXCEPT ![p] = "installing"]
             \/ fs.rec.at = "installing" /\ at = "resume"
             \/ fs.rec.at = "completed" /\ at = "finish"
      PROVE  IInv'
  <2>1. fs' = fs /\ src'[p] = fs.rec.prev /\ new'[p] = fs.rec.repl
    BY <1>1, <1>4 DEF Look, IInv, TypeOK, MemoryOK
  <2>2. fs.rec = [at |-> fs.rec.at, prev |-> fs.rec.prev, repl |-> fs.rec.repl]
    BY Types DEF RecordState
  <2>3. Recorded(p, fs.rec.at)'
    BY <2>1, <2>2 DEF Recorded
  <2>4. fs.rec.at = "pending" => step'[p] = "installing"
    BY <1>4 DEF IInv, TypeOK, ControlOK
  <2>5. Knows(p)'
    BY <1>4, <2>1, <2>3, <2>4, Arrives DEF Knows, Due
  <2> QED
    BY <1>1, <1>4, <2>5, Stays
<1> QED
  <2>1. CASE Anchored(fs) /\ ~Stop(p)
    BY <1>4, <2>1 DEF Recover
  <2> QED
    BY <1>2, <1>3, <2>1 DEF Recover

\* commit.rs run, Source::bind: the update has a source and a name of its own.
LEMMA BindStep ==
  ASSUME IInv, [Next]_vars, NEW p \in Procs, Bind(p)
  PROVE  IInv'
<1>1. pc[p] = "clear" /\ UNCHANGED <<fs, disk>>
  BY DEF Bind, AtPoint, Look
<1>2. CASE Stop(p) /\ UNCHANGED history
  BY <1>1, <1>2, Halts DEF Look
<1>3. ASSUME IsClear(fs), fs.target # Missing,
             NEW f \in (Files \ Strays) \ used,
             used' = used \cup {f}, base' = [base EXCEPT ![f] = fs.target],
             new' = [new EXCEPT ![p] = Fresh(f)],
             src' = [src EXCEPT ![p] = fs.target],
             Goto(p, "reserve"),
             UNCHANGED <<lock, acked, outside>>
      PROVE  IInv'
  <2>1. fs \in Tree /\ fs.target \in Entry /\ fs.target.file \in used
    BY <1>3, Types DEF Tree, Slot
  <2>2. /\ src'[p] = fs.target /\ new'[p] = Fresh(f)
        /\ Fresh(f) \in Entry /\ base'[f] = fs.target
        /\ \A g \in Files \ {f} : base'[g] = base[g]
    BY <1>3 DEF IInv, TypeOK, MemoryOK, HistoryOK, Fresh, Entry
  <2>3. \A s \in disk : Kept(s)'
    <3> SUFFICES ASSUME NEW s \in disk PROVE Kept(s)'
      OBVIOUS
    <3>1. Kept(s) /\ s \in Tree
      BY DEF IInv, DiskOK, TypeOK, TreeOK
    <3>2. ASSUME NEW prev, NEW repl, Written(prev, repl)
          PROVE  Written(prev, repl)'
      BY <1>3, <2>2, <3>2 DEF Written, Entry
    <3>3. \A e \in Entry : Ours(e) => Ours(e)'
      BY <1>3, <2>1, <2>2, ConstantsAssumption DEF Ours, Entry
    <3>4. \A x, e : Intact(x, e)' <=> Intact(x, e)
      BY <1>3 DEF Intact
    <3>5. /\ KeptPending(s) => KeptPending(s)'
          /\ KeptInstalling(s) => KeptInstalling(s)'
          /\ KeptCompleted(s) => KeptCompleted(s)'
      BY <1>3, <3>4
      DEF KeptPending, KeptInstalling, KeptCompleted, UnderWay, EarlyMoves,
          LateMoves, HolderEmpty
    <3>6. KeptUnanchored(s) => KeptUnanchored(s)'
      BY <1>3, <3>1, <3>3, <3>4 DEF KeptUnanchored, HolderEmpty, Tree, Slot
    <3> QED
      BY <1>3, <3>1, <3>2, <3>4, <3>5, <3>6 DEF Kept, Anchored
  <2>4. DiskOK'
    BY <1>1, <2>3 DEF IInv, DiskOK
  <2>5. LedgerOK'
    BY <1>1, <1>3, <2>2 DEF IInv, LedgerOK
  <2>6. Unrecorded(p, Missing, "absent")'
    <3>1. Written(src[p], new[p])'
      BY <1>3, <2>1, <2>2 DEF Written, Fresh
    <3>2. new'[p] # acked
      BY <1>3, <2>2 DEF IInv, LedgerOK, Fresh
    <3>3. Intact(fs.target, acked) /\ fs.rec.at = "none"
      BY <1>3, Types DEF IsClear, Kept, KeptUnanchored, Anchored, Anchors
    <3> QED
      BY <1>1, <1>3, <2>2, <3>1, <3>2, <3>3 DEF Unrecorded, Intact, IsClear
  <2>7. Knows(p)'
    BY <1>3, <2>6, Arrives DEF Knows
  <2> DEFINE at == "reserve"
  <2>8. pc' = [pc EXCEPT ![p] = at] /\ at # "idle"
    BY <1>3 DEF Goto
  <2> HIDE DEF at
  <2> QED
    BY <1>1, <1>3, <2>4, <2>5, <2>7, <2>8, Works
<1> QED
  BY <1>2, <1>3 DEF Bind

-----------------------------------------------------------------------------
(***************************************************************************)
(* Writing the new archive and its record.                                 *)
(***************************************************************************)
\* The steps that only look, before there is a record.  [commit.rs run,
\* Source::verify; prepare.rs prepare]
LEMMA WritingLooks ==
  ASSUME IInv, [Next]_vars, NEW p \in Procs, Rewrite(p) \/ PrepareSync(p)
  PROVE  IInv'
<1>1. /\ pc[p] \in {"rewrite", "prepareSync"} /\ UNCHANGED history
      /\ (Look \/ Sync) /\ Stay
  BY DEF Rewrite, PrepareSync, AtPoint
<1>2. /\ fs' = fs /\ src' = src /\ new' = new /\ lock' = lock
  BY <1>1 DEF Look, Sync, Stay, memory
<1>3. PICK at \in {"prepare", "dropStage", "persist", "isolate"} :
        /\ Goto(p, at)
        /\ at \in {"prepare", "dropStage"} => pc[p] = "rewrite"
        /\ at \in {"persist", "isolate"} => pc[p] = "prepareSync"
  BY DEF Rewrite, PrepareSync, AtPoint
<1>4. fs.rec.at = "none" /\ Anchored(fs)' = FALSE
  BY <1>1, <1>2, Types DEF Knows, Unrecorded, Anchored, Anchors
<1>5. Knows(p)'
  BY <1>1, <1>2, <1>3, <1>4, Types, Arrives, LooksOn DEF Knows
<1> QED
  BY <1>1, <1>2, <1>3, <1>5, Stays DEF Rewrite, PrepareSync

\* prepare.rs, the private stage.
LEMMA ReserveStageStep ==
  ASSUME IInv, [Next]_vars, NEW p \in Procs, ReserveStage(p)
  PROVE  IInv'
<1> DEFINE s == [fs EXCEPT !.stage = new[p]]
<1>1. /\ pc[p] = "reserve" /\ fs' = s /\ disk' = disk \cup {s}
      /\ pc' = [pc EXCEPT ![p] = "rewrite"]
      /\ UNCHANGED <<history, lock, src, new>>
  BY DEF ReserveStage, AtPoint, Change, Goto, Stay, memory
<1>2. Unrecorded(p, Missing, "absent")
  BY <1>1, Types DEF Knows
<1>3. /\ s.stage = new[p] /\ s.rec = fs.rec /\ s.target = fs.target
      /\ s.holder = fs.holder /\ s.protected = fs.protected
      /\ s.previous = fs.previous /\ s.retired = fs.retired
  BY Types DEF Tree
<1> HIDE DEF s
<1>4. Kept(s)
  BY <1>2, <1>3, Types
  DEF Kept, KeptUnanchored, Unrecorded, Written, Anchored, Anchors, Ours,
      HolderEmpty
<1>5. Unrecorded(p, new[p], "absent")'
  BY <1>1, <1>2, <1>3 DEF Unrecorded, Written, Intact, history
<1>6. Knows(p)'
  BY <1>1, <1>5, Arrives DEF Knows, Goto
<1> QED
  BY <1>1, <1>3, <1>4, <1>6, Types, Changes

\* prepare.rs prepare: the holder.
LEMMA PrepareStep ==
  ASSUME IInv, [Next]_vars, NEW p \in Procs, Prepare(p)
  PROVE  IInv'
<1> DEFINE s == [fs EXCEPT !.holder = "held"]
<1>1. /\ pc[p] = "prepare" /\ UNCHANGED <<history, lock, src, new>>
  BY DEF Prepare, AtPoint, Stay, memory
<1>2. Unrecorded(p, new[p], "absent")
  BY <1>1, Types DEF Knows
<1>3. CASE Look /\ Goto(p, "dropStage")
  <2>1. Knows(p)'
    BY <1>2, <1>3, Arrives DEF Knows, Look, Unrecorded, Anchored, Anchors
  <2> QED
    BY <1>1, <1>3, <2>1, Stays
<1>4. CASE fs' = s /\ disk' = disk \cup {s} /\ Goto(p, "prepareSync")
  <2>1. /\ s.stage = fs.stage /\ s.rec = fs.rec /\ s.target = fs.target
        /\ s.holder = "held" /\ s.protected = fs.protected
        /\ s.previous = fs.previous /\ s.retired = fs.retired
    BY Types DEF Tree
  <2> HIDE DEF s
  <2>2. Kept(s)
    BY <1>2, <2>1, Types
    DEF Kept, KeptUnanchored, Unrecorded, Anchored, Anchors, HolderEmpty
  <2>3. Unrecorded(p, new[p], "held")'
    BY <1>1, <1>2, <1>4, <2>1 DEF Unrecorded, Written, Intact, history
  <2>4. Knows(p)'
    BY <1>4, <2>3, Arrives DEF Knows
  <2> QED
    BY <1>1, <1>4, <2>1, <2>2, <2>4, Types, Changes DEF Goto
<1> QED
  BY <1>3, <1>4 DEF Prepare, Change

\* record.rs persist: the record under its temporary name.
LEMMA WriteRecordStep ==
  ASSUME IInv, [Next]_vars, NEW p \in Procs, WriteRecord(p)
  PROVE  IInv'
<1> DEFINE rec == [at |-> "temp", prev |-> src[p], repl |-> new[p]]
           s == [fs EXCEPT !.rec = rec]
<1>1. /\ pc[p] = "persist" /\ fs' = s /\ disk' = disk \cup {s}
      /\ pc' = [pc EXCEPT ![p] = "recRename"]
      /\ UNCHANGED <<history, lock, src, new>>
      /\ step' = [step EXCEPT ![p] = "pending"]
  BY DEF WriteRecord, AtPoint, Change, Goto, memory
<1>2. Unrecorded(p, new[p], "held")
  BY <1>1, Types DEF Knows
<1>3. /\ s.rec = rec /\ s.stage = fs.stage /\ s.target = fs.target
      /\ s.holder = fs.holder /\ s.protected = fs.protected
      /\ s.previous = fs.previous /\ s.retired = fs.retired
  BY Types DEF Tree
<1> HIDE DEF s
<1>4. Kept(s)
  BY <1>2, <1>3, Types
  DEF Kept, KeptUnanchored, Unrecorded, Anchored, Anchors, HolderEmpty
<1>5. step'[p] = "pending"
  BY <1>1 DEF IInv, TypeOK, ControlOK
<1>6. Due(p, "pending")'
  BY <1>1, <1>2, <1>3 DEF Due, Unrecorded, Recorded, Intact, history
<1>7. Knows(p)'
  BY <1>1, <1>5, <1>6, Arrives DEF Knows, Goto
<1> QED
  BY <1>1, <1>3, <1>4, <1>7, Types, Changes

\* record.rs move_record: the name.
LEMMA RenameRecordStep ==
  ASSUME IInv, [Next]_vars, NEW p \in Procs, RenameRecord(p)
  PROVE  IInv'
<1> DEFINE s == [fs EXCEPT !.rec.at = step[p]]
<1>1. /\ pc[p] = "recRename" /\ fs' = s /\ disk' = disk \cup {s}
      /\ pc' = [pc EXCEPT ![p] = "recSync"]
      /\ UNCHANGED <<history, lock, src, new, step>>
  BY DEF RenameRecord, AtPoint, Change, Goto, Stay, memory
<1>2. Due(p, step[p]) /\ step[p] \in Anchors
  BY <1>1, Types DEF Knows, IInv, TypeOK, ControlOK, RecordPoints
<1>3. /\ s.rec.at = step[p] /\ s.rec.prev = fs.rec.prev
      /\ s.rec.repl = fs.rec.repl
      /\ s.rec = [at |-> step[p], prev |-> fs.rec.prev, repl |-> fs.rec.repl]
      /\ s.stage = fs.stage /\ s.target = fs.target
      /\ s.holder = fs.holder /\ s.protected = fs.protected
      /\ s.previous = fs.previous /\ s.retired = fs.retired
  BY Types DEF Tree, RecordState
<1>4. /\ fs.rec.prev = src[p] /\ fs.rec.repl = new[p]
      /\ fs.rec.at = IF step[p] = "pending" THEN "temp"
                     ELSE IF step[p] = "installing" THEN "pending"
                     ELSE "installing"
  BY <1>2 DEF Due, Recorded, Anchors
<1> HIDE DEF s
<1>5. Kept(s)
  <2>1. Written(s.rec.prev, s.rec.repl) /\ Intact(s.rec.prev, acked)
    BY <1>2, <1>3, <1>4, Types DEF Kept, Anchors
  <2>2. CASE step[p] = "pending"
    BY <1>2, <1>3, <1>4, <2>1, <2>2, Types
    DEF Kept, Due, Anchored, Anchors, KeptUnanchored, KeptPending, UnderWay,
        EarlyMoves, HolderEmpty
  <2>3. CASE step[p] = "installing"
    BY <1>3, <1>4, <2>1, <2>3, Types
    DEF Kept, Anchored, Anchors, KeptPending, KeptInstalling, UnderWay,
        EarlyMoves
  <2>4. CASE step[p] = "completed"
    BY <1>2, <1>3, <1>4, <2>1, <2>4, Types
    DEF Kept, Due, Anchored, Anchors, KeptInstalling, KeptCompleted, UnderWay
  <2> QED
    BY <1>2, <2>2, <2>3, <2>4 DEF Anchors
<1>6. Recorded(p, step[p])'
  BY <1>1, <1>3, <1>4 DEF Recorded
<1>7. Knows(p)'
  BY <1>1, <1>6, Arrives DEF Knows, Goto
<1> QED
  BY <1>1, <1>3, <1>5, <1>7, Types, Changes

\* record.rs move_record: its sync.
LEMMA SyncRecordStep ==
  ASSUME IInv, [Next]_vars, NEW p \in Procs, SyncRecord(p)
  PROVE  IInv'
<1>1. /\ pc[p] = "recSync" /\ Sync /\ UNCHANGED history
      /\ fs' = fs /\ src' = src /\ new' = new /\ lock' = lock
  BY DEF SyncRecord, AtPoint, Sync
<1>2. PICK at \in {"recRename", "resume", "finish"} :
        /\ Goto(p, at)
        /\ at = "recRename" => step[p] = "pending" /\ step'[p] = "installing"
        /\ at = "resume" => step[p] = "installing"
        /\ at = "finish" => step[p] = "completed"
  BY DEF SyncRecord, IInv, TypeOK, ControlOK
<1>3. Recorded(p, step[p])
  BY <1>1, Types DEF Knows
<1>4. Knows(p)'
  BY <1>1, <1>2, <1>3, Arrives DEF Knows, Due, Recorded
<1> QED
  BY <1>1, <1>2, <1>4, Stays

\* record.rs: a record that cannot be published goes, and then the stage.
LEMMA DiscardSteps ==
  ASSUME IInv, [Next]_vars, NEW p \in Procs, DiscardRecord(p) \/ UnlinkDiscarded(p)
  PROVE  IInv'
<1>1. /\ pc[p] \in {"recDiscard", "recUnlink"} /\ ~Anchored(fs)
      /\ UNCHANGED <<history, lock>>
  BY Types
  DEF DiscardRecord, UnlinkDiscarded, AtPoint, Stay, Knows, Anchored, Anchors
<1>2. PICK rec \in {[fs.rec EXCEPT !.at = "discard"], NoRecord},
           at \in {"recUnlink", "isolate"} :
        /\ fs' = [fs EXCEPT !.rec = rec]
        /\ disk' \subseteq disk \cup {fs'} /\ fs' \in disk'
        /\ Goto(p, at)
        /\ at = "isolate" => rec = NoRecord
        /\ rec = NoRecord \/ fs.rec.at = "temp"
  <2>1. CASE DiscardRecord(p)
    <3>1. fs.rec.at = "temp"
      BY <2>1, Types DEF DiscardRecord, AtPoint, Knows
    <3> QED
      BY <2>1, <3>1, Types DEF DiscardRecord, Change, Tree
  <2>2. CASE UnlinkDiscarded(p)
    BY <2>2, Types DEF UnlinkDiscarded, SyncThenChange, Tree
  <2> QED
    BY <2>1, <2>2
<1> DEFINE s == [fs EXCEPT !.rec = rec]
<1>3. /\ s.rec = rec /\ s.stage = fs.stage /\ s.target = fs.target
      /\ s.holder = fs.holder /\ s.protected = fs.protected
      /\ s.previous = fs.previous /\ s.retired = fs.retired /\ fs' = s
  BY <1>2, Types DEF Tree
<1> HIDE DEF s
<1>4. \/ rec.at = "none"
      \/ /\ rec.at = "discard" /\ fs.rec.at = "temp"
         /\ rec.prev = fs.rec.prev /\ rec.repl = fs.rec.repl
  BY <1>2, Types DEF NoRecord, RecordState
<1>5. Kept(s)
  BY <1>1, <1>3, <1>4, Types
  DEF Kept, KeptUnanchored, Anchored, Anchors, HolderEmpty
<1>6. Knows(p)'
  BY <1>1, <1>2, <1>3, <1>4, Arrives DEF Knows, Anchored, Anchors, NoRecord
<1> QED
  BY <1>1, <1>2, <1>3, <1>5, <1>6, Types, Changes DEF Goto

\* prepare.rs discard_archive_stage
LEMMA DropStageSteps ==
  ASSUME IInv, [Next]_vars, NEW p \in Procs, DropStage(p) \/ DropStageSync(p)
  PROVE  IInv'
<1>1. CASE DropStageSync(p)
  BY <1>1, Halts DEF DropStageSync, AtPoint
<1>2. CASE DropStage(p)
  <2> DEFINE s == [fs EXCEPT !.stage = Missing]
  <2>1. /\ pc[p] = "dropStage" /\ fs' = s /\ disk' = disk \cup {s}
        /\ Goto(p, "dropStageSync") /\ UNCHANGED <<history, lock>>
    BY <1>2 DEF DropStage, AtPoint, Change, Stay
  <2>2. ~Anchored(fs)
    BY <2>1, Types DEF Knows
  <2>3. /\ s.stage = Missing /\ s.rec = fs.rec /\ s.target = fs.target
        /\ s.holder = fs.holder /\ s.protected = fs.protected
        /\ s.previous = fs.previous /\ s.retired = fs.retired
    BY Types DEF Tree
  <2> HIDE DEF s
  <2>4. Kept(s)
    BY <2>2, <2>3, Types
    DEF Kept, KeptUnanchored, Anchored, Anchors, HolderEmpty
  <2>5. Knows(p)'
    BY <2>1, Arrives DEF Knows
  <2> QED
    BY <2>1, <2>3, <2>4, <2>5, Types, Changes DEF Goto
<1> QED
  BY <1>1, <1>2

-----------------------------------------------------------------------------
(***************************************************************************)
(* The moves.                                                              *)
(***************************************************************************)
\* owner.rs commit_resume: the decision.
LEMMA ResumeStep ==
  ASSUME IInv, [Next]_vars, NEW p \in Procs, Resume(p)
  PROVE  IInv'
<1>1. pc[p] = "resume" /\ Look /\ UNCHANGED history
  BY DEF Resume, AtPoint
<1>2. Recorded(p, "installing")
  BY <1>1, Types DEF Knows
<1>3. CASE Stop(p)
  BY <1>1, <1>3, Halts
<1>4. CASE Goto(p, "installed") /\ Stay
  <2>1. Knows(p)' /\ lock' = lock
    BY <1>1, <1>2, <1>4, Arrives DEF Knows, Stay, memory, Recorded, Look
  <2> QED
    BY <1>1, <1>4, <2>1, Stays
<1>5. ASSUME Plan(fs, src[p], new[p]) \in Moves, Goto(p, "rename"),
             step' = [step EXCEPT ![p] = Plan(fs, src[p], new[p])],
             UNCHANGED <<lock, src, new>>
      PROVE  IInv'
  <2>1. PICK m \in Moves : m = Plan(fs, src[p], new[p])
    BY <1>5
  <2>2. step'[p] = m
    BY <1>5, <2>1 DEF IInv, TypeOK, ControlOK
  <2>3. Before(p, m)
    BY <1>2, <2>1
    DEF Before, Plan, Moves, ProtectDue, PreserveDue, InstallDue
  <2>4. Before(p, m)'
    BY <1>1, <1>5, <2>3, LooksOn DEF Look
  <2>5. Knows(p)'
    BY <1>5, <2>2, <2>4, Arrives DEF Knows
  <2> QED
    BY <1>1, <1>5, <2>5, Stays
<1> QED
  BY <1>3, <1>4, <1>5 DEF Resume

\* What a process knows of its move is enough to know where the files are.
LEMMA Positions ==
  ASSUME IInv, NEW p \in Procs, NEW m \in Moves
  PROVE  /\ Before(p, m) \/ After(p, m) =>
              /\ fs.rec.prev = src[p] /\ fs.rec.repl = new[p]
              /\ fs.rec.at = IF m = "retire" THEN "completed" ELSE "installing"
              /\ src[p] # Missing /\ new[p] # Missing
              /\ src[p] \in Entry /\ new[p] \in Entry
         /\ Before(p, m) \/ After(p, m) =>
              IF m = "retire" THEN KeptCompleted(fs) ELSE KeptInstalling(fs)
BY Types
DEF Before, After, Recorded, Moves, Kept, Written

\* The tree after a rename, from one end of a move to the other.
LEMMA Ends ==
  ASSUME IInv, NEW m \in Moves, NEW x, NEW y
  PROVE  LET s == WithEnds(fs, m, x, y) IN
         /\ s.rec = fs.rec /\ s.holder = fs.holder
         /\ m = "protect" =>
              /\ s.stage = x /\ s.protected = y /\ s.target = fs.target
              /\ s.previous = fs.previous /\ s.retired = fs.retired
              /\ From(fs, m) = fs.stage /\ To(fs, m) = fs.protected
         /\ m = "preserve" =>
              /\ s.target = x /\ s.previous = y /\ s.stage = fs.stage
              /\ s.protected = fs.protected /\ s.retired = fs.retired
              /\ From(fs, m) = fs.target /\ To(fs, m) = fs.previous
         /\ m = "install" =>
              /\ s.protected = x /\ s.target = y /\ s.stage = fs.stage
              /\ s.previous = fs.previous /\ s.retired = fs.retired
              /\ From(fs, m) = fs.protected /\ To(fs, m) = fs.target
         /\ m = "retire" =>
              /\ s.previous = x /\ s.retired = y /\ s.stage = fs.stage
              /\ s.protected = fs.protected /\ s.target = fs.target
              /\ From(fs, m) = fs.previous /\ To(fs, m) = fs.retired
BY Types DEF WithEnds, From, To, Moves, Tree

\* moves.rs checked_move: the rename, of whatever is at the source by now.
LEMMA RenameStep ==
  ASSUME IInv, [Next]_vars, NEW p \in Procs, Rename(p)
  PROVE  IInv'
<1>1. PICK m \in Moves : m = step[p]
  BY DEF Rename, AtPoint, IInv, TypeOK, ControlOK, MovePoints
<1>2. /\ pc[p] = "rename" /\ Goto(p, "observe")
      /\ UNCHANGED <<history, lock, src, new, step>>
      /\ Before(p, m)
  BY <1>1, Types DEF Rename, AtPoint, Stay, memory, Knows
<1>3. CASE ~CanRename(fs, m) /\ Look
  <2>1. After(p, m)
    BY <1>2, <1>3, Positions, Ends
    DEF Before, After, CanRename, KeptInstalling, EarlyMoves, LateMoves,
        KeptCompleted, Moves, UnderWay
  <2>2. After(p, m)'
    BY <1>2, <1>3, <2>1, LooksOn DEF Look
  <2>3. Knows(p)'
    BY <1>1, <1>2, <2>2, Arrives DEF Knows
  <2> QED
    BY <1>2, <1>3, <2>3, Stays
<1>4. CASE CanRename(fs, m) /\ Change(WithEnds(fs, m, Missing, From(fs, m)))
  <2> DEFINE s == WithEnds(fs, m, Missing, From(fs, m))
  <2>1. fs' = s /\ disk' = disk \cup {s}
    BY <1>4 DEF Change
  <2>2. /\ fs.rec.prev = src[p] /\ fs.rec.repl = new[p]
        /\ src[p] \in Entry /\ new[p] \in Entry
        /\ Missing \notin Entry /\ new[p].file \in used
        /\ fs.target # Missing => fs.target.file \in used
        /\ m # "retire" => KeptInstalling(fs) /\ fs.rec.at = "installing"
        /\ m = "retire" => KeptCompleted(fs) /\ fs.rec.at = "completed"
    BY <1>2, Positions, Types DEF Kept, Written
  <2>3. s.rec = fs.rec /\ s.holder = fs.holder
    BY Ends
  <2>4. /\ After(p, m)' /\ (s.target # Missing => s.target.file \in used)
        /\ IF m = "retire" THEN KeptCompleted(s) ELSE KeptInstalling(s)
    <3>1. CASE m = "protect"
      <4>1. /\ s.stage = Missing /\ s.protected = new[p] /\ s.target = fs.target
            /\ s.previous = fs.previous /\ s.retired = fs.retired
        BY <1>2, <3>1, Ends DEF Before
      <4>2. EarlyMoves(fs) /\ fs.stage = new[p]
        BY <1>2, <2>2, <3>1 DEF Before, KeptInstalling, LateMoves
      <4> HIDE DEF s
      <4>3. KeptInstalling(s) /\ After(p, m)'
        BY <1>2, <2>1, <2>2, <2>3, <3>1, <4>1, <4>2
        DEF KeptInstalling, EarlyMoves, UnderWay, After, Before, Recorded
      <4> QED
        BY <2>2, <3>1, <4>1, <4>3
    <3>2. CASE m = "preserve"
      <4>1. /\ s.stage = fs.stage /\ s.protected = fs.protected
            /\ s.target = Missing /\ s.previous = fs.target
            /\ s.retired = fs.retired /\ fs.target # Missing
        BY <1>4, <3>2, Ends DEF CanRename
      <4>2. EarlyMoves(fs) /\ fs.protected = new[p] /\ fs.stage = Missing
        BY <1>2, <2>2, <3>2 DEF Before, KeptInstalling, EarlyMoves, LateMoves
      <4> HIDE DEF s
      <4>3. KeptInstalling(s) /\ After(p, m)'
        BY <1>2, <2>1, <2>2, <2>3, <3>2, <4>1, <4>2
        DEF KeptInstalling, EarlyMoves, LateMoves, UnderWay, After, Before,
            Recorded, Intact
      <4> QED
        BY <2>2, <3>2, <4>1, <4>3
    <3>3. CASE m = "install"
      <4>1. /\ s.stage = fs.stage /\ s.protected = Missing
            /\ s.target = new[p] /\ s.previous = src[p]
            /\ s.retired = fs.retired /\ fs.previous = src[p]
        BY <1>2, <3>3, Ends DEF Before
      <4>2. LateMoves(fs)
        BY <1>2, <2>2, <3>3 DEF Before, KeptInstalling, EarlyMoves
      <4> HIDE DEF s
      <4>3. KeptInstalling(s) /\ After(p, m)'
        BY <1>2, <2>1, <2>2, <2>3, <3>3, <4>1, <4>2
        DEF KeptInstalling, LateMoves, UnderWay, After, Before, Recorded
      <4> QED
        BY <2>2, <3>3, <4>1, <4>3
    <3>4. CASE m = "retire"
      <4>1. /\ s.stage = fs.stage /\ s.protected = fs.protected
            /\ s.target = fs.target /\ s.previous = Missing
            /\ s.retired = src[p] /\ fs.previous = src[p]
        BY <1>2, <3>4, Ends DEF Before
      <4> HIDE DEF s
      <4>2. KeptCompleted(s) /\ After(p, m)'
        BY <1>2, <2>1, <2>2, <2>3, <3>4, <4>1
        DEF KeptCompleted, After, Before, Recorded, HolderEmpty
      <4> QED
        BY <2>2, <3>4, <4>1, <4>2
    <3> QED
      BY <3>1, <3>2, <3>3, <3>4 DEF Moves
  <2> HIDE DEF s
  <2>5. Kept(s)
    BY <2>2, <2>3, <2>4, Types DEF Kept, Anchored, Anchors
  <2>6. Knows(p)'
    BY <1>1, <1>2, <2>4, Arrives DEF Knows
  <2> QED
    BY <1>2, <2>1, <2>4, <2>5, <2>6, Changes DEF Goto
<1> QED
  BY <1>1, <1>3, <1>4 DEF Rename

\* moves.rs checked_move: what is found at the destination, and its proof.  A
\* move from one private name to another cannot be lost to a competitor.
LEMMA ProofSteps ==
  ASSUME IInv, [Next]_vars, NEW p \in Procs,
         Observe(p) \/ Settle(p) \/ Restore(p)
  PROVE  IInv'
<1>1. PICK m \in Moves : m = step[p]
  BY DEF Observe, Settle, Restore, AtPoint, IInv, TypeOK, ControlOK, MovePoints
<1>2. /\ pc[p] \in {"observe", "settle", "restore"} /\ After(p, m)
      /\ UNCHANGED history /\ (Look \/ Sync) /\ fs' = fs
  BY <1>1, Types
  DEF Observe, Settle, Restore, AtPoint, Knows, Look, Sync
<1>3. /\ Expected(p) = IF m \in {"protect", "install"} THEN new[p] ELSE src[p]
      /\ m \in {"protect", "retire"} =>
           /\ From(fs, m) = Missing /\ To(fs, m) = Expected(p)
           /\ To(fs, m) # Missing
  BY <1>1, <1>2, Positions, Ends DEF Expected, After, Moves
<1>4. CASE Stop(p)
  BY <1>2, <1>4, Halts
<1>5. ASSUME NEW at \in {"settle", "restore", "restoreRename"}, Goto(p, at),
             UNCHANGED <<lock, step, src, new>>,
             at # "settle" => m \in {"preserve", "install"}
      PROVE  IInv'
  <2>1. After(p, m)'
    BY <1>2, <1>5, LooksOn
  <2>2. Knows(p)'
    BY <1>1, <1>5, <2>1, Arrives DEF Knows
  <2> QED
    BY <1>2, <1>5, <2>2, Stays
<1>6. CASE Observe(p)
  BY <1>1, <1>3, <1>4, <1>5, <1>6 DEF Observe, Moves
<1>7. CASE Settle(p) /\ Goto(p, "restore")
  BY <1>1, <1>3, <1>5, <1>7 DEF Settle, Stay, memory, Moves, Goto, IInv, TypeOK, ControlOK, Points
<1>8. CASE Settle(p) /\ ~Goto(p, "restore")
  <2>1. PICK at \in {"retired", "resume"} :
          /\ Goto(p, at) /\ UNCHANGED <<lock, src, new>>
          /\ at = IF m = "retire" THEN "retired" ELSE "resume"
    BY <1>1, <1>8 DEF Settle
  <2>2. Recorded(p, IF m = "retire" THEN "completed" ELSE "installing")'
    BY <1>2, <2>1 DEF After, Recorded
  <2>3. m = "retire" => fs.previous = Missing
    BY <1>2 DEF After
  <2>4. Knows(p)'
    BY <1>2, <2>1, <2>2, <2>3, Arrives DEF Knows
  <2> QED
    BY <1>2, <2>1, <2>4, Stays
<1>9. CASE Restore(p)
  <2>1. m \in {"preserve", "install"}
    BY <1>1, <1>9, Types DEF Restore, AtPoint, Knows
  <2> QED
    BY <1>1, <1>4, <1>5, <1>9, <2>1 DEF Restore, Stay, memory
<1> QED
  BY <1>6, <1>7, <1>8, <1>9

\* moves.rs restore_known: a competitor's file goes back where it was.
LEMMA RestoreRenameStep ==
  ASSUME IInv, [Next]_vars, NEW p \in Procs, RestoreRename(p)
  PROVE  IInv'
<1>1. PICK m \in Moves : m = step[p]
  BY DEF RestoreRename, AtPoint, IInv, TypeOK, ControlOK, MovePoints
<1>2. /\ pc[p] = "restoreRename" /\ After(p, m) /\ Stop(p) /\ UNCHANGED history
      /\ m \in {"preserve", "install"}
  BY <1>1, Types DEF RestoreRename, AtPoint, Knows
<1>3. CASE Look
  BY <1>2, <1>3, Halts
<1>4. CASE /\ To(fs, m) # Missing /\ From(fs, m) = Missing
           /\ Change(WithEnds(fs, m, To(fs, m), Missing))
  <2> DEFINE s == WithEnds(fs, m, To(fs, m), Missing)
  <2>1. /\ fs.rec.prev = src[p] /\ fs.rec.repl = new[p]
        /\ src[p] \in Entry /\ new[p] \in Entry /\ Missing \notin Entry
        /\ src[p].file \in used /\ new[p].file \in used
        /\ KeptInstalling(fs) /\ fs.rec.at = "installing"
        /\ s.rec = fs.rec /\ s.holder = fs.holder
    BY <1>2, Positions, Types, Ends DEF Kept, Written
  <2>2. KeptInstalling(s) /\ (s.target # Missing => s.target.file \in used)
    <3>1. CASE m = "preserve"
      <4>1. /\ s.target = fs.previous /\ s.previous = Missing
            /\ s.stage = fs.stage /\ s.protected = fs.protected
            /\ s.retired = fs.retired /\ fs.previous # Missing
        BY <1>4, <3>1, Ends
      <4>2. LateMoves(fs) /\ fs.protected = new[p] /\ fs.stage = Missing
        BY <1>2, <2>1, <3>1, <4>1 DEF KeptInstalling, EarlyMoves, After
      <4> HIDE DEF s
      <4> QED
        BY <2>1, <4>1, <4>2
        DEF KeptInstalling, EarlyMoves, LateMoves, UnderWay, Intact
    <3>2. CASE m = "install"
      <4>1. /\ s.protected = fs.target /\ s.target = Missing
            /\ s.stage = fs.stage /\ s.previous = src[p]
            /\ s.retired = fs.retired /\ fs.target # Missing
            /\ fs.protected = Missing /\ fs.previous = src[p]
        BY <1>2, <1>4, <3>2, Ends DEF After
      <4>2. LateMoves(fs)
        BY <2>1, <4>1 DEF KeptInstalling, EarlyMoves
      <4> HIDE DEF s
      <4> QED
        BY <2>1, <4>1, <4>2 DEF KeptInstalling, LateMoves, UnderWay
    <3> QED
      BY <1>2, <3>1, <3>2
  <2> HIDE DEF s
  <2>3. Kept(s)
    BY <2>1, <2>2, Types DEF Kept, Anchored, Anchors
  <2>4. fs' = s /\ disk' = disk \cup {s}
    BY <1>4 DEF Change, s
  <2>5. Goto(p, "idle") /\ lock' = NoProc
    BY <1>2 DEF Stop
  <2>6. Knows(p)'
    BY <2>5, Arrives DEF Knows
  <2> QED
    BY <1>2, <2>2, <2>3, <2>4, <2>5, <2>6, Changes DEF Goto
<1> QED
  BY <1>1, <1>3, <1>4 DEF RestoreRename

\* owner.rs verify_installed
LEMMA InstalledStep ==
  ASSUME IInv, [Next]_vars, NEW p \in Procs, Installed(p)
  PROVE  IInv'
<1>1. pc[p] = "installed" /\ UNCHANGED history
  BY DEF Installed, AtPoint
<1>2. Recorded(p, "installing")
  BY <1>1, Types DEF Knows
<1>3. CASE Look /\ Stop(p)
  BY <1>1, <1>3, Halts
<1>4. CASE /\ IsInstalled(fs, src[p], new[p]) /\ Sync
           /\ Goto(p, "recRename") /\ UNCHANGED <<lock, src, new>>
           /\ step' = [step EXCEPT ![p] = "completed"]
  <2>1. Due(p, "completed")
    BY <1>2, <1>4 DEF Due, IsInstalled, Intact
  <2>2. Due(p, "completed")'
    BY <1>1, <1>4, <2>1, LooksOn DEF Sync
  <2>3. step'[p] = "completed"
    BY <1>4 DEF IInv, TypeOK, ControlOK
  <2>4. Knows(p)'
    BY <1>4, <2>2, <2>3, Arrives DEF Knows
  <2> QED
    BY <1>1, <1>4, <2>4, Stays
<1> QED
  BY <1>3, <1>4 DEF Installed

-----------------------------------------------------------------------------
(***************************************************************************)
(* The end of a replacement.                                               *)
(***************************************************************************)
\* owner.rs finish_completed: the steps that only look.
LEMMA FinishingLooks ==
  ASSUME IInv, [Next]_vars, NEW p \in Procs,
         Finish(p) \/ CheckRetired(p) \/ UnlinkSync(p) \/ Emptied(p)
           \/ RemoveHolderSync(p) \/ ClearSync(p)
  PROVE  IInv'
<1>1. /\ pc[p] \in {"finish", "retired", "unlinkSync", "emptied", "rmdirSync",
                    "clearSync"}
      /\ UNCHANGED history /\ (Look \/ Sync) /\ fs' = fs
  BY DEF Finish, CheckRetired, UnlinkSync, Emptied, RemoveHolderSync,
         ClearSync, AtPoint, Look, Sync
<1>2. CASE Stop(p)
  BY <1>1, <1>2, Halts
<1>3. CASE Finish(p) /\ ~Stop(p)
  <2>1. Recorded(p, "completed") /\ KeptCompleted(fs)
    <3>1. Recorded(p, "completed")
      BY <1>3, Types DEF Finish, AtPoint, Knows
    <3>2. fs.rec.at = "completed"
      BY <3>1 DEF Recorded
    <3> QED
      BY <3>1, <3>2, Types DEF Kept
  <2>2. PICK at \in {"rename", "retired", "emptied"} :
          /\ Goto(p, at) /\ UNCHANGED <<lock, src, new>>
          /\ at = "rename" => fs.previous = src[p] /\ step'[p] = "retire"
          /\ at = "retired" => fs.previous = Missing
          /\ at = "emptied" => fs.previous = Missing /\ fs.retired = Missing
    BY <1>3 DEF Finish, Stay, memory, IInv, TypeOK, ControlOK
  <2>3. Recorded(p, "completed")'
    BY <1>1, <2>1, <2>2, LooksOn
  <2>4. Knows(p)'
    BY <1>1, <2>1, <2>2, <2>3, Arrives
    DEF Knows, Before, KeptCompleted, HolderEmpty, Recorded
  <2> QED
    BY <1>1, <2>2, <2>4, Stays
<1>4. CASE CheckRetired(p) /\ ~Stop(p)
  <2>1. /\ Goto(p, "unlink") /\ UNCHANGED <<lock, src, new>>
        /\ fs.retired = src[p]
    BY <1>4 DEF CheckRetired, Stay, memory
  <2>2. Recorded(p, "completed") /\ fs.previous = Missing
    BY <1>4, Types DEF CheckRetired, AtPoint, Knows
  <2>3. Recorded(p, "completed")'
    BY <1>1, <2>1, <2>2, LooksOn
  <2>4. Knows(p)'
    BY <1>1, <2>1, <2>2, <2>3, Arrives DEF Knows
  <2> QED
    BY <1>1, <2>1, <2>4, Stays
<1>5. CASE \/ UnlinkSync(p)
           \/ (Emptied(p) \/ RemoveHolderSync(p)) /\ ~Stop(p)
  <2>1. PICK at \in {"emptied", "isolate", "rmdir", "clearRec", "dropStage"} :
          /\ Goto(p, at) /\ UNCHANGED lock
          /\ at = "clearRec" => Sync
          /\ at = "dropStage" <=> pc[p] = "rmdirSync" /\ fs.rec.at # "completed"
    <3>1. fs.holder \in {"absent", "held", "isolated"}
      BY Types DEF Tree
    <3> QED
      BY <1>5, <3>1 DEF UnlinkSync, Emptied, RemoveHolderSync, AtPoint, Stay
  <2>2. /\ fs.rec.at \in {"none", "completed"} /\ HolderEmpty(fs)
        /\ pc[p] # "rmdirSync" => fs.rec.at = "completed"
    BY <1>1, <1>5, Types DEF Knows, UnlinkSync, Emptied, RemoveHolderSync, AtPoint
  <2>3. at = "clearRec" => \A s \in disk' : s.rec = fs'.rec
    BY <2>1 DEF Sync
  <2>4. HolderEmpty(fs)' /\ (at # "dropStage" => fs'.rec.at = fs.rec.at)
    BY <1>1, <2>2 DEF HolderEmpty
  <2>5. at = "dropStage" => Anchored(fs)' = FALSE
    BY <1>1, <2>1, <2>2 DEF Anchored, Anchors
  <2>6. at \in {"emptied", "clearRec"} => fs'.rec.at = "completed"
    BY <1>1, <1>5, <2>1, <2>2, Arrives
    DEF UnlinkSync, Emptied, RemoveHolderSync, AtPoint, Goto, IInv, TypeOK, ControlOK
  <2>7. Knows(p)'
    BY <1>1, <2>1, <2>2, <2>3, <2>4, <2>5, <2>6, Arrives DEF Knows
  <2> QED
    BY <1>1, <2>1, <2>7, Stays
<1>6. CASE ClearSync(p) /\ ~Stop(p)
  <2>1. Goto(p, "clear") /\ lock' = lock
    BY <1>6 DEF ClearSync, Stay
  <2>2. Knows(p)'
    BY <2>1, Arrives DEF Knows
  <2> QED
    BY <1>1, <2>1, <2>2, Stays
<1> QED
  BY <1>2, <1>3, <1>4, <1>5, <1>6

\* moves.rs remove_retired: the previous file of a completed record.
LEMMA UnlinkRetiredStep ==
  ASSUME IInv, [Next]_vars, NEW p \in Procs, UnlinkRetired(p)
  PROVE  IInv'
<1> DEFINE s == [fs EXCEPT !.retired = Missing]
<1>1. /\ pc[p] = "unlink" /\ fs' = s /\ disk' = disk \cup {s}
      /\ Goto(p, "unlinkSync") /\ UNCHANGED <<history, lock>>
  BY DEF UnlinkRetired, AtPoint, Change, Stay
<1>2. Recorded(p, "completed") /\ fs.previous = Missing
  BY <1>1, Types DEF Knows
<1>3. /\ s.retired = Missing /\ s.rec = fs.rec /\ s.target = fs.target
      /\ s.holder = fs.holder /\ s.protected = fs.protected
      /\ s.previous = fs.previous /\ s.stage = fs.stage
  BY Types DEF Tree
<1> HIDE DEF s
<1>4. fs.rec.at = "completed"
  BY <1>2 DEF Recorded
<1>5. Kept(s) /\ HolderEmpty(s)
  BY <1>2, <1>3, <1>4, Types
  DEF Kept, KeptCompleted, Anchored, Anchors, HolderEmpty
<1>6. HolderEmpty(fs)' /\ fs'.rec.at = "completed"
  BY <1>1, <1>3, <1>4, <1>5 DEF HolderEmpty
<1>7. Knows(p)'
  BY <1>1, <1>6, Arrives DEF Knows
<1> QED
  BY <1>1, <1>3, <1>5, <1>7, Types, Changes DEF Goto

\* moves.rs clear_empty_directory: the holder, of a record or of none.
LEMMA HolderSteps ==
  ASSUME IInv, [Next]_vars, NEW p \in Procs, IsolateHolder(p) \/ RemoveHolder(p)
  PROVE  IInv'
<1>1. CASE Look /\ Stop(p) /\ pc[p] # "idle" /\ UNCHANGED history
  BY <1>1, Halts
<1>2. CASE \/ IsolateHolder(p) /\ ~(Look /\ Stop(p))
           \/ RemoveHolder(p)
  <2>1. PICK holder \in {"isolated", "absent"}, at \in {"rmdir", "rmdirSync"} :
          /\ SyncThenChange([fs EXCEPT !.holder = holder]) /\ Goto(p, at)
          /\ UNCHANGED <<history, lock>>
    BY <1>2 DEF IsolateHolder, RemoveHolder, Stay
  <2>2. /\ pc[p] \in {"isolate", "rmdir"} /\ HolderEmpty(fs)
        /\ fs.rec.at \in {"none", "completed"}
    BY <1>2, Types DEF IsolateHolder, RemoveHolder, AtPoint, Knows
  <2> DEFINE s == [fs EXCEPT !.holder = holder]
  <2>3. fs' = s /\ s \in disk' /\ disk' \subseteq disk \cup {s}
    BY <2>1, Types DEF SyncThenChange
  <2>4. /\ s.retired = fs.retired /\ s.rec = fs.rec /\ s.target = fs.target
        /\ s.protected = fs.protected
        /\ s.previous = fs.previous /\ s.stage = fs.stage
    BY Types DEF Tree
  <2> HIDE DEF s
  <2>5. HolderEmpty(s) /\ HolderEmpty(fs)'
    BY <2>2, <2>3, <2>4 DEF HolderEmpty
  <2>6. Kept(s)
    BY <2>2, <2>4, <2>5, Types
    DEF Kept, KeptCompleted, KeptUnanchored, Anchored, Anchors
  <2>7. Knows(p)'
    BY <2>1, <2>2, <2>3, <2>4, <2>5, Arrives DEF Knows
  <2> QED
    BY <2>1, <2>2, <2>3, <2>4, <2>6, <2>7, Types, Changes DEF Goto
<1> QED
  BY <1>1, <1>2 DEF IsolateHolder, AtPoint

\* record.rs clear: the update is done, and every tree on the disk agrees.
LEMMA ClearRecordStep ==
  ASSUME IInv, [Next]_vars, NEW p \in Procs, ClearRecord(p)
  PROVE  IInv'
<1>0. PICK s : s = [fs EXCEPT !.rec = NoRecord]
  OBVIOUS
<1>1. /\ pc[p] = "clearRec" /\ fs' = s /\ disk' = disk \cup {s}
      /\ Goto(p, "clearSync") /\ UNCHANGED <<used, base, outside, lock>>
      /\ acked' = fs.rec.repl
  BY <1>0 DEF ClearRecord, AtPoint, Change, Stay
<1>2. /\ fs.rec.at = "completed" /\ HolderEmpty(fs) /\ KeptCompleted(fs)
      /\ \A t \in disk : t.rec = fs.rec
      /\ Written(fs.rec.prev, fs.rec.repl)
  BY <1>1, Types DEF Knows, Kept
<1>3. /\ s.retired = fs.retired /\ s.rec.at = "none" /\ s.target = fs.target
      /\ s.protected = fs.protected
      /\ s.previous = fs.previous /\ s.stage = fs.stage
  BY <1>0, Types DEF Tree, NoRecord
<1>4. Kept(s)'
  BY <1>1, <1>2, <1>3
  DEF Kept, KeptUnanchored, KeptCompleted, HolderEmpty, Anchored, Anchors, Intact
<1>5. ASSUME NEW t \in disk PROVE Kept(t)'
  <2>1. Kept(t) /\ t.rec = fs.rec
    BY <1>2 DEF IInv, DiskOK
  <2> QED
    BY <1>1, <1>2, <2>1
    DEF Kept, KeptCompleted, HolderEmpty, Written, Anchored, Anchors, Intact
<1>6. DiskOK'
  BY <1>1, <1>4, <1>5 DEF DiskOK
<1>7. LedgerOK'
  BY <1>1, <1>2, <1>3, Types DEF IInv, LedgerOK, Written
<1>8. Knows(p)'
  BY <1>1, Arrives DEF Knows
<1> QED
  BY <1>1, <1>6, <1>7, <1>8, Works DEF Goto

-----------------------------------------------------------------------------
(***************************************************************************)
(* What goes wrong, and what others do.                                    *)
(***************************************************************************)
\* A call fails, or the process dies.
LEMMA FailureSteps ==
  ASSUME IInv, [Next]_vars, NEW p \in Procs, IoError(p) \/ Crash(p)
  PROVE  IInv'
<1>1. pc[p] # "idle" /\ Look /\ UNCHANGED history
  BY DEF IoError, Crash
<1>2. CASE Stop(p)
  BY <1>1, <1>2, Halts
<1>3. CASE IoError(p) /\ ~Stop(p)
  <2>1. PICK at \in {"dropStage", "isolate", "recDiscard"} :
          /\ Goto(p, at) /\ Stay
          /\ at = "dropStage" => pc[p] \in {"rewrite", "prepare"}
          /\ at = "isolate" => pc[p] \in {"prepareSync", "persist"}
          /\ at = "recDiscard" => fs.rec.at = "temp"
    BY <1>3 DEF IoError, Unpublished, Reserved
  <2>2. at # "recDiscard" => fs.rec.at = "none"
    BY <2>1, Types DEF Knows, Unrecorded
  <2>3. Knows(p)'
    BY <1>1, <2>1, <2>2, Arrives DEF Knows, Look, Anchored, Anchors
  <2> QED
    BY <1>1, <2>1, <2>3, Stays DEF Stay
<1> QED
  BY <1>2, <1>3 DEF Crash

\* The machine loses power.
LEMMA PowerLossStep ==
  ASSUME IInv, [Next]_vars, PowerLoss
  PROVE  IInv'
<1>1. /\ fs' \in disk /\ disk' = {fs'} /\ UNCHANGED history /\ lock' = NoProc
      /\ \A p \in Procs : pc'[p] = "idle"
  BY DEF PowerLoss
<1>2. TypeOK'
  BY TypeStep DEF IInv
<1>3. DiskOK' /\ LedgerOK'
  BY <1>1, Same DEF IInv, DiskOK, LedgerOK, history
<1>4. Exclusive' /\ \A p \in Procs : Knows(p)'
  BY <1>1, ConstantsAssumption DEF Exclusive, Knows
<1> QED
  BY <1>2, <1>3, <1>4 DEF IInv

\* Another program changes the target: the tree stays one that recovery knows,
\* and the process at work finds out when it looks.
LEMMA ForeignStep ==
  ASSUME IInv, [Next]_vars, Foreign
  PROVE  IInv'
<1>1. /\ UNCHANGED <<lock, pc, memory, base, acked>>
      /\ outside' = outside \cup ({fs.target} \ {Missing})
      /\ used \subseteq used'
  BY DEF Foreign, ForeignReplace, ForeignEdit, ForeignRemove, ForeignMayAct
<1>2. PICK x : /\ fs' = [fs EXCEPT !.target = x] /\ disk' = disk \cup {fs'}
               /\ x # Missing => x.file \in used'
               /\ \/ x = Missing \/ x.file \notin used
                  \/ fs.target # Missing /\ x.file = fs.target.file
  <2>1. CASE ForeignReplace
    BY <2>1 DEF ForeignReplace, Change, Fresh
  <2>2. CASE ForeignEdit
    <3>1. fs.target \in Entry /\ fs.target.file \in used /\ fs \in Tree
      BY <2>2, Types DEF ForeignEdit, Tree, Slot
    <3>2. [fs EXCEPT !.target.ver = @ + 1]
            = [fs EXCEPT !.target = [fs.target EXCEPT !.ver = @ + 1]]
      BY <3>1 DEF Tree, Entry
    <3>3. [fs.target EXCEPT !.ver = @ + 1].file = fs.target.file
      BY <3>1 DEF Entry
    <3> QED
      BY <2>2, <3>1, <3>2, <3>3, <1>1 DEF ForeignEdit, Change
  <2>3. CASE ForeignRemove
    BY <2>3 DEF ForeignRemove, Change
  <2> QED
    BY <2>1, <2>2, <2>3 DEF Foreign
<1>3. /\ fs'.target = x /\ fs'.rec = fs.rec /\ fs'.stage = fs.stage
      /\ fs'.protected = fs.protected /\ fs'.previous = fs.previous
      /\ fs'.retired = fs.retired /\ fs'.holder = fs.holder
  BY <1>2, Types DEF Tree
<1>4. \A e \in Entry : Intact(fs.target, e) => Intact(fs.target, e)'
  BY <1>1, Types DEF Intact
<1>5. \A prev, repl : Written(prev, repl) => Written(prev, repl)'
  BY <1>1 DEF Written
<1>6. acked \in Entry
  BY DEF IInv, LedgerOK
<1>7. ASSUME NEW t \in disk PROVE Kept(t)'
  <2>1. Kept(t)
    BY DEF IInv, DiskOK
  <2>2. \A y, e : Intact(y, e) => Intact(y, e)'
    BY <1>1 DEF Intact
  <2>3. KeptUnanchored(t) => KeptUnanchored(t)'
    BY <1>1, <2>2 DEF KeptUnanchored, HolderEmpty, Ours
  <2>4. /\ KeptPending(t) => KeptPending(t)'
        /\ KeptInstalling(t) => KeptInstalling(t)'
        /\ KeptCompleted(t) => KeptCompleted(t)'
    BY <1>1, <2>2
    DEF KeptPending, KeptInstalling, KeptCompleted, HolderEmpty, UnderWay,
        EarlyMoves, LateMoves
  <2> QED
    BY <1>1, <1>5, <2>1, <2>2, <2>3, <2>4 DEF Kept, Anchored
<1>8. Kept(fs)'
  <2>1. fs.rec.at # "none" => fs.rec.prev \in Entry /\ fs.rec.repl \in Entry
                              /\ fs.rec.prev.file \in used
                              /\ fs.rec.repl.file \in used
    BY Types DEF Kept, Written
  <2>2. KeptUnanchored(fs) => KeptUnanchored(fs)'
    BY <1>1, <1>3, <1>4, <1>6 DEF KeptUnanchored, HolderEmpty, Ours
  <2>3. fs.rec.at # "none" /\ EarlyMoves(fs) => EarlyMoves(fs)'
    BY <1>3, <1>4, <2>1 DEF EarlyMoves
  <2>4. fs.rec.at # "none" /\ LateMoves(fs) => LateMoves(fs)'
    BY <1>1, <1>2, <1>3, <2>1, Types DEF LateMoves
  <2>5. fs.rec.at # "none" /\ KeptCompleted(fs) => KeptCompleted(fs)'
    BY <1>3, <1>4, <2>1 DEF KeptCompleted, HolderEmpty
  <2>6. \A e : Intact(e, acked) => Intact(e, acked)'
    BY <1>1 DEF Intact
  <2> QED
    BY <1>1, <1>3, <1>5, <2>2, <2>3, <2>4, <2>5, <2>6, Types
    DEF Kept, Anchored, KeptPending, KeptInstalling, UnderWay
<1>9. DiskOK'
  BY <1>2, <1>7, <1>8 DEF DiskOK
<1>10. LedgerOK'
  BY <1>1, <1>2, <1>3 DEF IInv, LedgerOK
<1>11. ASSUME NEW p \in Procs PROVE Knows(p)'
  <2>1. /\ Knows(p) /\ pc'[p] = pc[p] /\ src'[p] = src[p] /\ new'[p] = new[p]
        /\ step'[p] = step[p]
    BY <1>1, Types DEF memory
  <2>2. \A stage, holder : Unrecorded(p, stage, holder) =>
                             Unrecorded(p, stage, holder)'
    <3>1. \A e : Intact(e, acked) => Intact(e, acked)'
      BY <1>1 DEF Intact
    <3> QED
      BY <1>1, <1>3, <1>4, <1>5, <2>1, <3>1 DEF Unrecorded, Written
  <2>3. \A at : Recorded(p, at) => Recorded(p, at)'
    BY <1>3, <2>1 DEF Recorded
  <2>4. ASSUME NEW at, Due(p, at) PROVE Due(p, at)'
    <3>1. Recorded(p, "temp") \/ Recorded(p, "installing") =>
            src[p] \in Entry /\ new[p] \in Entry
      BY Types DEF Recorded, Kept, Written
    <3> QED
      BY <1>3, <1>4, <2>1, <2>3, <2>4, <3>1 DEF Due
  <2>5. \A m : (Before(p, m) => Before(p, m)') /\ (After(p, m) => After(p, m)')
    BY <1>3, <2>1, <2>3 DEF Before, After
  <2>6. Anchored(fs)' <=> Anchored(fs)
    BY <1>3 DEF Anchored
  <2>7. HolderEmpty(fs)' <=> HolderEmpty(fs)
    BY <1>3 DEF HolderEmpty
  <2>8. pc[p] = "clearRec" => \A s \in disk' : s.rec = fs'.rec
    BY <1>2, <1>3, <2>1 DEF Knows
  <2> QED
    BY <1>3, <2>1, <2>2, <2>3, <2>4, <2>5, <2>6, <2>7, <2>8 DEF Knows
<1>12. TypeOK' /\ Exclusive'
  BY <1>1, TypeStep DEF IInv, Exclusive
<1> QED
  BY <1>9, <1>10, <1>11, <1>12 DEF IInv

\* The invariant is inductive.
LEMMA Inductive == IInv /\ [Next]_vars => IInv'
<1> SUFFICES ASSUME IInv, [Next]_vars PROVE IInv'
  OBVIOUS
<1>1. ASSUME NEW p \in Procs, Opening(p) \/ Writing(p) \/ Recording(p)
      PROVE  IInv'
  BY <1>1, BeginStep, RecoverStep, BindStep, WritingLooks, ReserveStageStep,
     PrepareStep, WriteRecordStep, RenameRecordStep, SyncRecordStep
  DEF Opening, Writing, Recording
<1>2. ASSUME NEW p \in Procs, Discarding(p) \/ Moving(p)
      PROVE  IInv'
  BY <1>2, DiscardSteps, DropStageSteps, ResumeStep, RenameStep, ProofSteps,
     RestoreRenameStep, InstalledStep
  DEF Discarding, Moving
<1>3. ASSUME NEW p \in Procs, Finishing(p) \/ Clearing(p)
      PROVE  IInv'
  BY <1>3, FinishingLooks, UnlinkRetiredStep, ClearRecordStep, HolderSteps
  DEF Finishing, Clearing
<1>4. CASE UNCHANGED vars
  <2>1. TypeOK'
    BY TypeStep DEF IInv
  <2>2. DiskOK' /\ LedgerOK' /\ Exclusive'
    BY <1>4, Same DEF IInv, DiskOK, LedgerOK, Exclusive, vars, history
  <2>3. ASSUME NEW p \in Procs PROVE Knows(p)'
    BY <1>4, Types, LooksOn
    DEF Knows, vars, memory, HolderEmpty, Anchored
  <2> QED
    BY <2>1, <2>2, <2>3 DEF IInv
<1> QED
  BY <1>1, <1>2, <1>3, <1>4, FailureSteps, PowerLossStep, ForeignStep DEF Next

-----------------------------------------------------------------------------
(***************************************************************************)
(* The theorems.                                                           *)
(***************************************************************************)
LEMMA Invariant == Spec => []IInv
BY Start, Inductive, PTL DEF Spec

\* Whatever instant the power fails at, and whatever other programs and failing
\* calls have done before: the version the last caller was told about is there,
\* or its finished successor is, or another program has destroyed it; what a
\* record names is there to work with; and nothing of the user lies where no
\* record leads.  [owner.rs commit_resume, finish_completed; scope.rs archive]
THEOREM CrashesAreSafe == Spec => []CrashSafe
<1>1. ASSUME IInv, NEW s \in disk PROVE NothingDestroyed(s) /\ NoOrphans(s)
  <2>1. /\ Kept(s) /\ s \in Tree /\ acked \in Entry /\ Missing \notin Entry
    BY <1>1, ConstantsAssumption DEF IInv, DiskOK, LedgerOK, TypeOK, TreeOK
  <2>2. \A e \in Entry : e \in Held(s) <=>
          e \in {s.target, s.stage, s.protected, s.previous, s.retired}
    BY <2>1 DEF Held
  <2>3. s.rec.at # "none" => s.rec.prev \in Entry /\ s.rec.repl \in Entry
    BY <2>1 DEF Kept, Written
  <2>4. CASE ~Anchored(s)
    <3>1. KeptUnanchored(s)
      BY <2>1, <2>4 DEF Kept
    <3> QED
      BY <2>1, <2>2, <2>4, <3>1
      DEF NothingDestroyed, NoOrphans, KeptUnanchored, Intact, Anchored, Anchors
  <2>5. CASE s.rec.at \in {"pending", "installing"}
    <3>1. KeptPending(s) \/ KeptInstalling(s)
      BY <2>1, <2>5 DEF Kept
    <3>2. Intact(s.rec.prev, acked)
      BY <2>1, <2>5 DEF Kept
    <3>3. /\ s.rec.prev \in Held(s) \cup outside
          /\ s.rec.repl \in Held(s) \cup outside
      BY <2>2, <2>3, <2>5, <3>1
      DEF KeptPending, KeptInstalling, EarlyMoves, LateMoves, Intact
    <3> QED
      BY <2>5, <3>2, <3>3
      DEF NothingDestroyed, NoOrphans, Intact, Anchored, Anchors
  <2>6. CASE s.rec.at = "completed"
    <3>1. KeptCompleted(s)
      BY <2>1, <2>6 DEF Kept
    <3>2. Intact(s.rec.prev, acked) \/ s.rec.repl = acked
      BY <2>1, <2>6 DEF Kept
    <3>3. s.rec.repl \in Held(s) \cup outside
      BY <2>2, <2>3, <2>6, <3>1 DEF KeptCompleted, Intact
    <3> QED
      BY <2>6, <3>2, <3>3
      DEF NothingDestroyed, NoOrphans, Intact, Anchored, Anchors
  <2> QED
    BY <2>4, <2>5, <2>6 DEF Anchored, Anchors
<1>2. IInv => CrashSafe
  BY <1>1 DEF CrashSafe
<1> QED
  BY <1>2, Invariant, PTL

\* Recovery refuses no tree of the program's own making: as long as the two
\* recorded files exist and nobody holds the target's name, every tree a crash
\* may leave with a record has a next step.  [owner.rs commit_resume: the three
\* position matches; finish_completed]
THEOREM RecoveryGoesOn == Spec => []RecoveryAdmits
<1>1. ASSUME IInv, NEW s \in disk, Anchored(s),
             s.rec.prev \notin outside, s.rec.repl \notin outside,
             s.target \in {s.rec.prev, s.rec.repl, Missing}
      PROVE  /\ HolderAdmitted(s)
             /\ IF s.rec.at = "completed"
                THEN CanFinish(s, s.rec.prev, s.rec.repl)
                ELSE Plan(s, s.rec.prev, s.rec.repl) # "refuse"
  <2>1. /\ Kept(s) /\ Missing \notin Entry
        /\ s.rec.prev \in Entry /\ s.rec.repl \in Entry
    BY <1>1, ConstantsAssumption
    DEF IInv, DiskOK, Kept, Written, Anchored, Anchors
  <2>2. CASE s.rec.at = "completed"
    <3>1. KeptCompleted(s)
      BY <2>1, <2>2 DEF Kept
    <3> QED
      BY <1>1, <2>1, <2>2, <3>1
      DEF KeptCompleted, HolderAdmitted, CanFinish, FinishAdmitted, Intact
  <2>3. CASE s.rec.at \in {"pending", "installing"}
    <3>1. UnderWay(s) /\ (EarlyMoves(s) \/ LateMoves(s))
      BY <2>1, <2>3 DEF Kept, KeptPending, KeptInstalling
    <3>2. CASE EarlyMoves(s)
      BY <1>1, <2>1, <2>3, <3>1, <3>2
      DEF EarlyMoves, UnderWay, HolderAdmitted, Plan, ProtectDue, PreserveDue,
          Intact
    <3>3. CASE LateMoves(s)
      <4>1. s.previous = s.rec.prev /\ s.stage = Missing
        BY <1>1, <3>3 DEF LateMoves
      <4>2. \/ s.protected = s.rec.repl /\ s.target = Missing
            \/ s.protected = Missing /\ s.target = s.rec.repl
        BY <1>1, <2>1, <3>3 DEF LateMoves
      <4> QED
        BY <2>3, <3>1, <4>1, <4>2
        DEF UnderWay, HolderAdmitted, Plan, IsInstalled, InstallDue
    <3> QED
      BY <3>1, <3>2, <3>3
  <2> QED
    BY <1>1, <2>2, <2>3 DEF Anchored, Anchors
<1>2. IInv => RecoveryAdmits
  BY <1>1 DEF RecoveryAdmits
<1> QED
  BY <1>2, Invariant, PTL

\* The version a caller is told about was written from the file it replaced,
\* and that is the one the caller before was told about, unless another program
\* had destroyed that first: no update is lost under another.
\* [commit.rs run, Source::verify; prepare.rs prepare; scope.rs archive]
THEOREM NoUpdateIsLost == Spec => NoLostUpdate
<1>1. ASSUME IInv, NEW p \in Procs, ClearRecord(p), acked' # acked
      PROVE  /\ base[acked'.file] = fs.rec.prev
             /\ fs.rec.prev = acked \/ acked \in outside
  <2>1. fs.rec.at = "completed" /\ acked' = fs.rec.repl
    BY <1>1 DEF ClearRecord
  <2> QED
    BY <1>1, <2>1, Types DEF Kept, Written, Intact
<1>2. ASSUME IInv, [Next]_vars, acked' # acked
      PROVE  \E p \in Procs : ClearRecord(p)
  <2>1. ASSUME NEW p \in Procs, Opening(p) \/ Writing(p) \/ Recording(p)
        PROVE  acked' = acked
    BY <2>1
    DEF Opening, Begin, Recover, Bind, Stop, Writing, ReserveStage, Rewrite,
        Prepare, PrepareSync, WriteRecord, Recording, RenameRecord,
        SyncRecord, history
  <2>2. ASSUME NEW p \in Procs, Discarding(p) \/ Moving(p) \/ Clearing(p)
        PROVE  acked' = acked
    BY <2>2
    DEF Discarding, DiscardRecord, UnlinkDiscarded, DropStage, DropStageSync,
        Moving, Resume, Rename, Observe, Settle, Restore, RestoreRename,
        Installed, Clearing, IsolateHolder, RemoveHolder, RemoveHolderSync,
        history
  <2>3. ASSUME NEW p \in Procs, Finishing(p)
        PROVE  acked' = acked \/ ClearRecord(p)
    BY <2>3
    DEF Finishing, Finish, CheckRetired, UnlinkRetired, UnlinkSync, Emptied,
        ClearSync, history
  <2>4. ASSUME NEW p \in Procs, IoError(p) \/ Crash(p)
        PROVE  acked' = acked
    BY <2>4 DEF IoError, Crash, history
  <2>5. PowerLoss \/ Foreign \/ UNCHANGED vars => acked' = acked
    BY DEF PowerLoss, Foreign, ForeignReplace, ForeignEdit, ForeignRemove,
       ForeignMayAct, history, vars
  <2> QED
    BY <1>2, <2>1, <2>2, <2>3, <2>4, <2>5 DEF Next
<1>3. IInv /\ [Next]_vars =>
        [acked' # acked => /\ base[acked'.file] = fs.rec.prev
                           /\ fs.rec.prev = acked \/ acked \in outside]_vars
  BY <1>1, <1>2
<1> QED
  BY <1>3, Start, Inductive, PTL DEF Spec, NoLostUpdate

\* A step that leaves everything where it is, or moves it.
LEMMA Removes ==
  ASSUME IInv, [Next]_vars, fs' \notin disk,
         NEW e \in Held(fs), e \notin Held(fs')
  PROVE  \/ e \in outside'
         \/ e = fs.stage /\ ~Anchored(fs) /\ Ours(e)
         \/ fs.rec.at = "completed" /\ e = fs.rec.prev
<1>1. /\ e # Missing /\ fs \in Tree
      /\ e \in {fs.target, fs.stage, fs.protected, fs.previous, fs.retired}
  BY Types DEF Held
<1>2. fs' # fs
  BY Types
<1>3. \/ Foreign
      \/ \E p \in Procs :
           \/ ReserveStage(p) \/ Prepare(p) \/ WriteRecord(p) \/ RenameRecord(p)
           \/ DiscardRecord(p) \/ UnlinkDiscarded(p) \/ DropStage(p)
           \/ Rename(p) \/ RestoreRename(p) \/ UnlinkRetired(p)
           \/ IsolateHolder(p) \/ RemoveHolder(p) \/ ClearRecord(p)
  BY <1>2
  DEF Next, Opening, Begin, Recover, Bind, Writing, Rewrite, PrepareSync,
      Recording, SyncRecord, Discarding, DropStageSync, Moving, Resume, Observe,
      Settle, Restore, Installed, Finishing, Finish, CheckRetired, UnlinkSync,
      Emptied, ClearSync, Clearing, RemoveHolderSync, IoError, Crash, PowerLoss,
      vars, Look, Sync
<1>4. ASSUME NEW p \in Procs,
             \/ Prepare(p) \/ WriteRecord(p) \/ RenameRecord(p)
             \/ DiscardRecord(p) \/ UnlinkDiscarded(p)
             \/ IsolateHolder(p) \/ RemoveHolder(p) \/ ClearRecord(p)
      PROVE  Held(fs') = Held(fs)
  BY <1>1, <1>2, <1>4
  DEF Held, Prepare, WriteRecord, RenameRecord, DiscardRecord, UnlinkDiscarded,
      IsolateHolder, RemoveHolder, ClearRecord, Change, SyncThenChange, Look,
      Tree
<1>5. ASSUME NEW p \in Procs, Rename(p) \/ RestoreRename(p)
      PROVE  Held(fs') = Held(fs)
  <2>1. PICK m \in Moves : m = step[p]
    BY <1>5 DEF Rename, RestoreRename, AtPoint, IInv, TypeOK, ControlOK, MovePoints
  <2>2. \/ /\ fs' = WithEnds(fs, m, Missing, From(fs, m)) /\ To(fs, m) = Missing
        \/ /\ fs' = WithEnds(fs, m, To(fs, m), Missing) /\ From(fs, m) = Missing
    BY <1>2, <1>5, <2>1 DEF Rename, RestoreRename, CanRename, Change, Look
  <2> QED
    BY <1>1, <2>2, Ends DEF Held, Moves
<1>6. ASSUME NEW p \in Procs, ReserveStage(p)
      PROVE  Held(fs) \subseteq Held(fs')
  <2>1. fs.stage = Missing
    BY <1>6, Types DEF ReserveStage, AtPoint, Knows, Unrecorded
  <2> QED
    BY <1>1, <1>6, <2>1 DEF Held, ReserveStage, Change, Tree
<1>7. ASSUME NEW p \in Procs, DropStage(p)
      PROVE  e = fs.stage /\ ~Anchored(fs) /\ Ours(e)
  <2>1. ~Anchored(fs)
    BY <1>7, Types DEF DropStage, AtPoint, Knows
  <2>2. e = fs.stage
    BY <1>1, <1>7 DEF Held, DropStage, Change, Tree
  <2> QED
    BY <1>1, <2>1, <2>2, Types DEF Kept, KeptUnanchored
<1>8. ASSUME NEW p \in Procs, UnlinkRetired(p)
      PROVE  fs.rec.at = "completed" /\ e = fs.rec.prev
  <2>1. Recorded(p, "completed") /\ fs.retired = src[p]
    BY <1>8, Types DEF UnlinkRetired, AtPoint, Knows
  <2>2. e = fs.retired
    BY <1>1, <1>8 DEF Held, UnlinkRetired, Change, Tree
  <2> QED
    BY <2>1, <2>2 DEF Recorded
<1>9. CASE Foreign
  <2>1. \E x : fs' = [fs EXCEPT !.target = x]
    <3>1. fs.target # Missing =>
            [fs EXCEPT !.target.ver = @ + 1]
              = [fs EXCEPT !.target = [fs.target EXCEPT !.ver = @ + 1]]
      BY <1>1 DEF Tree, Entry, Slot
    <3> QED
      BY <1>9, <3>1
      DEF Foreign, ForeignReplace, ForeignEdit, ForeignRemove, Change
  <2>2. e = fs.target
    BY <1>1, <2>1 DEF Held, Tree
  <2>3. outside' = outside \cup ({fs.target} \ {Missing})
    BY <1>9 DEF Foreign, ForeignReplace, ForeignEdit, ForeignRemove, ForeignMayAct
  <2> QED
    BY <1>1, <2>2, <2>3
<1> QED
  BY <1>3, <1>4, <1>5, <1>6, <1>7, <1>8, <1>9

\* The program deletes nothing for good but its own unpublished stage and the
\* recorded previous file of a completed record; in particular never the file
\* of another program.  [moves.rs remove_retired, prepare.rs
\* discard_archive_stage]
THEOREM OnlyItsOwn == Spec => OnlyOwnedRemoval
<1>1. IInv /\ [Next]_vars =>
        [fs' \notin disk =>
           \A e \in Held(fs) \ Held(fs') :
             \/ e \in outside'
             \/ e = fs.stage /\ ~Anchored(fs) /\ Ours(e)
             \/ fs.rec.at = "completed" /\ e = fs.rec.prev]_vars
  BY Removes
<1> QED
  BY <1>1, Start, Inductive, PTL DEF Spec, OnlyOwnedRemoval

-----------------------------------------------------------------------------
(***************************************************************************)
(* The refinement: every step of the journal and its moves is a step of    *)
(* the register, or none.  The invariant says where the target is under    *)
(* each name of a record, as long as no other program acts in the midst of *)
(* an installation.                                                        *)
(***************************************************************************)
Placed(s) ==
  /\ s.rec.at = "pending" => s.target = s.rec.prev
  /\ s.rec.at = "installing" =>
       \/ s.target = s.rec.prev /\ s.previous = Missing
       \/ /\ s.target = Missing /\ s.previous = s.rec.prev
          /\ s.protected = s.rec.repl
       \/ /\ s.target = s.rec.repl /\ s.previous = s.rec.prev
          /\ s.protected = Missing
  /\ s.rec.at = "completed" => s.target = s.rec.repl

\* From the last check of the inputs to the name "pending", nothing moves.
Publishing(p) == pc[p] = "persist" \/ (pc[p] = "recRename" /\ step[p] = "pending")
Steady == \A p \in Procs : Publishing(p) => fs.target = src[p]

Tame == ~budget.races => (\A s \in disk : Placed(s)) /\ Steady

\* Only updates are numbered.
Numbered ==
  /\ Orig \in used
  /\ \A f \in Files : base[f] # Missing => f \notin Strays \cup {Orig}

RegisterInv == IInv /\ Tame /\ Numbered

RegisterStep == [Register!Next]_(Register!vars)

\* A record decides for its replacement from its first durable name on.
\* [owner.rs recover]
LEMMA Decides ==
  ASSUME NEW s, Placed(s)
  PROVE  Logical(s) = IF Anchored(s) THEN s.rec.repl ELSE s.target
BY DEF Placed, Logical, WillInstall, Anchored, Anchors

\* Where other programs may act at any time the register is at rest.
LEMMA AtRest ==
  ASSUME RegisterInv, [Next]_vars, budget.races
  PROVE  Tame' /\ RegisterStep
<1>1. budget'.races = budget.races
  <2>1. budget \in [io : Nat, crash : Nat, foreign : Nat, races : BOOLEAN]
    BY DEF RegisterInv, IInv, TypeOK, BudgetOK
  <2>2. \/ budget' = budget
        \/ budget' = [budget EXCEPT !.io = @ - 1]
        \/ budget' = [budget EXCEPT !.crash = @ - 1]
        \/ budget' = [budget EXCEPT !.foreign = @ - 1]
    <3>1. ASSUME NEW p \in Procs,
                 Opening(p) \/ Writing(p) \/ Recording(p) \/ Discarding(p)
          PROVE  budget' = budget
      BY <3>1
      DEF Opening, Begin, Recover, Bind, Writing, ReserveStage, Rewrite,
          Prepare, PrepareSync, WriteRecord, Recording, RenameRecord,
          SyncRecord, Discarding, DiscardRecord, UnlinkDiscarded, DropStage,
          DropStageSync, AtPoint
    <3>2. ASSUME NEW p \in Procs,
                 Moving(p) \/ Finishing(p) \/ Clearing(p)
          PROVE  budget' = budget
      BY <3>2
      DEF Moving, Resume, Rename, Observe, Settle, Restore, RestoreRename,
          Installed, Finishing, Finish, CheckRetired, UnlinkRetired,
          UnlinkSync, Emptied, ClearRecord, ClearSync, Clearing,
          IsolateHolder, RemoveHolder, RemoveHolderSync, AtPoint
    <3> QED
      BY <3>1, <3>2
      DEF Next, IoError, Crash, PowerLoss, Foreign, ForeignReplace,
          ForeignEdit, ForeignRemove, ForeignMayAct, vars
  <2> QED
    BY <2>1, <2>2
<1>2. UNCHANGED <<Value, Possible, Loaded>>
  BY <1>1 DEF Value, Possible, Loaded
<1> QED
  BY <1>1, <1>2 DEF Tame, RegisterStep, Register!vars

\* What can be said at once in a step that other programs do not disturb.
LEMMA Calm ==
  ASSUME RegisterInv, ~budget.races
  PROVE  /\ IInv /\ Numbered /\ Placed(fs) /\ Steady
         /\ \A s \in disk : Placed(s)
         /\ Value = Logical(fs) /\ Possible = {Logical(s) : s \in disk}
         /\ \A u \in UpdateVersions : Loaded[u] = base[u.file]
BY DEF RegisterInv, Tame, IInv, DiskOK, Value, Possible, Loaded

\* The races allowed do not change.
LEMMA RacesStay ==
  ASSUME BudgetOK, \/ budget' = budget
                   \/ budget' = [budget EXCEPT !.io = @ - 1]
                   \/ budget' = [budget EXCEPT !.crash = @ - 1]
                   \/ budget' = [budget EXCEPT !.foreign = @ - 1]
  PROVE  budget'.races = budget.races
BY DEF BudgetOK

\* One process at work: what nobody relies on any more stays steady.
LEMMA StaysSteady ==
  ASSUME RegisterInv, NEW p \in Procs, pc[p] # "idle" \/ lock = NoProc,
         NEW at, pc' = [pc EXCEPT ![p] = at],
         at = "persist" => fs'.target = src'[p],
         at = "recRename" /\ step'[p] = "pending" => fs'.target = src'[p]
  PROVE  Steady'
<1>1. pc \in [Procs -> Points] /\ Exclusive
  BY DEF RegisterInv, IInv, TypeOK, ControlOK
<1>2. \A q \in Procs \ {p} : pc[q] = "idle"
  BY <1>1, ConstantsAssumption DEF Exclusive
<1> QED
  BY <1>1, <1>2 DEF Steady, Publishing

\* A step that leaves the register's value alone, and flushes it at most.
LEMMA Keeps ==
  ASSUME RegisterInv, ~budget.races, budget'.races = budget.races, base' = base,
         NEW p \in Procs, pc[p] # "idle" \/ lock = NoProc,
         NEW at, pc' = [pc EXCEPT ![p] = at],
         at = "persist" => fs'.target = src'[p],
         at = "recRename" /\ step'[p] = "pending" => fs'.target = src'[p],
         NEW s, Placed(s), Logical(s) = Logical(fs), fs' = s,
         disk' = disk \cup {s} \/ disk' = {fs, s}
  PROVE  Tame' /\ RegisterStep
<1>1. \A t \in disk' : Placed(t)
  BY Calm
<1>2. Tame'
  BY <1>1, StaysSteady DEF Tame
<1>3. Value' = Value /\ Loaded' = Loaded
  BY Calm DEF Value, Loaded
<1>4. Possible' = {Logical(t) : t \in disk'}
  BY DEF Possible
<1>5. Logical(fs) \in {Logical(t) : t \in disk}
  BY DEF RegisterInv, IInv, DiskOK
<1>6. CASE disk' = disk \cup {s}
  <2>1. Possible' = Possible
    BY <1>4, <1>5, <1>6, Calm
  <2> QED
    BY <1>2, <1>3, <2>1 DEF RegisterStep, Register!vars
<1>7. CASE disk' = {fs, s}
  <2>1. Possible' = {Value}
    BY <1>4, <1>7, Calm
  <2>2. Register!Flush
    BY <1>3, <2>1 DEF Register!Flush
  <2> QED
    BY <1>2, <2>2 DEF RegisterStep, Register!Next
<1> QED
  BY <1>6, <1>7

\* The same where nothing, or a directory only, is written.
LEMMA LooksKeep ==
  ASSUME RegisterInv, ~budget.races, budget'.races = budget.races, base' = base,
         NEW p \in Procs, pc[p] # "idle" \/ lock = NoProc,
         NEW at, Goto(p, at), Look \/ Sync,
         at = "persist" => fs.target = src'[p],
         at = "recRename" => step'[p] # "pending"
  PROVE  Tame' /\ RegisterStep
<1>1. /\ fs' = fs /\ Placed(fs)
      /\ disk' = disk \cup {fs} \/ disk' = {fs, fs}
  BY Calm, Types DEF Look, Sync
<1> QED
  BY <1>1, Keeps DEF Goto

\* And where neither the target nor what decides about it is touched.
LEMMA Aside ==
  ASSUME Placed(fs), NEW s, s.rec = fs.rec, s.target = fs.target,
         s.previous = fs.previous, s.protected = fs.protected
  PROVE  Placed(s) /\ Logical(s) = Logical(fs)
BY DEF Placed, Logical, WillInstall, Anchored

\* The steps that look, decide, or give up.  [scope.rs open; owner.rs recover,
\* commit_resume, finish_completed; moves.rs checked_move, restore_known]
LEMMA LookingSteps ==
  ASSUME RegisterInv, ~budget.races, NEW p \in Procs,
         \/ Begin(p) \/ Recover(p) \/ Rewrite(p) \/ PrepareSync(p)
         \/ SyncRecord(p) \/ DropStageSync(p) \/ Resume(p) \/ Observe(p)
         \/ Settle(p) \/ Restore(p) \/ Installed(p) \/ Finish(p)
         \/ CheckRetired(p) \/ UnlinkSync(p) \/ Emptied(p)
         \/ RemoveHolderSync(p) \/ ClearSync(p) \/ IoError(p) \/ Crash(p)
  PROVE  Tame' /\ RegisterStep
<1>1. /\ fs.holder \in {"absent", "held", "isolated"} /\ BudgetOK
      /\ step \in [Procs -> Moves \cup Anchors \cup {"none"}]
  BY Types DEF RegisterInv, IInv, Tree, TypeOK, ControlOK
<1>2. base' = base /\ (Look \/ Sync) /\ (pc[p] # "idle" \/ lock = NoProc)
  BY DEF Begin, Recover, Rewrite, PrepareSync, SyncRecord, DropStageSync,
         Resume, Observe, Settle, Restore, Installed, Finish, CheckRetired,
         UnlinkSync, Emptied, RemoveHolderSync, ClearSync, IoError, Crash,
         AtPoint, history
<1>3. budget'.races = budget.races
  <2>1. \/ budget' = budget
        \/ budget' = [budget EXCEPT !.io = @ - 1]
        \/ budget' = [budget EXCEPT !.crash = @ - 1]
    BY DEF Begin, Recover, Rewrite, PrepareSync, SyncRecord, DropStageSync,
           Resume, Observe, Settle, Restore, Installed, Finish, CheckRetired,
           UnlinkSync, Emptied, RemoveHolderSync, ClearSync, IoError, Crash,
           AtPoint
  <2> QED
    BY <1>1, <2>1, RacesStay
<1>4. CASE PrepareSync(p) /\ Goto(p, "persist")
  <2>1. fs.target = src'[p]
    BY <1>4 DEF PrepareSync, AtPoint, Stay, memory, Goto, RegisterInv, IInv,
                TypeOK, ControlOK, Points
  <2> QED
    BY <1>2, <1>3, <1>4, <2>1, LooksKeep
<1>5. ASSUME \/ Begin(p) \/ Recover(p) \/ Rewrite(p)
             \/ PrepareSync(p) /\ ~Goto(p, "persist")
             \/ SyncRecord(p) \/ DropStageSync(p) \/ Resume(p) \/ Observe(p)
             \/ Settle(p) \/ Restore(p)
      PROVE  \E at : /\ Goto(p, at) /\ at # "persist"
                     /\ at = "recRename" => step'[p] # "pending"
  BY <1>1, <1>5
  DEF Begin, Recover, Rewrite, PrepareSync, SyncRecord, DropStageSync, Resume,
      Observe, Settle, Restore, Stop
<1>6. ASSUME \/ Installed(p) \/ Finish(p)
             \/ CheckRetired(p) \/ UnlinkSync(p) \/ Emptied(p)
             \/ RemoveHolderSync(p) \/ ClearSync(p) \/ IoError(p) \/ Crash(p)
      PROVE  \E at : /\ Goto(p, at) /\ at # "persist"
                     /\ at = "recRename" => step'[p] # "pending"
  BY <1>1, <1>6
  DEF Installed, Finish, CheckRetired, UnlinkSync, Emptied, RemoveHolderSync,
      ClearSync, IoError, Crash, Stop
<1>7. ASSUME ~(PrepareSync(p) /\ Goto(p, "persist"))
      PROVE  Tame' /\ RegisterStep
  <2>1. PICK at : /\ Goto(p, at) /\ at # "persist"
                  /\ at = "recRename" => step'[p] # "pending"
    BY <1>5, <1>6, <1>7
  <2> QED
    BY <1>2, <1>3, <2>1, LooksKeep
<1> QED
  BY <1>4, <1>7

\* The stage, the holder and the retired file come and go.  [prepare.rs; moves.rs
\* remove_retired; directory.rs clear_empty_directory]
LEMMA AsideSteps ==
  ASSUME RegisterInv, ~budget.races, NEW p \in Procs,
         \/ ReserveStage(p) \/ Prepare(p) \/ DropStage(p) \/ UnlinkRetired(p)
         \/ IsolateHolder(p) \/ RemoveHolder(p)
  PROVE  Tame' /\ RegisterStep
<1>1. /\ base' = base /\ budget' = budget /\ pc[p] # "idle"
  BY DEF ReserveStage, Prepare, DropStage, UnlinkRetired, IsolateHolder,
         RemoveHolder, AtPoint, history
<1>2. PICK at : Goto(p, at) /\ at \notin {"persist", "recRename"}
  BY DEF ReserveStage, Prepare, DropStage, UnlinkRetired, IsolateHolder,
         RemoveHolder, Stop
<1>3. PICK s : /\ fs' = s /\ (disk' = disk \cup {s} \/ disk' = {fs, s})
               /\ s.rec = fs.rec /\ s.target = fs.target
               /\ s.previous = fs.previous /\ s.protected = fs.protected
  <2>1. fs \in Tree /\ fs \in disk
    BY Types DEF RegisterInv
  <2> QED
    BY <2>1
    DEF ReserveStage, Prepare, DropStage, UnlinkRetired, IsolateHolder,
        RemoveHolder, Change, SyncThenChange, Look, Tree
<1>4. Placed(s) /\ Logical(s) = Logical(fs)
  BY <1>3, Calm, Aside
<1> QED
  BY <1>1, <1>2, <1>3, <1>4, Keeps DEF Goto

\* The names of the record that decide nothing, and those that change nothing:
\* "temp" and "discard" before it, "installing" and "completed" after it.
\* [record.rs persist, discard; owner.rs begin_install, complete]
LEMMA NamingSteps ==
  ASSUME RegisterInv, ~budget.races, NEW p \in Procs,
         \/ WriteRecord(p) \/ DiscardRecord(p) \/ UnlinkDiscarded(p)
         \/ RenameRecord(p) /\ step[p] # "pending"
  PROVE  Tame' /\ RegisterStep
<1>1. /\ base' = base /\ budget' = budget /\ pc[p] # "idle"
  BY DEF WriteRecord, DiscardRecord, UnlinkDiscarded, RenameRecord, AtPoint,
         history
<1>2. PICK r, s : /\ s = [fs EXCEPT !.rec = r] /\ fs' = s
                  /\ disk' = disk \cup {s} \/ disk' = {fs, s}
                  /\ WriteRecord(p) => r.at = "temp"
                  /\ DiscardRecord(p) => r.at = "discard"
                  /\ UnlinkDiscarded(p) => r.at = "none"
                  /\ RenameRecord(p) => r = [fs.rec EXCEPT !.at = step[p]]
  <2>1. fs \in Tree /\ fs.rec \in RecordState
    BY Types DEF RegisterInv
  <2>2. CASE WriteRecord(p)
    <3>1. PICK r : r = [at |-> "temp", prev |-> src[p], repl |-> new[p]]
      OBVIOUS
    <3> QED
      BY <2>2, <3>1 DEF WriteRecord, Change, DiscardRecord, UnlinkDiscarded,
         RenameRecord, AtPoint, Goto, RegisterInv, IInv, TypeOK, ControlOK
  <2>3. CASE DiscardRecord(p)
    <3>1. PICK r : r = [fs.rec EXCEPT !.at = "discard"]
      OBVIOUS
    <3> QED
      BY <2>1, <2>3, <3>1 DEF WriteRecord, Change, DiscardRecord,
         UnlinkDiscarded, RenameRecord, AtPoint, RecordState
  <2>4. CASE UnlinkDiscarded(p)
    <3>1. PICK r : r = NoRecord
      OBVIOUS
    <3>2. r.at = "none"
      BY <3>1 DEF NoRecord
    <3> QED
      BY <2>4, <3>1, <3>2 DEF WriteRecord, SyncThenChange, DiscardRecord,
         UnlinkDiscarded, RenameRecord, AtPoint
  <2>5. CASE RenameRecord(p) /\ step[p] # "pending"
    <3>1. PICK r : r = [fs.rec EXCEPT !.at = step[p]]
      OBVIOUS
    <3> QED
      BY <2>5, <3>1 DEF WriteRecord, Change, DiscardRecord, UnlinkDiscarded,
         RenameRecord, AtPoint, Goto, memory, Stay, RegisterInv, IInv, TypeOK, ControlOK
  <2> QED
    BY <2>2, <2>3, <2>4, <2>5
<1>3. /\ s.rec = r /\ s.target = fs.target /\ s.previous = fs.previous
      /\ s.protected = fs.protected /\ fs.rec \in RecordState
  BY <1>2, Types DEF RegisterInv, Tree
<1>4. Knows(p) /\ Kept(fs) /\ Placed(fs)
  BY Calm, Types DEF RegisterInv
<1>5. CASE WriteRecord(p) \/ DiscardRecord(p) \/ UnlinkDiscarded(p)
  <2>1. ~Anchored(fs) /\ r.at \notin Anchors
    BY <1>2, <1>4, <1>5
    DEF WriteRecord, DiscardRecord, UnlinkDiscarded, AtPoint, Knows, Anchored,
        Anchors
  <2>2. Placed(s) /\ Logical(s) = Logical(fs)
    BY <1>3, <2>1 DEF Placed, Logical, WillInstall, Anchored, Anchors
  <2>3. PICK at : /\ Goto(p, at)  /\ at # "persist"
                  /\ at = "recRename" => WriteRecord(p)
    BY <1>5 DEF WriteRecord, DiscardRecord, UnlinkDiscarded
  <2>4. WriteRecord(p) => fs.target = src[p] /\ src' = src
    BY Calm DEF Steady, Publishing, WriteRecord, AtPoint
  <2> QED
    BY <1>1, <1>2, <1>3, <2>2, <2>3, <2>4, Keeps DEF Goto
<1>6. CASE RenameRecord(p) /\ step[p] # "pending"
  <2>1. /\ pc[p] = "recRename" /\ Goto(p, "recSync")
        /\ step[p] \in Anchors \ {"pending"}
    BY <1>6
    DEF RenameRecord, AtPoint, RegisterInv, IInv, TypeOK, ControlOK,
        RecordPoints
  <2>2. /\ r.at = step[p] /\ r.prev = fs.rec.prev /\ r.repl = fs.rec.repl
    BY <1>2, <1>3, <1>6 DEF RecordState
  <2>3. Due(p, step[p])
    BY <1>4, <2>1 DEF Knows
  <2>4. Anchored(fs) /\ Anchored(s)
    BY <1>3, <2>1, <2>2, <2>3 DEF Due, Recorded, Anchored, Anchors
  <2>5. ASSUME step[p] = "installing" PROVE Placed(s)
    <3>1. fs.rec.at = "pending" /\ fs.previous = Missing
      BY <1>4, <2>3, <2>5 DEF Due, Recorded, Kept, KeptPending, EarlyMoves
    <3> QED
      BY <1>3, <1>4, <2>2, <2>5, <3>1 DEF Placed
  <2>6. ASSUME step[p] = "completed" PROVE Placed(s)
    <3>1. /\ fs.rec.at = "installing" /\ fs.stage = Missing
          /\ fs.protected = Missing /\ fs.rec.repl \in Entry
          /\ Missing \notin Entry
      BY <1>4, <2>3, <2>6, ConstantsAssumption DEF Due, Recorded, Kept, Written
    <3>2. fs.previous # Missing
      BY <1>4, <3>1 DEF Kept, KeptInstalling, EarlyMoves, LateMoves
    <3> QED
      BY <1>3, <1>4, <2>2, <2>6, <3>1, <3>2 DEF Placed
  <2>7. Placed(s)
    BY <2>1, <2>5, <2>6 DEF Anchors
  <2>8. Logical(s) = Logical(fs)
    BY <1>3, <1>4, <2>2, <2>4, <2>7, Decides
  <2> QED
    BY <1>1, <1>2, <2>1, <2>7, <2>8, Keeps DEF Goto
<1> QED
  BY <1>5, <1>6

\* Two sets of values, one step apart.
LEMMA Adds ==
  ASSUME ~budget.races, budget'.races = budget.races, NEW s,
         disk' = disk \cup {s}
  PROVE  Possible' = Possible \cup {Logical(s)}
BY DEF Possible

\* The one name that publishes: the update whose source still is the value
\* stores its version.  [record.rs persist, move_record]
LEMMA PublishStep ==
  ASSUME RegisterInv, ~budget.races, NEW p \in Procs, RenameRecord(p),
         step[p] = "pending"
  PROVE  Tame' /\ RegisterStep
<1> DEFINE s == [fs EXCEPT !.rec.at = step[p]]
           u == new[p]
<1>1. /\ pc[p] = "recRename" /\ fs' = s /\ disk' = disk \cup {s}
      /\ pc' = [pc EXCEPT ![p] = "recSync"] /\ base' = base
      /\ budget' = budget
  BY DEF RenameRecord, AtPoint, Change, Goto, history
<1>2. /\ s.rec.at = "pending" /\ s.rec.prev = fs.rec.prev
      /\ s.rec.repl = fs.rec.repl /\ s.target = fs.target
  BY Types DEF Tree, RecordState, RegisterInv
<1>3. /\ fs.rec.at = "temp" /\ fs.rec.prev = src[p] /\ fs.rec.repl = u
      /\ Written(src[p], u)
  <2>1. Knows(p) /\ Kept(fs)
    BY Types DEF RegisterInv
  <2>2. Due(p, "pending")
    BY <1>1, <2>1 DEF Knows
  <2> QED
    BY <2>1, <2>2 DEF Due, Recorded, Kept
<1>4. fs.target = src[p]
  BY <1>1, Calm DEF Steady, Publishing
<1> HIDE DEF s
<1>5. Placed(s) /\ Logical(s) = u
  BY <1>2, <1>3, <1>4
  DEF Placed, Logical, WillInstall, Anchored, Anchors
<1>6. Logical(fs) = src[p]
  BY <1>3, <1>4 DEF Logical, WillInstall, Anchored, Anchors
<1>7. u \in UpdateVersions
  <2>1. /\ u \in Entry /\ u.ver = 0 /\ base[u.file] # Missing
    BY <1>3, ConstantsAssumption DEF Written
  <2>2. u.file \in Files \ (Strays \cup {Orig}) /\ u = Fresh(u.file)
    BY <2>1, Calm DEF Numbered, Entry, Fresh
  <2> QED
    BY <2>2 DEF UpdateVersions
<1>8. /\ Loaded[u] = Value /\ Value' = u /\ Loaded' = Loaded
      /\ Possible' = Possible \cup {u}
  <2>1. Loaded[u] = Value
    BY <1>3, <1>6, <1>7, Calm DEF Written
  <2>2. Value' = u /\ Loaded' = Loaded
    BY <1>1, <1>5 DEF Value, Loaded
  <2> QED
    BY <1>1, <1>5, <2>1, <2>2, Adds
<1>9. RegisterStep
  BY <1>7, <1>8 DEF RegisterStep, Register!Next, Register!Store
<1>10. Steady'
  BY <1>1, StaysSteady
<1>11. \A t \in disk' : Placed(t)
  BY <1>1, <1>5, Calm
<1> QED
  BY <1>9, <1>10, <1>11 DEF Tame

\* record.rs clear: the replacement stands where the record says.
LEMMA ClearingStep ==
  ASSUME RegisterInv, ~budget.races, NEW p \in Procs, ClearRecord(p)
  PROVE  Tame' /\ RegisterStep
<1>1. PICK s : /\ s = [fs EXCEPT !.rec = NoRecord]
               /\ fs' = s /\ disk' = disk \cup {s}
  BY DEF ClearRecord, Change
<1>2. /\ pc[p] = "clearRec" /\ Goto(p, "clearSync") /\ base' = base
      /\ budget' = budget /\ fs.rec.at = "completed"
  BY DEF ClearRecord, AtPoint
<1>3. s.rec = NoRecord /\ s.target = fs.target
  BY <1>1, Types DEF RegisterInv, Tree
<1>4. fs.target = fs.rec.repl
  BY <1>2, Calm DEF Placed
<1>5. Placed(s) /\ Logical(s) = Logical(fs)
  BY <1>2, <1>3, <1>4
  DEF Placed, Logical, WillInstall, Anchored, Anchors, NoRecord
<1> QED
  BY <1>1, <1>2, <1>5, Keeps DEF Goto

\* moves.rs checked_move: each rename goes from one position of a record to the
\* next, and back only where another program came in between.
LEMMA RenamingSteps ==
  ASSUME RegisterInv, ~budget.races, NEW p \in Procs,
         Rename(p) \/ RestoreRename(p)
  PROVE  Tame' /\ RegisterStep
<1>1. PICK m \in Moves : m = step[p]
  BY DEF Rename, RestoreRename, AtPoint, RegisterInv, IInv, TypeOK, ControlOK,
         MovePoints
<1>2. /\ base' = base /\ budget' = budget /\ pc[p] # "idle"
      /\ \E at \in {"observe", "idle"} : Goto(p, at)
  BY DEF Rename, RestoreRename, AtPoint, history, Stop
<1>3. CASE Look
  BY <1>2, <1>3, LooksKeep
<1>4. ASSUME NEW s, Placed(s), s.rec = fs.rec, Change(s), Anchored(fs)
      PROVE  Tame' /\ RegisterStep
  <2>1. Logical(s) = Logical(fs)
    BY <1>4, Calm, Decides DEF Anchored
  <2>2. fs' = s /\ disk' = disk \cup {s}
    BY <1>4 DEF Change
  <2> QED
    BY <1>2, <1>4, <2>1, <2>2, Keeps DEF Goto
<1>5. Placed(fs) /\ IInv /\ Knows(p)
  BY Calm, Types
<1>6. ASSUME Rename(p), CanRename(fs, m),
             Change(WithEnds(fs, m, Missing, From(fs, m)))
      PROVE  Tame' /\ RegisterStep
  <2>1. Before(p, m)
    BY <1>1, <1>5, <1>6 DEF Rename, AtPoint, Knows
  <2>2. /\ fs.rec.prev = src[p] /\ fs.rec.repl = new[p]
        /\ src[p] # Missing /\ new[p] # Missing
        /\ fs.rec.at = IF m = "retire" THEN "completed" ELSE "installing"
        /\ m # "retire" => KeptInstalling(fs)
    BY <1>5, <2>1, Positions
  <2>3. PICK s : s = WithEnds(fs, m, Missing, From(fs, m))
    OBVIOUS
  <2>4. s.rec = fs.rec
    BY <1>5, <2>3, Ends
  <2>5. ASSUME m = "protect" PROVE Placed(s)
    <3>1. /\ s.protected = fs.stage /\ s.target = fs.target
          /\ s.previous = fs.previous /\ fs.stage = new[p]
      BY <1>5, <2>1, <2>3, <2>5, Ends DEF Before
    <3>2. fs.previous = Missing
      BY <2>2, <2>5, <3>1 DEF KeptInstalling, EarlyMoves, LateMoves
    <3> QED
      BY <1>5, <2>2, <2>4, <2>5, <3>1, <3>2 DEF Placed
  <2>6. ASSUME m = "preserve" PROVE Placed(s)
    <3>1. /\ s.target = Missing /\ s.previous = fs.target
          /\ s.protected = fs.protected /\ fs.protected = new[p]
          /\ fs.previous = Missing
      BY <1>5, <2>1, <2>3, <2>6, Ends DEF Before
    <3>2. fs.target = src[p]
      BY <1>5, <2>2, <2>6, <3>1 DEF Placed
    <3> QED
      BY <2>2, <2>4, <2>6, <3>1, <3>2 DEF Placed
  <2>7. ASSUME m = "install" PROVE Placed(s)
    <3>1. /\ s.target = new[p] /\ s.previous = src[p]
          /\ s.protected = Missing
      BY <1>5, <2>1, <2>3, <2>7, Ends DEF Before
    <3> QED
      BY <2>2, <2>4, <2>7, <3>1 DEF Placed
  <2>8. ASSUME m = "retire" PROVE Placed(s)
    <3>1. s.target = fs.target
      BY <1>5, <2>3, <2>8, Ends
    <3> QED
      BY <1>5, <2>2, <2>4, <2>8, <3>1 DEF Placed
  <2>9. Placed(s) /\ Anchored(fs)
    BY <2>2, <2>5, <2>6, <2>7, <2>8 DEF Moves, Anchored, Anchors
  <2> QED
    BY <1>4, <1>6, <2>3, <2>4, <2>9
<1>7. ASSUME RestoreRename(p), To(fs, m) # Missing, From(fs, m) = Missing,
             Change(WithEnds(fs, m, To(fs, m), Missing))
      PROVE  Tame' /\ RegisterStep
  <2>1. After(p, m) /\ m \in {"preserve", "install"}
    BY <1>1, <1>5, <1>7 DEF RestoreRename, AtPoint, Knows
  <2>2. /\ fs.rec.prev = src[p] /\ fs.rec.repl = new[p]
        /\ src[p] # Missing /\ new[p] # Missing
        /\ fs.rec.at = "installing"
    BY <1>5, <2>1, Positions
  <2>3. PICK s : s = WithEnds(fs, m, To(fs, m), Missing)
    OBVIOUS
  <2>4. s.rec = fs.rec
    BY <1>5, <2>3, Ends
  <2>5. ASSUME m = "preserve" PROVE Placed(s)
    <3>1. /\ s.target = fs.previous /\ s.previous = Missing
          /\ fs.previous # Missing /\ fs.protected = new[p]
      BY <1>5, <1>7, <2>1, <2>3, <2>5, Ends DEF After
    <3>2. fs.previous = src[p]
      BY <1>5, <2>2, <3>1 DEF Placed
    <3> QED
      BY <2>2, <2>4, <3>1, <3>2 DEF Placed
  <2>6. ASSUME m = "install" PROVE Placed(s)
    <3>1. /\ s.protected = fs.target /\ s.target = Missing
          /\ s.previous = fs.previous /\ fs.previous = src[p]
          /\ fs.target # Missing /\ fs.protected = Missing
      BY <1>5, <1>7, <2>1, <2>3, <2>6, Ends DEF After
    <3>2. fs.target = new[p]
      BY <1>5, <2>2, <3>1 DEF Placed
    <3> QED
      BY <2>2, <2>4, <3>1, <3>2 DEF Placed
  <2>7. Placed(s) /\ Anchored(fs)
    BY <2>1, <2>2, <2>5, <2>6 DEF Anchored, Anchors
  <2> QED
    BY <1>4, <1>7, <2>3, <2>4, <2>7
<1> QED
  BY <1>1, <1>3, <1>6, <1>7 DEF Rename, RestoreRename

\* commit.rs Source::bind: the update loads the value it will rewrite.
LEMMA BindingStep ==
  ASSUME RegisterInv, ~budget.races, NEW p \in Procs, Bind(p)
  PROVE  Tame' /\ RegisterStep
<1>1. pc[p] = "clear" /\ UNCHANGED <<fs, disk, budget>>
  BY DEF Bind, AtPoint, Look
<1>2. CASE Stop(p) /\ UNCHANGED history
  BY <1>1, <1>2, LooksKeep DEF Look, Stop, history
<1>3. ASSUME IsClear(fs), NEW f \in (Files \ Strays) \ used,
             base' = [base EXCEPT ![f] = fs.target], Goto(p, "reserve")
      PROVE  Tame' /\ RegisterStep
  <2>1. Steady'
    BY <1>1, <1>3, StaysSteady DEF Goto
  <2>2. Tame'
    BY <1>1, <2>1, Calm DEF Tame
  <2>3. Value = fs.target
    BY <1>3, Calm DEF Logical, WillInstall, IsClear, Anchored, Anchors
  <2>4. /\ base \in [Files -> Slot] /\ base[f] = Missing
        /\ Fresh(f) \in UpdateVersions
    BY <1>3, Calm
    DEF Numbered, UpdateVersions, IInv, TypeOK, HistoryOK, LedgerOK
  <2>5. UNCHANGED <<Value, Possible>>
    BY <1>1 DEF Value, Possible
  <2>6. \A u \in UpdateVersions : u.file \in Files /\ u = Fresh(u.file)
    BY DEF UpdateVersions, Fresh
  <2>7. Loaded = [u \in UpdateVersions |-> base[u.file]]
    BY Calm DEF Loaded
  <2>8. Loaded' = [u \in UpdateVersions |-> base'[u.file]]
    BY <1>1 DEF Loaded
  <2>9. Loaded' = [Loaded EXCEPT ![Fresh(f)] = Value]
    <3>1. \A u \in UpdateVersions :
            base'[u.file] = IF u = Fresh(f) THEN Value ELSE base[u.file]
      BY <1>3, <2>3, <2>4, <2>6 DEF Fresh
    <3> QED
      BY <2>4, <2>7, <2>8, <3>1
  <2>10. Loaded[Fresh(f)] = Missing
    BY <2>4, <2>7 DEF Fresh
  <2> QED
    BY <2>2, <2>4, <2>5, <2>9, <2>10
    DEF RegisterStep, Register!Next, Register!Load
<1> QED
  BY <1>2, <1>3 DEF Bind

\* The machine loses power: the register comes back with one of the values it
\* may have.  [scope.rs open, owner.rs recover]
LEMMA LosingStep ==
  ASSUME RegisterInv, ~budget.races, PowerLoss
  PROVE  Tame' /\ RegisterStep
<1>1. PICK s \in disk : fs' = s /\ disk' = {s}
  BY DEF PowerLoss
<1>2. /\ base' = base /\ budget'.races = budget.races
      /\ \A p \in Procs : pc'[p] = "idle"
  BY RacesStay DEF PowerLoss, history, RegisterInv, IInv, TypeOK
<1>3. Tame'
  BY <1>1, <1>2, Calm DEF Tame, Steady, Publishing
<1>4. Value' = Logical(s) /\ Possible' = {Value'} /\ Loaded' = Loaded
  BY <1>1, <1>2 DEF Value, Possible, Loaded
<1>5. Value' \in Possible
  BY <1>1, <1>4, Calm
<1> QED
  BY <1>3, <1>4, <1>5 DEF RegisterStep, Register!Next, Register!PowerLoss

\* Another program puts something of its own in the place of the value, which
\* no update has written.  [commit.rs Source::verify; prepare.rs prepare]
LEMMA OverwritingStep ==
  ASSUME RegisterInv, ~budget.races, Foreign
  PROVE  Tame' /\ RegisterStep
<1>1. /\ UNCHANGED <<pc, memory, base>> /\ ~Anchored(fs)
      /\ \A p \in Procs : pc[p] \in Early
      /\ budget'.races = budget.races
  BY RacesStay
  DEF Foreign, ForeignReplace, ForeignEdit, ForeignRemove, ForeignMayAct,
      RegisterInv, IInv, TypeOK
<1>2. PICK x, s :
        /\ x \in Slot \ UpdateVersions
        /\ s = [fs EXCEPT !.target = x] /\ fs' = s /\ disk' = disk \cup {s}
  <2>1. fs \in Tree
    BY Types DEF RegisterInv
  <2>2. CASE ForeignReplace
    <3>1. PICK f \in Strays : Change([fs EXCEPT !.target = Fresh(f)])
      BY <2>2 DEF ForeignReplace
    <3>2. Fresh(f) \in Slot \ UpdateVersions
      BY ConstantsAssumption DEF Slot, Entry, UpdateVersions, Fresh
    <3> QED
      BY <3>1, <3>2 DEF Change
  <2>3. CASE ForeignEdit
    <3>1. fs.target \in Entry
      BY <2>1, <2>3 DEF ForeignEdit, Tree, Slot
    <3>2. PICK x : x = [fs.target EXCEPT !.ver = @ + 1]
      OBVIOUS
    <3>3. x \in Slot \ UpdateVersions
      <4>1. x \in Entry /\ x.ver # 0
        BY <3>1, <3>2 DEF Entry
      <4>2. \A u \in UpdateVersions : u.ver = 0
        BY DEF UpdateVersions, Fresh
      <4> QED
        BY <4>1, <4>2 DEF Slot
    <3>4. fs' = [fs EXCEPT !.target = x] /\ disk' = disk \cup {fs'}
      BY <2>1, <2>3, <3>1, <3>2 DEF ForeignEdit, Change, Tree, Entry
    <3> QED
      BY <3>3, <3>4
  <2>4. CASE ForeignRemove
    <3>1. Missing \in Slot \ UpdateVersions
      BY ConstantsAssumption DEF Slot, Entry, UpdateVersions, Fresh
    <3> QED
      BY <2>4, <3>1 DEF ForeignRemove, Change
  <2> QED
    BY <2>2, <2>3, <2>4 DEF Foreign
<1>3. ~Anchored(s) /\ s.target = x
  BY <1>1, <1>2, Types DEF RegisterInv, Tree, Anchored
<1>4. Placed(s) /\ Logical(s) = x
  BY <1>3 DEF Placed, Logical, WillInstall, Anchored, Anchors
<1>5. Steady'
  BY <1>1 DEF Steady, Publishing, Early
<1>6. Tame'
  BY <1>1, <1>2, <1>4, <1>5, Calm DEF Tame
<1>7. Value' = x /\ Loaded' = Loaded
  BY <1>1, <1>2, <1>4 DEF Value, Loaded
<1>8. Possible' = Possible \cup {x}
  BY <1>1, <1>2, <1>4, Adds
<1> QED
  BY <1>2, <1>6, <1>7, <1>8 DEF RegisterStep, Register!Next, Register!Overwrite

\* Only an update is given a number that is nobody's yet.
LEMMA NumberedStep ==
  ASSUME RegisterInv, [Next]_vars
  PROVE  Numbered'
<1>1. /\ base \in [Files -> Slot] /\ Numbered
  BY DEF RegisterInv, IInv, TypeOK, HistoryOK
<1>2. CASE base' = base /\ used \subseteq used'
  BY <1>1, <1>2 DEF Numbered
<1>3. ASSUME NEW p \in Procs, Bind(p)
      PROVE  Numbered'
  BY <1>1, <1>2, <1>3 DEF Bind, history, Numbered
<1>4. ASSUME NEW p \in Procs,
             Begin(p) \/ Recover(p) \/ Writing(p) \/ Recording(p)
               \/ Discarding(p)
      PROVE  base' = base /\ used \subseteq used'
  BY <1>4
  DEF Begin, Recover, Writing, ReserveStage, Rewrite,
      Prepare, PrepareSync, WriteRecord, Recording, RenameRecord,
      SyncRecord, Discarding, DiscardRecord, UnlinkDiscarded, DropStage,
      DropStageSync, history
<1>5. ASSUME NEW p \in Procs,
             Moving(p) \/ Finishing(p) \/ Clearing(p) \/ IoError(p) \/ Crash(p)
      PROVE  base' = base /\ used \subseteq used'
  BY <1>5
  DEF Moving, Resume, Rename, Observe, Settle, Restore, RestoreRename,
      Installed, Finishing, Finish, CheckRetired, UnlinkRetired,
      UnlinkSync, Emptied, ClearRecord, ClearSync, Clearing,
      IsolateHolder, RemoveHolder, RemoveHolderSync, IoError, Crash, history
<1>6. ASSUME PowerLoss \/ Foreign \/ UNCHANGED vars
      PROVE  base' = base /\ used \subseteq used'
  BY <1>6
  DEF PowerLoss, Foreign, ForeignReplace, ForeignEdit, ForeignRemove,
      ForeignMayAct, vars, history
<1> QED
  BY <1>2, <1>3, <1>4, <1>5, <1>6 DEF Next, Opening

\* The archive as it is found is the register as it is found.
LEMMA RegisterStart == Init => RegisterInv /\ Register!Init
<1> SUFFICES ASSUME Init PROVE RegisterInv /\ Register!Init
  OBVIOUS
<1>1. /\ fs.rec.at = "none" /\ fs.target = Fresh(Orig) /\ disk = {fs}
      /\ \A p \in Procs : pc[p] = "idle"
      /\ used = {Orig} /\ base = [f \in Files |-> Missing]
  BY DEF Init, NoRecord
<1>2. Tame /\ Numbered
  BY <1>1 DEF Tame, Steady, Publishing, Placed, Numbered
<1>3. Logical(fs) = Fresh(Orig)
  BY <1>1 DEF Logical, WillInstall, Anchored, Anchors
<1>4. Value = Fresh(Orig) /\ Possible = {Fresh(Orig)}
  BY <1>1, <1>3 DEF Value, Possible
<1>5. \A u \in UpdateVersions : u.file \in Files
  BY DEF UpdateVersions, Fresh
<1>6. Loaded = [u \in UpdateVersions |-> Missing]
  BY <1>1, <1>5 DEF Loaded
<1>7. Fresh(Orig) \in Slot \ UpdateVersions
  BY ConstantsAssumption DEF Fresh, UpdateVersions, Slot, Entry
<1> QED
  BY <1>2, <1>4, <1>6, <1>7, Start DEF RegisterInv, Register!Init

\* Every step is one of the register's, or none of its business.
LEMMA RegisterNext == RegisterInv /\ [Next]_vars => RegisterInv' /\ RegisterStep
<1> SUFFICES ASSUME RegisterInv, [Next]_vars
             PROVE  RegisterInv' /\ RegisterStep
  OBVIOUS
<1>1. IInv' /\ Numbered'
  BY Inductive, NumberedStep DEF RegisterInv
<1>2. Tame' /\ RegisterStep
  <2>1. CASE budget.races
    BY <2>1, AtRest
  <2>2. CASE ~budget.races
    <3>1. ASSUME NEW p \in Procs,
                 Opening(p) \/ Writing(p) \/ Recording(p) \/ Discarding(p)
          PROVE  Tame' /\ RegisterStep
      BY <2>2, <3>1, LookingSteps, AsideSteps, NamingSteps, PublishStep,
         BindingStep
      DEF Opening, Writing, Recording, Discarding
    <3>2. ASSUME NEW p \in Procs, Moving(p) \/ Finishing(p) \/ Clearing(p)
          PROVE  Tame' /\ RegisterStep
      BY <2>2, <3>2, LookingSteps, AsideSteps, ClearingStep, RenamingSteps
      DEF Moving, Finishing, Clearing
    <3>3. ASSUME NEW p \in Procs, IoError(p) \/ Crash(p)
          PROVE  Tame' /\ RegisterStep
      BY <2>2, <3>3, LookingSteps
    <3>4. CASE UNCHANGED vars
      <4>1. UNCHANGED <<Value, Possible, Loaded>>
        BY <3>4 DEF vars, history, Value, Possible, Loaded
      <4>2. Tame'
        BY <3>4 DEF vars, memory, Tame, Steady, Publishing, RegisterInv
      <4> QED
        BY <4>1, <4>2 DEF RegisterStep, Register!vars
    <3> QED
      BY <2>2, <3>1, <3>2, <3>3, <3>4, LosingStep, OverwritingStep DEF Next
  <2> QED
    BY <2>1, <2>2
<1> QED
  BY <1>1, <1>2 DEF RegisterInv

\* Replacing an archive is atomic: the record, the holder and the renames
\* implement one register, written by load-linked / store-conditional on a
\* write-back cache.  Crashes, failing calls and losses of power at any point
\* show a reader who recovers first the version before or the version after,
\* and an update is stored only over the version it was made from.
\* [scope.rs archive; owner.rs recover; commit.rs run]
THEOREM ReplacesAtomically == Spec => ImplementsRegister
<1>1. RegisterInv /\ [Next]_vars => RegisterInv' /\ [Register!Next]_(Register!vars)
  BY RegisterNext DEF RegisterStep
<1> QED
  BY <1>1, RegisterStart, PTL DEF Spec, ImplementsRegister, Register!Spec
=============================================================================
