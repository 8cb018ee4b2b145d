------------------------------ MODULE JobFeed ------------------------------
(***************************************************************************)
(* The task list of a window and the snapshots that feed it.               *)
(*                                                                         *)
(* The backend keeps one versioned record per job under the snapshot lock  *)
(* (jobs/snapshots.rs).  The main window holds a copy (jobs.svelte.ts) and *)
(* brings it up to date three ways: it polls revision deltas, it receives  *)
(* an event for each change of a job of its own, and replies to some       *)
(* commands carry a snapshot.  The backend runs commands one at a time, in *)
(* the order sent; events are sent after the lock is released, so they may *)
(* be late, swapped or lost, and replies may overtake each other unless    *)
(* InOrder.                                                                *)
(***************************************************************************)
EXTENDS Integers, FiniteSets, Sequences, FiniteSetsExt, SequencesExt, Functions

CONSTANTS
  Jobs,           \* job ids, in the order they may be handed out
  Mine,           \* the jobs this window submits; the rest belong to another
  InOrder,        \* replies reach the window in the order they were given
  MaxTerminal,    \* MAX_TERMINAL_SNAPSHOTS
  MaxChanges,     \* MAX_SNAPSHOT_CHANGES
  MaxEvents,      \* bound: events on their way at once (the rest are lost)
  MaxCalls,       \* bound: commands awaited at once
  MaxClears,      \* bound: clearings of the finished rows
  MaxExtras,      \* bound: updates, moves and answered questions, together
  MaxUpdates      \* bound: of those, the updates: changes of jobs that go on,
                  \* and clearings in the other window

ASSUME FeedAssumption ==
  /\ Jobs \subseteq Nat
  /\ IsFiniteSet(Jobs)
  /\ Mine \subseteq Jobs
  /\ InOrder \in BOOLEAN
  /\ {MaxTerminal, MaxChanges} \subseteq Nat \ {0}
  /\ {MaxEvents, MaxCalls, MaxClears, MaxExtras, MaxUpdates}
       \subseteq Nat

VARIABLES
  store,              \* JobSnapshotStore
  unused,             \* job ids not handed out yet
  tasks,              \* store.tasks of the window, by id
  snapshotRevision,   \* the revision the window asks from; Unknown is null
  snapshotGeneration,
  locallyDismissed,
  calls,              \* commands the window awaits, in the order sent
  events,             \* job://snapshot events on their way
  ran,                \* history: completion effects run for each job
  refused,            \* history: a clearing was refused
  budget              \* what is left of MaxClears, MaxExtras, MaxUpdates

vars == <<store, unused, tasks, snapshotRevision, snapshotGeneration,
          locallyDismissed, calls, events, ran, refused, budget>>

client == <<tasks, snapshotRevision, snapshotGeneration, locallyDismissed,
            ran>>

Unknown == -1

\* A paused job is a running one here, a failed or cancelled one is done: the
\* feed tells only waiting, active and terminal states apart.
Terminal(state) == state = "done"
States == {"queued", "running", "done"}
Windows == {"main", "other"}

Without(f, S) == Restrict(f, DOMAIN f \ S)

(***************************************************************************)
(* The store.                                                              *)
(***************************************************************************)
EmptyStore == [revision |-> 0, jobs |-> <<>>, ended |-> <<>>, removals |-> {}]

Owner(j) == IF j \in Mine THEN "main" ELSE "other"

Known == DOMAIN store.jobs
InState(s) == {j \in Known : store.jobs[j].state = s}
Active == {j \in Known : ~Terminal(store.jobs[j].state)}
Visible == {j \in Known : "main" \notin store.jobs[j].dismissed_by}

\* The changes of a set of jobs take a revision each, in the order of their ids.
Rank(S, j) == Cardinality({k \in S : k <= j})

Stamped(s, S) ==
  [s EXCEPT
     !.revision = @ + Cardinality(S),
     !.jobs = [j \in DOMAIN s.jobs |->
                 IF j \in S
                   THEN [s.jobs[j] EXCEPT !.version = s.revision + Rank(S, j)]
                   ELSE s.jobs[j]]]

\* Only the newest removals are remembered.
Newest(removals) ==
  {r \in removals :
     Cardinality({q \in removals : q.version > r.version}) < MaxChanges}

\* Removals are announced to the windows of the audience, once.
Removed(s, S, audience) ==
  [s EXCEPT
     !.revision = @ + Cardinality(S),
     !.removals = Newest(@ \cup {[id       |-> j,
                                  version  |-> s.revision + Rank(S, j),
                                  audience |-> audience] : j \in S})]

\* Only the newest terminal records are kept.
Pruned(s) ==
  IF Len(s.ended) <= MaxTerminal THEN s
  ELSE LET j == Head(s.ended)
       IN  Removed([s EXCEPT !.ended = Tail(@), !.jobs = Without(@, {j})],
                   {j}, {"main", Owner(j)})

\* Mutant: terminal records are kept for ever.
Ended_Unpruned(s, j) == [s EXCEPT !.ended = Append(@, j)]

Ended(s, j) == Pruned([s EXCEPT !.ended = Append(@, j)])

Inserted(s, j, state) ==
  LET v   == s.revision + 1
      new == [version |-> v, created |-> v, state |-> state, dismissed_by |-> {}]
      all == [k \in DOMAIN s.jobs \cup {j} |->
                IF k = j THEN new ELSE s.jobs[k]]
      t   == [s EXCEPT !.revision = v, !.jobs = all]
  IN  IF Terminal(state) THEN Ended(t, j) ELSE t

\* A job that leaves the queue moves those behind it up: S is the set whose
\* position changes.
WithState(s, j, state, S) ==
  LET t == Stamped(Stamped([s EXCEPT !.jobs[j].state = state], {j}), S)
  IN  IF Terminal(state) THEN Ended(t, j) ELSE t

Dismissed(s, window, ids) ==
  LET S == {j \in ids : window \notin s.jobs[j].dismissed_by}
      jobs == [j \in DOMAIN s.jobs |->
                 IF j \in S
                   THEN [s.jobs[j] EXCEPT !.dismissed_by = @ \cup {window}]
                   ELSE s.jobs[j]]
  IN  Removed([s EXCEPT !.jobs = jobs], S, {window})

Snapshot(j, spec) ==
  [id |-> j, version |-> store.jobs[j].version, state |-> store.jobs[j].state,
   spec |-> spec]

\* The oldest change the history still tells.
Oldest == IF store.revision > MaxChanges THEN store.revision - MaxChanges + 1 ELSE 1

\* Mutant: a job registered since the caller's revision comes without its
\* description.
Delta_SpecOnResetOnly(since) ==
  LET reset == since = Unknown \/ since < Oldest - 1
  IN  [revision |-> store.revision,
       reset    |-> reset,
       upserts  |-> {Snapshot(j, reset) : j \in {k \in Visible :
                                reset \/ store.jobs[k].version > since}},
       removed  |-> IF reset THEN {}
                    ELSE {r.id : r \in {q \in store.removals :
                                          q.version > since /\ "main" \in q.audience}}]

\* What the main window is told has changed since a revision, or everything.
Delta(since) ==
  LET reset == \/ since = Unknown
               \/ since > store.revision
               \/ since < Oldest - 1
  IN  [revision |-> store.revision,
       reset    |-> reset,
       upserts  |-> {Snapshot(j, reset \/ store.jobs[j].created > since) :
                       j \in {k \in Visible :
                                reset \/ store.jobs[k].version > since}},
       removed  |-> IF reset THEN {}
                    ELSE {r.id : r \in {q \in store.removals :
                                          q.version > since /\ "main" \in q.audience}}]

(***************************************************************************)
(* The window's list.  A view is the list with the effects it has run.     *)
(***************************************************************************)
Init ==
  /\ store = EmptyStore
  /\ unused = Jobs
  /\ tasks = <<>>
  /\ snapshotRevision = Unknown
  /\ snapshotGeneration = 0
  /\ locallyDismissed = {}
  /\ calls = <<>>
  /\ events = {}
  /\ ran = [j \in Jobs |-> 0]
  /\ refused = FALSE
  /\ budget = [clear |-> MaxClears, extra |-> MaxExtras,
               update |-> MaxUpdates]

View == [tasks |-> tasks, ran |-> ran]

shouldApplyFullSnapshot(task, s) ==
  /\ s.version >= task.version
  /\ Terminal(task.state) => Terminal(s.state)

decodable(view, s) ==
  IF s.id \in DOMAIN view.tasks
    THEN shouldApplyFullSnapshot(view.tasks[s.id], s)
    ELSE s.spec

\* The row a snapshot makes, of the one that is there or a new one.
Row(view, s) ==
  IF s.id \in DOMAIN view.tasks
    THEN [view.tasks[s.id] EXCEPT !.version = s.version, !.state = s.state]
    ELSE [version |-> s.version, state |-> s.state, localEffects |-> FALSE]

runTerminalEffects(view, s) ==
  /\ s.id \in DOMAIN view.tasks
  /\ view.tasks[s.id].localEffects
  /\ ~Terminal(view.tasks[s.id].state)
  /\ Terminal(s.state)

\* Snapshots of different jobs are applied to a list: those that are not newer
\* than their row or have nothing to make one from are left out.
applySnapshots(view, snapshots) ==
  LET told  == {s \in snapshots : decodable(view, s)}
      ids   == {s.id : s \in told}
      of(j) == CHOOSE s \in told : s.id = j
  IN  [tasks |-> [j \in DOMAIN view.tasks \cup ids |->
                    IF j \in ids THEN Row(view, of(j)) ELSE view.tasks[j]],
       ran   |-> [j \in Jobs |->
                    IF j \in ids /\ runTerminalEffects(view, of(j))
                      THEN view.ran[j] + 1 ELSE view.ran[j]]]

\* What a reset keeps: rows newer than the reply, and those it names.
Survives(d, dismissed, j) ==
  /\ j \notin d.removed
  /\ d.reset /\ tasks[j].version <= d.revision
       => j \in {s.id : s \in d.upserts} \ dismissed

StillDismissed(d) ==
  LET left == locallyDismissed \ d.removed
  IN  IF d.reset THEN left \cap {s.id : s \in d.upserts} ELSE left

\* Rows are decoded against the list as it was, then the list is filtered,
\* then the decoded rows are applied.
Reconciled(d) ==
  LET dismissed == StillDismissed(d)
      decoded   == {s \in d.upserts : decodable(View, s) /\ s.id \notin dismissed}
      kept      == {j \in DOMAIN tasks : Survives(d, dismissed, j)}
  IN  applySnapshots([tasks |-> Restrict(tasks, kept), ran |-> ran], decoded)

\* Mutant: the revision asked from does not move.
applySnapshotDelta_KeepsRevision(d) ==
  /\ tasks' = Reconciled(d).tasks
  /\ ran' = Reconciled(d).ran
  /\ locallyDismissed' = StillDismissed(d)
  /\ UNCHANGED <<snapshotRevision, snapshotGeneration>>

applySnapshotDelta(d) ==
  IF snapshotRevision # Unknown /\ d.revision < snapshotRevision
    THEN UNCHANGED client
    ELSE /\ tasks' = Reconciled(d).tasks
         /\ ran' = Reconciled(d).ran
         /\ snapshotRevision' = d.revision
         /\ locallyDismissed' = StillDismissed(d)
         /\ UNCHANGED snapshotGeneration

(***************************************************************************)
(* The backend: registrations and changes of the jobs.                     *)
(***************************************************************************)

\* A command runs once those sent before it have been answered.
Turn(i, kind) ==
  /\ calls[i].kind = kind
  /\ ~calls[i].answered
  /\ \A k \in 1..(i - 1) : calls[k].answered

\* The event of a job of this window leaves when the lock is released; it can
\* be lost, and no list depends on it.
Emit(j) ==
  LET s == [id |-> j, version |-> store'.jobs[j].version,
            state |-> store'.jobs[j].state, spec |-> FALSE]
  IN  events' \in {events} \cup
        (IF j \in Mine /\ j \in DOMAIN store'.jobs /\ Cardinality(events) < MaxEvents
           THEN {events \cup {s}} ELSE {})

Change(next) ==
  /\ store' = next
  /\ UNCHANGED <<client, refused>>

Spend(what) ==
  /\ \A b \in what : budget[b] > 0
  /\ budget' = [b \in DOMAIN budget |->
                   IF b \in what THEN budget[b] - 1 ELSE budget[b]]

\* submit_job registers the record first and answers later; a window that has
\* been released gets its job cancelled at once, without an event.  Ids are
\* handed out in order.
Register(j, state) ==
  /\ j \in unused
  /\ IF j \in Mine
       THEN \E i \in DOMAIN calls : Turn(i, "submit") /\ calls[i].ids = {j}
       ELSE j = Min(unused \ Mine)
  /\ Change(Inserted(store, j, state))
  /\ unused' = unused \ {j}
  /\ IF Terminal(state) THEN UNCHANGED events ELSE Emit(j)
  /\ UNCHANGED <<calls, budget>>

SetState(j, state, S) ==
  /\ j \in Active
  /\ state # store.jobs[j].state
  /\ S \subseteq InState("queued") \ {j}
  /\ store.jobs[j].state # "queued" => S = {}
  /\ IF Terminal(state) THEN UNCHANGED budget ELSE Spend({"extra", "update"})
  /\ Change(WithState(store, j, state, S))
  /\ Emit(j)
  /\ UNCHANGED <<unused, calls>>

\* set_progress and ask: the record changes and its window is told.  After
\* clear_question the window is not told, as if the event had been lost.
SetProgress(j) ==
  /\ j \in Active
  /\ Spend({"extra", "update"})
  /\ Change(Stamped(store, {j}))
  /\ Emit(j)
  /\ UNCHANGED <<unused, calls>>

\* Positions or waiting reasons of S change: only the next delta tells.
SyncQueueStatuses(S) ==
  /\ S # {}
  /\ S \subseteq InState("queued")
  /\ Spend({"extra", "update"})
  /\ Change(Stamped(store, S))
  /\ UNCHANGED <<unused, calls, events>>

\* The other window clears rows of its own; here they stay.
OtherDismiss(ids) ==
  /\ ids # {}
  /\ ids \subseteq InState("done") \ Mine
  /\ Spend({"extra", "update"})
  /\ Change(Dismissed(store, "other", ids))
  /\ UNCHANGED <<unused, calls, events>>

(***************************************************************************)
(* The backend: replies to the window's commands.                          *)
(***************************************************************************)
Reply(i, reply) ==
  /\ calls' = [calls EXCEPT ![i].answered = TRUE, ![i].reply = reply,
                            ![i].since = Unknown]
  /\ UNCHANGED <<unused, client, events, budget>>

Looked(j) == {Snapshot(k, TRUE) : k \in Visible \cap {j}}

AnswerSubmit(i) ==
  /\ Turn(i, "submit")
  /\ \E j \in calls[i].ids \ unused : Reply(i, Looked(j))
  /\ UNCHANGED <<store, refused>>

AnswerSnapshots(i) ==
  /\ Turn(i, "poll") \/ Turn(i, "delta")
  /\ Reply(i, Delta(calls[i].since))
  /\ UNCHANGED <<store, refused>>

AnswerSnapshot(i) ==
  /\ Turn(i, "refresh")
  /\ \E j \in calls[i].ids : Reply(i, Looked(j))
  /\ UNCHANGED <<store, refused>>

\* The queue has moved the job, or refuses: either way the window goes on.
AnswerMove(i) ==
  /\ Turn(i, "move")
  /\ \E moved \in {calls[i].ids \subseteq InState("queued"), FALSE} : Reply(i, moved)
  /\ UNCHANGED <<store, refused>>

\* All of the rows are dismissed, or none.
AnswerDismiss(i) ==
  /\ Turn(i, "dismiss")
  /\ IF calls[i].ids \subseteq InState("done")
       THEN /\ store' = Dismissed(store, "main", calls[i].ids)
            /\ Reply(i, TRUE)
            /\ UNCHANGED refused
       ELSE /\ Reply(i, FALSE)
            /\ refused' = TRUE
            /\ UNCHANGED store

(***************************************************************************)
(* The window: commands it sends.                                          *)
(***************************************************************************)
Call(kind, ids) ==
  [kind       |-> kind,
   ids        |-> ids,
   since      |-> IF kind \in {"poll", "delta"} THEN snapshotRevision ELSE Unknown,
   generation |-> IF kind = "poll" THEN snapshotGeneration ELSE 0,
   rollback   |-> IF kind = "dismiss" THEN Restrict(tasks, DOMAIN tasks \cap ids)
                                      ELSE <<>>,
   answered   |-> FALSE,
   reply      |-> {}]

Waiting(kind) == {i \in DOMAIN calls : calls[i].kind = kind}

Send(call) ==
  /\ Len(calls) < MaxCalls
  /\ calls' = Append(calls, call)
  /\ UNCHANGED <<store, unused, events, refused>>

submitJob(j) ==
  /\ j \in Mine \cap unused
  /\ \A i \in Waiting("submit") : calls[i].ids # {j}
  /\ Send(Call("submit", {j}))
  /\ UNCHANGED <<client, budget>>

\* reconcileSnapshotFeed: one request at a time, again and again.
Poll ==
  /\ Waiting("poll") = {}
  /\ Send(Call("poll", {}))
  /\ UNCHANGED <<client, budget>>

requestQueueMove(j) ==
  /\ j \in DOMAIN tasks
  /\ tasks[j].state = "queued"
  /\ \A i \in Waiting("move") : calls[i].ids # {j}
  /\ Spend({"extra"})
  /\ Send(Call("move", {j}))
  /\ UNCHANGED client

\* answerQuestion ends by fetching the job's snapshot; only the window that
\* submitted the job answers.
refreshQuestionTask(j) ==
  /\ j \in DOMAIN tasks \cap Mine
  /\ Spend({"extra"})
  /\ Send(Call("refresh", {j}))
  /\ UNCHANGED client

\* The rows stay until the backend agrees; replies to polls sent before are
\* not wanted any more, and the next poll asks for everything.
clearFinished(ids) ==
  /\ ids # {}
  /\ LET ended == {j \in DOMAIN tasks : Terminal(tasks[j].state)}
     IN  ids \subseteq ended /\ ended \cap locallyDismissed \subseteq ids
  /\ Spend({"clear"})
  /\ Send(Call("dismiss", ids))
  /\ locallyDismissed' = locallyDismissed \cup ids
  /\ snapshotGeneration' = snapshotGeneration + 1
  /\ snapshotRevision' = Unknown
  /\ UNCHANGED <<tasks, ran>>

(***************************************************************************)
(* The window: replies and events.                                         *)
(***************************************************************************)
Arrives(i, kind) ==
  /\ calls[i].kind = kind
  /\ calls[i].answered
  /\ InOrder => i = 1
  /\ UNCHANGED <<store, unused, events, refused, budget>>

Shows(view) ==
  /\ tasks' = view.tasks
  /\ ran' = view.ran
  /\ UNCHANGED <<snapshotRevision, snapshotGeneration, locallyDismissed>>

\* localSubmissionPromotion: the row becomes this window's own; if the job has
\* ended already, its effects run now.
Promoted(view, j) ==
  IF j \notin DOMAIN view.tasks THEN view
  ELSE [view EXCEPT !.tasks[j].localEffects = TRUE,
                    !.ran[j] = IF ~view.tasks[j].localEffects
                                    /\ Terminal(view.tasks[j].state)
                                 THEN @ + 1 ELSE @]

SubmitReturns(i) ==
  /\ Arrives(i, "submit")
  /\ calls' = RemoveAt(calls, i)
  /\ IF calls[i].reply = {} THEN UNCHANGED client
     ELSE \E s \in calls[i].reply :
            Shows(Promoted(applySnapshots(View, {s}), s.id))

PollReturns(i) ==
  /\ Arrives(i, "poll")
  /\ calls' = RemoveAt(calls, i)
  /\ IF calls[i].generation = snapshotGeneration
       THEN applySnapshotDelta(calls[i].reply)
       ELSE UNCHANGED client

\* The request is rejected, or a report in the reply is malformed: nothing of
\* it is applied.
PollFails(i) ==
  /\ Arrives(i, "poll")
  /\ calls' = RemoveAt(calls, i)
  /\ UNCHANGED client

DeltaReturns(i) ==
  /\ Arrives(i, "delta")
  /\ calls' = RemoveAt(calls, i)
  /\ applySnapshotDelta(calls[i].reply)

\* A move that succeeded fetches the new positions.
MoveReturns(i) ==
  /\ Arrives(i, "move")
  /\ calls' = IF calls[i].reply
                THEN Append(RemoveAt(calls, i), Call("delta", {}))
                ELSE RemoveAt(calls, i)
  /\ UNCHANGED client

RefreshReturns(i) ==
  /\ Arrives(i, "refresh")
  /\ calls' = RemoveAt(calls, i)
  /\ IF calls[i].ids \subseteq locallyDismissed
       THEN UNCHANGED client
       ELSE Shows(applySnapshots(View, calls[i].reply))

\* Cleared rows leave the list; after a refusal they are put back.
ClearReturns(i) ==
  /\ Arrives(i, "dismiss")
  /\ calls' = RemoveAt(calls, i)
  /\ IF calls[i].reply
       THEN /\ tasks' = Without(tasks, {j \in DOMAIN tasks \cap calls[i].ids :
                                          Terminal(tasks[j].state)})
            /\ UNCHANGED <<ran, snapshotRevision, snapshotGeneration,
                           locallyDismissed>>
       ELSE /\ tasks' = [j \in DOMAIN tasks \cup DOMAIN calls[i].rollback |->
                           IF j \in DOMAIN tasks THEN tasks[j]
                           ELSE calls[i].rollback[j]]
            /\ locallyDismissed' = locallyDismissed \ calls[i].ids
            /\ snapshotGeneration' = snapshotGeneration + 1
            /\ snapshotRevision' = Unknown
            /\ UNCHANGED ran

EventArrives(s) ==
  /\ events' = events \ {s}
  /\ Shows(applySnapshots(View, {s}))
  /\ UNCHANGED <<store, unused, calls, refused, budget>>

Backend ==
  \/ \E j \in Jobs : \/ \E state \in {"queued", "done"} : Register(j, state)
                     \/ SetProgress(j)
                     \/ \E state \in States, S \in SUBSET Known : SetState(j, state, S)
  \/ \E S \in SUBSET Known : SyncQueueStatuses(S)
  \/ \E S \in SUBSET Known : OtherDismiss(S)

Answer(i) ==
  \/ AnswerSubmit(i)
  \/ AnswerSnapshots(i)
  \/ AnswerSnapshot(i)
  \/ AnswerMove(i)
  \/ AnswerDismiss(i)

Return(i) ==
  \/ SubmitReturns(i)
  \/ PollReturns(i)
  \/ DeltaReturns(i)
  \/ MoveReturns(i)
  \/ RefreshReturns(i)
  \/ ClearReturns(i)

Window ==
  \/ Poll
  \/ \E j \in Jobs : submitJob(j) \/ requestQueueMove(j) \/ refreshQuestionTask(j)
  \/ \E ids \in SUBSET DOMAIN tasks : clearFinished(ids)

Next ==
  \/ Backend
  \/ Window
  \/ \E i \in DOMAIN calls : Answer(i) \/ Return(i) \/ PollFails(i)
  \/ \E s \in events : EventArrives(s)

Spec == Init /\ [][Next]_vars

\* The backend runs each command and answers, replies arrive, the window polls
\* again, and polls do not fail for ever.  Nothing is assumed of events, users
\* or jobs.
FairSpec ==
  /\ Spec
  /\ WF_vars(Poll)
  /\ WF_vars(\E j \in Mine : \E state \in {"queued", "done"} : Register(j, state))
  /\ WF_vars(\E i \in DOMAIN calls : Answer(i))
  /\ WF_vars(\E i \in DOMAIN calls : Return(i))
  /\ SF_vars(\E i \in DOMAIN calls : PollReturns(i))

(***************************************************************************)
(* Properties.                                                             *)
(***************************************************************************)

\* The store and the list are well formed: the histories keep their bounds, no
\* version is ahead of the store, and no row was made from nothing.
TypeOK ==
  /\ store.revision \in Nat
  /\ Known \subseteq Jobs \ unused
  /\ \A j \in Known :
       /\ store.jobs[j].state \in States
       /\ store.jobs[j].created \in 1..store.jobs[j].version
       /\ store.jobs[j].version <= store.revision
       /\ store.jobs[j].dismissed_by \subseteq Windows
  /\ Len(store.ended) <= MaxTerminal
  /\ Range(store.ended) = InState("done")
  /\ Cardinality(store.removals) <= MaxChanges
  /\ DOMAIN tasks \subseteq Jobs \ unused
  /\ \A j \in DOMAIN tasks : tasks[j].version \in 1..store.revision
  /\ snapshotRevision \in {Unknown} \cup (0..store.revision)
  /\ locallyDismissed \subseteq Jobs

\* Completion effects (toast, history entry, source cleanup report, opening
\* the archive) run once, only in the window that submitted the job, and have
\* run for each of its rows that shows the end of the job, in whatever order
\* replies and events arrive.
\* [jobs.svelte.ts runTerminalEffects, localSubmissionPromotion]
EffectsOnce ==
  \A j \in Jobs :
    /\ ran[j] <= IF j \in Mine THEN 1 ELSE 0
    /\ j \in DOMAIN tasks /\ tasks[j].localEffects /\ Terminal(tasks[j].state)
         => ran[j] = 1

\* A window that has caught up with the store misses nothing and shows every
\* job as the store has it, however far behind it was, whatever the histories
\* no longer hold, and whichever events came late or not at all.  Rows that are
\* being cleared are left aside.  [jobs.svelte.ts applySnapshotDelta]
CaughtUp ==
  snapshotRevision = store.revision =>
    /\ Visible \ locallyDismissed \subseteq DOMAIN tasks
    /\ \A j \in (Visible \ locallyDismissed) \cap DOMAIN tasks :
         /\ tasks[j].version = store.jobs[j].version
         /\ tasks[j].state = store.jobs[j].state

\* Nor does it list what the store has dropped, since "snapshots remain
\* authoritative" (jobs.svelte.ts initJobEvents).  It may: a row that a refused
\* clearing has put back stays.  [jobs.svelte.ts clearFinished, requestQueueMove]
NoStaleRows == snapshotRevision = store.revision => DOMAIN tasks \subseteq Visible

\* Rows of another window's jobs that were cleared stay away, whatever was on
\* its way when they were cleared.
\* [jobs.svelte.ts clearFinished, applySnapshotDelta]
ClearedStaysCleared ==
  \A j \in Jobs \ Mine :
    (j \in Known /\ "main" \in store.jobs[j].dismissed_by) =>
      \/ j \notin DOMAIN tasks
      \/ \E i \in Waiting("dismiss") : j \in calls[i].ids

\* What holds of the rows.  Replies that overtake each other can undo more: the
\* delta of a queue move is applied without a look at the generation, and once
\* two clearings have made the window forget its revision an old one may follow
\* a new one.  A refused clearing puts rows back that the window had been told
\* to drop.
RowsAreRight ==
  /\ EffectsOnce
  /\ InOrder => CaughtUp
  /\ InOrder /\ ~refused => NoStaleRows /\ ClearedStaysCleared

\* Once the jobs and the user are quiet, the window catches up for good.
\* [jobs.svelte.ts reconcileSnapshotFeed]
Converges == <>[](snapshotRevision = store.revision)
=============================================================================
