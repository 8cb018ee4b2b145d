------------------------------ MODULE JobQueue ------------------------------
(***************************************************************************)
(* The task queue: crates/squallz-core/src/queue.rs, with the control      *)
(* token of crates/squallz-format-api/src/progress.rs.                     *)
(*                                                                         *)
(* Worker threads take jobs from one queue within two limits, the number   *)
(* of jobs and the number of CPU threads they reserve.  Other threads      *)
(* submit, pause, resume, cancel, reorder and forget jobs, wait until the  *)
(* queue is idle, and at last drop it.                                     *)
(*                                                                         *)
(* There are two locks, `queue` and, inside it, `slots`.  A step here is   *)
(* one critical section; what a call does after unlocking is another step, *)
(* and other threads run in between.  A condition variable's waiters are   *)
(* woken by notifications only.                                            *)
(***************************************************************************)
EXTENDS Naturals, Sequences, FiniteSets, FiniteSetsExt, SequencesExt

CONSTANTS Workers,        \* the worker threads
          Callers,        \* threads that use the queue
          MaxJobs,        \* bound: jobs submitted
          MaxRunning,     \* the simultaneous-job ceiling at the start
          Threads,        \* CPU threads each job asks for
          Budget,         \* CPU threads all jobs may reserve
          MaxChunks,      \* bound: checkpoints and phases of one job
          MaxCalls        \* bound: calls besides submit and wait_idle

Jobs  == 1..MaxJobs
NoJob == 0

ASSUME ConstantsAssumption ==
  /\ IsFiniteSet(Workers) /\ Workers # {}
  /\ MaxJobs \in Nat /\ MaxChunks \in Nat /\ MaxCalls \in Nat
  /\ MaxRunning \in Nat \ {0} /\ Budget \in Nat \ {0}
  /\ Threads \in [Jobs -> Nat]

Terminal  == {"Done", "Failed", "Cancelled"}
JobStates == {"Absent", "Queued", "Running", "Paused"} \cup Terminal

\* `closure` says that the job is still there to be taken; `paused` and
\* `cancelled` are the flags of the control token.
Slot == [state : JobStates, paused : BOOLEAN, cancelled : BOOLEAN,
         interruptible : BOOLEAN, closure : BOOLEAN]
NoSlot == [state |-> "Absent", paused |-> FALSE, cancelled |-> FALSE,
           interruptible |-> FALSE, closure |-> FALSE]

\* Where a worker is.  "body", "checkpoint" and "checked" are inside the job.
Executing  == {"body", "checkpoint", "checked", "store"}
Reserving  == {"claim", "release"} \cup Executing
WorkerAt   == {"look", "asleep", "exited"} \cup Reserving
WorkerState == [at : WorkerAt, job : Jobs \cup {NoJob}, threads : Nat,
                chunks : Nat, outcome : Terminal \cup {"none"}]
Resting    == [at |-> "look", job |-> NoJob, threads |-> 0, chunks |-> 0,
               outcome |-> "none"]

CallerAt == {"idle", "push", "wake", "notify", "markPaused", "markRunning",
             "idleLook", "idleAsleep"}
CallerState == [at : CallerAt, job : Jobs \cup {NoJob}]
Idle == [at |-> "idle", job |-> NoJob]

VARIABLES
  slots,       \* job -> Slot
  queue,       \* the queued jobs, in order
  running,     \* reservations that have not been released
  cpu,         \* CPU threads they reserve
  ceiling,     \* max_running
  shutdown,    \* the queue is being dropped
  worker,      \* worker -> WorkerState
  caller,      \* caller -> CallerState
  submitted,   \* how many jobs have an id
  calls,       \* calls made
  starts,      \* history: job -> how often its closure was taken to be run
  caught,      \* history: jobs cancelled before they were claimed
  ended        \* history: jobs that are over

limits  == <<running, cpu, ceiling>>
history == <<starts, caught, ended>>
vars == <<slots, queue, limits, shutdown, worker, caller, submitted, calls,
          history>>

TypeOK ==
  /\ slots \in [Jobs -> Slot]
  /\ queue \in Seq(Jobs)
  /\ running \in Nat /\ cpu \in Nat /\ ceiling \in Nat \ {0}
  /\ shutdown \in BOOLEAN
  /\ worker \in [Workers -> WorkerState]
  /\ caller \in [Callers -> CallerState]
  /\ submitted \in 0..MaxJobs
  /\ calls \in 0..MaxCalls
  /\ starts \in [Jobs -> Nat]
  /\ caught \in SUBSET Jobs
  /\ ended \in SUBSET Jobs

Clamp(n, low, high) == IF n < low THEN low ELSE IF n > high THEN high ELSE n

Init ==
  /\ slots = [j \in Jobs |-> NoSlot]
  /\ queue = <<>>
  /\ running = 0 /\ cpu = 0
  /\ ceiling = Clamp(MaxRunning, 1, Cardinality(Workers))
  /\ shutdown = FALSE
  /\ worker = [w \in Workers |-> Resting]
  /\ caller = [c \in Callers |-> Idle]
  /\ submitted = 0 /\ calls = 0
  /\ starts = [j \in Jobs |-> 0]
  /\ caught = {} /\ ended = {}

-----------------------------------------------------------------------------
(***************************************************************************)
(* notify_all on the two condition variables.                              *)
(***************************************************************************)
Awake(ws) == [w \in Workers |->
  IF ws[w].at = "asleep" THEN [ws[w] EXCEPT !.at = "look"] ELSE ws[w]]

IdleAwake(cs) == [c \in Callers |->
  IF cs[c].at = "idleAsleep" THEN [cs[c] EXCEPT !.at = "idleLook"] ELSE cs[c]]

WorkerGoes(w, state) == [worker EXCEPT ![w] = state]
CallerGoes(c, at, j) == [caller EXCEPT ![c] = [at |-> at, job |-> j]]

Reorderable(j) ==
  slots[j].state = "Queued" /\ slots[j].closure /\ ~slots[j].paused

\* An entry the scan throws away.
Stale(j) == slots[j].state \in Terminal \cup {"Absent"} \/ ~slots[j].closure

\* The entries of a queue at some of its places, in order, and the queue
\* without some jobs.
Rank(places, i) == Cardinality({k \in places : k <= i})
Entries(q, places) ==
  [n \in 1..Cardinality(places) |->
     q[CHOOSE i \in places : Rank(places, i) = n]]
Without(js) == Entries(queue, {i \in DOMAIN queue : queue[i] \notin js})

-----------------------------------------------------------------------------
(***************************************************************************)
(* reserve_next_job: the first reorderable job, unless the CPU budget      *)
(* holds it back; then the ones behind it wait as well.                    *)
(***************************************************************************)
Places == {i \in 1..Len(queue) : Reorderable(queue[i])}
First  == Min(Places)
Need(j) == LET asked == IF Threads[j] = 0 THEN 1 ELSE Threads[j]
           IN  IF asked < Budget THEN asked ELSE Budget
Fits(j) == cpu = 0 \/ cpu + Need(j) <= Budget

Claimable == running < ceiling /\ Places # {} /\ Fits(queue[First])

\* The stale entries on the way there.
Gone ==
  LET passed == IF Places = {} THEN DOMAIN queue ELSE 1..(First - 1)
  IN  {queue[i] : i \in {k \in passed : Stale(queue[k])}}

Reserve(w) ==
  /\ worker[w].at = "look" /\ ~shutdown
  /\ Claimable
  /\ LET j == queue[First] IN
       /\ queue' = Without(Gone \cup {j})
       /\ running' = running + 1
       /\ cpu' = cpu + Need(j)
       /\ worker' = WorkerGoes(w, [Resting EXCEPT !.at = "claim", !.job = j,
                                                  !.threads = Need(j)])
  /\ UNCHANGED <<slots, ceiling, shutdown, caller, submitted, calls, history>>

\* Nothing to do: tell wait_idle and sleep.
Sleep(w) ==
  /\ worker[w].at = "look" /\ ~shutdown
  /\ ~Claimable
  /\ queue' = IF running < ceiling THEN Without(Gone) ELSE queue
  /\ worker' = WorkerGoes(w, [Resting EXCEPT !.at = "asleep"])
  /\ caller' = IdleAwake(caller)
  /\ UNCHANGED <<slots, limits, shutdown, submitted, calls, history>>

Exit(w) ==
  /\ worker[w].at = "look" /\ shutdown
  /\ worker' = WorkerGoes(w, [Resting EXCEPT !.at = "exited"])
  /\ UNCHANGED <<slots, queue, limits, shutdown, caller, submitted, calls,
                 history>>

\* Mutant: its reservation is given back on the spot and again afterwards.
Claim_ReleasesTwice(w) ==
  LET j == worker[w].job
      claimed == slots[j].state = "Queued" /\ slots[j].closure
  IN
  /\ worker[w].at = "claim"
  /\ IF claimed
     THEN /\ slots' = [slots EXCEPT
               ![j].state = IF slots[j].paused THEN "Paused" ELSE "Running",
               ![j].closure = FALSE]
          /\ starts' = [starts EXCEPT ![j] = @ + 1]
          /\ worker' = [worker EXCEPT ![w].at = "body"]
          /\ UNCHANGED running
     ELSE /\ worker' = [worker EXCEPT ![w].at = "release"]
          /\ running' = running - 1
          /\ UNCHANGED <<slots, starts>>
  /\ UNCHANGED <<queue, cpu, ceiling, shutdown, caller, submitted, calls,
                 caught, ended>>

\* claim_job: the closure is taken and the state published at once.
Claim(w) ==
  LET j == worker[w].job
      claimed == slots[j].state = "Queued" /\ slots[j].closure
  IN
  /\ worker[w].at = "claim"
  /\ \/ /\ claimed
        /\ slots' = [slots EXCEPT
             ![j].state = IF slots[j].paused THEN "Paused" ELSE "Running",
             ![j].closure = FALSE]
        /\ starts' = [starts EXCEPT ![j] = @ + 1]
        /\ worker' = [worker EXCEPT ![w].at = "body"]
     \/ /\ ~claimed
        /\ worker' = [worker EXCEPT ![w].at = "release"]
        /\ UNCHANGED <<slots, starts>>
  /\ UNCHANGED <<queue, limits, shutdown, caller, submitted, calls, caught,
                 ended>>

(***************************************************************************)
(* The job itself: any closure.  It announces phases through the gate,     *)
(* reaches checkpoints, and returns or panics.                             *)
(***************************************************************************)
Phase(w) ==
  /\ worker[w].at = "body" /\ worker[w].chunks < MaxChunks
  /\ \E b \in BOOLEAN :
       slots' = [slots EXCEPT ![worker[w].job].interruptible = b]
  /\ worker' = [worker EXCEPT ![w].chunks = @ + 1]
  /\ UNCHANGED <<queue, limits, shutdown, caller, submitted, calls, history>>

Chunk(w) ==
  /\ worker[w].at = "body" /\ worker[w].chunks < MaxChunks
  /\ worker' = [worker EXCEPT ![w].chunks = @ + 1, ![w].at = "checkpoint"]
  /\ UNCHANGED <<slots, queue, limits, shutdown, caller, submitted, calls,
                 history>>

\* ControlToken::checkpoint reads the two flags one after the other.
ReadCancelled(w) ==
  /\ worker[w].at = "checkpoint"
  /\ worker' = IF slots[worker[w].job].cancelled
               THEN [worker EXCEPT ![w].at = "store",
                                   ![w].outcome = "Cancelled"]
               ELSE [worker EXCEPT ![w].at = "checked"]
  /\ UNCHANGED <<slots, queue, limits, shutdown, caller, submitted, calls,
                 history>>

ReadPaused(w) ==
  /\ worker[w].at = "checked"
  /\ worker' = [worker EXCEPT ![w].at =
                  IF slots[worker[w].job].paused THEN "checkpoint" ELSE "body"]
  /\ UNCHANGED <<slots, queue, limits, shutdown, caller, submitted, calls,
                 history>>

Return(w) ==
  /\ worker[w].at = "body"
  /\ \E o \in Terminal :
       worker' = [worker EXCEPT ![w].at = "store", ![w].outcome = o]
  /\ UNCHANGED <<slots, queue, limits, shutdown, caller, submitted, calls,
                 history>>

\* set_state(final_state), then release_resources.
Store(w) ==
  /\ worker[w].at = "store"
  /\ slots' = [slots EXCEPT ![worker[w].job].state = worker[w].outcome]
  /\ ended' = ended \cup {worker[w].job}
  /\ worker' = [worker EXCEPT ![w].at = "release"]
  /\ UNCHANGED <<queue, limits, shutdown, caller, submitted, calls, starts,
                 caught>>

Release(w) ==
  /\ worker[w].at = "release"
  /\ running' = running - 1
  /\ cpu' = cpu - worker[w].threads
  /\ worker' = Awake(WorkerGoes(w, Resting))
  /\ caller' = IdleAwake(caller)
  /\ UNCHANGED <<slots, queue, ceiling, shutdown, submitted, calls, history>>

-----------------------------------------------------------------------------
(***************************************************************************)
(* The callers.                                                            *)
(***************************************************************************)
MayCall(c) == caller[c].at = "idle" /\ ~shutdown
Called == calls < MaxCalls /\ calls' = calls + 1

\* submit: the slot, the queue entry and the notification are three steps.
Submit(c) ==
  /\ MayCall(c) /\ submitted < MaxJobs
  /\ submitted' = submitted + 1
  /\ slots' = [slots EXCEPT ![submitted'] =
       [state |-> "Queued", paused |-> FALSE, cancelled |-> FALSE,
        interruptible |-> TRUE, closure |-> TRUE]]
  /\ caller' = CallerGoes(c, "push", submitted')
  /\ UNCHANGED <<queue, limits, shutdown, worker, calls, history>>

Push(c) ==
  /\ caller[c].at = "push"
  /\ queue' = Append(queue, caller[c].job)
  /\ caller' = CallerGoes(c, "wake", NoJob)
  /\ UNCHANGED <<slots, limits, shutdown, worker, submitted, calls, history>>

Wake(c) ==
  /\ caller[c].at = "wake"
  /\ worker' = Awake(worker)
  /\ caller' = CallerGoes(c, "idle", NoJob)
  /\ UNCHANGED <<slots, queue, limits, shutdown, submitted, calls, history>>

\* The ids a caller can have: submit has returned, or is about to.
Known == {j \in 1..submitted : \A c \in Callers : caller[c] #
                                 [at |-> "push", job |-> j]}

\* try_pause: the flag is set in one critical section, the state in another.
TryPause(c) ==
  /\ MayCall(c) /\ Called
  /\ \E j \in Known :
       /\ slots[j].state \notin Terminal \cup {"Absent"}
       /\ slots[j].interruptible
       /\ slots' = [slots EXCEPT ![j].paused = TRUE]
       /\ caller' = IF slots[j].state = "Running"
                    THEN CallerGoes(c, "markPaused", j) ELSE caller
  /\ UNCHANGED <<queue, limits, shutdown, worker, submitted, history>>

\* set_state does nothing for a slot that has been removed.
MarkPaused(c) ==
  LET j == caller[c].job IN
  /\ caller[c].at = "markPaused"
  /\ slots' = IF slots[j].state = "Absent" THEN slots
              ELSE [slots EXCEPT ![j].state = "Paused"]
  /\ caller' = CallerGoes(c, "idle", NoJob)
  /\ UNCHANGED <<queue, limits, shutdown, worker, submitted, calls, history>>

\* Mutant: resuming a queued job tells no worker.
Resume_Silent(c) ==
  /\ MayCall(c) /\ Called
  /\ \E j \in Known :
       /\ slots[j].state # "Absent"
       /\ slots' = [slots EXCEPT ![j].paused = FALSE]
       /\ caller' = IF slots[j].state = "Paused"
                    THEN CallerGoes(c, "markRunning", j) ELSE caller
  /\ UNCHANGED <<queue, limits, shutdown, worker, submitted, history>>

Resume(c) ==
  /\ MayCall(c) /\ Called
  /\ \E j \in Known :
       /\ slots[j].state # "Absent"
       /\ slots' = [slots EXCEPT ![j].paused = FALSE]
       /\ caller' =
            IF slots[j].state = "Paused" THEN CallerGoes(c, "markRunning", j)
            ELSE IF slots[j].state = "Queued" /\ slots[j].closure
                 THEN CallerGoes(c, "notify", NoJob)
            ELSE caller
  /\ UNCHANGED <<queue, limits, shutdown, worker, submitted, history>>

MarkRunning(c) ==
  LET j == caller[c].job IN
  /\ caller[c].at = "markRunning"
  /\ slots' = IF slots[j].state = "Absent" THEN slots
              ELSE [slots EXCEPT ![j].state = "Running"]
  /\ caller' = CallerGoes(c, "idle", NoJob)
  /\ UNCHANGED <<queue, limits, shutdown, worker, submitted, calls, history>>

\* Mutant: a queued job is taken off the queue but keeps its closure.
TryCancelMany_OnlyDequeues(c) ==
  /\ MayCall(c) /\ Called
  /\ \E js \in SUBSET Known :
       LET requested == {j \in js :
                           /\ slots[j].state \notin Terminal \cup {"Absent"}
                           /\ slots[j].interruptible /\ ~slots[j].cancelled}
           waiting   == {j \in requested :
                           slots[j].state = "Queued" /\ slots[j].closure}
       IN
       /\ requested # {}
       /\ slots' = [j \in Jobs |->
            IF j \in requested THEN [slots[j] EXCEPT !.cancelled = TRUE]
            ELSE slots[j]]
       /\ queue' = Without(waiting)
       /\ caught' = caught \cup waiting
       /\ ended' = ended \cup waiting
       /\ caller' = IF waiting # {} THEN CallerGoes(c, "notify", NoJob)
                    ELSE caller
  /\ UNCHANGED <<limits, shutdown, worker, submitted, starts>>

\* request_cancel_many, for the group js, and the notification after it.
Cancellable(j) == /\ slots[j].state \notin Terminal \cup {"Absent"}
                  /\ slots[j].interruptible /\ ~slots[j].cancelled

TryCancelMany(c) ==
  /\ MayCall(c) /\ Called
  /\ \E js \in SUBSET Known :
       LET requested == {j \in js : Cancellable(j)}
           waiting   == {j \in requested :
                           slots[j].state = "Queued" /\ slots[j].closure}
       IN
       /\ requested # {}
       /\ slots' = [j \in Jobs |->
            IF j \in waiting
            THEN [slots[j] EXCEPT !.cancelled = TRUE, !.closure = FALSE,
                                  !.state = "Cancelled"]
            ELSE IF j \in requested
                 THEN [slots[j] EXCEPT !.cancelled = TRUE]
            ELSE slots[j]]
       /\ queue' = Without(waiting)
       /\ caught' = caught \cup waiting
       /\ ended' = ended \cup waiting
       /\ caller' = IF waiting # {} THEN CallerGoes(c, "notify", NoJob)
                    ELSE caller
  /\ UNCHANGED <<limits, shutdown, worker, submitted, starts>>

NotifyWaiters(c) ==
  /\ caller[c].at = "notify"
  /\ worker' = Awake(worker)
  /\ caller' = IdleAwake(CallerGoes(c, "idle", NoJob))
  /\ UNCHANGED <<slots, queue, limits, shutdown, submitted, calls, history>>

SetMaxRunning(c) ==
  /\ MayCall(c) /\ Called
  /\ \E n \in 0..(Cardinality(Workers) + 1) :
       ceiling' = Clamp(n, 1, Cardinality(Workers))
  /\ worker' = Awake(worker)
  /\ UNCHANGED <<slots, queue, running, cpu, shutdown, caller, submitted,
                 history>>

ForgetTerminal(c) ==
  /\ MayCall(c) /\ Called
  /\ \E j \in Known :
       /\ slots[j].state \in Terminal
       /\ slots' = [slots EXCEPT ![j] = NoSlot]
  /\ UNCHANGED <<queue, limits, shutdown, worker, caller, submitted, history>>

(***************************************************************************)
(* Reordering.  Only the places of reorderable jobs take part: `order` is  *)
(* put into them, from the front to the back.                              *)
(***************************************************************************)
Order == Entries(queue, Places)
Refilled(order) ==
  [i \in DOMAIN queue |->
     IF i \in Places THEN order[Rank(Places, i)] ELSE queue[i]]

\* move_queued_before(id, Some(target)) and, with target = NoJob, None.
MovedBefore(id, target) ==
  LET rest == Entries(Order, {i \in DOMAIN Order : Order[i] # id})
      at   == IF target = NoJob THEN Len(rest) + 1
              ELSE CHOOSE i \in DOMAIN rest : rest[i] = target
  IN  InsertAt(rest, at, id)

MoveBefore(c) ==
  /\ MayCall(c) /\ Called
  /\ \E id \in Known, target \in Known \cup {NoJob} :
       /\ id # target
       /\ {id, target} \ {NoJob} \subseteq Range(Order)
       /\ queue' = Refilled(MovedBefore(id, target))
  /\ UNCHANGED <<slots, limits, shutdown, worker, caller, submitted, history>>

\* move_queued: two neighbours change places.
MoveStep(c) ==
  /\ MayCall(c) /\ Called
  /\ \E i, k \in Places :
       /\ i < k /\ \A n \in Places : ~(i < n /\ n < k)
       /\ queue' = [queue EXCEPT ![i] = queue[k], ![k] = queue[i]]
  /\ UNCHANGED <<slots, limits, shutdown, worker, caller, submitted, history>>

\* wait_idle: check under the lock, sleep, check again.
WaitIdle(c) ==
  /\ MayCall(c)
  /\ caller' = CallerGoes(c, "idleLook", NoJob)
  /\ UNCHANGED <<slots, queue, limits, shutdown, worker, submitted, calls,
                 history>>

IdleLook(c) ==
  /\ caller[c].at = "idleLook"
  /\ caller' = CallerGoes(c, IF queue # <<>> \/ running > 0 THEN "idleAsleep"
                             ELSE "idle", NoJob)
  /\ UNCHANGED <<slots, queue, limits, shutdown, worker, submitted, calls,
                 history>>

\* Mutant: the workers that sleep are not told.
Drop_Silent ==
  /\ ~shutdown /\ \A c \in Callers : caller[c].at = "idle"
  /\ shutdown' = TRUE
  /\ UNCHANGED <<slots, queue, limits, worker, caller, submitted, calls,
                 history>>

\* Drop for JobQueue; nobody else can be using the queue.
Drop ==
  /\ ~shutdown /\ \A c \in Callers : caller[c].at = "idle"
  /\ shutdown' = TRUE
  /\ worker' = Awake(worker)
  /\ UNCHANGED <<slots, queue, limits, caller, submitted, calls, history>>

-----------------------------------------------------------------------------
Body(w) == Phase(w) \/ Chunk(w) \/ ReadCancelled(w) \/ ReadPaused(w)
             \/ Return(w)
WorkerStep(w) == Reserve(w) \/ Sleep(w) \/ Exit(w) \/ Claim(w) \/ Body(w)
                   \/ Store(w) \/ Release(w)
Call(c) == Submit(c) \/ TryPause(c) \/ Resume(c) \/ TryCancelMany(c)
             \/ SetMaxRunning(c) \/ ForgetTerminal(c) \/ MoveBefore(c)
             \/ MoveStep(c) \/ WaitIdle(c)
CallStep(c) == Push(c) \/ Wake(c) \/ MarkPaused(c) \/ MarkRunning(c)
                 \/ NotifyWaiters(c) \/ IdleLook(c)

Next ==
  \/ \E w \in Workers : WorkerStep(w)
  \/ \E c \in Callers : Call(c) \/ CallStep(c)
  \/ Drop

Spec == Init /\ [][Next]_vars

(***************************************************************************)
(* The operating system runs every thread, a job makes progress between    *)
(* checkpoints, and a call that was begun goes on.  Nobody has to call     *)
(* anything.                                                               *)
(***************************************************************************)
Fairness ==
  /\ \A w \in Workers : WF_vars(WorkerStep(w))
  /\ \A c \in Callers : WF_vars(CallStep(c))

FairSpec == Spec /\ Fairness

-----------------------------------------------------------------------------
(***************************************************************************)
(* Safety.                                                                 *)
(***************************************************************************)
Holding  == {w \in Workers : worker[w].at \in Reserving}
Reserved == UNION {{w} \X (1..worker[w].threads) : w \in Holding}

\* The two counters say exactly what the workers hold, no two workers hold
\* one job, and the CPU budget is kept: whatever path a worker leaves a job
\* by, its reservation goes back once.  [queue.rs reserve_next_job,
\* release_resources, worker_loop]
ResourcesConserved ==
  /\ running = Cardinality(Holding)
  /\ cpu = Cardinality(Reserved)
  /\ cpu <= Budget
  /\ \A v, w \in Holding : worker[v].job = worker[w].job => v = w

\* A job runs at most once, and one that was cancelled while it was queued
\* never: not even when a worker had already reserved it.
\* [queue.rs claim_job, request_cancel_many]
CaughtNeverStarts ==
  \A j \in Jobs : starts[j] <= 1 /\ (j \in caught => starts[j] = 0)

\* Nobody sleeps through the last notification: with every worker asleep
\* nothing can be claimed, and wait_idle sleeps only while there is work or
\* a notification under way.  [queue.rs submit, resume, try_cancel_many,
\* notify_waiters, release_resources, wait_idle]
Notifying(at) == \E c \in Callers : caller[c].at \in at
NoMissedWakeup ==
  /\ (\A w \in Workers : worker[w].at = "asleep")
       => ~Claimable \/ Notifying({"wake", "notify"})
  /\ (\E c \in Callers : caller[c].at = "idleAsleep")
       => \/ queue # <<>> \/ running > 0
          \/ Notifying({"notify"})
          \/ \E w \in Workers : worker[w].at = "look"

\* The budget is kept, and while it would do for a job somebody is awake to
\* take it.  [queue.rs reserve_next_job, release_resources, resume]
BudgetIsUsed == ResourcesConserved /\ NoMissedWakeup

-----------------------------------------------------------------------------
(***************************************************************************)
(* What the queue promises about its jobs.                                 *)
(***************************************************************************)
\* What JobSlots speaks of, read off the worker threads and the callers.
JobsAt(at) == {worker[w].job : w \in {v \in Workers : worker[v].at \in at}}
Writing ==
  [c \in Callers |->
     CASE caller[c].at = "markPaused" ->
            [job |-> caller[c].job, state |-> "Paused"]
       [] caller[c].at = "markRunning" ->
            [job |-> caller[c].job, state |-> "Running"]
       [] OTHER -> [job |-> NoJob, state |-> "none"]]

Promise == INSTANCE JobSlots WITH
  reserved <- JobsAt({"claim"}), executing <- JobsAt(Executing),
  writing <- Writing

\* Whatever the order of the queue, its limits, its threads and its wake-ups
\* do, a job sees only the steps of JobSlots: it is taken once, its state is
\* written by those critical sections and by no other, and a slot goes only
\* when the job is over.  [queue.rs, every use of the lock `slots`]
ImplementsSlots == Promise!SlotsSpec

-----------------------------------------------------------------------------
(***************************************************************************)
(* Liveness.                                                               *)
(***************************************************************************)
Held(j) == slots[j].paused /\ ~slots[j].cancelled /\ j \notin ended
Waiting(c) == caller[c].at \in {"idleLook", "idleAsleep"}

\* If from some time on no job is paused and the queue is not dropped, every
\* job that was submitted is over some day.  [queue.rs worker_loop, resume]
Drains ==
  <>[](~shutdown /\ \A j \in Jobs : ~Held(j)) =>
    \A j \in Jobs : (submitted >= j) ~> (j \in ended)

\* A cancelled job ends, paused or not, even while the queue is dropped.
\* [progress.rs ControlToken::checkpoint; queue.rs request_cancel_many]
CancelEnds == \A j \in Jobs : slots[j].cancelled ~> j \in ended

\* Dropping the queue returns, unless a job that a worker runs is paused.
\* [queue.rs Drop for JobQueue]
JoinReturns ==
  shutdown ~> \/ \A w \in Workers : worker[w].at = "exited"
              \/ \E w \in Workers : worker[w].at \in Executing
                                     /\ Held(worker[w].job)

\* wait_idle returns once the queue stays empty.  [queue.rs wait_idle]
WaitIdleReturns ==
  <>[](queue = <<>> /\ running = 0) =>
    \A c \in Callers : Waiting(c) ~> ~Waiting(c)

\* Nobody waits for ever: neither for a job to run or to end, nor for the
\* queue to be empty or to be dropped.
\* [queue.rs worker_loop, wait_idle, Drop for JobQueue]
NobodyHangs == Drains /\ CancelEnds /\ JoinReturns /\ WaitIdleReturns
=============================================================================
