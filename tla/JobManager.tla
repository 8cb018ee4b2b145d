----------------------------- MODULE JobManager -----------------------------
(***************************************************************************)
(* The window program's jobs: crates/squallz-gui/src/jobs.rs, the question *)
(* bridge of bridge.rs, the state and the question of a snapshot           *)
(* (jobs/snapshots.rs), and a job's body as far as it talks to them        *)
(* (jobs/execution.rs).  The queue underneath is JobSlots.                 *)
(*                                                                         *)
(* Callers are the threads that run commands and window events; each job   *)
(* has a body on a worker thread.  Locks: the registry (held by submit     *)
(* around the queue's submit), the snapshots (held by an answer around     *)
(* the bridge), and the answer of a bridge slot (held by the body while it *)
(* looks).  Queue order, positions, progress, revisions and pruning are    *)
(* those of JobQueue and JobFeed.                                          *)
(***************************************************************************)
EXTENDS JobSlots, FiniteSets

CONSTANTS Windows,      \* labels of windows
          Owner,        \* job -> the window that submits it
          MaxSteps,     \* bound: checkpoints, phases and questions of a job
          MaxCalls      \* bound: pauses, resumes, queries and cancellations

ASSUME ManagerAssumption ==
  /\ Owner \in [Jobs -> Windows]
  /\ MaxSteps \in Nat /\ MaxCalls \in Nat

Shown(outcome) == CASE outcome = "Done"      -> "done"
                    [] outcome = "Failed"    -> "failed"
                    [] outcome = "Cancelled" -> "cancelled"
EndShown   == {"done", "failed", "cancelled"}
ShownState == {"none", "queued", "running", "paused"} \cup EndShown

\* A question is known by the revision it was asked at; 0 is no question.
Snapshot == [state : ShownState, question : Nat]

\* The bridge's slot of a job: `answer` is the question that the answer in it
\* was given to.
BridgeSlot == [there : BOOLEAN, answer : Nat]
NoBridge   == [there |-> FALSE, answer |-> 0]

BodyAt == {"out", "claimed", "starting", "work", "checkpoint", "asking",
           "waiting", "looking", "clearing", "ending", "ended"}
Body == [at : BodyAt, seen : BOOLEAN, steps : Nat, asked : Nat, got : Nat,
         outcome : Terminal \cup {"none"}]
NoBody == [at |-> "out", seen |-> FALSE, steps |-> 0, asked |-> 0, got |-> 0,
           outcome |-> "none"]

CallAt == {"idle", "submit", "register", "reconcile", "pause", "pausing",
           "showPaused", "resume", "resuming", "showResumed", "cancel",
           "cancelled", "answer", "drain"}
CallState == [at : CallAt, job : Jobs \cup {NoJob}, jobs : SUBSET Jobs,
              found : [Jobs -> JobStates], version : Nat,
              then : {"idle", "submit", "drain"}]
Unseen == [j \in Jobs |-> "Absent"]
Idle == [at |-> "idle", job |-> NoJob, jobs |-> {}, found |-> Unseen,
         version |-> 0, then |-> "idle"]

VARIABLES
  registry,    \* jobs that can be controlled
  released,    \* windows that are gone
  quitting,    \* the program has been asked to end
  snap,        \* job -> Snapshot
  asked,       \* questions asked so far
  bridge,      \* job -> BridgeSlot
  body,        \* job -> Body
  call,        \* caller -> CallState
  calls,       \* calls made
  spared       \* history: jobs that refused their window's cancellation

jobVars == <<registry, released, quitting, snap, asked, bridge, body>>
vars == <<slotVars, jobVars, call, calls, spared>>

TypeOK ==
  /\ SlotsTypeOK
  /\ registry \in SUBSET Jobs
  /\ released \in SUBSET Windows
  /\ quitting \in BOOLEAN
  /\ snap \in [Jobs -> Snapshot]
  /\ asked \in Nat
  /\ bridge \in [Jobs -> BridgeSlot]
  /\ body \in [Jobs -> Body]
  /\ \A j \in Jobs : j \in executing <=> body[j].at # "out"
  /\ call \in [Callers -> CallState]
  /\ calls \in 0..MaxCalls
  /\ spared \in SUBSET Jobs

Init ==
  /\ SlotsInit
  /\ registry = {} /\ released = {} /\ quitting = FALSE
  /\ snap = [j \in Jobs |-> [state |-> "none", question |-> 0]]
  /\ asked = 0
  /\ bridge = [j \in Jobs |-> NoBridge]
  /\ body = [j \in Jobs |-> NoBody]
  /\ call = [c \in Callers |-> Idle]
  /\ calls = 0
  /\ spared = {}

RegistryFree  == \A c \in Callers : call[c].at # "register"
SnapshotsFree == \A c \in Callers : call[c].at # "answer"

BodyGoes(j, at) == body' = [body EXCEPT ![j].at = at]
CallGoes(c, state) == call' = [call EXCEPT ![c] = state]
Returns(c) == CallGoes(c, Idle)

-----------------------------------------------------------------------------
(***************************************************************************)
(* Snapshots: the end of a job is final and takes the question away; a     *)
(* starting job is shown only if it is still shown as queued.              *)
(***************************************************************************)
SetState(s, state) ==
  IF s.state \in EndShown THEN s
  ELSE [state |-> state, question |-> IF state \in EndShown THEN 0
                                      ELSE s.question]

SetStartingState(s, state) == IF s.state = "queued" THEN SetState(s, state)
                              ELSE s

-----------------------------------------------------------------------------
(***************************************************************************)
(* The body of job j, on a worker thread.                                  *)
(***************************************************************************)
\* The worker takes the closure off the slot.
Start(j) ==
  /\ Claim(j)
  /\ BodyGoes(j, "claimed")
  /\ UNCHANGED <<registry, released, quitting, snap, asked, bridge, call,
                 calls, spared>>

\* is_paused, and set_starting_state some time later.
ReadPaused(j) ==
  /\ body[j].at = "claimed"
  /\ body' = [body EXCEPT ![j].at = "starting", ![j].seen = slots[j].paused]
  /\ UNCHANGED <<slotVars, registry, released, quitting, snap, asked, bridge,
                 call, calls, spared>>

ShowStarting(j) ==
  /\ body[j].at = "starting" /\ SnapshotsFree
  /\ snap' = [snap EXCEPT ![j] = SetStartingState(@,
                IF body[j].seen THEN "paused" ELSE "running")]
  /\ body' = [body EXCEPT ![j].at = "work", ![j].seen = FALSE]
  /\ UNCHANGED <<slotVars, registry, released, quitting, asked, bridge, call,
                 calls, spared>>

Ending(outcome) == [NoBody EXCEPT !.at = "ending", !.outcome = outcome]

Step(j) == body[j].at = "work" /\ body[j].steps < MaxSteps

\* A phase is announced through the gate of the queue.
Phase(j) ==
  /\ Step(j)
  /\ \E interruptible \in BOOLEAN : Gate(j, interruptible)
  /\ body' = [body EXCEPT ![j].steps = @ + 1]
  /\ UNCHANGED <<registry, released, quitting, snap, asked, bridge, call,
                 calls, spared>>

Reach(j) ==
  /\ Step(j)
  /\ body' = [body EXCEPT ![j].steps = @ + 1, ![j].at = "checkpoint"]
  /\ UNCHANGED <<slotVars, registry, released, quitting, snap, asked, bridge,
                 call, calls, spared>>

\* ControlToken::checkpoint waits while the job is paused.
Checkpoint(j) ==
  /\ body[j].at = "checkpoint"
  /\ slots[j].cancelled \/ ~slots[j].paused
  /\ body' = IF slots[j].cancelled
             THEN [body EXCEPT ![j] = Ending("Cancelled")]
             ELSE [body EXCEPT ![j].at = "work"]
  /\ UNCHANGED <<slotVars, registry, released, quitting, snap, asked, bridge,
                 call, calls, spared>>

\* prepare: the slot is there before the question is.  Conflicts and passwords
\* come up while a job reads and extracts, never in a phase that commits.
Prepare(j) ==
  /\ Step(j) /\ slots[j].interruptible
  /\ bridge' = [bridge EXCEPT ![j].there = TRUE]
  /\ body' = [body EXCEPT ![j].steps = @ + 1, ![j].at = "asking"]
  /\ UNCHANGED <<slotVars, registry, released, quitting, snap, asked, call,
                 calls, spared>>

\* JobSnapshotStore::ask; a job that is shown as ended does not ask.
Ask(j) ==
  /\ body[j].at = "asking" /\ SnapshotsFree
  /\ IF snap[j].state \in EndShown
     THEN /\ bridge' = [bridge EXCEPT ![j] = NoBridge]
          /\ body' = [body EXCEPT ![j] = Ending("Cancelled")]
          /\ UNCHANGED <<snap, asked>>
     ELSE /\ asked' = asked + 1
          /\ snap' = [snap EXCEPT ![j].question = asked']
          /\ body' = [body EXCEPT ![j].at = "waiting", ![j].asked = asked']
          /\ UNCHANGED bridge
  /\ UNCHANGED <<slotVars, registry, released, quitting, call, calls, spared>>

\* AskBridge::wait, under the lock of the answer: first the cancellation ...
LookCancelled(j) ==
  /\ body[j].at = "waiting"
  /\ IF slots[j].cancelled
     THEN /\ bridge' = [bridge EXCEPT ![j] = NoBridge]
          /\ body' = [body EXCEPT ![j].at = "clearing", ![j].got = 0]
     ELSE /\ BodyGoes(j, "looking")
          /\ UNCHANGED bridge
  /\ UNCHANGED <<slotVars, registry, released, quitting, snap, asked, call,
                 calls, spared>>

\* ... then the answer; with neither it sleeps for at most 100 ms.
TakeAnswer(j) ==
  /\ body[j].at = "looking"
  /\ IF bridge[j].answer # 0
     THEN /\ body' = [body EXCEPT ![j].at = "clearing",
                                  ![j].got = bridge[j].answer]
          /\ bridge' = [bridge EXCEPT ![j] = NoBridge]
     ELSE /\ BodyGoes(j, "waiting")
          /\ UNCHANGED bridge
  /\ UNCHANGED <<slotVars, registry, released, quitting, snap, asked, call,
                 calls, spared>>

\* Without an answer, and with one that says so, the job stops.
AfterQuestion(j) ==
  \/ /\ body[j].got # 0
     /\ body' = [body EXCEPT ![j].at = "work", ![j].asked = 0, ![j].got = 0]
  \/ body' = [body EXCEPT ![j] = Ending("Cancelled")]

\* clear_question.
ClearQuestion(j) ==
  /\ body[j].at = "clearing" /\ SnapshotsFree
  /\ snap' = [snap EXCEPT ![j].question = 0]
  /\ AfterQuestion(j)
  /\ UNCHANGED <<slotVars, registry, released, quitting, asked, bridge, call,
                 calls, spared>>

Return(j) ==
  /\ body[j].at = "work"
  /\ \E o \in {"Done", "Failed"} : body' = [body EXCEPT ![j] = Ending(o)]
  /\ UNCHANGED <<slotVars, registry, released, quitting, snap, asked, bridge,
                 call, calls, spared>>

\* Mutant: the panic takes the worker thread along.
Panic_EndsWorker(j) ==
  /\ body[j].at = "work"
  /\ body' = [body EXCEPT ![j] = NoBody]
  /\ UNCHANGED <<slotVars, registry, released, quitting, snap, asked, bridge,
                 call, calls, spared>>

\* worker_loop catches a panic: the snapshot hears nothing of it.
Panic(j) ==
  /\ body[j].at = "work"
  /\ body' = [body EXCEPT ![j] = [Ending("Failed") EXCEPT !.at = "ended"]]
  /\ UNCHANGED <<slotVars, registry, released, quitting, snap, asked, bridge,
                 call, calls, spared>>

ShowEnd(j) ==
  /\ body[j].at = "ending" /\ SnapshotsFree
  /\ snap' = [snap EXCEPT ![j] = SetState(@, Shown(body[j].outcome))]
  /\ BodyGoes(j, "ended")
  /\ UNCHANGED <<slotVars, registry, released, quitting, asked, bridge, call,
                 calls, spared>>

End(j) ==
  /\ body[j].at = "ended"
  /\ Finish(j, body[j].outcome)
  /\ body' = [body EXCEPT ![j] = NoBody]
  /\ UNCHANGED <<registry, released, quitting, snap, asked, bridge, call,
                 calls, spared>>

\* A worker takes the job off the queue; if it is cancelled before it is
\* claimed the worker lets it go.
Take(j) ==
  /\ Reserve(j)
  /\ UNCHANGED <<jobVars, call, calls, spared>>

Drop(j) ==
  /\ LetGo(j)
  /\ UNCHANGED <<jobVars, call, calls, spared>>

-----------------------------------------------------------------------------
(***************************************************************************)
(* Commands and window events, by caller c.                                *)
(***************************************************************************)
MayCall(c) == call[c].at = "idle"
Called == calls < MaxCalls /\ calls' = calls + 1

\* cleanup_terminal_queue_slots, with which submissions, queries and the end
\* begin or close: entries whose slot is over leave the registry, ...
TidyUp(c, next, job) ==
  LET over == {j \in registry : Over(j)} IN
  /\ RegistryFree
  /\ registry' = registry \ over
  /\ CallGoes(c, [Idle EXCEPT !.at = "reconcile", !.job = job, !.jobs = over,
       !.then = next, !.found = [j \in Jobs |-> IF j \in over THEN slots[j].state
                                 ELSE "Absent"]])

\* ... and then each gets the end that was found, and its slot is forgotten.
Reconcile(c, j) ==
  /\ snap' = [snap EXCEPT ![j] = SetState(@, Shown(call[c].found[j]))]
  /\ IF Over(j) THEN Forget(j) ELSE UNCHANGED slotVars

Tidy(c) ==
  /\ call[c].at = "reconcile" /\ SnapshotsFree
  /\ \/ \E j \in call[c].jobs :
          /\ Reconcile(c, j)
          /\ CallGoes(c, [call[c] EXCEPT !.jobs = @ \ {j}])
     \/ /\ call[c].jobs = {}
        /\ CallGoes(c, [Idle EXCEPT !.at = call[c].then, !.job = call[c].job])
        /\ UNCHANGED <<slotVars, snap>>
  /\ UNCHANGED <<registry, released, quitting, asked, bridge, body, calls,
                 spared>>

\* A query for snapshots.
Query(c) ==
  /\ MayCall(c) /\ Called
  /\ TidyUp(c, "idle", NoJob)
  /\ UNCHANGED <<slotVars, released, quitting, snap, asked, bridge, body,
                 spared>>

BeginSubmit(c) ==
  /\ MayCall(c)
  /\ \E j \in Jobs :
       /\ snap[j].state = "none" /\ \A d \in Callers : call[d].job # j
       /\ TidyUp(c, "submit", j)
  /\ UNCHANGED <<slotVars, released, quitting, snap, asked, bridge, body,
                 calls, spared>>

\* Mutant: only the end of the program is looked at.
Refused_WhenQuitting(j) == quitting

\* submit_with_owner holds the registry from this check to the new entry.
Refused(j) == quitting \/ Owner[j] \in released

Submit(c) ==
  LET j == call[c].job IN
  /\ call[c].at = "submit" /\ RegistryFree /\ SnapshotsFree
  /\ IF Refused(j)
     THEN /\ snap' = [snap EXCEPT ![j].state = "cancelled"]
          /\ Returns(c)
          /\ UNCHANGED slotVars
     ELSE /\ snap' = [snap EXCEPT ![j].state = "queued"]
          /\ Enter(j)
          /\ CallGoes(c, [call[c] EXCEPT !.at = "register"])
  /\ UNCHANGED <<registry, released, quitting, asked, bridge, body, calls,
                 spared>>

Register(c) ==
  /\ call[c].at = "register"
  /\ registry' = registry \cup {call[c].job}
  /\ Returns(c)
  /\ UNCHANGED <<slotVars, released, quitting, snap, asked, bridge, body,
                 calls, spared>>

-----------------------------------------------------------------------------
(***************************************************************************)
(* pause_for_window: state before, try_pause, state after, snapshot.       *)
(***************************************************************************)
BeginPause(c) ==
  /\ MayCall(c) /\ Called /\ RegistryFree
  /\ \E j \in registry :
       /\ slots[j].state \in {"Queued", "Running"}
       /\ CallGoes(c, [Idle EXCEPT !.at = "pause", !.job = j,
                                   !.found = [Unseen EXCEPT ![j] =
                                                slots[j].state]])
  /\ UNCHANGED <<slotVars, jobVars, spared>>

TryPause(c) ==
  LET j == call[c].job IN
  /\ call[c].at = "pause"
  /\ \/ /\ Pause(c, j)
        /\ CallGoes(c, [call[c] EXCEPT !.at = "pausing"])
     \/ /\ ~(Live(j) /\ slots[j].interruptible)
        /\ Returns(c)
        /\ UNCHANGED slotVars
  /\ UNCHANGED <<jobVars, calls, spared>>

\* The second critical section of try_pause and of resume.
WriteBack(c) ==
  /\ call[c].at \in {"pausing", "resuming"}
  /\ WriteState(c)
  /\ UNCHANGED <<jobVars, call, calls, spared>>

LookPaused(c) ==
  LET j == call[c].job IN
  /\ call[c].at = "pausing" /\ writing[c] = Nothing
  /\ IF \/ slots[j].state = "Paused"
        \/ slots[j].state = "Queued" /\ call[c].found[j] = "Queued"
     THEN CallGoes(c, [call[c] EXCEPT !.at = "showPaused"])
     ELSE Returns(c)
  /\ UNCHANGED <<slotVars, jobVars, calls, spared>>

ShowPaused(c) ==
  /\ call[c].at = "showPaused" /\ SnapshotsFree
  /\ snap' = [snap EXCEPT ![call[c].job] = SetState(@, "paused")]
  /\ Returns(c)
  /\ UNCHANGED <<slotVars, registry, released, quitting, asked, bridge, body,
                 calls, spared>>

(***************************************************************************)
(* resume_for_window: the snapshot decides whether there is anything to    *)
(* resume, the queue's state afterwards what the snapshot is set to.       *)
(***************************************************************************)
BeginResume(c) ==
  /\ MayCall(c) /\ Called /\ RegistryFree /\ SnapshotsFree
  /\ \E j \in registry :
       /\ snap[j].state = "paused"
       /\ CallGoes(c, [Idle EXCEPT !.at = "resume", !.job = j])
  /\ UNCHANGED <<slotVars, jobVars, spared>>

ResumeQueue(c) ==
  LET j == call[c].job IN
  /\ call[c].at = "resume"
  /\ IF Known(j) THEN Resume(c, j) ELSE UNCHANGED slotVars
  /\ CallGoes(c, [call[c] EXCEPT !.at = "resuming"])
  /\ UNCHANGED <<jobVars, calls, spared>>

LookResumed(c) ==
  LET j == call[c].job IN
  /\ call[c].at = "resuming" /\ writing[c] = Nothing
  /\ IF slots[j].state \in {"Queued", "Running"}
     THEN CallGoes(c, [call[c] EXCEPT !.at = "showResumed",
                         !.found = [Unseen EXCEPT ![j] = slots[j].state]])
     ELSE Returns(c)
  /\ UNCHANGED <<slotVars, jobVars, calls, spared>>

ShowResumed(c) ==
  LET j == call[c].job IN
  /\ call[c].at = "showResumed" /\ SnapshotsFree
  /\ snap' = [snap EXCEPT ![j] = SetState(@,
                IF call[c].found[j] = "Queued" THEN "queued" ELSE "running")]
  /\ Returns(c)
  /\ UNCHANGED <<slotVars, registry, released, quitting, asked, bridge, body,
                 calls, spared>>

-----------------------------------------------------------------------------
(***************************************************************************)
(* Cancellation: of one job, of all jobs of a window that is gone, and of  *)
(* all jobs at the end.  The jobs are collected under the registry lock.   *)
(***************************************************************************)
Collects(c, js, next) ==
  CallGoes(c, [Idle EXCEPT !.at = "cancel", !.jobs = js, !.then = next])

CancelOne(c) ==
  /\ MayCall(c) /\ Called /\ RegistryFree
  /\ \E j \in registry : Collects(c, {j}, "idle")
  /\ UNCHANGED <<slotVars, jobVars, spared>>

ReleaseWindow(c) ==
  /\ MayCall(c) /\ Called /\ RegistryFree
  /\ \E w \in Windows \ released :
       /\ released' = released \cup {w}
       /\ Collects(c, {j \in registry : Owner[j] = w}, "idle")
  /\ UNCHANGED <<slotVars, registry, quitting, snap, asked, bridge, body,
                 spared>>

\* Mutant: submissions are still let in.
CancelAll_StaysOpen(c) ==
  /\ MayCall(c) /\ Called /\ RegistryFree
  /\ \E next \in {"idle", "drain"} : Collects(c, registry, next)
  /\ UNCHANGED <<slotVars, jobVars, spared>>

\* ExitRequested cancels everything, Exit does so again and waits.
CancelAll(c) ==
  /\ MayCall(c) /\ Called /\ RegistryFree
  /\ quitting' = TRUE
  /\ \E next \in {"idle", "drain"} : Collects(c, registry, next)
  /\ UNCHANGED <<slotVars, registry, released, snap, asked, bridge, body,
                 spared>>

CancelManaged(c) ==
  LET js == call[c].jobs IN
  /\ call[c].at = "cancel"
  /\ IF \E j \in js : Cancellable(j) THEN Cancel(js) ELSE UNCHANGED slotVars
  /\ CallGoes(c, [call[c] EXCEPT !.at = "cancelled",
                                 !.jobs = {j \in js : Cancellable(j)}])
  /\ spared' = spared \cup {j \in js : Live(j) /\ ~slots[j].interruptible}
  /\ UNCHANGED <<jobVars, calls>>

\* Mutant: a job that accepted the cancellation is shown as cancelled.
ShowCancelled_AtOnce(c, j) ==
  snap' = [snap EXCEPT ![j] = SetState(@, "cancelled")]

\* Each job that accepted is woken in case it asks; a queued one is over.
ShowCancelled(c, j) ==
  snap' = [snap EXCEPT ![j] = IF slots[j].state = "Cancelled"
                              THEN SetState(@, "cancelled") ELSE @]

WakeCancelled(c) ==
  /\ call[c].at = "cancelled" /\ SnapshotsFree
  /\ \/ \E j \in call[c].jobs :
          /\ ShowCancelled(c, j)
          /\ CallGoes(c, [call[c] EXCEPT !.jobs = @ \ {j}])
     \/ /\ call[c].jobs = {}
        /\ CallGoes(c, [Idle EXCEPT !.at = call[c].then])
        /\ UNCHANGED snap
  /\ UNCHANGED <<slotVars, registry, released, quitting, asked, bridge, body,
                 calls, spared>>

\* wait_idle of the queue, and the last cleanup.
Idling == executing = {} /\ reserved = {} /\ \A j \in Jobs : ~slots[j].closure
WaitIdle(c) ==
  /\ call[c].at = "drain" /\ Idling
  /\ TidyUp(c, "idle", NoJob)
  /\ UNCHANGED <<slotVars, released, quitting, snap, asked, bridge, body,
                 calls, spared>>

-----------------------------------------------------------------------------
(***************************************************************************)
(* answer_question: the window answers a question it has been shown.  The  *)
(* snapshots stay locked until the answer is in the bridge.                *)
(***************************************************************************)
\* Mutant: any question of the job will do.
Current_Any(j, v) == snap[j].question # 0

Current(j, v) == snap[j].question = v

BeginAnswer(c) ==
  /\ MayCall(c) /\ RegistryFree /\ SnapshotsFree
  /\ \E j \in registry, v \in 1..asked :
       /\ Current(j, v)
       /\ bridge[j].there
       /\ CallGoes(c, [Idle EXCEPT !.at = "answer", !.job = j,
                                   !.version = v])
  /\ UNCHANGED <<slotVars, jobVars, calls, spared>>

\* AskBridge::answer: a slot that the body has left meanwhile takes the answer
\* away with it; one that holds an answer keeps it.
Answer(c) ==
  LET j == call[c].job IN
  /\ call[c].at = "answer"
  /\ body[j].at # "looking"
  /\ IF bridge[j].there /\ bridge[j].answer # 0
     THEN UNCHANGED <<bridge, snap>>
     ELSE /\ bridge' = IF bridge[j].there
                       THEN [bridge EXCEPT ![j].answer = call[c].version]
                       ELSE bridge
          /\ snap' = [snap EXCEPT ![j].question = 0]
  /\ Returns(c)
  /\ UNCHANGED <<slotVars, registry, released, quitting, asked, body, calls,
                 spared>>

-----------------------------------------------------------------------------
BodyStep(j) ==
  \/ ReadPaused(j) \/ ShowStarting(j) \/ Phase(j) \/ Reach(j) \/ Checkpoint(j)
  \/ Prepare(j) \/ Ask(j) \/ LookCancelled(j) \/ TakeAnswer(j)
  \/ ClearQuestion(j) \/ Return(j) \/ Panic(j) \/ ShowEnd(j) \/ End(j)

CallBegins(c) ==
  \/ Query(c) \/ BeginSubmit(c) \/ BeginPause(c) \/ BeginResume(c)
  \/ CancelOne(c) \/ ReleaseWindow(c) \/ CancelAll(c) \/ BeginAnswer(c)

CallGoesOn(c) ==
  \/ Tidy(c) \/ Submit(c) \/ Register(c) \/ TryPause(c) \/ WriteBack(c)
  \/ LookPaused(c) \/ ShowPaused(c) \/ ResumeQueue(c) \/ LookResumed(c)
  \/ ShowResumed(c) \/ CancelManaged(c) \/ WakeCancelled(c) \/ WaitIdle(c)
  \/ Answer(c)

Next ==
  \/ \E j \in Jobs : Take(j) \/ Drop(j) \/ Start(j) \/ BodyStep(j)
  \/ \E c \in Callers : CallBegins(c) \/ CallGoesOn(c)

Spec == Init /\ [][Next]_vars

(***************************************************************************)
(* Threads run, bodies make progress, a worker claims what it reserved.    *)
(* Nobody has to answer, to resume or to close anything.                   *)
(***************************************************************************)
Fairness ==
  /\ \A j \in Jobs : WF_vars(BodyStep(j)) /\ WF_vars(Start(j) \/ Drop(j))
  /\ \A c \in Callers : WF_vars(CallGoesOn(c))

FairSpec == Spec /\ Fairness

-----------------------------------------------------------------------------
(***************************************************************************)
(* Safety.                                                                 *)
(***************************************************************************)
\* An answer that a body acts on was given to the question it has just asked,
\* not to an earlier one that was answered, withdrawn or asked again.
\* [jobs.rs answer_question; bridge.rs wait, answer]
AnswersItsQuestion ==
  \A j \in Jobs : body[j].got # 0 => body[j].got = body[j].asked

\* A question is on display only while its body waits for the answer and has
\* none: whoever answers, cancels or ends the job takes it away, and nobody
\* takes a later one away instead.  [execution.rs resolve, with_password;
\* snapshots.rs ask, clear_question, set_state]
ShownQuestionWaits ==
  \A j \in Jobs : SnapshotsFree /\ snap[j].question # 0 =>
    /\ j \in executing
    /\ body[j].at \in {"waiting", "looking", "clearing"}
    /\ body[j].asked = snap[j].question
    /\ body[j].got = 0 /\ bridge[j].answer = 0

\* Questions and answers stay in step.  [bridge.rs prepare, wait, answer]
QuestionsInStep == AnswersItsQuestion /\ ShownQuestionWaits

\* Once a window is gone none of its jobs waits or runs on, except the ones
\* that its cancellation reached and those in a phase that refused it; a
\* submission under way when the window goes is no exception.  The end of the
\* program does the same for all.  [jobs.rs submit_with_owner,
\* release_window, cancel_all: "a close racing with an in-flight IPC
\* submission cannot leave an orphaned job behind"]
Gone(j) == quitting \/ Owner[j] \in released
Reaching(j) == \E c \in Callers : call[c].at = "cancel" /\ j \in call[c].jobs
NoOrphanedJob ==
  \A j \in Jobs : Gone(j) /\ ~Reaching(j) =>
    ~Waiting(j) /\ (j \in executing => slots[j].cancelled \/ j \in spared)

\* What a snapshot says about the end of a job is true and final: the job is
\* not queued any more, its body is through with that outcome, and no job
\* leaves the registry without an end on display.  [jobs.rs
\* cancel_managed_jobs, reconcile_core_terminal_snapshot]
Tidying(j) == \E c \in Callers : call[c].at = "reconcile" /\ j \in call[c].jobs
EndsAreTrue ==
  \A j \in Jobs :
    /\ snap[j].state \in EndShown =>
         /\ ~Waiting(j)
         /\ j \in executing => /\ body[j].at = "ended"
                               /\ snap[j].state = Shown(body[j].outcome)
         /\ j \notin executing /\ Over(j) =>
              snap[j].state = Shown(slots[j].state)
    /\ slots[j].state = "Absent" /\ snap[j].state # "none" /\ ~Tidying(j)
         => snap[j].state \in EndShown

-----------------------------------------------------------------------------
(***************************************************************************)
(* Liveness.                                                               *)
(***************************************************************************)
\* A cancelled job ends, also when it waits for an answer that nobody gives.
\* [bridge.rs wait; execution.rs resolve, with_password]
CancelledJobEnds ==
  \A j \in Jobs : (slots[j].cancelled /\ j \in executing) ~> j \notin executing

\* A question that was answered does not stop its job any longer.
\* [bridge.rs wait, answer]
AnsweredJobGoesOn ==
  \A j \in Jobs : bridge[j].answer # 0 ~> bridge[j].answer = 0

\* The exit ends unless, from some moment on, a job waits for somebody to resume
\* it or to answer it that refused the cancellation: it announced an
\* uninterruptible phase before the cancellation came, and what it does after
\* that phase no cancellation reaches.  Whatever was queued, cancelled, asked
\* before or is being submitted does not hold the exit up.
\* [jobs.rs cancel_all, wait_idle; queue.rs request_cancel_many]
Parked(j) ==
  \/ body[j].at = "checkpoint" /\ slots[j].paused
  \/ body[j].at \in {"waiting", "looking"} /\ bridge[j].answer = 0
LeftBehind(j) == j \in spared /\ ~slots[j].cancelled /\ Parked(j)
ExitEndsUnlessHeld ==
  \A c \in Callers : \/ []<>(call[c].at # "drain")
                     \/ \E j \in Jobs : <>[]LeftBehind(j)

\* Nobody waits for ever for another thread: not a body for its answer, nor a
\* user for a cancelled job, nor the exit for the queue.
\* [bridge.rs wait; jobs.rs cancel_all, wait_idle]
EveryoneGetsOn == CancelledJobEnds /\ AnsweredJobGoesOn /\ ExitEndsUnlessHeld

-----------------------------------------------------------------------------
(***************************************************************************)
(* What the comments say and the code does not do.                         *)
(***************************************************************************)
\* "Cancels all unfinished jobs before application shutdown" (cancel_all), and
\* "Blocks until all queued and running work has drained" (wait_idle): the
\* exit waits for jobs that were cancelled or cannot be, and so it ends.
ExitEnds == \A c \in Callers : call[c].at = "drain" ~> call[c].at # "drain"
=============================================================================
