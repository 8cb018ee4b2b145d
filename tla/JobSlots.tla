------------------------------ MODULE JobSlots ------------------------------
(***************************************************************************)
(* What the task queue promises about its jobs, whoever schedules them:    *)
(* the slots of crates/squallz-core/src/queue.rs and the critical sections *)
(* that change them.  Order, limits, threads and notifications are left    *)
(* out.  JobQueue implements this specification, JobManager is built on    *)
(* its actions.                                                            *)
(***************************************************************************)
EXTENDS Naturals

CONSTANTS Jobs,         \* the jobs that may be submitted
          NoJob,
          Callers       \* threads that use the queue

ASSUME SlotsAssumption == NoJob \notin Jobs

Terminal  == {"Done", "Failed", "Cancelled"}
JobStates == {"Absent", "Queued", "Running", "Paused"} \cup Terminal

\* `closure` says that the job is still there to be taken; `paused` and
\* `cancelled` are the flags of its control token.
Slot == [state : JobStates, paused : BOOLEAN, cancelled : BOOLEAN,
         interruptible : BOOLEAN, closure : BOOLEAN]
NoSlot == [state |-> "Absent", paused |-> FALSE, cancelled |-> FALSE,
           interruptible |-> FALSE, closure |-> FALSE]

\* The state that a pause or a resume has decided on and not yet written.
Write   == [job : Jobs, state : {"Paused", "Running"}]
Nothing == [job |-> NoJob, state |-> "none"]

VARIABLES
  slots,       \* job -> Slot
  reserved,    \* jobs that a worker has taken off the queue to claim them
  executing,   \* jobs whose closure a worker runs
  writing      \* caller -> Write or Nothing

slotVars == <<slots, reserved, executing, writing>>

SlotsTypeOK ==
  /\ slots \in [Jobs -> Slot]
  /\ reserved \in SUBSET Jobs
  /\ executing \in SUBSET Jobs
  /\ writing \in [Callers -> Write \cup {Nothing}]

SlotsInit ==
  /\ slots = [j \in Jobs |-> NoSlot]
  /\ reserved = {} /\ executing = {}
  /\ writing = [c \in Callers |-> Nothing]

Known(j) == slots[j].state # "Absent"
Over(j)  == slots[j].state \in Terminal
Live(j)  == Known(j) /\ ~Over(j)
Waiting(j) == slots[j].state = "Queued" /\ slots[j].closure

-----------------------------------------------------------------------------
(***************************************************************************)
(* A job's way through the queue.                                          *)
(***************************************************************************)
Enter(j) ==
  /\ ~Known(j)
  /\ slots' = [slots EXCEPT ![j] =
       [state |-> "Queued", paused |-> FALSE, cancelled |-> FALSE,
        interruptible |-> TRUE, closure |-> TRUE]]
  /\ UNCHANGED <<reserved, executing, writing>>

Reserve(j) ==
  /\ Waiting(j) /\ ~slots[j].paused
  /\ j \notin reserved
  /\ reserved' = reserved \cup {j}
  /\ UNCHANGED <<slots, executing, writing>>

\* Whether it was paused in the meantime is decided here.
Claim(j) ==
  /\ j \in reserved /\ Waiting(j)
  /\ slots' = [slots EXCEPT
       ![j].state = IF slots[j].paused THEN "Paused" ELSE "Running",
       ![j].closure = FALSE]
  /\ reserved' = reserved \ {j}
  /\ executing' = executing \cup {j}
  /\ UNCHANGED writing

\* A job that was cancelled after its reservation is let go.
LetGo(j) ==
  /\ j \in reserved /\ ~Waiting(j)
  /\ reserved' = reserved \ {j}
  /\ UNCHANGED <<slots, executing, writing>>

\* The phase gate.
Gate(j, interruptible) ==
  /\ j \in executing
  /\ slots' = [slots EXCEPT ![j].interruptible = interruptible]
  /\ UNCHANGED <<reserved, executing, writing>>

Finish(j, outcome) ==
  /\ j \in executing
  /\ slots' = [slots EXCEPT ![j].state = outcome]
  /\ executing' = executing \ {j}
  /\ UNCHANGED <<reserved, writing>>

Forget(j) ==
  /\ Over(j)
  /\ slots' = [slots EXCEPT ![j] = NoSlot]
  /\ UNCHANGED <<reserved, executing, writing>>

-----------------------------------------------------------------------------
(***************************************************************************)
(* Control.  The flag is set in one critical section; the state that goes  *)
(* with it is written in another one, whatever it has become by then.      *)
(***************************************************************************)
Pause(c, j) ==
  /\ writing[c] = Nothing
  /\ Live(j) /\ slots[j].interruptible
  /\ slots' = [slots EXCEPT ![j].paused = TRUE]
  /\ writing' = IF slots[j].state = "Running"
                THEN [writing EXCEPT ![c] = [job |-> j, state |-> "Paused"]]
                ELSE writing
  /\ UNCHANGED <<reserved, executing>>

Resume(c, j) ==
  /\ writing[c] = Nothing
  /\ Known(j)
  /\ slots' = [slots EXCEPT ![j].paused = FALSE]
  /\ writing' = IF slots[j].state = "Paused"
                THEN [writing EXCEPT ![c] = [job |-> j, state |-> "Running"]]
                ELSE writing
  /\ UNCHANGED <<reserved, executing>>

WriteState(c) ==
  LET w == writing[c] IN
  /\ w # Nothing
  /\ slots' = IF Known(w.job)
              THEN [slots EXCEPT ![w.job].state = w.state] ELSE slots
  /\ writing' = [writing EXCEPT ![c] = Nothing]
  /\ UNCHANGED <<reserved, executing>>

\* request_cancel_many: those of js that accept it.
Cancellable(j) == Live(j) /\ slots[j].interruptible /\ ~slots[j].cancelled

Cancel(js) ==
  /\ \E j \in js : Cancellable(j)
  /\ slots' = [j \in Jobs |->
       IF ~(j \in js /\ Cancellable(j)) THEN slots[j]
       ELSE IF Waiting(j)
            THEN [slots[j] EXCEPT !.cancelled = TRUE, !.closure = FALSE,
                                  !.state = "Cancelled"]
       ELSE [slots[j] EXCEPT !.cancelled = TRUE]]
  /\ UNCHANGED <<reserved, executing, writing>>

-----------------------------------------------------------------------------
SlotsNext ==
  \/ \E j \in Jobs :
       \/ Enter(j) \/ Reserve(j) \/ Claim(j) \/ LetGo(j) \/ Forget(j)
       \/ \E b \in BOOLEAN : Gate(j, b)
       \/ \E o \in Terminal : Finish(j, o)
  \/ \E c \in Callers :
       \/ \E j \in Jobs : Pause(c, j) \/ Resume(c, j)
       \/ WriteState(c)
  \/ \E js \in SUBSET Jobs : Cancel(js)

SlotsSpec == SlotsInit /\ [][SlotsNext]_slotVars
=============================================================================
