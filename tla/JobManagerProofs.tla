-------------------------- MODULE JobManagerProofs --------------------------
(***************************************************************************)
(* The window program's jobs, proved.  Every job is submitted once; its    *)
(* slot is written by its body's worker while it runs and by nobody else   *)
(* but a late pause or resume, which cannot queue it again; the snapshot's *)
(* end is shown by whoever knows that the body is through; and a question  *)
(* is on display exactly while its body waits for it, because an answer    *)
(* holds the snapshots until it is in the bridge.                          *)
(***************************************************************************)
EXTENDS JobManager, TLAPS

-----------------------------------------------------------------------------
(***************************************************************************)
(* Types, and what a call or a body has at the point it has reached.       *)
(***************************************************************************)
ForJob == {"submit", "register", "pause", "pausing", "showPaused", "resume",
           "resuming", "showResumed", "answer"}
Submitting(state) ==
  state.at = "submit" \/ (state.at = "reconcile" /\ state.then = "submit")

CallOK(state) ==
  /\ state \in CallState
  /\ state.at \in ForJob \/ Submitting(state) => state.job \in Jobs
  /\ state.at = "reconcile" => \A j \in state.jobs : state.found[j] \in Terminal
  /\ state.at \in {"cancel", "cancelled"} => state.then # "submit"

BodyOK(b) == b \in Body /\ (b.at \in {"ending", "ended"} => b.outcome \in Terminal)

Typed ==
  /\ TypeOK
  /\ \A c \in Callers : CallOK(call[c])
  /\ \A j \in Jobs : BodyOK(body[j])

-----------------------------------------------------------------------------
(***************************************************************************)
(* A job is submitted once.  Until then nobody knows it but the caller     *)
(* that submits it, ...                                                    *)
(***************************************************************************)
Unknown(j) ==
  /\ slots[j].state = "Absent" /\ j \notin executing /\ j \notin registry
  /\ \A c \in Callers :
       /\ writing[c].job # j /\ j \notin call[c].jobs
       /\ call[c].job = j => Submitting(call[c])

Once ==
  /\ \A j \in Jobs : snap[j].state = "none" => Unknown(j)
  /\ \A c \in Callers : Submitting(call[c]) =>
       /\ snap[call[c].job].state = "none"
       /\ \A d \in Callers \ {c} : call[d].job # call[c].job

\* ... and then its slot is queued until it is taken or cancelled, and live
\* while its body runs.
SlotOK(j) ==
  /\ slots[j].closure =>
       /\ slots[j].state = "Queued" /\ j \notin executing
       /\ slots[j].interruptible /\ ~slots[j].cancelled
  /\ j \in executing => slots[j].state \in {"Running", "Paused"}
  /\ \A c \in Callers : writing[c].job = j => slots[j].state # "Queued"

Ways == Once /\ \A j \in Jobs : SlotOK(j)

-----------------------------------------------------------------------------
(***************************************************************************)
(* Questions and answers.                                                  *)
(***************************************************************************)
Open == {"waiting", "looking"}

\* An answer in the bridge or in the body's hands is that to its question.
Answered(j) ==
  /\ bridge[j].answer # 0 =>
       /\ body[j].at \in Open /\ bridge[j].there
       /\ bridge[j].answer = body[j].asked
  /\ body[j].at = "clearing" => ~bridge[j].there
  /\ body[j].got # 0 => body[j].at = "clearing" /\ body[j].got = body[j].asked

Displayed(j) ==
  snap[j].question # 0 =>
    /\ j \in executing /\ body[j].at \in Open \cup {"clearing"}
    /\ body[j].asked = snap[j].question
    /\ body[j].got = 0 /\ bridge[j].answer = 0

\* Who answers holds the snapshots, and so the question is still there.
Answering ==
  \A c \in Callers : call[c].at = "answer" =>
    /\ snap[call[c].job].question = call[c].version /\ call[c].version # 0
    /\ \A d \in Callers \ {c} : call[d].at # "answer"

Questions == Answering /\ \A j \in Jobs : Answered(j) /\ Displayed(j)

-----------------------------------------------------------------------------
(***************************************************************************)
(* Cancellation finds every job.                                           *)
(***************************************************************************)
Registering(j) == \E c \in Callers : call[c].at = "register" /\ call[c].job = j
Found == \A j \in Jobs :
  Waiting(j) \/ j \in executing => j \in registry \/ Registering(j)

Orphans == Found /\ NoOrphanedJob

-----------------------------------------------------------------------------
(***************************************************************************)
(* The end on display is the end.                                          *)
(***************************************************************************)
Reconciled ==
  \A c \in Callers : call[c].at = "reconcile" =>
    \A j \in call[c].jobs :
      /\ j \notin executing /\ ~Waiting(j)
      /\ Over(j) => slots[j].state = call[c].found[j]

\* A job that is shown as ended is through, and one whose slot is gone is shown
\* as ended.
EndOK(j) ==
  /\ snap[j].state \in EndShown =>
       /\ ~Waiting(j)
       /\ j \in executing => /\ body[j].at = "ended"
                             /\ snap[j].state = Shown(body[j].outcome)
       /\ j \notin executing /\ Over(j) => snap[j].state = Shown(slots[j].state)
  /\ slots[j].state = "Absent" /\ snap[j].state # "none" =>
       snap[j].state \in EndShown

Ends == Reconciled /\ \A j \in Jobs : EndOK(j)

-----------------------------------------------------------------------------
(***************************************************************************)
(* What steps leave alone.                                                 *)
(***************************************************************************)
\* A step of a job's worker changes what is its job's.
OfJob(j) == Take(j) \/ Drop(j) \/ Start(j) \/ BodyStep(j)
JobOnly(j) ==
  /\ UNCHANGED <<registry, released, quitting, call, calls, spared, writing>>
  /\ slots' = [slots EXCEPT ![j] = slots'[j]]
  /\ snap' = [snap EXCEPT ![j] = snap'[j]]
  /\ bridge' = [bridge EXCEPT ![j] = bridge'[j]]
  /\ body' = [body EXCEPT ![j] = body'[j]]
  /\ \A k \in Jobs \ {j} : k \in executing' <=> k \in executing

\* It holds of every step of a worker.
LEMMA JobsApart ==
  ASSUME TypeOK, NEW j \in Jobs, OfJob(j)
  PROVE  JobOnly(j)
<1> USE DEF JobOnly
<1>0. /\ DOMAIN slots = Jobs /\ slots = [k \in Jobs |-> slots[k]]
      /\ DOMAIN snap = Jobs /\ snap = [k \in Jobs |-> snap[k]]
      /\ DOMAIN bridge = Jobs /\ bridge = [k \in Jobs |-> bridge[k]]
      /\ DOMAIN body = Jobs /\ body = [k \in Jobs |-> body[k]]
  BY DEF TypeOK, SlotsTypeOK
<1>1. CASE Take(j)
  BY <1>0, <1>1 DEF Take, Reserve, jobVars
<1>2. CASE Drop(j)
  BY <1>0, <1>2 DEF Drop, LetGo, jobVars
<1>3. CASE Start(j)
  BY <1>0, <1>3 DEF Start, Claim, BodyGoes
<1>4. CASE ReadPaused(j)
  BY <1>0, <1>4 DEF ReadPaused, slotVars
<1>5. CASE ShowStarting(j)
  BY <1>0, <1>5 DEF ShowStarting, slotVars
<1>6. CASE Phase(j)
  BY <1>0, <1>6 DEF Phase, Gate
<1>7. CASE Reach(j)
  BY <1>0, <1>7 DEF Reach, slotVars
<1>8. CASE Checkpoint(j)
  BY <1>0, <1>8 DEF Checkpoint, slotVars
<1>9. CASE Prepare(j)
  BY <1>0, <1>9 DEF Prepare, slotVars
<1>10. CASE Ask(j)
  BY <1>0, <1>10 DEF Ask, slotVars
<1>11. CASE LookCancelled(j)
  BY <1>0, <1>11 DEF LookCancelled, BodyGoes, slotVars
<1>12. CASE TakeAnswer(j)
  BY <1>0, <1>12 DEF TakeAnswer, BodyGoes, slotVars
<1>13. CASE ClearQuestion(j)
  BY <1>0, <1>13 DEF ClearQuestion, AfterQuestion, slotVars
<1>14. CASE Return(j)
  BY <1>0, <1>14 DEF Return, slotVars
<1>15. CASE Panic(j)
  BY <1>0, <1>15 DEF Panic, slotVars
<1>16. CASE ShowEnd(j)
  BY <1>0, <1>16 DEF ShowEnd, BodyGoes, slotVars
<1>17. CASE End(j)
  BY <1>0, <1>17 DEF End, Finish
<1> QED
  BY <1>1, <1>2, <1>3, <1>4, <1>5, <1>6, <1>7, <1>8, <1>9, <1>10, <1>11,
     <1>12, <1>13, <1>14, <1>15, <1>16, <1>17 DEF OfJob, BodyStep

\* A body that comes to its end is nowhere else and has nothing to wait for.
LEMMA EndingIs ==
  ASSUME NEW o \in Terminal
  PROVE  /\ BodyOK(Ending(o)) /\ BodyOK([Ending(o) EXCEPT !.at = "ended"])
         /\ Ending(o).at = "ending" /\ Ending(o).outcome = o
         /\ Ending(o).got = 0 /\ Ending(o).asked = 0
         /\ [Ending(o) EXCEPT !.at = "ended"].at = "ended"
         /\ [Ending(o) EXCEPT !.at = "ended"].outcome = o
         /\ [Ending(o) EXCEPT !.at = "ended"].got = 0
BY DEF Ending, NoBody, BodyOK, Body, BodyAt, Terminal

\* An empty slot of the bridge.
LEMMA NoBridgeIs ==
  NoBridge \in BridgeSlot /\ NoBridge.answer = 0 /\ ~NoBridge.there
BY DEF NoBridge, BridgeSlot

\* What a step of a worker makes of its job has the type it should have: the
\* state of its body, ...
LEMMA BodyFits ==
  ASSUME Typed, NEW j \in Jobs, OfJob(j)
  PROVE  BodyOK(body'[j])
<1>0. /\ BodyOK(body[j]) /\ DOMAIN body = Jobs
      /\ slots[j].paused \in BOOLEAN /\ asked \in Nat
      /\ bridge[j].answer \in Nat
  BY DEF Typed, TypeOK, SlotsTypeOK, Slot, BridgeSlot
<1> USE <1>0 DEF BodyOK, Body, BodyAt, Terminal
<1>1. CASE Take(j)
  BY <1>1 DEF Take, Reserve, jobVars
<1>2. CASE Drop(j)
  BY <1>2 DEF Drop, LetGo, jobVars
<1>3. CASE Start(j)
  BY <1>3 DEF Start, Claim, BodyGoes
<1>4. CASE ReadPaused(j)
  BY <1>4 DEF ReadPaused, slotVars
<1>5. CASE ShowStarting(j)
  BY <1>5 DEF ShowStarting, SetStartingState, SetState, slotVars
<1>6. CASE Phase(j)
  BY <1>6 DEF Phase, Step, Gate
<1>7. CASE Reach(j)
  BY <1>7 DEF Reach, Step, slotVars
<1>8. CASE Checkpoint(j)
  <2>1. CASE body' = [body EXCEPT ![j] = Ending("Cancelled")]
    BY <2>1, EndingIs DEF Terminal
  <2>2. CASE body' = [body EXCEPT ![j].at = "work"]
    BY <2>2
  <2> QED
    BY <1>8, <2>1, <2>2 DEF Checkpoint
<1>9. CASE Prepare(j)
  BY <1>9 DEF Prepare, Step, slotVars
<1>10. CASE Ask(j)
  <2>1. CASE body' = [body EXCEPT ![j] = Ending("Cancelled")]
    BY <2>1, EndingIs DEF Terminal
  <2>2. ASSUME NEW n \in Nat,
               body' = [body EXCEPT ![j].at = "waiting", ![j].asked = n]
        PROVE  BodyOK(body'[j])
    BY <2>2
  <2>3. CASE snap[j].state \in EndShown
    BY <1>10, <2>1, <2>3 DEF Ask
  <2>4. CASE snap[j].state \notin EndShown
    <3>1. /\ asked' \in Nat
          /\ body' = [body EXCEPT ![j].at = "waiting", ![j].asked = asked']
      BY <1>10, <2>4 DEF Ask
    <3> QED
      BY <2>2, <3>1
  <2> QED
    BY <2>3, <2>4
<1>11. CASE LookCancelled(j)
  BY <1>11 DEF LookCancelled, BodyGoes, NoBridge, slotVars
<1>12. CASE TakeAnswer(j)
  BY <1>12 DEF TakeAnswer, BodyGoes, NoBridge, slotVars
<1>13. CASE ClearQuestion(j)
  <2>1. CASE body' = [body EXCEPT ![j] = Ending("Cancelled")]
    BY <2>1, EndingIs DEF Terminal
  <2>2. CASE body' = [body EXCEPT ![j].at = "work", ![j].asked = 0,
                                  ![j].got = 0]
    BY <2>2
  <2> QED
    BY <1>13, <2>1, <2>2 DEF ClearQuestion, AfterQuestion
<1>14. CASE Return(j)
  <2>1. PICK o \in {"Done", "Failed"} : body' = [body EXCEPT ![j] = Ending(o)]
    BY <1>14 DEF Return
  <2>2. BodyOK(Ending(o)) /\ body'[j] = Ending(o)
    BY <2>1, EndingIs
  <2> QED
    BY <2>2
<1>15. CASE Panic(j)
  <2>1. /\ BodyOK([Ending("Failed") EXCEPT !.at = "ended"])
        /\ body'[j] = [Ending("Failed") EXCEPT !.at = "ended"]
    BY <1>15, EndingIs DEF Panic
  <2> QED
    BY <2>1
<1>16. CASE ShowEnd(j)
  BY <1>16 DEF ShowEnd, BodyGoes, SetState, Shown, EndShown, slotVars
<1>17. CASE End(j)
  BY <1>17 DEF End, Finish, NoBody
<1> QED
  BY <1>1, <1>2, <1>3, <1>4, <1>5, <1>6, <1>7, <1>8, <1>9, <1>10, <1>11,
     <1>12, <1>13, <1>14, <1>15, <1>16, <1>17 DEF OfJob, BodyStep

\* ... that it has a body, ...
LEMMA ExecutingFits ==
  ASSUME Typed, NEW j \in Jobs, OfJob(j)
  PROVE  j \in executing' <=> body'[j].at # "out"
<1>0. /\ body[j] \in Body /\ DOMAIN body = Jobs
      /\ j \in executing <=> body[j].at # "out"
  BY DEF Typed, TypeOK
<1> USE <1>0 DEF Body
<1>1. CASE Take(j)
  BY <1>1 DEF Take, Reserve, jobVars
<1>2. CASE Drop(j)
  BY <1>2 DEF Drop, LetGo, jobVars
<1>3. CASE Start(j)
  BY <1>3 DEF Start, Claim, BodyGoes
<1>4. CASE ReadPaused(j)
  BY <1>4 DEF ReadPaused, slotVars
<1>5. CASE ShowStarting(j)
  BY <1>5 DEF ShowStarting, SetStartingState, SetState, slotVars
<1>6. CASE Phase(j)
  BY <1>6 DEF Phase, Step, Gate
<1>7. CASE Reach(j)
  BY <1>7 DEF Reach, Step, slotVars
<1>8. CASE Checkpoint(j)
  BY <1>8 DEF Checkpoint, Ending, NoBody, slotVars
<1>9. CASE Prepare(j)
  BY <1>9 DEF Prepare, Step, slotVars
<1>10. CASE Ask(j)
  BY <1>10 DEF Ask, Ending, NoBody, NoBridge, slotVars
<1>11. CASE LookCancelled(j)
  BY <1>11 DEF LookCancelled, BodyGoes, NoBridge, slotVars
<1>12. CASE TakeAnswer(j)
  BY <1>12 DEF TakeAnswer, BodyGoes, NoBridge, slotVars
<1>13. CASE ClearQuestion(j)
  BY <1>13 DEF ClearQuestion, AfterQuestion, Ending, NoBody, slotVars
<1>14. CASE Return(j)
  BY <1>14 DEF Return, Ending, NoBody, slotVars
<1>15. CASE Panic(j)
  BY <1>15 DEF Panic, Ending, NoBody, slotVars
<1>16. CASE ShowEnd(j)
  BY <1>16 DEF ShowEnd, BodyGoes, SetState, Shown, EndShown, slotVars
<1>17. CASE End(j)
  BY <1>17 DEF End, Finish, NoBody
<1> QED
  BY <1>1, <1>2, <1>3, <1>4, <1>5, <1>6, <1>7, <1>8, <1>9, <1>10, <1>11,
     <1>12, <1>13, <1>14, <1>15, <1>16, <1>17 DEF OfJob, BodyStep

\* ... its slot, ...
LEMMA SlotFits ==
  ASSUME Typed, NEW j \in Jobs, OfJob(j)
  PROVE  slots'[j] \in Slot
<1>0. /\ slots[j] \in Slot /\ DOMAIN slots = Jobs
      /\ body[j].at \in {"ending", "ended"} => body[j].outcome \in Terminal
  BY DEF Typed, TypeOK, SlotsTypeOK, BodyOK
<1> USE <1>0 DEF Slot, JobStates, Terminal
<1>1. CASE Take(j)
  BY <1>1 DEF Take, Reserve, jobVars
<1>2. CASE Drop(j)
  BY <1>2 DEF Drop, LetGo, jobVars
<1>3. CASE Start(j)
  BY <1>3 DEF Start, Claim, BodyGoes
<1>4. CASE ReadPaused(j)
  BY <1>4 DEF ReadPaused, slotVars
<1>5. CASE ShowStarting(j)
  BY <1>5 DEF ShowStarting, SetStartingState, SetState, slotVars
<1>6. CASE Phase(j)
  BY <1>6 DEF Phase, Step, Gate
<1>7. CASE Reach(j)
  BY <1>7 DEF Reach, Step, slotVars
<1>8. CASE Checkpoint(j)
  BY <1>8 DEF Checkpoint, Ending, NoBody, slotVars
<1>9. CASE Prepare(j)
  BY <1>9 DEF Prepare, Step, slotVars
<1>10. CASE Ask(j)
  BY <1>10 DEF Ask, Ending, NoBody, NoBridge, slotVars
<1>11. CASE LookCancelled(j)
  BY <1>11 DEF LookCancelled, BodyGoes, NoBridge, slotVars
<1>12. CASE TakeAnswer(j)
  BY <1>12 DEF TakeAnswer, BodyGoes, NoBridge, slotVars
<1>13. CASE ClearQuestion(j)
  BY <1>13 DEF ClearQuestion, AfterQuestion, Ending, NoBody, slotVars
<1>14. CASE Return(j)
  BY <1>14 DEF Return, Ending, NoBody, slotVars
<1>15. CASE Panic(j)
  BY <1>15 DEF Panic, Ending, NoBody, slotVars
<1>16. CASE ShowEnd(j)
  BY <1>16 DEF ShowEnd, BodyGoes, SetState, Shown, EndShown, slotVars
<1>17. CASE End(j)
  BY <1>17 DEF End, Finish, NoBody
<1> QED
  BY <1>1, <1>2, <1>3, <1>4, <1>5, <1>6, <1>7, <1>8, <1>9, <1>10, <1>11,
     <1>12, <1>13, <1>14, <1>15, <1>16, <1>17 DEF OfJob, BodyStep

\* ... and what is shown and asked of it.
LEMMA ShownFits ==
  ASSUME Typed, NEW j \in Jobs, OfJob(j)
  PROVE  snap'[j] \in Snapshot /\ bridge'[j] \in BridgeSlot /\ asked' \in Nat
<1>0. /\ snap[j] \in Snapshot /\ DOMAIN snap = Jobs
      /\ bridge[j] \in BridgeSlot /\ DOMAIN bridge = Jobs /\ asked \in Nat
      /\ body[j].at \in {"ending", "ended"} => body[j].outcome \in Terminal
  BY DEF Typed, TypeOK, BodyOK
<1> USE <1>0 DEF Snapshot, ShownState, EndShown, BridgeSlot, Terminal
<1>1. CASE Take(j)
  BY <1>1 DEF Take, Reserve, jobVars
<1>2. CASE Drop(j)
  BY <1>2 DEF Drop, LetGo, jobVars
<1>3. CASE Start(j)
  BY <1>3 DEF Start, Claim, BodyGoes
<1>4. CASE ReadPaused(j)
  BY <1>4 DEF ReadPaused, slotVars
<1>5. CASE ShowStarting(j)
  BY <1>5 DEF ShowStarting, SetStartingState, SetState, slotVars
<1>6. CASE Phase(j)
  BY <1>6 DEF Phase, Step, Gate
<1>7. CASE Reach(j)
  BY <1>7 DEF Reach, Step, slotVars
<1>8. CASE Checkpoint(j)
  BY <1>8 DEF Checkpoint, Ending, NoBody, slotVars
<1>9. CASE Prepare(j)
  BY <1>9 DEF Prepare, Step, slotVars
<1>10. CASE Ask(j)
  BY <1>10, NoBridgeIs DEF Ask
<1>11. CASE LookCancelled(j)
  BY <1>11, NoBridgeIs DEF LookCancelled
<1>12. CASE TakeAnswer(j)
  BY <1>12, NoBridgeIs DEF TakeAnswer
<1>13. CASE ClearQuestion(j)
  BY <1>13 DEF ClearQuestion, AfterQuestion, Ending, NoBody, slotVars
<1>14. CASE Return(j)
  BY <1>14 DEF Return, Ending, NoBody, slotVars
<1>15. CASE Panic(j)
  BY <1>15 DEF Panic, Ending, NoBody, slotVars
<1>16. CASE ShowEnd(j)
  BY <1>16 DEF ShowEnd, BodyGoes, SetState, Shown, EndShown, slotVars
<1>17. CASE End(j)
  BY <1>17 DEF End, Finish, NoBody
<1> QED
  BY <1>1, <1>2, <1>3, <1>4, <1>5, <1>6, <1>7, <1>8, <1>9, <1>10, <1>11,
     <1>12, <1>13, <1>14, <1>15, <1>16, <1>17 DEF OfJob, BodyStep

\* A step of a caller changes its own state, and no job's body.
OfCall(c) == CallBegins(c) \/ CallGoesOn(c)
CallOnly(c) ==
  /\ UNCHANGED <<body, reserved, executing, asked>>
  /\ call' = [call EXCEPT ![c] = call'[c]]
  /\ writing' = [writing EXCEPT ![c] = writing'[c]]

\* It holds of every step of a caller.
LEMMA CallsApart ==
  ASSUME TypeOK, NEW c \in Callers, OfCall(c)
  PROVE  CallOnly(c)
<1>0. /\ DOMAIN call = Callers /\ call = [d \in Callers |-> call[d]]
      /\ DOMAIN writing = Callers /\ writing = [d \in Callers |-> writing[d]]
  BY DEF TypeOK, SlotsTypeOK
<1> USE <1>0 DEF CallOnly, slotVars, jobVars
<1>1. CASE Query(c)
  BY <1>1 DEF Query, TidyUp, CallGoes, MayCall, Called
<1>2. CASE BeginSubmit(c)
  BY <1>2 DEF BeginSubmit, TidyUp, CallGoes, MayCall
<1>3. CASE BeginPause(c)
  BY <1>3 DEF BeginPause, CallGoes, MayCall, Called
<1>4. CASE BeginResume(c)
  BY <1>4 DEF BeginResume, CallGoes, MayCall, Called
<1>5. CASE CancelOne(c)
  BY <1>5 DEF CancelOne, Collects, CallGoes, MayCall, Called
<1>6. CASE ReleaseWindow(c)
  BY <1>6 DEF ReleaseWindow, Collects, CallGoes, MayCall, Called
<1>7. CASE CancelAll(c)
  BY <1>7 DEF CancelAll, Collects, CallGoes, MayCall, Called
<1>8. CASE BeginAnswer(c)
  BY <1>8 DEF BeginAnswer, CallGoes, MayCall, Current
<1>9. CASE Tidy(c)
  BY <1>9 DEF Tidy, Reconcile, Forget, CallGoes
<1>10. CASE Submit(c)
  BY <1>10 DEF Submit, Enter, CallGoes, Returns
<1>11. CASE Register(c)
  BY <1>11 DEF Register, Returns, CallGoes
<1>12. CASE TryPause(c)
  BY <1>12 DEF TryPause, Pause, Returns, CallGoes
<1>13. CASE WriteBack(c)
  BY <1>13 DEF WriteBack, WriteState
<1>14. CASE LookPaused(c)
  BY <1>14 DEF LookPaused, CallGoes, Returns
<1>15. CASE ShowPaused(c)
  BY <1>15 DEF ShowPaused, CallGoes, Returns
<1>16. CASE ResumeQueue(c)
  BY <1>16 DEF ResumeQueue, Resume, CallGoes
<1>17. CASE LookResumed(c)
  BY <1>17 DEF LookResumed, CallGoes, Returns
<1>18. CASE ShowResumed(c)
  BY <1>18 DEF ShowResumed, CallGoes, Returns
<1>19. CASE CancelManaged(c)
  BY <1>19 DEF CancelManaged, CallGoes, Cancel
<1>20. CASE WakeCancelled(c)
  BY <1>20 DEF WakeCancelled, CallGoes, ShowCancelled
<1>21. CASE WaitIdle(c)
  BY <1>21 DEF WaitIdle, TidyUp, CallGoes
<1>22. CASE Answer(c)
  BY <1>22 DEF Answer, CallGoes, Returns
<1> QED
  BY <1>1, <1>2, <1>3, <1>4, <1>5, <1>6, <1>7, <1>8, <1>9, <1>10, <1>11,
     <1>12, <1>13, <1>14, <1>15, <1>16, <1>17, <1>18, <1>19, <1>20, <1>21,
     <1>22 DEF OfCall, CallBegins, CallGoesOn

\* The fields of a caller's state, one by one.
CallIs(s, at, job, jobs, found, version, then) ==
  /\ s.at = at /\ s.job = job /\ s.jobs = jobs /\ s.found = found
  /\ s.version = version /\ s.then = then

\* Nothing is under way.
LEMMA IdleIs ==
  Idle \in CallState /\ CallIs(Idle, "idle", NoJob, {}, Unseen, 0, "idle")
<1>1. Unseen \in [Jobs -> JobStates]
  BY DEF Unseen, JobStates
<1> QED
  BY <1>1 DEF Idle, CallState, CallAt, CallIs

\* A caller goes from one point to the next, ...
LEMMA GoesOn ==
  ASSUME NEW s \in CallState, NEW at \in CallAt
  PROVE  /\ [s EXCEPT !.at = at] \in CallState
         /\ CallIs([s EXCEPT !.at = at], at, s.job, s.jobs, s.found, s.version,
                   s.then)
BY DEF CallState, CallIs

\* ... with a job, ...
LEMMA GoesFor ==
  ASSUME NEW at \in CallAt, NEW j \in Jobs \cup {NoJob}
  PROVE  /\ [Idle EXCEPT !.at = at, !.job = j] \in CallState
         /\ CallIs([Idle EXCEPT !.at = at, !.job = j], at, j, {}, Unseen, 0,
                   "idle")
<1>1. Unseen \in [Jobs -> JobStates]
  BY DEF Unseen, JobStates
<1> QED
  BY <1>1 DEF Idle, CallState, CallAt, CallIs

\* ... with what it has seen of it, ...
LEMMA GoesSeeing ==
  ASSUME NEW s \in CallState, NEW at \in CallAt, NEW f \in [Jobs -> JobStates]
  PROVE  /\ [s EXCEPT !.at = at, !.found = f] \in CallState
         /\ CallIs([s EXCEPT !.at = at, !.found = f], at, s.job, s.jobs, f,
                   s.version, s.then)
BY DEF CallState, CallIs

\* ... at its first step, ...
LEMMA GoesAt ==
  ASSUME NEW at \in CallAt, NEW j \in Jobs, NEW f \in [Jobs -> JobStates]
  PROVE  /\ [Idle EXCEPT !.at = at, !.job = j, !.found = f] \in CallState
         /\ CallIs([Idle EXCEPT !.at = at, !.job = j, !.found = f], at, j, {},
                   f, 0, "idle")
BY DEF Idle, CallState, CallIs

\* ... with a question, ...
LEMMA GoesAnswering ==
  ASSUME NEW at \in CallAt, NEW j \in Jobs, NEW v \in Nat
  PROVE  /\ [Idle EXCEPT !.at = at, !.job = j, !.version = v] \in CallState
         /\ CallIs([Idle EXCEPT !.at = at, !.job = j, !.version = v], at, j, {},
                   Unseen, v, "idle")
<1>1. Unseen \in [Jobs -> JobStates]
  BY DEF Unseen, JobStates
<1> QED
  BY <1>1 DEF Idle, CallState, CallAt, CallIs

\* ... with the jobs it is about, ...
LEMMA GoesWith ==
  ASSUME NEW at \in CallAt, NEW js \in SUBSET Jobs,
         NEW then \in {"idle", "submit", "drain"}
  PROVE  /\ [Idle EXCEPT !.at = at, !.jobs = js, !.then = then] \in CallState
         /\ CallIs([Idle EXCEPT !.at = at, !.jobs = js, !.then = then], at,
                   NoJob, js, Unseen, 0, then)
<1>1. Unseen \in [Jobs -> JobStates]
  BY DEF Unseen, JobStates
<1> QED
  BY <1>1 DEF Idle, CallState, CallAt, CallIs

\* ... and with fewer of them.
LEMMA GoesWithout ==
  ASSUME NEW s \in CallState, NEW at \in CallAt, NEW js \in SUBSET Jobs
  PROVE  /\ [s EXCEPT !.jobs = js] \in CallState
         /\ CallIs([s EXCEPT !.jobs = js], s.at, s.job, js, s.found, s.version,
                   s.then)
         /\ [s EXCEPT !.at = at, !.jobs = js] \in CallState
         /\ CallIs([s EXCEPT !.at = at, !.jobs = js], at, s.job, js, s.found,
                   s.version, s.then)
BY DEF CallState, CallIs

\* It tidies up, and goes on as it began.
LEMMA GoesTidying ==
  ASSUME NEW js \in SUBSET Jobs, NEW f \in [Jobs -> JobStates],
         NEW j \in Jobs \cup {NoJob}, NEW then \in {"idle", "submit", "drain"}
  PROVE  LET s == [Idle EXCEPT !.at = "reconcile", !.job = j, !.jobs = js,
                               !.then = then, !.found = f]
         IN  s \in CallState /\ CallIs(s, "reconcile", j, js, f, 0, then)
BY DEF Idle, CallState, CallAt, CallIs

-----------------------------------------------------------------------------
(***************************************************************************)
(* What a caller's step makes of its state.                                *)
(***************************************************************************)
OverJobs == {j \in registry : Over(j)}
Seen == [j \in Jobs |-> IF j \in OverJobs THEN slots[j].state ELSE "Absent"]

Becomes(c, at, job, jobs, version, then) ==
  /\ call'[c] \in CallState
  /\ CallIs(call'[c], at, job, jobs, call'[c].found, version, then)
Rests(c)     == Becomes(c, "idle", NoJob, {}, 0, "idle")
Moves(c, at) == Becomes(c, at, call[c].job, call[c].jobs, call[c].version,
                        call[c].then)
Tidies(c, job, then) ==
  /\ RegistryFree /\ registry' = registry \ OverJobs
  /\ Becomes(c, "reconcile", job, OverJobs, 0, then) /\ call'[c].found = Seen

\* It is in the state it goes to.
LEMMA BecomesIs ==
  ASSUME TypeOK, NEW c \in Callers, NEW s, CallGoes(c, s), s \in CallState,
         NEW at, NEW job, NEW jobs, NEW found, NEW version, NEW then,
         CallIs(s, at, job, jobs, found, version, then)
  PROVE  Becomes(c, at, job, jobs, version, then) /\ call'[c] = s
BY DEF TypeOK, CallGoes, Becomes, CallIs

\* The calls that begin.
LEMMA CallsBegin ==
  ASSUME TypeOK, NEW c \in Callers
  PROVE  /\ Query(c) => Tidies(c, NoJob, "idle")
         /\ BeginSubmit(c) => \E j \in Jobs :
              /\ snap[j].state = "none" /\ \A d \in Callers : call[d].job # j
              /\ Tidies(c, j, "submit")
         /\ BeginPause(c) =>
              \E j \in registry : Becomes(c, "pause", j, {}, 0, "idle")
         /\ BeginResume(c) =>
              \E j \in registry : Becomes(c, "resume", j, {}, 0, "idle")
         /\ CancelOne(c) =>
              \E j \in registry : Becomes(c, "cancel", NoJob, {j}, 0, "idle")
         /\ ReleaseWindow(c) => \E w \in Windows \ released :
              /\ released' = released \cup {w}
              /\ Becomes(c, "cancel", NoJob, {j \in registry : Owner[j] = w},
                         0, "idle")
         /\ CancelAll(c) => \E next \in {"idle", "drain"} :
              Becomes(c, "cancel", NoJob, registry, 0, next)
         /\ BeginAnswer(c) => \E j \in registry, v \in 1 .. asked :
              /\ snap[j].question = v /\ bridge[j].there
              /\ Becomes(c, "answer", j, {}, v, "idle")
         /\ WaitIdle(c) => Tidies(c, NoJob, "idle")
<1>1. /\ DOMAIN call = Callers /\ registry \subseteq Jobs /\ asked \in Nat
      /\ \A j \in Jobs : slots[j].state \in JobStates
  BY DEF TypeOK, SlotsTypeOK, Slot
<1>2. OverJobs \subseteq Jobs /\ Seen \in [Jobs -> JobStates]
  BY <1>1 DEF OverJobs, Seen, JobStates
<1>3. ASSUME NEW next \in {"idle", "submit"}, NEW job \in Jobs \cup {NoJob},
             TidyUp(c, next, job)
      PROVE  Tidies(c, job, next)
  <2> DEFINE s == [Idle EXCEPT !.at = "reconcile", !.job = job,
                     !.jobs = OverJobs, !.then = next, !.found = Seen]
  <2>1. s \in CallState /\ CallIs(s, "reconcile", job, OverJobs, Seen, 0, next)
    BY <1>2, GoesTidying
  <2>2. /\ CallGoes(c, s) /\ RegistryFree /\ registry' = registry \ OverJobs
    BY <1>3 DEF TidyUp, OverJobs, Seen
  <2> HIDE DEF s
  <2> QED
    BY <2>1, <2>2, BecomesIs DEF Tidies, CallIs
<1>5. "pause" \in CallAt /\ "resume" \in CallAt /\ "cancel" \in CallAt
      /\ "answer" \in CallAt
  BY DEF CallAt
<1>6. Query(c) => Tidies(c, NoJob, "idle")
  BY <1>3 DEF Query
<1>7. BeginSubmit(c) => \E j \in Jobs :
        /\ snap[j].state = "none" /\ \A d \in Callers : call[d].job # j
        /\ Tidies(c, j, "submit")
  BY <1>3 DEF BeginSubmit
<1>8. BeginPause(c) =>
        \E j \in registry : Becomes(c, "pause", j, {}, 0, "idle")
  <2> SUFFICES ASSUME BeginPause(c)
               PROVE  \E j \in registry : Becomes(c, "pause", j, {}, 0, "idle")
    OBVIOUS
  <2>1. PICK j \in registry :
          CallGoes(c, [Idle EXCEPT !.at = "pause", !.job = j,
                        !.found = [Unseen EXCEPT ![j] = slots[j].state]])
    BY DEF BeginPause
  <2> DEFINE f == [Unseen EXCEPT ![j] = slots[j].state]
             s == [Idle EXCEPT !.at = "pause", !.job = j, !.found = f]
  <2>2. f \in [Jobs -> JobStates]
    BY <1>1 DEF Unseen, JobStates
  <2> HIDE DEF f
  <2>3. s \in CallState /\ CallIs(s, "pause", j, {}, f, 0, "idle")
    BY <1>1, <1>5, <2>2, GoesAt
  <2>4. CallGoes(c, s)
    BY <2>1 DEF f
  <2> HIDE DEF s
  <2> QED
    BY <2>3, <2>4, BecomesIs
<1>9. BeginResume(c) =>
        \E j \in registry : Becomes(c, "resume", j, {}, 0, "idle")
  <2> SUFFICES ASSUME NEW j \in registry,
                      CallGoes(c, [Idle EXCEPT !.at = "resume", !.job = j])
               PROVE  Becomes(c, "resume", j, {}, 0, "idle")
    BY DEF BeginResume
  <2> DEFINE s == [Idle EXCEPT !.at = "resume", !.job = j]
  <2>1. s \in CallState /\ CallIs(s, "resume", j, {}, Unseen, 0, "idle")
    BY <1>1, <1>5, GoesFor
  <2> HIDE DEF s
  <2> QED
    BY <2>1, BecomesIs DEF s
<1>10. CancelOne(c) =>
         \E j \in registry : Becomes(c, "cancel", NoJob, {j}, 0, "idle")
  <2> SUFFICES ASSUME NEW j \in registry, Collects(c, {j}, "idle")
               PROVE  Becomes(c, "cancel", NoJob, {j}, 0, "idle")
    BY DEF CancelOne
  <2> DEFINE s == [Idle EXCEPT !.at = "cancel", !.jobs = {j}, !.then = "idle"]
  <2>9. s \in CallState /\ CallIs(s, "cancel", NoJob, {j}, Unseen, 0, "idle")
    BY <1>1, <1>5, GoesWith
  <2>10. CallGoes(c, s)
    BY DEF Collects
  <2> HIDE DEF s
  <2> QED
    BY <2>9, <2>10, BecomesIs
<1>11. ReleaseWindow(c) => \E w \in Windows \ released :
         /\ released' = released \cup {w}
         /\ Becomes(c, "cancel", NoJob, {j \in registry : Owner[j] = w}, 0,
                    "idle")
  <2> SUFFICES ASSUME NEW w \in Windows \ released,
                      Collects(c, {j \in registry : Owner[j] = w}, "idle")
               PROVE  Becomes(c, "cancel", NoJob,
                              {j \in registry : Owner[j] = w}, 0, "idle")
    BY DEF ReleaseWindow
  <2> DEFINE js == {j \in registry : Owner[j] = w}
  <2>1. js \in SUBSET Jobs /\ Collects(c, js, "idle")
    BY <1>1
  <2> HIDE DEF js
  <2> DEFINE s == [Idle EXCEPT !.at = "cancel", !.jobs = js, !.then = "idle"]
  <2>2. s \in CallState /\ CallIs(s, "cancel", NoJob, js, Unseen, 0, "idle")
    BY <1>1, <1>5, <2>1, GoesWith
  <2>3. CallGoes(c, s)
    BY <2>1 DEF Collects
  <2> HIDE DEF s
  <2>4. Becomes(c, "cancel", NoJob, js, 0, "idle")
    BY <2>2, <2>3, BecomesIs
  <2> QED
    BY <2>4 DEF js
<1>12. CancelAll(c) => \E next \in {"idle", "drain"} :
         Becomes(c, "cancel", NoJob, registry, 0, next)
  <2> SUFFICES ASSUME NEW next \in {"idle", "drain"}, Collects(c, registry, next)
               PROVE  Becomes(c, "cancel", NoJob, registry, 0, next)
    BY DEF CancelAll
  <2> DEFINE s == [Idle EXCEPT !.at = "cancel", !.jobs = registry, !.then = next]
  <2>9. s \in CallState /\ CallIs(s, "cancel", NoJob, registry, Unseen, 0, next)
    BY <1>1, <1>5, GoesWith
  <2>10. CallGoes(c, s)
    BY DEF Collects
  <2> HIDE DEF s
  <2> QED
    BY <2>9, <2>10, BecomesIs
<1>13. BeginAnswer(c) => \E j \in registry, v \in 1 .. asked :
         /\ snap[j].question = v /\ bridge[j].there
         /\ Becomes(c, "answer", j, {}, v, "idle")
  <2> SUFFICES ASSUME NEW j \in registry, NEW v \in 1 .. asked,
                      CallGoes(c, [Idle EXCEPT !.at = "answer", !.job = j,
                                               !.version = v])
               PROVE  Becomes(c, "answer", j, {}, v, "idle")
    BY DEF BeginAnswer, Current
  <2>1. v \in Nat
    BY <1>1
  <2> DEFINE s == [Idle EXCEPT !.at = "answer", !.job = j, !.version = v]
  <2>2. s \in CallState /\ CallIs(s, "answer", j, {}, Unseen, v, "idle")
    BY <1>1, <1>5, <2>1, GoesAnswering
  <2> HIDE DEF s
  <2> QED
    BY <2>2, BecomesIs DEF s
<1>14. WaitIdle(c) => Tidies(c, NoJob, "idle")
  BY <1>3 DEF WaitIdle
<1> QED
  BY <1>6, <1>7, <1>8, <1>9, <1>10, <1>11, <1>12, <1>13, <1>14

\* The calls that go on.
LEMMA CallsGoOn ==
  ASSUME Typed, NEW c \in Callers
  PROVE  /\ Tidy(c) =>
              \/ \E j \in call[c].jobs :
                   /\ Reconcile(c, j)
                   /\ Becomes(c, "reconcile", call[c].job, call[c].jobs \ {j},
                              call[c].version, call[c].then)
                   /\ call'[c].found = call[c].found
              \/ /\ call[c].jobs = {} /\ UNCHANGED <<slotVars, snap>>
                 /\ Becomes(c, call[c].then, call[c].job, {}, 0, "idle")
         /\ Submit(c) => IF Refused(call[c].job) THEN Rests(c)
                         ELSE Moves(c, "register")
         /\ Register(c) \/ ShowPaused(c) \/ ShowResumed(c) \/ Answer(c) =>
              Rests(c)
         /\ TryPause(c) => Rests(c) \/ Moves(c, "pausing")
         /\ LookPaused(c) => Rests(c) \/ Moves(c, "showPaused")
         /\ ResumeQueue(c) => Moves(c, "resuming")
         /\ LookResumed(c) => Rests(c) \/ Moves(c, "showResumed")
         /\ CancelManaged(c) =>
              Becomes(c, "cancelled", call[c].job,
                      {j \in call[c].jobs : Cancellable(j)}, call[c].version,
                      call[c].then)
         /\ WakeCancelled(c) =>
              \/ \E j \in call[c].jobs :
                   Becomes(c, call[c].at, call[c].job, call[c].jobs \ {j},
                           call[c].version, call[c].then)
              \/ Becomes(c, call[c].then, NoJob, {}, 0, "idle")
<1> DEFINE S == call[c]
<1>0. TypeOK /\ S \in CallState /\ CallOK(S)
  BY DEF Typed, TypeOK
<1>1. /\ \A j \in Jobs : slots[j].state \in JobStates
      /\ S.job \in Jobs \cup {NoJob} /\ S.jobs \in SUBSET Jobs /\ S.at \in CallAt
      /\ S.then \in {"idle", "submit", "drain"} /\ S.then \in CallAt
      /\ S.found \in [Jobs -> JobStates]
  BY <1>0 DEF TypeOK, SlotsTypeOK, Slot, CallState, CallAt
<1>2. {"register", "pausing", "showPaused", "resuming", "showResumed",
       "cancelled"} \subseteq CallAt
  BY DEF CallAt
<1> HIDE DEF S
<1>3. ASSUME Returns(c) PROVE Rests(c)
  BY <1>0, <1>3, IdleIs, BecomesIs DEF Returns, Rests
<1>4. ASSUME NEW at \in CallAt, CallGoes(c, [S EXCEPT !.at = at])
      PROVE  Moves(c, at)
  <2> DEFINE s == [S EXCEPT !.at = at]
  <2>1. s \in CallState
        /\ CallIs(s, at, S.job, S.jobs, S.found, S.version, S.then)
    BY <1>0, GoesOn
  <2> HIDE DEF s
  <2>2. Becomes(c, at, S.job, S.jobs, S.version, S.then)
    BY <1>0, <1>4, <2>1, BecomesIs DEF s
  <2> QED
    BY <2>2 DEF Moves, S
<1>5. ASSUME NEW js \in SUBSET Jobs, CallGoes(c, [S EXCEPT !.jobs = js])
      PROVE  /\ Becomes(c, S.at, S.job, js, S.version, S.then)
             /\ call'[c].found = S.found
  <2> DEFINE s == [S EXCEPT !.jobs = js]
  <2>1. s \in CallState
        /\ CallIs(s, S.at, S.job, js, S.found, S.version, S.then)
    BY <1>0, <1>1, GoesWithout
  <2> HIDE DEF s
  <2>2. /\ Becomes(c, S.at, S.job, js, S.version, S.then) /\ call'[c] = s
    BY <1>0, <1>5, <2>1, BecomesIs DEF s
  <2> QED
    BY <2>1, <2>2 DEF CallIs
<1>6. ASSUME NEW job \in Jobs \cup {NoJob},
             CallGoes(c, [Idle EXCEPT !.at = S.then, !.job = job])
      PROVE  Becomes(c, S.then, job, {}, 0, "idle")
  <2> DEFINE s == [Idle EXCEPT !.at = S.then, !.job = job]
  <2>1. s \in CallState /\ CallIs(s, S.then, job, {}, Unseen, 0, "idle")
    BY <1>1, GoesFor
  <2> HIDE DEF s
  <2> QED
    BY <1>0, <1>6, <2>1, BecomesIs DEF s
<1>8. Tidy(c) =>
        \/ \E j \in S.jobs :
             /\ Reconcile(c, j)
             /\ Becomes(c, "reconcile", S.job, S.jobs \ {j}, S.version, S.then)
             /\ call'[c].found = S.found
        \/ /\ S.jobs = {} /\ UNCHANGED <<slotVars, snap>>
           /\ Becomes(c, S.then, S.job, {}, 0, "idle")
  <2> SUFFICES ASSUME Tidy(c)
               PROVE  \/ \E j \in S.jobs :
                           /\ Reconcile(c, j)
                           /\ Becomes(c, "reconcile", S.job, S.jobs \ {j},
                                      S.version, S.then)
                           /\ call'[c].found = S.found
                      \/ /\ S.jobs = {} /\ UNCHANGED <<slotVars, snap>>
                         /\ Becomes(c, S.then, S.job, {}, 0, "idle")
    OBVIOUS
  <2>1. S.at = "reconcile"
    BY DEF Tidy, S
  <2>2. ASSUME NEW j \in S.jobs, Reconcile(c, j),
               CallGoes(c, [S EXCEPT !.jobs = S.jobs \ {j}])
        PROVE  /\ Becomes(c, "reconcile", S.job, S.jobs \ {j}, S.version, S.then)
               /\ call'[c].found = S.found
    <3>1. S.jobs \ {j} \in SUBSET Jobs
      BY <1>1
    <3> QED
      BY <1>5, <2>1, <2>2, <3>1
  <2> QED
    BY <1>1, <1>6, <2>2 DEF Tidy, S
<1>9. Submit(c) => IF Refused(S.job) THEN Rests(c) ELSE Moves(c, "register")
  BY <1>2, <1>3, <1>4 DEF Submit, S
<1>10. Register(c) \/ ShowPaused(c) \/ ShowResumed(c) \/ Answer(c) => Rests(c)
  BY <1>3 DEF Register, ShowPaused, ShowResumed, Answer
<1>11. TryPause(c) => Rests(c) \/ Moves(c, "pausing")
  BY <1>2, <1>3, <1>4 DEF TryPause, S
<1>12. LookPaused(c) => Rests(c) \/ Moves(c, "showPaused")
  BY <1>2, <1>3, <1>4 DEF LookPaused, S
<1>13. ResumeQueue(c) => Moves(c, "resuming")
  BY <1>2, <1>4 DEF ResumeQueue, S
<1>14. LookResumed(c) => Rests(c) \/ Moves(c, "showResumed")
  <2> DEFINE f == [Unseen EXCEPT ![S.job] = slots[S.job].state]
             s == [S EXCEPT !.at = "showResumed", !.found = f]
  <2>1. ASSUME S.at = "resuming" PROVE f \in [Jobs -> JobStates]
    BY <1>0, <1>1, <2>1 DEF Unseen, JobStates, CallOK, ForJob
  <2> HIDE DEF f
  <2>2. ASSUME S.at = "resuming", CallGoes(c, s) PROVE Moves(c, "showResumed")
    <3>1. s \in CallState
          /\ CallIs(s, "showResumed", S.job, S.jobs, f, S.version, S.then)
      BY <1>0, <1>2, <2>1, <2>2, GoesSeeing
    <3> HIDE DEF s
    <3>2. Becomes(c, "showResumed", S.job, S.jobs, S.version, S.then)
      BY <1>0, <2>2, <3>1, BecomesIs
    <3> QED
      BY <3>2 DEF Moves, S
  <2> QED
    BY <1>3, <2>2 DEF LookResumed, S, f
<1>15. CancelManaged(c) =>
         Becomes(c, "cancelled", S.job, {j \in S.jobs : Cancellable(j)},
                 S.version, S.then)
  <2> DEFINE js == {j \in S.jobs : Cancellable(j)}
             s == [S EXCEPT !.at = "cancelled", !.jobs = js]
  <2>1. js \in SUBSET Jobs
    BY <1>1
  <2>2. CancelManaged(c) => CallGoes(c, s)
    BY DEF CancelManaged, S
  <2> HIDE DEF js
  <2>3. s \in CallState
        /\ CallIs(s, "cancelled", S.job, js, S.found, S.version, S.then)
    BY <1>0, <1>2, <2>1, GoesWithout
  <2> HIDE DEF s
  <2>4. CancelManaged(c) => Becomes(c, "cancelled", S.job, js, S.version, S.then)
    BY <1>0, <2>2, <2>3, BecomesIs
  <2> QED
    BY <2>4 DEF js
<1>16. WakeCancelled(c) =>
         \/ \E j \in S.jobs :
              Becomes(c, S.at, S.job, S.jobs \ {j}, S.version, S.then)
         \/ Becomes(c, S.then, NoJob, {}, 0, "idle")
  <2> SUFFICES ASSUME WakeCancelled(c)
               PROVE  \/ \E j \in S.jobs :
                           Becomes(c, S.at, S.job, S.jobs \ {j}, S.version,
                                   S.then)
                      \/ Becomes(c, S.then, NoJob, {}, 0, "idle")
    OBVIOUS
  <2>1. ASSUME NEW j \in S.jobs, CallGoes(c, [S EXCEPT !.jobs = S.jobs \ {j}])
        PROVE  Becomes(c, S.at, S.job, S.jobs \ {j}, S.version, S.then)
    <3>1. S.jobs \ {j} \in SUBSET Jobs
      BY <1>1
    <3> QED
      BY <1>5, <2>1, <3>1
  <2>2. ASSUME CallGoes(c, [Idle EXCEPT !.at = S.then])
        PROVE  Becomes(c, S.then, NoJob, {}, 0, "idle")
    <3> DEFINE s == [Idle EXCEPT !.at = S.then]
    <3>1. s \in CallState /\ CallIs(s, S.then, NoJob, {}, Unseen, 0, "idle")
      BY <1>1, IdleIs, GoesOn DEF CallIs
    <3> HIDE DEF s
    <3> QED
      BY <1>0, <2>2, <3>1, BecomesIs DEF s
  <2> QED
    BY <2>1, <2>2 DEF WakeCancelled, S
<1> QED
  BY <1>8, <1>9, <1>10, <1>11, <1>12, <1>13, <1>14, <1>15, <1>16 DEF S

\* A caller has, at every point, what it goes on with.
LEMMA CallFits ==
  ASSUME Typed, NEW c \in Callers, OfCall(c)
  PROVE  CallOK(call'[c])
<1>0. /\ TypeOK /\ CallOK(call[c]) /\ registry \subseteq Jobs
      /\ \A j \in OverJobs : Seen[j] \in Terminal
  BY DEF Typed, TypeOK, OverJobs, Seen, Over
<1> USE <1>0 DEF CallOK, ForJob, Submitting, Becomes, CallIs, Rests, Moves,
                 Tidies
<1>1. CASE Query(c)
  BY <1>1, CallsBegin
<1>2. CASE BeginSubmit(c)
  BY <1>2, CallsBegin
<1>3. CASE BeginPause(c)
  BY <1>3, CallsBegin
<1>4. CASE BeginResume(c)
  BY <1>4, CallsBegin
<1>5. CASE CancelOne(c)
  BY <1>5, CallsBegin
<1>6. CASE ReleaseWindow(c)
  BY <1>6, CallsBegin
<1>7. CASE CancelAll(c)
  BY <1>7, CallsBegin
<1>8. CASE BeginAnswer(c)
  BY <1>8, CallsBegin
<1>9. CASE Tidy(c)
  <2>1. ASSUME NEW j \in call[c].jobs,
               Becomes(c, "reconcile", call[c].job, call[c].jobs \ {j},
                       call[c].version, call[c].then),
               call'[c].found = call[c].found
        PROVE  CallOK(call'[c])
    BY <1>9, <2>1 DEF Tidy
  <2>2. ASSUME Becomes(c, call[c].then, call[c].job, {}, 0, "idle")
        PROVE  CallOK(call'[c])
    <3>1. call[c].then = "submit" => call[c].job \in Jobs
      BY <1>9 DEF Tidy
    <3>2. call[c].then \in {"idle", "submit", "drain"}
      BY DEF CallState
    <3> QED
      BY <2>2, <3>1, <3>2
  <2> QED
    BY <1>9, <2>1, <2>2, CallsGoOn
<1>10. CASE Submit(c)
  BY <1>10, CallsGoOn DEF Submit
<1>11. CASE Register(c)
  BY <1>11, CallsGoOn DEF Register
<1>12. CASE TryPause(c)
  BY <1>12, CallsGoOn DEF TryPause
<1>13. CASE WriteBack(c)
  BY <1>13, CallsGoOn DEF WriteBack
<1>14. CASE LookPaused(c)
  BY <1>14, CallsGoOn DEF LookPaused
<1>15. CASE ShowPaused(c)
  BY <1>15, CallsGoOn DEF ShowPaused
<1>16. CASE ResumeQueue(c)
  BY <1>16, CallsGoOn DEF ResumeQueue
<1>17. CASE LookResumed(c)
  BY <1>17, CallsGoOn DEF LookResumed
<1>18. CASE ShowResumed(c)
  BY <1>18, CallsGoOn DEF ShowResumed
<1>19. CASE CancelManaged(c)
  BY <1>19, CallsGoOn DEF CancelManaged
<1>20. CASE WakeCancelled(c)
  <2>1. ASSUME NEW j \in call[c].jobs,
               Becomes(c, call[c].at, call[c].job, call[c].jobs \ {j},
                       call[c].version, call[c].then)
        PROVE  CallOK(call'[c])
    BY <1>20, <2>1 DEF WakeCancelled
  <2>2. ASSUME Becomes(c, call[c].then, NoJob, {}, 0, "idle")
        PROVE  CallOK(call'[c])
    <3>1. call[c].then \in {"idle", "drain"}
      BY <1>20 DEF WakeCancelled, CallState
    <3> QED
      BY <2>2, <3>1
  <2> QED
    BY <1>20, <2>1, <2>2, CallsGoOn
<1>21. CASE WaitIdle(c)
  BY <1>21, CallsBegin
<1>22. CASE Answer(c)
  BY <1>22, CallsGoOn
<1> QED
  BY <1>1, <1>2, <1>3, <1>4, <1>5, <1>6, <1>7, <1>8, <1>9, <1>10, <1>11,
     <1>12, <1>13, <1>14, <1>15, <1>16, <1>17, <1>18, <1>19, <1>20, <1>21,
     <1>22 DEF OfCall, CallBegins, CallGoesOn

\* A snapshot that is set stays a snapshot; an end is final, and takes the
\* question away.  [snapshots.rs set_state]
LEMMA SetStateIs ==
  ASSUME NEW s \in Snapshot, NEW state \in ShownState
  PROVE  /\ SetState(s, state) \in Snapshot
         /\ SetState(s, state).state =
              IF s.state \in EndShown THEN s.state ELSE state
         /\ SetState(s, state).question \in {0, s.question}
         /\ (SetState(s, state).question = s.question
             \/ SetState(s, state).state \in EndShown)
BY DEF SetState, Snapshot

\* Every end has a name on display.
LEMMA ShownIs == \A o \in Terminal : Shown(o) \in EndShown
BY DEF Shown, EndShown, Terminal

\* The queue's slots stay slots whatever a caller does.
LEMMA SlotsFit ==
  ASSUME Typed, NEW c \in Callers, OfCall(c)
  PROVE  SlotsTypeOK'
<1>0. /\ SlotsTypeOK /\ CallOK(call[c]) /\ call[c].job \in Jobs \cup {NoJob}
      /\ call[c].jobs \subseteq Jobs
  BY DEF Typed, TypeOK, CallOK, CallState
<1>1. ASSUME UNCHANGED slotVars PROVE SlotsTypeOK'
  BY <1>0, <1>1 DEF SlotsTypeOK, slotVars
<1>2. ASSUME NEW j \in Jobs, NEW s \in Slot, slots' = [slots EXCEPT ![j] = s],
             UNCHANGED <<reserved, executing>>,
             writing' \in [Callers -> Write \cup {Nothing}]
      PROVE  SlotsTypeOK'
  BY <1>0, <1>2 DEF SlotsTypeOK
<1>3. CASE Tidy(c)
  <2>1. ASSUME NEW j \in Jobs, Forget(j) PROVE SlotsTypeOK'
    <3>1. NoSlot \in Slot
      BY DEF NoSlot, Slot, JobStates
    <3> QED
      BY <1>0, <1>2, <2>1, <3>1 DEF Forget, SlotsTypeOK
  <2> QED
    BY <1>0, <1>1, <1>3, <2>1 DEF Tidy, Reconcile
<1>4. CASE Submit(c)
  <2>1. ASSUME NEW j \in Jobs, Enter(j) PROVE SlotsTypeOK'
    <3> DEFINE s == [state |-> "Queued", paused |-> FALSE, cancelled |-> FALSE,
                     interruptible |-> TRUE, closure |-> TRUE]
    <3>1. s \in Slot
      BY DEF Slot, JobStates
    <3>2. slots' = [slots EXCEPT ![j] = s]
      BY <2>1 DEF Enter
    <3> HIDE DEF s
    <3> QED
      BY <1>0, <1>2, <2>1, <3>1, <3>2 DEF Enter, SlotsTypeOK
  <2>2. call[c].job \in Jobs
    BY <1>0, <1>4 DEF Submit, CallOK, ForJob
  <2> QED
    BY <1>1, <1>4, <2>1, <2>2 DEF Submit
<1>5. ASSUME NEW j \in Jobs, Pause(c, j) \/ Resume(c, j) PROVE SlotsTypeOK'
  <2>1. PICK b \in BOOLEAN : slots' = [slots EXCEPT ![j].paused = b]
    BY <1>5 DEF Pause, Resume
  <2> DEFINE s == [slots[j] EXCEPT !.paused = b]
  <2>2. s \in Slot
    BY <1>0, <1>5 DEF SlotsTypeOK, Slot
  <2>3. slots' = [slots EXCEPT ![j] = s]
    BY <1>0, <2>1 DEF SlotsTypeOK
  <2>4. writing' \in [Callers -> Write \cup {Nothing}]
    BY <1>0, <1>5 DEF SlotsTypeOK, Pause, Resume, Write
  <2>5. UNCHANGED <<reserved, executing>>
    BY <1>5 DEF Pause, Resume
  <2> HIDE DEF s
  <2> QED
    BY <1>2, <1>5, <2>2, <2>3, <2>4, <2>5
<1>6. CASE TryPause(c)
  <2>1. call[c].job \in Jobs
    BY <1>0, <1>6 DEF TryPause, CallOK, ForJob
  <2> QED
    BY <1>1, <1>5, <1>6, <2>1 DEF TryPause
<1>7. CASE ResumeQueue(c)
  <2>1. call[c].job \in Jobs
    BY <1>0, <1>7 DEF ResumeQueue, CallOK, ForJob
  <2> QED
    BY <1>1, <1>5, <1>7, <2>1 DEF ResumeQueue
<1>8. CASE WriteBack(c)
  <2> DEFINE w == writing[c]
  <2>1. w \in Write /\ writing' = [writing EXCEPT ![c] = Nothing]
        /\ UNCHANGED <<reserved, executing>>
        /\ slots' = IF Known(w.job) THEN [slots EXCEPT ![w.job].state = w.state]
                    ELSE slots
    BY <1>0, <1>8 DEF WriteBack, WriteState, SlotsTypeOK
  <2>2. writing' \in [Callers -> Write \cup {Nothing}] /\ w.job \in Jobs
        /\ w.state \in JobStates
    BY <1>0, <2>1 DEF SlotsTypeOK, Write, JobStates
  <2> HIDE DEF w
  <2>3. [slots[w.job] EXCEPT !.state = w.state] \in Slot
    BY <1>0, <2>2 DEF SlotsTypeOK, Slot
  <2>4. slots' \in [Jobs -> Slot]
    BY <1>0, <2>1, <2>2, <2>3 DEF SlotsTypeOK
  <2> QED
    BY <1>0, <2>1, <2>2, <2>4 DEF SlotsTypeOK
<1>9. CASE CancelManaged(c)
  <2>1. ASSUME NEW js, Cancel(js) PROVE SlotsTypeOK'
    <3>1. \A j \in Jobs :
            /\ slots[j] \in Slot
            /\ [slots[j] EXCEPT !.cancelled = TRUE, !.closure = FALSE,
                                !.state = "Cancelled"] \in Slot
            /\ [slots[j] EXCEPT !.cancelled = TRUE] \in Slot
      BY <1>0 DEF SlotsTypeOK, Slot, JobStates, Terminal
    <3>2. slots' \in [Jobs -> Slot]
      BY <2>1, <3>1 DEF Cancel
    <3> QED
      BY <1>0, <2>1, <3>2 DEF Cancel, SlotsTypeOK
  <2> QED
    BY <1>1, <1>9, <2>1 DEF CancelManaged
<1>10. Tidy(c) \/ Submit(c) \/ TryPause(c) \/ ResumeQueue(c) \/ WriteBack(c)
       \/ CancelManaged(c) \/ UNCHANGED slotVars
  BY DEF OfCall, CallBegins, CallGoesOn, Query, BeginSubmit, BeginPause,
     BeginResume, CancelOne, ReleaseWindow, CancelAll, BeginAnswer, Register,
     LookPaused, ShowPaused, LookResumed, ShowResumed, WakeCancelled, WaitIdle,
     Answer
<1> QED
  BY <1>1, <1>3, <1>4, <1>6, <1>7, <1>8, <1>9, <1>10

\* So do the snapshots and the slots of the bridge.
LEMMA ShownFit ==
  ASSUME Typed, NEW c \in Callers, OfCall(c)
  PROVE  snap' \in [Jobs -> Snapshot] /\ bridge' \in [Jobs -> BridgeSlot]
<1>0. /\ snap \in [Jobs -> Snapshot] /\ bridge \in [Jobs -> BridgeSlot]
      /\ CallOK(call[c]) /\ call[c].job \in Jobs \cup {NoJob}
      /\ call[c].jobs \subseteq Jobs /\ call[c].version \in Nat
  BY DEF Typed, TypeOK, CallOK, CallState
<1>1. ASSUME NEW j \in Jobs, NEW state \in ShownState, UNCHANGED bridge,
             snap' = [snap EXCEPT ![j] = SetState(snap[j], state)]
      PROVE  snap' \in [Jobs -> Snapshot] /\ bridge' \in [Jobs -> BridgeSlot]
  BY <1>0, <1>1, SetStateIs
<1>2. ASSUME UNCHANGED <<snap, bridge>>
      PROVE  snap' \in [Jobs -> Snapshot] /\ bridge' \in [Jobs -> BridgeSlot]
  BY <1>0, <1>2
<1>3. CASE Tidy(c)
  <2>1. ASSUME NEW j \in call[c].jobs, Reconcile(c, j)
        PROVE  snap' = [snap EXCEPT ![j] =
                          SetState(snap[j], Shown(call[c].found[j]))]
               /\ Shown(call[c].found[j]) \in ShownState
    <3>1. call[c].found[j] \in Terminal
      BY <1>0, <1>3 DEF Tidy, CallOK
    <3> QED
      BY <1>0, <2>1, <3>1, ShownIs DEF Reconcile, ShownState
  <2> QED
    BY <1>0, <1>1, <1>2, <1>3, <2>1 DEF Tidy
<1>4. CASE Submit(c)
  <2>1. call[c].job \in Jobs
    BY <1>0, <1>4 DEF Submit, CallOK, ForJob
  <2>2. PICK state \in {"cancelled", "queued"} :
          snap' = [snap EXCEPT ![call[c].job].state = state]
    BY <1>4 DEF Submit
  <2>3. [snap[call[c].job] EXCEPT !.state = state] \in Snapshot
    BY <1>0, <2>1 DEF Snapshot, ShownState, EndShown
  <2>4. snap' \in [Jobs -> Snapshot]
    BY <1>0, <2>1, <2>2, <2>3
  <2> QED
    BY <1>0, <1>4, <2>4 DEF Submit
<1>5. CASE ShowPaused(c) \/ ShowResumed(c)
  <2>1. call[c].job \in Jobs
    BY <1>0, <1>5 DEF ShowPaused, ShowResumed, CallOK, ForJob
  <2>2. {"paused", "queued", "running"} \subseteq ShownState
    BY DEF ShownState
  <2> QED
    BY <1>1, <1>5, <2>1, <2>2 DEF ShowPaused, ShowResumed
<1>6. CASE WakeCancelled(c)
  <2>1. ASSUME NEW j \in Jobs, ShowCancelled(c, j), UNCHANGED bridge
        PROVE  snap' \in [Jobs -> Snapshot] /\ bridge' \in [Jobs -> BridgeSlot]
    BY <1>0, <2>1, SetStateIs DEF ShowCancelled, ShownState, EndShown
  <2> QED
    BY <1>0, <1>2, <1>6, <2>1 DEF WakeCancelled
<1>7. CASE Answer(c)
  <2>1. call[c].job \in Jobs
    BY <1>0, <1>7 DEF Answer, CallOK, ForJob
  <2>2. [bridge[call[c].job] EXCEPT !.answer = call[c].version] \in BridgeSlot
    BY <1>0, <2>1 DEF BridgeSlot
  <2>3. [snap[call[c].job] EXCEPT !.question = 0] \in Snapshot
    BY <1>0, <2>1 DEF Snapshot
  <2>4. bridge' \in [Jobs -> BridgeSlot]
    BY <1>0, <1>7, <2>1, <2>2 DEF Answer
  <2>5. snap' \in [Jobs -> Snapshot]
    BY <1>0, <1>7, <2>1, <2>3 DEF Answer
  <2> QED
    BY <2>4, <2>5
<1>8. Tidy(c) \/ Submit(c) \/ ShowPaused(c) \/ ShowResumed(c)
      \/ WakeCancelled(c) \/ Answer(c) \/ UNCHANGED <<snap, bridge>>
  BY DEF OfCall, CallBegins, CallGoesOn, Query, BeginSubmit, BeginPause,
     BeginResume, CancelOne, ReleaseWindow, CancelAll, BeginAnswer, Register,
     LookPaused, LookResumed, CancelManaged, TryPause, ResumeQueue, WriteBack,
     WaitIdle, jobVars
<1> QED
  BY <1>2, <1>3, <1>4, <1>5, <1>6, <1>7, <1>8

\* And the registry, the windows, the end and the bounds.
LEMMA RestFits ==
  ASSUME Typed, NEW c \in Callers, OfCall(c)
  PROVE  /\ registry' \in SUBSET Jobs /\ released' \in SUBSET Windows
         /\ quitting' \in BOOLEAN /\ calls' \in 0 .. MaxCalls
         /\ spared' \in SUBSET Jobs
<1>0. /\ registry \in SUBSET Jobs /\ released \in SUBSET Windows
      /\ quitting \in BOOLEAN /\ calls \in 0 .. MaxCalls
      /\ spared \in SUBSET Jobs /\ call[c].jobs \subseteq Jobs
      /\ call[c].at = "register" => call[c].job \in Jobs
  BY DEF Typed, TypeOK, CallOK, CallState, ForJob
<1> USE <1>0, ManagerAssumption DEF jobVars
<1>1. CASE CallBegins(c)
  <2>1. /\ released' \in SUBSET Windows /\ quitting' \in BOOLEAN
        /\ spared' = spared
    BY <1>1 DEF CallBegins, Query, BeginSubmit, BeginPause, BeginResume,
       CancelOne, ReleaseWindow, CancelAll, BeginAnswer
  <2>2. calls' = calls \/ (calls < MaxCalls /\ calls' = calls + 1)
    BY <1>1 DEF CallBegins, Query, BeginSubmit, BeginPause, BeginResume,
       CancelOne, ReleaseWindow, CancelAll, BeginAnswer, Called
  <2>3. registry' \in SUBSET Jobs
    BY <1>1 DEF CallBegins, Query, BeginSubmit, BeginPause, BeginResume,
       CancelOne, ReleaseWindow, CancelAll, BeginAnswer, TidyUp
  <2> QED
    BY <2>1, <2>2, <2>3
<1>2. CASE Register(c) \/ WaitIdle(c)
  BY <1>2 DEF Register, WaitIdle, TidyUp
<1>3. CASE CancelManaged(c)
  BY <1>3 DEF CancelManaged
<1>4. CASE UNCHANGED <<registry, released, quitting, calls, spared>>
  BY <1>4
<1>5. CallGoesOn(c) => \/ Register(c) \/ WaitIdle(c) \/ CancelManaged(c)
                       \/ UNCHANGED <<registry, released, quitting, calls, spared>>
  BY DEF CallGoesOn, Tidy, Submit, TryPause, WriteBack, LookPaused, ShowPaused,
     ResumeQueue, LookResumed, ShowResumed, WakeCancelled, Answer
<1> QED
  BY <1>1, <1>2, <1>3, <1>4, <1>5 DEF OfCall

\* What a worker takes is a job.
LEMMA WorkersTake ==
  ASSUME TypeOK, NEW j \in Jobs, OfJob(j)
  PROVE  reserved' \in SUBSET Jobs /\ executing' \in SUBSET Jobs
BY DEF TypeOK, SlotsTypeOK, OfJob, BodyStep, Take, Reserve, Drop, LetGo, Start,
   Claim, ReadPaused, ShowStarting, Phase, Gate, Reach, Checkpoint, Prepare,
   Ask, LookCancelled, TakeAnswer, ClearQuestion, Return, Panic, ShowEnd, End,
   Finish, slotVars, jobVars

\* All types are kept.
LEMMA TypedStep == Typed /\ [Next]_vars => Typed'
<1> SUFFICES ASSUME Typed, [Next]_vars PROVE Typed'
  OBVIOUS
<1>0. TypeOK
  BY DEF Typed
<1>1. ASSUME NEW j \in Jobs, OfJob(j) PROVE Typed'
  <2>1. JobOnly(j)
    BY <1>0, <1>1, JobsApart
  <2>2. /\ BodyOK(body'[j]) /\ (j \in executing' <=> body'[j].at # "out")
        /\ slots'[j] \in Slot /\ snap'[j] \in Snapshot
        /\ bridge'[j] \in BridgeSlot /\ asked' \in Nat
        /\ reserved' \in SUBSET Jobs /\ executing' \in SUBSET Jobs
    BY <1>0, <1>1, BodyFits, ExecutingFits, SlotFits, ShownFits, WorkersTake
  <2>3. /\ slots' \in [Jobs -> Slot] /\ snap' \in [Jobs -> Snapshot]
        /\ bridge' \in [Jobs -> BridgeSlot] /\ body' \in [Jobs -> Body]
    BY <1>0, <2>1, <2>2 DEF JobOnly, TypeOK, SlotsTypeOK, BodyOK
  <2>4. /\ \A k \in Jobs : BodyOK(body'[k])
        /\ \A k \in Jobs : k \in executing' <=> body'[k].at # "out"
    BY <1>0, <2>1, <2>2 DEF JobOnly, Typed, TypeOK
  <2> QED
    BY <2>1, <2>2, <2>3, <2>4 DEF JobOnly, Typed, TypeOK, SlotsTypeOK
<1>2. ASSUME NEW c \in Callers, OfCall(c) PROVE Typed'
  <2>1. CallOnly(c) /\ CallOK(call'[c]) /\ SlotsTypeOK'
        /\ snap' \in [Jobs -> Snapshot] /\ bridge' \in [Jobs -> BridgeSlot]
    BY <1>0, <1>2, CallsApart, CallFits, SlotsFit, ShownFit
  <2>2. \A d \in Callers : CallOK(call'[d])
    BY <1>0, <2>1 DEF CallOnly, Typed, TypeOK
  <2>3. call' \in [Callers -> CallState]
    BY <1>0, <2>1, <2>2 DEF CallOnly, CallOK, TypeOK
  <2> QED
    BY <1>2, <2>1, <2>2, <2>3, RestFits DEF CallOnly, Typed, TypeOK
<1>3. CASE UNCHANGED vars
  BY <1>3 DEF vars, jobVars, slotVars, Typed, TypeOK, SlotsTypeOK
<1> QED
  BY <1>1, <1>2, <1>3 DEF Next, OfJob, OfCall

\* At the start nothing has been submitted.
LEMMA TypedInit == Init => Typed
<1> SUFFICES ASSUME Init PROVE Typed
  OBVIOUS
<1>1. NoSlot \in Slot /\ NoBridge \in BridgeSlot /\ BodyOK(NoBody)
      /\ NoBody.at = "out" /\ [state |-> "none", question |-> 0] \in Snapshot
  BY DEF NoSlot, Slot, JobStates, NoBridge, BridgeSlot, BodyOK, NoBody, Body,
     BodyAt, Snapshot, ShownState
<1>2. Idle \in CallState /\ CallOK(Idle)
  BY IdleIs DEF CallOK, CallIs, ForJob, Submitting
<1>3. SlotsTypeOK
  BY <1>1 DEF Init, SlotsInit, SlotsTypeOK
<1>4. /\ snap \in [Jobs -> Snapshot] /\ bridge \in [Jobs -> BridgeSlot]
      /\ body \in [Jobs -> Body] /\ call \in [Callers -> CallState]
      /\ \A j \in Jobs : BodyOK(body[j]) /\ body[j].at = "out"
      /\ \A c \in Callers : CallOK(call[c])
  BY <1>1, <1>2 DEF Init, BodyOK
<1>5. /\ registry = {} /\ released = {} /\ quitting = FALSE /\ asked = 0
      /\ executing = {} /\ spared = {} /\ calls \in 0 .. MaxCalls
  BY ManagerAssumption DEF Init, SlotsInit
<1>6. TypeOK
  BY <1>3, <1>4, <1>5 DEF TypeOK
<1> QED
  BY <1>4, <1>6 DEF Typed

-----------------------------------------------------------------------------
(***************************************************************************)
(* A job is submitted once, and its slot goes one way.                     *)
(***************************************************************************)
\* What a worker's step does to the slot and to what is shown of its job.
LEMMA WorkerKeepsWays ==
  ASSUME Typed, Ways, NEW j \in Jobs, OfJob(j)
  PROVE  Ways'
<1>0. /\ TypeOK /\ JobOnly(j) /\ SlotOK(j)
      /\ snap[j].state = "none" => Unknown(j)
      /\ j \in executing <=> body[j].at # "out"
      /\ slots[j] \in Slot /\ snap[j] \in Snapshot
      /\ DOMAIN slots = Jobs /\ DOMAIN snap = Jobs
  BY JobsApart DEF Typed, TypeOK, SlotsTypeOK, Ways, Once
<1>1. slots[j].state # "Absent" \/ j \in executing => snap[j].state # "none"
  BY <1>0 DEF Unknown
<1>2. SlotOK(j)' /\ (snap'[j].state = "none" =>
        snap[j] = snap'[j] /\ slots'[j] = slots[j]
        /\ (j \in executing' <=> j \in executing))
  <2> USE <1>0, <1>1 DEF SlotOK, JobOnly
  <2>1. CASE Take(j) \/ Drop(j)
    BY <2>1 DEF Take, Reserve, Drop, LetGo, jobVars
  <2>2. CASE Start(j)
    BY <2>2 DEF Start, Claim, Waiting, Slot
  <2>3. CASE Phase(j)
    BY <2>3 DEF Phase, Gate, Slot
  <2>4. CASE End(j)
    BY <2>4 DEF End, Finish, Slot, Typed, BodyOK, Terminal
  <2>5. CASE ShowStarting(j) \/ ShowEnd(j)
    <3>1. j \in executing /\ UNCHANGED <<slots, executing, writing>>
      BY <2>5 DEF ShowStarting, ShowEnd, slotVars
    <3>2. PICK state \in ShownState \ {"none"} :
            snap'[j] = SetState(snap[j], state) \/ snap'[j] = snap[j]
      <4>1. CASE ShowStarting(j)
        BY <4>1 DEF ShowStarting, SetStartingState, ShownState
      <4>2. CASE ShowEnd(j)
        <5>1. Shown(body[j].outcome) \in EndShown
          BY <4>2, ShownIs DEF ShowEnd, Typed, BodyOK
        <5> QED
          BY <4>2, <5>1 DEF ShowEnd, ShownState, EndShown
      <4> QED
        BY <2>5, <4>1, <4>2
    <3> QED
      BY <3>1, <3>2, SetStateIs
  <2>6. CASE Ask(j) \/ ClearQuestion(j)
    BY <2>6 DEF Ask, ClearQuestion, slotVars, Snapshot
  <2>7. CASE UNCHANGED <<snap, slots, executing, writing>>
    BY <2>7
  <2> QED
    BY <2>1, <2>2, <2>3, <2>4, <2>5, <2>6, <2>7 DEF OfJob, BodyStep,
       ReadPaused, Reach, Checkpoint, Prepare, LookCancelled, TakeAnswer,
       Return, Panic, slotVars
<1>3. \A k \in Jobs \ {j} : /\ slots'[k] = slots[k] /\ snap'[k] = snap[k]
                            /\ (k \in executing' <=> k \in executing)
  BY <1>0 DEF JobOnly
<1>4. \A k \in Jobs : SlotOK(k)'
  BY <1>0, <1>2, <1>3 DEF Ways, SlotOK, JobOnly
<1>5. \A k \in Jobs : snap'[k].state = "none" =>
        /\ snap'[k] = snap[k] /\ slots'[k] = slots[k]
        /\ (k \in executing' <=> k \in executing)
  BY <1>2, <1>3
<1>6. \A c \in Callers : Submitting(call[c]) => call[c].job \in Jobs
  BY DEF Typed, CallOK
<1>7. \A k \in Jobs : snap'[k].state = "none" => Unknown(k)'
  BY <1>0, <1>5 DEF Ways, Once, Unknown, JobOnly
<1>8. \A k \in Jobs : snap[k].state = "none" => snap'[k].state = "none"
  <2>1. CASE snap[j].state = "none"
    <3>1. j \notin executing /\ ~Waiting(j)
      BY <1>0, <2>1 DEF Unknown, Waiting
    <3>2. snap' = snap
      BY <1>0, <3>1 DEF OfJob, BodyStep, Take, Drop, Start, Claim, ReadPaused,
         ShowStarting, Phase, Gate, Reach, Step, Checkpoint, Prepare, Ask,
         LookCancelled, TakeAnswer, ClearQuestion, Return, Panic, ShowEnd, End,
         Finish, jobVars
    <3> QED
      BY <3>2
  <2> QED
    BY <1>3, <2>1
<1> QED
  BY <1>0, <1>4, <1>6, <1>7, <1>8 DEF Ways, Once, JobOnly

\* A call changes what is shown of the jobs it is about, and never back to
\* what is shown of a job that nobody has submitted.
LEMMA CallsShow ==
  ASSUME Typed, NEW c \in Callers, OfCall(c), NEW k \in Jobs
  PROVE  /\ snap'[k].state = "none" => snap[k].state = "none"
         /\ snap'[k] # snap[k] =>
              k \in call[c].jobs \/ (call[c].at \in ForJob /\ call[c].job = k)
<1>0. /\ snap \in [Jobs -> Snapshot] /\ DOMAIN snap = Jobs
      /\ CallOK(call[c]) /\ snap[k] \in Snapshot
  BY DEF Typed, TypeOK
<1>1. ASSUME NEW j \in Jobs, NEW state \in ShownState \ {"none"},
             snap' = [snap EXCEPT ![j] = SetState(snap[j], state)],
             j \in call[c].jobs \/ (call[c].at \in ForJob /\ call[c].job = j)
      PROVE  /\ snap'[k].state = "none" => snap[k].state = "none"
             /\ snap'[k] # snap[k] =>
                  k \in call[c].jobs \/ (call[c].at \in ForJob /\ call[c].job = k)
  BY <1>0, <1>1, SetStateIs
<1>2. CASE Tidy(c)
  <2>1. ASSUME NEW j \in call[c].jobs, Reconcile(c, j)
        PROVE  /\ snap' = [snap EXCEPT ![j] =
                             SetState(snap[j], Shown(call[c].found[j]))]
               /\ Shown(call[c].found[j]) \in ShownState \ {"none"} /\ j \in Jobs
    <3>1. call[c].found[j] \in Terminal /\ j \in Jobs
      BY <1>0, <1>2 DEF Tidy, CallOK, CallState
    <3> QED
      BY <1>0, <2>1, <3>1, ShownIs DEF Reconcile, ShownState, EndShown
  <2> QED
    BY <1>0, <1>1, <1>2, <2>1 DEF Tidy
<1>3. CASE Submit(c)
  <2>1. call[c].at \in ForJob
    BY <1>3 DEF Submit, ForJob
  <2>2. PICK state \in {"cancelled", "queued"} :
          snap' = [snap EXCEPT ![call[c].job].state = state]
    BY <1>3 DEF Submit
  <2> QED
    BY <1>0, <2>1, <2>2 DEF Snapshot
<1>4. CASE ShowPaused(c) \/ ShowResumed(c)
  <2>1. call[c].job \in Jobs /\ call[c].at \in ForJob
    BY <1>0, <1>4 DEF ShowPaused, ShowResumed, CallOK, ForJob
  <2>2. {"paused", "queued", "running"} \subseteq ShownState \ {"none"}
    BY DEF ShownState
  <2> QED
    BY <1>1, <1>4, <2>1, <2>2 DEF ShowPaused, ShowResumed
<1>5. CASE WakeCancelled(c)
  <2>1. ASSUME NEW j \in call[c].jobs, ShowCancelled(c, j)
        PROVE  /\ snap'[k].state = "none" => snap[k].state = "none"
               /\ snap'[k] # snap[k] => k = j
    BY <1>0, <2>1, SetStateIs DEF ShowCancelled, ShownState, EndShown
  <2> QED
    BY <1>5, <2>1 DEF WakeCancelled
<1>6. CASE Answer(c)
  BY <1>0, <1>6 DEF Answer, ForJob, Snapshot
<1>7. Tidy(c) \/ Submit(c) \/ ShowPaused(c) \/ ShowResumed(c)
      \/ WakeCancelled(c) \/ Answer(c) \/ UNCHANGED snap
  BY DEF OfCall, CallBegins, CallGoesOn, Query, BeginSubmit, BeginPause,
     BeginResume, CancelOne, ReleaseWindow, CancelAll, BeginAnswer, Register,
     LookPaused, LookResumed, CancelManaged, TryPause, ResumeQueue, WriteBack,
     WaitIdle, jobVars
<1> QED
  BY <1>2, <1>3, <1>4, <1>5, <1>6, <1>7

\* A call knows jobs of the registry, those it knew, and the one it submits.
LEMMA CallsKnow ==
  ASSUME Typed, NEW c \in Callers, OfCall(c), NEW k \in Jobs
  PROVE  /\ k \in call'[c].jobs => k \in registry \/ k \in call[c].jobs
         /\ call'[c].job = k /\ ~Submitting(call'[c]) =>
              k \in registry \/ (call[c].job = k /\ ~Submitting(call[c]))
              \/ (call[c].job = k /\ Submit(c))
         /\ call'[c].job = k /\ Submitting(call'[c]) =>
              \/ /\ call[c].job = k /\ Submitting(call[c])
                 /\ Tidy(c)
              \/ /\ snap[k].state = "none" /\ UNCHANGED snap
                 /\ \A d \in Callers : call[d].job # k
         /\ k \in registry' => k \in registry \/ (call[c].job = k /\ Register(c))
<1>0. /\ TypeOK /\ CallOK(call[c]) /\ registry \subseteq Jobs /\ NoJob # k
      /\ OverJobs \subseteq registry /\ DOMAIN call = Callers
  BY SlotsAssumption DEF Typed, TypeOK, OverJobs
<1> USE <1>0 DEF CallOK, ForJob, Submitting, Becomes, CallIs, Rests, Moves,
                 Tidies, jobVars
<1>1. CASE Query(c)
  BY <1>1, CallsBegin DEF Query
<1>2. CASE BeginSubmit(c)
  BY <1>2, CallsBegin DEF BeginSubmit
<1>3. CASE BeginPause(c)
  BY <1>3, CallsBegin DEF BeginPause
<1>4. CASE BeginResume(c)
  BY <1>4, CallsBegin DEF BeginResume
<1>5. CASE CancelOne(c)
  BY <1>5, CallsBegin DEF CancelOne
<1>6. CASE ReleaseWindow(c)
  BY <1>6, CallsBegin DEF ReleaseWindow
<1>7. CASE CancelAll(c)
  BY <1>7, CallsBegin DEF CancelAll
<1>8. CASE BeginAnswer(c)
  BY <1>8, CallsBegin DEF BeginAnswer
<1>9. CASE Tidy(c)
  BY <1>9, CallsGoOn DEF Tidy
<1>10. CASE Submit(c)
  BY <1>10, CallsGoOn DEF Submit
<1>11. CASE Register(c)
  BY <1>11, CallsGoOn DEF Register
<1>12. CASE TryPause(c)
  BY <1>12, CallsGoOn DEF TryPause
<1>13. CASE WriteBack(c)
  BY <1>13, CallsGoOn DEF WriteBack, WriteBack
<1>14. CASE LookPaused(c)
  BY <1>14, CallsGoOn DEF LookPaused
<1>15. CASE ShowPaused(c)
  BY <1>15, CallsGoOn DEF ShowPaused
<1>16. CASE ResumeQueue(c)
  BY <1>16, CallsGoOn DEF ResumeQueue
<1>17. CASE LookResumed(c)
  BY <1>17, CallsGoOn DEF LookResumed
<1>18. CASE ShowResumed(c)
  BY <1>18, CallsGoOn DEF ShowResumed
<1>19. CASE CancelManaged(c)
  BY <1>19, CallsGoOn DEF CancelManaged
<1>20. CASE WakeCancelled(c)
  BY <1>20, CallsGoOn DEF WakeCancelled
<1>21. CASE WaitIdle(c)
  BY <1>21, CallsBegin DEF WaitIdle
<1>22. CASE Answer(c)
  BY <1>22, CallsGoOn DEF Answer
<1> QED
  BY <1>1, <1>2, <1>3, <1>4, <1>5, <1>6, <1>7, <1>8, <1>9, <1>10, <1>11,
     <1>12, <1>13, <1>14, <1>15, <1>16, <1>17, <1>18, <1>19, <1>20, <1>21,
     <1>22 DEF OfCall, CallBegins, CallGoesOn

\* What a call may do to a slot.
SlotMoves(c, k) ==
  \/ slots'[k] = slots[k]
  \/ /\ Submit(c) /\ ~Refused(k) /\ call[c].job = k
     /\ slots[k].state = "Absent" /\ snap'[k].state = "queued"
     /\ slots'[k].state = "Queued" /\ slots'[k].closure
     /\ slots'[k].interruptible /\ ~slots'[k].cancelled
  \/ /\ Tidy(c) /\ k \in call[c].jobs /\ Reconcile(c, k) /\ Over(k)
     /\ slots'[k] = NoSlot
  \/ /\ Known(k) /\ slots'[k].state = slots[k].state
     /\ slots'[k].closure = slots[k].closure
     /\ slots'[k].interruptible = slots[k].interruptible
     /\ slots'[k].cancelled = slots[k].cancelled
  \/ /\ WriteBack(c) /\ writing[c].job = k /\ Known(k)
     /\ slots'[k].state \in {"Paused", "Running"}
     /\ slots'[k].closure = slots[k].closure
     /\ slots'[k].interruptible = slots[k].interruptible
     /\ slots'[k].cancelled = slots[k].cancelled
  \/ /\ CancelManaged(c) /\ k \in call[c].jobs /\ Cancellable(k)
     /\ slots'[k].cancelled /\ slots'[k].interruptible = slots[k].interruptible
     /\ IF Waiting(k) THEN slots'[k].state = "Cancelled" /\ ~slots'[k].closure
        ELSE /\ slots'[k].state = slots[k].state
             /\ slots'[k].closure = slots[k].closure

\* It does one of these, and decides on a state only for a job that runs.
LEMMA CallsSlots ==
  ASSUME Typed, NEW c \in Callers, OfCall(c), NEW k \in Jobs
  PROVE  /\ SlotMoves(c, k)
         /\ writing'[c].job = k /\ writing'[c] # writing[c] =>
              /\ slots[k].state \in {"Running", "Paused"}
              /\ slots'[k].state = slots[k].state
<1>0. /\ slots[k] \in Slot /\ DOMAIN slots = Jobs /\ DOMAIN snap = Jobs
      /\ snap[k] \in Snapshot /\ DOMAIN writing = Callers
      /\ CallOK(call[c]) /\ k # NoJob
  BY SlotsAssumption DEF Typed, TypeOK, SlotsTypeOK
<1>1. CASE Tidy(c)
  <2>1. ASSUME NEW j \in call[c].jobs, Reconcile(c, j)
        PROVE  SlotMoves(c, k) /\ writing' = writing
    <3>1. CASE Over(j)
      BY <1>0, <1>1, <2>1, <3>1 DEF Reconcile, Forget, SlotMoves
    <3>2. CASE ~Over(j)
      BY <2>1, <3>2 DEF Reconcile, SlotMoves, slotVars
    <3> QED
      BY <3>1, <3>2
  <2>2. CASE UNCHANGED slotVars
    BY <2>2 DEF SlotMoves, slotVars
  <2> QED
    BY <1>1, <2>1, <2>2 DEF Tidy
<1>2. CASE Submit(c)
  <2>0. writing' = writing
    BY <1>2 DEF Submit, Enter, slotVars
  <2>1. CASE Refused(call[c].job) \/ call[c].job # k
    BY <1>0, <1>2, <2>1 DEF Submit, Enter, SlotMoves, slotVars
  <2>2. CASE ~Refused(call[c].job) /\ call[c].job = k
    BY <1>0, <1>2, <2>2 DEF Submit, Enter, Known, SlotMoves, Snapshot
  <2> QED
    BY <2>0, <2>1, <2>2
<1>3. ASSUME NEW j \in Jobs, Pause(c, j)
      PROVE  /\ SlotMoves(c, k)
             /\ writing'[c].job = k /\ writing'[c] # writing[c] =>
                  /\ slots'[k].state = slots[k].state
                  /\ slots[k].state = "Running"
  BY <1>0, <1>3 DEF Pause, SlotMoves, Live, Slot
<1>4. ASSUME NEW j \in Jobs, Resume(c, j)
      PROVE  /\ SlotMoves(c, k)
             /\ writing'[c].job = k /\ writing'[c] # writing[c] =>
                  /\ slots'[k].state = slots[k].state
                  /\ slots[k].state = "Paused"
  BY <1>0, <1>4 DEF Resume, SlotMoves, Slot
<1>5. CASE TryPause(c)
  <2>1. call[c].job \in Jobs
    BY <1>0, <1>5 DEF TryPause, CallOK, ForJob
  <2> QED
    BY <1>0, <1>3, <1>5, <2>1 DEF TryPause, SlotMoves, slotVars
<1>6. CASE ResumeQueue(c)
  <2>1. call[c].job \in Jobs
    BY <1>0, <1>6 DEF ResumeQueue, CallOK, ForJob
  <2> QED
    BY <1>0, <1>4, <1>6, <2>1 DEF ResumeQueue, SlotMoves, slotVars
<1>7. CASE WriteBack(c)
  <2>1. writing[c] \in Write
    BY <1>7 DEF WriteBack, WriteState, Typed, TypeOK, SlotsTypeOK
  <2> QED
    BY <1>0, <1>7, <2>1 DEF WriteBack, WriteState, Nothing, Write, SlotMoves,
       Slot
<1>8. CASE CancelManaged(c)
  <2>1. ASSUME Cancel(call[c].jobs) PROVE SlotMoves(c, k)
    BY <1>0, <1>8, <2>1 DEF Cancel, SlotMoves, Slot
  <2> QED
    BY <1>8, <2>1 DEF CancelManaged, Cancel, SlotMoves, slotVars
<1>9. Tidy(c) \/ Submit(c) \/ TryPause(c) \/ ResumeQueue(c) \/ WriteBack(c)
      \/ CancelManaged(c) \/ UNCHANGED slotVars
  BY DEF OfCall, CallBegins, CallGoesOn, Query, BeginSubmit, BeginPause,
     BeginResume, CancelOne, ReleaseWindow, CancelAll, BeginAnswer, Register,
     LookPaused, ShowPaused, LookResumed, ShowResumed, WakeCancelled, WaitIdle,
     Answer
<1> QED
  BY <1>1, <1>2, <1>5, <1>6, <1>7, <1>8, <1>9 DEF SlotMoves, slotVars

\* A call keeps the ways.
LEMMA CallsKeepWays ==
  ASSUME Typed, Ways, NEW c \in Callers, OfCall(c)
  PROVE  Ways'
<1>0. /\ CallOnly(c) /\ TypeOK /\ CallOK(call[c]) /\ DOMAIN call = Callers
      /\ DOMAIN writing = Callers /\ executing' = executing
      /\ \A d \in Callers \ {c} : call'[d] = call[d] /\ writing'[d] = writing[d]
      /\ \A d \in Callers : Submitting(call[d]) => call[d].job \in Jobs
      /\ CallOK(call'[c])
  BY CallsApart, CallFits DEF CallOnly, Typed, TypeOK, SlotsTypeOK, CallOK
<1>1. ASSUME NEW k \in Jobs, snap'[k].state = "none" PROVE Unknown(k)'
  <2>1. snap[k].state = "none" /\ Unknown(k)
    BY <1>1, CallsShow DEF Ways, Once
  <2>2. slots'[k].state = "Absent"
    BY <1>1, <2>1, CallsSlots DEF Unknown, SlotMoves, Known, Over, NoSlot,
       Cancellable, Live
  <2>3. k \notin registry'
    BY <2>1, CallsKnow DEF Unknown, Register, Submitting
  <2>4. writing'[c].job # k /\ k \notin call'[c].jobs
    BY <2>1, CallsSlots, CallsKnow DEF Unknown
  <2>5. call'[c].job = k => Submitting(call'[c])
    <3>1. ASSUME Submit(c), call[c].job = k PROVE FALSE
      <4>1. k \in DOMAIN snap /\ snap[k] \in Snapshot
        BY DEF Typed, TypeOK
      <4> QED
        BY <1>1, <3>1, <4>1 DEF Submit, Snapshot
    <3> QED
      BY <2>1, <3>1, CallsKnow DEF Unknown
  <2> QED
    BY <1>0, <2>1, <2>2, <2>3, <2>4, <2>5 DEF Unknown
<1>2. ASSUME NEW d \in Callers, Submitting(call'[d])
      PROVE  /\ snap'[call'[d].job].state = "none"
             /\ \A e \in Callers \ {d} : call'[e].job # call'[d].job
  <2> DEFINE k == call'[d].job
  <2>1. k \in Jobs
    BY <1>0, <1>2 DEF CallOK
  <2>2. CASE d # c
    <3>1. /\ Submitting(call[d]) /\ call[d].job = k /\ snap[k].state = "none"
          /\ \A e \in Callers \ {d} : call[e].job # k
          /\ Unknown(k)
      BY <1>0, <1>2, <2>1, <2>2 DEF Ways, Once
    <3>2. snap'[k].state = "none"
      BY <2>1, <2>2, <3>1, CallsShow DEF Unknown
    <3>3. call'[c].job # k
      BY <2>1, <2>2, <3>1, CallsKnow DEF Unknown
    <3> QED
      BY <1>0, <2>2, <3>1, <3>2, <3>3
  <2>3. CASE d = c
    <3>1. CASE call[c].job = k /\ Submitting(call[c]) /\ Tidy(c)
      <4>1. /\ snap[k].state = "none" /\ Unknown(k)
            /\ \A e \in Callers \ {c} : call[e].job # k
        BY <2>1, <3>1 DEF Ways, Once
      <4>2. call[c].at \notin ForJob
        BY <3>1 DEF Tidy, ForJob
      <4>3. snap'[k].state = "none"
        BY <2>1, <4>1, <4>2, CallsShow DEF Unknown
      <4> QED
        BY <1>0, <2>3, <4>1, <4>3
    <3>2. CASE /\ snap[k].state = "none" /\ UNCHANGED snap
               /\ \A e \in Callers : call[e].job # k
      BY <1>0, <2>3, <3>2
    <3> QED
      BY <1>2, <2>1, <2>3, <3>1, <3>2, CallsKnow
  <2> QED
    BY <2>2, <2>3
<1>3. ASSUME NEW k \in Jobs PROVE SlotOK(k)'
  <2>1. SlotOK(k) /\ SlotMoves(c, k)
    BY CallsSlots DEF Ways
  <2>2. ASSUME NEW d \in Callers, writing'[d].job = k
        PROVE  slots'[k].state # "Queued"
    <3>1. CASE writing'[d] = writing[d]
      <4>1. slots[k].state # "Queued"
        BY <2>1, <2>2, <3>1 DEF SlotOK
      <4>2. CASE Submit(c) /\ call[c].job = k
        <5>1. snap[k].state = "none"
          BY <4>2 DEF Ways, Once, Submit, Submitting
        <5> QED
          BY <2>2, <3>1, <5>1 DEF Ways, Once, Unknown
      <4> QED
        BY <2>1, <4>1, <4>2 DEF SlotMoves, NoSlot
    <3>2. CASE writing'[d] # writing[d]
      <4>1. d = c
        BY <1>0, <3>2
      <4> QED
        BY <2>2, <3>2, <4>1, CallsSlots
    <3> QED
      BY <3>1, <3>2
  <2>3. slots'[k].closure => /\ slots'[k].state = "Queued" /\ k \notin executing
                             /\ slots'[k].interruptible /\ ~slots'[k].cancelled
    <3>1. CASE slots'[k] = slots[k]
      BY <2>1, <3>1 DEF SlotOK
    <3>2. CASE Submit(c) /\ call[c].job = k
      <4>1. snap[k].state = "none"
        BY <3>2 DEF Ways, Once, Submit, Submitting
      <4>2. /\ k \notin executing
            /\ slots[k].state = "Absent" /\ ~slots[k].closure
        BY <2>1, <4>1 DEF Ways, Once, Unknown, SlotOK
      <4> QED
        BY <2>1, <3>2, <4>2 DEF SlotMoves, NoSlot, Known, Cancellable, Live,
           Tidy, Submit, Over, Terminal
    <3>3. CASE slots'[k] = NoSlot
      BY <3>3 DEF NoSlot
    <3>4. CASE /\ slots'[k].state = slots[k].state
               /\ slots'[k].closure = slots[k].closure
               /\ slots'[k].interruptible = slots[k].interruptible
               /\ slots'[k].cancelled = slots[k].cancelled
      BY <2>1, <3>4 DEF SlotOK
    <3>5. CASE /\ writing[c].job = k /\ slots'[k].closure = slots[k].closure
      BY <2>1, <3>5 DEF SlotOK
    <3>6. CASE IF Waiting(k) THEN ~slots'[k].closure
               ELSE slots'[k].closure = slots[k].closure
      BY <2>1, <3>6 DEF SlotOK, Waiting
    <3> QED
      BY <2>1, <3>1, <3>2, <3>3, <3>4, <3>5, <3>6 DEF SlotMoves
  <2>4. k \in executing => slots'[k].state \in {"Running", "Paused"}
    <3>1. ASSUME k \in executing
          PROVE  slots[k].state \in {"Running", "Paused"} /\ ~slots[k].closure
      BY <2>1, <3>1 DEF SlotOK
    <3> QED
      BY <2>1, <3>1 DEF SlotMoves, Over, Terminal, Waiting
  <2> QED
    BY <1>0, <2>2, <2>3, <2>4 DEF SlotOK
<1> QED
  BY <1>1, <1>2, <1>3 DEF Ways, Once

\* So does every step.
LEMMA WaysStep == Typed /\ Ways /\ [Next]_vars => Ways'
<1> SUFFICES ASSUME Typed, Ways, [Next]_vars PROVE Ways'
  OBVIOUS
<1>1. CASE UNCHANGED vars
  BY <1>1 DEF vars, jobVars, slotVars, Ways, Once, Unknown, SlotOK
<1> QED
  BY <1>1, WorkerKeepsWays, CallsKeepWays DEF Next, OfJob, OfCall

\* At the start there is nothing to be known.
LEMMA WaysInit == Init => Ways
BY SlotsAssumption DEF Init, SlotsInit, Ways, Once, Unknown, SlotOK, NoSlot,
   NoBody, Nothing, Idle, Submitting

-----------------------------------------------------------------------------
(***************************************************************************)
(* Questions and answers stay in step.                                     *)
(***************************************************************************)
\* The body asks, waits and takes the answer.
LEMMA WorkerKeepsQuestions ==
  ASSUME Typed, Ways, Questions, NEW j \in Jobs, OfJob(j)
  PROVE  Questions'
<1>0. /\ JobOnly(j) /\ Answered(j) /\ Displayed(j) /\ SlotOK(j)
      /\ j \in executing <=> body[j].at # "out"
      /\ snap[j] \in Snapshot /\ bridge[j] \in BridgeSlot /\ body[j] \in Body
      /\ DOMAIN snap = Jobs /\ DOMAIN bridge = Jobs /\ DOMAIN body = Jobs
      /\ asked \in Nat
  BY JobsApart DEF Typed, TypeOK, Ways, Questions
<1>1. ~SnapshotsFree => snap' = snap
  BY DEF OfJob, BodyStep, Take, Drop, Start, ReadPaused, ShowStarting, Phase,
     Reach, Checkpoint, Prepare, Ask, LookCancelled, TakeAnswer, ClearQuestion,
     Return, Panic, ShowEnd, End, jobVars
<1>2. Answering'
  BY <1>0, <1>1 DEF JobOnly, Questions, Answering, SnapshotsFree
<1>3. Answered(j)' /\ Displayed(j)'
  <2> USE <1>0 DEF Answered, Displayed, Open
  <2>1. CASE Take(j) \/ Drop(j)
    BY <2>1 DEF Take, Reserve, Drop, LetGo, jobVars
  <2>2. CASE Start(j)
    <3>1. body[j].at = "out"
      BY <2>2 DEF Start, Claim, Waiting, SlotOK
    <3> QED
      BY <2>2, <3>1 DEF Start, Claim, BodyGoes, Body
  <2>3. CASE ReadPaused(j)
    BY <2>3 DEF ReadPaused, Body
  <2>4. CASE ShowStarting(j)
    <3>1. snap[j].question = 0 /\ bridge[j].answer = 0 /\ body[j].got = 0
      BY <2>4 DEF ShowStarting
    <3>2. snap'[j].question = 0
      BY <2>4, <3>1, SetStateIs DEF ShowStarting, SetStartingState, ShownState
    <3> QED
      BY <2>4, <3>1, <3>2 DEF ShowStarting, Body
  <2>5. CASE Phase(j) \/ Reach(j)
    BY <2>5 DEF Phase, Reach, Step, Body
  <2>6. CASE Checkpoint(j)
    <3>1. snap[j].question = 0 /\ bridge[j].answer = 0 /\ body[j].got = 0
      BY <2>6 DEF Checkpoint
    <3>2. body'[j].got = 0 /\ body'[j].at # "clearing"
      BY <2>6, <3>1, EndingIs DEF Checkpoint, Terminal, Body
    <3> QED
      BY <2>6, <3>1, <3>2 DEF Checkpoint
  <2>7. CASE Prepare(j)
    BY <2>7 DEF Prepare, Step, Body, BridgeSlot
  <2>8. CASE Ask(j)
    <3>1. snap[j].question = 0 /\ bridge[j].answer = 0 /\ body[j].got = 0
      BY <2>8 DEF Ask
    <3>2. CASE snap[j].state \in EndShown
      <4>1. body'[j].got = 0 /\ body'[j].at = "ending" /\ bridge'[j] = NoBridge
            /\ snap' = snap
        BY <2>8, <3>2, EndingIs DEF Ask, Terminal
      <4> QED
        BY <3>1, <4>1, NoBridgeIs
    <3>3. CASE snap[j].state \notin EndShown
      <4>1. /\ asked' = asked + 1 /\ asked' \in Nat
            /\ snap' = [snap EXCEPT ![j].question = asked']
            /\ body' = [body EXCEPT ![j].at = "waiting", ![j].asked = asked']
            /\ bridge' = bridge /\ executing' = executing
        BY <2>8, <3>3 DEF Ask, slotVars
      <4>2. PICK n \in Nat : n = asked'
        BY <4>1
      <4>3. /\ snap'[j].question = n /\ body'[j].at = "waiting"
            /\ body'[j].asked = n /\ body'[j].got = body[j].got
        BY <4>1, <4>2 DEF Snapshot, Body
      <4>4. j \in executing
        BY <2>8 DEF Ask
      <4> QED
        BY <3>1, <4>1, <4>3, <4>4
    <3> QED
      BY <3>2, <3>3
  <2>9. CASE LookCancelled(j)
    BY <2>9, NoBridgeIs DEF LookCancelled, BodyGoes, Body, slotVars
  <2>10. CASE TakeAnswer(j)
    BY <2>10, NoBridgeIs DEF TakeAnswer, BodyGoes, Body, BridgeSlot, slotVars
  <2>11. CASE ClearQuestion(j)
    <3>1. bridge[j].answer = 0 /\ bridge' = bridge
      BY <2>11 DEF ClearQuestion
    <3>2. snap'[j].question = 0
      BY <2>11 DEF ClearQuestion, Snapshot
    <3>3. body'[j].got = 0 /\ body'[j].at # "clearing"
      BY <2>11, EndingIs DEF ClearQuestion, AfterQuestion, Terminal, Body
    <3> QED
      BY <3>1, <3>2, <3>3
  <2>12. CASE Return(j) \/ Panic(j)
    <3>1. snap[j].question = 0 /\ bridge[j].answer = 0
      BY <2>12 DEF Return, Panic
    <3>2. body'[j].got = 0 /\ body'[j].at # "clearing"
      <4>1. CASE Return(j)
        <5>1. PICK o \in {"Done", "Failed"} :
                body' = [body EXCEPT ![j] = Ending(o)]
          BY <4>1 DEF Return
        <5>2. o \in Terminal /\ body'[j] = Ending(o)
          BY <5>1 DEF Terminal
        <5> QED
          BY <5>2, EndingIs
      <4>2. CASE Panic(j)
        <5>1. "Failed" \in Terminal
              /\ body'[j] = [Ending("Failed") EXCEPT !.at = "ended"]
          BY <4>2 DEF Panic, Terminal
        <5> QED
          BY <5>1, EndingIs
      <4> QED
        BY <2>12, <4>1, <4>2
    <3> QED
      BY <2>12, <3>1, <3>2 DEF Return, Panic
  <2>13. CASE ShowEnd(j)
    <3>1. snap[j].question = 0 /\ bridge[j].answer = 0 /\ body[j].got = 0
      BY <2>13 DEF ShowEnd
    <3>2. snap'[j].question = 0
      BY <2>13, <3>1 DEF ShowEnd, SetState
    <3> QED
      BY <2>13, <3>1, <3>2 DEF ShowEnd, BodyGoes, Body
  <2>14. CASE End(j)
    BY <2>14 DEF End, NoBody
  <2> QED
    BY <2>1, <2>2, <2>3, <2>4, <2>5, <2>6, <2>7, <2>8, <2>9, <2>10, <2>11,
       <2>12, <2>13, <2>14 DEF OfJob, BodyStep
<1>4. \A k \in Jobs : Answered(k)' /\ Displayed(k)'
  BY <1>0, <1>3 DEF JobOnly, Questions, Answered, Displayed
<1> QED
  BY <1>2, <1>4 DEF Questions

\* The caller answers under the lock of the snapshots.
LEMMA CallsKeepQuestions ==
  ASSUME Typed, Questions, NEW c \in Callers, OfCall(c)
  PROVE  Questions'
<1>0. /\ CallOnly(c) /\ TypeOK /\ CallOK(call[c]) /\ DOMAIN call = Callers
      /\ \A d \in Callers \ {c} : call'[d] = call[d]
      /\ executing' = executing /\ body' = body
      /\ DOMAIN snap = Jobs /\ DOMAIN bridge = Jobs
      /\ \A k \in Jobs : snap[k] \in Snapshot /\ bridge[k] \in BridgeSlot
  BY CallsApart DEF CallOnly, Typed, TypeOK
<1>1. ASSUME NEW j \in Jobs, NEW state \in ShownState,
             snap' = [snap EXCEPT ![j] = SetState(snap[j], state)]
      PROVE  \A k \in Jobs : snap'[k].question \in {0, snap[k].question}
  BY <1>0, <1>1, SetStateIs
<1>2. \A k \in Jobs : snap'[k].question \in {0, snap[k].question}
  <2>1. CASE Tidy(c)
    <3>1. ASSUME NEW j \in call[c].jobs, Reconcile(c, j)
          PROVE  /\ snap' = [snap EXCEPT ![j] =
                               SetState(snap[j], Shown(call[c].found[j]))]
                 /\ Shown(call[c].found[j]) \in ShownState /\ j \in Jobs
      <4>1. call[c].found[j] \in Terminal /\ j \in Jobs
        BY <1>0, <2>1 DEF Tidy, CallOK, CallState
      <4> QED
        BY <1>0, <3>1, <4>1, ShownIs DEF Reconcile, ShownState
    <3> QED
      BY <1>1, <2>1, <3>1 DEF Tidy
  <2>2. CASE Submit(c)
    BY <1>0, <2>2 DEF Submit, Snapshot
  <2>3. CASE ShowPaused(c) \/ ShowResumed(c)
    <3>1. call[c].job \in Jobs
      BY <1>0, <2>3 DEF ShowPaused, ShowResumed, CallOK, ForJob
    <3>2. {"paused", "queued", "running"} \subseteq ShownState
      BY DEF ShownState
    <3> QED
      BY <1>1, <2>3, <3>1, <3>2 DEF ShowPaused, ShowResumed
  <2>4. CASE WakeCancelled(c)
    <3>1. ASSUME NEW j \in Jobs, ShowCancelled(c, j)
          PROVE  \A k \in Jobs : snap'[k].question \in {0, snap[k].question}
      BY <1>0, <3>1, SetStateIs DEF ShowCancelled, ShownState, EndShown
    <3> QED
      BY <1>0, <2>4, <3>1 DEF WakeCancelled, CallOK, CallState
  <2>5. CASE Answer(c)
    BY <1>0, <2>5 DEF Answer, Snapshot
  <2>6. Tidy(c) \/ Submit(c) \/ ShowPaused(c) \/ ShowResumed(c)
        \/ WakeCancelled(c) \/ Answer(c) \/ UNCHANGED snap
    BY DEF OfCall, CallBegins, CallGoesOn, Query, BeginSubmit, BeginPause,
       BeginResume, CancelOne, ReleaseWindow, CancelAll, BeginAnswer, Register,
       LookPaused, LookResumed, CancelManaged, TryPause, ResumeQueue,
       WriteBack, WaitIdle, jobVars
  <2> QED
    BY <2>1, <2>2, <2>3, <2>4, <2>5, <2>6
<1>3. CASE Answer(c)
  <2>0. PICK j \in Jobs : j = call[c].job
    BY <1>0, <1>3 DEF Answer, CallOK, ForJob
  <2>1. /\ call[c].at = "answer" /\ body[j].at # "looking"
        /\ snap[j].question = call[c].version /\ call[c].version # 0
    BY <1>0, <1>3, <2>0 DEF Answer, Questions, Answering
  <2>2. /\ Displayed(j) /\ Answered(j)
        /\ body[j].at \in {"waiting", "clearing"}
        /\ body[j].asked = call[c].version
        /\ body[j].got = 0 /\ bridge[j].answer = 0
    BY <2>1 DEF Questions, Displayed, Open
  <2>3. /\ bridge' = IF bridge[j].there
                     THEN [bridge EXCEPT ![j].answer = call[c].version]
                     ELSE bridge
        /\ snap' = [snap EXCEPT ![j].question = 0]
    BY <1>3, <2>0, <2>2 DEF Answer
  <2>4. Answered(j)' /\ Displayed(j)'
    <3>1. snap'[j].question = 0
      BY <1>0, <2>1, <2>3 DEF Snapshot
    <3>2. IF bridge[j].there
          THEN bridge'[j].there /\ bridge'[j].answer = call[c].version
          ELSE bridge'[j] = bridge[j]
      BY <1>0, <2>1, <2>3 DEF BridgeSlot
    <3>3. body'[j] = body[j]
      BY <1>0
    <3>4. Displayed(j)'
      BY <3>1 DEF Displayed
    <3>5. body[j].at = "clearing" => ~bridge[j].there
      BY <2>2 DEF Answered
    <3>6. Answered(j)'
      BY <2>2, <3>2, <3>3, <3>5 DEF Answered, Open
    <3> QED
      BY <3>4, <3>6
  <2>5. \A k \in Jobs : Answered(k)' /\ Displayed(k)'
    <3>1. \A k \in Jobs \ {j} : snap'[k] = snap[k] /\ bridge'[k] = bridge[k]
      BY <1>0, <2>3
    <3>2. \A k \in Jobs \ {j} : Answered(k)' /\ Displayed(k)'
      <4>1. SUFFICES ASSUME NEW k \in Jobs \ {j}
                     PROVE  Answered(k)' /\ Displayed(k)'
        OBVIOUS
      <4>2. /\ snap'[k] = snap[k] /\ bridge'[k] = bridge[k]
            /\ body'[k] = body[k] /\ Answered(k) /\ Displayed(k)
        BY <1>0, <3>1 DEF Questions
      <4> QED
        BY <1>0, <4>2 DEF Answered, Displayed
    <3> QED
      BY <2>4, <3>2
  <2>6. Rests(c)
    BY <1>3, CallsGoOn
  <2>7. Answering'
    BY <1>0, <2>1, <2>6 DEF Questions, Answering, Rests, Becomes, CallIs
  <2> QED
    BY <2>5, <2>7 DEF Questions
<1>4. CASE ~Answer(c)
  <2>1. bridge' = bridge
    BY <1>4 DEF OfCall, CallBegins, CallGoesOn, Query, BeginSubmit, BeginPause,
       BeginResume, CancelOne, ReleaseWindow, CancelAll, BeginAnswer, Tidy,
       Submit, Register, TryPause, WriteBack, LookPaused, ShowPaused,
       ResumeQueue, LookResumed, ShowResumed, CancelManaged, WakeCancelled,
       WaitIdle, jobVars
  <2>2. \A k \in Jobs : Answered(k)' /\ Displayed(k)'
    BY <1>0, <1>2, <2>1 DEF Questions, Answered, Displayed
  <2>3. call[c].at # "answer"
    BY <1>4 DEF OfCall, CallBegins, CallGoesOn, Query, BeginSubmit, BeginPause,
       BeginResume, CancelOne, ReleaseWindow, CancelAll, BeginAnswer, MayCall,
       Tidy, Submit, Register, TryPause, WriteBack, LookPaused, ShowPaused,
       ResumeQueue, LookResumed, ShowResumed, CancelManaged, WakeCancelled,
       WaitIdle
  <2>4. ~SnapshotsFree => snap' = snap
    BY <1>4 DEF OfCall, CallBegins, CallGoesOn, Query, BeginSubmit, BeginPause,
       BeginResume, CancelOne, ReleaseWindow, CancelAll, BeginAnswer, Tidy,
       Submit, Register, TryPause, WriteBack, LookPaused, ShowPaused,
       ResumeQueue, LookResumed, ShowResumed, CancelManaged, WakeCancelled,
       WaitIdle, jobVars
  <2>5. CASE BeginAnswer(c)
    <3>1. SnapshotsFree /\ snap' = snap
      BY <2>5 DEF BeginAnswer, jobVars
    <3>2. /\ snap[call'[c].job].question = call'[c].version
          /\ call'[c].version # 0
      BY <1>0, <2>5, CallsBegin DEF Becomes, CallIs
    <3> QED
      BY <1>0, <2>2, <3>1, <3>2 DEF Questions, Answering, SnapshotsFree
  <2>6. CASE ~BeginAnswer(c)
    <3>1. call'[c].at # "answer"
      <4> USE <1>0, <1>4, <2>3, <2>6 DEF Becomes, CallIs, Rests, Moves, Tidies
      <4>1. CASE CallBegins(c) \/ WaitIdle(c)
        BY <4>1, CallsBegin DEF CallBegins
      <4>2. CASE Tidy(c) \/ WakeCancelled(c)
        <5>1. call[c].then # "answer"
          BY DEF CallOK, CallState
        <5> QED
          BY <4>2, <5>1, CallsGoOn
      <4>3. CASE WriteBack(c)
        BY <4>3 DEF WriteBack
      <4>4. CASE CallGoesOn(c) /\ ~WaitIdle(c) /\ ~Tidy(c) /\ ~WakeCancelled(c)
                 /\ ~WriteBack(c)
        BY <4>4, CallsGoOn DEF CallGoesOn
      <4> QED
        BY <4>1, <4>2, <4>3, <4>4 DEF OfCall
    <3>2. Answering'
      BY <1>0, <2>4, <3>1 DEF Questions, Answering, SnapshotsFree
    <3> QED
      BY <2>2, <3>2 DEF Questions
  <2> QED
    BY <2>5, <2>6
<1> QED
  BY <1>3, <1>4

\* So does every step.
LEMMA QuestionsStep == Typed /\ Ways /\ Questions /\ [Next]_vars => Questions'
<1> SUFFICES ASSUME Typed, Ways, Questions, [Next]_vars PROVE Questions'
  OBVIOUS
<1>1. CASE UNCHANGED vars
  BY <1>1 DEF vars, jobVars, slotVars, Questions, Answering, Answered, Displayed
<1> QED
  BY <1>1, WorkerKeepsQuestions, CallsKeepQuestions DEF Next, OfJob, OfCall

\* At the start nothing is asked.
LEMMA QuestionsInit == Init => Questions
BY DEF Init, SlotsInit, Questions, Answering, Answered, Displayed, NoBody,
   NoBridge, Idle

-----------------------------------------------------------------------------
(***************************************************************************)
(* Nobody is left behind.                                                  *)
(***************************************************************************)
\* A worker starts what waits, and keeps what was asked of it.
LEMMA WorkerKeepsFound ==
  ASSUME Typed, Ways, NEW j \in Jobs, OfJob(j), NEW k \in Jobs
  PROVE  /\ Waiting(k)' => Waiting(k)
         /\ k \in executing' => k \in executing \/ Waiting(k)
         /\ k \in executing' /\ k \in executing /\ slots[k].cancelled =>
              slots'[k].cancelled
<1>0. /\ JobOnly(j) /\ slots[j] \in Slot /\ DOMAIN slots = Jobs /\ SlotOK(j)
  BY JobsApart DEF Typed, TypeOK, SlotsTypeOK, Ways
<1>1. CASE k # j
  BY <1>0, <1>1 DEF JobOnly, Waiting
<1>2. CASE k = j
  <2>1. CASE Start(j)
    BY <1>0, <1>2, <2>1 DEF Start, Claim, Waiting, Slot
  <2>2. CASE Phase(j) \/ End(j)
    BY <1>0, <1>2, <2>2 DEF Phase, Gate, End, Finish, Waiting, Slot, SlotOK
  <2>3. CASE UNCHANGED <<slots, executing>>
    BY <1>2, <2>3 DEF Waiting
  <2>4. Start(j) \/ Phase(j) \/ End(j) \/ UNCHANGED <<slots, executing>>
    BY DEF OfJob, BodyStep, Take, Reserve, Drop, LetGo, ReadPaused,
       ShowStarting, Reach, Checkpoint, Prepare, Ask, LookCancelled,
       TakeAnswer, ClearQuestion, Return, Panic, ShowEnd, slotVars
  <2> QED
    BY <2>1, <2>2, <2>3, <2>4
<1> QED
  BY <1>1, <1>2

\* So every job is found, and reached.
LEMMA WorkerKeepsOrphans ==
  ASSUME Typed, Ways, Orphans, NEW j \in Jobs, OfJob(j)
  PROVE  Orphans'
<1>1. /\ registry' = registry /\ call' = call /\ released' = released
      /\ quitting' = quitting /\ spared' = spared
  BY JobsApart DEF JobOnly, Typed
<1>2. Found'
  BY <1>1, WorkerKeepsFound DEF Orphans, Found, Registering
<1>3. NoOrphanedJob'
  BY <1>1, WorkerKeepsFound DEF Orphans, NoOrphanedJob, Gone, Reaching
<1> QED
  BY <1>2, <1>3 DEF Orphans

\* A call makes a job wait only by submitting it, and takes no cancellation
\* back.
LEMMA CallsWaiting ==
  ASSUME Typed, Ways, NEW c \in Callers, OfCall(c), NEW k \in Jobs
  PROVE  /\ Waiting(k)' =>
              Waiting(k) \/ (Submit(c) /\ call[c].job = k /\ ~Refused(k))
         /\ k \in executing /\ slots[k].cancelled => slots'[k].cancelled
<1>1. SlotMoves(c, k) /\ SlotOK(k)
  BY CallsSlots DEF Ways
<1>2. k \in executing => ~Over(k)
  BY <1>1 DEF SlotOK, Over, Terminal
<1>3. slots[k].closure => slots[k].state = "Queued"
  BY <1>1 DEF SlotOK
<1> QED
  BY <1>1, <1>2, <1>3 DEF SlotMoves, Waiting, NoSlot, SlotOK

\* Every job that waits or runs is in the registry or about to be.
LEMMA CallsKeepFound ==
  ASSUME Typed, Ways, Found, NEW c \in Callers, OfCall(c)
  PROVE  Found'
<1>0. /\ CallOnly(c) /\ DOMAIN call = Callers /\ executing' = executing
      /\ \A d \in Callers \ {c} : call'[d] = call[d]
  BY CallsApart DEF CallOnly, Typed, TypeOK
<1> SUFFICES ASSUME NEW k \in Jobs, Waiting(k)' \/ k \in executing
             PROVE  k \in registry' \/ Registering(k)'
  BY <1>0 DEF Found
<1>1. CASE Submit(c) /\ call[c].job = k /\ ~Refused(k)
  <2>1. Moves(c, "register")
    BY <1>1, CallsGoOn
  <2> QED
    BY <1>1, <2>1 DEF Moves, Becomes, CallIs, Registering
<1>2. CASE Waiting(k) \/ k \in executing
  <2>1. k \in registry \/ Registering(k)
    BY <1>2 DEF Found
  <2>2. CASE Register(c)
    <3>1. registry' = registry \cup {call[c].job}
      BY <2>2 DEF Register
    <3>2. ASSUME NEW d \in Callers, call[d].at = "register", call[d].job = k
          PROVE  k \in registry' \/ Registering(k)'
      BY <1>0, <3>1, <3>2 DEF Registering
    <3> QED
      BY <2>1, <3>1, <3>2 DEF Registering
  <2>3. CASE ~Register(c)
    <3>1. ~Over(k)
      BY <1>2 DEF Ways, SlotOK, Over, Terminal, Waiting
    <3>2. k \in registry => k \in registry'
      BY <3>1, CallsBegin, <2>3 DEF Typed, Tidies, OverJobs, OfCall,
         CallBegins, CallGoesOn, BeginPause, BeginResume, CancelOne,
         ReleaseWindow, CancelAll, BeginAnswer, Tidy, Submit, TryPause,
         WriteBack, LookPaused, ShowPaused, ResumeQueue, LookResumed,
         ShowResumed, CancelManaged, WakeCancelled, Answer, jobVars
    <3>3. call[c].at # "register"
      BY <2>3 DEF OfCall, CallBegins, CallGoesOn, Query, BeginSubmit,
         BeginPause, BeginResume, CancelOne, ReleaseWindow, CancelAll,
         BeginAnswer, MayCall, Tidy, Submit, TryPause, WriteBack, LookPaused,
         ShowPaused, ResumeQueue, LookResumed, ShowResumed, CancelManaged,
         WakeCancelled, WaitIdle, Answer
    <3> QED
      BY <1>0, <2>1, <3>2, <3>3 DEF Registering
  <2> QED
    BY <2>2, <2>3
<1> QED
  BY <1>1, <1>2, CallsWaiting

\* Who goes away takes along what it finds.
LEMMA CallsKeepReached ==
  ASSUME Typed, Ways, Orphans, NEW c \in Callers, OfCall(c)
  PROVE  NoOrphanedJob'
<1>0. /\ TypeOK /\ CallOnly(c) /\ DOMAIN call = Callers
      /\ executing' = executing
      /\ \A d \in Callers \ {c} : call'[d] = call[d]
  BY CallsApart DEF CallOnly, Typed, TypeOK
<1> SUFFICES ASSUME NEW k \in Jobs, Gone(k)', ~Reaching(k)'
             PROVE  /\ ~Waiting(k)'
                    /\ k \in executing => slots'[k].cancelled \/ k \in spared'
  BY <1>0 DEF NoOrphanedJob
<1>1. SlotOK(k)
  BY DEF Ways
<1>2. CASE CancelManaged(c) /\ k \in call[c].jobs
  <2>1. ASSUME Cancellable(k)
        PROVE  slots'[k].cancelled /\ ~Waiting(k)'
    <3>1. slots'[k] = IF Waiting(k)
                      THEN [slots[k] EXCEPT !.cancelled = TRUE,
                                            !.closure = FALSE,
                                            !.state = "Cancelled"]
                      ELSE [slots[k] EXCEPT !.cancelled = TRUE]
      BY <1>2, <2>1 DEF CancelManaged, Cancel
    <3>2. slots[k] \in Slot
      BY <1>0 DEF TypeOK, SlotsTypeOK
    <3> QED
      BY <3>1, <3>2 DEF Slot, Waiting
  <2>2. ASSUME ~Cancellable(k)
        PROVE  /\ ~Waiting(k)'
               /\ k \in executing => slots'[k].cancelled \/ k \in spared'
    <3>1. ~Waiting(k)
      BY <1>1, <2>2 DEF SlotOK, Waiting, Cancellable, Live, Known, Over,
         Terminal
    <3>2. k \in executing => Live(k)
      BY <1>1 DEF SlotOK, Live, Known, Over, Terminal
    <3>3. ~Waiting(k)'
      BY <1>2, <3>1, CallsWaiting DEF CancelManaged, Submit
    <3>4. spared' = spared \cup {j \in call[c].jobs :
                                    Live(j) /\ ~slots[j].interruptible}
      BY <1>2 DEF CancelManaged
    <3>5. k \in executing =>
            ~slots[k].interruptible \/ slots[k].cancelled
      BY <2>2, <3>2 DEF Cancellable
    <3> QED
      BY <1>2, <3>2, <3>3, <3>4, <3>5, CallsWaiting
  <2> QED
    BY <2>1, <2>2
<1>3. CASE ReleaseWindow(c) \/ CancelAll(c)
  <2>1. RegistryFree /\ slots' = slots /\ spared' = spared
    BY <1>3 DEF ReleaseWindow, CancelAll, slotVars
  <2>2. Waiting(k) \/ k \in executing => k \in registry
    BY <2>1 DEF Orphans, Found, Registering, RegistryFree
  <2>3. call[c].at = "idle"
    BY <1>3 DEF ReleaseWindow, CancelAll, MayCall
  <2>4. ~Reaching(k)
    BY <1>0, <2>3 DEF Reaching
  <2>5. Gone(k) \/ k \notin registry
    <3>1. CASE ReleaseWindow(c)
      <4>1. PICK w \in Windows \ released :
              /\ released' = released \cup {w}
              /\ Becomes(c, "cancel", NoJob, {j \in registry : Owner[j] = w},
                         0, "idle")
        BY <1>0, <3>1, CallsBegin
      <4>2. quitting' = quitting
        BY <3>1 DEF ReleaseWindow
      <4> QED
        BY <4>1, <4>2 DEF Gone, Reaching, Becomes, CallIs
    <3>2. CASE CancelAll(c)
      BY <1>0, <3>2, CallsBegin DEF Reaching, Becomes, CallIs
    <3> QED
      BY <1>3, <3>1, <3>2
  <2> QED
    BY <2>1, <2>2, <2>4, <2>5 DEF Orphans, NoOrphanedJob, Waiting
<1>4. CASE ~ReleaseWindow(c) /\ ~CancelAll(c)
           /\ ~(CancelManaged(c) /\ k \in call[c].jobs)
  <2>1. released' = released /\ quitting' = quitting
    BY <1>4 DEF OfCall, CallBegins, CallGoesOn, Query, BeginSubmit, BeginPause,
       BeginResume, CancelOne, BeginAnswer, Tidy, Submit, Register, TryPause,
       WriteBack, LookPaused, ShowPaused, ResumeQueue, LookResumed,
       ShowResumed, CancelManaged, WakeCancelled, WaitIdle, Answer, jobVars
  <2>2. spared \subseteq spared'
    BY <1>4 DEF OfCall, CallBegins, CallGoesOn, Query, BeginSubmit, BeginPause,
       BeginResume, CancelOne, BeginAnswer, Tidy, Submit, Register, TryPause,
       WriteBack, LookPaused, ShowPaused, ResumeQueue, LookResumed,
       ShowResumed, CancelManaged, WakeCancelled, WaitIdle, Answer
  <2>3. call[c].at = "cancel" => CancelManaged(c)
    BY <1>4 DEF OfCall, CallBegins, CallGoesOn, Query, BeginSubmit, BeginPause,
       BeginResume, CancelOne, BeginAnswer, MayCall, Tidy, Submit, Register,
       TryPause, WriteBack, LookPaused, ShowPaused, ResumeQueue, LookResumed,
       ShowResumed, WakeCancelled, WaitIdle, Answer
  <2>4. ~Reaching(k)
    BY <1>0, <1>4, <2>3 DEF Reaching
  <2>5. Gone(k)
    BY <2>1 DEF Gone
  <2>6. ~Waiting(k) /\ (k \in executing => slots[k].cancelled \/ k \in spared)
    BY <2>4, <2>5 DEF Orphans, NoOrphanedJob
  <2>7. Refused(k)
    BY <2>5 DEF Gone, Refused
  <2> QED
    BY <2>2, <2>6, <2>7, CallsWaiting
<1> QED
  BY <1>2, <1>3, <1>4

\* So every step leaves nobody behind.
LEMMA OrphansStep == Typed /\ Ways /\ Orphans /\ [Next]_vars => Orphans'
<1> SUFFICES ASSUME Typed, Ways, Orphans, [Next]_vars PROVE Orphans'
  OBVIOUS
<1>1. ASSUME NEW c \in Callers, OfCall(c) PROVE Orphans'
  BY <1>1, CallsKeepFound, CallsKeepReached DEF Orphans
<1>2. CASE UNCHANGED vars
  BY <1>2 DEF vars, jobVars, slotVars, Orphans, Found, Registering, Waiting,
     NoOrphanedJob, Gone, Reaching
<1> QED
  BY <1>1, <1>2, WorkerKeepsOrphans DEF Next, OfJob, OfCall

\* At the start there is nobody.
LEMMA OrphansInit == Init => Orphans
BY DEF Init, SlotsInit, Orphans, Found, NoOrphanedJob, Waiting, NoSlot

-----------------------------------------------------------------------------
(***************************************************************************)
(* What is shown of an end is so.                                          *)
(***************************************************************************)
\* The body shows its own end, and only once it has come to it.
LEMMA WorkerKeepsEnds ==
  ASSUME Typed, Ways, Ends, NEW j \in Jobs, OfJob(j)
  PROVE  Ends'
<1>0. /\ JobOnly(j) /\ SlotOK(j) /\ EndOK(j)
      /\ j \in executing <=> body[j].at # "out"
      /\ slots[j] \in Slot /\ snap[j] \in Snapshot /\ BodyOK(body[j])
      /\ DOMAIN slots = Jobs /\ DOMAIN snap = Jobs /\ DOMAIN body = Jobs
      /\ snap[j].state = "none" => Unknown(j)
  BY JobsApart DEF Typed, TypeOK, SlotsTypeOK, Ways, Once, Ends
<1>1. EndOK(j)'
  <2>1. CASE Take(j) \/ Drop(j)
    BY <1>0, <2>1 DEF Take, Reserve, Drop, LetGo, jobVars, EndOK, Waiting, Over
  <2>2. CASE Start(j)
    <3>1. snap[j].state \notin EndShown /\ snap' = snap
      BY <1>0, <2>2 DEF Start, Claim, EndOK
    <3>2. slots'[j].state # "Absent"
      BY <1>0, <2>2 DEF Start, Claim, Slot
    <3> QED
      BY <3>1, <3>2 DEF EndOK
  <2>3. CASE End(j)
    <3>1. /\ slots'[j].state = body[j].outcome /\ body[j].outcome \in Terminal
          /\ slots'[j].closure = slots[j].closure
          /\ j \in executing /\ j \notin executing' /\ snap' = snap
      BY <1>0, <2>3 DEF End, Finish, Slot, BodyOK
    <3> QED
      BY <1>0, <3>1 DEF EndOK, Waiting, Over, Terminal
  <2>4. CASE ShowEnd(j)
    <3>1. /\ j \in executing /\ executing' = executing /\ slots' = slots
          /\ body'[j].at = "ended" /\ body'[j].outcome = body[j].outcome
          /\ body[j].outcome \in Terminal
          /\ snap[j].state \notin EndShown
      BY <1>0, <2>4 DEF ShowEnd, BodyGoes, slotVars, Body, BodyOK, EndOK
    <3>2. snap'[j].state = Shown(body[j].outcome)
          /\ snap'[j].state \in EndShown
      BY <1>0, <2>4, <3>1, ShownIs, SetStateIs DEF ShowEnd, ShownState, EndShown
    <3> QED
      BY <1>0, <3>1, <3>2 DEF EndOK, Waiting, SlotOK
  <2>5. CASE BodyStep(j) /\ ~ShowEnd(j) /\ ~End(j)
    <3>1. /\ j \in executing /\ body[j].at # "ended" /\ executing' = executing
      BY <1>0, <2>5 DEF BodyStep, ReadPaused, ShowStarting, Phase, Gate, Step,
         Reach, Checkpoint, Prepare, Ask, LookCancelled, TakeAnswer,
         ClearQuestion, Return, Panic, slotVars
    <3>2. snap[j].state \notin EndShown /\ snap[j].state # "none"
      BY <1>0, <3>1 DEF EndOK, Unknown
    <3>3. slots'[j].state = slots[j].state
      BY <1>0, <2>5 DEF BodyStep, ReadPaused, ShowStarting, Phase, Gate, Step,
         Reach, Checkpoint, Prepare, Ask, LookCancelled, TakeAnswer,
         ClearQuestion, Return, Panic, slotVars, Slot
    <3>4. snap'[j].state \notin EndShown
      <4>1. CASE ShowStarting(j)
        BY <1>0, <3>2, <4>1, SetStateIs DEF ShowStarting, SetStartingState,
           ShownState, EndShown
      <4>2. CASE ~ShowStarting(j)
        <5>1. snap'[j].state = snap[j].state
          BY <1>0, <2>5, <4>2 DEF BodyStep, ReadPaused, Phase, Reach,
             Checkpoint, Prepare, Ask, LookCancelled, TakeAnswer,
             ClearQuestion, Return, Panic, Snapshot
        <5> QED
          BY <3>2, <5>1
      <4> QED
        BY <4>1, <4>2
    <3>5. slots'[j].state # "Absent"
      BY <1>0, <3>1, <3>3 DEF SlotOK
    <3> QED
      BY <3>4, <3>5 DEF EndOK
  <2> QED
    BY <2>1, <2>2, <2>3, <2>4, <2>5 DEF OfJob
<1>2. ASSUME NEW k \in Jobs PROVE EndOK(k)'
  <2>1. CASE k # j
    BY <1>0, <2>1 DEF JobOnly, Ends, EndOK, Waiting, Over
  <2> QED
    BY <1>1, <2>1
<1>3. Reconciled'
  <2> SUFFICES ASSUME NEW c \in Callers, call[c].at = "reconcile",
                      NEW k \in call[c].jobs, k \in Jobs
               PROVE  /\ k \notin executing' /\ ~Waiting(k)'
                      /\ Over(k)' => slots'[k].state = call[c].found[k]
    <3>1. \A c \in Callers : call[c].jobs \subseteq Jobs
      BY DEF Typed, CallOK, CallState
    <3> QED
      BY <1>0, <3>1 DEF JobOnly, Reconciled
  <2>1. /\ k \notin executing /\ ~Waiting(k)
        /\ Over(k) => slots[k].state = call[c].found[k]
    BY DEF Ends, Reconciled
  <2>2. slots'[k] = slots[k] /\ (k \in executing' <=> k \in executing)
    <3>1. CASE k # j
      BY <1>0, <3>1 DEF JobOnly
    <3>2. CASE k = j
      <4>1. Drop(j)
        BY <1>0, <2>1, <3>2 DEF OfJob, BodyStep, Take, Reserve, Start, Claim,
           ReadPaused, ShowStarting, Phase, Step, Reach, Checkpoint, Prepare,
           Ask, LookCancelled, TakeAnswer, ClearQuestion, Return, Panic,
           ShowEnd, End
      <4> QED
        BY <4>1 DEF Drop, LetGo
    <3> QED
      BY <3>1, <3>2
  <2> QED
    BY <2>1, <2>2 DEF Waiting, Over
<1> QED
  BY <1>2, <1>3 DEF Ends

\* What a call may make of what is shown.
ShowMoves(c, k) ==
  \/ snap'[k].state = snap[k].state
  \/ /\ Tidy(c) /\ k \in call[c].jobs /\ Reconcile(c, k)
     /\ snap'[k].state = IF snap[k].state \in EndShown THEN snap[k].state
                         ELSE Shown(call[c].found[k])
  \/ /\ Submit(c) /\ call[c].job = k
     /\ IF Refused(k) THEN slots' = slots /\ snap'[k].state = "cancelled"
        ELSE snap'[k].state = "queued"
  \/ /\ call[c].at \in ForJob /\ call[c].job = k /\ ~Submitting(call[c])
     /\ UNCHANGED slots
     /\ IF snap[k].state \in EndShown THEN snap'[k].state = snap[k].state
        ELSE snap'[k].state \in {"paused", "queued", "running"}
  \/ /\ slots[k].state = "Cancelled" /\ UNCHANGED slots
     /\ snap'[k].state = IF snap[k].state \in EndShown THEN snap[k].state
                         ELSE "cancelled"

\* It makes one of these of it.
LEMMA CallsShowMoves ==
  ASSUME Typed, NEW c \in Callers, OfCall(c), NEW k \in Jobs
  PROVE  ShowMoves(c, k)
<1>0. /\ DOMAIN snap = Jobs /\ CallOK(call[c]) /\ snap[k] \in Snapshot
  BY DEF Typed, TypeOK
<1>1. CASE Tidy(c)
  <2>1. ASSUME NEW j \in call[c].jobs, Reconcile(c, j) PROVE ShowMoves(c, k)
    <3>1. snap' = [snap EXCEPT ![j] =
                     SetState(snap[j], Shown(call[c].found[j]))]
      BY <2>1 DEF Reconcile
    <3>2. CASE j # k
      BY <3>1, <3>2 DEF ShowMoves
    <3>3. CASE j = k
      <4>1. Shown(call[c].found[k]) \in ShownState
        BY <1>0, <1>1, <2>1, <3>3, ShownIs DEF Tidy, CallOK, ShownState
      <4>2. snap'[k] = SetState(snap[k], Shown(call[c].found[k]))
        BY <1>0, <3>1, <3>3
      <4> QED
        BY <1>0, <1>1, <2>1, <3>3, <4>1, <4>2, SetStateIs DEF ShowMoves
    <3> QED
      BY <3>2, <3>3
  <2>2. CASE UNCHANGED snap
    BY <2>2 DEF ShowMoves
  <2> QED
    BY <1>1, <2>1, <2>2 DEF Tidy
<1>2. CASE Submit(c)
  <2>1. CASE call[c].job # k
    BY <1>0, <1>2, <2>1 DEF Submit, ShowMoves
  <2>2. CASE call[c].job = k /\ Refused(k)
    BY <1>0, <1>2, <2>2 DEF Submit, ShowMoves, Snapshot, slotVars
  <2>3. CASE call[c].job = k /\ ~Refused(k)
    BY <1>0, <1>2, <2>3 DEF Submit, ShowMoves, Snapshot
  <2> QED
    BY <2>1, <2>2, <2>3
<1>3. CASE ShowPaused(c) \/ ShowResumed(c)
  <2>1. /\ call[c].at \in ForJob /\ ~Submitting(call[c]) /\ UNCHANGED slots
    BY <1>3 DEF ShowPaused, ShowResumed, ForJob, Submitting, slotVars
  <2>2. PICK state \in {"paused", "queued", "running"} :
          snap' = [snap EXCEPT ![call[c].job] =
                     SetState(snap[call[c].job], state)]
    BY <1>3 DEF ShowPaused, ShowResumed
  <2>3. state \in ShownState
    BY DEF ShownState
  <2> QED
    BY <1>0, <2>1, <2>2, <2>3, SetStateIs DEF ShowMoves
<1>4. CASE WakeCancelled(c)
  <2>1. UNCHANGED slots /\ "cancelled" \in ShownState
    BY <1>4 DEF WakeCancelled, slotVars, ShownState, EndShown
  <2>2. ASSUME NEW j, ShowCancelled(c, j) PROVE ShowMoves(c, k)
    BY <1>0, <2>1, <2>2, SetStateIs DEF ShowCancelled, ShowMoves
  <2>3. CASE UNCHANGED snap
    BY <2>3 DEF ShowMoves
  <2> QED
    BY <1>4, <2>2, <2>3 DEF WakeCancelled
<1>5. CASE Answer(c)
  BY <1>0, <1>5 DEF Answer, ShowMoves, Snapshot
<1>6. Tidy(c) \/ Submit(c) \/ ShowPaused(c) \/ ShowResumed(c)
      \/ WakeCancelled(c) \/ Answer(c) \/ UNCHANGED snap
  BY DEF OfCall, CallBegins, CallGoesOn, Query, BeginSubmit, BeginPause,
     BeginResume, CancelOne, ReleaseWindow, CancelAll, BeginAnswer, Register,
     LookPaused, LookResumed, CancelManaged, TryPause, ResumeQueue, WriteBack,
     WaitIdle, jobVars
<1> QED
  BY <1>1, <1>2, <1>3, <1>4, <1>5, <1>6 DEF ShowMoves

\* What is found over stays what it was found.
LEMMA CallsKeepReconciled ==
  ASSUME Typed, Ways, Ends, NEW c \in Callers, OfCall(c)
  PROVE  Reconciled'
<1>0. /\ CallOnly(c) /\ DOMAIN call = Callers /\ executing' = executing
      /\ \A d \in Callers \ {c} : call'[d] = call[d]
      /\ registry \subseteq Jobs
      /\ \A d \in Callers : call[d].jobs \subseteq Jobs
  BY CallsApart DEF CallOnly, Typed, TypeOK, CallOK, CallState
<1>1. ASSUME NEW d \in Callers, call[d].at = "reconcile", NEW k \in call[d].jobs
      PROVE  /\ k \notin executing /\ ~Waiting(k)'
             /\ Over(k)' => slots'[k].state = call[d].found[k]
  <2>1. /\ k \in Jobs /\ k \notin executing /\ ~Waiting(k)
        /\ Over(k) => slots[k].state = call[d].found[k]
    BY <1>0, <1>1 DEF Ends, Reconciled
  <2>2. ~(Submit(c) /\ call[c].job = k)
    <3>1. ASSUME Submit(c), call[c].job = k PROVE FALSE
      <4>1. snap[k].state = "none"
        BY <3>1 DEF Ways, Once, Submit, Submitting
      <4> QED
        BY <1>1, <2>1, <4>1 DEF Ways, Once, Unknown
    <3> QED
      BY <3>1
  <2>3. ~Waiting(k)'
    BY <2>1, <2>2, CallsWaiting
  <2>4. Over(k)' => slots'[k].state = slots[k].state /\ Over(k)
    BY <2>1, <2>2, CallsSlots DEF SlotMoves, Over, Terminal, NoSlot
  <2> QED
    BY <2>1, <2>3, <2>4
<1>2. ASSUME Tidies(c, call'[c].job, call'[c].then), UNCHANGED slots,
             NEW k \in call'[c].jobs
      PROVE  /\ k \notin executing /\ ~Waiting(k)'
             /\ Over(k)' => slots'[k].state = call'[c].found[k]
  <2>1. k \in OverJobs /\ k \in Jobs /\ Over(k)
    BY <1>0, <1>2 DEF Tidies, Becomes, CallIs, OverJobs
  <2>2. SlotOK(k) /\ call'[c].found[k] = slots[k].state
    BY <1>2, <2>1 DEF Ways, Tidies, Seen
  <2> QED
    BY <1>2, <2>1, <2>2 DEF SlotOK, Over, Terminal, Waiting
<1>3. ASSUME call'[c].at = "reconcile"
      PROVE  \/ Tidies(c, call'[c].job, call'[c].then) /\ UNCHANGED slots
             \/ /\ call[c].at = "reconcile" /\ call'[c].found = call[c].found
                /\ call'[c].jobs \subseteq call[c].jobs
  <2> USE <1>0, <1>3 DEF Becomes, CallIs, Rests, Moves
  <2>1. CASE Query(c) \/ WaitIdle(c)
    <3>1. Tidies(c, NoJob, "idle")
      BY <2>1, CallsBegin DEF Typed
    <3> QED
      BY <2>1, <3>1 DEF Tidies, Query, WaitIdle, slotVars
  <2>2. CASE BeginSubmit(c)
    <3>1. PICK j \in Jobs : Tidies(c, j, "submit")
      BY <2>2, CallsBegin DEF Typed
    <3> QED
      BY <2>2, <3>1 DEF Tidies, BeginSubmit, slotVars
  <2>3. CASE CallBegins(c) /\ ~Query(c) /\ ~BeginSubmit(c)
    BY <2>3, CallsBegin DEF CallBegins, Typed
  <2>4. CASE Tidy(c)
    <3>1. call[c].at = "reconcile" /\ call[c].then # "reconcile"
      BY <2>4 DEF Tidy, Typed, CallOK, CallState
    <3> QED
      BY <2>4, <3>1, CallsGoOn
  <2>5. CASE WakeCancelled(c)
    <3>1. call[c].at # "reconcile" /\ call[c].then # "reconcile"
      BY <2>5 DEF WakeCancelled, Typed, CallOK, CallState
    <3> QED
      BY <2>5, <3>1, CallsGoOn
  <2>6. CASE WriteBack(c)
    BY <2>6 DEF WriteBack
  <2>7. CASE CallGoesOn(c) /\ ~WaitIdle(c) /\ ~Tidy(c) /\ ~WakeCancelled(c)
             /\ ~WriteBack(c)
    BY <2>7, CallsGoOn DEF CallGoesOn
  <2> QED
    BY <2>1, <2>2, <2>3, <2>4, <2>5, <2>6, <2>7 DEF OfCall
<1>4. ASSUME NEW d \in Callers, call'[d].at = "reconcile", NEW k \in call'[d].jobs
      PROVE  /\ k \notin executing /\ ~Waiting(k)'
             /\ Over(k)' => slots'[k].state = call'[d].found[k]
  BY <1>0, <1>1, <1>2, <1>3, <1>4
<1> QED
  BY <1>0, <1>4 DEF Reconciled

\* A call shows the end that it found.
LEMMA CallsKeepEnds ==
  ASSUME Typed, Ways, Ends, NEW c \in Callers, OfCall(c), NEW k \in Jobs
  PROVE  EndOK(k)'
<1>0. /\ CallOnly(c) /\ CallOK(call[c]) /\ executing' = executing /\ body' = body
      /\ EndOK(k) /\ SlotOK(k) /\ (snap[k].state = "none" => Unknown(k))
      /\ ShowMoves(c, k) /\ SlotMoves(c, k)
  BY CallsApart, CallsShowMoves, CallsSlots DEF CallOnly, Typed, Ways, Once, Ends
<1>1. CASE Tidy(c) /\ k \in call[c].jobs /\ Reconcile(c, k)
  <2>1. /\ k \notin executing /\ ~Waiting(k)
        /\ Over(k) => slots[k].state = call[c].found[k]
        /\ call[c].found[k] \in Terminal
    BY <1>0, <1>1 DEF Ends, Reconciled, Tidy, CallOK
  <2>2. snap'[k].state \in EndShown
        /\ (snap[k].state \in EndShown => snap'[k].state = snap[k].state)
    <3>1. snap[k] \in Snapshot /\ k \in DOMAIN snap
          /\ Shown(call[c].found[k]) \in EndShown
      BY <2>1, ShownIs DEF Typed, TypeOK
    <3> QED
      BY <1>1, <3>1, SetStateIs DEF Reconcile, ShownState
  <2>3. CASE Over(k)
    <3>1. slots'[k] = NoSlot
      <4>1. k \in DOMAIN slots
        BY DEF Typed, TypeOK, SlotsTypeOK
      <4> QED
        BY <1>1, <2>3, <4>1 DEF Reconcile, Forget
    <3> QED
      BY <1>0, <2>1, <2>2, <3>1 DEF EndOK, NoSlot, Waiting, Over, Terminal
  <2>4. CASE ~Over(k)
    <3>1. slots' = slots
      BY <1>1, <2>4 DEF Reconcile, slotVars
    <3> QED
      BY <1>0, <2>1, <2>2, <2>4, <3>1 DEF EndOK, Waiting, Over
  <2> QED
    BY <2>3, <2>4
<1>2. CASE Submit(c) /\ call[c].job = k
  <2>1. snap[k].state = "none" /\ Unknown(k)
    BY <1>0, <1>2 DEF Ways, Once, Submit, Submitting
  <2>2. ~Waiting(k) /\ ~Over(k) /\ k \notin executing
    BY <2>1 DEF Unknown, Waiting, Over, Terminal
  <2>3. CASE Refused(k)
    <3>1. snap'[k].state = "cancelled" /\ slots' = slots
      <4>1. k \in DOMAIN snap /\ snap[k] \in Snapshot
        BY DEF Typed, TypeOK
      <4> QED
        BY <1>2, <2>3, <4>1 DEF Submit, slotVars, Snapshot
    <3> QED
      BY <1>0, <2>2, <3>1 DEF EndOK, EndShown, Waiting, Over
  <2>4. CASE ~Refused(k)
    <3>1. snap'[k].state = "queued" /\ slots'[k].state = "Queued"
      <4>1. k \in DOMAIN snap /\ snap[k] \in Snapshot /\ k \in DOMAIN slots
        BY DEF Typed, TypeOK, SlotsTypeOK
      <4> QED
        BY <1>2, <2>4, <4>1 DEF Submit, Enter, Snapshot
    <3> QED
      BY <3>1 DEF EndOK, EndShown
  <2> QED
    BY <2>3, <2>4
<1>3. CASE snap'[k].state = snap[k].state /\ ~(Submit(c) /\ call[c].job = k)
           /\ ~(Tidy(c) /\ k \in call[c].jobs /\ Reconcile(c, k))
  <2>1. ~Waiting(k) => ~Waiting(k)'
    BY <1>3, CallsWaiting
  <2>2. slots'[k].state = "Absent" => slots[k].state = "Absent"
    BY <1>0, <1>3 DEF SlotMoves
  <2>3. ~Waiting(k) /\ Over(k)' => slots'[k].state = slots[k].state /\ Over(k)
    BY <1>0, <1>3 DEF SlotMoves, Over, Terminal
  <2> QED
    BY <1>0, <1>3, <2>1, <2>2, <2>3 DEF EndOK
<1>4. CASE /\ call[c].at \in ForJob /\ call[c].job = k /\ ~Submitting(call[c])
           /\ UNCHANGED slots
           /\ IF snap[k].state \in EndShown THEN snap'[k].state = snap[k].state
              ELSE snap'[k].state \in {"paused", "queued", "running"}
  <2>1. snap[k].state # "none"
    BY <1>0, <1>4 DEF Unknown
  <2> QED
    BY <1>0, <1>4, <2>1 DEF EndOK, EndShown, Waiting, Over
<1>5. CASE /\ slots[k].state = "Cancelled" /\ UNCHANGED slots
           /\ snap'[k].state = IF snap[k].state \in EndShown THEN snap[k].state
                               ELSE "cancelled"
  <2>1. k \notin executing /\ ~Waiting(k) /\ Shown("Cancelled") = "cancelled"
    BY <1>0, <1>5 DEF SlotOK, Waiting, Shown
  <2> QED
    BY <1>0, <1>5, <2>1 DEF EndOK, EndShown, Waiting, Over
<1> QED
  BY <1>0, <1>1, <1>2, <1>3, <1>4, <1>5 DEF ShowMoves

\* So does every step.
LEMMA EndsStep == Typed /\ Ways /\ Ends /\ [Next]_vars => Ends'
<1> SUFFICES ASSUME Typed, Ways, Ends, [Next]_vars PROVE Ends'
  OBVIOUS
<1>1. ASSUME NEW c \in Callers, OfCall(c) PROVE Ends'
  BY <1>1, CallsKeepReconciled, CallsKeepEnds DEF Ends
<1>2. CASE UNCHANGED vars
  BY <1>2 DEF vars, jobVars, slotVars, Ends, Reconciled, EndOK, Waiting, Over
<1> QED
  BY <1>1, <1>2, WorkerKeepsEnds DEF Next, OfJob, OfCall

\* At the start no end is shown.
LEMMA EndsInit == Init => Ends
BY DEF Init, SlotsInit, Ends, Reconciled, EndOK, EndShown, Idle

-----------------------------------------------------------------------------
(***************************************************************************)
(* The theorems.                                                           *)
(***************************************************************************)
\* Everything together.
IInv == Typed /\ Ways /\ Questions /\ Orphans /\ Ends

\* It holds in every state, whatever windows, callers and workers do.
LEMMA Invariant == Spec => []IInv
<1>1. Init => IInv
  BY TypedInit, WaysInit, QuestionsInit, OrphansInit, EndsInit DEF IInv
<1>2. IInv /\ [Next]_vars => IInv'
  BY TypedStep, WaysStep, QuestionsStep, OrphansStep, EndsStep DEF IInv
<1> QED
  BY <1>1, <1>2, PTL DEF Spec

\* The variables of the job manager keep their types, and a job's closure runs
\* exactly while its body does.  [jobs.rs, bridge.rs, snapshots.rs]
THEOREM TypeCorrect == Spec => []TypeOK
<1>1. IInv => TypeOK
  BY DEF IInv, Typed
<1> QED
  BY <1>1, Invariant, PTL

\* A body acts only on the answer to the question it has asked, and a question
\* is on display only while its body waits for it, for any number of jobs,
\* windows and threads.  [bridge.rs prepare, wait, answer; jobs.rs
\* answer_question]
THEOREM QuestionsAnswered == Spec => []QuestionsInStep
<1>1. IInv => QuestionsInStep
  BY DEF IInv, Questions, Answered, Displayed, Open, QuestionsInStep,
     AnswersItsQuestion, ShownQuestionWaits
<1> QED
  BY <1>1, Invariant, PTL

\* No submission, cancellation or phase lets a job wait or run on after its
\* window or the program is gone, but those it promises to spare.  [jobs.rs
\* submit_with_owner, release_window, cancel_all]
THEOREM NobodyIsOrphaned == Spec => []NoOrphanedJob
<1>1. IInv => NoOrphanedJob
  BY DEF IInv, Orphans
<1> QED
  BY <1>1, Invariant, PTL

\* What is shown of a job's end is true and final, whoever shows it first: the
\* body, a cancellation or a cleanup.  [jobs.rs cancel_managed_jobs,
\* reconcile_core_terminal_snapshot; snapshots.rs set_state]
THEOREM ShownEndsAreTrue == Spec => []EndsAreTrue
<1>1. IInv => EndsAreTrue
  BY DEF IInv, Ends, EndOK, EndsAreTrue
<1> QED
  BY <1>1, Invariant, PTL

-----------------------------------------------------------------------------
(***************************************************************************)
(* The manager keeps to what the queue promises.                           *)
(***************************************************************************)
\* A job's worker takes it, claims it, passes the phase gate and ends it once,
\* with the outcome its body has come to; nothing else it does is seen by the
\* queue.  [execution.rs; queue.rs worker_loop]
LEMMA WorkerSlots ==
  ASSUME IInv, NEW j \in Jobs, OfJob(j)
  PROVE  [SlotsNext]_slotVars
<1>1. body[j].at = "ended" => body[j].outcome \in Terminal
  BY DEF IInv, Typed, BodyOK
<1>2. CASE Take(j) \/ Drop(j) \/ Start(j)
  BY <1>2 DEF Take, Drop, Start, SlotsNext
<1>3. CASE Phase(j)
  BY <1>3 DEF Phase, SlotsNext
<1>4. CASE End(j)
  BY <1>1, <1>4 DEF End, SlotsNext
<1>5. CASE \/ ReadPaused(j) \/ ShowStarting(j) \/ Reach(j) \/ Checkpoint(j)
           \/ Prepare(j) \/ Ask(j) \/ LookCancelled(j) \/ TakeAnswer(j)
           \/ ClearQuestion(j) \/ Return(j) \/ Panic(j) \/ ShowEnd(j)
  BY <1>5
  DEF ReadPaused, ShowStarting, Reach, Checkpoint, Prepare, Ask,
      LookCancelled, TakeAnswer, ClearQuestion, Return, Panic, ShowEnd
<1> QED
  BY <1>2, <1>3, <1>4, <1>5 DEF OfJob, BodyStep

\* A command or a window event does at most one thing to the queue at a time,
\* and never to a job that was not submitted.  [jobs.rs submit_with_owner,
\* pause_for_window, resume_for_window, cancel_managed_jobs, cleanup]
LEMMA CallSlots ==
  ASSUME IInv, NEW c \in Callers, OfCall(c)
  PROVE  [SlotsNext]_slotVars
<1>1. /\ call[c] \in CallState
      /\ call[c].at \in ForJob => call[c].job \in Jobs
  BY DEF IInv, Typed, CallOK
<1>2. call[c].jobs \in SUBSET Jobs
  BY <1>1 DEF CallState
<1>3. CASE Submit(c) \/ TryPause(c) \/ ResumeQueue(c)
  <2>1. call[c].job \in Jobs
    BY <1>1, <1>3 DEF Submit, TryPause, ResumeQueue, ForJob
  <2> QED
    BY <1>3, <2>1 DEF Submit, TryPause, ResumeQueue, SlotsNext
<1>4. CASE Tidy(c)
  BY <1>2, <1>4 DEF Tidy, Reconcile, SlotsNext
<1>5. CASE CancelManaged(c)
  BY <1>2, <1>5 DEF CancelManaged, SlotsNext
<1>6. CASE WriteBack(c)
  BY <1>6 DEF WriteBack, SlotsNext
<1>7. CASE CallBegins(c)
  BY <1>7
  DEF CallBegins, Query, BeginSubmit, BeginPause, BeginResume, CancelOne,
      ReleaseWindow, CancelAll, BeginAnswer
<1>8. CASE \/ Register(c) \/ LookPaused(c) \/ ShowPaused(c) \/ LookResumed(c)
           \/ ShowResumed(c) \/ WakeCancelled(c) \/ WaitIdle(c) \/ Answer(c)
  BY <1>8
  DEF Register, LookPaused, ShowPaused, LookResumed, ShowResumed,
      WakeCancelled, WaitIdle, Answer
<1> QED
  BY <1>3, <1>4, <1>5, <1>6, <1>7, <1>8 DEF OfCall, CallGoesOn

\* Whatever windows, callers and bodies do, the queue sees of the manager only
\* the critical sections that JobSlots allows, and JobQueue implements those:
\* a job ends only with an outcome and only once taken, a slot goes only when
\* its job is over.  [jobs.rs, every call of the queue]
THEOREM KeepsThePromise == Spec => SlotsSpec
<1>1. Init => SlotsInit
  BY DEF Init
<1>2. IInv /\ [Next]_vars => [SlotsNext]_slotVars
  <2> SUFFICES ASSUME IInv, [Next]_vars PROVE [SlotsNext]_slotVars
    OBVIOUS
  <2>1. CASE UNCHANGED vars
    BY <2>1 DEF vars
  <2> QED
    BY <2>1, WorkerSlots, CallSlots DEF Next, OfJob, OfCall
<1> QED
  BY <1>1, <1>2, Invariant, PTL DEF Spec, SlotsSpec
=============================================================================
