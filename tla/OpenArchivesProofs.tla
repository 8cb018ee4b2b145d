------------------------- MODULE OpenArchivesProofs -------------------------
(***************************************************************************)
(* A password whose saving was cancelled is not saved: the argument        *)
(* follows the lock of create_preflight.rs.  A commitment takes the        *)
(* request out of `active`, so it cannot be cancelled afterwards; and one  *)
(* that is cancelled stays marked until it completes, so it cannot commit. *)
(***************************************************************************)
EXTENDS OpenArchives, FiniteSetTheorems, TLAPS

\* Until its archive is listed a request has made nothing, and until it is
\* published or kept nobody else knows what it made.
Unlisted == {"idle", "resolve", "reserve", "outer", "read", "inner", "list"}
Unborn   == Unlisted \cup {"publish", "keep", "commit", "set"}
Late     == {"remember", "again", "drop", "finish", "done"}
Points   == Unborn \cup Late

\* The keychain is about to change, or has changed, for this request.
Committed(r) == pc[r] = "set" \/ r \in saved

CommittedOK ==
  \A r \in Requests : Committed(r) =>
    /\ r \notin active /\ r \notin told
    /\ pc[r] \in Late \cup {"set"}

ToldOK == \A r \in Requests : r \in told => r \in cancelled \/ pc[r] = "done"

Base == /\ pc \in [Requests -> Points]
        /\ saved \subseteq Requests

Promised == Base /\ CommittedOK /\ ToldOK

\* Nothing is committed and nobody was told anything at the start.
LEMMA PromisedInit == Init => Promised
BY DEF Init, Promised, Base, CommittedOK, ToldOK, Committed, Points, Late,
   Unborn, Unlisted

\* A step that moves no request keeps the invariant if it tells nobody, makes
\* no request active, and clears no mark.  [lib.rs 172-239; jobs, previews]
LEMMA Apart ==
  ASSUME Promised, UNCHANGED <<pc, saved, told>>,
         active' \subseteq active, cancelled \subseteq cancelled'
  PROVE  Promised'
BY DEF Promised, Base, CommittedOK, ToldOK, Committed

\* A step of a worker that neither begins, commits nor completes leaves the
\* requests of create_preflight.rs alone and does not go back in its work.
LEMMA Works ==
  ASSUME Promised, NEW r \in Requests, NEW point \in Points,
         pc' = [pc EXCEPT ![r] = point], point # "set",
         pc[r] \notin {"done", "set"}, pc[r] \in Late => point \in Late,
         UNCHANGED <<active, cancelled, saved, told>>
  PROVE  Promised'
<1> USE DEF Promised, Base, Points, Late, Unborn, Unlisted
<1>1. \A s \in Requests : pc'[s] = IF s = r THEN point ELSE pc[s]
  OBVIOUS
<1>2. pc' \in [Requests -> Points] /\ saved' \subseteq Requests
  OBVIOUS
<1>3. CommittedOK'
  BY <1>1 DEF CommittedOK, Committed
<1>4. ToldOK'
  BY <1>1 DEF ToldOK
<1> QED
  BY <1>2, <1>3, <1>4

\* Every step of a worker keeps the invariant.  [jobs.rs, state.rs]
LEMMA PromisedWorker ==
  ASSUME Promised, NEW r \in Requests, Worker(r)
  PROVE  Promised'
<1> USE DEF At, Goto, others, preflight, Points, Late, Unborn, Unlisted
<1>1. CASE Begin(r)
  <2>1. \A s \in Requests : s # r => pc'[s] = pc[s]
    BY <1>1 DEF Begin, Promised, Base
  <2>2. /\ pc[r] = "idle" /\ pc'[r] \in {"done", "inner", "resolve"}
        /\ pc' \in [Requests -> Points]
    BY <1>1 DEF Begin, Promised, Base
  <2>3. /\ active' \subseteq active \cup {r} /\ cancelled \subseteq cancelled'
        /\ UNCHANGED <<saved, told>>
    BY <1>1 DEF Begin, attempts
  <2> QED
    BY <2>1, <2>2, <2>3 DEF Promised, Base, CommittedOK, ToldOK, Committed
<1>2. CASE Fail(r)
  BY <1>2, Works DEF Fail, attempts
<1>3. CASE Resolve(r)
  BY <1>3, Works DEF Resolve, attempts
<1>4. CASE Reserve(r)
  <2>1. /\ pc[r] = "reserve"
        /\ \E point \in {"drop", "outer"} : pc' = [pc EXCEPT ![r] = point]
        /\ UNCHANGED <<active, cancelled, saved, told>>
    BY <1>4 DEF Reserve, attempts
  <2> QED
    BY <2>1, Works
<1>5. CASE TryOuter(r)
  BY <1>5, Works DEF TryOuter
<1>6. CASE Read(r)
  BY <1>6, Works DEF Read, attempts
<1>7. CASE TryInner(r)
  BY <1>7, Works DEF TryInner
<1>8. CASE List(r)
  <2>1. /\ pc[r] = "list"
        /\ \E point \in {"commit", "publish"} : pc' = [pc EXCEPT ![r] = point]
        /\ UNCHANGED <<active, cancelled, saved, told>>
    BY <1>8 DEF List, attempts
  <2> QED
    BY <2>1, Works
<1>9. CASE Publish(r)
  BY <1>9, Works DEF Publish, attempts
<1>10. CASE Keep(r)
  <2>1. /\ pc[r] = "keep"
        /\ \E point \in {"again", "drop"} : pc' = [pc EXCEPT ![r] = point]
        /\ UNCHANGED <<active, cancelled, saved, told>>
    BY <1>10 DEF Keep, attempts
  <2> QED
    BY <2>1, Works
<1>11. CASE Remember(r)
  BY <1>11, Works DEF Remember, attempts
<1>12. CASE RememberOuter(r)
  BY <1>12, Works DEF RememberOuter, attempts
<1>13. CASE Commit(r)
  <2>1. /\ pc[r] = "commit" /\ UNCHANGED <<cancelled, saved, told>>
        /\ \/ /\ r \notin cancelled /\ active' = active \ {r}
              /\ pc' = [pc EXCEPT ![r] = "set"]
           \/ active' = active /\ pc' = [pc EXCEPT ![r] = "drop"]
    BY <1>13 DEF Commit, MayCommit, attempts
  <2>2. \A s \in Requests : s # r => pc'[s] = pc[s]
    BY <2>1 DEF Promised, Base
  <2>3. /\ pc'[r] \in {"set", "drop"} /\ pc' \in [Requests -> Points]
        /\ pc'[r] = "set" => r \notin cancelled /\ r \notin active'
        /\ active' \subseteq active
    BY <2>1 DEF Promised, Base
  <2> QED
    BY <2>1, <2>2, <2>3 DEF Promised, Base, CommittedOK, ToldOK, Committed
<1>14. CASE SetPassword(r)
  <2>1. /\ pc[r] = "set" /\ UNCHANGED <<active, cancelled, told>>
        /\ saved' \subseteq saved \cup {r} /\ saved \subseteq saved'
        /\ \E point \in {"remember", "drop"} : pc' = [pc EXCEPT ![r] = point]
    BY <1>14 DEF SetPassword
  <2>2. \A s \in Requests : s # r => pc'[s] = pc[s]
    BY <2>1 DEF Promised, Base
  <2>3. pc'[r] \in {"remember", "drop"} /\ pc' \in [Requests -> Points]
    BY <2>1 DEF Promised, Base
  <2> QED
    BY <2>1, <2>2, <2>3 DEF Promised, Base, CommittedOK, ToldOK, Committed
<1>15. CASE DropRequest(r)
  BY <1>15, Works DEF DropRequest
<1>16. CASE Complete(r)
  <2>1. /\ pc' = [pc EXCEPT ![r] = "done"] /\ UNCHANGED <<saved, told>>
        /\ active' = active \ {r} /\ cancelled' = cancelled \ {r}
    BY <1>16 DEF Complete, attempts
  <2>2. \A s \in Requests : pc'[s] = IF s = r THEN "done" ELSE pc[s]
    BY <2>1 DEF Promised, Base
  <2>3. pc' \in [Requests -> Points]
    BY <2>1 DEF Promised, Base
  <2> QED
    BY <2>1, <2>2, <2>3 DEF Promised, Base, CommittedOK, ToldOK, Committed
<1> QED
  BY <1>1, <1>2, <1>3, <1>4, <1>5, <1>6, <1>7, <1>8, <1>9, <1>10, <1>11,
     <1>12, <1>13, <1>14, <1>15, <1>16 DEF Worker

\* Every command of the window keeps the invariant.  [commands.rs, state.rs]
LEMMA PromisedCommand ==
  ASSUME Promised, Command
  PROVE  Promised'
<1> USE DEF Quiet, others, preflight
<1>1. ASSUME NEW r \in Requests, Cancel(r)
      PROVE  Promised'
  <2>1. /\ UNCHANGED <<pc, saved, active>> /\ cancelled \subseteq cancelled'
        /\ \A s \in told' \ told : s = r /\ s \in active /\ s \in cancelled'
    BY <1>1 DEF Cancel
  <2> QED
    BY <2>1 DEF Promised, Base, CommittedOK, ToldOK, Committed
<1>2. ASSUME NEW r \in Requests, Close(r)
      PROVE  Promised'
  BY <1>2, Apart DEF Close
<1>3. ASSUME NEW r \in Requests, Use(r)
      PROVE  Promised'
  BY <1>3, Apart DEF Use
<1>4. ASSUME NEW r \in Requests,
             BeginExternalUse(r) \/ EndExternalUse(r) \/ Release(r)
      PROVE  Promised'
  BY <1>4, Apart DEF BeginExternalUse, EndExternalUse, Release, Sessions
<1>5. CASE EndUse
  BY <1>5, Apart DEF EndUse
<1>6. CASE Forget
  BY <1>6, Apart DEF Forget
<1> QED
  BY <1>1, <1>2, <1>3, <1>4, <1>5, <1>6 DEF Command

\* Every step of the main thread keeps the invariant.  [state.rs]
LEMMA PromisedMain ==
  ASSUME Promised, Main
  PROVE  Promised'
<1> USE DEF Quiet, From, preflight
<1>1. ASSUME NEW w \in Windows, Destroyed(w)
      PROVE  Promised'
  BY <1>1, Apart DEF Destroyed
<1>2. CASE ReleaseArchives
  BY <1>2, Apart DEF ReleaseArchives
<1>3. CASE ReleasePreviews
  BY <1>3, Apart DEF ReleasePreviews
<1>4. CASE ClosePreviews
  BY <1>4, Apart DEF ClosePreviews
<1>5. CASE CancelAll
  BY <1>5, Apart DEF CancelAll
<1>6. CASE BeginShutdown
  BY <1>6, Apart DEF BeginShutdown
<1>7. CASE Shutdown
  BY <1>7, Apart DEF Shutdown
<1>8. CASE Cleanup
  BY <1>8, Apart DEF Cleanup
<1> QED
  BY <1>1, <1>2, <1>3, <1>4, <1>5, <1>6, <1>7, <1>8 DEF Main

\* The invariant is inductive.
LEMMA PromisedStep == Promised /\ [Next]_vars => Promised'
<1> SUFFICES ASSUME Promised, [Next]_vars
             PROVE  Promised'
  OBVIOUS
<1>1. CASE UNCHANGED vars
  BY <1>1, Apart DEF vars, preflight, attempts, others
<1> QED
  BY <1>1, PromisedWorker, PromisedCommand, PromisedMain DEF Next

\* A user who was told that the saving of a password is cancelled does not
\* find it in the keychain, however many requests and windows there are.
\* [create_preflight.rs cancel, begin_commit; commands.rs
\* remember_archive_password_impl]
THEOREM CancelledIsNotSaved == Spec => []CancelledSavesNothing
<1>1. Promised => CancelledSavesNothing
  BY DEF Promised, Base, CommittedOK, Committed, CancelledSavesNothing
<1> QED
  BY PromisedInit, PromisedStep, <1>1, PTL DEF Spec

-----------------------------------------------------------------------------
(***************************************************************************)
(* What a request has made and what it holds open: the forms of the        *)
(* variables.                                                              *)
(***************************************************************************)
Places  == {"run", "archives", "previews", "cancel", "begin", "cleanup",
            "exited"}
Attempt == {None, "fresh", "stale"}

Typed ==
  /\ work \in [Requests -> WorkItem] /\ pc \in [Requests -> Points]
  /\ pin \in [Requests -> Requests \cup {None}]
  /\ own \in [Requests -> Requests \cup {None}]
  /\ temp \in [Requests -> Requests \cup {None}]
  /\ active \subseteq inflight
  /\ inflight = {r \in Requests : pc[r] \notin {"idle", "done"}}
  /\ registry \subseteq Requests /\ leased \subseteq Requests
  /\ {job, search} \subseteq Requests \cup {None}
  /\ cached \subseteq [path : Paths \cup {None}, by : Requests]
  /\ inner \in [Requests -> Attempt] /\ outer \in [Requests -> Attempt]
  /\ void \subseteq Requests \X Paths
  /\ main \in [at : Places, window : Windows \cup {None}]

\* Nothing is open at the start.
LEMMA TypedInit == Init => Typed
<1> SUFFICES ASSUME Init PROVE Typed
  OBVIOUS
<1>1. work \in [Requests -> WorkItem]
  BY OpenArchivesAssumption DEF Init
<1> QED
  BY <1>1 DEF Init, Typed, Attempt, Points, Unborn, Unlisted, Places

\* An attempt at a password stays one, whatever becomes of it.
LEMMA AfterForm ==
  ASSUME NEW attempt \in [Requests -> Attempt], NEW moved \in BOOLEAN, NEW ended
  PROVE  /\ After(attempt, moved, ended) \in [Requests -> Attempt]
         /\ \A r \in Requests :
              /\ After(attempt, moved, ended)[r] = None <=>
                   attempt[r] = None \/ r \in ended
              /\ After(attempt, moved, ended)[r] = "fresh" =>
                   attempt[r] = "fresh" /\ r \notin ended /\ ~moved
BY OpenArchivesAssumption DEF After, Attempt

\* Files and passwords keep their form when what is not open any more goes.
LEMMA SettleForm ==
  ASSUME Typed, NEW moved \in BOOLEAN, NEW revoked \in SUBSET (Requests \X Paths),
         NEW ended, NEW base, SettleWith(moved, revoked, ended, base)
  PROVE  /\ leased' \subseteq Requests /\ cached' \subseteq cached
         /\ inner' \in [Requests -> Attempt] /\ outer' \in [Requests -> Attempt]
         /\ void' \subseteq Requests \X Paths
<1>1. PICK dead : dead = {t \in leased : ~Held(t)'}
  OBVIOUS
<1>2. /\ leased' = leased \ dead /\ cached' \subseteq cached
      /\ inner' = After(inner, moved \/ dead # {}, ended)
      /\ outer' = After(outer, moved \/ dead # {}, ended)
      /\ void' = void \cup revoked
                   \cup UNION {(Trying(t) \ ended) \X {t} : t \in dead}
  BY <1>1 DEF SettleWith
<1>3. inner' \in [Requests -> Attempt] /\ outer' \in [Requests -> Attempt]
  BY <1>2, AfterForm DEF Typed
<1>4. UNION {(Trying(t) \ ended) \X {t} : t \in dead} \subseteq Requests \X Paths
  BY <1>1 DEF Trying, Paths, Typed
<1> QED
  BY <1>2, <1>3, <1>4 DEF Typed

\* Every step of a worker keeps the forms.  [jobs.rs, state.rs]
LEMMA TypedWorker ==
  ASSUME Typed, NEW r \in Requests, Worker(r)
  PROVE  Typed'
<1> USE DEF At, Goto, others, preflight, archives, previews, passwords,
            attempts, Typed, Points, Late, Unborn, Unlisted
<1>1. CASE Begin(r)
  BY <1>1 DEF Begin
<1>2. CASE Fail(r)
  BY <1>2 DEF Fail
<1>3. CASE Resolve(r)
  BY <1>3 DEF Resolve
<1>4. CASE Reserve(r)
  <2>1. /\ pc[r] = "reserve"
        /\ \E point \in {"drop", "outer"} : pc' = [pc EXCEPT ![r] = point]
    BY <1>4 DEF Reserve
  <2>2. UNCHANGED <<work, pin, own, preflight, archives, leased, cached, inner,
                    outer, void, job, search, main>>
    BY <1>4 DEF Reserve
  <2> QED
    BY <2>1, <2>2
<1>5. CASE TryOuter(r)
  <2>1. outer' \in [Requests -> Attempt]
    BY <1>5 DEF TryOuter, Try, Attempt
  <2> QED
    BY <1>5, <2>1 DEF TryOuter
<1>6. CASE Read(r)
  BY <1>6 DEF Read
<1>7. CASE TryInner(r)
  <2>1. inner' \in [Requests -> Attempt]
    BY <1>7 DEF TryInner, Try, Attempt
  <2> QED
    BY <1>7, <2>1 DEF TryInner
<1>8. CASE List(r)
  <2>1. /\ pc[r] = "list"
        /\ \E point \in {"commit", "publish"} : pc' = [pc EXCEPT ![r] = point]
        /\ own' \in [Requests -> Requests \cup {None}] /\ leased' \subseteq Requests
    BY <1>8 DEF List
  <2>2. UNCHANGED <<work, pin, preflight, archives, cached, inner,
                    outer, void, job, search, main>>
    BY <1>8 DEF List
  <2> QED
    BY <2>1, <2>2
<1>9. CASE Publish(r)
  BY <1>9 DEF Publish
<1>10. CASE Keep(r)
  <2>1. /\ pc[r] = "keep"
        /\ \E point \in {"drop", "again"} : pc' = [pc EXCEPT ![r] = point]
    BY <1>10 DEF Keep
  <2>2. UNCHANGED <<work, pin, own, preflight, archives, leased, cached, inner,
                    outer, void, job, search, main>>
    BY <1>10 DEF Keep
  <2> QED
    BY <2>1, <2>2
<1>11. {Inner(r), Outer(r)} \subseteq Paths \cup {None}
  BY DEF Inner, Outer, Paths
<1>12. CASE Remember(r)
  BY <1>12, <1>11 DEF Remember, Learn
<1>13. CASE RememberOuter(r)
  BY <1>13, <1>11 DEF RememberOuter, Learn
<1>14. CASE Commit(r)
  BY <1>14 DEF Commit
<1>15. CASE SetPassword(r)
  BY <1>15 DEF SetPassword
<1>16. CASE DropRequest(r)
  <2>1. SettleWith(FALSE, {}, {r}, Unreserved(r))
    BY <1>16 DEF DropRequest
  <2>2. /\ leased' \subseteq Requests /\ cached' \subseteq cached
        /\ inner' \in [Requests -> Attempt] /\ outer' \in [Requests -> Attempt]
        /\ void' \subseteq Requests \X Paths
    BY <2>1, SettleForm
  <2> QED
    BY <1>16, <2>2 DEF DropRequest
<1>17. CASE Complete(r)
  BY <1>17 DEF Complete
<1> QED
  BY <1>1, <1>2, <1>3, <1>4, <1>5, <1>6, <1>7, <1>8, <1>9, <1>10, <1>12,
     <1>13, <1>14, <1>15, <1>16, <1>17 DEF Worker

\* Every command of the window keeps the forms.  [commands.rs, state.rs]
LEMMA TypedCommand ==
  ASSUME Typed, Command
  PROVE  Typed'
<1> USE DEF Quiet, others, preflight, archives, previews, passwords, attempts
<1>1. ASSUME NEW moved \in BOOLEAN, NEW revoked \in SUBSET (Requests \X Paths),
             NEW ended, NEW base, SettleWith(moved, revoked, ended, base),
             UNCHANGED <<work, pc, pin, own, temp, active, inflight>>,
             main' \in [at : Places, window : Windows \cup {None}],
             registry' \subseteq registry, job' \in {job, None},
             search' \in {search, None}
      PROVE  Typed'
  <2>1. /\ leased' \subseteq Requests /\ cached' \subseteq cached
        /\ inner' \in [Requests -> Attempt] /\ outer' \in [Requests -> Attempt]
        /\ void' \subseteq Requests \X Paths
    BY <1>1, SettleForm
  <2> QED
    BY <1>1, <2>1 DEF Typed
<1>2. {} \in SUBSET (Requests \X Paths)
  OBVIOUS
<1>3. ASSUME NEW r \in Requests, Cancel(r)
      PROVE  Typed'
  BY <1>3 DEF Cancel, Typed
<1>4. ASSUME NEW r \in Requests, Close(r)
      PROVE  Typed'
  <2>1. SettleWith(FALSE, {}, {}, counts)
    BY <1>4 DEF Close, Settle
  <2> QED
    BY <1>1, <1>2, <1>4, <2>1 DEF Close, Typed
<1>5. ASSUME NEW r \in Requests, Use(r)
      PROVE  Typed'
  BY <1>5 DEF Use, Typed
<1>6. ASSUME NEW r \in Requests,
             BeginExternalUse(r) \/ EndExternalUse(r) \/ Release(r)
      PROVE  Typed'
  BY <1>6 DEF BeginExternalUse, EndExternalUse, Release, Sessions, Typed
<1>7. CASE EndUse
  <2>1. SettleWith(FALSE, {}, {}, counts)
    BY <1>7 DEF EndUse, Settle
  <2> QED
    BY <1>1, <1>2, <1>7, <2>1 DEF EndUse, Typed
<1>8. CASE Forget
  <2>1. inner' \in [Requests -> Attempt] /\ outer' \in [Requests -> Attempt]
    BY <1>8, AfterForm DEF Forget, Typed
  <2>2. Trying(Disk) \X {Disk} \subseteq Requests \X Paths
    BY DEF Trying, Paths
  <2> QED
    BY <1>8, <2>1, <2>2 DEF Forget, Typed
<1> QED
  BY <1>3, <1>4, <1>5, <1>6, <1>7, <1>8 DEF Command

\* Every step of the main thread keeps the forms.  [lib.rs 172-239]
LEMMA TypedMain ==
  ASSUME Typed, Main
  PROVE  Typed'
<1> USE DEF Quiet, preflight, archives, previews, passwords, attempts, From,
            Places
<1>1. ASSUME NEW moved \in BOOLEAN, NEW revoked \in SUBSET (Requests \X Paths),
             SettleWith(moved, revoked, {}, counts),
             UNCHANGED <<work, pc, pin, own, temp, active, inflight, job, search>>,
             main' \in [at : Places, window : Windows \cup {None}],
             registry' \subseteq registry
      PROVE  Typed'
  <2>1. /\ leased' \subseteq Requests /\ cached' \subseteq cached
        /\ inner' \in [Requests -> Attempt] /\ outer' \in [Requests -> Attempt]
        /\ void' \subseteq Requests \X Paths
    BY <1>1, SettleForm
  <2> QED
    BY <1>1, <2>1 DEF Typed
<1>2. ASSUME NEW w \in Windows, Destroyed(w)
      PROVE  Typed'
  BY <1>2 DEF Destroyed, Typed
<1>3. CASE ReleaseArchives
  <2>1. PICK revoked : /\ revoked \in SUBSET (Requests \X Paths)
                       /\ SettleWith(TRUE, revoked, {}, counts)
    BY <1>3 DEF ReleaseArchives
  <2>2. /\ registry' \subseteq registry
        /\ main' \in [at : Places, window : Windows \cup {None}]
    BY <1>3 DEF ReleaseArchives, Typed
  <2>3. UNCHANGED <<work, pc, pin, own, temp, active, inflight, job, search>>
    BY <1>3 DEF ReleaseArchives
  <2> QED
    BY <1>1, <2>1, <2>2, <2>3
<1>4. CASE ReleasePreviews
  BY <1>4 DEF ReleasePreviews, Typed
<1>5. CASE ClosePreviews
  BY <1>5 DEF ClosePreviews, Typed
<1>6. CASE CancelAll
  BY <1>6 DEF CancelAll, Typed
<1>7. CASE BeginShutdown
  <2>1. inner' \in [Requests -> Attempt] /\ outer' \in [Requests -> Attempt]
    BY <1>7, AfterForm DEF BeginShutdown, Typed
  <2> QED
    BY <1>7, <2>1 DEF BeginShutdown, Typed
<1>8. CASE Shutdown
  <2>1. SettleWith(FALSE, {}, {}, counts)
    BY <1>8 DEF Shutdown, Settle
  <2>2. {} \in SUBSET (Requests \X Paths)
    OBVIOUS
  <2>3. /\ registry' \subseteq registry
        /\ main' \in [at : Places, window : Windows \cup {None}]
    BY <1>8 DEF Shutdown, Typed
  <2> QED
    BY <1>1, <1>8, <2>1, <2>2, <2>3 DEF Shutdown
<1>9. CASE Cleanup
  BY <1>9 DEF Cleanup, Typed
<1> QED
  BY <1>2, <1>3, <1>4, <1>5, <1>6, <1>7, <1>8, <1>9 DEF Main

\* The forms are inductive by themselves.
LEMMA TypedStep == Typed /\ [Next]_vars => Typed'
<1> SUFFICES ASSUME Typed, [Next]_vars
             PROVE  Typed'
  OBVIOUS
<1>1. CASE UNCHANGED vars
  BY <1>1 DEF vars, preflight, archives, previews, passwords, attempts, others,
     Typed
<1> QED
  BY <1>1, TypedWorker, TypedCommand, TypedMain DEF Next

-----------------------------------------------------------------------------
(***************************************************************************)
(* Who may hold what.  Until a request is published nobody else can have   *)
(* taken hold of its archive or of its temporary file; what a request is   *)
(* pinned on has a temporary file.                                         *)
(***************************************************************************)
Handle(r) ==
  /\ pc[r] \in Unborn =>
       /\ r \notin registry /\ job # r /\ search # r /\ temp[r] = None
       /\ \A q \in Requests : pin[q] # r
  /\ pc[r] \in Unlisted =>
       /\ own[r] = None
       /\ \A q \in Requests : own[q] # r /\ temp[q] # r
  /\ pc[r] \in {"idle", "resolve", "finish", "done"} => pin[r] = None
  /\ pc[r] \in {"finish", "done"} => own[r] = None
  /\ pin[r] # None => temp[pin[r]] # None

Handles == \A r \in Requests : Handle(r)

\* Nothing is held at the start.
LEMMA HandlesInit == Init => Handles
BY OpenArchivesAssumption
DEF Init, Handles, Handle, Unborn, Unlisted

\* A step that moves no request and lets go of handles only keeps them.
LEMMA HandlesApart ==
  ASSUME Handles, Typed, UNCHANGED <<pc, pin, own, temp>>,
         registry' \subseteq registry,
         job' \in {job, None} \cup registry, search' \in {search, None} \cup registry
  PROVE  Handles'
BY OpenArchivesAssumption DEF Handles, Handle, Typed

\* A request that goes on and takes hold of nothing keeps them, if it does not
\* end here.
LEMMA HandlesGo ==
  ASSUME Handles, Typed, UNCHANGED <<pin, own, temp, registry, job, search>>,
         NEW r \in Requests, NEW point \in Points,
         pc' = [pc EXCEPT ![r] = point],
         pc[r] \notin Unborn => point \notin Unborn,
         pc[r] \notin Unlisted => point \notin Unlisted,
         point \notin {"idle", "finish"}, point = "resolve" => pc[r] = "idle",
         point = "done" => pc[r] \in {"idle", "finish"}
  PROVE  Handles'
<1>1. \A q \in Requests : pc'[q] = IF q = r THEN point ELSE pc[q]
  BY DEF Typed
<1>2. ASSUME NEW q \in Requests PROVE Handle(q)'
  <2>1. Handle(q)
    BY DEF Handles
  <2> QED
    BY <1>1, <2>1 DEF Handle, Unborn, Unlisted
<1> QED
  BY <1>2 DEF Handles

\* Every step of a worker keeps them.
LEMMA HandlesWorker ==
  ASSUME Handles, Typed, NEW r \in Requests, Worker(r)
  PROVE  Handles'
<1> USE DEF At, Goto, others, preflight, archives, previews, passwords,
            attempts, Points, Late, Unborn, Unlisted
<1>1. CASE Begin(r)
  <2>1. /\ pc[r] = "idle"
        /\ \E point \in {"done", "inner", "resolve"} :
             pc' = [pc EXCEPT ![r] = point]
        /\ UNCHANGED <<pin, own, temp, registry, job, search>>
    BY <1>1 DEF Begin
  <2>2. Handle(r) /\ pin[r] = None /\ own[r] = None
    BY <2>1 DEF Handles, Handle
  <2> QED
    BY <2>1, HandlesGo
<1>2. CASE Fail(r)
  BY <1>2, HandlesGo DEF Fail
<1>3. CASE Resolve(r)
  <2>1. PICK h \in {None} \cup {g \in registry : Owner(g) = Owner(r)} :
          /\ h # None => temp[h] # None
          /\ pin' = [pin EXCEPT ![r] = h]
    BY <1>3 DEF Resolve
  <2>2. \A q \in Requests : pin'[q] = IF q = r THEN h ELSE pin[q]
    BY <2>1 DEF Typed
  <2>3. /\ pc[r] = "resolve"
        /\ \E point \in {"inner", "reserve"} : pc' = [pc EXCEPT ![r] = point]
        /\ UNCHANGED <<own, temp, registry, job, search>>
    BY <1>3 DEF Resolve
  <2>4. \A q \in Requests : q # r => pc'[q] = pc[q]
    BY <2>3 DEF Typed
  <2>5. pc'[r] \in {"inner", "reserve"}
    BY <2>3 DEF Typed
  <2>6. ASSUME NEW q \in Requests PROVE Handle(q)'
    <3>1. Handle(q) /\ pc[q] \in Unborn => h # q
      BY OpenArchivesAssumption DEF Handles, Handle
    <3> QED
      BY <2>1, <2>2, <2>3, <2>4, <2>5, <3>1 DEF Handle, Handles
  <2> QED
    BY <2>6 DEF Handles
<1>4. CASE Reserve(r)
  <2>1. /\ pc[r] = "reserve"
        /\ \E point \in {"drop", "outer"} : pc' = [pc EXCEPT ![r] = point]
        /\ UNCHANGED <<pin, own, temp, registry, job, search>>
    BY <1>4 DEF Reserve
  <2> QED
    BY <2>1, HandlesGo
<1>5. CASE TryOuter(r)
  BY <1>5, HandlesGo DEF TryOuter
<1>6. CASE Read(r)
  <2>1. /\ pc[r] = "read"
        /\ \E point \in {"keep", "inner"} : pc' = [pc EXCEPT ![r] = point]
        /\ UNCHANGED <<pin, own, temp, registry, job, search>>
    BY <1>6 DEF Read
  <2> QED
    BY <2>1, HandlesGo
<1>7. CASE TryInner(r)
  BY <1>7, HandlesGo DEF TryInner
<1>8. CASE List(r)
  <2>1. /\ pc[r] = "list"
        /\ \E point \in {"commit", "publish"} : pc' = [pc EXCEPT ![r] = point]
        /\ UNCHANGED <<pin, temp, registry, job, search>>
    BY <1>8 DEF List
  <2>2. /\ \A q \in Requests : q # r => own'[q] = own[q]
        /\ \/ own'[r] \in {own[r], None, r}
           \/ pin[r] # None /\ own'[r] = temp[pin[r]]
    BY <1>8 DEF List, Typed
  <2>3. \A q \in Requests : q # r => pc'[q] = pc[q]
    BY <2>1 DEF Typed
  <2>4. pc'[r] \in {"commit", "publish"}
    BY <2>1 DEF Typed
  <2>5. ASSUME NEW q \in Requests PROVE Handle(q)'
    <3>1. Handle(q) /\ Handle(r)
      BY DEF Handles
    <3>2. pc[q] \in Unlisted /\ q # r => own'[r] # q
      BY <2>1, <2>2, <3>1, OpenArchivesAssumption DEF Handle, Typed
    <3> QED
      BY <2>1, <2>2, <2>3, <2>4, <3>1, <3>2 DEF Handle
  <2> QED
    BY <2>5 DEF Handles
<1>9. CASE Publish(r)
  <2>1. pc[r] = "publish" /\ UNCHANGED <<pin, job, search>>
    BY <1>9 DEF Publish
  <2>2. CASE UNCHANGED <<own, registry, temp>>
    <3>1. pc' = [pc EXCEPT ![r] = "drop"] \/ pc' = [pc EXCEPT ![r] = "remember"]
      BY <1>9 DEF Publish
    <3> QED
      BY <2>1, <2>2, <3>1, HandlesGo
  <2>3. CASE /\ registry' = registry \cup {r}
             /\ temp' = [temp EXCEPT ![r] = own[r]]
             /\ own' = [own EXCEPT ![r] = None]
             /\ pc' = [pc EXCEPT ![r] = "remember"]
    <3>1. ASSUME NEW q \in Requests PROVE Handle(q)'
      <4>1. Handle(q) /\ Handle(r)
        BY DEF Handles
      <4>2. \A t \in Requests : /\ pc'[t] = IF t = r THEN "remember" ELSE pc[t]
                                /\ temp'[t] = IF t = r THEN own[t] ELSE temp[t]
                                /\ own'[t] = IF t = r THEN None ELSE own[t]
        BY <2>3 DEF Typed
      <4>3. pin[q] # r
        BY <2>1, <4>1 DEF Handle
      <4>4. pin[q] # None => temp'[pin[q]] # None
        BY <4>1, <4>2, <4>3 DEF Handle, Typed
      <4>5. pc'[q] \in Unlisted => \A t \in Requests : temp'[t] # q /\ own'[t] # q
        BY <2>1, <4>1, <4>2, OpenArchivesAssumption DEF Handle
      <4> QED
        BY <2>1, <2>3, <4>1, <4>2, <4>4, <4>5 DEF Handle
    <3> QED
      BY <3>1 DEF Handles
  <2> QED
    BY <1>9, <2>2, <2>3 DEF Publish
<1>10. CASE Keep(r)
  <2>1. /\ pc[r] = "keep"
        /\ \E point \in {"drop", "again"} : pc' = [pc EXCEPT ![r] = point]
        /\ UNCHANGED <<pin, own, temp, registry, job, search>>
    BY <1>10 DEF Keep
  <2> QED
    BY <2>1, HandlesGo
<1>12. CASE Remember(r)
  <2>1. /\ pc[r] = "remember"
        /\ \E point \in {"again", "drop"} : pc' = [pc EXCEPT ![r] = point]
        /\ UNCHANGED <<pin, own, temp, registry, job, search>>
    BY <1>12 DEF Remember
  <2> QED
    BY <2>1, HandlesGo
<1>13. CASE RememberOuter(r)
  BY <1>13, HandlesGo DEF RememberOuter
<1>14. CASE Commit(r)
  BY <1>14, HandlesGo DEF Commit
<1>15. CASE SetPassword(r)
  BY <1>15, HandlesGo DEF SetPassword
<1>16. CASE DropRequest(r)
  <2>1. /\ pc[r] = "drop" /\ pc' = [pc EXCEPT ![r] = "finish"]
        /\ pin' = [pin EXCEPT ![r] = None] /\ own' = [own EXCEPT ![r] = None]
        /\ UNCHANGED <<temp, registry, job, search>>
    BY <1>16 DEF DropRequest
  <2>2. ASSUME NEW q \in Requests PROVE Handle(q)'
    <3>1. Handle(q)
      BY DEF Handles
    <3>2. \A t \in Requests : /\ pc'[t] = IF t = r THEN "finish" ELSE pc[t]
                              /\ pin'[t] = IF t = r THEN None ELSE pin[t]
                              /\ own'[t] = IF t = r THEN None ELSE own[t]
      BY <2>1 DEF Typed
    <3> QED
      BY <2>1, <3>1, <3>2, OpenArchivesAssumption DEF Handle
  <2> QED
    BY <2>2 DEF Handles
<1>17. CASE Complete(r)
  <2>1. /\ pc[r] = "finish"
        /\ \E point \in {"done"} : pc' = [pc EXCEPT ![r] = point]
        /\ UNCHANGED <<pin, own, temp, registry, job, search>>
    BY <1>17 DEF Complete
  <2> QED
    BY <2>1, HandlesGo
<1> QED
  BY <1>1, <1>2, <1>3, <1>4, <1>5, <1>6, <1>7, <1>8, <1>9, <1>10, <1>12,
     <1>13, <1>14, <1>15, <1>16, <1>17 DEF Worker

\* Every step of the window's commands and of the main thread keeps them.
LEMMA HandlesOther ==
  ASSUME Handles, Typed, Command \/ Main
  PROVE  Handles'
<1> USE DEF Quiet, others, preflight, archives, From
<1>1. ASSUME NEW r \in Requests,
             Cancel(r) \/ Close(r) \/ Use(r)
      PROVE  Handles'
  BY <1>1, HandlesApart DEF Cancel, Close, Use
<1>2. ASSUME NEW r \in Requests,
             BeginExternalUse(r) \/ EndExternalUse(r) \/ Release(r)
      PROVE  Handles'
  BY <1>2, HandlesApart DEF BeginExternalUse, EndExternalUse, Release, Sessions
<1>3. CASE EndUse \/ Forget
  BY <1>3, HandlesApart DEF EndUse, Forget
<1>4. ASSUME NEW w \in Windows, Destroyed(w)
      PROVE  Handles'
  BY <1>4, HandlesApart DEF Destroyed
<1>5. CASE ReleaseArchives \/ ReleasePreviews \/ ClosePreviews \/ CancelAll
  BY <1>5, HandlesApart DEF ReleaseArchives, ReleasePreviews, ClosePreviews,
     CancelAll
<1>6. CASE BeginShutdown \/ Shutdown \/ Cleanup
  BY <1>6, HandlesApart DEF BeginShutdown, Shutdown, Cleanup
<1> QED
  BY <1>1, <1>2, <1>3, <1>4, <1>5, <1>6 DEF Command, Main

\* They are inductive.
LEMMA HandlesStep == Typed /\ Handles /\ [Next]_vars => Handles'
<1> SUFFICES ASSUME Typed, Handles, [Next]_vars
             PROVE  Handles'
  OBVIOUS
<1>1. CASE UNCHANGED vars
  BY <1>1, HandlesApart DEF vars, archives, others
<1> QED
  BY <1>1, HandlesWorker, HandlesOther DEF Next

-----------------------------------------------------------------------------
(***************************************************************************)
(* A temporary file is leased exactly as long as somebody holds it.        *)
(***************************************************************************)
Leases == \A t \in Requests : t \in leased <=> Held(t)

\* Nothing is leased at the start.
LEMMA LeasesInit == Init => Leases
<1> SUFFICES ASSUME Init, NEW t \in Requests, Held(t) PROVE FALSE
  BY DEF Leases, Init
<1> QED
  BY OpenArchivesAssumption DEF Init, Held, Open

\* What is held when handles are let go of and the leases are settled.
LEMMA LeasesSettle ==
  ASSUME Leases, Typed, NEW moved, NEW revoked, NEW ended, NEW base,
         SettleWith(moved, revoked, ended, base), temp' = temp,
         registry' \subseteq registry, job' \in {job, None}, search' \in {search, None},
         \A r \in Requests : pin'[r] \in {pin[r], None} /\ own'[r] \in {own[r], None}
  PROVE  Leases'
<1>1. PICK dead : dead = {t \in leased : ~Held(t)'}
  OBVIOUS
<1>2. leased' = leased \ dead
  BY <1>1 DEF SettleWith
<1>3. ASSUME NEW t \in Requests, Held(t)' PROVE Held(t)
  BY <1>3, OpenArchivesAssumption DEF Held, Open
<1> QED
  BY <1>1, <1>2, <1>3 DEF Leases

\* A step that takes hold of nothing and lets go of nothing.
LEMMA LeasesApart ==
  ASSUME Leases, UNCHANGED <<leased, pin, own, temp, registry, job, search>>
  PROVE  Leases'
BY DEF Leases, Held, Open

\* Every step of a worker keeps the leases.
LEMMA LeasesWorker ==
  ASSUME Leases, Typed, Handles, NEW r \in Requests, Worker(r)
  PROVE  Leases'
<1> USE DEF At, Goto, others, preflight, archives, previews, passwords, attempts
<1>0. Handle(r)
  BY DEF Handles
<1>1. CASE Begin(r) \/ Fail(r) \/ TryOuter(r) \/ Read(r) \/ TryInner(r)
  BY <1>1, LeasesApart DEF Begin, Fail, TryOuter, Read, TryInner
<1>2. CASE Keep(r) \/ Commit(r) \/ SetPassword(r) \/ Complete(r)
  BY <1>2, LeasesApart DEF Keep, Commit, SetPassword, Complete
<1>3. CASE Remember(r) \/ RememberOuter(r)
  BY <1>3, LeasesApart DEF Remember, RememberOuter
<1>4. CASE Reserve(r)
  BY <1>4, LeasesApart DEF Reserve
<1>5. CASE Resolve(r)
  <2>1. PICK h \in {None} \cup {g \in registry : Owner(g) = Owner(r)} :
          pin' = [pin EXCEPT ![r] = h]
    BY <1>5 DEF Resolve
  <2>2. \A q \in Requests : pin'[q] = IF q = r THEN h ELSE pin[q]
    BY <2>1 DEF Typed
  <2>3. UNCHANGED <<own, temp, registry, job, search, leased>>
    BY <1>5 DEF Resolve
  <2>4. pin[r] = None
    BY <1>0, <1>5 DEF Resolve, Handle
  <2>5. ASSUME NEW t \in Requests PROVE Open(t)' <=> Open(t)
    BY <2>1, <2>2, <2>3, <2>4, OpenArchivesAssumption DEF Open
  <2>6. ASSUME NEW t \in Requests PROVE Held(t)' <=> Held(t)
    BY <2>3, <2>5 DEF Held
  <2> QED
    BY <2>3, <2>6 DEF Leases
<1>6. CASE List(r)
  <2>1. UNCHANGED <<pin, temp, registry, job, search>> /\ pc[r] = "list"
    BY <1>6 DEF List
  <2>2. own[r] = None
    BY <1>0, <2>1 DEF Handle, Unlisted
  <2>3. ASSUME NEW t \in Requests PROVE Open(t)' <=> Open(t)
    BY <2>1 DEF Open
  <2>4. CASE UNCHANGED <<own, leased>>
    BY <2>1, <2>4, LeasesApart
  <2>5. CASE /\ own' = [own EXCEPT ![r] = IF pin[r] = None THEN None
                                          ELSE temp[pin[r]]]
             /\ leased' = leased
    <3>1. \A q \in Requests : q # r => own'[q] = own[q]
      BY <2>5 DEF Typed
    <3>2. \/ own'[r] = None
          \/ pin[r] \in Requests /\ own'[r] = temp[pin[r]]
      BY <2>5 DEF Typed
    <3>3. pin[r] \in Requests => Open(pin[r])
      BY DEF Open
    <3>4. ASSUME NEW t \in Requests PROVE Held(t)' <=> Held(t)
      BY <2>1, <2>2, <2>3, <3>1, <3>2, <3>3, OpenArchivesAssumption DEF Held
    <3> QED
      BY <2>5, <3>4 DEF Leases
  <2>6. CASE own' = [own EXCEPT ![r] = r] /\ leased' = leased \cup {r}
    <3>1. \A q \in Requests : own'[q] = IF q = r THEN r ELSE own[q]
      BY <2>6 DEF Typed
    <3>2. ASSUME NEW t \in Requests PROVE Held(t)' <=> Held(t) \/ t = r
      BY <2>1, <2>2, <2>3, <3>1, OpenArchivesAssumption DEF Held
    <3> QED
      BY <2>6, <3>2 DEF Leases
  <2> QED
    BY <1>6, <2>4, <2>5, <2>6 DEF List
<1>7. CASE Publish(r)
  <2>1. UNCHANGED <<pin, job, search, leased>> /\ pc[r] = "publish"
    BY <1>7 DEF Publish
  <2>2. CASE UNCHANGED <<own, registry, temp>>
    BY <2>1, <2>2, LeasesApart
  <2>3. CASE /\ registry' = registry \cup {r}
             /\ temp' = [temp EXCEPT ![r] = own[r]]
             /\ own' = [own EXCEPT ![r] = None]
    <3>1. \A q \in Requests : /\ temp'[q] = IF q = r THEN own[q] ELSE temp[q]
                              /\ own'[q] = IF q = r THEN None ELSE own[q]
      BY <2>3 DEF Typed
    <3>2. ~Open(r) /\ temp[r] = None
      BY <1>0, <2>1 DEF Handle, Unborn, Unlisted, Open
    <3>3. ASSUME NEW t \in Requests PROVE Open(t)' <=> Open(t) \/ t = r
      BY <2>1, <2>3 DEF Open
    <3>4. ASSUME NEW t \in Requests PROVE Held(t)' <=> Held(t)
      BY <3>1, <3>2, <3>3, OpenArchivesAssumption DEF Held
    <3> QED
      BY <2>1, <3>4 DEF Leases
  <2> QED
    BY <1>7, <2>2, <2>3 DEF Publish
<1>8. CASE DropRequest(r)
  <2>1. SettleWith(FALSE, {}, {r}, Unreserved(r))
    BY <1>8 DEF DropRequest
  <2>2. UNCHANGED <<temp, registry, job, search>>
    BY <1>8 DEF DropRequest
  <2>3. \A q \in Requests : pin'[q] \in {pin[q], None} /\ own'[q] \in {own[q], None}
    BY <1>8 DEF DropRequest, Typed
  <2> QED
    BY <2>1, <2>2, <2>3, LeasesSettle
<1> QED
  BY <1>1, <1>2, <1>3, <1>4, <1>5, <1>6, <1>7, <1>8 DEF Worker

\* So does every command and every step of the main thread.
LEMMA LeasesOther ==
  ASSUME Leases, Typed, Command \/ Main
  PROVE  Leases'
<1> USE DEF Quiet, others, preflight, archives, previews, passwords, attempts,
            From
<1>1. ASSUME NEW moved, NEW revoked, SettleWith(moved, revoked, {}, counts),
             UNCHANGED <<pin, own, temp>>, registry' \subseteq registry,
             job' \in {job, None}, search' \in {search, None}
      PROVE  Leases'
  BY <1>1, LeasesSettle DEF Typed
<1>2. ASSUME NEW r \in Requests, Cancel(r)
      PROVE  Leases'
  BY <1>2, LeasesApart DEF Cancel
<1>3. ASSUME NEW r \in Requests, Close(r)
      PROVE  Leases'
  BY <1>1, <1>3 DEF Close, Settle
<1>4. ASSUME NEW r \in Requests, Use(r)
      PROVE  Leases'
  <2>1. /\ r \in registry /\ UNCHANGED <<leased, pin, own, temp, registry>>
        /\ \/ job = None /\ job' = r /\ search' = search
           \/ search = None /\ search' = r /\ job' = job
    BY <1>4 DEF Use
  <2>2. ASSUME NEW t \in Requests PROVE Open(t)' <=> Open(t)
    BY <2>1, OpenArchivesAssumption DEF Open
  <2>3. ASSUME NEW t \in Requests PROVE Held(t)' <=> Held(t)
    BY <2>1, <2>2 DEF Held
  <2> QED
    BY <2>1, <2>3 DEF Leases
<1>5. ASSUME NEW r \in Requests,
             BeginExternalUse(r) \/ EndExternalUse(r) \/ Release(r)
      PROVE  Leases'
  BY <1>5, LeasesApart DEF BeginExternalUse, EndExternalUse, Release, Sessions
<1>6. CASE EndUse
  BY <1>1, <1>6 DEF EndUse, Settle
<1>7. CASE Forget
  BY <1>7, LeasesApart DEF Forget
<1>8. ASSUME NEW w \in Windows, Destroyed(w)
      PROVE  Leases'
  BY <1>8, LeasesApart DEF Destroyed
<1>9. CASE ReleaseArchives
  <2>1. PICK revoked : SettleWith(TRUE, revoked, {}, counts)
    BY <1>9 DEF ReleaseArchives
  <2> QED
    BY <1>1, <1>9, <2>1 DEF ReleaseArchives
<1>10. CASE ReleasePreviews \/ ClosePreviews \/ CancelAll
  BY <1>10, LeasesApart DEF ReleasePreviews, ClosePreviews, CancelAll
<1>11. CASE Shutdown
  BY <1>1, <1>11 DEF Shutdown, Settle
<1>12. CASE BeginShutdown \/ Cleanup
  BY <1>12, LeasesApart DEF BeginShutdown, Cleanup
<1> QED
  BY <1>2, <1>3, <1>4, <1>5, <1>6, <1>7, <1>8, <1>9, <1>10, <1>11, <1>12
  DEF Command, Main

\* The leases are inductive.
LEMMA LeasesStep == Typed /\ Handles /\ Leases /\ [Next]_vars => Leases'
<1> SUFFICES ASSUME Typed, Handles, Leases, [Next]_vars
             PROVE  Leases'
  OBVIOUS
<1>1. CASE UNCHANGED vars
  BY <1>1, LeasesApart DEF vars, archives, passwords, others
<1> QED
  BY <1>1, LeasesWorker, LeasesOther DEF Next

-----------------------------------------------------------------------------
(***************************************************************************)
(* Passwords.  A request that tried a password of a path when it was       *)
(* forgotten can no longer remember it: its attempt is stale, and it makes *)
(* no other one at the same path.                                          *)
(***************************************************************************)
Attempts(r) ==
  /\ pc[r] \in {"idle", "resolve", "reserve", "outer", "finish", "done"} =>
       inner[r] = None /\ outer[r] = None
  /\ pc[r] \in {"read", "inner"} => inner[r] = None
  /\ pc[r] = "resolve" => Kind(r) # "save"
  /\ pc[r] \in {"reserve", "outer", "read"} => Kind(r) \in {"nested", "preview"}
  /\ pc[r] = "inner" /\ outer[r] # None => Kind(r) = "nested"
  /\ pc[r] \in {"commit", "set"} => Kind(r) = "save"
  /\ pc[r] = "publish" /\ Kind(r) = "nested" => own[r] = r
  /\ pc[r] = "remember" /\ Kind(r) = "nested" /\ inner[r] = "fresh" =>
       r \in leased

Forgotten(r, p) ==
  /\ pc[r] \notin {"idle", "resolve", "reserve", "outer"}
  /\ pc[r] \in {"read", "inner"} => p = Outer(r)
  /\ pc[r] = "inner" => Kind(r) = "nested"
  /\ [path |-> p, by |-> r] \notin cached
  /\ inner[r] = "fresh" => Inner(r) # p
  /\ outer[r] = "fresh" => Outer(r) # p

Cached == \A c \in cached : ~closed /\ (c.path # Disk => c.path \in leased)

Forgetful == /\ \A r \in Requests : Attempts(r)
             /\ \A v \in void : Forgotten(v[1], v[2])
             /\ Cached

\* No password was tried at the start.
LEMMA ForgetfulInit == Init => Forgetful
BY DEF Init, Forgetful, Attempts, Cached

\* A step that tries, remembers and forgets nothing keeps this, if no request
\* goes to where its attempts would have to be over.
LEMMA ForgetfulApart ==
  ASSUME Forgetful, Typed,
         UNCHANGED <<work, pc, pin, temp, own, leased, cached, closed, inner,
                     outer, void>>
  PROVE  Forgetful'
BY DEF Forgetful, Attempts, Forgotten, Cached, Kind, Inner, Outer

\* What a step may revoke before it settles, and what it may end.
Revocable(moved, revoked, ended) ==
  /\ revoked # {} => moved
  /\ \A a \in revoked : /\ a \in Requests \X Paths /\ a[1] \in Trying(a[2])
                       /\ a[1] \notin ended
                       /\ [path |-> a[2], by |-> a[1]] \notin cached
Ending(ended) ==
  \A q \in Requests :
    IF q \in ended THEN pc'[q] = "finish"
    ELSE pc'[q] = pc[q] /\ pin'[q] = pin[q] /\ own'[q] = own[q]

\* Files and passwords go with the last hold: whoever tried one has a stale
\* attempt at it.  [password_cache.rs forget_path; state.rs OwnedArchiveTemp]
LEMMA ForgetfulSettle ==
  ASSUME Forgetful, Typed, NEW moved \in BOOLEAN, NEW revoked, NEW ended, NEW base,
         SettleWith(moved, revoked, ended, base),
         UNCHANGED <<work, temp, closed>>,
         Revocable(moved, revoked, ended), Ending(ended)
  PROVE  Forgetful'
<1> USE DEF Revocable, Ending
<1>1. PICK dead : dead = {t \in leased : ~Held(t)'}
  OBVIOUS
<1>2. /\ leased' = leased \ dead /\ cached' = {c \in cached : c.path \notin dead}
      /\ inner' = After(inner, moved \/ dead # {}, ended)
      /\ outer' = After(outer, moved \/ dead # {}, ended)
      /\ void' = void \cup revoked
                   \cup UNION {(Trying(t) \ ended) \X {t} : t \in dead}
  BY <1>1 DEF SettleWith
<1>3. ASSUME NEW q \in Requests
      PROVE  /\ inner'[q] = None <=> inner[q] = None \/ q \in ended
             /\ outer'[q] = None <=> outer[q] = None \/ q \in ended
             /\ inner'[q] = "fresh" =>
                  inner[q] = "fresh" /\ q \notin ended /\ ~moved /\ dead = {}
             /\ outer'[q] = "fresh" =>
                  outer[q] = "fresh" /\ q \notin ended /\ ~moved /\ dead = {}
  <2>1. PICK any \in BOOLEAN : any <=> moved \/ dead # {}
    OBVIOUS
  <2>2. /\ inner' = After(inner, any, ended) /\ outer' = After(outer, any, ended)
        /\ inner \in [Requests -> Attempt] /\ outer \in [Requests -> Attempt]
    BY <1>2, <2>1 DEF Typed
  <2> QED
    BY <2>1, <2>2, AfterForm
<1>4. ASSUME NEW q \in Requests, q \notin ended
      PROVE  Inner(q)' = Inner(q) /\ Outer(q)' = Outer(q) /\ Kind(q)' = Kind(q)
  BY <1>4 DEF Inner, Outer, Kind
<1>5. ASSUME NEW q \in Requests PROVE Attempts(q)'
  <2>1. Attempts(q)
    BY DEF Forgetful
  <2>2. CASE q \in ended
    BY <1>3, <2>2 DEF Attempts
  <2>3. CASE q \notin ended
    BY <1>2, <1>3, <1>4, <2>1, <2>3 DEF Attempts
  <2> QED
    BY <2>2, <2>3
<1>6. ASSUME NEW q \in Requests, NEW p \in Paths,
             \/ Forgotten(q, p)
             \/ /\ q \notin ended /\ q \in Trying(p) /\ (moved \/ dead # {})
                /\ [path |-> p, by |-> q] \notin cached'
      PROVE  Forgotten(q, p)'
  <2>1. Attempts(q)
    BY DEF Forgetful
  <2>2. CASE Forgotten(q, p)
    BY <1>2, <1>3, <1>4, <2>2 DEF Forgotten
  <2>3. CASE /\ q \notin ended /\ q \in Trying(p) /\ (moved \/ dead # {})
             /\ [path |-> p, by |-> q] \notin cached'
    BY <1>3, <1>4, <2>1, <2>3 DEF Forgotten, Attempts, Trying
  <2> QED
    BY <1>6, <2>2, <2>3
<1>7. ASSUME NEW v \in void' PROVE Forgotten(v[1], v[2])'
  <2>1. CASE v \in void
    BY <1>6, <2>1 DEF Forgetful, Typed
  <2>2. CASE v \in revoked
    BY <1>2, <1>6, <2>2
  <2>3. CASE v \in UNION {(Trying(t) \ ended) \X {t} : t \in dead}
    <3>1. PICK t \in dead : v \in (Trying(t) \ ended) \X {t}
      BY <2>3
    <3>2. /\ v[1] \in Trying(t) \ ended /\ v[2] = t /\ t \in Paths /\ v[1] \in Requests
          /\ [path |-> t, by |-> v[1]] \notin cached'
      BY <1>1, <1>2, <3>1 DEF Typed, Paths, Trying
    <3> QED
      BY <1>6, <3>1, <3>2
  <2> QED
    BY <1>2, <1>7, <2>1, <2>2, <2>3
<1>8. Cached'
  BY <1>2 DEF Cached, Forgetful
<1> QED
  BY <1>5, <1>7, <1>8 DEF Forgetful

\* An attempt that is still fresh may be remembered, as its path was not
\* forgotten.  [password_cache.rs remember]
LEMMA ForgetfulLearn ==
  ASSUME Forgetful, Typed, NEW r \in Requests, NEW p \in Paths, NEW attempt,
         \/ attempt = inner /\ p = Inner(r)
         \/ attempt = outer /\ p = Outer(r),
         Learn(r, attempt, p), p # Disk /\ attempt[r] = "fresh" => p \in leased,
         UNCHANGED <<work, pin, temp, own, leased, closed, inner, outer, void>>,
         NEW point \in {"again", "drop"}, pc' = [pc EXCEPT ![r] = point]
  PROVE  Forgetful'
<1>1. \A q \in Requests : pc'[q] = IF q = r THEN point ELSE pc[q]
  BY DEF Typed
<1>2. ASSUME NEW q \in Requests PROVE Attempts(q)'
  <2>1. Attempts(q)
    BY DEF Forgetful
  <2> QED
    BY <1>1, <2>1 DEF Attempts, Kind
<1>3. \/ cached' = cached
      \/ /\ attempt[r] = "fresh" /\ ~closed
         /\ cached' = {c \in cached : c.path # p} \cup {[path |-> p, by |-> r]}
  BY DEF Learn, MayRemember
<1>4. ASSUME NEW v \in void' PROVE Forgotten(v[1], v[2])'
  <2>1. Forgotten(v[1], v[2]) /\ v[1] \in Requests
    BY DEF Forgetful, Typed
  <2>2. [path |-> v[2], by |-> v[1]] \notin cached'
    BY <1>3, <2>1 DEF Forgotten
  <2> QED
    BY <1>1, <2>1, <2>2 DEF Forgotten, Inner, Outer, Kind
<1>5. Cached'
  BY <1>3 DEF Cached, Forgetful
<1> QED
  BY <1>2, <1>4, <1>5 DEF Forgetful

\* A request goes on, and nothing else that matters here happens.
LEMMA ForgetfulGo ==
  ASSUME Forgetful, Typed, NEW r \in Requests, NEW point,
         pc' = [pc EXCEPT ![r] = point],
         UNCHANGED <<work, pin, temp, own, leased, cached, closed, inner, outer,
                     void>>,
         point \in {"idle", "resolve", "reserve", "outer"} =>
           pc[r] \in {"idle", "resolve", "reserve"},
         point \in {"finish", "done"} => pc[r] \in {"idle", "finish", "done"},
         point = "resolve" => Kind(r) # "save",
         point \in {"reserve", "outer"} => Kind(r) \in {"nested", "preview"},
         point = "inner" => \/ pc[r] \in {"idle", "resolve"}
                            \/ pc[r] = "read" /\ Kind(r) = "nested",
         point \in {"commit", "set"} => Kind(r) = "save",
         point \notin {"read", "publish"},
         point = "remember" => Kind(r) # "nested"
  PROVE  Forgetful'
<1>1. \A q \in Requests : pc'[q] = IF q = r THEN point ELSE pc[q]
  BY DEF Typed
<1>2. ASSUME NEW q \in Requests PROVE Attempts(q)'
  <2>1. Attempts(q) /\ Attempts(r)
    BY DEF Forgetful
  <2> QED
    BY <1>1, <2>1 DEF Attempts, Kind
<1>3. ASSUME NEW v \in void' PROVE Forgotten(v[1], v[2])'
  <2>1. Forgotten(v[1], v[2]) /\ v[1] \in Requests
    BY DEF Forgetful, Typed
  <2> QED
    BY <1>1, <2>1 DEF Forgotten, Inner, Outer, Kind
<1> QED
  BY <1>2, <1>3 DEF Forgetful, Cached

\* Every step of a worker keeps this.
LEMMA ForgetfulWorker ==
  ASSUME Forgetful, Typed, Handles, Leases, NEW r \in Requests, Worker(r)
  PROVE  Forgetful'
<1> USE DEF At, Goto, others, preflight, archives, previews, passwords, attempts
<1>0. Handle(r) /\ Attempts(r) /\ Kind(r) \in {"open", "nested", "preview", "save"}
  BY DEF Handles, Forgetful, Kind, Typed, WorkItem
<1>a. /\ pin[r] # None => pin[r] \in Requests /\ Outer(r) \in leased
      /\ pin[r] = None => Outer(r) = Disk
  <2>1. ASSUME pin[r] # None PROVE pin[r] \in Requests /\ Outer(r) \in leased
    <3>1. pin[r] \in Requests /\ Open(pin[r]) /\ temp[pin[r]] \in Requests
      BY <1>0, <2>1 DEF Typed, Handle, Open
    <3>2. Held(temp[pin[r]])
      BY <3>1 DEF Held
    <3> QED
      BY <2>1, <3>1, <3>2 DEF Leases, Outer
  <2> QED
    BY <2>1 DEF Outer
<1>b. Outer(r) \in Paths /\ Inner(r) \in Paths
  BY <1>a DEF Inner, Paths, Typed
<1>1. CASE Begin(r)
  <2>1. /\ pc[r] = "idle"
        /\ \/ pc' = [pc EXCEPT ![r] = "done"]
           \/ pc' = [pc EXCEPT ![r] = "inner"]
           \/ pc' = [pc EXCEPT ![r] = "resolve"] /\ Kind(r) # "save"
        /\ UNCHANGED <<work, pin, temp, own, leased, cached, closed, inner,
                       outer, void>>
    BY <1>1 DEF Begin
  <2> QED
    BY <2>1, ForgetfulGo
<1>2. CASE Fail(r)
  <2>1. /\ pc' = [pc EXCEPT ![r] = "drop"]
        /\ UNCHANGED <<work, pin, temp, own, leased, cached, closed, inner,
                       outer, void>>
    BY <1>2 DEF Fail
  <2> QED
    BY <2>1, ForgetfulGo
<1>3. CASE Resolve(r)
  <2>1. /\ pc[r] = "resolve"
        /\ \/ pc' = [pc EXCEPT ![r] = "inner"]
           \/ pc' = [pc EXCEPT ![r] = "reserve"] /\ Kind(r) # "open"
        /\ \A q \in Requests : q # r => pin'[q] = pin[q]
        /\ UNCHANGED <<work, temp, own, leased, cached, closed, inner,
                       outer, void>>
    BY <1>3 DEF Resolve, Typed
  <2>2. \A q \in Requests : q # r => pc'[q] = pc[q]
    BY <2>1 DEF Typed
  <2>3. \/ pc'[r] = "inner"
        \/ pc'[r] = "reserve" /\ Kind(r) \in {"nested", "preview"}
    BY <1>0, <2>1 DEF Attempts, Typed
  <2>4. inner[r] = None /\ outer[r] = None
    BY <1>0, <2>1 DEF Attempts
  <2>5. ASSUME NEW q \in Requests PROVE Attempts(q)'
    <3>1. Attempts(q)
      BY DEF Forgetful
    <3> QED
      BY <2>1, <2>2, <2>3, <2>4, <3>1 DEF Attempts, Kind
  <2>6. ASSUME NEW v \in void' PROVE Forgotten(v[1], v[2])'
    <3>1. Forgotten(v[1], v[2]) /\ v[1] \in Requests /\ v[1] # r
      BY <2>1 DEF Forgetful, Typed, Forgotten
    <3> QED
      BY <2>1, <2>2, <3>1 DEF Forgotten, Kind, Inner, Outer
  <2> QED
    BY <2>1, <2>5, <2>6 DEF Forgetful, Cached
<1>4. CASE Reserve(r)
  <2>1. /\ pc[r] = "reserve"
        /\ \/ pc' = [pc EXCEPT ![r] = "drop"]
           \/ pc' = [pc EXCEPT ![r] = "outer"]
        /\ UNCHANGED <<work, pin, temp, own, leased, cached, closed, inner,
                       outer, void>>
    BY <1>4 DEF Reserve
  <2>2. Kind(r) \in {"nested", "preview"}
    BY <1>0, <2>1 DEF Attempts
  <2> QED
    BY <2>1, <2>2, ForgetfulGo
<1>5. CASE TryOuter(r)
  <2>1. /\ pc[r] = "outer" /\ pc' = [pc EXCEPT ![r] = "read"]
        /\ \A q \in Requests : q # r => outer'[q] = outer[q]
        /\ UNCHANGED <<work, pin, temp, own, leased, cached, closed, inner, void>>
    BY <1>5 DEF TryOuter, Try, Typed
  <2>2. \A q \in Requests : pc'[q] = IF q = r THEN "read" ELSE pc[q]
    BY <2>1 DEF Typed
  <2>3. ASSUME NEW q \in Requests PROVE Attempts(q)'
    <3>1. Attempts(q)
      BY DEF Forgetful
    <3> QED
      BY <2>1, <2>2, <3>1 DEF Attempts, Kind
  <2>4. ASSUME NEW v \in void' PROVE Forgotten(v[1], v[2])'
    <3>1. Forgotten(v[1], v[2]) /\ v[1] \in Requests /\ v[1] # r
      BY <2>1 DEF Forgetful, Typed, Forgotten
    <3> QED
      BY <2>1, <2>2, <3>1 DEF Forgotten, Kind, Inner, Outer
  <2> QED
    BY <2>1, <2>3, <2>4 DEF Forgetful, Cached
<1>6. CASE Read(r)
  <2>1. /\ pc[r] = "read"
        /\ \/ pc' = [pc EXCEPT ![r] = "keep"]
           \/ pc' = [pc EXCEPT ![r] = "inner"] /\ Kind(r) # "preview"
        /\ UNCHANGED <<work, pin, temp, own, leased, cached, closed, inner,
                       outer, void>>
    BY <1>6 DEF Read
  <2>2. Kind(r) \in {"nested", "preview"}
    BY <1>0, <2>1 DEF Attempts
  <2> QED
    BY <2>1, <2>2, ForgetfulGo
<1>7. CASE TryInner(r)
  <2>1. /\ pc[r] = "inner" /\ pc' = [pc EXCEPT ![r] = "list"]
        /\ \A q \in Requests : q # r => inner'[q] = inner[q]
        /\ UNCHANGED <<work, pin, temp, own, leased, cached, closed, outer, void>>
    BY <1>7 DEF TryInner, Try, Typed
  <2>2. \A q \in Requests : pc'[q] = IF q = r THEN "list" ELSE pc[q]
    BY <2>1 DEF Typed
  <2>3. ASSUME NEW q \in Requests PROVE Attempts(q)'
    <3>1. Attempts(q)
      BY DEF Forgetful
    <3> QED
      BY <2>1, <2>2, <3>1 DEF Attempts, Kind
  <2>4. Outer(r) # r
    BY <1>0, <2>1, <1>a, OpenArchivesAssumption DEF Handle, Unlisted, Outer
  <2>5. ASSUME NEW v \in void' PROVE Forgotten(v[1], v[2])'
    <3>1. Forgotten(v[1], v[2]) /\ v[1] \in Requests
      BY <2>1 DEF Forgetful, Typed
    <3>2. v[1] = r => Inner(r) = r /\ v[2] # r
      BY <2>1, <2>4, <3>1 DEF Forgotten, Inner
    <3> QED
      BY <2>1, <2>2, <3>1, <3>2 DEF Forgotten, Kind, Inner, Outer
  <2> QED
    BY <2>1, <2>3, <2>5 DEF Forgetful, Cached
<1>8. CASE List(r)
  <2>1. /\ pc[r] = "list" /\ leased \subseteq leased'
        /\ \/ pc' = [pc EXCEPT ![r] = "commit"] /\ Kind(r) = "save"
           \/ /\ pc' = [pc EXCEPT ![r] = "publish"]
              /\ Kind(r) = "nested" => own'[r] = r
        /\ \A q \in Requests : q # r => own'[q] = own[q]
        /\ UNCHANGED <<work, pin, temp, cached, closed, inner, outer, void>>
    BY <1>8 DEF List, Typed
  <2>2. /\ \A q \in Requests : q # r => pc'[q] = pc[q]
        /\ \/ pc'[r] = "commit" /\ Kind(r) = "save"
           \/ pc'[r] = "publish"
    BY <2>1 DEF Typed
  <2>3. ASSUME NEW q \in Requests PROVE Attempts(q)'
    <3>1. Attempts(q)
      BY DEF Forgetful
    <3> QED
      BY <2>1, <2>2, <3>1 DEF Attempts, Kind
  <2>4. ASSUME NEW v \in void' PROVE Forgotten(v[1], v[2])'
    <3>1. Forgotten(v[1], v[2]) /\ v[1] \in Requests
      BY <2>1 DEF Forgetful, Typed
    <3> QED
      BY <2>1, <2>2, <3>1 DEF Forgotten, Kind, Inner, Outer
  <2> QED
    BY <2>1, <2>3, <2>4 DEF Forgetful, Cached
<1>9. CASE Publish(r)
  <2>1. /\ pc[r] = "publish" /\ pin[r] # r
        /\ \A q \in Requests : pin[q] # r
        /\ UNCHANGED <<work, pin, leased, cached, closed, inner, outer, void>>
    BY <1>0, <1>9 DEF Publish, Handle, Unborn
  <2>2. /\ \A q \in Requests : /\ q # r => temp'[q] = temp[q]
                               /\ q # r => own'[q] = own[q]
        /\ \A q \in Requests : q # r => pc'[q] = pc[q]
        /\ pc'[r] \in {"remember", "drop"}
    BY <1>9 DEF Publish, Typed
  <2>3. Kind(r) = "nested" => r \in leased
    <3>1. Kind(r) = "nested" => own[r] = r
      BY <1>0, <2>1 DEF Attempts
    <3> QED
      BY <3>1 DEF Leases, Held
  <2>4. ASSUME NEW q \in Requests PROVE Attempts(q)'
    <3>1. Attempts(q)
      BY DEF Forgetful
    <3> QED
      BY <2>1, <2>2, <2>3, <3>1 DEF Attempts, Kind
  <2>5. ASSUME NEW q \in Requests PROVE Outer(q)' = Outer(q) /\ Inner(q)' = Inner(q)
    <3>1. pin[q] # None => pin[q] \in Requests /\ pin[q] # r
      BY <2>1 DEF Typed
    <3> QED
      BY <2>1, <2>2, <3>1 DEF Outer, Inner, Kind
  <2>6. ASSUME NEW v \in void' PROVE Forgotten(v[1], v[2])'
    <3>1. Forgotten(v[1], v[2]) /\ v[1] \in Requests
      BY <2>1 DEF Forgetful, Typed
    <3> QED
      BY <2>1, <2>2, <2>5, <3>1 DEF Forgotten, Kind
  <2> QED
    BY <2>1, <2>4, <2>6 DEF Forgetful, Cached
<1>10. CASE Keep(r)
  <2>1. /\ pc[r] = "keep"
        /\ \/ pc' = [pc EXCEPT ![r] = "drop"]
           \/ pc' = [pc EXCEPT ![r] = "again"]
        /\ UNCHANGED <<work, pin, temp, own, leased, cached, closed, inner,
                       outer, void>>
    BY <1>10 DEF Keep
  <2> QED
    BY <2>1, ForgetfulGo
<1>11. CASE Remember(r)
  <2>1. /\ pc[r] = "remember" /\ Learn(r, inner, Inner(r))
        /\ \E point \in {"again", "drop"} : pc' = [pc EXCEPT ![r] = point]
        /\ UNCHANGED <<work, pin, temp, own, leased, closed, inner, outer, void>>
    BY <1>11 DEF Remember
  <2>2. Inner(r) # Disk /\ inner[r] = "fresh" => Inner(r) \in leased
    BY <1>0, <1>a, <2>1 DEF Attempts, Inner
  <2> QED
    BY <1>b, <2>1, <2>2, ForgetfulLearn
<1>12. CASE RememberOuter(r)
  <2>1. /\ Learn(r, outer, Outer(r)) /\ pc' = [pc EXCEPT ![r] = "drop"]
        /\ UNCHANGED <<work, pin, temp, own, leased, closed, inner, outer, void>>
    BY <1>12 DEF RememberOuter
  <2> QED
    BY <1>a, <1>b, <2>1, ForgetfulLearn
<1>13. CASE Commit(r)
  <2>1. /\ pc[r] = "commit"
        /\ \/ pc' = [pc EXCEPT ![r] = "set"]
           \/ pc' = [pc EXCEPT ![r] = "drop"]
        /\ UNCHANGED <<work, pin, temp, own, leased, cached, closed, inner,
                       outer, void>>
    BY <1>13 DEF Commit
  <2>2. Kind(r) = "save"
    BY <1>0, <2>1 DEF Attempts
  <2> QED
    BY <2>1, <2>2, ForgetfulGo
<1>14. CASE SetPassword(r)
  <2>1. /\ pc[r] = "set"
        /\ \/ pc' = [pc EXCEPT ![r] = "remember"]
           \/ pc' = [pc EXCEPT ![r] = "drop"]
        /\ UNCHANGED <<work, pin, temp, own, leased, cached, closed, inner,
                       outer, void>>
    BY <1>14 DEF SetPassword
  <2>2. Kind(r) = "save"
    BY <1>0, <2>1 DEF Attempts
  <2> QED
    BY <2>1, <2>2, ForgetfulGo
<1>15. CASE DropRequest(r)
  <2>1. /\ SettleWith(FALSE, {}, {r}, Unreserved(r))
        /\ UNCHANGED <<work, temp, closed>>
    BY <1>15 DEF DropRequest
  <2>2. Ending({r})
    BY <1>15 DEF DropRequest, Typed, Ending
  <2>3. Revocable(FALSE, {}, {r})
    BY DEF Revocable
  <2> QED
    BY <2>1, <2>2, <2>3, ForgetfulSettle
<1>16. CASE Complete(r)
  <2>1. /\ pc[r] = "finish" /\ pc' = [pc EXCEPT ![r] = "done"]
        /\ UNCHANGED <<work, pin, temp, own, leased, cached, closed, inner,
                       outer, void>>
    BY <1>16 DEF Complete
  <2> QED
    BY <2>1, ForgetfulGo
<1> QED
  BY <1>1, <1>2, <1>3, <1>4, <1>5, <1>6, <1>7, <1>8, <1>9, <1>10, <1>11,
     <1>12, <1>13, <1>14, <1>15, <1>16 DEF Worker

\* A step that revokes every attempt and forgets what it says.
LEMMA ForgetfulRevoke ==
  ASSUME Forgetful, Typed, UNCHANGED <<work, pc, pin, own, temp, leased>>,
         inner' = After(inner, TRUE, {}), outer' = After(outer, TRUE, {}),
         cached' \subseteq cached, closed' # closed => cached' = {},
         \A v \in void' \ void : /\ v[1] \in Trying(v[2]) /\ v[1] \in Requests
                                /\ [path |-> v[2], by |-> v[1]] \notin cached'
  PROVE  Forgetful'
<1>1. ASSUME NEW q \in Requests
      PROVE  /\ inner'[q] = None <=> inner[q] = None
             /\ outer'[q] = None <=> outer[q] = None
             /\ inner'[q] # "fresh" /\ outer'[q] # "fresh"
  BY OpenArchivesAssumption DEF After, Attempt, Typed
<1>2. ASSUME NEW q \in Requests PROVE Attempts(q) /\ Attempts(q)'
  <2>1. Attempts(q)
    BY DEF Forgetful
  <2> QED
    BY <1>1, <2>1 DEF Attempts, Kind
<1>3. ASSUME NEW v \in void' PROVE Forgotten(v[1], v[2])'
  <2>1. CASE v \in void
    <3>1. Forgotten(v[1], v[2]) /\ v[1] \in Requests
      BY <2>1 DEF Forgetful, Typed
    <3> QED
      BY <1>1, <3>1 DEF Forgotten, Kind, Outer
  <2>2. CASE v \in void' \ void
    BY <1>1, <1>2, <2>2 DEF Forgotten, Trying, Attempts, Kind, Inner, Outer
  <2> QED
    BY <1>3, <2>1, <2>2
<1> QED
  BY <1>2, <1>3 DEF Forgetful, Cached

\* So does every command and every step of the main thread.
LEMMA ForgetfulOther ==
  ASSUME Forgetful, Typed, Command \/ Main
  PROVE  Forgetful'
<1> USE DEF Quiet, others, preflight, archives, previews, passwords, attempts,
            From
<1>1. ASSUME SettleWith(FALSE, {}, {}, counts),
             UNCHANGED <<work, pc, pin, own, temp, closed>>
      PROVE  Forgetful'
  <2>1. Revocable(FALSE, {}, {}) /\ Ending({})
    BY <1>1 DEF Revocable, Ending
  <2> QED
    BY <1>1, <2>1, ForgetfulSettle
<1>2. ASSUME NEW r \in Requests, Cancel(r) \/ Use(r)
      PROVE  Forgetful'
  BY <1>2, ForgetfulApart DEF Cancel, Use
<1>3. ASSUME NEW r \in Requests, Close(r)
      PROVE  Forgetful'
  BY <1>1, <1>3 DEF Close, Settle
<1>4. ASSUME NEW r \in Requests,
             BeginExternalUse(r) \/ EndExternalUse(r) \/ Release(r)
      PROVE  Forgetful'
  BY <1>4, ForgetfulApart DEF BeginExternalUse, EndExternalUse, Release, Sessions
<1>5. CASE EndUse
  BY <1>1, <1>5 DEF EndUse, Settle
<1>6. CASE Forget
  <2>1. /\ UNCHANGED <<work, pc, pin, own, temp, leased, closed>>
        /\ cached' = {c \in cached : c.path # Disk}
        /\ inner' = After(inner, TRUE, {}) /\ outer' = After(outer, TRUE, {})
        /\ void' = void \cup (Trying(Disk) \X {Disk})
    BY <1>6 DEF Forget
  <2>2. \A v \in void' \ void : /\ v[1] \in Trying(v[2]) /\ v[1] \in Requests
                               /\ [path |-> v[2], by |-> v[1]] \notin cached'
    BY <2>1 DEF Trying
  <2> QED
    BY <2>1, <2>2, ForgetfulRevoke
<1>7. ASSUME NEW w \in Windows, Destroyed(w)
      PROVE  Forgetful'
  BY <1>7, ForgetfulApart DEF Destroyed
<1>8. CASE ReleaseArchives
  <2>1. PICK its : its = {r \in Requests : Owner(r) = main.window}
    OBVIOUS
  <2>2. PICK revoked : revoked = {a \in its \X Paths :
                            /\ a[1] \in Trying(a[2])
                            /\ [path |-> a[2], by |-> a[1]] \notin cached}
    OBVIOUS
  <2>3. /\ SettleWith(TRUE, revoked, {}, counts)
        /\ UNCHANGED <<work, pc, pin, own, temp, closed>>
    BY <1>8, <2>1, <2>2 DEF ReleaseArchives
  <2>4. Revocable(TRUE, revoked, {})
    BY <2>1, <2>2 DEF Revocable
  <2>5. Ending({})
    BY <2>3 DEF Ending
  <2> QED
    BY <2>3, <2>4, <2>5, ForgetfulSettle
<1>9. CASE ReleasePreviews \/ ClosePreviews \/ CancelAll
  BY <1>9, ForgetfulApart DEF ReleasePreviews, ClosePreviews, CancelAll
<1>10. CASE BeginShutdown
  <2>1. /\ UNCHANGED <<work, pc, pin, own, temp, leased, void>> /\ cached' = {}
        /\ inner' = After(inner, TRUE, {}) /\ outer' = After(outer, TRUE, {})
    BY <1>10 DEF BeginShutdown
  <2> QED
    BY <2>1, ForgetfulRevoke
<1>11. CASE Shutdown
  BY <1>1, <1>11 DEF Shutdown, Settle
<1>12. CASE Cleanup
  BY <1>12, ForgetfulApart DEF Cleanup
<1> QED
  BY <1>2, <1>3, <1>4, <1>5, <1>6, <1>7, <1>8, <1>9, <1>10, <1>11, <1>12
  DEF Command, Main

\* This is inductive.
LEMMA ForgetfulStep ==
  Typed /\ Handles /\ Leases /\ Forgetful /\ [Next]_vars => Forgetful'
<1> SUFFICES ASSUME Typed, Handles, Leases, Forgetful, [Next]_vars
             PROVE  Forgetful'
  OBVIOUS
<1>1. CASE UNCHANGED vars
  BY <1>1, ForgetfulApart DEF vars, archives, passwords, attempts, others
<1> QED
  BY <1>1, ForgetfulWorker, ForgetfulOther DEF Next

\* The four hold together.
LEMMA HeldInvariant == Spec => [](Typed /\ Handles /\ Leases /\ Forgetful)
<1>1. Init => Typed /\ Handles /\ Leases /\ Forgetful
  BY TypedInit, HandlesInit, LeasesInit, ForgetfulInit
<1>2. /\ Typed /\ Handles /\ Leases /\ Forgetful
      /\ [Next]_vars
      => (Typed /\ Handles /\ Leases /\ Forgetful)'
  BY TypedStep, HandlesStep, LeasesStep, ForgetfulStep
<1> QED
  BY <1>1, <1>2, PTL DEF Spec

\* A password that was forgotten, or whose window was closed, is not cached
\* again by work that was under way; one of a temporary file goes with it, and
\* none is left at the exit.  [password_cache.rs remember, revoke;
\* state.rs OwnedArchiveTemp]
THEOREM ForgottenStaysForgotten == Spec => []PasswordsStayForgotten
<1>1. Typed /\ Leases /\ Forgetful => PasswordsStayForgotten
  <2> SUFFICES ASSUME Typed, Leases, Forgetful, NEW c \in cached
               PROVE  /\ <<c.by, c.path>> \notin void
                      /\ c.path # Disk => Held(c.path)
                      /\ ~closed
    BY DEF PasswordsStayForgotten
  <2>1. c = [path |-> c.path, by |-> c.by]
    BY DEF Typed
  <2>2. <<c.by, c.path>> \notin void
    BY <2>1 DEF Forgetful, Forgotten
  <2>3. c.path # Disk => Held(c.path)
    BY DEF Forgetful, Cached, Typed, Leases
  <2> QED
    BY <2>2, <2>3 DEF Forgetful, Cached
<1> QED
  BY <1>1, HeldInvariant, PTL

-----------------------------------------------------------------------------
(***************************************************************************)
(* The budget of previews.  The counts are those of the reservations and   *)
(* the leases there are, so what is added up under the lock is what there  *)
(* is; a file that comes takes the place of its reservation.               *)
(***************************************************************************)
Counters == {"inflight", "lease", "sequence"}
Reserved == {r \in Requests : reserved[r] # None}
Previews == {s \in Requests : sessions[s] # None}
Fleeting == {s \in Requests : sessions[s] # None /\ ~sessions[s].sticky}

Amounts ==
  /\ reserved \in [Requests -> Nat \cup {None}] /\ ownerGen \in [Windows -> Nat]
  /\ sessions \in [Requests -> Session \cup {None}]
  /\ counts \in [Counters -> Nat]
  /\ IsFiniteSet(Reserved) /\ IsFiniteSet(leased) /\ IsFiniteSet(Previews)
  /\ counts["inflight"] = Cardinality(Reserved)
  /\ counts["lease"] = Cardinality(leased)

Limits ==
  /\ Cardinality(Fleeting) + Cardinality(Reserved) + Cardinality(leased)
       <= MaxActive
  /\ FileBytes * (Cardinality(Previews) + Cardinality(leased))
       + EntryBytes * Cardinality(Reserved) <= MaxBytes
  /\ Cardinality(Retained(sessions)) <= MaxExternal

\* A reservation is there from reserve to its use or its return, and a preview
\* comes of a request once.
Room(r) ==
  /\ pc[r] \in {"idle", "resolve", "reserve", "finish", "done"} =>
       reserved[r] = None
  /\ pc[r] \in Unborn => sessions[r] = None

Budget == Amounts /\ Limits /\ \A r \in Requests : Room(r)

\* How much a file and a reservation take.
LEMMA Sizes ==
  ASSUME NEW m \in Nat, NEW n \in Nat, NEW i \in Nat, NEW j \in Nat
  PROVE  /\ FileBytes * n \in Nat /\ EntryBytes * i \in Nat
         /\ m <= n /\ i <= j =>
              FileBytes * m + EntryBytes * i <= FileBytes * n + EntryBytes * j
         /\ FileBytes * (n + 1) = FileBytes * n + FileBytes
         /\ EntryBytes * (i + 1) = EntryBytes * i + EntryBytes
<1>1. FileBytes \in Nat /\ EntryBytes \in Nat
  BY OpenArchivesAssumption
<1>2. \A a, b, c \in Nat : a <= b => c * a <= c * b
  OBVIOUS
<1>3. \A a, c \in Nat : c * a \in Nat /\ c * (a + 1) = c * a + c
  OBVIOUS
<1>4. m <= n /\ i <= j =>
        FileBytes * m <= FileBytes * n /\ EntryBytes * i <= EntryBytes * j
  BY <1>1, <1>2
<1>5. /\ FileBytes * m \in Nat /\ FileBytes * n \in Nat
      /\ EntryBytes * i \in Nat /\ EntryBytes * j \in Nat
  BY <1>1, <1>3
<1> QED
  BY <1>1, <1>3, <1>4, <1>5

\* Nothing is counted at the start.
LEMMA BudgetInit == Init => Budget
<1> SUFFICES ASSUME Init PROVE Budget
  OBVIOUS
<1>1. /\ Reserved = {} /\ leased = {} /\ Previews = {} /\ Fleeting = {}
      /\ Retained(sessions) = {}
  BY DEF Init, Reserved, Previews, Fleeting, Retained
<1>2. IsFiniteSet({}) /\ Cardinality({}) = 0
  BY FS_EmptySet
<1>3. FileBytes * (0 + 0) + EntryBytes * 0 = 0
  BY OpenArchivesAssumption
<1>4. Amounts
  BY <1>1, <1>2 DEF Init, Amounts, Counters
<1>5. Limits
  BY <1>1, <1>2, <1>3, OpenArchivesAssumption DEF Limits
<1> QED
  BY <1>4, <1>5 DEF Init, Budget, Room

\* Everything counted is a number, and less of everything is within the limits.
LEMMA LimitsLess ==
  ASSUME Amounts, Limits, Reserved' \subseteq Reserved, leased' \subseteq leased,
         Previews' \subseteq Previews, Fleeting' \subseteq Fleeting,
         Cardinality(Retained(sessions)') <= MaxExternal
  PROVE  Limits'
<1>1. /\ Cardinality(Reserved') \in Nat /\ Cardinality(Reserved') <= Cardinality(Reserved)
      /\ Cardinality(leased') \in Nat /\ Cardinality(leased') <= Cardinality(leased)
      /\ Cardinality(Previews') \in Nat /\ Cardinality(Previews') <= Cardinality(Previews)
      /\ Cardinality(Reserved) \in Nat /\ Cardinality(leased) \in Nat
      /\ Cardinality(Previews) \in Nat
  BY FS_Subset, FS_CardinalityType DEF Amounts
<1>2. IsFiniteSet(Fleeting)
  BY FS_Subset DEF Amounts, Fleeting, Previews
<1>3. /\ Cardinality(Fleeting') \in Nat /\ Cardinality(Fleeting) \in Nat
      /\ Cardinality(Fleeting') <= Cardinality(Fleeting)
  BY <1>2, FS_Subset, FS_CardinalityType
<1>4. PICK m \in Nat, n \in Nat :
        /\ m = Cardinality(Previews') + Cardinality(leased')
        /\ n = Cardinality(Previews) + Cardinality(leased) /\ m <= n
  BY <1>1
<1>5. PICK i \in Nat, j \in Nat :
        i = Cardinality(Reserved') /\ j = Cardinality(Reserved) /\ i <= j
  BY <1>1
<1>6. /\ FileBytes * m + EntryBytes * i <= FileBytes * n + EntryBytes * j
      /\ FileBytes * m \in Nat /\ EntryBytes * i \in Nat
      /\ FileBytes * n \in Nat /\ EntryBytes * j \in Nat
  BY <1>4, <1>5, Sizes
<1>7. MaxActive \in Nat /\ MaxBytes \in Nat
  BY OpenArchivesAssumption
<1>8. /\ FileBytes * n + EntryBytes * j <= MaxBytes
      /\ Cardinality(Fleeting) + Cardinality(Reserved) + Cardinality(leased)
           <= MaxActive
  BY <1>4, <1>5 DEF Limits
<1>9. FileBytes * m + EntryBytes * i <= MaxBytes
  BY <1>6, <1>7, <1>8
<1>10. Cardinality(Fleeting') + Cardinality(Reserved') + Cardinality(leased')
         <= MaxActive
  BY <1>1, <1>3, <1>7, <1>8
<1> QED
  BY <1>4, <1>5, <1>9, <1>10 DEF Limits

\* A step that leaves the previews alone.
LEMMA BudgetApart ==
  ASSUME Budget, UNCHANGED <<leased, reserved, counts, sessions, ownerGen>>,
         \A r \in Requests : Room(r)'
  PROVE  Budget'
BY DEF Budget, Amounts, Limits, Reserved, Previews, Fleeting, Retained, Room

\* A request that goes on, and does not end with its reservation or begin anew.
LEMMA BudgetGo ==
  ASSUME Budget, Typed, UNCHANGED <<leased, reserved, counts, sessions, ownerGen>>,
         NEW r \in Requests, NEW point \in Points, pc' = [pc EXCEPT ![r] = point],
         point \in {"idle", "resolve", "reserve", "finish", "done"} =>
           pc[r] \in {"idle", "resolve", "reserve", "finish", "done"},
         pc[r] \notin Unborn => point \notin Unborn
  PROVE  Budget'
<1>1. ASSUME NEW q \in Requests PROVE Room(q)'
  <2>1. Room(q) /\ Room(r)
    BY DEF Budget
  <2>2. pc'[q] = IF q = r THEN point ELSE pc[q]
    BY DEF Typed
  <2> QED
    BY <2>1, <2>2 DEF Room
<1> QED
  BY <1>1, BudgetApart

\* Leases are returned with the files; with a reservation, if there is one.
LEMMA BudgetSettle ==
  ASSUME Budget, NEW moved, NEW revoked, NEW ended, NEW base \in [Counters -> Nat],
         SettleWith(moved, revoked, ended, base), UNCHANGED <<sessions, ownerGen>>,
         reserved' \in [Requests -> Nat \cup {None}],
         Reserved' \subseteq Reserved, base["lease"] = counts["lease"],
         base["inflight"] = Cardinality(Reserved'), \A r \in Requests : Room(r)'
  PROVE  Budget'
<1>1. PICK dead : dead = {t \in leased : ~Held(t)'}
  OBVIOUS
<1>2. leased' = leased \ dead /\ counts' = [base EXCEPT !["lease"] = @ - Cardinality(dead)]
  BY <1>1 DEF SettleWith
<1>3. /\ IsFiniteSet(leased') /\ IsFiniteSet(dead)
      /\ Cardinality(leased') = Cardinality(leased) - Cardinality(dead)
  <2>1. leased \cap dead = dead /\ dead \subseteq leased /\ IsFiniteSet(leased)
    BY <1>1 DEF Budget, Amounts
  <2>2. IsFiniteSet(dead)
    BY <2>1, FS_Subset
  <2>3. /\ IsFiniteSet(leased \ dead)
        /\ Cardinality(leased \ dead)
             = Cardinality(leased) - Cardinality(leased \cap dead)
    BY <2>1, FS_Difference
  <2> QED
    BY <1>2, <2>1, <2>2, <2>3
<1>4. /\ Cardinality(leased') \in Nat
      /\ counts' \in [Counters -> Nat] /\ counts'["lease"] = Cardinality(leased')
      /\ counts'["inflight"] = Cardinality(Reserved')
  <2>1. Cardinality(leased') \in Nat
    BY <1>3, FS_CardinalityType
  <2>2. base["lease"] - Cardinality(dead) = Cardinality(leased')
    BY <1>3 DEF Budget, Amounts
  <2> QED
    BY <1>2, <2>1, <2>2 DEF Counters
<1>5. IsFiniteSet(Reserved')
  BY FS_Subset DEF Budget, Amounts
<1>6. Previews' = Previews /\ Fleeting' = Fleeting /\ Retained(sessions)' = Retained(sessions)
  BY DEF Previews, Fleeting, Retained
<1>7. Amounts'
  BY <1>3, <1>4, <1>5, <1>6 DEF Budget, Amounts
<1>8. Limits'
  BY <1>2, <1>6, LimitsLess DEF Budget, Limits
<1> QED
  BY <1>7, <1>8 DEF Budget

\* A change of the sessions by which none comes and no more are retained.
LEMMA BudgetSessions ==
  ASSUME Budget, UNCHANGED <<leased, reserved, counts, ownerGen>>,
         sessions' \in [Requests -> Session \cup {None}],
         \A s \in Requests : sessions'[s] # None =>
           sessions[s] # None /\ (sessions[s].sticky => sessions'[s].sticky),
         Cardinality(Retained(sessions)') <= MaxExternal,
         \A r \in Requests : Room(r)'
  PROVE  Budget'
<1>1. Reserved' = Reserved /\ Previews' \subseteq Previews /\ Fleeting' \subseteq Fleeting
  BY DEF Reserved, Previews, Fleeting
<1>2. IsFiniteSet(Previews')
  BY <1>1, FS_Subset DEF Budget, Amounts
<1>3. Amounts'
  BY <1>1, <1>2 DEF Budget, Amounts
<1> QED
  BY <1>1, <1>3, LimitsLess DEF Budget

\* The sessions that are retained are no more if they were retained before.
LEMMA RetainedLess ==
  ASSUME Amounts, Limits,
         \A s \in Requests : sessions'[s] # None /\ Pinned(sessions'[s]) =>
                               sessions[s] # None /\ Pinned(sessions[s])
  PROVE  Cardinality(Retained(sessions)') <= MaxExternal
<1>1. Retained(sessions)' \subseteq Retained(sessions)
  BY DEF Retained, Pinned
<1>2. IsFiniteSet(Retained(sessions))
  BY FS_Subset DEF Amounts, Retained, Previews
<1>3. /\ Cardinality(Retained(sessions)') \in Nat
      /\ Cardinality(Retained(sessions)) \in Nat
      /\ Cardinality(Retained(sessions)') <= Cardinality(Retained(sessions))
  BY <1>1, <1>2, FS_Subset, FS_CardinalityType
<1> QED
  BY <1>3, OpenArchivesAssumption DEF Limits

\* A file that comes takes the place of its reservation: there is one
\* reservation less, and one preview or one lease more.
LEMMA BudgetTakesPlace ==
  ASSUME Budget, NEW r \in Reserved, Reserved' = Reserved \ {r},
         IsFiniteSet(leased'), IsFiniteSet(Previews'),
         \/ /\ leased' = leased /\ Cardinality(Previews') = Cardinality(Previews) + 1
            /\ Cardinality(Fleeting') = Cardinality(Fleeting) + 1
         \/ /\ Cardinality(leased') = Cardinality(leased) + 1
            /\ Previews' = Previews /\ Fleeting' = Fleeting,
         Retained(sessions)' = Retained(sessions)
  PROVE  Limits' /\ IsFiniteSet(Reserved')
                 /\ Cardinality(Reserved') = Cardinality(Reserved) - 1
<1>1. IsFiniteSet(Reserved) /\ IsFiniteSet(Previews) /\ IsFiniteSet(leased)
  BY DEF Budget, Amounts
<1>2. IsFiniteSet(Reserved') /\ Cardinality(Reserved') = Cardinality(Reserved) - 1
  BY <1>1, FS_RemoveElement
<1>3. IsFiniteSet(Fleeting)
  BY <1>1, FS_Subset DEF Fleeting, Previews
<1>4. PICK i \in Nat, j \in Nat :
        i = Cardinality(Reserved') /\ j = Cardinality(Reserved) /\ j = i + 1
  BY <1>1, <1>2, FS_CardinalityType
<1>5. PICK m \in Nat, n \in Nat :
        /\ m = Cardinality(Previews) + Cardinality(leased)
        /\ n = Cardinality(Previews') + Cardinality(leased') /\ n = m + 1
        /\ Cardinality(Fleeting') + Cardinality(leased')
             = Cardinality(Fleeting) + Cardinality(leased) + 1
        /\ Cardinality(Fleeting) + Cardinality(leased) \in Nat
  <2>1. /\ Cardinality(Previews) \in Nat /\ Cardinality(leased) \in Nat
        /\ Cardinality(Fleeting) \in Nat
    BY <1>1, <1>3, FS_CardinalityType
  <2>2. /\ Cardinality(Previews') + Cardinality(leased')
             = Cardinality(Previews) + Cardinality(leased) + 1
        /\ Cardinality(Fleeting') + Cardinality(leased')
             = Cardinality(Fleeting) + Cardinality(leased) + 1
    BY <2>1
  <2>3. Cardinality(Previews) + Cardinality(leased) \in Nat
    BY <2>1
  <2> QED
    BY <2>1, <2>2, <2>3
<1>6. /\ FileBytes * n = FileBytes * m + FileBytes
      /\ EntryBytes * j = EntryBytes * i + EntryBytes
      /\ FileBytes * m \in Nat /\ EntryBytes * i \in Nat
  BY <1>4, <1>5, Sizes
<1>7. /\ MaxActive \in Nat /\ MaxBytes \in Nat /\ FileBytes \in Nat
      /\ EntryBytes \in Nat /\ FileBytes <= EntryBytes
  BY OpenArchivesAssumption
<1>8. /\ FileBytes * m + EntryBytes * j <= MaxBytes
      /\ Cardinality(Fleeting) + Cardinality(Reserved) + Cardinality(leased)
           <= MaxActive
      /\ Cardinality(Retained(sessions)') <= MaxExternal
  BY <1>4, <1>5 DEF Budget, Limits
<1>9. FileBytes * n + EntryBytes * i <= MaxBytes
  BY <1>6, <1>7, <1>8
<1>10. Cardinality(Fleeting') + Cardinality(Reserved') + Cardinality(leased')
         <= MaxActive
  <2>1. \A a, b, c, x, y \in Int : a + c = x + y + 1 => a + b + c = x + (b + 1) + y
    OBVIOUS
  <2>2. /\ Cardinality(Fleeting) \in Nat /\ Cardinality(leased) \in Nat
        /\ Cardinality(Fleeting') \in Nat /\ Cardinality(leased') \in Nat
    BY <1>1, <1>3, FS_CardinalityType
  <2> QED
    BY <1>4, <1>5, <1>8, <2>1, <2>2
<1> QED
  BY <1>2, <1>4, <1>5, <1>8, <1>9, <1>10 DEF Limits

\* Every step of a worker keeps the budget.  [preview_sessions.rs]
LEMMA BudgetWorker ==
  ASSUME Budget, Typed, Handles, Leases, NEW r \in Requests, Worker(r)
  PROVE  Budget'
<1> USE DEF At, Goto, others, preflight, archives, previews, passwords, attempts
<1> USE DEF Points, Late, Unborn, Unlisted
<1>0. Room(r) /\ Owner(r) \in Windows
  BY DEF Budget, Owner, Typed, WorkItem
<1>1. CASE Begin(r)
  <2>1. /\ pc[r] = "idle"
        /\ \E point \in {"done", "inner", "resolve"} : pc' = [pc EXCEPT ![r] = point]
        /\ UNCHANGED <<leased, reserved, counts, sessions, ownerGen>>
    BY <1>1 DEF Begin
  <2> QED
    BY <2>1, BudgetGo
<1>2. CASE Fail(r)
  BY <1>2, BudgetGo DEF Fail
<1>3. CASE Resolve(r)
  <2>1. /\ pc[r] = "resolve"
        /\ \E point \in {"inner", "reserve"} : pc' = [pc EXCEPT ![r] = point]
        /\ UNCHANGED <<leased, reserved, counts, sessions, ownerGen>>
    BY <1>3 DEF Resolve
  <2> QED
    BY <2>1, BudgetGo
<1>4. CASE Reserve(r)
  <2>1. /\ pc[r] = "reserve" /\ reserved[r] = None
        /\ UNCHANGED <<leased, ownerGen>>
    BY <1>0, <1>4 DEF Reserve, Room
  <2>2. CASE UNCHANGED <<reserved, counts, sessions>> /\ pc' = [pc EXCEPT ![r] = "drop"]
    BY <2>1, <2>2, BudgetGo
  <2>3. ASSUME NEW k \in 0 .. Cardinality(Requests), sessions' = Evicted(k)
        PROVE  /\ sessions' \in [Requests -> Session \cup {None}]
               /\ \A s \in Requests : sessions'[s] \in {sessions[s], None}
    BY <2>3 DEF Evicted, Budget, Amounts
  <2>4. ASSUME NEW point \in {"drop", "outer"}, pc' = [pc EXCEPT ![r] = point],
               \A s \in Requests : sessions'[s] \in {sessions[s], None},
               NEW q \in Requests, point = "outer" \/ UNCHANGED reserved,
               q # r => reserved'[q] = reserved[q]
        PROVE  Room(q)'
    <3>1. Room(q)
      BY DEF Budget
    <3>2. pc'[q] = IF q = r THEN point ELSE pc[q]
      BY <2>4 DEF Typed
    <3> QED
      BY <2>1, <2>4, <3>1, <3>2 DEF Room
  <2>5. ASSUME NEW k \in 0 .. Cardinality(Requests), sessions' = Evicted(k),
               pc' = [pc EXCEPT ![r] = "drop"], UNCHANGED <<reserved, counts>>
        PROVE  Budget'
    <3>1. \A q \in Requests : Room(q)'
      BY <2>3, <2>4, <2>5
    <3>2. Cardinality(Retained(sessions)') <= MaxExternal
      BY <2>3, <2>5, RetainedLess DEF Budget
    <3> QED
      BY <2>1, <2>3, <2>5, <3>1, <3>2, BudgetSessions
  <2>6. ASSUME NEW k \in 0 .. Cardinality(Requests), sessions' = Evicted(k),
               Fits(Evicted(k)), pc' = [pc EXCEPT ![r] = "outer"],
               reserved' = [reserved EXCEPT ![r] = ownerGen[Owner(r)]],
               counts' = [counts EXCEPT !["inflight"] = @ + 1]
        PROVE  Budget'
    <3>1. /\ ownerGen[Owner(r)] \in Nat /\ ownerGen[Owner(r)] # None
          /\ \A q \in Requests :
               reserved'[q] = IF q = r THEN ownerGen[Owner(r)] ELSE reserved[q]
          /\ reserved' \in [Requests -> Nat \cup {None}]
      BY <1>0, <2>6, OpenArchivesAssumption DEF Budget, Amounts
    <3>2. Reserved' = Reserved \cup {r} /\ r \notin Reserved
      BY <2>1, <3>1 DEF Reserved
    <3>3. \A q \in Requests : Room(q)'
      BY <2>3, <2>4, <2>6, <3>1
    <3>4. Cardinality(Retained(sessions)') <= MaxExternal
      BY <2>3, <2>6, RetainedLess DEF Budget
    <3>5. /\ IsFiniteSet(Reserved')
          /\ Cardinality(Reserved') = Cardinality(Reserved) + 1
          /\ Cardinality(Reserved) \in Nat /\ Cardinality(leased) \in Nat
      BY <3>2, FS_AddElement, FS_CardinalityType DEF Budget, Amounts
    <3>6. Previews' \subseteq Previews
      BY <2>3, <2>6 DEF Previews
    <3>7. IsFiniteSet(Previews') /\ Cardinality(Previews') \in Nat
      BY <3>6, FS_Subset, FS_CardinalityType DEF Budget, Amounts
    <3>8. /\ Cardinality(Fleeting') + Cardinality(Reserved) + Cardinality(leased)
               < MaxActive
          /\ FileBytes * (Cardinality(Previews') + Cardinality(leased))
               + EntryBytes * Cardinality(Reserved) + EntryBytes <= MaxBytes
      <4>1. PICK all : all = Evicted(k)
        OBVIOUS
      <4>2. /\ {s \in Requests : all[s] # None /\ ~all[s].sticky} = Fleeting'
            /\ {s \in Requests : all[s] # None} = Previews'
        BY <2>6, <4>1 DEF Fleeting, Previews
      <4>3. Fits(all)
        BY <2>6, <4>1
      <4>4. counts["inflight"] = Cardinality(Reserved) /\ counts["lease"] = Cardinality(leased)
        BY DEF Budget, Amounts
      <4> QED
        BY <4>2, <4>3, <4>4 DEF Fits, ActiveCount, Bytes
    <3>9. Amounts'
      <4>1. /\ counts' \in [Counters -> Nat] /\ counts'["lease"] = counts["lease"]
            /\ counts'["inflight"] = counts["inflight"] + 1
        BY <2>6 DEF Budget, Amounts, Counters
      <4> QED
        BY <2>1, <2>3, <2>6, <3>1, <3>5, <3>7, <4>1 DEF Budget, Amounts
    <3>10. Limits'
      <4>1. PICK m \in Nat, i \in Nat, j \in Nat :
              /\ m = Cardinality(Previews') + Cardinality(leased)
              /\ i = Cardinality(Reserved) /\ j = i + 1 /\ j = Cardinality(Reserved')
        BY <3>5, <3>7
      <4>2. EntryBytes * j = EntryBytes * i + EntryBytes /\ FileBytes * m \in Nat
            /\ EntryBytes * i \in Nat
        BY <4>1, Sizes
      <4>3. FileBytes * m + EntryBytes * i + EntryBytes <= MaxBytes
        BY <3>8, <4>1
      <4>4. FileBytes * m + EntryBytes * j <= MaxBytes
        BY <4>2, <4>3, OpenArchivesAssumption
      <4>5. Cardinality(Fleeting') \in Nat
        <5>1. Fleeting' \subseteq Previews'
          BY DEF Fleeting, Previews
        <5> QED
          BY <3>7, <5>1, FS_Subset, FS_CardinalityType
      <4>6. Cardinality(Fleeting') + Cardinality(Reserved') + Cardinality(leased)
              <= MaxActive
        BY <3>5, <3>8, <4>5, OpenArchivesAssumption
      <4> QED
        BY <2>1, <3>4, <4>1, <4>4, <4>6 DEF Limits
    <3> QED
      BY <3>3, <3>9, <3>10 DEF Budget
  <2> QED
    BY <1>4, <2>2, <2>5, <2>6 DEF Reserve
<1>5. CASE TryOuter(r)
  BY <1>5, BudgetGo DEF TryOuter
<1>6. CASE Read(r)
  <2>1. /\ pc[r] = "read"
        /\ \E point \in {"keep", "inner"} : pc' = [pc EXCEPT ![r] = point]
        /\ UNCHANGED <<leased, reserved, counts, sessions, ownerGen>>
    BY <1>6 DEF Read
  <2> QED
    BY <2>1, BudgetGo
<1>7. CASE TryInner(r)
  BY <1>7, BudgetGo DEF TryInner
<1>8. CASE List(r)
  <2>1. pc[r] = "list" /\ UNCHANGED <<sessions, ownerGen>>
    BY <1>8 DEF List
  <2>2. CASE /\ UNCHANGED <<leased, reserved, counts>>
             /\ \E point \in {"commit", "publish"} : pc' = [pc EXCEPT ![r] = point]
    BY <2>1, <2>2, BudgetGo
  <2>3. CASE /\ Current(r) /\ leased' = leased \cup {r}
             /\ pc' = [pc EXCEPT ![r] = "publish"]
             /\ counts' = [counts EXCEPT !["inflight"] = @ - 1, !["lease"] = @ + 1]
             /\ reserved' = [reserved EXCEPT ![r] = None]
    <3>1. r \in Reserved
      BY <1>0, <2>3, OpenArchivesAssumption DEF Current, Reserved, Budget, Amounts
    <3>2. /\ \A q \in Requests : reserved'[q] = IF q = r THEN None ELSE reserved[q]
          /\ reserved' \in [Requests -> Nat \cup {None}]
          /\ Reserved' = Reserved \ {r}
      BY <2>3 DEF Budget, Amounts, Reserved
    <3>3. r \notin leased
      BY <2>1 DEF Handles, Handle, Held, Leases
    <3>4. IsFiniteSet(leased') /\ Cardinality(leased') = Cardinality(leased) + 1
      BY <2>3, <3>3, FS_AddElement DEF Budget, Amounts
    <3>5. /\ Previews' = Previews /\ Fleeting' = Fleeting
          /\ Retained(sessions)' = Retained(sessions)
      BY <2>1 DEF Previews, Fleeting, Retained
    <3>6. /\ Limits' /\ IsFiniteSet(Reserved')
          /\ Cardinality(Reserved') = Cardinality(Reserved) - 1
      BY <3>1, <3>2, <3>4, <3>5, BudgetTakesPlace DEF Budget, Amounts
    <3>7. ASSUME NEW q \in Requests PROVE Room(q)'
      <4>1. Room(q) /\ pc'[q] = IF q = r THEN "publish" ELSE pc[q]
        BY <2>3 DEF Budget, Typed
      <4> QED
        BY <2>1, <3>2, <4>1 DEF Room
    <3>8. /\ counts["inflight"] - 1 \in Nat /\ counts["lease"] + 1 \in Nat
          /\ counts["inflight"] - 1 = Cardinality(Reserved')
          /\ counts["lease"] + 1 = Cardinality(leased')
      BY <3>4, <3>6, FS_CardinalityType DEF Budget, Amounts
    <3>9. Amounts'
      <4>1. /\ counts' \in [Counters -> Nat]
            /\ counts'["inflight"] = counts["inflight"] - 1
            /\ counts'["lease"] = counts["lease"] + 1
        BY <2>3, <3>8 DEF Budget, Amounts, Counters
      <4> QED
        BY <2>1, <3>2, <3>4, <3>5, <3>6, <3>8, <4>1 DEF Budget, Amounts
    <3> QED
      BY <3>6, <3>7, <3>9 DEF Budget
  <2> QED
    BY <1>8, <2>2, <2>3 DEF List
<1>9. CASE Publish(r)
  <2>1. /\ pc[r] = "publish"
        /\ \E point \in {"remember", "drop"} : pc' = [pc EXCEPT ![r] = point]
        /\ UNCHANGED <<leased, reserved, counts, sessions, ownerGen>>
    BY <1>9 DEF Publish
  <2> QED
    BY <2>1, BudgetGo
<1>10. CASE Keep(r)
  <2>1. /\ pc[r] = "keep" /\ sessions[r] = None /\ UNCHANGED <<leased, ownerGen>>
    BY <1>0, <1>10 DEF Keep, Room
  <2>2. CASE UNCHANGED <<sessions, counts, reserved>> /\ pc' = [pc EXCEPT ![r] = "drop"]
    BY <2>1, <2>2, BudgetGo
  <2>3. ASSUME NEW kept, kept = [seq |-> counts["sequence"], sticky |-> FALSE,
                                 uses |-> 0, release |-> FALSE],
               Current(r), pc' = [pc EXCEPT ![r] = "again"],
               sessions' = [sessions EXCEPT ![r] = kept],
               counts' = [counts EXCEPT !["inflight"] = @ - 1, !["sequence"] = @ + 1],
               reserved' = [reserved EXCEPT ![r] = None]
        PROVE  Budget'
    <3>1. r \in Reserved
      BY <1>0, <2>3, OpenArchivesAssumption DEF Current, Reserved, Budget, Amounts
    <3>2. /\ \A q \in Requests : reserved'[q] = IF q = r THEN None ELSE reserved[q]
          /\ reserved' \in [Requests -> Nat \cup {None}]
          /\ Reserved' = Reserved \ {r}
      BY <2>3 DEF Budget, Amounts, Reserved
    <3>3. /\ counts["sequence"] \in Nat /\ counts["inflight"] \in Nat
          /\ counts["lease"] \in Nat
      BY DEF Budget, Amounts, Counters
    <3>4. kept \in Session /\ kept # None /\ ~kept.sticky /\ ~Pinned(kept)
      <4>1. kept \in Session
        BY <2>3, <3>3 DEF Session
      <4>2. kept.sticky = FALSE /\ kept.uses = 0
        BY <2>3
      <4>3. ~Pinned(kept)
        BY <4>2 DEF Pinned
      <4> QED
        BY <4>1, <4>2, <4>3, OpenArchivesAssumption
    <3>5. /\ \A q \in Requests : sessions'[q] = IF q = r THEN kept ELSE sessions[q]
          /\ sessions' \in [Requests -> Session \cup {None}]
      BY <2>3, <3>4 DEF Budget, Amounts
    <3>6. /\ Previews' = Previews \cup {r} /\ r \notin Previews
          /\ Fleeting' = Fleeting \cup {r} /\ r \notin Fleeting
      BY <2>1, <3>4, <3>5 DEF Previews, Fleeting
    <3>7. Retained(sessions)' = Retained(sessions)
      BY <2>1, <3>4, <3>5 DEF Retained
    <3>8. /\ IsFiniteSet(Previews) /\ IsFiniteSet(Fleeting) /\ IsFiniteSet(leased)
      BY FS_Subset DEF Budget, Amounts, Previews, Fleeting
    <3>9. /\ IsFiniteSet(Previews')
          /\ Cardinality(Previews') = Cardinality(Previews) + 1
          /\ Cardinality(Fleeting') = Cardinality(Fleeting) + 1
      BY <3>6, <3>8, FS_AddElement
    <3>10. /\ Limits' /\ IsFiniteSet(Reserved')
           /\ Cardinality(Reserved') = Cardinality(Reserved) - 1
      BY <2>1, <3>1, <3>2, <3>7, <3>8, <3>9, BudgetTakesPlace
    <3>11. ASSUME NEW q \in Requests PROVE Room(q)'
      <4>1. Room(q) /\ pc'[q] = IF q = r THEN "again" ELSE pc[q]
        BY <2>3 DEF Budget, Typed
      <4> QED
        BY <2>1, <3>2, <3>5, <4>1 DEF Room
    <3>12. /\ counts["inflight"] - 1 \in Nat /\ counts["sequence"] + 1 \in Nat
           /\ counts["inflight"] - 1 = Cardinality(Reserved')
      BY <3>3, <3>10, FS_CardinalityType DEF Budget, Amounts
    <3>13. Amounts'
      <4>1. /\ counts' \in [Counters -> Nat]
            /\ counts'["inflight"] = counts["inflight"] - 1
            /\ counts'["lease"] = counts["lease"]
        BY <2>3, <3>3, <3>12 DEF Budget, Amounts, Counters
      <4> QED
        BY <2>1, <3>2, <3>5, <3>9, <3>10, <3>12, <4>1 DEF Budget, Amounts
    <3> QED
      BY <3>10, <3>11, <3>13 DEF Budget
  <2> QED
    BY <1>10, <2>2, <2>3 DEF Keep
<1>11. CASE Remember(r)
  <2>1. /\ pc[r] = "remember"
        /\ \E point \in {"again", "drop"} : pc' = [pc EXCEPT ![r] = point]
        /\ UNCHANGED <<leased, reserved, counts, sessions, ownerGen>>
    BY <1>11 DEF Remember
  <2> QED
    BY <2>1, BudgetGo
<1>12. CASE RememberOuter(r)
  BY <1>12, BudgetGo DEF RememberOuter
<1>13. CASE Commit(r)
  <2>1. /\ pc[r] = "commit"
        /\ \E point \in {"set", "drop"} : pc' = [pc EXCEPT ![r] = point]
        /\ UNCHANGED <<leased, reserved, counts, sessions, ownerGen>>
    BY <1>13 DEF Commit
  <2> QED
    BY <2>1, BudgetGo
<1>14. CASE SetPassword(r)
  <2>1. /\ pc[r] = "set"
        /\ \E point \in {"remember", "drop"} : pc' = [pc EXCEPT ![r] = point]
        /\ UNCHANGED <<leased, reserved, counts, sessions, ownerGen>>
    BY <1>14 DEF SetPassword
  <2> QED
    BY <2>1, BudgetGo
<1>15. CASE DropRequest(r)
  <2>1. /\ SettleWith(FALSE, {}, {r}, Unreserved(r)) /\ pc[r] = "drop"
        /\ pc' = [pc EXCEPT ![r] = "finish"]
        /\ reserved' = [reserved EXCEPT ![r] = None]
        /\ UNCHANGED <<sessions, ownerGen>>
    BY <1>15 DEF DropRequest
  <2>2. /\ \A q \in Requests : reserved'[q] = IF q = r THEN None ELSE reserved[q]
        /\ reserved' \in [Requests -> Nat \cup {None}]
        /\ Reserved' = Reserved \ {r}
    BY <2>1 DEF Budget, Amounts, Reserved
  <2>3. ASSUME NEW q \in Requests PROVE Room(q)'
    <3>1. Room(q) /\ pc'[q] = IF q = r THEN "finish" ELSE pc[q]
      BY <2>1 DEF Budget, Typed
    <3> QED
      BY <2>1, <2>2, <3>1 DEF Room
  <2>4. PICK base : base = Unreserved(r)
    OBVIOUS
  <2>5. /\ IsFiniteSet(Reserved')
        /\ Cardinality(Reserved') = IF reserved[r] = None THEN Cardinality(Reserved)
                                    ELSE Cardinality(Reserved) - 1
    <3>1. IsFiniteSet(Reserved) /\ (r \in Reserved <=> reserved[r] # None)
      BY DEF Budget, Amounts, Reserved
    <3> QED
      BY <2>2, <3>1, FS_RemoveElement
  <2>6. /\ base \in [Counters -> Nat] /\ base["lease"] = counts["lease"]
        /\ base["inflight"] = Cardinality(Reserved')
    <3>1. /\ counts \in [Counters -> Nat] /\ Cardinality(Reserved') \in Nat
          /\ counts["inflight"] = Cardinality(Reserved)
      BY <2>5, FS_CardinalityType DEF Budget, Amounts
    <3>2. CASE reserved[r] = None
      BY <2>4, <2>5, <3>1, <3>2 DEF Unreserved
    <3>3. CASE reserved[r] # None
      BY <2>4, <2>5, <3>1, <3>3 DEF Unreserved, Counters
    <3> QED
      BY <3>2, <3>3
  <2> QED
    BY <2>1, <2>2, <2>3, <2>4, <2>6, BudgetSettle
<1>16. CASE Complete(r)
  <2>1. /\ pc[r] = "finish"
        /\ \E point \in {"done"} : pc' = [pc EXCEPT ![r] = point]
        /\ UNCHANGED <<leased, reserved, counts, sessions, ownerGen>>
    BY <1>16 DEF Complete
  <2> QED
    BY <2>1, BudgetGo
<1> QED
  BY <1>1, <1>2, <1>3, <1>4, <1>5, <1>6, <1>7, <1>8, <1>9, <1>10, <1>11,
     <1>12, <1>13, <1>14, <1>15, <1>16 DEF Worker

\* Every command and every step of the main thread keeps the budget.
LEMMA BudgetOther ==
  ASSUME Budget, Typed, Command \/ Main
  PROVE  Budget'
<1> USE DEF Quiet, others, preflight, archives, previews, passwords, attempts,
            From
<1>1. ASSUME UNCHANGED <<leased, pc, reserved, counts, sessions, ownerGen>>
      PROVE  Budget'
  <2>1. \A r \in Requests : Room(r)'
    BY <1>1 DEF Budget, Room
  <2> QED
    BY <1>1, <2>1, BudgetApart
<1>2. ASSUME NEW moved, NEW revoked, SettleWith(moved, revoked, {}, counts),
             UNCHANGED <<pc, reserved, sessions, ownerGen>>
      PROVE  Budget'
  <2>1. \A r \in Requests : Room(r)'
    BY <1>2 DEF Budget, Room
  <2>2. Reserved' = Reserved
    BY <1>2 DEF Reserved
  <2>3. /\ counts \in [Counters -> Nat] /\ counts["lease"] = counts["lease"]
        /\ counts["inflight"] = Cardinality(Reserved')
        /\ reserved' \in [Requests -> Nat \cup {None}]
    BY <1>2, <2>2 DEF Budget, Amounts
  <2> QED
    BY <1>2, <2>1, <2>2, <2>3, BudgetSettle
<1>3. ASSUME NEW s \in Requests, NEW now \in Session \cup {None},
             sessions[s] # None, sessions' = [sessions EXCEPT ![s] = now],
             UNCHANGED <<leased, pc, reserved, counts, ownerGen>>,
             now # None /\ sessions[s].sticky => now.sticky,
             \/ now = None \/ (Pinned(now) => Pinned(sessions[s]))
             \/ Cardinality(Retained(sessions)) < MaxExternal
      PROVE  Budget'
  <2>1. /\ \A q \in Requests : sessions'[q] = IF q = s THEN now ELSE sessions[q]
        /\ sessions' \in [Requests -> Session \cup {None}]
    BY <1>3 DEF Budget, Amounts
  <2>2. \A q \in Requests : Room(q)'
    BY <1>3, <2>1 DEF Budget, Room
  <2>3. CASE now = None \/ (Pinned(now) => Pinned(sessions[s]))
    <3>1. Cardinality(Retained(sessions)') <= MaxExternal
      BY <1>3, <2>1, <2>3, RetainedLess DEF Budget
    <3> QED
      BY <1>3, <2>1, <2>2, <3>1, BudgetSessions
  <2>4. CASE /\ now # None /\ Pinned(now)
             /\ Cardinality(Retained(sessions)) < MaxExternal
    <3>1. Retained(sessions)' = Retained(sessions) \cup {s}
      BY <1>3, <2>1, <2>4 DEF Retained, Pinned
    <3>2. IsFiniteSet(Retained(sessions))
      BY FS_Subset DEF Budget, Amounts, Retained, Previews
    <3>3. Cardinality(Retained(sessions)') <= MaxExternal
      <4>1. PICK all : all = Retained(sessions)
        OBVIOUS
      <4>2. IsFiniteSet(all) /\ Cardinality(all) < MaxExternal
        BY <2>4, <3>2, <4>1
      <4>3. /\ Cardinality(all \cup {s}) = IF s \in all THEN Cardinality(all)
                                          ELSE Cardinality(all) + 1
            /\ Cardinality(all) \in Nat
        BY <4>2, FS_AddElement, FS_CardinalityType
      <4>4. Cardinality(all \cup {s}) <= MaxExternal
        BY <4>2, <4>3, OpenArchivesAssumption
      <4> QED
        BY <3>1, <4>1, <4>4
    <3> QED
      BY <1>3, <2>1, <2>2, <3>3, BudgetSessions
  <2> QED
    BY <1>3, <2>3, <2>4
<1>4. ASSUME NEW r \in Requests, Cancel(r) \/ Use(r)
      PROVE  Budget'
  BY <1>1, <1>4 DEF Cancel, Use
<1>5. ASSUME NEW r \in Requests, Close(r)
      PROVE  Budget'
  BY <1>2, <1>5 DEF Close, Settle
<1>6. ASSUME NEW s \in Requests, sessions[s] # None
      PROVE  /\ sessions[s] \in Session
             /\ sessions[s].uses \in Nat /\ sessions[s].sticky \in BOOLEAN
  BY <1>6 DEF Budget, Amounts, Session
<1>7. ASSUME NEW s \in Requests, BeginExternalUse(s)
      PROVE  Budget'
  <2>1. PICK old : old = sessions[s]
    OBVIOUS
  <2>2. PICK now : now = [old EXCEPT !.uses = @ + 1]
    OBVIOUS
  <2>3. /\ sessions[s] # None /\ sessions' = [sessions EXCEPT ![s] = now]
        /\ UNCHANGED <<leased, pc, reserved, counts, ownerGen>>
        /\ Pinned(sessions[s]) \/ Cardinality(Retained(sessions)) < MaxExternal
    BY <1>7, <2>1, <2>2 DEF BeginExternalUse, Sessions, Becomes
  <2>4. now \in Session /\ now.sticky = old.sticky
    BY <1>6, <2>1, <2>2, <2>3 DEF Session
  <2> QED
    BY <1>3, <2>1, <2>3, <2>4
<1>8. ASSUME NEW s \in Requests, EndExternalUse(s)
      PROVE  Budget'
  <2>1. PICK old : old = sessions[s]
    OBVIOUS
  <2>2. PICK succeeded \in BOOLEAN :
          Becomes(s, Left([sessions[s] EXCEPT !.uses = @ - 1,
                                              !.sticky = @ \/ succeeded]))
    BY <1>8 DEF EndExternalUse
  <2>3. PICK next : next = [old EXCEPT !.uses = @ - 1, !.sticky = @ \/ succeeded]
    OBVIOUS
  <2>4. PICK now : now = Left(next)
    OBVIOUS
  <2>5. /\ sessions[s] # None /\ sessions' = [sessions EXCEPT ![s] = now]
        /\ UNCHANGED <<leased, pc, reserved, counts, ownerGen>>
        /\ sessions[s].uses > 0
    BY <1>8, <2>1, <2>2, <2>3, <2>4 DEF EndExternalUse, Sessions, Becomes
  <2>6. /\ old \in Session /\ old.uses - 1 \in Nat
        /\ (old.sticky \/ succeeded) \in BOOLEAN
    BY <1>6, <2>1, <2>5
  <2>7. next \in Session
    BY <2>3, <2>6 DEF Session
  <2>8. old.sticky => next.sticky
    BY <2>3, <2>6 DEF Session
  <2>9. now = None \/ now = next
    BY <2>4 DEF Left
  <2>10. Pinned(sessions[s])
    BY <2>5 DEF Pinned
  <2> QED
    BY <1>3, <2>1, <2>5, <2>7, <2>8, <2>9, <2>10
<1>9. ASSUME NEW old, old \in Session
      PROVE  \E now : /\ now = Left([old EXCEPT !.release = TRUE])
                      /\ now \in Session \cup {None}
                      /\ now # None => now.sticky = old.sticky /\ now.uses = old.uses
                      /\ now # None => now.release /\ Pinned(now)
  <2>1. PICK next : next = [old EXCEPT !.release = TRUE]
    OBVIOUS
  <2>2. next \in Session
    BY <1>9, <2>1 DEF Session
  <2>3. next.sticky = old.sticky /\ next.uses = old.uses
    BY <1>9, <2>1 DEF Session
  <2>4. next.release = TRUE
    BY <1>9, <2>1 DEF Session
  <2>5. Left(next) = IF ~Pinned(next) THEN None ELSE next
    BY <2>4 DEF Left
  <2> QED
    BY <2>1, <2>2, <2>3, <2>4, <2>5
<1>10. ASSUME NEW s \in Requests, Release(s)
      PROVE  Budget'
  <2>1. PICK old : old = sessions[s]
    OBVIOUS
  <2>2. old \in Session /\ old # None
    BY <1>6, <1>10, <2>1 DEF Release, Sessions
  <2>3. PICK now : /\ now = Left([old EXCEPT !.release = TRUE])
                   /\ now \in Session \cup {None}
                   /\ now # None => now.sticky = old.sticky /\ now.uses = old.uses
                   /\ now # None => now.release /\ Pinned(now)
    BY <1>9, <2>2
  <2>4. /\ sessions' = [sessions EXCEPT ![s] = now]
        /\ UNCHANGED <<leased, pc, reserved, counts, ownerGen>>
    BY <1>10, <2>1, <2>3 DEF Release, Sessions, Becomes
  <2>5. \/ now = None
        \/ Pinned(now) => Pinned(sessions[s])
    BY <2>1, <2>3 DEF Pinned
  <2> QED
    BY <1>3, <2>1, <2>2, <2>3, <2>4, <2>5
<1>11. CASE EndUse
  BY <1>2, <1>11 DEF EndUse, Settle
<1>12. CASE Forget
  BY <1>1, <1>12 DEF Forget
<1>13. ASSUME NEW w \in Windows, Destroyed(w)
      PROVE  Budget'
  BY <1>1, <1>13 DEF Destroyed
<1>14. CASE ReleaseArchives
  <2>1. PICK revoked : SettleWith(TRUE, revoked, {}, counts)
    BY <1>14 DEF ReleaseArchives
  <2> QED
    BY <1>2, <1>14, <2>1 DEF ReleaseArchives
<1>15. CASE ReleasePreviews
  <2>1. /\ ownerGen' = [ownerGen EXCEPT ![main.window] = @ + 1]
        /\ UNCHANGED <<leased, pc, reserved, counts>>
        /\ sessions' = [s \in Requests |->
             IF sessions[s] # None /\ Owner(s) = main.window
               THEN Left([sessions[s] EXCEPT !.release = TRUE]) ELSE sessions[s]]
    BY <1>15 DEF ReleasePreviews
  <2>2. ASSUME NEW s \in Requests
        PROVE  /\ sessions'[s] \in Session \cup {None}
               /\ sessions'[s] # None =>
                    /\ sessions[s] # None
                    /\ sessions'[s].sticky = sessions[s].sticky
                    /\ sessions'[s].uses = sessions[s].uses
    <3>1. CASE sessions[s] # None /\ Owner(s) = main.window
      <4>1. PICK old : old = sessions[s]
        OBVIOUS
      <4>2. old \in Session
        BY <1>6, <3>1, <4>1
      <4>3. PICK now : /\ now = Left([old EXCEPT !.release = TRUE])
                       /\ now \in Session \cup {None}
                       /\ now # None =>
                            now.sticky = old.sticky /\ now.uses = old.uses
        BY <1>9, <4>2
      <4>4. sessions'[s] = now
        BY <2>1, <3>1, <4>1, <4>3
      <4> QED
        BY <3>1, <4>1, <4>3, <4>4
    <3>2. CASE ~(sessions[s] # None /\ Owner(s) = main.window)
      BY <2>1, <3>2 DEF Budget, Amounts
    <3> QED
      BY <3>1, <3>2
  <2>3. ownerGen' \in [Windows -> Nat]
    <3>1. ownerGen \in [Windows -> Nat]
      BY DEF Budget, Amounts
    <3>2. \A n \in Nat : n + 1 \in Nat
      OBVIOUS
    <3>3. CASE main.window \in Windows
      BY <2>1, <3>1, <3>2, <3>3
    <3>4. CASE main.window \notin Windows
      BY <2>1, <3>1, <3>4
    <3> QED
      BY <3>3, <3>4
  <2>4. sessions' \in [Requests -> Session \cup {None}]
    BY <2>1, <2>2
  <2>5. Cardinality(Retained(sessions)') <= MaxExternal
    BY <2>2, RetainedLess DEF Budget, Pinned
  <2>6. \A q \in Requests : Room(q)'
    BY <2>1, <2>2 DEF Budget, Room
  <2>7. /\ Reserved' = Reserved /\ Previews' \subseteq Previews
        /\ Fleeting' \subseteq Fleeting
    BY <2>1, <2>2 DEF Reserved, Previews, Fleeting
  <2>8. IsFiniteSet(Previews')
    BY <2>7, FS_Subset DEF Budget, Amounts
  <2>9. Amounts'
    BY <2>1, <2>3, <2>4, <2>7, <2>8 DEF Budget, Amounts
  <2>10. Limits'
    BY <2>1, <2>5, <2>7, LimitsLess DEF Budget
  <2> QED
    BY <2>6, <2>9, <2>10 DEF Budget
<1>16. CASE ClosePreviews \/ CancelAll \/ BeginShutdown
  BY <1>1, <1>16 DEF ClosePreviews, CancelAll, BeginShutdown
<1>17. CASE Shutdown
  BY <1>2, <1>17 DEF Shutdown, Settle
<1>18. CASE Cleanup
  <2>1. /\ sessions' = [s \in Requests |-> None]
        /\ UNCHANGED <<leased, pc, reserved, counts, ownerGen>>
    BY <1>18 DEF Cleanup
  <2>2. Cardinality(Retained(sessions)') <= MaxExternal
    BY <2>1, RetainedLess DEF Budget
  <2>3. \A q \in Requests : Room(q)'
    BY <2>1 DEF Budget, Room
  <2> QED
    BY <2>1, <2>2, <2>3, BudgetSessions
<1> QED
  BY <1>4, <1>5, <1>7, <1>8, <1>10, <1>11, <1>12, <1>13, <1>14, <1>15, <1>16,
     <1>17, <1>18 DEF Command, Main

\* The budget is inductive.
LEMMA BudgetStep ==
  Typed /\ Handles /\ Leases /\ Budget /\ [Next]_vars => Budget'
<1> SUFFICES ASSUME Typed, Handles, Leases, Budget, [Next]_vars
             PROVE  Budget'
  OBVIOUS
<1>1. CASE UNCHANGED vars
  <2>1. \A r \in Requests : Room(r)'
    BY <1>1 DEF vars, previews, Budget, Room
  <2> QED
    BY <1>1, <2>1, BudgetApart DEF vars, previews, passwords
<1> QED
  BY <1>1, BudgetWorker, BudgetOther DEF Next

\* It holds together with the forms.
LEMMA BudgetInvariant ==
  Spec => [](Typed /\ Handles /\ Leases /\ Forgetful /\ Budget)
<1>1. Init => Typed /\ Handles /\ Leases /\ Forgetful /\ Budget
  BY TypedInit, HandlesInit, LeasesInit, ForgetfulInit, BudgetInit
<1>2. /\ Typed /\ Handles /\ Leases /\ Forgetful /\ Budget
      /\ [Next]_vars
      => (Typed /\ Handles /\ Leases /\ Forgetful /\ Budget)'
  BY TypedStep, HandlesStep, LeasesStep, ForgetfulStep, BudgetStep
<1> QED
  BY <1>1, <1>2, PTL DEF Spec

\* Every variable has the form the code gives it; in particular a request is in
\* flight exactly from its begin to its end, and no counter goes below zero.
\* [create_preflight.rs begin_request, complete; preview_sessions.rs drops]
THEOREM TypeCorrect == Spec => []TypeOK
<1>1. Typed /\ Handles /\ Leases /\ Forgetful /\ Budget => TypeOK
  <2> SUFFICES ASSUME Typed, Handles, Leases, Forgetful, Budget PROVE TypeOK
    OBVIOUS
  <2>1. ASSUME NEW c \in cached PROVE c \in [path : Paths, by : Requests]
    <3>1. c.path = Disk \/ c.path \in leased
      BY DEF Forgetful, Cached
    <3> QED
      BY <3>1 DEF Typed, Paths
  <2> QED
    BY <2>1 DEF TypeOK, Typed, Budget, Amounts, Counters, Attempt
<1> QED
  BY <1>1, BudgetInvariant, PTL

\* The budget of previews is that of what there is, and it is kept, whatever
\* requests, closures and exits come in whatever order.
\* [preview_sessions.rs reserve, into_session, into_lease and their drops]
THEOREM BudgetIsKept == Spec => []BudgetHolds
<1>1. Typed /\ Leases /\ Budget => BudgetHolds
  <2> SUFFICES ASSUME Typed, Leases, Budget PROVE BudgetHolds
    OBVIOUS
  <2>1. /\ counts["inflight"] = Cardinality({r \in Requests : reserved[r] # None})
        /\ counts["lease"] = Cardinality(leased)
    BY DEF Budget, Amounts, Reserved
  <2>2. \A t \in Requests : Held(t) => t \in leased
    BY DEF Leases
  <2>3. ActiveCount(sessions) <= MaxActive /\ Bytes(sessions) <= MaxBytes
    BY <2>1 DEF Budget, Limits, ActiveCount, Bytes, Fleeting, Previews, Reserved
  <2>4. Cardinality(Retained(sessions)) <= MaxExternal
    BY DEF Budget, Limits
  <2> QED
    BY <2>1, <2>2, <2>3, <2>4 DEF BudgetHolds
<1> QED
  BY <1>1, BudgetInvariant, PTL

-----------------------------------------------------------------------------
(***************************************************************************)
(* The release of a window, and the exit.  A request that was under way    *)
(* when its window was destroyed is cancelled, so it can neither publish   *)
(* an archive nor keep a preview; the exit waits until none is under way.  *)
(***************************************************************************)
Cancellable == {"resolve", "reserve", "outer", "read", "inner", "list",
                "publish", "keep", "commit"}

Token(r) == /\ pc[r] \in Cancellable => r \in active \/ r \in cancelled
            /\ Owner(r) \in released => r \notin active

Parted == /\ \A r \in Requests : Token(r)
          /\ gone \subseteq released
          /\ main.at = "archives" => main.window \in released

\* No request is under way at the start.
LEMMA PartedInit == Init => Parted
BY DEF Init, Parted, Token, Cancellable

\* A step that moves no request, ends no token and releases no window.
LEMMA PartedApart ==
  ASSUME Parted, UNCHANGED <<work, pc, active, released, gone>>,
         cancelled \subseteq cancelled', main'.at = "archives" => main' = main
  PROVE  Parted'
BY DEF Parted, Token, Owner

\* A request goes on with its token, or to where it needs none.
LEMMA PartedGo ==
  ASSUME Parted, Typed, UNCHANGED <<work, active, cancelled, released, gone, main>>,
         NEW r \in Requests, NEW point, pc' = [pc EXCEPT ![r] = point],
         point \in Cancellable => pc[r] \in Cancellable
  PROVE  Parted'
<1>1. ASSUME NEW q \in Requests PROVE Token(q)'
  <2>1. Token(q) /\ Token(r) /\ pc'[q] = IF q = r THEN point ELSE pc[q]
    BY DEF Parted, Typed
  <2> QED
    BY <2>1 DEF Token, Owner
<1> QED
  BY <1>1 DEF Parted

\* Every step keeps the tokens.  [create_preflight.rs begin_request,
\* release_owner, cancel_all]
LEMMA PartedStep == Typed /\ Parted /\ [Next]_vars => Parted'
<1> SUFFICES ASSUME Typed, Parted, [Next]_vars PROVE Parted'
  OBVIOUS
<1> USE DEF At, Goto, Quiet, From, others, preflight, archives
<1>1. ASSUME NEW r \in Requests, Begin(r)
      PROVE  Parted'
  <2>1. /\ UNCHANGED <<work, released, gone, main>> /\ cancelled \subseteq cancelled'
        /\ \/ pc' = [pc EXCEPT ![r] = "done"] /\ UNCHANGED active
           \/ /\ Owner(r) \notin released /\ active' = active \cup {r}
              /\ \A q \in Requests : q # r => pc'[q] = pc[q]
    BY <1>1 DEF Begin, Typed
  <2>2. ASSUME NEW q \in Requests PROVE Token(q)'
    <3>1. Token(q) /\ (q # r => pc'[q] = pc[q])
      BY <2>1 DEF Parted, Typed
    <3>2. q = r => pc'[r] = "done" \/ r \in active'
      BY <2>1 DEF Typed
    <3> QED
      BY <2>1, <3>1, <3>2 DEF Token, Owner, Cancellable
  <2> QED
    BY <2>1, <2>2 DEF Parted
<1>2. ASSUME NEW r \in Requests, Fail(r) \/ RememberOuter(r) \/ DropRequest(r)
      PROVE  Parted'
  BY <1>2, PartedGo DEF Fail, RememberOuter, DropRequest, Cancellable
<1>3. ASSUME NEW r \in Requests, Remember(r)
      PROVE  Parted'
  <2>1. /\ \E point \in {"again", "drop"} : pc' = [pc EXCEPT ![r] = point]
        /\ UNCHANGED <<work, active, cancelled, released, gone, main>>
    BY <1>3 DEF Remember
  <2> QED
    BY <2>1, PartedGo DEF Cancellable
<1>4. ASSUME NEW r \in Requests,
             Resolve(r) \/ Read(r) \/ TryOuter(r) \/ TryInner(r)
      PROVE  Parted'
  <2>1. /\ pc[r] \in Cancellable
        /\ \E point \in Points : pc' = [pc EXCEPT ![r] = point]
        /\ UNCHANGED <<work, active, cancelled, released, gone, main>>
    BY <1>4 DEF Resolve, Read, TryOuter, TryInner, Cancellable, Points, Unborn,
       Unlisted, Late
  <2> QED
    BY <2>1, PartedGo
<1>5. ASSUME NEW r \in Requests, Reserve(r) \/ List(r)
      PROVE  Parted'
  <2>1. /\ pc[r] \in Cancellable
        /\ \E point \in {"drop", "outer", "commit", "publish"} :
             pc' = [pc EXCEPT ![r] = point]
        /\ UNCHANGED <<work, active, cancelled, released, gone, main>>
    BY <1>5 DEF Reserve, List, Cancellable
  <2> QED
    BY <2>1, PartedGo
<1>6. ASSUME NEW r \in Requests, Publish(r) \/ Keep(r)
      PROVE  Parted'
  <2>1. /\ \E point \in {"drop", "again", "remember"} :
             pc' = [pc EXCEPT ![r] = point]
        /\ UNCHANGED <<work, active, cancelled, released, gone, main>>
    BY <1>6 DEF Publish, Keep
  <2> QED
    BY <2>1, PartedGo DEF Cancellable
<1>7. ASSUME NEW r \in Requests, SetPassword(r)
      PROVE  Parted'
  <2>1. /\ \E point \in {"drop", "remember"} : pc' = [pc EXCEPT ![r] = point]
        /\ UNCHANGED <<work, active, cancelled, released, gone, main>>
    BY <1>7 DEF SetPassword
  <2> QED
    BY <2>1, PartedGo DEF Cancellable
<1>8. ASSUME NEW r \in Requests, Commit(r) \/ Complete(r)
      PROVE  Parted'
  <2>1. /\ \E point \in {"drop", "set", "done"} : pc' = [pc EXCEPT ![r] = point]
        /\ active' \subseteq active /\ active \subseteq active' \cup {r}
        /\ cancelled \subseteq cancelled' \cup {r}
        /\ UNCHANGED <<work, released, gone, main>>
    BY <1>8 DEF Commit, Complete
  <2>2. ASSUME NEW q \in Requests PROVE Token(q)'
    <3>1. Token(q) /\ (q # r => pc'[q] = pc[q]) /\ pc'[r] \in {"drop", "set", "done"}
      BY <2>1 DEF Parted, Typed
    <3> QED
      BY <2>1, <3>1 DEF Token, Owner, Cancellable
  <2> QED
    BY <2>1, <2>2 DEF Parted
<1>9. ASSUME NEW r \in Requests, Cancel(r) \/ Close(r) \/ Use(r)
      PROVE  Parted'
  BY <1>9, PartedApart DEF Cancel, Close, Use
<1>10. ASSUME NEW r \in Requests,
              BeginExternalUse(r) \/ EndExternalUse(r) \/ Release(r)
       PROVE  Parted'
  BY <1>10, PartedApart DEF BeginExternalUse, EndExternalUse, Release, Sessions
<1>11. CASE EndUse \/ Forget \/ UNCHANGED vars
  BY <1>11, PartedApart DEF EndUse, Forget, vars
<1>12. ASSUME NEW w \in Windows, Destroyed(w)
       PROVE  Parted'
  <2>1. /\ UNCHANGED <<work, pc, gone>> /\ released' = released \cup {w}
        /\ main' = [at |-> "archives", window |-> w]
        /\ \A q \in Requests : q \in active => q \in active' \/ q \in cancelled'
        /\ \A q \in Requests : Owner(q) = w => q \notin active'
        /\ active' \subseteq active /\ cancelled \subseteq cancelled'
    BY <1>12 DEF Destroyed
  <2> QED
    BY <2>1 DEF Parted, Token, Owner
<1>13. CASE ReleaseArchives
  <2>1. /\ UNCHANGED <<work, pc, active, cancelled, released>>
        /\ main.at = "archives" /\ main'.at = "previews"
        /\ gone' = gone \cup {main.window}
    BY <1>13 DEF ReleaseArchives, Typed
  <2> QED
    BY <2>1 DEF Parted, Token, Owner
<1>14. CASE CancelAll
  <2>1. /\ UNCHANGED <<work, pc, gone, released>> /\ main'.at = "begin"
        /\ active' = {} /\ cancelled' = cancelled \cup active
    BY <1>14 DEF CancelAll, Typed
  <2> QED
    BY <2>1 DEF Parted, Token, Owner
<1>15. CASE ReleasePreviews \/ ClosePreviews \/ BeginShutdown \/ Shutdown \/ Cleanup
  <2>1. /\ UNCHANGED <<work, pc, gone, released, active, cancelled>>
        /\ main'.at \in {"run", "cancel", "cleanup", "exited"}
    BY <1>15 DEF ReleasePreviews, ClosePreviews, BeginShutdown, Shutdown, Cleanup,
       Typed
  <2> QED
    BY <2>1 DEF Parted, Token, Owner
<1> QED
  BY <1>1, <1>2, <1>3, <1>4, <1>5, <1>6, <1>7, <1>8, <1>9, <1>10, <1>11, <1>12,
     <1>13, <1>14, <1>15 DEF Next, Worker, Command, Main

\* What is left of a window that was released: no archive, and of its previews
\* those another program uses, which go when it does not any more.
Rest(r) == /\ r \in registry => Owner(r) \notin gone
           /\ Released(Owner(r)) /\ sessions[r] # None =>
                Pinned(sessions[r]) /\ sessions[r].release

Resting == \A r \in Requests : Rest(r)

\* Nothing is released at the start.
LEMMA RestingInit == Init => Resting
BY DEF Init, Resting, Rest, Released

\* A step that publishes nothing, keeps nothing and releases no window.
LEMMA RestingApart ==
  ASSUME Resting, UNCHANGED <<work, gone>>, registry' \subseteq registry,
         main' = main \/ main.at # "previews",
         \A r \in Requests : sessions'[r] \in {sessions[r], None}
  PROVE  Resting'
<1>1. ASSUME NEW w, Released(w)' PROVE Released(w)
  BY <1>1 DEF Released
<1>2. ASSUME NEW r \in Requests PROVE Rest(r)'
  <2>1. Rest(r) /\ (Released(Owner(r))' => Released(Owner(r)))
    BY <1>1 DEF Resting, Owner
  <2> QED
    BY <2>1 DEF Rest, Owner
<1> QED
  BY <1>2 DEF Resting

\* One preview changes, and is left as it should be.
LEMMA RestingOne ==
  ASSUME Resting, UNCHANGED <<work, gone, registry, main>>,
         NEW s \in Requests, sessions \in [Requests -> Session \cup {None}],
         NEW now, sessions' = [sessions EXCEPT ![s] = now],
         Released(Owner(s)) => now = None \/ (Pinned(now) /\ now.release)
  PROVE  Resting'
<1>1. ASSUME NEW r \in Requests PROVE Rest(r)'
  <2>1. Rest(r) /\ (Released(Owner(r))' <=> Released(Owner(r)))
    BY DEF Resting, Owner, Released
  <2>2. sessions'[r] = IF r = s THEN now ELSE sessions[r]
    OBVIOUS
  <2> QED
    BY <2>1, <2>2 DEF Rest, Owner
<1> QED
  BY <1>1 DEF Resting

\* Every step keeps it.  [state.rs release_window; preview_sessions.rs
\* into_session, release_owner, end_external_use]
LEMMA RestingStep ==
  Typed /\ Budget /\ Parted /\ Resting /\ [Next]_vars => Resting'
<1> SUFFICES ASSUME Typed, Budget, Parted, Resting, [Next]_vars PROVE Resting'
  OBVIOUS
<1> USE DEF At, Goto, Quiet, From, others, preflight, archives, previews
<1>1. ASSUME NEW r \in Requests, Begin(r) \/ Fail(r) \/ Resolve(r) \/ TryOuter(r)
      PROVE  Resting'
  BY <1>1, RestingApart DEF Begin, Fail, Resolve, TryOuter
<1>2. ASSUME NEW r \in Requests, Read(r) \/ TryInner(r) \/ List(r)
      PROVE  Resting'
  BY <1>2, RestingApart DEF Read, TryInner, List
<1>3. ASSUME NEW r \in Requests,
             Remember(r) \/ RememberOuter(r) \/ Commit(r) \/ SetPassword(r)
      PROVE  Resting'
  BY <1>3, RestingApart DEF Remember, RememberOuter, Commit, SetPassword
<1>4. ASSUME NEW r \in Requests, DropRequest(r) \/ Complete(r)
      PROVE  Resting'
  BY <1>4, RestingApart DEF DropRequest, Complete
<1>5. ASSUME NEW r \in Requests, Reserve(r)
      PROVE  Resting'
  <2>1. /\ UNCHANGED <<work, gone, registry, main>>
        /\ \/ sessions' = sessions
           \/ \E k \in 0 .. Cardinality(Requests) : sessions' = Evicted(k)
    BY <1>5 DEF Reserve
  <2>2. \A q \in Requests : sessions'[q] \in {sessions[q], None}
    BY <2>1 DEF Evicted
  <2> QED
    BY <2>1, <2>2, RestingApart
<1>6. ASSUME NEW r \in Requests, Publish(r)
      PROVE  Resting'
  <2>1. /\ UNCHANGED <<work, gone, main, sessions>>
        /\ \/ registry' = registry
           \/ registry' = registry \cup {r} /\ Owner(r) \notin gone
    BY <1>6 DEF Publish, Alive
  <2> QED
    BY <2>1 DEF Resting, Rest, Owner, Released
<1>7. ASSUME NEW r \in Requests, Keep(r)
      PROVE  Resting'
  <2>1. UNCHANGED <<work, gone, registry, main>> /\ pc[r] = "keep"
    BY <1>7 DEF Keep
  <2>2. CASE sessions' = sessions
    BY <2>1, <2>2, RestingApart
  <2>3. CASE /\ Goes(r)
             /\ \E kept : sessions' = [sessions EXCEPT ![r] = kept]
    <3>1. Owner(r) \notin released
      BY <2>1, <2>3 DEF Parted, Token, Goes, Cancellable
    <3>2. ~Released(Owner(r))
      BY <3>1 DEF Parted, Released
    <3> QED
      BY <2>1, <2>3, <3>2, RestingOne DEF Budget, Amounts
  <2> QED
    BY <1>7, <2>2, <2>3 DEF Keep
<1>8. ASSUME NEW r \in Requests, Cancel(r) \/ Close(r) \/ Use(r)
      PROVE  Resting'
  BY <1>8, RestingApart DEF Cancel, Close, Use
<1>9. ASSUME NEW s \in Requests, sessions[s] # None
      PROVE  /\ sessions[s] \in Session
             /\ sessions[s].uses \in Nat /\ sessions[s].sticky \in BOOLEAN
             /\ Rest(s)
  BY <1>9 DEF Budget, Amounts, Session, Resting
<1>10. ASSUME NEW s \in Requests, BeginExternalUse(s)
       PROVE  Resting'
  <2>1. PICK old : old = sessions[s]
    OBVIOUS
  <2>2. PICK now : now = [old EXCEPT !.uses = @ + 1]
    OBVIOUS
  <2>3. /\ sessions[s] # None /\ sessions' = [sessions EXCEPT ![s] = now]
        /\ UNCHANGED <<work, gone, registry, main>>
    BY <1>10, <2>1, <2>2 DEF BeginExternalUse, Sessions, Becomes
  <2>4. now.release = old.release /\ now.uses > 0
    BY <1>9, <2>1, <2>2, <2>3 DEF Session
  <2>5. Released(Owner(s)) => Pinned(now) /\ now.release
    BY <1>9, <2>1, <2>3, <2>4 DEF Rest, Pinned
  <2> QED
    BY <2>3, <2>5, RestingOne DEF Budget, Amounts
<1>11. ASSUME NEW s \in Requests, EndExternalUse(s)
       PROVE  Resting'
  <2>1. PICK old : old = sessions[s]
    OBVIOUS
  <2>2. PICK succeeded \in BOOLEAN :
          Becomes(s, Left([sessions[s] EXCEPT !.uses = @ - 1,
                                              !.sticky = @ \/ succeeded]))
    BY <1>11 DEF EndExternalUse
  <2>3. PICK next : next = [old EXCEPT !.uses = @ - 1, !.sticky = @ \/ succeeded]
    OBVIOUS
  <2>4. PICK now : now = Left(next)
    OBVIOUS
  <2>5. /\ sessions[s] # None /\ sessions' = [sessions EXCEPT ![s] = now]
        /\ UNCHANGED <<work, gone, registry, main>>
    BY <1>11, <2>1, <2>2, <2>3, <2>4 DEF EndExternalUse, Sessions, Becomes
  <2>6. next.release = old.release
    BY <1>9, <2>1, <2>3, <2>5 DEF Session
  <2>7. old.release => now = None \/ (Pinned(now) /\ now.release)
    BY <2>4, <2>6 DEF Left
  <2>8. Released(Owner(s)) => now = None \/ (Pinned(now) /\ now.release)
    BY <1>9, <2>1, <2>5, <2>7 DEF Rest
  <2> QED
    BY <2>5, <2>8, RestingOne DEF Budget, Amounts
<1>12. ASSUME NEW s \in Requests, Release(s)
       PROVE  Resting'
  <2>1. /\ UNCHANGED <<work, gone, registry, main>> /\ ~Released(Owner(s))
        /\ \E now : sessions' = [sessions EXCEPT ![s] = now]
    BY <1>12 DEF Release, Sessions, Becomes, Released
  <2> QED
    BY <2>1, RestingOne DEF Budget, Amounts
<1>13. CASE EndUse \/ Forget \/ UNCHANGED vars
  BY <1>13, RestingApart DEF EndUse, Forget, vars
<1>14. ASSUME NEW w \in Windows, Destroyed(w)
       PROVE  Resting'
  BY <1>14, RestingApart DEF Destroyed
<1>15. CASE ReleaseArchives
  <2>1. PICK w : w = main.window
    OBVIOUS
  <2>2. /\ UNCHANGED <<work, sessions>> /\ gone' = gone \cup {w}
        /\ registry' = registry \ {r \in Requests : Owner(r) = w}
        /\ main.at = "archives" /\ main'.at = "previews" /\ main'.window = w
    BY <1>15, <2>1 DEF ReleaseArchives, Typed
  <2>3. ASSUME NEW v, Released(v)' PROVE Released(v)
    BY <2>1, <2>2, <2>3 DEF Released
  <2>4. ASSUME NEW r \in Requests PROVE Rest(r)'
    <3>1. Rest(r) /\ (Released(Owner(r))' => Released(Owner(r)))
      BY <2>2, <2>3 DEF Resting, Owner
    <3> QED
      BY <2>2, <3>1 DEF Rest, Owner
  <2> QED
    BY <2>4 DEF Resting
<1>16. CASE ReleasePreviews
  <2>1. PICK w : w = main.window
    OBVIOUS
  <2>2. /\ UNCHANGED <<work, gone, registry>>
        /\ main.at = "previews" /\ main'.at = "run" /\ main'.window = w
        /\ \A s \in Requests :
             sessions'[s] = IF sessions[s] # None /\ Owner(s) = w
                            THEN Left([sessions[s] EXCEPT !.release = TRUE])
                            ELSE sessions[s]
    BY <1>16, <2>1 DEF ReleasePreviews, Typed
  <2>3. ASSUME NEW v, v # w PROVE Released(v)' <=> Released(v)
    BY <2>1, <2>2, <2>3 DEF Released
  <2>4. ASSUME NEW r \in Requests PROVE Rest(r)'
    <3>1. Rest(r)
      BY DEF Resting
    <3>2. CASE Owner(r) # w
      BY <2>2, <2>3, <3>1, <3>2 DEF Rest, Owner
    <3>3. CASE Owner(r) = w /\ sessions[r] = None
      BY <2>2, <3>1, <3>3 DEF Rest, Owner
    <3>4. CASE Owner(r) = w /\ sessions[r] # None
      <4>1. PICK old : old = sessions[r] /\ old \in Session
        BY <1>9, <3>4
      <4>2. PICK next : next = [old EXCEPT !.release = TRUE]
        OBVIOUS
      <4>3. next.release = TRUE
        BY <4>1, <4>2 DEF Session
      <4>4. sessions'[r] = Left(next)
        BY <2>2, <3>4, <4>1, <4>2
      <4>5. sessions'[r] = None \/ (Pinned(sessions'[r]) /\ sessions'[r].release)
        BY <4>3, <4>4 DEF Left
      <4> QED
        BY <2>2, <3>1, <4>5 DEF Rest, Owner, Pinned
    <3> QED
      BY <3>2, <3>3, <3>4
  <2> QED
    BY <2>4 DEF Resting
<1>17. CASE ClosePreviews \/ CancelAll \/ BeginShutdown \/ Shutdown \/ Cleanup
  BY <1>17, RestingApart DEF ClosePreviews, CancelAll, BeginShutdown, Shutdown,
     Cleanup
<1> QED
  BY <1>1, <1>2, <1>3, <1>4, <1>5, <1>6, <1>7, <1>8, <1>10, <1>11, <1>12,
     <1>13, <1>14, <1>15, <1>16, <1>17 DEF Next, Worker, Command, Main

\* At the exit nothing begins any more, and when it cleans up nothing runs.
Exiting ==
  /\ asked \/ main.at = "begin" => quitting
  /\ main.at \in {"cleanup", "exited"} =>
       quitting /\ inflight = {} /\ job = None /\ registry = {}
  /\ main.at = "exited" => \A r \in Requests : sessions[r] = None

\* Nobody exits at the start.
LEMMA ExitingInit == Init => Exiting
BY DEF Init, Exiting

\* A step that leaves the main thread alone, starts nothing and ends nothing.
LEMMA ExitingApart ==
  ASSUME Exiting, Running, UNCHANGED <<main, asked, quitting>>,
         main.at = "cleanup" =>
           UNCHANGED <<inflight, registry>> /\ job' \in {job, None}
  PROVE  Exiting'
BY DEF Exiting, Running

\* Every step keeps it.  [lib.rs 172-239]
LEMMA ExitingStep == Typed /\ Exiting /\ [Next]_vars => Exiting'
<1> SUFFICES ASSUME Typed, Exiting, [Next]_vars PROVE Exiting'
  OBVIOUS
<1> USE DEF At, Goto, Quiet, From, others, preflight, archives, previews
<1>0. ASSUME NEW r \in Requests, pc[r] \notin {"idle", "done"}
      PROVE  main.at # "cleanup"
  BY <1>0 DEF Exiting, Typed
<1>1. ASSUME NEW r \in Requests, Begin(r)
      PROVE  Exiting'
  BY <1>1, ExitingApart DEF Begin, Exiting
<1>2. ASSUME NEW r \in Requests,
             \/ Fail(r) \/ Resolve(r) \/ Reserve(r) \/ TryOuter(r) \/ Read(r)
             \/ TryInner(r) \/ List(r) \/ Publish(r)
      PROVE  Exiting'
  <2>1. Running /\ pc[r] \notin {"idle", "done"} /\ UNCHANGED <<main, asked, quitting>>
    BY <1>2 DEF Fail, Resolve, Reserve, TryOuter, Read, TryInner, List, Publish
  <2> QED
    BY <1>0, <2>1, ExitingApart
<1>3. ASSUME NEW r \in Requests,
             \/ Keep(r) \/ Remember(r) \/ RememberOuter(r) \/ Commit(r)
             \/ SetPassword(r) \/ DropRequest(r) \/ Complete(r)
      PROVE  Exiting'
  <2>1. Running /\ pc[r] \notin {"idle", "done"} /\ UNCHANGED <<main, asked, quitting>>
    BY <1>3 DEF Keep, Remember, RememberOuter, Commit, SetPassword, DropRequest,
       Complete
  <2> QED
    BY <1>0, <2>1, ExitingApart
<1>4. ASSUME NEW r \in Requests, Cancel(r) \/ Close(r) \/ Use(r)
      PROVE  Exiting'
  BY <1>4, ExitingApart DEF Cancel, Close, Use, Exiting
<1>5. ASSUME NEW r \in Requests,
             BeginExternalUse(r) \/ EndExternalUse(r) \/ Release(r)
      PROVE  Exiting'
  BY <1>5, ExitingApart DEF BeginExternalUse, EndExternalUse, Release, Sessions
<1>6. CASE EndUse \/ Forget
  BY <1>6, ExitingApart DEF EndUse, Forget
<1>7. ASSUME NEW w \in Windows, Destroyed(w)
      PROVE  Exiting'
  BY <1>7 DEF Destroyed, Exiting
<1>8. CASE ReleaseArchives \/ ReleasePreviews \/ ClosePreviews
  <2>1. /\ main'.at \in {"previews", "run", "cancel"}
        /\ UNCHANGED <<asked, quitting>>
    BY <1>8 DEF ReleaseArchives, ReleasePreviews, ClosePreviews, Typed
  <2> QED
    BY <2>1 DEF Exiting
<1>9. CASE CancelAll
  BY <1>9 DEF CancelAll, Exiting, Typed
<1>10. CASE BeginShutdown
  BY <1>10 DEF BeginShutdown, Exiting, Typed
<1>11. CASE Shutdown
  BY <1>11 DEF Shutdown, Idle, Exiting, Typed
<1>12. CASE Cleanup
  BY <1>12 DEF Cleanup, Exiting, Typed
<1>13. CASE UNCHANGED vars
  BY <1>13 DEF vars, Exiting
<1> QED
  BY <1>1, <1>2, <1>3, <1>4, <1>5, <1>6, <1>7, <1>8, <1>9, <1>10, <1>11, <1>12,
     <1>13 DEF Next, Worker, Command, Main

\* Everything together.
IInv == /\ Typed /\ Handles /\ Leases /\ Budget
        /\ Parted /\ Resting /\ Exiting

\* It holds in every state, whatever windows, requests and threads do.
LEMMA Invariant == Spec => []IInv
<1>1. Init => IInv
  BY TypedInit, HandlesInit, LeasesInit, BudgetInit, PartedInit, RestingInit,
     ExitingInit DEF IInv
<1>2. IInv /\ [Next]_vars => IInv'
  BY TypedStep, HandlesStep, LeasesStep, BudgetStep, PartedStep, RestingStep,
     ExitingStep DEF IInv
<1> QED
  BY <1>1, <1>2, PTL DEF Spec

\* When the release of a window is done, nothing is open for it but what it has
\* handed to another program, however late its requests come through; and when
\* the program exits, no plaintext is left but that of a search.
\* [lib.rs 172-239; state.rs release_window; preview_sessions.rs into_session]
THEOREM NothingStaysOpen == Spec => []NothingOutlives
<1>1. IInv => NothingOutlives
  <2> SUFFICES ASSUME IInv PROVE NothingOutlives
    OBVIOUS
  <2>1. ASSUME NEW r \in Requests, Released(Owner(r))
        PROVE  r \notin registry /\ (sessions[r] # None => Pinned(sessions[r]))
    <3>1. Rest(r) /\ Owner(r) \in gone
      BY <2>1 DEF IInv, Resting, Released
    <3> QED
      BY <2>1, <3>1 DEF Rest
  <2>2. ASSUME main.at = "exited"
        PROVE  /\ registry = {} /\ job = None
               /\ \A r \in Requests : /\ sessions[r] = None /\ reserved[r] = None
                                      /\ pin[r] = None /\ own[r] = None
    <3>1. registry = {} /\ job = None /\ inflight = {}
          /\ \A r \in Requests : sessions[r] = None
      BY <2>2 DEF IInv, Exiting
    <3>2. ASSUME NEW r \in Requests
          PROVE  reserved[r] = None /\ pin[r] = None /\ own[r] = None
      <4>1. pc[r] \in {"idle", "done"} /\ Handle(r) /\ Room(r)
        BY <3>1 DEF IInv, Typed, Handles, Budget
      <4> QED
        BY <4>1 DEF Handle, Room, Unlisted
    <3> QED
      BY <3>1, <3>2
  <2>3. ASSUME main.at = "exited", NEW t \in leased
        PROVE  search # None /\ temp[search] = t
    <3>1. Held(t) /\ t \in Requests
      BY <2>3 DEF IInv, Leases, Typed
    <3> QED
      BY <2>2, <2>3, <3>1, OpenArchivesAssumption DEF Held, Open
  <2> QED
    BY <2>1, <2>2, <2>3 DEF NothingOutlives
<1> QED
  BY <1>1, Invariant, PTL
=============================================================================
