--------------------------- MODULE JobQueueProofs ---------------------------
(***************************************************************************)
(* Theorems about JobQueue, for any number of jobs, workers and callers.   *)
(***************************************************************************)
EXTENDS JobQueue, WellFoundedInduction, FiniteSetTheorems, FunctionTheorems,
        TLAPS

\* What the theorem needs of the types: slots are records, one for each job.
Shape(r) ==
  /\ r = [state |-> r.state, paused |-> r.paused, cancelled |-> r.cancelled,
          interruptible |-> r.interruptible, closure |-> r.closure]
  /\ r.closure \in BOOLEAN

Shaped ==
  /\ slots = [j \in Jobs |-> slots[j]]
  /\ \A j \in Jobs : Shape(slots[j])
  /\ starts \in [Jobs -> Nat]
  /\ submitted \in Nat

\* A closure that is still there has not been run, and nobody cancelled it
\* while it waited; ids that have not been given out have no history.
ClosureUnused ==
  \A j \in Jobs :
    /\ slots[j].closure => starts[j] = 0 /\ j \notin caught
    /\ j > submitted => ~slots[j].closure /\ starts[j] = 0 /\ j \notin caught

IInv == Shaped /\ ClosureUnused /\ CaughtNeverStarts

\* A queue that was just built has no job to be wrong about.  [queue.rs new]
LEMMA Start == Init => IInv
<1> SUFFICES ASSUME Init PROVE IInv
  OBVIOUS
<1> USE DEF Init
<1>1. Shape(NoSlot)
  BY DEF Shape, NoSlot
<1>2. Shaped
  BY <1>1 DEF Shaped
<1>3. \A j \in Jobs : ~slots[j].closure /\ starts[j] = 0 /\ j \notin caught
  BY DEF NoSlot
<1> QED
  BY <1>2, <1>3 DEF IInv, ClosureUnused, CaughtNeverStarts

\* Every critical section keeps the invariant: the closure leaves its slot
\* in claim_job or in request_cancel_many, and never comes back.
LEMMA Step == IInv /\ [Next]_vars => IInv'
<1> SUFFICES ASSUME IInv, [Next]_vars PROVE IInv'
  OBVIOUS
<1> USE ConstantsAssumption
\* Steps that leave slots and histories alone.
<1>1. ASSUME UNCHANGED <<slots, starts, caught, submitted>> PROVE IInv'
  BY <1>1 DEF IInv, Shaped, ClosureUnused, CaughtNeverStarts
<1>2. ASSUME NEW w \in Workers,
             \/ Reserve(w) \/ Sleep(w) \/ Exit(w) \/ Chunk(w)
             \/ ReadCancelled(w) \/ ReadPaused(w) \/ Return(w) \/ Release(w)
      PROVE  IInv'
  BY <1>1, <1>2
  DEF Reserve, Sleep, Exit, Chunk, ReadCancelled, ReadPaused, Return, Release,
      history
<1>3. ASSUME NEW c \in Callers,
             \/ Push(c) \/ Wake(c) \/ NotifyWaiters(c) \/ SetMaxRunning(c)
             \/ MoveBefore(c) \/ MoveStep(c) \/ WaitIdle(c) \/ IdleLook(c)
      PROVE  IInv'
  BY <1>1, <1>3
  DEF Push, Wake, NotifyWaiters, SetMaxRunning, MoveBefore, MoveStep, WaitIdle,
      IdleLook, history
\* Steps that set one field, but the closure, of one slot.
<1>4. ASSUME UNCHANGED <<starts, caught, submitted>>,
             slots' = [j \in Jobs |-> slots'[j]],
             \A j \in Jobs : Shape(slots'[j]) /\ (slots'[j].closure => slots[j].closure)
      PROVE  IInv'
  BY <1>4 DEF IInv, Shaped, ClosureUnused, CaughtNeverStarts
<1>5. ASSUME NEW k, NEW v,
             \/ slots' = [slots EXCEPT ![k].state = v]
             \/ slots' = [slots EXCEPT ![k].paused = v]
             \/ slots' = [slots EXCEPT ![k].interruptible = v],
             UNCHANGED <<starts, caught, submitted>>
      PROVE  IInv'
  <2>1. slots' = [j \in Jobs |-> slots'[j]]
    BY <1>5 DEF IInv, Shaped
  <2>2. ASSUME NEW j \in Jobs
        PROVE  Shape(slots'[j]) /\ slots'[j].closure = slots[j].closure
    <3>1. Shape(slots[j])
      BY DEF IInv, Shaped
    <3>2. \/ slots'[j] = slots[j]
          \/ slots'[j] = [slots[j] EXCEPT !.state = v]
          \/ slots'[j] = [slots[j] EXCEPT !.paused = v]
          \/ slots'[j] = [slots[j] EXCEPT !.interruptible = v]
      BY <1>5 DEF IInv, Shaped
    <3> QED
      BY <3>1, <3>2 DEF Shape
  <2> QED
    BY <1>4, <1>5, <2>1, <2>2
<1>6. ASSUME NEW w \in Workers, Phase(w) \/ Store(w) PROVE IInv'
  BY <1>5, <1>6 DEF Phase, Store, history
<1>7. ASSUME NEW c \in Callers,
             \/ TryPause(c) \/ MarkPaused(c) \/ Resume(c) \/ MarkRunning(c)
      PROVE  IInv'
  BY <1>1, <1>5, <1>7 DEF TryPause, MarkPaused, Resume, MarkRunning, history
<1>8. ASSUME NEW c \in Callers, ForgetTerminal(c) PROVE IInv'
  <2>1. PICK k : slots' = [slots EXCEPT ![k] = NoSlot]
    BY <1>8 DEF ForgetTerminal
  <2>2. slots' = [j \in Jobs |-> slots'[j]]
    BY <2>1 DEF IInv, Shaped
  <2>3. ASSUME NEW j \in Jobs
        PROVE  Shape(slots'[j]) /\ (slots'[j].closure => slots[j].closure)
    <3>1. slots'[j] = slots[j] \/ slots'[j] = NoSlot
      BY <2>1 DEF IInv, Shaped
    <3>2. Shape(slots[j]) /\ Shape(NoSlot) /\ ~NoSlot.closure
      BY DEF IInv, Shaped, Shape, NoSlot
    <3> QED
      BY <3>1, <3>2
  <2> QED
    BY <1>4, <1>8, <2>2, <2>3 DEF ForgetTerminal, history
\* The steps that touch a closure or a history.
<1>9. ASSUME NEW w \in Workers, Claim(w) PROVE IInv'
  <2> DEFINE k == worker[w].job
             s == IF slots[k].paused THEN "Paused" ELSE "Running"
  <2>1. CASE UNCHANGED <<slots, starts>>
    BY <1>1, <1>9, <2>1 DEF Claim
  <2>2. CASE /\ slots[k].closure
             /\ slots' = [slots EXCEPT ![k].state = s, ![k].closure = FALSE]
             /\ starts' = [starts EXCEPT ![k] = @ + 1]
    <3> HIDE DEF k, s
    <3>1. UNCHANGED <<caught, submitted>>
      BY <1>9 DEF Claim
    <3>2. slots' = [j \in Jobs |-> slots'[j]] /\ starts' \in [Jobs -> Nat]
      <4>1. slots' = [[slots EXCEPT ![k].state = s] EXCEPT ![k].closure = FALSE]
        BY <2>2
      <4>2. slots' = [j \in Jobs |-> slots'[j]]
        BY <4>1 DEF IInv, Shaped
      <4>3. starts \in [Jobs -> Nat]
        BY DEF IInv, Shaped
      <4>4. k \in Jobs => starts[k] + 1 \in Nat
        BY <4>3
      <4>5. starts' \in [Jobs -> Nat]
        BY <2>2, <4>3, <4>4
      <4> QED
        BY <4>2, <4>5
    <3>3. ASSUME NEW j \in Jobs, j # k
          PROVE  slots'[j] = slots[j] /\ starts'[j] = starts[j]
      BY <2>2, <3>3 DEF IInv, Shaped
    <3>4. ASSUME k \in Jobs
          PROVE  /\ Shape(slots'[k]) /\ ~slots'[k].closure
                 /\ starts[k] = 0 /\ starts'[k] = 1 /\ k \notin caught
                 /\ ~(k > submitted)
      <4>1. Shape(slots[k])
        BY <3>4 DEF IInv, Shaped
      <4>2. slots'[k] = [[slots[k] EXCEPT !.state = s] EXCEPT !.closure = FALSE]
        BY <2>2, <3>4 DEF IInv, Shaped
      <4>3. Shape(slots'[k]) /\ ~slots'[k].closure
        BY <4>1, <4>2 DEF Shape
      <4>4. starts[k] = 0 /\ k \notin caught /\ ~(k > submitted)
        BY <2>2, <3>4 DEF IInv, ClosureUnused
      <4> QED
        BY <2>2, <3>4, <4>3, <4>4 DEF IInv, Shaped
    <3>5. Shaped'
      BY <3>1, <3>2, <3>3, <3>4 DEF IInv, Shaped
    <3>6. ASSUME NEW j \in Jobs
          PROVE  /\ slots'[j].closure => starts'[j] = 0 /\ j \notin caught
                 /\ j > submitted =>
                      ~slots'[j].closure /\ starts'[j] = 0 /\ j \notin caught
                 /\ starts'[j] <= 1 /\ (j \in caught => starts'[j] = 0)
      <4>1. CASE j = k
        BY <3>4, <4>1
      <4>2. CASE j # k
        BY <3>3, <4>2 DEF IInv, ClosureUnused, CaughtNeverStarts
      <4> QED
        BY <4>1, <4>2
    <3> QED
      BY <3>1, <3>5, <3>6 DEF IInv, ClosureUnused, CaughtNeverStarts
  <2> QED
    BY <1>9, <2>1, <2>2 DEF Claim
<1>10. ASSUME NEW c \in Callers, Submit(c) PROVE IInv'
  <2> DEFINE k == submitted + 1
             fresh == [state |-> "Queued", paused |-> FALSE,
                       cancelled |-> FALSE, interruptible |-> TRUE,
                       closure |-> TRUE]
  <2>1. /\ submitted' = k /\ slots' = [slots EXCEPT ![k] = fresh]
        /\ UNCHANGED <<starts, caught>>
    BY <1>10 DEF Submit, history
  <2>2. Shape(fresh)
    BY DEF Shape
  <2>3. k > submitted /\ k \in Nat /\ \A j \in Jobs : j > k => j > submitted
    BY DEF IInv, Shaped, Jobs
  <2> HIDE DEF k, fresh
  <2>4. slots' = [j \in Jobs |-> slots'[j]]
    BY <2>1 DEF IInv, Shaped
  <2>5. ASSUME NEW j \in Jobs
        PROVE  slots'[j] = IF j = k THEN fresh ELSE slots[j]
    BY <2>1 DEF IInv, Shaped
  <2>6. ~(k > k)
    BY <2>3
  <2> QED
    BY <2>1, <2>2, <2>3, <2>4, <2>5, <2>6
    DEF IInv, Shaped, ClosureUnused, CaughtNeverStarts
<1>11. ASSUME NEW c \in Callers, TryCancelMany(c) PROVE IInv'
  <2>1. PICK js \in SUBSET Known :
          LET requested == {j \in js : Cancellable(j)}
              waiting   == {j \in requested :
                              slots[j].state = "Queued" /\ slots[j].closure}
          IN  /\ slots' = [j \in Jobs |->
                   IF j \in waiting
                   THEN [slots[j] EXCEPT !.cancelled = TRUE,
                                         !.closure = FALSE,
                                         !.state = "Cancelled"]
                   ELSE IF j \in requested
                        THEN [slots[j] EXCEPT !.cancelled = TRUE]
                   ELSE slots[j]]
              /\ caught' = caught \cup waiting
    BY <1>11 DEF TryCancelMany
  <2> DEFINE requested == {j \in js : Cancellable(j)}
             waiting == {j \in requested :
                           slots[j].state = "Queued" /\ slots[j].closure}
  <2>2. UNCHANGED <<starts, submitted>>
    BY <1>11 DEF TryCancelMany
  <2>3. slots' = [j \in Jobs |-> slots'[j]]
    BY <2>1
  <2>4. \A j \in waiting : slots[j].closure
    OBVIOUS
  <2>5. caught' = caught \cup waiting
    BY <2>1
  <2>6. ASSUME NEW j \in Jobs
        PROVE  /\ Shape(slots'[j])
               /\ slots'[j].closure => slots[j].closure /\ j \notin waiting
    <3>1. Shape(slots[j])
      BY DEF IInv, Shaped
    <3>2. CASE j \in waiting
      <4>1. slots'[j] = [[[slots[j] EXCEPT !.cancelled = TRUE]
                            EXCEPT !.closure = FALSE]
                            EXCEPT !.state = "Cancelled"]
        BY <2>1, <3>2
      <4> QED
        BY <3>1, <4>1 DEF Shape
    <3>3. CASE j \notin waiting
      <4>1. \/ slots'[j] = [slots[j] EXCEPT !.cancelled = TRUE]
            \/ slots'[j] = slots[j]
        BY <2>1, <3>3
      <4> QED
        BY <3>1, <3>3, <4>1 DEF Shape
    <3> QED
      BY <3>2, <3>3
  <2> HIDE DEF waiting
  <2> QED
    BY <2>2, <2>3, <2>4, <2>5, <2>6
    DEF IInv, Shaped, ClosureUnused, CaughtNeverStarts
<1>12. CASE Drop
  BY <1>1, <1>12 DEF Drop, history
<1>13. CASE UNCHANGED vars
  BY <1>1, <1>13 DEF vars, history
<1> QED
  BY <1>2, <1>3, <1>6, <1>7, <1>8, <1>9, <1>10, <1>11, <1>12, <1>13
  DEF Next, WorkerStep, Body, Call, CallStep

\* No job runs twice, and none runs that was cancelled while it was queued.
THEOREM CancelledStaysOut == Spec => []CaughtNeverStarts
<1>1. IInv => CaughtNeverStarts
  BY DEF IInv
<1> QED
  BY Start, Step, <1>1, PTL DEF Spec

-----------------------------------------------------------------------------
(***************************************************************************)
(* Lists: the entries of a queue at some of its places, and reordering.    *)
(***************************************************************************)
Distinct(q) == \A i, k \in DOMAIN q : q[i] = q[k] => i = k
Elems(q)    == {q[i] : i \in DOMAIN q}

\* The places of a set are numbered from 1 on, in order.
LEMMA Ranks ==
  ASSUME NEW n \in Nat, NEW S \in SUBSET (1..n)
  PROVE  /\ IsFiniteSet(S) /\ Cardinality(S) \in Nat
         /\ \A i \in S : Rank(S, i) \in 1..Cardinality(S)
         /\ \A i, k \in S : i < k => Rank(S, i) < Rank(S, k)
         /\ \A m \in 1..Cardinality(S) : \E i \in S : Rank(S, i) = m
<1>1. IsFiniteSet(S) /\ Cardinality(S) \in Nat
  <2>1. IsFiniteSet(1..n)
    BY FS_Interval
  <2> QED
    BY <2>1, FS_Subset, FS_CardinalityType
<1> DEFINE Upto(i) == {k \in S : k <= i}
<1>2. ASSUME NEW i \in S
      PROVE  /\ IsFiniteSet(Upto(i)) /\ Rank(S, i) = Cardinality(Upto(i))
             /\ Rank(S, i) \in 1..Cardinality(S)
  <2>1. Upto(i) \in SUBSET S /\ i \in Upto(i)
    OBVIOUS
  <2>2. IsFiniteSet(Upto(i)) /\ Cardinality(Upto(i)) <= Cardinality(S)
    BY <1>1, <2>1, FS_Subset
  <2>3. Cardinality(Upto(i)) \in Nat /\ Cardinality(Upto(i)) # 0
    BY <2>1, <2>2, FS_CardinalityType, FS_EmptySet
  <2> QED
    BY <1>1, <2>2, <2>3 DEF Rank
<1>3. ASSUME NEW i \in S, NEW k \in S, i < k PROVE Rank(S, i) < Rank(S, k)
  <2>1. Upto(i) \in SUBSET Upto(k) /\ k \in Upto(k) /\ k \notin Upto(i)
    <3>1. /\ i \in Nat /\ k \in Nat
          /\ \A m \in S : m \in Nat /\ (m <= i => m <= k)
      BY <1>3
    <3>2. k <= k /\ ~(k <= i)
      BY <1>3, <3>1
    <3> QED
      BY <3>1, <3>2
  <2>2. /\ Cardinality(Upto(i)) <= Cardinality(Upto(k))
        /\ Cardinality(Upto(i)) # Cardinality(Upto(k))
    BY <1>2, <2>1, FS_Subset
  <2> HIDE DEF Upto
  <2> QED
    BY <1>1, <1>2, <2>2
<1>4. ASSUME NEW m \in 1..Cardinality(S) PROVE \E i \in S : Rank(S, i) = m
  <2> DEFINE T == 1..Cardinality(S)
             f == [i \in S |-> Rank(S, i)]
  <2>1. f \in [S -> T]
    BY <1>2
  <2>2. \A i, k \in S : f[i] = f[k] => i = k
    <3>1. \A i, k \in S : i < k \/ k < i \/ i = k
      OBVIOUS
    <3>2. \A i \in S : Rank(S, i) \in Nat
      <4>1. \A x \in 1..Cardinality(S) : x \in Nat
        BY <1>1
      <4> QED
        BY <1>2, <4>1
    <3>3. \A i, k \in S : i < k => ~(Rank(S, i) = Rank(S, k))
      BY <1>3, <3>2
    <3> QED
      BY <3>1, <3>3
  <2>3. f \in Injection(S, T)
    BY <2>1, <2>2 DEF Injection, IsInjective
  <2>4. IsFiniteSet(T) /\ Cardinality(T) = Cardinality(S)
    BY <1>1, FS_Interval
  <2>5. f \in Surjection(S, T)
    BY <2>3, <2>4, FS_Injection
  <2> QED
    BY <2>5 DEF Surjection
<1> QED
  BY <1>1, <1>2, <1>3, <1>4

\* The entries at some places are those of the queue, each once.
LEMMA Listing ==
  ASSUME NEW q \in Seq(Jobs), NEW S \in SUBSET DOMAIN q
  PROVE  /\ Entries(q, S) \in Seq(Jobs) /\ Len(Entries(q, S)) = Cardinality(S)
         /\ Elems(Entries(q, S)) = {q[i] : i \in S}
         /\ Distinct(q) => Distinct(Entries(q, S))
         /\ Cardinality(S) \in Nat
<1> DEFINE N  == Cardinality(S)
           at == [m \in 1..N |-> CHOOSE i \in S : Rank(S, i) = m]
<1>1. S \in SUBSET (1..Len(q)) /\ Len(q) \in Nat
  OBVIOUS
<1>2. /\ N \in Nat
      /\ \A i \in S : Rank(S, i) \in 1..N
      /\ \A i, k \in S : i < k => Rank(S, i) < Rank(S, k)
      /\ \A m \in 1..N : \E i \in S : Rank(S, i) = m
  BY <1>1, Ranks
<1>3. ASSUME NEW m \in 1..N PROVE at[m] \in S /\ Rank(S, at[m]) = m
  BY <1>2
<1>4. ASSUME NEW i \in S PROVE at[Rank(S, i)] = i
  <2> DEFINE k == at[Rank(S, i)]
  <2>1. k \in S /\ Rank(S, k) = Rank(S, i) /\ Rank(S, i) \in Nat
    BY <1>2, <1>3
  <2>2. ~(k < i) /\ ~(i < k)
    BY <1>2, <2>1
  <2>3. k \in Nat /\ i \in Nat
    BY <1>1, <2>1
  <2> HIDE DEF k
  <2> QED
    BY <2>2, <2>3 DEF k
<1>5. Entries(q, S) = [m \in 1..N |-> q[at[m]]]
  BY DEF Entries
<1> HIDE DEF at, N
<1>6. Entries(q, S) \in Seq(Jobs) /\ Len(Entries(q, S)) = N
      /\ DOMAIN Entries(q, S) = 1..N
  <2>1. \A m \in 1..N : q[at[m]] \in Jobs
    BY <1>3
  <2> QED
    BY <1>2, <1>5, <2>1
<1>7. Elems(Entries(q, S)) = {q[i] : i \in S}
  BY <1>2, <1>3, <1>4, <1>5, <1>6 DEF Elems
<1>8. ASSUME Distinct(q) PROVE Distinct(Entries(q, S))
  <2>1. ASSUME NEW i \in 1..N, NEW k \in 1..N, q[at[i]] = q[at[k]] PROVE i = k
    <3>1. at[i] = at[k]
      BY <1>3, <1>8, <2>1 DEF Distinct
    <3> QED
      BY <1>3, <3>1
  <2> QED
    BY <1>5, <1>6, <2>1 DEF Distinct
<1> QED
  BY <1>2, <1>6, <1>7, <1>8 DEF N

\* The queue without some jobs.  [queue.rs request_cancel_many,
\* reserve_next_job]
LEMMA WithoutIs ==
  ASSUME queue \in Seq(Jobs), NEW js
  PROVE  /\ Without(js) \in Seq(Jobs) /\ Elems(Without(js)) = Elems(queue) \ js
         /\ Distinct(queue) => Distinct(Without(js))
         /\ Without(js) = <<>> => Elems(queue) \subseteq js
<1> DEFINE S == {i \in DOMAIN queue : queue[i] \notin js}
<1>1. /\ Without(js) \in Seq(Jobs) /\ Elems(Without(js)) = {queue[i] : i \in S}
      /\ Distinct(queue) => Distinct(Without(js))
  BY Listing DEF Without
<1>2. Elems(Without(js)) = Elems(queue) \ js
  BY <1>1 DEF Elems
<1>3. ASSUME Without(js) = <<>> PROVE Elems(Without(js)) = {}
  BY <1>3 DEF Elems
<1> QED
  BY <1>1, <1>2, <1>3

\* The first place is one of them.
LEMMA FirstIs ==
  ASSUME queue \in Seq(Jobs), Places # {}
  PROVE  First \in Places /\ First \in DOMAIN queue /\ queue[First] \in Jobs
<1> DEFINE R == {ss \in Nat \X Nat : ss[1] < ss[2]}
<1>1. Places \subseteq DOMAIN queue /\ Places \subseteq Nat
  BY DEF Places
<1>2. IsWellFoundedOn(R, Nat)
  BY NatLessThanWellFounded DEF OpToRel
<1>3. PICK i \in Places : \A k \in Places : <<k, i>> \notin R
  BY <1>1, <1>2, WFMin
<1>4. ASSUME NEW k \in Places PROVE i <= k
  <2> DEFINE pair == <<k, i>>
  <2>1. pair \in Nat \X Nat /\ pair[1] = k /\ pair[2] = i
    BY <1>1
  <2>2. pair \notin R
    BY <1>3
  <2>3. ~(k < i)
    BY <2>1, <2>2
  <2> QED
    BY <1>1, <2>3
<1>5. First \in Places
  BY <1>4 DEF First, Min
<1> QED
  BY <1>1, <1>5

\* What is put into the places of the reorderable jobs, if it is what was
\* there, leaves a queue of the same jobs.
LEMMA RefilledIs ==
  ASSUME queue \in Seq(Jobs), Distinct(queue), NEW order \in Seq(Jobs),
         Len(order) = Cardinality(Places), Distinct(order),
         Elems(order) = {queue[i] : i \in Places}
  PROVE  /\ Refilled(order) \in Seq(Jobs) /\ Distinct(Refilled(order))
         /\ Elems(Refilled(order)) = Elems(queue)
<1> DEFINE N == Cardinality(Places)
           q == Refilled(order)
<1>1. Places \in SUBSET (1..Len(queue)) /\ Len(queue) \in Nat
      /\ DOMAIN queue = 1..Len(queue)
  BY DEF Places
<1>2. /\ N \in Nat
      /\ \A i \in Places : Rank(Places, i) \in 1..N
      /\ \A i, k \in Places : i < k => Rank(Places, i) < Rank(Places, k)
      /\ \A m \in 1..N : \E i \in Places : Rank(Places, i) = m
  BY <1>1, Ranks
<1>3. /\ DOMAIN order = 1..N /\ \A m \in 1..N : order[m] \in Jobs
      /\ \A m \in 1..N : order[m] \in {queue[i] : i \in Places}
  <2>1. DOMAIN order = 1..N
    BY <1>2
  <2>2. \A m \in 1..N : order[m] \in Elems(order)
    BY <2>1 DEF Elems
  <2> QED
    BY <2>1, <2>2
<1>4. /\ q = [i \in 1..Len(queue) |-> q[i]]
      /\ \A i \in 1..Len(queue) :
           q[i] = IF i \in Places THEN order[Rank(Places, i)] ELSE queue[i]
  BY <1>1 DEF Refilled
<1> HIDE DEF q, N
<1>5. q \in Seq(Jobs) /\ DOMAIN q = 1..Len(queue)
  <2>1. \A i \in 1..Len(queue) : q[i] \in Jobs
    BY <1>1, <1>2, <1>3, <1>4
  <2> QED
    BY <1>1, <1>4, <2>1
<1>6. ASSUME NEW i \in Places, NEW k \in Places,
             Rank(Places, i) = Rank(Places, k)
      PROVE  i = k
  <2>1. ~(i < k) /\ ~(k < i) /\ i \in Nat /\ k \in Nat
    BY <1>1, <1>2, <1>6
  <2> QED
    BY <2>1
<1>7. Distinct(q)
  <2> SUFFICES ASSUME NEW i \in 1..Len(queue), NEW k \in 1..Len(queue),
                      q[i] = q[k]
               PROVE  i = k
    BY <1>5 DEF Distinct
  <2>1. CASE i \in Places /\ k \in Places
    BY <1>2, <1>3, <1>4, <1>6, <2>1 DEF Distinct
  <2>2. CASE i \notin Places /\ k \notin Places
    BY <1>1, <1>4, <2>2 DEF Distinct
  <2>3. CASE i \in Places /\ k \notin Places
    <3>1. PICK m \in Places : q[i] = queue[m]
      BY <1>2, <1>3, <1>4, <2>3
    <3>2. queue[m] = queue[k]
      BY <1>4, <2>3, <3>1
    <3> QED
      BY <1>1, <2>3, <3>1, <3>2 DEF Distinct
  <2>4. CASE i \notin Places /\ k \in Places
    <3>1. PICK m \in Places : q[k] = queue[m]
      BY <1>2, <1>3, <1>4, <2>4
    <3>2. queue[m] = queue[i]
      BY <1>4, <2>4, <3>1
    <3> QED
      BY <1>1, <2>4, <3>1, <3>2 DEF Distinct
  <2> QED
    BY <2>1, <2>2, <2>3, <2>4
<1>8. ASSUME NEW j \in Elems(q) PROVE j \in Elems(queue)
  <2>1. PICK i \in 1..Len(queue) : j = q[i]
    BY <1>5 DEF Elems
  <2>2. CASE i \in Places
    <3>1. j \in {queue[m] : m \in Places}
      BY <1>2, <1>3, <1>4, <2>1, <2>2
    <3> QED
      BY <1>1, <3>1 DEF Elems
  <2>3. CASE i \notin Places
    BY <1>1, <1>4, <2>1, <2>3 DEF Elems
  <2> QED
    BY <2>2, <2>3
<1>9. ASSUME NEW j \in Elems(queue) PROVE j \in Elems(q)
  <2>1. PICK i \in 1..Len(queue) : j = queue[i]
    BY <1>1 DEF Elems
  <2>2. CASE i \in Places
    <3>1. j \in Elems(order)
      BY <2>1, <2>2
    <3>2. PICK m \in 1..N : j = order[m]
      BY <1>3, <3>1 DEF Elems
    <3>3. PICK k \in Places : Rank(Places, k) = m
      BY <1>2
    <3> QED
      BY <1>1, <1>4, <1>5, <3>2, <3>3 DEF Elems
  <2>3. CASE i \notin Places
    BY <1>4, <1>5, <2>1, <2>3 DEF Elems
  <2> QED
    BY <2>2, <2>3
<1> QED
  BY <1>5, <1>7, <1>8, <1>9 DEF q

\* A job is put among others.
LEMMA Inserting ==
  ASSUME NEW r \in Seq(Jobs), Distinct(r), NEW at \in 1..(Len(r) + 1),
         NEW e \in Jobs, e \notin Elems(r)
  PROVE  /\ InsertAt(r, at, e) \in Seq(Jobs)
         /\ Len(InsertAt(r, at, e)) = Len(r) + 1
         /\ Distinct(InsertAt(r, at, e))
         /\ Elems(InsertAt(r, at, e)) = Elems(r) \cup {e}
<1> DEFINE N == Len(r)
           before == SubSeq(r, 1, at - 1)
           after == SubSeq(r, at, N)
           t == InsertAt(r, at, e)
<1>1. N \in Nat /\ at \in Nat /\ at >= 1 /\ at <= N + 1
  OBVIOUS
<1>2. /\ before \in Seq(Jobs) /\ Len(before) = at - 1
      /\ \A k \in 1..(at - 1) : before[k] = r[k]
  BY <1>1
<1>3. /\ after \in Seq(Jobs) /\ Len(after) = N - at + 1
      /\ \A k \in 1..(N - at + 1) : after[k] = r[k + at - 1]
  BY <1>1
<1>4. t = before \o <<e>> \o after
  BY DEF InsertAt
<1> HIDE DEF before, after, t, N
<1>5. /\ before \o <<e>> \in Seq(Jobs) /\ Len(before \o <<e>>) = at
      /\ \A k \in 1..at :
           (before \o <<e>>)[k] = IF k = at THEN e ELSE before[k]
  BY <1>1, <1>2
<1>6. t \in Seq(Jobs) /\ Len(t) = N + 1 /\ DOMAIN t = 1..(N + 1)
  BY <1>1, <1>3, <1>4, <1>5
<1>7. ASSUME NEW k \in 1..(N + 1)
      PROVE  t[k] = IF k < at THEN r[k] ELSE IF k = at THEN e ELSE r[k - 1]
  <2>1. CASE k <= at
    <3>1. t[k] = (before \o <<e>>)[k]
      BY <1>1, <1>3, <1>4, <1>5, <2>1
    <3> QED
      BY <1>1, <1>2, <1>5, <2>1, <3>1
  <2>2. CASE k > at
    <3>1. t[k] = after[k - at]
      <4> DEFINE front == before \o <<e>>
      <4>1. front \in Seq(Jobs) /\ Len(front) = at /\ t = front \o after
        BY <1>4, <1>5
      <4> HIDE DEF front
      <4> QED
        BY <1>1, <1>3, <2>2, <4>1
    <3>2. k - at \in 1..(N - at + 1) /\ (k - at) + at - 1 = k - 1
      BY <1>1, <2>2
    <3> QED
      BY <1>1, <1>3, <2>2, <3>1, <3>2
  <2> QED
    BY <1>1, <2>1, <2>2
<1> DEFINE from(k) == IF k < at THEN k ELSE k - 1
<1>8. ASSUME NEW k \in 1..(N + 1), k # at
      PROVE  from(k) \in 1..N /\ t[k] = r[from(k)]
  BY <1>1, <1>7, <1>8
<1>9. DOMAIN r = 1..N /\ \A k \in 1..N : r[k] # e
  BY DEF N, Elems
<1>10. Distinct(t)
  <2> SUFFICES ASSUME NEW i \in 1..(N + 1), NEW k \in 1..(N + 1), t[i] = t[k]
               PROVE  i = k
    BY <1>6 DEF Distinct
  <2>1. CASE i # at /\ k # at
    <3>1. from(i) = from(k)
      BY <1>8, <1>9, <2>1 DEF Distinct
    <3> QED
      BY <1>1, <2>1, <3>1
  <2>2. CASE i = at \/ k = at
    <3>1. t[at] = e /\ at \in 1..(N + 1)
      BY <1>1, <1>7
    <3> QED
      BY <1>8, <1>9, <2>2, <3>1
  <2> QED
    BY <2>1, <2>2
<1>11. Elems(t) = Elems(r) \cup {e}
  <2>1. ASSUME NEW k \in 1..(N + 1) PROVE t[k] \in Elems(r) \cup {e}
    <3>1. CASE k = at
      BY <1>1, <1>7, <3>1
    <3>2. CASE k # at
      BY <1>8, <1>9, <3>2 DEF Elems
    <3> QED
      BY <3>1, <3>2
  <2>2. e \in Elems(t)
    <3>1. t[at] = e /\ at \in 1..(N + 1)
      BY <1>1, <1>7
    <3> QED
      BY <1>6, <3>1 DEF Elems
  <2>3. ASSUME NEW k \in 1..N PROVE r[k] \in Elems(t)
    <3>1. CASE k < at
      <4>1. k \in 1..(N + 1) /\ t[k] = r[k]
        BY <1>1, <1>7, <3>1
      <4> QED
        BY <1>6, <4>1 DEF Elems
    <3>2. CASE ~(k < at)
      <4>1. k + 1 \in 1..(N + 1) /\ (k + 1) - 1 = k /\ ~(k + 1 < at) /\ k + 1 # at
        BY <1>1, <3>2
      <4>2. t[k + 1] = r[k]
        BY <1>7, <4>1
      <4> QED
        BY <1>6, <4>1, <4>2 DEF Elems
    <3> QED
      BY <3>1, <3>2
  <2> QED
    BY <1>6, <1>9, <2>1, <2>2, <2>3 DEF Elems
<1> QED
  BY <1>6, <1>10, <1>11 DEF t, N

\* A job that is moved leaves the order as it was but for its own place.
\* [queue.rs move_queued_before]
LEMMA MovedIs ==
  ASSUME queue \in Seq(Jobs), Distinct(queue), NEW id, NEW target,
         id # target, id # NoJob, {id, target} \ {NoJob} \subseteq Range(Order)
  PROVE  /\ MovedBefore(id, target) \in Seq(Jobs)
         /\ Len(MovedBefore(id, target)) = Cardinality(Places)
         /\ Distinct(MovedBefore(id, target))
         /\ Elems(MovedBefore(id, target)) = {queue[i] : i \in Places}
<1> DEFINE N == Cardinality(Places)
           S == {i \in DOMAIN Order : Order[i] # id}
           rest == Entries(Order, S)
           at == IF target = NoJob THEN Len(rest) + 1
                 ELSE CHOOSE i \in DOMAIN rest : rest[i] = target
<1>1. Places \in SUBSET DOMAIN queue
  BY DEF Places
<1>2. /\ Order \in Seq(Jobs) /\ Len(Order) = N /\ N \in Nat
      /\ Elems(Order) = {queue[i] : i \in Places} /\ Distinct(Order)
      /\ DOMAIN Order = 1..N
  BY <1>1, Listing DEF Order
<1>3. PICK s \in 1..N : Order[s] = id
  BY <1>2 DEF Range
<1> HIDE DEF N
<1>4. S = (1..N) \ {s}
  BY <1>2, <1>3 DEF Distinct
<1>5. Cardinality(S) = N - 1 /\ N >= 1
  <2>1. IsFiniteSet(1..N) /\ Cardinality(1..N) = N
    <3>1. 1 \in Int /\ N \in Int /\ ~(1 > N) /\ N - 1 + 1 = N
      BY <1>2, <1>3
    <3> QED
      BY <3>1, FS_Interval
  <2>2. Cardinality((1..N) \ {s}) = N - 1
    BY <1>3, <2>1, FS_RemoveElement
  <2>3. N >= 1
    BY <1>2, <1>3
  <2> HIDE DEF S
  <2> QED
    BY <1>4, <2>2, <2>3
<1>6. /\ rest \in Seq(Jobs) /\ Len(rest) = N - 1 /\ Distinct(rest)
      /\ Elems(rest) = {Order[i] : i \in S}
  BY <1>2, <1>5, Listing
<1>7. Elems(rest) = Elems(Order) \ {id}
  BY <1>6 DEF Elems
<1>8. at \in 1..(Len(rest) + 1)
  <2>1. CASE target = NoJob
    BY <1>2, <1>5, <1>6, <2>1
  <2>2. CASE target # NoJob
    <3>1. target \in Elems(rest)
      BY <1>2, <1>7, <2>2 DEF Range, Elems
    <3>2. \E i \in DOMAIN rest : rest[i] = target
      BY <3>1 DEF Elems
    <3>3. at \in DOMAIN rest
      BY <2>2, <3>2
    <3> HIDE DEF at, rest
    <3> QED
      BY <1>6, <3>3
  <2> QED
    BY <2>1, <2>2
<1>9. id \in Jobs /\ id \in Elems(Order)
  BY <1>2, <1>3 DEF Elems
<1>10. MovedBefore(id, target) = InsertAt(rest, at, id)
  BY DEF MovedBefore
<1> HIDE DEF at, rest, S
<1>11. /\ InsertAt(rest, at, id) \in Seq(Jobs)
       /\ Len(InsertAt(rest, at, id)) = Len(rest) + 1
       /\ Distinct(InsertAt(rest, at, id))
       /\ Elems(InsertAt(rest, at, id)) = Elems(rest) \cup {id}
  BY <1>6, <1>7, <1>8, <1>9, Inserting
<1>12. Len(rest) + 1 = N
  BY <1>2, <1>5, <1>6
<1>13. Elems(rest) \cup {id} = Elems(Order)
  BY <1>7, <1>9
<1> QED
  BY <1>2, <1>10, <1>11, <1>12, <1>13 DEF N

\* Two jobs change places.  [queue.rs move_queued]
LEMMA SwappedIs ==
  ASSUME queue \in Seq(Jobs), Distinct(queue), NEW i \in Places,
         NEW k \in Places, i < k, NEW q,
         q = [queue EXCEPT ![i] = queue[k], ![k] = queue[i]]
  PROVE  q \in Seq(Jobs) /\ Distinct(q) /\ Elems(q) = Elems(queue)
<1>1. i \in 1..Len(queue) /\ k \in 1..Len(queue) /\ i # k
      /\ DOMAIN queue = 1..Len(queue) /\ Len(queue) \in Nat
  BY DEF Places
<1>2. /\ q = [n \in 1..Len(queue) |-> q[n]]
      /\ \A n \in 1..Len(queue) : q[n] = IF n = k THEN queue[i]
                                        ELSE IF n = i THEN queue[k]
                                        ELSE queue[n]
  BY <1>1
<1>3. q \in Seq(Jobs) /\ DOMAIN q = 1..Len(queue)
  <2>1. \A n \in 1..Len(queue) : q[n] \in Jobs
    BY <1>1, <1>2
  <2> QED
    BY <1>1, <1>2, <2>1
<1>4. Distinct(q)
  BY <1>1, <1>2, <1>3 DEF Distinct
<1>5. Elems(q) = Elems(queue)
  <2>1. ASSUME NEW n \in 1..Len(queue) PROVE q[n] \in Elems(queue)
    BY <1>1, <1>2 DEF Elems
  <2>2. ASSUME NEW n \in 1..Len(queue) PROVE queue[n] \in Elems(q)
    <3>1. queue[n] = q[IF n = k THEN i ELSE IF n = i THEN k ELSE n]
      BY <1>1, <1>2
    <3> QED
      BY <1>1, <1>3, <3>1 DEF Elems
  <2> QED
    BY <1>1, <1>3, <2>1, <2>2 DEF Elems
<1> QED
  BY <1>3, <1>4, <1>5

\* Only an empty queue has no entries.
LEMMA EmptyIs ==
  ASSUME queue \in Seq(Jobs)
  PROVE  Elems(queue) = {} <=> queue = <<>>
<1>1. queue = <<>> => Elems(queue) = {}
  BY DEF Elems
<1>2. ASSUME Elems(queue) = {} PROVE queue = <<>>
  <2>1. Len(queue) \in Nat /\ DOMAIN queue = 1..Len(queue)
    OBVIOUS
  <2>2. ~(1 \in DOMAIN queue)
    BY <1>2 DEF Elems
  <2>3. Len(queue) = 0
    BY <2>1, <2>2
  <2> QED
    BY <2>3
<1> QED
  BY <1>1, <1>2

-----------------------------------------------------------------------------
(***************************************************************************)
(* The invariant behind the other properties.                              *)
(***************************************************************************)
Typed ==
  /\ TypeOK
  /\ \A w \in Workers : worker[w].at = "store" => worker[w].outcome \in Terminal

\* Every id is in one place: a caller is about to enlist it, or it is queued,
\* or one worker holds it, or it is gone.
Pushing(c) == caller[c].at = "push"
Listed ==
  /\ Distinct(queue) /\ Elems(queue) \subseteq 1..submitted
  /\ \A c \in Callers : Pushing(c) =>
       caller[c].job \in (1..submitted) \ Elems(queue)
  /\ \A c, d \in Callers :
       Pushing(c) /\ Pushing(d) /\ caller[c].job = caller[d].job => c = d
HeldOnce ==
  /\ \A w \in Holding : worker[w].job \in (1..submitted) \ Elems(queue)
  /\ \A w \in Holding, c \in Callers :
       Pushing(c) => caller[c].job # worker[w].job
  /\ \A v, w \in Holding : worker[v].job = worker[w].job => v = w

Unused == \A j \in Jobs : j > submitted => slots[j] = NoSlot

Counters ==
  /\ running = Cardinality(Holding)
  /\ IsFiniteSet(Reserved) /\ cpu = Cardinality(Reserved) /\ cpu <= Budget

\* Nobody calls while the queue is dropped.
Quiet == shutdown => \A c \in Callers : caller[c].at = "idle"

\* While all workers sleep nothing in the queue can be run at all, whatever
\* the limits: the last one looked when nothing was running.
WorkersCalled ==
  (\A w \in Workers : worker[w].at = "asleep")
    => (\A j \in Elems(queue) : ~Reorderable(j)) \/ Notifying({"wake", "notify"})
WaitersCalled ==
  (\E c \in Callers : caller[c].at = "idleAsleep")
    => \/ queue # <<>> \/ running > 0
       \/ Notifying({"notify"})
       \/ \E w \in Workers : worker[w].at = "look"

Sound == /\ Typed /\ Listed /\ HeldOnce /\ Unused /\ Counters /\ Quiet
         /\ WorkersCalled /\ WaitersCalled

-----------------------------------------------------------------------------
\* What a worker or a caller is set to.
LEMMA GoesIs ==
  ASSUME TypeOK
  PROVE  /\ \A w \in Workers, r \in WorkerState :
              /\ WorkerGoes(w, r) \in [Workers -> WorkerState]
              /\ WorkerGoes(w, r)[w] = r
              /\ \A v \in Workers \ {w} : WorkerGoes(w, r)[v] = worker[v]
         /\ \A c \in Callers, at \in CallerAt, j \in Jobs \cup {NoJob} :
              /\ CallerGoes(c, at, j) \in [Callers -> CallerState]
              /\ CallerGoes(c, at, j)[c] = [at |-> at, job |-> j]
              /\ \A d \in Callers \ {c} : CallerGoes(c, at, j)[d] = caller[d]
<1>1. worker \in [Workers -> WorkerState] /\ caller \in [Callers -> CallerState]
  BY DEF TypeOK
<1>2. \A at \in CallerAt, j \in Jobs \cup {NoJob} :
        [at |-> at, job |-> j] \in CallerState
  BY DEF CallerState
<1> QED
  BY <1>1, <1>2 DEF WorkerGoes, CallerGoes

\* notify_all wakes the sleepers and changes nothing else.
LEMMA AwakeIs ==
  ASSUME NEW ws \in [Workers -> WorkerState]
  PROVE  /\ Awake(ws) \in [Workers -> WorkerState]
         /\ \A w \in Workers :
              /\ Awake(ws)[w].at =
                   IF ws[w].at = "asleep" THEN "look" ELSE ws[w].at
              /\ Awake(ws)[w].job = ws[w].job
              /\ Awake(ws)[w].threads = ws[w].threads
              /\ Awake(ws)[w].outcome = ws[w].outcome
<1> SUFFICES ASSUME NEW w \in Workers
             PROVE  /\ Awake(ws)[w] \in WorkerState
                    /\ Awake(ws)[w].at =
                         IF ws[w].at = "asleep" THEN "look" ELSE ws[w].at
                    /\ Awake(ws)[w].job = ws[w].job
                    /\ Awake(ws)[w].threads = ws[w].threads
                    /\ Awake(ws)[w].outcome = ws[w].outcome
  BY DEF Awake
<1>1. Awake(ws)[w] = IF ws[w].at = "asleep" THEN [ws[w] EXCEPT !.at = "look"]
                     ELSE ws[w]
  BY DEF Awake
<1>2. ws[w] \in WorkerState /\ "look" \in WorkerAt
  BY DEF WorkerAt
<1> QED
  BY <1>1, <1>2 DEF WorkerState

\* The same for wait_idle.
LEMMA IdleAwakeIs ==
  ASSUME NEW cs \in [Callers -> CallerState]
  PROVE  /\ IdleAwake(cs) \in [Callers -> CallerState]
         /\ \A c \in Callers :
              IdleAwake(cs)[c] = IF cs[c].at = "idleAsleep"
                                 THEN [cs[c] EXCEPT !.at = "idleLook"]
                                 ELSE cs[c]
         /\ \A c \in Callers :
              /\ IdleAwake(cs)[c].at = IF cs[c].at = "idleAsleep" THEN "idleLook"
                                       ELSE cs[c].at
              /\ IdleAwake(cs)[c].job = cs[c].job
<1>1. \A c \in Callers :
        IdleAwake(cs)[c] = IF cs[c].at = "idleAsleep"
                           THEN [cs[c] EXCEPT !.at = "idleLook"] ELSE cs[c]
  BY DEF IdleAwake
<1>2. ASSUME NEW c \in Callers
      PROVE  /\ IdleAwake(cs)[c] \in CallerState
             /\ IdleAwake(cs)[c].at = IF cs[c].at = "idleAsleep" THEN "idleLook"
                                      ELSE cs[c].at
             /\ IdleAwake(cs)[c].job = cs[c].job
  <2>1. cs[c] \in CallerState /\ "idleLook" \in CallerAt
    BY DEF CallerAt
  <2> QED
    BY <1>1, <2>1 DEF CallerState
<1> QED
  BY <1>1, <1>2 DEF IdleAwake

-----------------------------------------------------------------------------
(***************************************************************************)
(* What keeps each part.                                                   *)
(***************************************************************************)
\* A step that enlists no job, starts no push and reserves nothing.
LEMMA StaysListed ==
  ASSUME Listed, HeldOnce, Distinct(queue)', Elems(queue)' \subseteq Elems(queue),
         submitted' = submitted,
         \A c \in Callers :
           Pushing(c)' => Pushing(c) /\ caller'[c].job = caller[c].job,
         \A w \in Workers :
           worker'[w].at \in Reserving =>
             worker[w].at \in Reserving /\ worker'[w].job = worker[w].job
  PROVE  Listed' /\ HeldOnce'
<1>1. \A w \in Holding' : w \in Holding /\ worker'[w].job = worker[w].job
  BY DEF Holding
<1>2. Listed'
  BY DEF Listed
<1>3. HeldOnce'
  BY <1>1 DEF HeldOnce
<1> QED
  BY <1>2, <1>3

\* A step at which no reservation comes or goes.
LEMMA StaysCounted ==
  ASSUME Counters, running' = running, cpu' = cpu,
         \A w \in Workers :
           /\ worker'[w].at \in Reserving <=> worker[w].at \in Reserving
           /\ worker[w].at \in Reserving =>
                worker'[w].threads = worker[w].threads
  PROVE  Counters'
<1>1. Holding' = Holding
  BY DEF Holding
<1>2. \A w \in Holding : worker'[w].threads = worker[w].threads
  BY DEF Holding
<1>3. Reserved' = Reserved
  BY <1>1, <1>2 DEF Reserved
<1> QED
  BY <1>1, <1>3 DEF Counters

\* Slots of ids that have not been given out are left alone.
LEMMA StaysUnused ==
  ASSUME Unused, submitted' = submitted,
         \A j \in Jobs : j > submitted => slots'[j] = slots[j]
  PROVE  Unused'
BY DEF Unused

\* Steps that make no job claimable and after which nobody sleeps who did not
\* sleep before.
LEMMA StaysCalled ==
  ASSUME WorkersCalled, Elems(queue)' \subseteq Elems(queue),
         \A j \in Elems(queue)' : Reorderable(j)' => Reorderable(j),
         \A w \in Workers : worker'[w].at = "asleep" => worker[w].at = "asleep",
         \A c \in Callers :
           caller[c].at \in {"wake", "notify"} =>
             \E d \in Callers : caller'[d].at \in {"wake", "notify"}
  PROVE  WorkersCalled'
BY DEF WorkersCalled, Notifying

\* The same for the callers of wait_idle.
LEMMA WaitersStayCalled ==
  ASSUME WaitersCalled, queue' = <<>> => queue = <<>>, running' = running,
         \A c \in Callers : caller'[c].at = "idleAsleep" =>
           \E d \in Callers : caller[d].at = "idleAsleep",
         \A c \in Callers :
           caller[c].at = "notify" =>
             \E d \in Callers : caller'[d].at = "notify",
         \A w \in Workers : worker[w].at = "look" =>
           \E v \in Workers : worker'[v].at = "look"
  PROVE  WaitersCalled'
BY DEF WaitersCalled, Notifying

-----------------------------------------------------------------------------
(***************************************************************************)
(* The steps, one group after the other.                                   *)
(***************************************************************************)
\* Where a worker that holds a reservation goes with its job.
\* [queue.rs claim_job, worker_loop; progress.rs ControlToken::checkpoint]
LEMMA HolderSteps ==
  ASSUME Sound, NEW w \in Workers, Claim(w) \/ Body(w) \/ Store(w)
  PROVE  /\ worker' \in [Workers -> WorkerState]
         /\ \A v \in Workers \ {w} : worker'[v] = worker[v]
         /\ worker[w].at \in Reserving /\ worker'[w].at \in Reserving
         /\ worker'[w].job = worker[w].job
         /\ worker'[w].threads = worker[w].threads
         /\ worker'[w].at = "store" => worker'[w].outcome \in Terminal
<1>1. worker \in [Workers -> WorkerState] /\ worker[w] \in WorkerState
  BY DEF Sound, Typed, TypeOK
<1> DEFINE Result ==
             /\ worker' \in [Workers -> WorkerState]
             /\ \A v \in Workers \ {w} : worker'[v] = worker[v]
             /\ worker[w].at \in Reserving /\ worker'[w].at \in Reserving
             /\ worker'[w].job = worker[w].job
             /\ worker'[w].threads = worker[w].threads
             /\ worker'[w].at = "store" => worker'[w].outcome \in Terminal
<1>2. ASSUME NEW r \in WorkerState, worker' = [worker EXCEPT ![w] = r],
             worker[w].at \in Reserving, r.at \in Reserving,
             r.job = worker[w].job, r.threads = worker[w].threads,
             r.at = "store" => r.outcome \in Terminal
      PROVE  Result
  BY <1>1, <1>2
<1>3. /\ Reserving \subseteq WorkerAt
      /\ "claim" \in Reserving /\ "release" \in Reserving
      /\ "body" \in Reserving /\ "checkpoint" \in Reserving
      /\ "checked" \in Reserving /\ "store" \in Reserving
  BY DEF Reserving, WorkerAt, Executing
<1>4. ASSUME NEW s \in WorkerState, NEW at \in WorkerAt, NEW r,
             r = [s EXCEPT !.at = at]
      PROVE  /\ r \in WorkerState /\ r.at = at /\ r.job = s.job
             /\ r.threads = s.threads
  BY <1>4 DEF WorkerState
<1>5. ASSUME worker[w].at \in Reserving, NEW at \in Reserving, at # "store",
             worker' = [worker EXCEPT ![w].at = at]
      PROVE  Result
  <2> DEFINE r == [worker[w] EXCEPT !.at = at]
  <2>1. worker' = [worker EXCEPT ![w] = r]
    BY <1>1, <1>5
  <2>2. /\ r \in WorkerState /\ r.at = at /\ r.job = worker[w].job
        /\ r.threads = worker[w].threads
    BY <1>1, <1>3, <1>4
  <2> HIDE DEF r, Result
  <2> QED
    BY <1>2, <1>5, <2>1, <2>2
<1>6. ASSUME NEW o \in Terminal, worker[w].at \in Reserving,
             worker' = [worker EXCEPT ![w].at = "store", ![w].outcome = o]
      PROVE  Result
  <2> DEFINE r == [[worker[w] EXCEPT !.at = "store"] EXCEPT !.outcome = o]
  <2>1. worker' = [[worker EXCEPT ![w].at = "store"] EXCEPT ![w].outcome = o]
    BY <1>6
  <2>2. worker' = [worker EXCEPT ![w] = r]
    BY <1>1, <2>1
  <2>3. /\ r \in WorkerState /\ r.at \in Reserving /\ r.job = worker[w].job
        /\ r.threads = worker[w].threads /\ r.outcome \in Terminal
    BY <1>1, <1>3 DEF WorkerState
  <2> HIDE DEF r, Result
  <2> QED
    BY <1>2, <1>6, <2>2, <2>3
<1> SUFFICES Result
  OBVIOUS
<1> HIDE DEF Result
<1>7. CASE Claim(w)
  <2>1. PICK at \in {"body", "release"} : worker' = [worker EXCEPT ![w].at = at]
    BY <1>7 DEF Claim
  <2>2. worker[w].at \in Reserving
    BY <1>3, <1>7 DEF Claim
  <2> QED
    BY <1>3, <1>5, <2>1, <2>2
<1>8. CASE Store(w)
  <2>1. worker' = [worker EXCEPT ![w].at = "release"]
    BY <1>8 DEF Store
  <2>2. worker[w].at \in Reserving
    BY <1>3, <1>8 DEF Store
  <2> QED
    BY <1>3, <1>5, <2>1, <2>2
<1>9. CASE ReadPaused(w)
  <2>1. PICK at \in {"checkpoint", "body"} :
          worker' = [worker EXCEPT ![w].at = at]
    BY <1>9 DEF ReadPaused
  <2>2. worker[w].at \in Reserving
    BY <1>3, <1>9 DEF ReadPaused
  <2> QED
    BY <1>3, <1>5, <2>1, <2>2
<1>10. CASE Return(w)
  BY <1>3, <1>6, <1>10 DEF Return
<1>11. CASE ReadCancelled(w)
  <2>1. \/ worker' = [worker EXCEPT ![w].at = "checked"]
        \/ worker' = [worker EXCEPT ![w].at = "store", ![w].outcome = "Cancelled"]
    BY <1>11 DEF ReadCancelled
  <2>2. worker[w].at \in Reserving
    BY <1>3, <1>11 DEF ReadCancelled
  <2> QED
    BY <1>3, <1>5, <1>6, <2>1, <2>2 DEF Terminal
<1>12. CASE Phase(w) \/ Chunk(w)
  <2> DEFINE n == worker[w].chunks + 1
             r1 == [worker[w] EXCEPT !.chunks = n]
             r2 == [r1 EXCEPT !.at = "checkpoint"]
  <2>1. worker[w].at = "body" /\ worker[w].at \in Reserving
    BY <1>3, <1>12 DEF Phase, Chunk
  <2>2. /\ r1 \in WorkerState /\ r1.at = "body" /\ r1.job = worker[w].job
        /\ r1.threads = worker[w].threads
    BY <1>1, <2>1 DEF WorkerState
  <2>3. CASE Phase(w)
    <3>1. worker' = [worker EXCEPT ![w] = r1]
      BY <1>1, <2>3 DEF Phase
    <3> HIDE DEF r1
    <3> QED
      BY <1>2, <1>3, <2>1, <2>2, <3>1
  <2>4. CASE Chunk(w)
    <3>1. worker' = [[worker EXCEPT ![w].chunks = n]
                       EXCEPT ![w].at = "checkpoint"]
      BY <2>4 DEF Chunk
    <3>2. worker' = [worker EXCEPT ![w] = r2]
      BY <1>1, <3>1
    <3> HIDE DEF r1
    <3>3. /\ r2 \in WorkerState /\ r2.at = "checkpoint" /\ r2.job = r1.job
          /\ r2.threads = r1.threads
      BY <1>3, <1>4, <2>2
    <3> HIDE DEF r2
    <3> QED
      BY <1>2, <1>3, <2>1, <2>2, <3>2, <3>3
  <2> QED
    BY <1>12, <2>3, <2>4
<1> QED
  BY <1>7, <1>8, <1>9, <1>10, <1>11, <1>12 DEF Body

\* A worker at the end of its loop.
\* [queue.rs reserve_next_job, worker_loop, release_resources]
LEMMA LoopSteps ==
  ASSUME Sound, NEW w \in Workers,
         Reserve(w) \/ Sleep(w) \/ Exit(w) \/ Release(w)
  PROVE  /\ worker' \in [Workers -> WorkerState]
         /\ \A v \in Workers \ {w} :
              /\ worker'[v].at = IF Release(w) /\ worker[v].at = "asleep"
                                 THEN "look" ELSE worker[v].at
              /\ worker'[v].job = worker[v].job
              /\ worker'[v].threads = worker[v].threads
              /\ worker'[v].outcome = worker[v].outcome
         /\ worker'[w].at # "store"
         /\ Reserve(w) => /\ worker'[w].at = "claim"
                          /\ worker'[w].job = queue[First]
                          /\ worker'[w].threads = Need(queue[First])
                          /\ Places # {} /\ Need(queue[First]) \in Nat
         /\ Sleep(w) => worker'[w].at = "asleep"
         /\ Exit(w) => worker'[w].at = "exited"
         /\ Release(w) => worker'[w].at = "look"
<1>1. TypeOK /\ worker \in [Workers -> WorkerState]
  BY DEF Sound, Typed, TypeOK
<1>2. Resting \in WorkerState
  BY DEF Resting, WorkerState, WorkerAt
<1>3. ASSUME NEW r \in WorkerState, worker' = WorkerGoes(w, r)
      PROVE  /\ worker' \in [Workers -> WorkerState]
             /\ worker'[w] = r
             /\ \A v \in Workers \ {w} :
                  /\ worker'[v].at = worker[v].at
                  /\ worker'[v].job = worker[v].job
                  /\ worker'[v].threads = worker[v].threads
                  /\ worker'[v].outcome = worker[v].outcome
  BY <1>1, <1>3, GoesIs
<1>4. CASE Reserve(w)
  <2> DEFINE j == queue[First]
             r == [Resting EXCEPT !.at = "claim", !.job = j,
                                  !.threads = Need(j)]
  <2>1. Places # {} /\ worker' = WorkerGoes(w, r)
    BY <1>4 DEF Reserve, Claimable
  <2>2. j \in Jobs
    BY <1>1, <2>1, FirstIs DEF TypeOK
  <2>3. Need(j) \in Nat
    BY <2>2, ConstantsAssumption DEF Need
  <2> DEFINE n == Need(j)
  <2> HIDE DEF j, n
  <2>4. r = [at |-> "claim", job |-> j, threads |-> n, chunks |-> 0,
             outcome |-> "none"]
    <3> DEFINE r0 == [Resting EXCEPT !.at = "claim"]
               r1 == [at |-> "claim", job |-> j, threads |-> 0, chunks |-> 0,
                      outcome |-> "none"]
    <3>1. r0 = [at |-> "claim", job |-> NoJob, threads |-> 0, chunks |-> 0,
                outcome |-> "none"]
      BY DEF Resting
    <3>2. r = [[r0 EXCEPT !.job = j] EXCEPT !.threads = n]
      BY DEF n
    <3> HIDE DEF r0, r
    <3>3. [r0 EXCEPT !.job = j] = r1
      BY <3>1
    <3>4. r = [r1 EXCEPT !.threads = n]
      BY <3>2, <3>3
    <3> QED
      BY <3>4
  <2> HIDE DEF r
  <2>5. /\ r \in WorkerState /\ r.at = "claim" /\ r.job = j
        /\ r.threads = n
    BY <2>2, <2>3, <2>4 DEF WorkerState, WorkerAt, Reserving, n
  <2>6. ~Sleep(w) /\ ~Exit(w) /\ ~Release(w)
    BY <1>4 DEF Reserve, Sleep, Exit, Release
  <2> QED
    BY <1>3, <2>1, <2>3, <2>5, <2>6 DEF j, n
<1>5. CASE Sleep(w)
  <2> DEFINE r == [Resting EXCEPT !.at = "asleep"]
  <2>1. r \in WorkerState /\ r.at = "asleep"
    BY DEF Resting, WorkerState, WorkerAt
  <2>2. worker' = WorkerGoes(w, r) /\ ~Reserve(w) /\ ~Exit(w) /\ ~Release(w)
    BY <1>5 DEF Reserve, Sleep, Exit, Release
  <2> HIDE DEF r
  <2> QED
    BY <1>3, <2>1, <2>2
<1>6. CASE Exit(w)
  <2> DEFINE r == [Resting EXCEPT !.at = "exited"]
  <2>1. r \in WorkerState /\ r.at = "exited"
    BY DEF Resting, WorkerState, WorkerAt
  <2>2. worker' = WorkerGoes(w, r) /\ ~Reserve(w) /\ ~Sleep(w) /\ ~Release(w)
    BY <1>6 DEF Reserve, Sleep, Exit, Release
  <2> HIDE DEF r
  <2> QED
    BY <1>3, <2>1, <2>2
<1>7. CASE Release(w)
  <2> DEFINE ws == WorkerGoes(w, Resting)
  <2>1. /\ worker' = Awake(ws)
        /\ ~Reserve(w) /\ ~Sleep(w) /\ ~Exit(w)
    BY <1>7 DEF Reserve, Sleep, Exit, Release
  <2>2. /\ ws \in [Workers -> WorkerState] /\ ws[w] = Resting
        /\ \A v \in Workers \ {w} : ws[v] = worker[v]
    BY <1>1, <1>2, GoesIs
  <2>3. Resting.at = "look"
    BY DEF Resting
  <2> HIDE DEF ws
  <2> QED
    BY <1>7, <2>1, <2>2, <2>3, AwakeIs
<1> QED
  BY <1>4, <1>5, <1>6, <1>7

\* Adding to a set what it does not have, and taking away what it has.
LEMMA Sums ==
  ASSUME NEW S, NEW T, IsFiniteSet(S), IsFiniteSet(T)
  PROVE  /\ IsFiniteSet(S \cup T) /\ IsFiniteSet(S \ T)
         /\ S \cap T = {} =>
              Cardinality(S \cup T) = Cardinality(S) + Cardinality(T)
         /\ S \cap T = T =>
              /\ Cardinality(S \ T) = Cardinality(S) - Cardinality(T)
              /\ Cardinality(T) <= Cardinality(S)
<1>1. /\ IsFiniteSet(S \cup T)
      /\ Cardinality(S \cup T) =
           Cardinality(S) + Cardinality(T) - Cardinality(S \cap T)
  BY FS_Union
<1>2. /\ IsFiniteSet(S \ T)
      /\ Cardinality(S \ T) = Cardinality(S) - Cardinality(S \cap T)
  BY FS_Difference
<1>3. Cardinality(S \cap T) <= Cardinality(S)
  BY FS_Intersection
<1>4. Cardinality({}) = 0
  BY FS_EmptySet
<1>5. Cardinality(S) \in Nat /\ Cardinality(T) \in Nat
  BY FS_CardinalityType
<1>6. ASSUME S \cap T = {}
      PROVE  Cardinality(S \cup T) = Cardinality(S) + Cardinality(T)
  <2>1. Cardinality(S \cap T) = 0
    BY <1>4, <1>6
  <2> QED
    BY <1>1, <1>5, <2>1
<1>7. ASSUME S \cap T = T
      PROVE  /\ Cardinality(S \ T) = Cardinality(S) - Cardinality(T)
             /\ Cardinality(T) <= Cardinality(S)
  <2>1. Cardinality(S \cap T) = Cardinality(T)
    BY <1>7
  <2> QED
    BY <1>2, <1>3, <2>1
<1> QED
  BY <1>1, <1>2, <1>6, <1>7

\* The threads that one worker reserves.
LEMMA ShareIs ==
  ASSUME NEW w, NEW n \in Nat
  PROVE  IsFiniteSet({w} \X (1..n)) /\ Cardinality({w} \X (1..n)) = n
<1>1. IsFiniteSet({w}) /\ Cardinality({w}) = 1
  BY FS_Singleton
<1>2. IsFiniteSet(1..n) /\ Cardinality(1..n) = n
  BY FS_Interval
<1>3. /\ IsFiniteSet({w} \X (1..n))
      /\ Cardinality({w} \X (1..n)) = Cardinality({w}) * Cardinality(1..n)
  BY <1>1, <1>2, FS_Product
<1> QED
  BY <1>1, <1>2, <1>3

\* A reservation is counted.  [queue.rs reserve_next_job]
LEMMA Taken ==
  ASSUME Counters, cpu \in Nat, NEW w \in Workers, NEW n \in Nat,
         worker[w].at \notin Reserving, worker'[w].at \in Reserving,
         worker'[w].threads = n,
         \A v \in Workers \ {w} :
           /\ worker'[v].at \in Reserving <=> worker[v].at \in Reserving
           /\ worker'[v].threads = worker[v].threads,
         running' = running + 1, cpu' = cpu + n, cpu + n <= Budget
  PROVE  Counters'
<1> DEFINE share == {w} \X (1..n)
<1>1. Holding' = Holding \cup {w} /\ w \notin Holding
  BY DEF Holding
<1>2. IsFiniteSet(Holding)
  BY ConstantsAssumption, FS_Subset DEF Holding
<1>3. Cardinality(Holding') = Cardinality(Holding) + 1
  BY <1>1, <1>2, FS_AddElement
<1>4. Reserved' = Reserved \cup share
  <2>1. \A v \in Holding : worker'[v].threads = worker[v].threads
    BY <1>1 DEF Holding
  <2> QED
    BY <1>1, <2>1 DEF Reserved
<1>5. Reserved \cap share = {}
  BY <1>1 DEF Reserved
<1>6. IsFiniteSet(share) /\ Cardinality(share) = n
  BY ShareIs
<1> HIDE DEF share
<1>7. /\ IsFiniteSet(Reserved \cup share)
      /\ Cardinality(Reserved \cup share) = Cardinality(Reserved) + n
  <2>1. IsFiniteSet(Reserved)
    BY DEF Counters
  <2> QED
    BY <1>5, <1>6, <2>1, Sums
<1> QED
  BY <1>3, <1>4, <1>7 DEF Counters

\* What a worker gives back is what it took.  [queue.rs release_resources]
LEMMA GivenBack ==
  ASSUME Counters, running \in Nat, cpu \in Nat, NEW w \in Workers,
         worker[w].at \in Reserving, worker'[w].at \notin Reserving,
         worker[w].threads \in Nat,
         \A v \in Workers \ {w} :
           /\ worker'[v].at \in Reserving <=> worker[v].at \in Reserving
           /\ worker'[v].threads = worker[v].threads,
         running' = running - 1, cpu' = cpu - worker[w].threads
  PROVE  Counters' /\ running' \in Nat /\ cpu' \in Nat
<1> DEFINE n == worker[w].threads
           share == {w} \X (1..n)
<1>1. Holding' = Holding \ {w} /\ w \in Holding
  BY DEF Holding
<1>2. IsFiniteSet(Holding)
  BY ConstantsAssumption, FS_Subset DEF Holding
<1>3. Cardinality(Holding') = Cardinality(Holding) - 1 /\ Cardinality(Holding) # 0
  BY <1>1, <1>2, FS_RemoveElement, FS_EmptySet
<1>4. Reserved' = Reserved \ share
  <2>1. \A v \in Holding' : worker'[v].threads = worker[v].threads
    BY <1>1 DEF Holding
  <2> QED
    BY <1>1, <2>1 DEF Reserved
<1>5. Reserved \cap share = share
  BY <1>1 DEF Reserved
<1>6. IsFiniteSet(share) /\ Cardinality(share) = n
  BY ShareIs
<1> HIDE DEF share
<1>7. /\ IsFiniteSet(Reserved \ share)
      /\ Cardinality(Reserved \ share) = Cardinality(Reserved) - n
      /\ n <= Cardinality(Reserved)
  <2>1. IsFiniteSet(Reserved)
    BY DEF Counters
  <2> HIDE DEF n
  <2> QED
    BY <1>5, <1>6, <2>1, Sums
<1>8. /\ running = Cardinality(Holding) /\ cpu = Cardinality(Reserved)
      /\ cpu <= Budget
  BY DEF Counters
<1>9. /\ Cardinality(Holding') \in Nat /\ running' = Cardinality(Holding')
  BY <1>3, <1>8
<1>10. /\ IsFiniteSet(Reserved') /\ Cardinality(Reserved') = cpu - n
  BY <1>4, <1>7, <1>8
<1>11. cpu - n \in Nat /\ cpu - n <= Budget
  <2>1. n \in Nat /\ Budget \in Nat /\ n <= cpu
    BY <1>7, <1>8, ConstantsAssumption
  <2> HIDE DEF n
  <2> QED
    BY <1>8, <2>1
<1> QED
  BY <1>9, <1>10, <1>11 DEF Counters

\* A worker's steps with a job it holds.  [queue.rs claim_job, worker_loop]
LEMMA HoldersKeep ==
  ASSUME Sound, NEW w \in Workers, Claim(w) \/ Body(w) \/ Store(w)
  PROVE  Sound'
<1> DEFINE k == worker[w].job
<1>1. /\ worker' \in [Workers -> WorkerState]
      /\ \A v \in Workers \ {w} : worker'[v] = worker[v]
      /\ worker[w].at \in Reserving /\ worker'[w].at \in Reserving
      /\ worker'[w].job = worker[w].job
      /\ worker'[w].threads = worker[w].threads
      /\ worker'[w].at = "store" => worker'[w].outcome \in Terminal
  BY HolderSteps
<1>2. /\ TypeOK /\ Typed /\ Listed /\ HeldOnce /\ Unused /\ Counters /\ Quiet
      /\ WorkersCalled /\ WaitersCalled
  BY DEF Sound, Typed
<1>3. UNCHANGED <<queue, running, cpu, ceiling, shutdown, caller, submitted,
                  calls, caught>>
  BY DEF Claim, Store, Body, Phase, Chunk, ReadCancelled, ReadPaused, Return,
         limits, history
<1>4. k \in 1..submitted
  BY <1>1, <1>2 DEF HeldOnce, Holding
<1>5. /\ k \in Jobs /\ submitted \in Nat
  BY <1>2, <1>4, ConstantsAssumption DEF TypeOK, Jobs
<1> HIDE DEF k
<1>6. /\ slots' \in [Jobs -> Slot]
      /\ \A j \in Jobs \ {k} : slots'[j] = slots[j]
  <2>1. slots \in [Jobs -> Slot] /\ slots[k] \in Slot
    BY <1>2, <1>5 DEF TypeOK
  <2>2. ASSUME NEW r \in Slot, slots' = [slots EXCEPT ![k] = r]
        PROVE  /\ slots' \in [Jobs -> Slot]
               /\ \A j \in Jobs \ {k} : slots'[j] = slots[j]
    BY <2>1, <2>2
  <2>3. CASE slots' = slots
    BY <2>1, <2>3
  <2>4. CASE Claim(w)
    <3> DEFINE s == IF slots[k].paused THEN "Paused" ELSE "Running"
               r == [[slots[k] EXCEPT !.state = s] EXCEPT !.closure = FALSE]
    <3>1. CASE slots' = [slots EXCEPT ![k].state = s, ![k].closure = FALSE]
      <4>1. slots' = [slots EXCEPT ![k] = r]
        <5>1. slots' = [[slots EXCEPT ![k].state = s]
                          EXCEPT ![k].closure = FALSE]
          BY <3>1
        <5> QED
          BY <2>1, <5>1
      <4>2. r \in Slot
        BY <2>1 DEF Slot, JobStates
      <4> HIDE DEF r
      <4> QED
        BY <2>2, <4>1, <4>2
    <3> QED
      BY <2>3, <2>4, <3>1 DEF Claim, k
  <2>5. CASE Store(w)
    <3> DEFINE o == worker[w].outcome
               r == [slots[k] EXCEPT !.state = o]
    <3>1. o \in Terminal
      BY <1>2, <2>5 DEF Store, Typed
    <3>2. slots' = [slots EXCEPT ![k].state = o]
      BY <2>5 DEF Store, k
    <3> HIDE DEF o
    <3>3. slots' = [slots EXCEPT ![k] = r]
      BY <2>1, <3>2
    <3>4. r \in Slot
      BY <2>1, <3>1 DEF Slot, JobStates
    <3> HIDE DEF r
    <3> QED
      BY <2>2, <3>3, <3>4
  <2>6. CASE Phase(w)
    <3>1. PICK b \in BOOLEAN : slots' = [slots EXCEPT ![k].interruptible = b]
      BY <2>6 DEF Phase, k
    <3> DEFINE r == [slots[k] EXCEPT !.interruptible = b]
    <3>2. slots' = [slots EXCEPT ![k] = r]
      BY <2>1, <3>1
    <3>3. r \in Slot
      BY <2>1 DEF Slot
    <3> HIDE DEF r
    <3> QED
      BY <2>2, <3>2, <3>3
  <2> QED
    BY <2>3, <2>4, <2>5, <2>6
    DEF Body, Chunk, ReadCancelled, ReadPaused, Return
<1>7. starts' \in [Jobs -> Nat] /\ ended' \in SUBSET Jobs
  <2>1. starts \in [Jobs -> Nat] /\ starts[k] \in Nat /\ ended \in SUBSET Jobs
    BY <1>2, <1>5 DEF TypeOK
  <2>2. CASE Claim(w)
    <3>1. \/ starts' = [starts EXCEPT ![k] = @ + 1]
          \/ starts' = starts
      BY <2>2 DEF Claim, k
    <3>2. ended' = ended
      BY <2>2 DEF Claim
    <3> QED
      BY <2>1, <3>1, <3>2
  <2>3. CASE Store(w)
    BY <1>5, <2>1, <2>3 DEF Store, k
  <2>4. CASE Body(w)
    BY <2>1, <2>4
    DEF Body, Phase, Chunk, ReadCancelled, ReadPaused, Return, history
  <2> QED
    BY <2>2, <2>3, <2>4
<1>8. TypeOK'
  BY <1>1, <1>2, <1>3, <1>6, <1>7 DEF TypeOK
<1>9. Typed'
  <2>1. ASSUME NEW v \in Workers, worker'[v].at = "store"
        PROVE  worker'[v].outcome \in Terminal
    BY <1>1, <1>2, <2>1 DEF Typed
  <2> QED
    BY <1>8, <2>1 DEF Typed
<1>10. Listed' /\ HeldOnce'
  <2>1. Distinct(queue)' /\ Elems(queue)' = Elems(queue)
    BY <1>2, <1>3 DEF Listed
  <2>2. \A c \in Callers :
          Pushing(c)' => Pushing(c) /\ caller'[c].job = caller[c].job
    BY <1>3 DEF Pushing
  <2>3. \A v \in Workers : worker'[v].at \in Reserving =>
          worker[v].at \in Reserving /\ worker'[v].job = worker[v].job
    BY <1>1
  <2> QED
    BY <1>2, <1>3, <2>1, <2>2, <2>3, StaysListed
<1>11. Unused'
  BY <1>2, <1>3, <1>4, <1>5, <1>6, StaysUnused
<1>12. Counters'
  <2>1. \A v \in Workers :
          /\ worker'[v].at \in Reserving <=> worker[v].at \in Reserving
          /\ worker[v].at \in Reserving =>
               worker'[v].threads = worker[v].threads
    BY <1>1
  <2> QED
    BY <1>2, <1>3, <2>1, StaysCounted
<1>13. Quiet'
  BY <1>2, <1>3 DEF Quiet
<1>14. "asleep" \notin Reserving /\ "look" \notin Reserving
  BY DEF Reserving, Executing
<1>15. WorkersCalled'
  BY <1>1, <1>14 DEF WorkersCalled
<1>16. WaitersCalled'
  <2>1. \A v \in Workers : worker[v].at = "look" => worker'[v].at = "look"
    BY <1>1, <1>14
  <2> QED
    BY <1>2, <1>3, <2>1, WaitersStayCalled
<1> QED
  BY <1>9, <1>10, <1>11, <1>12, <1>13, <1>15, <1>16 DEF Sound

\* A worker takes a job.  [queue.rs reserve_next_job]
LEMMA ReserveKeeps ==
  ASSUME Sound, NEW w \in Workers, Reserve(w)
  PROVE  Sound'
<1>1. /\ TypeOK /\ Typed /\ Listed /\ HeldOnce /\ Unused /\ Counters /\ Quiet
      /\ WorkersCalled /\ WaitersCalled
  BY DEF Sound, Typed
<1> DEFINE k == queue[First]
           n == Need(k)
<1>2. /\ worker' \in [Workers -> WorkerState]
      /\ \A v \in Workers \ {w} :
           /\ worker'[v].at = worker[v].at
           /\ worker'[v].job = worker[v].job
           /\ worker'[v].threads = worker[v].threads
           /\ worker'[v].outcome = worker[v].outcome
      /\ worker'[w].at = "claim" /\ worker'[w].job = k
      /\ worker'[w].threads = n /\ Places # {} /\ n \in Nat
  <2>1. ~Release(w)
    BY DEF Reserve, Release
  <2> QED
    BY <2>1, LoopSteps
<1>3. /\ worker[w].at = "look" /\ ~shutdown /\ running < ceiling
      /\ queue' = Without(Gone \cup {k}) /\ Fits(k)
      /\ running' = running + 1 /\ cpu' = cpu + n
      /\ UNCHANGED <<slots, ceiling, shutdown, caller, submitted, calls, starts,
                     caught, ended>>
  BY DEF Reserve, Claimable, history
<1>4. "claim" \in Reserving /\ "look" \notin Reserving
  BY DEF Reserving, Executing
<1>5. /\ queue \in Seq(Jobs) /\ running \in Nat /\ cpu \in Nat
      /\ submitted \in 0..MaxJobs
  BY <1>1 DEF TypeOK
<1>6. k \in Jobs /\ k \in Elems(queue)
  BY <1>2, <1>5, FirstIs DEF Elems
<1>7. /\ queue' \in Seq(Jobs) /\ Distinct(queue)'
      /\ Elems(queue)' \subseteq Elems(queue) \ {k}
  <2>1. Distinct(queue)
    BY <1>1 DEF Listed
  <2> QED
    BY <1>3, <1>5, <2>1, WithoutIs
<1>8. cpu + n <= Budget
  BY <1>1, <1>2, <1>3, <1>5, ConstantsAssumption DEF Fits, Need
<1> HIDE DEF k, n
<1>9. TypeOK'
  <2>1. running' \in Nat /\ cpu' \in Nat
    BY <1>2, <1>3, <1>5
  <2> QED
    BY <1>1, <1>2, <1>3, <1>7, <2>1 DEF TypeOK
<1>10. Typed'
  BY <1>1, <1>2, <1>9 DEF Typed
<1>11. Holding' = Holding \cup {w} /\ w \notin Holding
  BY <1>2, <1>3, <1>4 DEF Holding
<1>12. \A v \in Holding : v # w /\ worker'[v].job = worker[v].job
  BY <1>2, <1>11 DEF Holding
<1>13. Listed'
  BY <1>1, <1>3, <1>7 DEF Listed, Pushing
<1>14. HeldOnce'
  <2>1. k \in (1..submitted) \ Elems(queue)'
    BY <1>1, <1>6, <1>7 DEF Listed
  <2>2. \A v \in Holding : worker[v].job # k
    BY <1>1, <1>6 DEF HeldOnce
  <2>3. \A c \in Callers : Pushing(c) => caller[c].job # k
    BY <1>1, <1>6 DEF Listed
  <2>4. \A v \in Holding' :
          \/ v = w /\ worker'[v].job = k
          \/ v \in Holding /\ v # w /\ worker'[v].job = worker[v].job
    BY <1>2, <1>11, <1>12
  <2>5. \A c \in Callers : Pushing(c)' <=> Pushing(c)
    BY <1>3 DEF Pushing
  <2>6. \A v \in Holding' : worker'[v].job \in (1..submitted') \ Elems(queue)'
    BY <1>1, <1>3, <1>7, <2>1, <2>4 DEF HeldOnce
  <2>7. \A v \in Holding', c \in Callers :
          Pushing(c)' => caller'[c].job # worker'[v].job
    BY <1>1, <1>3, <2>3, <2>4, <2>5 DEF HeldOnce
  <2>8. \A u, v \in Holding' : worker'[u].job = worker'[v].job => u = v
    BY <1>1, <2>2, <2>4 DEF HeldOnce
  <2> QED
    BY <2>6, <2>7, <2>8 DEF HeldOnce
<1>15. Unused' /\ Quiet'
  BY <1>1, <1>3 DEF Unused, Quiet
<1>16. Counters'
  <2>1. \A v \in Workers \ {w} :
          /\ worker'[v].at \in Reserving <=> worker[v].at \in Reserving
          /\ worker'[v].threads = worker[v].threads
    BY <1>2
  <2> QED
    BY <1>1, <1>2, <1>3, <1>4, <1>5, <1>8, <2>1, Taken
<1>17. WorkersCalled'
  BY <1>2 DEF WorkersCalled
<1>18. WaitersCalled'
  BY <1>3, <1>5 DEF WaitersCalled
<1> QED
  BY <1>10, <1>13, <1>14, <1>15, <1>16, <1>17, <1>18 DEF Sound

\* Nobody reserves anything.
LEMMA NoneHeld ==
  ASSUME Counters, \A w \in Workers : worker[w].at \notin Reserving
  PROVE  running = 0 /\ cpu = 0
<1>1. Holding = {}
  BY DEF Holding
<1>2. Reserved = {}
  BY <1>1 DEF Reserved
<1> QED
  BY <1>1, <1>2, FS_EmptySet DEF Counters

\* A worker finds nothing to do.  When it was the last one awake, nothing is
\* reserved, so that neither limit held a job back.
\* [queue.rs reserve_next_job, worker_loop]
LEMMA SleepKeeps ==
  ASSUME Sound, NEW w \in Workers, Sleep(w)
  PROVE  Sound'
<1>1. /\ TypeOK /\ Typed /\ Listed /\ HeldOnce /\ Unused /\ Counters /\ Quiet
      /\ WorkersCalled /\ WaitersCalled
  BY DEF Sound, Typed
<1>2. /\ worker' \in [Workers -> WorkerState]
      /\ \A v \in Workers \ {w} :
           /\ worker'[v].at = worker[v].at
           /\ worker'[v].job = worker[v].job
           /\ worker'[v].threads = worker[v].threads
           /\ worker'[v].outcome = worker[v].outcome
      /\ worker'[w].at = "asleep"
  <2>1. ~Release(w)
    BY DEF Sleep, Release
  <2> QED
    BY <2>1, LoopSteps
<1>3. /\ worker[w].at = "look" /\ ~shutdown /\ ~Claimable
      /\ queue' = queue \/ queue' = Without(Gone)
      /\ caller' = IdleAwake(caller)
      /\ UNCHANGED <<slots, running, cpu, ceiling, shutdown, submitted, calls,
                     starts, caught, ended>>
  BY DEF Sleep, history, limits
<1>4. "asleep" \notin Reserving /\ "look" \notin Reserving
  BY DEF Reserving, Executing
<1>5. queue \in Seq(Jobs) /\ caller \in [Callers -> CallerState]
  BY <1>1 DEF TypeOK
<1>6. /\ caller' \in [Callers -> CallerState]
      /\ \A c \in Callers :
           /\ caller'[c].at = IF caller[c].at = "idleAsleep" THEN "idleLook"
                              ELSE caller[c].at
           /\ caller'[c].job = caller[c].job
  BY <1>3, <1>5, IdleAwakeIs
<1>7. /\ queue' \in Seq(Jobs) /\ Distinct(queue)'
      /\ Elems(queue)' \subseteq Elems(queue)
  <2>1. Distinct(queue)
    BY <1>1 DEF Listed
  <2>2. CASE queue' = queue
    BY <1>5, <2>1, <2>2
  <2>3. CASE queue' = Without(Gone)
    BY <1>5, <2>1, <2>3, WithoutIs
  <2> QED
    BY <1>3, <2>2, <2>3
<1>8. TypeOK'
  BY <1>1, <1>2, <1>3, <1>6, <1>7 DEF TypeOK
<1>9. Typed'
  BY <1>1, <1>2, <1>8 DEF Typed
<1>10. Listed' /\ HeldOnce'
  <2>1. \A c \in Callers :
          Pushing(c)' => Pushing(c) /\ caller'[c].job = caller[c].job
    BY <1>6 DEF Pushing
  <2>2. \A v \in Workers : worker'[v].at \in Reserving =>
          worker[v].at \in Reserving /\ worker'[v].job = worker[v].job
    BY <1>2, <1>4
  <2> QED
    BY <1>1, <1>3, <1>7, <2>1, <2>2, StaysListed
<1>11. Unused'
  BY <1>1, <1>3 DEF Unused
<1>12. Counters'
  <2>1. \A v \in Workers :
          /\ worker'[v].at \in Reserving <=> worker[v].at \in Reserving
          /\ worker[v].at \in Reserving =>
               worker'[v].threads = worker[v].threads
    BY <1>2, <1>3, <1>4
  <2> QED
    BY <1>1, <1>3, <2>1, StaysCounted
<1>13. Quiet'
  BY <1>1, <1>3, <1>6 DEF Quiet
<1>14. WorkersCalled'
  <2> SUFFICES ASSUME \A v \in Workers : worker'[v].at = "asleep",
                      NEW j \in Elems(queue)'
               PROVE  ~Reorderable(j)'
    BY DEF WorkersCalled
  <2>1. \A v \in Workers : worker[v].at \notin Reserving
    BY <1>2, <1>3, <1>4
  <2>2. running = 0 /\ cpu = 0
    BY <1>1, <2>1, NoneHeld
  <2>3. running < ceiling /\ Fits(queue[First])
    BY <1>1, <2>2 DEF TypeOK, Fits
  <2>4. Places = {}
    BY <1>3, <2>3 DEF Claimable
  <2>5. j \in Elems(queue)
    BY <1>7
  <2>6. ~Reorderable(j)
    BY <1>5, <2>4, <2>5 DEF Places, Elems
  <2> QED
    BY <1>3, <2>6 DEF Reorderable
<1>15. WaitersCalled'
  BY <1>6 DEF WaitersCalled
<1> QED
  BY <1>9, <1>10, <1>11, <1>12, <1>13, <1>14, <1>15 DEF Sound

\* A worker leaves.  [queue.rs worker_loop]
LEMMA ExitKeeps ==
  ASSUME Sound, NEW w \in Workers, Exit(w)
  PROVE  Sound'
<1>1. /\ TypeOK /\ Typed /\ Listed /\ HeldOnce /\ Unused /\ Counters /\ Quiet
  BY DEF Sound, Typed
<1>2. /\ worker' \in [Workers -> WorkerState]
      /\ \A v \in Workers \ {w} :
           /\ worker'[v].at = worker[v].at
           /\ worker'[v].job = worker[v].job
           /\ worker'[v].threads = worker[v].threads
           /\ worker'[v].outcome = worker[v].outcome
      /\ worker'[w].at = "exited"
  <2>1. ~Release(w)
    BY DEF Exit, Release
  <2> QED
    BY <2>1, LoopSteps
<1>3. /\ worker[w].at = "look" /\ shutdown
      /\ UNCHANGED <<slots, queue, running, cpu, ceiling, shutdown, caller,
                     submitted, calls, starts, caught, ended>>
  BY DEF Exit, history, limits
<1>4. "exited" \notin Reserving /\ "look" \notin Reserving
  BY DEF Reserving, Executing
<1>5. TypeOK'
  BY <1>1, <1>2, <1>3 DEF TypeOK
<1>6. Typed'
  BY <1>1, <1>2, <1>5 DEF Typed
<1>7. Listed' /\ HeldOnce'
  <2>1. Distinct(queue)' /\ Elems(queue)' \subseteq Elems(queue)
    BY <1>1, <1>3 DEF Listed
  <2>2. \A c \in Callers :
          Pushing(c)' => Pushing(c) /\ caller'[c].job = caller[c].job
    BY <1>3 DEF Pushing
  <2>3. \A v \in Workers : worker'[v].at \in Reserving =>
          worker[v].at \in Reserving /\ worker'[v].job = worker[v].job
    BY <1>2, <1>4
  <2> QED
    BY <1>1, <1>3, <2>1, <2>2, <2>3, StaysListed
<1>8. Unused' /\ Quiet'
  BY <1>1, <1>3 DEF Unused, Quiet
<1>9. Counters'
  <2>1. \A v \in Workers :
          /\ worker'[v].at \in Reserving <=> worker[v].at \in Reserving
          /\ worker[v].at \in Reserving =>
               worker'[v].threads = worker[v].threads
    BY <1>2, <1>3, <1>4
  <2> QED
    BY <1>1, <1>3, <2>1, StaysCounted
<1>10. WorkersCalled'
  BY <1>2 DEF WorkersCalled
<1>11. WaitersCalled'
  <2>1. \A c \in Callers : caller'[c].at = "idle"
    BY <1>1, <1>3 DEF Quiet
  <2> QED
    BY <2>1 DEF WaitersCalled
<1> QED
  BY <1>6, <1>7, <1>8, <1>9, <1>10, <1>11 DEF Sound

\* A worker gives its reservation back and everybody is told.
\* [queue.rs release_resources]
LEMMA ReleaseKeeps ==
  ASSUME Sound, NEW w \in Workers, Release(w)
  PROVE  Sound'
<1>1. /\ TypeOK /\ Typed /\ Listed /\ HeldOnce /\ Unused /\ Counters /\ Quiet
  BY DEF Sound, Typed
<1>2. /\ worker' \in [Workers -> WorkerState]
      /\ \A v \in Workers \ {w} :
           /\ worker'[v].at = IF worker[v].at = "asleep" THEN "look"
                              ELSE worker[v].at
           /\ worker'[v].job = worker[v].job
           /\ worker'[v].threads = worker[v].threads
           /\ worker'[v].outcome = worker[v].outcome
      /\ worker'[w].at = "look"
  BY LoopSteps
<1>3. /\ worker[w].at = "release" /\ caller' = IdleAwake(caller)
      /\ running' = running - 1 /\ cpu' = cpu - worker[w].threads
      /\ UNCHANGED <<slots, queue, ceiling, shutdown, submitted, calls, starts,
                     caught, ended>>
  BY DEF Release, history
<1>4. /\ "asleep" \notin Reserving /\ "look" \notin Reserving
      /\ "release" \in Reserving
  BY DEF Reserving, Executing
<1>5. /\ running \in Nat /\ cpu \in Nat /\ worker[w].threads \in Nat
      /\ caller \in [Callers -> CallerState]
  BY <1>1 DEF TypeOK, WorkerState
<1>6. /\ caller' \in [Callers -> CallerState]
      /\ \A c \in Callers :
           /\ caller'[c].at = IF caller[c].at = "idleAsleep" THEN "idleLook"
                              ELSE caller[c].at
           /\ caller'[c].job = caller[c].job
  BY <1>3, <1>5, IdleAwakeIs
<1>7. Counters' /\ running' \in Nat /\ cpu' \in Nat
  <2>1. \A v \in Workers \ {w} :
          /\ worker'[v].at \in Reserving <=> worker[v].at \in Reserving
          /\ worker'[v].threads = worker[v].threads
    BY <1>2, <1>4
  <2> QED
    BY <1>1, <1>2, <1>3, <1>4, <1>5, <2>1, GivenBack
<1>8. TypeOK'
  BY <1>1, <1>2, <1>3, <1>6, <1>7 DEF TypeOK
<1>9. Typed'
  <2>1. \A v \in Workers : worker'[v].at = "store" =>
          worker[v].at = "store" /\ worker'[v].outcome = worker[v].outcome
    BY <1>2
  <2> QED
    BY <1>1, <1>8, <2>1 DEF Typed
<1>10. Listed' /\ HeldOnce'
  <2>1. Distinct(queue)' /\ Elems(queue)' \subseteq Elems(queue)
    BY <1>1, <1>3 DEF Listed
  <2>2. \A c \in Callers :
          Pushing(c)' => Pushing(c) /\ caller'[c].job = caller[c].job
    BY <1>6 DEF Pushing
  <2>3. \A v \in Workers : worker'[v].at \in Reserving =>
          worker[v].at \in Reserving /\ worker'[v].job = worker[v].job
    BY <1>2, <1>4
  <2> QED
    BY <1>1, <1>3, <2>1, <2>2, <2>3, StaysListed
<1>11. Unused' /\ Quiet'
  BY <1>1, <1>3, <1>6 DEF Unused, Quiet
<1>12. WorkersCalled'
  BY <1>2 DEF WorkersCalled
<1>13. WaitersCalled'
  BY <1>6 DEF WaitersCalled
<1> QED
  BY <1>7, <1>9, <1>10, <1>11, <1>12, <1>13 DEF Sound

\* A caller's step that starts no push, touches no worker and tells nobody
\* yet.
LEMMA CallsKeep ==
  ASSUME Sound, NEW c \in Callers,
         UNCHANGED <<worker, running, cpu, ceiling, shutdown, submitted, starts>>,
         slots' \in [Jobs -> Slot], queue' \in Seq(Jobs), calls' \in 0..MaxCalls,
         caught' \in SUBSET Jobs, ended' \in SUBSET Jobs,
         Distinct(queue)', Elems(queue)' \subseteq Elems(queue),
         \A j \in Jobs : j > submitted => slots'[j] = slots[j],
         caller[c].at \notin {"wake", "notify"},
         shutdown => caller[c].at # "idle",
         NEW at \in CallerAt \ {"push"}, NEW k \in Jobs \cup {NoJob},
         \/ caller' = CallerGoes(c, at, k)
         \/ caller' = caller /\ at = caller[c].at,
         \/ at = "notify"
         \/ \A j \in Elems(queue)' : Reorderable(j)' => Reorderable(j),
         at = "notify" \/ (queue' = <<>> => queue = <<>>),
         at = "idleAsleep" => queue # <<>> \/ running > 0
  PROVE  Sound'
<1>1. /\ TypeOK /\ Typed /\ Listed /\ HeldOnce /\ Unused /\ Counters /\ Quiet
      /\ WorkersCalled /\ WaitersCalled
  BY DEF Sound, Typed
<1>2. /\ caller' \in [Callers -> CallerState]
      /\ caller'[c].at = at /\ caller'[c].at # "push"
      /\ \A d \in Callers \ {c} : caller'[d] = caller[d]
  <2>1. CASE caller' = CallerGoes(c, at, k)
    <3>1. /\ CallerGoes(c, at, k) \in [Callers -> CallerState]
          /\ CallerGoes(c, at, k)[c] = [at |-> at, job |-> k]
          /\ \A d \in Callers \ {c} : CallerGoes(c, at, k)[d] = caller[d]
      BY <1>1, GoesIs
    <3> QED
      BY <2>1, <3>1
  <2>2. CASE caller' = caller /\ at = caller[c].at
    BY <1>1, <2>2 DEF TypeOK
  <2> QED
    BY <2>1, <2>2
<1>3. TypeOK'
  BY <1>1, <1>2 DEF TypeOK
<1>4. Typed'
  BY <1>1, <1>3 DEF Typed
<1>5. Listed' /\ HeldOnce'
  <2>1. \A d \in Callers :
          Pushing(d)' => Pushing(d) /\ caller'[d].job = caller[d].job
    BY <1>2 DEF Pushing
  <2> QED
    BY <1>1, <2>1, StaysListed
<1>6. Unused' /\ Counters'
  BY <1>1, StaysUnused, StaysCounted
<1>7. Quiet'
  BY <1>1 DEF Quiet
<1>8. WorkersCalled'
  <2>1. CASE at = "notify"
    BY <1>2, <2>1 DEF WorkersCalled, Notifying
  <2>2. CASE \A j \in Elems(queue)' : Reorderable(j)' => Reorderable(j)
    <3>1. \A d \in Callers : caller[d].at \in {"wake", "notify"} =>
            caller'[d].at \in {"wake", "notify"}
      BY <1>2
    <3> QED
      BY <1>1, <2>2, <3>1, StaysCalled
  <2> QED
    BY <2>1, <2>2
<1>9. WaitersCalled'
  <2>1. CASE at = "notify"
    BY <1>2, <2>1 DEF WaitersCalled, Notifying
  <2>2. CASE at = "idleAsleep" /\ at # "notify"
    BY <2>2 DEF WaitersCalled
  <2>3. CASE at # "idleAsleep" /\ at # "notify"
    <3>1. \A d \in Callers :
            caller'[d].at = "idleAsleep" => caller[d].at = "idleAsleep"
      BY <1>2, <2>3
    <3>2. \A d \in Callers :
            caller[d].at = "notify" => caller'[d].at = "notify"
      BY <1>2
    <3> QED
      BY <1>1, <2>3, <3>1, <3>2, WaitersStayCalled
  <2> QED
    BY <2>1, <2>2, <2>3
<1> QED
  BY <1>4, <1>5, <1>6, <1>7, <1>8, <1>9 DEF Sound

\* One field of one slot.
LEMMA StateSet ==
  ASSUME slots \in [Jobs -> Slot], NEW k, NEW v \in JobStates,
         slots' = [slots EXCEPT ![k].state = v]
  PROVE  /\ slots' \in [Jobs -> Slot]
         /\ \A j \in Jobs \ {k} : slots'[j] = slots[j]
         /\ k \in Jobs => slots'[k].state = v
<1>1. CASE k \notin Jobs
  BY <1>1
<1>2. CASE k \in Jobs
  <2> DEFINE r == [slots[k] EXCEPT !.state = v]
  <2>1. r.state = v /\ r \in Slot
    BY <1>2 DEF Slot
  <2>2. slots' = [slots EXCEPT ![k] = r]
    BY <1>2
  <2> HIDE DEF r
  <2> QED
    BY <1>2, <2>1, <2>2
<1> QED
  BY <1>1, <1>2

\* The flag of one control token.  [progress.rs ControlToken]
LEMMA PausedSet ==
  ASSUME slots \in [Jobs -> Slot], NEW k \in Jobs, NEW v \in BOOLEAN,
         slots' = [slots EXCEPT ![k].paused = v]
  PROVE  /\ slots' \in [Jobs -> Slot]
         /\ \A j \in Jobs \ {k} : slots'[j] = slots[j]
         /\ slots'[k].paused = v /\ slots'[k].state = slots[k].state
         /\ slots'[k].closure = slots[k].closure
<1> DEFINE r == [slots[k] EXCEPT !.paused = v]
<1>1. /\ r.paused = v /\ r \in Slot /\ r.state = slots[k].state
      /\ r.closure = slots[k].closure
  BY DEF Slot
<1>2. slots' = [slots EXCEPT ![k] = r]
  OBVIOUS
<1> HIDE DEF r
<1> QED
  BY <1>1, <1>2

\* Pausing, resuming and the states that are written afterwards.
\* [queue.rs try_pause, resume, set_state]
LEMMA PauseKeeps ==
  ASSUME Sound, NEW c \in Callers,
         TryPause(c) \/ Resume(c) \/ MarkPaused(c) \/ MarkRunning(c)
  PROVE  Sound'
<1>1. /\ TypeOK /\ Listed /\ Unused
      /\ slots \in [Jobs -> Slot] /\ queue \in Seq(Jobs) /\ calls \in 0..MaxCalls
      /\ caught \in SUBSET Jobs /\ ended \in SUBSET Jobs
      /\ submitted \in 0..MaxJobs /\ caller[c] \in CallerState
  BY DEF Sound, Typed, TypeOK
<1>2. UNCHANGED <<worker, queue, running, cpu, ceiling, shutdown, submitted,
                  starts, caught, ended>>
  BY DEF TryPause, Resume, MarkPaused, MarkRunning, limits, history
<1>3. calls' \in 0..MaxCalls
  <2>1. calls' = calls \/ (calls < MaxCalls /\ calls' = calls + 1)
    BY DEF TryPause, Resume, MarkPaused, MarkRunning, Called
  <2> QED
    BY <1>1, <2>1, ConstantsAssumption
<1>4. Distinct(queue)' /\ Elems(queue)' = Elems(queue)
  BY <1>1, <1>2 DEF Listed
<1>5. /\ {"idle", "markPaused", "markRunning", "notify"} \subseteq CallerAt
      /\ {"Paused", "Running"} \subseteq JobStates
  BY DEF CallerAt, JobStates
\* The job it is about is known, or has no slot, or is no job.
<1>6. Known \subseteq Jobs /\ \A j \in Known : ~(j > submitted)
  BY <1>1, ConstantsAssumption DEF Known, Jobs
<1>7. ASSUME NEW k, NEW at \in {"idle", "markPaused", "markRunning", "notify"},
             NEW i \in Jobs \cup {NoJob},
             caller[c].at \notin {"wake", "notify"},
             shutdown => caller[c].at # "idle",
             \/ caller' = CallerGoes(c, at, i)
             \/ caller' = caller /\ at = caller[c].at,
             \A j \in Jobs : j > submitted => slots'[j] = slots[j],
             slots' \in [Jobs -> Slot],
             \A j \in Jobs \ {k} : slots'[j] = slots[j],
             at = "notify" \/ (k \in Jobs /\ Reorderable(k)' => Reorderable(k))
      PROVE  Sound'
  <2>1. \/ at = "notify"
        \/ \A j \in Elems(queue)' : Reorderable(j)' => Reorderable(j)
    <3>1. Elems(queue) \subseteq Jobs
      BY <1>1 DEF Elems
    <3>2. Elems(queue)' \subseteq Jobs
      BY <1>4, <3>1
    <3>3. ASSUME NEW j \in Jobs, j # k
          PROVE  Reorderable(j)' => Reorderable(j)
      BY <1>7, <3>3 DEF Reorderable
    <3> QED
      BY <1>7, <3>2, <3>3
  <2>2. at \in CallerAt \ {"push"} /\ at # "idleAsleep"
    BY <1>5
  <2> QED
    BY <1>1, <1>2, <1>3, <1>4, <1>7, <2>1, <2>2, CallsKeep
<1>8. CASE TryPause(c)
  <2>1. PICK k \in Known :
          /\ slots' = [slots EXCEPT ![k].paused = TRUE]
          /\ caller' = IF slots[k].state = "Running"
                       THEN CallerGoes(c, "markPaused", k) ELSE caller
    BY <1>8 DEF TryPause
  <2>2. k \in Jobs /\ caller[c].at = "idle" /\ ~shutdown
    BY <1>6, <1>8 DEF TryPause, MayCall
  <2>3. /\ slots' \in [Jobs -> Slot]
        /\ \A j \in Jobs \ {k} : slots'[j] = slots[j]
        /\ slots'[k].paused = TRUE
    <3>1. slots' = [slots EXCEPT ![k].paused = TRUE]
      BY <2>1
    <3> QED
      BY <1>1, <2>2, <3>1, PausedSet
  <2>4. ~Reorderable(k)'
    BY <2>3 DEF Reorderable
  <2> QED
    BY <1>6, <1>7, <2>1, <2>2, <2>3, <2>4
<1>9. CASE Resume(c)
  <2>1. PICK k \in Known :
          /\ slots' = [slots EXCEPT ![k].paused = FALSE]
          /\ caller' =
               IF slots[k].state = "Paused" THEN CallerGoes(c, "markRunning", k)
               ELSE IF slots[k].state = "Queued" /\ slots[k].closure
                    THEN CallerGoes(c, "notify", NoJob)
               ELSE caller
    BY <1>9 DEF Resume
  <2>2. k \in Jobs /\ caller[c].at = "idle" /\ ~shutdown
    BY <1>6, <1>9 DEF Resume, MayCall
  <2>3. /\ slots' \in [Jobs -> Slot]
        /\ \A j \in Jobs \ {k} : slots'[j] = slots[j]
        /\ slots'[k].state = slots[k].state
        /\ slots'[k].closure = slots[k].closure
    <3>1. slots' = [slots EXCEPT ![k].paused = FALSE]
      BY <2>1
    <3> QED
      BY <1>1, <2>2, <3>1, PausedSet
  <2>4. Reorderable(k)' => slots[k].state = "Queued" /\ slots[k].closure
    BY <2>3 DEF Reorderable
  <2> QED
    BY <1>6, <1>7, <2>1, <2>2, <2>3, <2>4
<1>10. ASSUME NEW s \in {"Paused", "Running"},
              caller[c].at \in {"markPaused", "markRunning"},
              slots' = IF slots[caller[c].job].state = "Absent" THEN slots
                       ELSE [slots EXCEPT ![caller[c].job].state = s],
              caller' = CallerGoes(c, "idle", NoJob)
       PROVE  Sound'
  <2> PICK k : k = caller[c].job
    OBVIOUS
  <2>1. /\ caller[c].at \notin {"wake", "notify"} /\ caller[c].at # "idle"
        /\ "idle" \in {"idle", "markPaused", "markRunning", "notify"}
        /\ NoJob \in Jobs \cup {NoJob}
    BY <1>10
  <2>2. CASE slots' = slots
    <3>1. Reorderable(k)' => Reorderable(k)
      BY <2>2 DEF Reorderable
    <3> QED
      BY <1>1, <1>7, <1>10, <2>1, <2>2, <3>1
  <2>3. CASE slots[k].state # "Absent" /\ slots' = [slots EXCEPT ![k].state = s]
    <3>1. k \in Jobs => ~(k > submitted)
      BY <1>1, <2>3 DEF Unused, NoSlot
    <3>2. /\ slots' \in [Jobs -> Slot]
          /\ \A j \in Jobs \ {k} : slots'[j] = slots[j]
          /\ k \in Jobs => slots'[k].state = s
      <4>1. s \in JobStates /\ slots' = [slots EXCEPT ![k].state = s]
        BY <1>5, <2>3
      <4> QED
        BY <1>1, <4>1, StateSet
    <3>3. k \in Jobs => ~Reorderable(k)'
      <4>1. s # "Queued"
        OBVIOUS
      <4> QED
        BY <3>2, <4>1 DEF Reorderable
    <3> QED
      BY <1>7, <1>10, <2>1, <3>1, <3>2, <3>3
  <2> QED
    BY <1>10, <2>2, <2>3
<1>11. CASE MarkPaused(c)
  BY <1>10, <1>11 DEF MarkPaused
<1>12. CASE MarkRunning(c)
  BY <1>10, <1>12 DEF MarkRunning
<1> QED
  BY <1>8, <1>9, <1>11, <1>12

\* Forgetting, cancelling, reordering and waiting.
\* [queue.rs forget_terminal, request_cancel_many, move_queued_before,
\* move_queued, wait_idle]
LEMMA ControlKeeps ==
  ASSUME Sound, NEW c \in Callers,
         \/ ForgetTerminal(c) \/ TryCancelMany(c) \/ MoveBefore(c)
         \/ MoveStep(c) \/ WaitIdle(c) \/ IdleLook(c)
  PROVE  Sound'
<1>1. /\ TypeOK /\ Listed /\ Distinct(queue)
      /\ slots \in [Jobs -> Slot] /\ queue \in Seq(Jobs) /\ calls \in 0..MaxCalls
      /\ caught \in SUBSET Jobs /\ ended \in SUBSET Jobs
      /\ submitted \in 0..MaxJobs /\ caller[c] \in CallerState
  BY DEF Sound, Typed, TypeOK, Listed
<1>2. UNCHANGED <<worker, running, cpu, ceiling, shutdown, submitted, starts>>
  BY DEF ForgetTerminal, TryCancelMany, MoveBefore, MoveStep, WaitIdle,
         IdleLook, limits, history
<1>3. calls' \in 0..MaxCalls
  <2>1. calls' = calls \/ (calls < MaxCalls /\ calls' = calls + 1)
    BY DEF ForgetTerminal, TryCancelMany, MoveBefore, MoveStep, WaitIdle,
           IdleLook, Called
  <2> QED
    BY <1>1, <2>1, ConstantsAssumption
<1>4. /\ {"idle", "idleLook", "idleAsleep", "notify"} \subseteq CallerAt \ {"push"}
      /\ NoJob \in Jobs \cup {NoJob}
  BY DEF CallerAt
<1>5. Known \subseteq Jobs /\ \A j \in Known : ~(j > submitted)
  BY <1>1, ConstantsAssumption DEF Known, Jobs
<1>6. CASE ForgetTerminal(c)
  <2>1. PICK k \in Known : slots' = [slots EXCEPT ![k] = NoSlot]
    BY <1>6 DEF ForgetTerminal
  <2>2. /\ caller[c].at = "idle" /\ ~shutdown
        /\ UNCHANGED <<queue, caller, caught, ended>>
    BY <1>6 DEF ForgetTerminal, MayCall, history
  <2>3. NoSlot \in Slot /\ NoSlot.state = "Absent"
    BY DEF NoSlot, Slot, JobStates
  <2>4. /\ slots' \in [Jobs -> Slot]
        /\ \A j \in Jobs \ {k} : slots'[j] = slots[j]
        /\ k \in Jobs /\ slots'[k].state = "Absent"
    BY <1>1, <1>5, <2>1, <2>3
  <2>5. \A j \in Elems(queue)' : Reorderable(j)' => Reorderable(j)
    <3>1. Elems(queue)' \subseteq Jobs
      BY <1>1, <2>2 DEF Elems
    <3> QED
      BY <2>4, <3>1 DEF Reorderable
  <2>6. Distinct(queue)' /\ Elems(queue)' \subseteq Elems(queue)
    BY <1>1, <2>2
  <2> QED
    BY <1>1, <1>2, <1>3, <1>4, <1>5, <2>2, <2>4, <2>5, <2>6, CallsKeep
<1>7. CASE TryCancelMany(c)
  <2>1. PICK js \in SUBSET Known :
          LET requested == {j \in js : Cancellable(j)}
              waiting   == {j \in requested :
                              slots[j].state = "Queued" /\ slots[j].closure}
          IN  /\ slots' = [j \in Jobs |->
                   IF j \in waiting
                   THEN [slots[j] EXCEPT !.cancelled = TRUE,
                                         !.closure = FALSE,
                                         !.state = "Cancelled"]
                   ELSE IF j \in requested
                        THEN [slots[j] EXCEPT !.cancelled = TRUE]
                   ELSE slots[j]]
              /\ queue' = Without(waiting)
              /\ caught' = caught \cup waiting
              /\ ended' = ended \cup waiting
              /\ caller' = IF waiting # {} THEN CallerGoes(c, "notify", NoJob)
                           ELSE caller
    BY <1>7 DEF TryCancelMany
  <2>2. PICK requested \in SUBSET js, waiting \in SUBSET js :
          /\ waiting \subseteq requested
          /\ \A j \in Jobs :
               slots'[j] = IF j \in waiting
                           THEN [slots[j] EXCEPT !.cancelled = TRUE,
                                                 !.closure = FALSE,
                                                 !.state = "Cancelled"]
                           ELSE IF j \in requested
                                THEN [slots[j] EXCEPT !.cancelled = TRUE]
                           ELSE slots[j]
          /\ slots' = [j \in Jobs |-> slots'[j]]
          /\ queue' = Without(waiting)
          /\ caught' = caught \cup waiting
          /\ ended' = ended \cup waiting
          /\ caller' = IF waiting # {} THEN CallerGoes(c, "notify", NoJob)
                       ELSE caller
    <3> DEFINE asked == {j \in js : Cancellable(j)}
               queued   == {j \in asked :
                               slots[j].state = "Queued" /\ slots[j].closure}
    <3>1. /\ asked \in SUBSET js /\ queued \in SUBSET js
          /\ queued \subseteq asked
          /\ slots' = [j \in Jobs |->
               IF j \in queued
               THEN [slots[j] EXCEPT !.cancelled = TRUE, !.closure = FALSE,
                                     !.state = "Cancelled"]
               ELSE IF j \in asked
                    THEN [slots[j] EXCEPT !.cancelled = TRUE]
               ELSE slots[j]]
          /\ queue' = Without(queued)
          /\ caught' = caught \cup queued
          /\ ended' = ended \cup queued
          /\ caller' = IF queued # {} THEN CallerGoes(c, "notify", NoJob)
                       ELSE caller
      BY <2>1
    <3> HIDE DEF asked, queued
    <3> QED
      BY <3>1
  <2>3. caller[c].at = "idle" /\ ~shutdown
    BY <1>7 DEF TryCancelMany, MayCall
  <2>4. waiting \subseteq Jobs /\ requested \subseteq Jobs
    BY <1>5
  <2>5. ASSUME NEW j \in Jobs
        PROVE  /\ slots'[j] \in Slot /\ (Reorderable(j)' => Reorderable(j))
               /\ j > submitted => slots'[j] = slots[j]
    <3>1. slots[j] \in Slot
      BY <1>1
    <3>2. CASE j \in waiting
      <4>1. slots'[j] = [[[slots[j] EXCEPT !.cancelled = TRUE]
                            EXCEPT !.closure = FALSE]
                            EXCEPT !.state = "Cancelled"]
        BY <2>2, <3>2
      <4>2. slots'[j] \in Slot /\ slots'[j].state = "Cancelled"
        BY <3>1, <4>1 DEF Slot, JobStates, Terminal
      <4> QED
        BY <1>5, <3>2, <4>2 DEF Reorderable
    <3>3. CASE j \in requested \ waiting
      <4>1. slots'[j] = [slots[j] EXCEPT !.cancelled = TRUE]
        BY <2>2, <3>3
      <4>2. /\ slots'[j] \in Slot /\ slots'[j].state = slots[j].state
            /\ slots'[j].closure = slots[j].closure
            /\ slots'[j].paused = slots[j].paused
        BY <3>1, <4>1 DEF Slot
      <4> QED
        BY <1>5, <3>3, <4>2 DEF Reorderable
    <3>4. CASE j \notin requested
      BY <2>2, <3>1, <3>4 DEF Reorderable
    <3> QED
      BY <3>2, <3>3, <3>4
  <2>6. /\ queue' \in Seq(Jobs) /\ Distinct(queue)'
        /\ Elems(queue)' = Elems(queue) \ waiting
        /\ queue' = <<>> => Elems(queue) \subseteq waiting
    BY <1>1, <2>2, WithoutIs
  <2>7. waiting = {} => (queue' = <<>> => queue = <<>>)
    BY <1>1, <2>6, EmptyIs
  <2>8. /\ slots' \in [Jobs -> Slot]
        /\ caught' \in SUBSET Jobs /\ ended' \in SUBSET Jobs
    BY <1>1, <2>2, <2>4, <2>5
  <2>9. \A j \in Elems(queue)' : Reorderable(j)' => Reorderable(j)
    <3>1. Elems(queue)' \subseteq Jobs
      BY <1>1, <2>6 DEF Elems
    <3> QED
      BY <2>5, <3>1
  <2>10. PICK at \in {"idle", "notify"} :
           /\ \/ caller' = CallerGoes(c, at, NoJob)
              \/ caller' = caller /\ at = caller[c].at
           /\ at = "notify" \/ waiting = {}
    BY <2>2, <2>3
  <2> QED
    BY <1>1, <1>2, <1>3, <1>4, <2>3, <2>5, <2>6, <2>7, <2>8, <2>9, <2>10,
       CallsKeep
<1>8. ASSUME UNCHANGED <<slots, caller, caught, ended>>, MayCall(c),
             queue' \in Seq(Jobs), Distinct(queue)',
             Elems(queue)' = Elems(queue)
      PROVE  Sound'
  <2>1. caller[c].at = "idle" /\ ~shutdown
    BY <1>8 DEF MayCall
  <2>2. queue' = <<>> => queue = <<>>
    <3>1. queue' = <<>> => Elems(queue)' = {}
      BY DEF Elems
    <3> QED
      BY <1>1, <1>8, <3>1, EmptyIs
  <2>3. \A j \in Elems(queue)' : Reorderable(j)' => Reorderable(j)
    BY <1>8 DEF Reorderable
  <2> QED
    BY <1>1, <1>2, <1>3, <1>4, <1>8, <2>1, <2>2, <2>3, CallsKeep
<1>9. CASE MoveBefore(c)
  <2>1. PICK id \in Known, target \in Known \cup {NoJob} :
          /\ id # target /\ {id, target} \ {NoJob} \subseteq Range(Order)
          /\ queue' = Refilled(MovedBefore(id, target))
    BY <1>9 DEF MoveBefore
  <2>2. id # NoJob
    BY <1>5 DEF Jobs, NoJob
  <2> DEFINE order == MovedBefore(id, target)
  <2>3. /\ order \in Seq(Jobs) /\ Len(order) = Cardinality(Places)
        /\ Distinct(order) /\ Elems(order) = {queue[i] : i \in Places}
    BY <1>1, <2>1, <2>2, MovedIs
  <2> HIDE DEF order
  <2>4. /\ Refilled(order) \in Seq(Jobs) /\ Distinct(Refilled(order))
        /\ Elems(Refilled(order)) = Elems(queue)
    BY <1>1, <2>3, RefilledIs
  <2>5. queue' = Refilled(order)
    BY <2>1 DEF order
  <2>6. UNCHANGED <<slots, caller, caught, ended>> /\ MayCall(c)
    BY <1>9 DEF MoveBefore, history
  <2> QED
    BY <1>8, <2>4, <2>5, <2>6
<1>10. CASE MoveStep(c)
  <2>1. PICK i \in Places, k \in Places :
          i < k /\ queue' = [queue EXCEPT ![i] = queue[k], ![k] = queue[i]]
    BY <1>10 DEF MoveStep
  <2>2. queue' \in Seq(Jobs) /\ Distinct(queue') /\ Elems(queue') = Elems(queue)
    BY <1>1, <2>1, SwappedIs
  <2>3. UNCHANGED <<slots, caller, caught, ended>> /\ MayCall(c)
    BY <1>10 DEF MoveStep, history
  <2> QED
    BY <1>8, <2>2, <2>3
<1>11. CASE WaitIdle(c) \/ IdleLook(c)
  <2>1. UNCHANGED <<slots, queue, caught, ended>>
    BY <1>11 DEF WaitIdle, IdleLook, history
  <2>2. PICK at \in {"idle", "idleLook", "idleAsleep"} :
          /\ caller' = CallerGoes(c, at, NoJob)
          /\ at = "idleAsleep" => queue # <<>> \/ running > 0
    BY <1>11 DEF WaitIdle, IdleLook
  <2>3. /\ caller[c].at \notin {"wake", "notify"}
        /\ shutdown => caller[c].at # "idle"
    BY <1>11 DEF WaitIdle, IdleLook, MayCall
  <2>4. Distinct(queue)' /\ Elems(queue)' \subseteq Elems(queue)
    BY <1>1, <2>1
  <2>5. \A j \in Elems(queue)' : Reorderable(j)' => Reorderable(j)
    BY <2>1 DEF Reorderable
  <2> QED
    BY <1>1, <1>2, <1>3, <1>4, <2>1, <2>2, <2>3, <2>4, <2>5, CallsKeep
<1> QED
  BY <1>6, <1>7, <1>9, <1>10, <1>11

\* A job is submitted.  [queue.rs submit]
LEMMA SubmitKeeps ==
  ASSUME Sound, NEW c \in Callers, Submit(c)
  PROVE  Sound'
<1>1. /\ TypeOK /\ Typed /\ Listed /\ HeldOnce /\ Unused /\ Counters /\ Quiet
      /\ WorkersCalled /\ WaitersCalled
      /\ slots \in [Jobs -> Slot] /\ queue \in Seq(Jobs)
      /\ submitted \in 0..MaxJobs
  BY DEF Sound, Typed, TypeOK
<1>2. PICK k : k = submitted + 1
  OBVIOUS
<1>3. /\ caller[c].at = "idle" /\ ~shutdown /\ submitted' = k
      /\ caller' = CallerGoes(c, "push", k) /\ k \in Jobs
      /\ UNCHANGED <<queue, running, cpu, ceiling, shutdown, worker, calls,
                     starts, caught, ended>>
  BY <1>1, <1>2, ConstantsAssumption
  DEF Submit, MayCall, limits, history, Jobs
<1>4. PICK fresh \in Slot : slots' = [slots EXCEPT ![k] = fresh]
  <2> DEFINE r == [state |-> "Queued", paused |-> FALSE, cancelled |-> FALSE,
                   interruptible |-> TRUE, closure |-> TRUE]
  <2>1. r \in Slot
    BY DEF Slot, JobStates
  <2>2. slots' = [slots EXCEPT ![k] = r]
    BY <1>2, <1>3 DEF Submit
  <2> HIDE DEF r
  <2> QED
    BY <2>1, <2>2
<1>5. /\ slots' \in [Jobs -> Slot]
      /\ \A j \in Jobs \ {k} : slots'[j] = slots[j]
  BY <1>1, <1>4
<1>6. /\ caller' \in [Callers -> CallerState]
      /\ caller'[c].at = "push" /\ caller'[c].job = k
      /\ \A d \in Callers \ {c} : caller'[d] = caller[d]
  <2>1. "push" \in CallerAt
    BY DEF CallerAt
  <2>2. /\ CallerGoes(c, "push", k) \in [Callers -> CallerState]
        /\ CallerGoes(c, "push", k)[c] = [at |-> "push", job |-> k]
        /\ \A d \in Callers \ {c} : CallerGoes(c, "push", k)[d] = caller[d]
    BY <1>1, <1>3, <2>1, GoesIs
  <2> QED
    BY <1>3, <2>2
<1>7. /\ k \in Nat /\ submitted \in Nat /\ k = submitted + 1
      /\ submitted' \in 0..MaxJobs
      /\ k \in 1..submitted' /\ k \notin 1..submitted
      /\ 1..submitted \subseteq 1..submitted'
  BY <1>1, <1>2, <1>3, ConstantsAssumption DEF Jobs
<1>8. TypeOK'
  BY <1>1, <1>3, <1>5, <1>6, <1>7 DEF TypeOK
<1>9. Typed'
  BY <1>1, <1>3, <1>8 DEF Typed
<1>10. k \notin Elems(queue)
  BY <1>1, <1>7 DEF Listed
<1>11. ASSUME NEW d \in Callers, Pushing(d)'
       PROVE  \/ d = c /\ caller'[d].job = k
              \/ d # c /\ Pushing(d) /\ caller'[d].job = caller[d].job
  BY <1>6, <1>11 DEF Pushing
<1>12. \A d \in Callers : Pushing(d) => caller[d].job # k
  BY <1>1, <1>7 DEF Listed
<1>13. Listed'
  <2>1. Distinct(queue)' /\ Elems(queue)' \subseteq 1..submitted'
    BY <1>1, <1>3, <1>7 DEF Listed
  <2>2. ASSUME NEW d \in Callers, Pushing(d)'
        PROVE  caller'[d].job \in (1..submitted') \ Elems(queue)'
    BY <1>1, <1>3, <1>7, <1>10, <1>11, <2>2 DEF Listed
  <2>3. ASSUME NEW d \in Callers, NEW e \in Callers, Pushing(d)', Pushing(e)',
               caller'[d].job = caller'[e].job
        PROVE  d = e
    BY <1>1, <1>11, <1>12, <2>3 DEF Listed
  <2> QED
    BY <2>1, <2>2, <2>3 DEF Listed
<1>14. HeldOnce'
  <2>1. Holding' = Holding /\ \A w \in Holding : worker'[w].job = worker[w].job
    BY <1>3 DEF Holding
  <2>2. \A w \in Holding : worker[w].job # k
    BY <1>1, <1>7 DEF HeldOnce
  <2>3. \A w \in Holding' : worker'[w].job \in (1..submitted') \ Elems(queue)'
    BY <1>1, <1>3, <1>7, <2>1 DEF HeldOnce
  <2>4. \A w \in Holding', d \in Callers :
          Pushing(d)' => caller'[d].job # worker'[w].job
    BY <1>1, <1>11, <2>1, <2>2 DEF HeldOnce
  <2>5. \A v, w \in Holding' : worker'[v].job = worker'[w].job => v = w
    BY <1>1, <2>1 DEF HeldOnce
  <2> QED
    BY <2>3, <2>4, <2>5 DEF HeldOnce
<1>15. Unused'
  <2>1. \A j \in Jobs : j > submitted' => j > submitted /\ j # k
    BY <1>3, <1>7, ConstantsAssumption DEF Jobs
  <2> QED
    BY <1>1, <1>5, <2>1 DEF Unused
<1>16. Counters'
  BY <1>1, <1>3, StaysCounted
<1>17. Quiet'
  BY <1>3 DEF Quiet
<1>18. WorkersCalled'
  <2>1. \A j \in Elems(queue)' : Reorderable(j)' => Reorderable(j)
    <3>1. Elems(queue) \subseteq Jobs
      BY <1>1 DEF Elems
    <3> QED
      BY <1>3, <1>5, <1>10, <3>1 DEF Reorderable
  <2>2. \A d \in Callers : caller[d].at \in {"wake", "notify"} =>
          caller'[d].at \in {"wake", "notify"}
    BY <1>3, <1>6
  <2> QED
    BY <1>1, <1>3, <2>1, <2>2, StaysCalled
<1>19. WaitersCalled'
  <2>1. \A d \in Callers :
          /\ caller'[d].at = "idleAsleep" => caller[d].at = "idleAsleep"
          /\ caller[d].at = "notify" => caller'[d].at = "notify"
    BY <1>3, <1>6
  <2> QED
    BY <1>1, <1>3, <2>1, WaitersStayCalled
<1> QED
  BY <1>9, <1>13, <1>14, <1>15, <1>16, <1>17, <1>18, <1>19 DEF Sound

\* Its id is enlisted.  [queue.rs submit]
LEMMA PushKeeps ==
  ASSUME Sound, NEW c \in Callers, Push(c)
  PROVE  Sound'
<1>1. /\ TypeOK /\ Typed /\ Listed /\ HeldOnce /\ Unused /\ Counters /\ Quiet
      /\ WorkersCalled /\ WaitersCalled
      /\ slots \in [Jobs -> Slot] /\ queue \in Seq(Jobs)
      /\ submitted \in 0..MaxJobs
  BY DEF Sound, Typed, TypeOK
<1>2. PICK k : k = caller[c].job
  OBVIOUS
<1>3. /\ Pushing(c) /\ queue' = Append(queue, k)
      /\ caller' = CallerGoes(c, "wake", NoJob)
      /\ UNCHANGED <<slots, running, cpu, ceiling, shutdown, worker, submitted,
                     calls, starts, caught, ended>>
  BY <1>2 DEF Push, Pushing, limits, history
<1>4. k \in 1..submitted /\ k \notin Elems(queue) /\ k \in Jobs
  BY <1>1, <1>2, <1>3, ConstantsAssumption DEF Listed, Jobs
<1>5. /\ caller' \in [Callers -> CallerState] /\ caller'[c].at = "wake"
      /\ \A d \in Callers \ {c} : caller'[d] = caller[d]
  <2>1. "wake" \in CallerAt
    BY DEF CallerAt
  <2>2. /\ CallerGoes(c, "wake", NoJob) \in [Callers -> CallerState]
        /\ CallerGoes(c, "wake", NoJob)[c] = [at |-> "wake", job |-> NoJob]
        /\ \A d \in Callers \ {c} : CallerGoes(c, "wake", NoJob)[d] = caller[d]
    BY <1>1, <2>1, GoesIs
  <2> QED
    BY <1>3, <2>2
<1>6. /\ queue' \in Seq(Jobs) /\ Len(queue') = Len(queue) + 1
      /\ Len(queue) \in Nat
      /\ \A i \in 1..(Len(queue) + 1) :
           queue'[i] = IF i = Len(queue) + 1 THEN k ELSE queue[i]
  BY <1>1, <1>3, <1>4
<1>7. DOMAIN queue = 1..Len(queue) /\ DOMAIN queue' = 1..(Len(queue) + 1)
  BY <1>1, <1>6
<1>8. Elems(queue') = Elems(queue) \cup {k}
  <2>1. ASSUME NEW i \in DOMAIN queue' PROVE queue'[i] \in Elems(queue) \cup {k}
    BY <1>6, <1>7 DEF Elems
  <2>2. ASSUME NEW i \in DOMAIN queue PROVE queue[i] \in Elems(queue')
    <3>1. i \in DOMAIN queue' /\ queue'[i] = queue[i]
      BY <1>6, <1>7
    <3> QED
      BY <3>1 DEF Elems
  <2>3. k \in Elems(queue')
    <3>1. Len(queue) + 1 \in DOMAIN queue' /\ queue'[Len(queue) + 1] = k
      BY <1>6, <1>7
    <3> QED
      BY <3>1 DEF Elems
  <2> QED
    BY <2>1, <2>2, <2>3 DEF Elems
<1>9. Distinct(queue')
  <2> SUFFICES ASSUME NEW i \in DOMAIN queue', NEW m \in DOMAIN queue',
                      queue'[i] = queue'[m]
               PROVE  i = m
    BY DEF Distinct
  <2>1. \A n \in DOMAIN queue : queue[n] # k
    BY <1>4 DEF Elems
  <2>2. \A n \in DOMAIN queue' : n = Len(queue) + 1 \/ n \in DOMAIN queue
    BY <1>6, <1>7
  <2> QED
    BY <1>1, <1>6, <1>7, <2>1, <2>2 DEF Listed, Distinct
<1>10. TypeOK'
  BY <1>1, <1>3, <1>5, <1>6 DEF TypeOK
<1>11. Typed'
  BY <1>1, <1>3, <1>10 DEF Typed
<1>12. ASSUME NEW d \in Callers, Pushing(d)'
       PROVE  d # c /\ Pushing(d) /\ caller'[d].job = caller[d].job
  BY <1>5, <1>12 DEF Pushing
<1>13. Listed'
  <2>1. Distinct(queue)' /\ Elems(queue)' \subseteq 1..submitted'
    BY <1>1, <1>3, <1>4, <1>8, <1>9 DEF Listed
  <2>2. ASSUME NEW d \in Callers, Pushing(d)'
        PROVE  caller'[d].job \in (1..submitted') \ Elems(queue)'
    BY <1>1, <1>2, <1>3, <1>8, <1>12, <2>2 DEF Listed
  <2>3. ASSUME NEW d \in Callers, NEW e \in Callers, Pushing(d)', Pushing(e)',
               caller'[d].job = caller'[e].job
        PROVE  d = e
    BY <1>1, <1>12, <2>3 DEF Listed
  <2> QED
    BY <2>1, <2>2, <2>3 DEF Listed
<1>14. HeldOnce'
  <2>1. Holding' = Holding /\ \A w \in Holding : worker'[w].job = worker[w].job
    BY <1>3 DEF Holding
  <2>2. \A w \in Holding : worker[w].job # k
    BY <1>1, <1>2, <1>3 DEF HeldOnce
  <2>3. \A w \in Holding' : worker'[w].job \in (1..submitted') \ Elems(queue)'
    BY <1>1, <1>3, <1>8, <2>1, <2>2 DEF HeldOnce
  <2>4. \A w \in Holding', d \in Callers :
          Pushing(d)' => caller'[d].job # worker'[w].job
    BY <1>1, <1>12, <2>1 DEF HeldOnce
  <2>5. \A v, w \in Holding' : worker'[v].job = worker'[w].job => v = w
    BY <1>1, <2>1 DEF HeldOnce
  <2> QED
    BY <2>3, <2>4, <2>5 DEF HeldOnce
<1>15. Unused'
  BY <1>1, <1>3 DEF Unused
<1>16. Counters'
  BY <1>1, <1>3, StaysCounted
<1>17. Quiet'
  BY <1>1, <1>3 DEF Quiet, Pushing
<1>18. WorkersCalled'
  BY <1>5 DEF WorkersCalled, Notifying
<1>19. WaitersCalled'
  <2>1. queue' # <<>>
    BY <1>6
  <2> QED
    BY <2>1 DEF WaitersCalled
<1> QED
  BY <1>11, <1>13, <1>14, <1>15, <1>16, <1>17, <1>18, <1>19 DEF Sound

\* There is at least one worker, so that the ceiling is never 0.
\* [queue.rs set_max_running]
LEMMA CeilingIs ==
  ASSUME NEW n \in Nat
  PROVE  Clamp(n, 1, Cardinality(Workers)) \in Nat \ {0}
<1>1. Cardinality(Workers) \in Nat /\ Cardinality(Workers) # 0
  BY ConstantsAssumption, FS_CardinalityType, FS_EmptySet
<1> QED
  BY <1>1 DEF Clamp

\* The workers are told; the step changes little else.
LEMMA TellingKeeps ==
  ASSUME Sound, worker' = Awake(worker),
         UNCHANGED <<slots, queue, running, cpu, submitted, starts, caught,
                     ended>>,
         ceiling' \in Nat \ {0}, shutdown' \in BOOLEAN, calls' \in 0..MaxCalls,
         caller' \in [Callers -> CallerState],
         \A c \in Callers :
           Pushing(c)' => Pushing(c) /\ caller'[c].job = caller[c].job,
         Quiet',
         \/ \A c \in Callers : caller'[c].at # "idleAsleep"
         \/ \A c \in Callers :
              /\ caller'[c].at = "idleAsleep" => caller[c].at = "idleAsleep"
              /\ caller[c].at = "notify" => caller'[c].at = "notify"
  PROVE  Sound'
<1>1. /\ TypeOK /\ Typed /\ Listed /\ HeldOnce /\ Unused /\ Counters
      /\ WorkersCalled /\ WaitersCalled
  BY DEF Sound, Typed
<1>2. /\ worker' \in [Workers -> WorkerState]
      /\ \A w \in Workers :
           /\ worker'[w].at = IF worker[w].at = "asleep" THEN "look"
                              ELSE worker[w].at
           /\ worker'[w].job = worker[w].job
           /\ worker'[w].threads = worker[w].threads
           /\ worker'[w].outcome = worker[w].outcome
  BY <1>1, AwakeIs DEF TypeOK
<1>3. "asleep" \notin Reserving /\ "look" \notin Reserving
  BY DEF Reserving, Executing
<1>4. TypeOK'
  BY <1>1, <1>2 DEF TypeOK
<1>5. Typed'
  <2>1. \A w \in Workers : worker'[w].at = "store" =>
          worker[w].at = "store" /\ worker'[w].outcome = worker[w].outcome
    BY <1>2
  <2> QED
    BY <1>1, <1>4, <2>1 DEF Typed
<1>6. \A w \in Workers :
        /\ worker'[w].at \in Reserving <=> worker[w].at \in Reserving
        /\ worker'[w].job = worker[w].job
        /\ worker'[w].threads = worker[w].threads
  BY <1>2, <1>3
<1>7. Listed' /\ HeldOnce'
  <2>1. Distinct(queue)' /\ Elems(queue)' \subseteq Elems(queue)
    BY <1>1 DEF Listed
  <2> QED
    BY <1>1, <1>6, <2>1, StaysListed
<1>8. Unused'
  BY <1>1 DEF Unused
<1>9. Counters'
  BY <1>1, <1>6, StaysCounted
<1>10. WorkersCalled'
  BY <1>2, ConstantsAssumption DEF WorkersCalled
<1>11. WaitersCalled'
  <2>1. CASE \A c \in Callers : caller'[c].at # "idleAsleep"
    BY <2>1 DEF WaitersCalled
  <2>2. CASE \A c \in Callers :
               /\ caller'[c].at = "idleAsleep" => caller[c].at = "idleAsleep"
               /\ caller[c].at = "notify" => caller'[c].at = "notify"
    <3>1. \A w \in Workers : worker[w].at = "look" => worker'[w].at = "look"
      BY <1>2
    <3> QED
      BY <1>1, <2>2, <3>1, WaitersStayCalled
  <2> QED
    BY <2>1, <2>2
<1> QED
  BY <1>5, <1>7, <1>8, <1>9, <1>10, <1>11 DEF Sound

\* The notification at the end of a call, a new ceiling, and the drop.
\* [queue.rs notify_waiters, set_max_running, Drop for JobQueue]
LEMMA TellersKeep ==
  ASSUME Sound,
         \/ Drop
         \/ \E c \in Callers : Wake(c) \/ NotifyWaiters(c) \/ SetMaxRunning(c)
  PROVE  Sound'
<1>1. /\ TypeOK /\ Quiet /\ ceiling \in Nat \ {0} /\ shutdown \in BOOLEAN
      /\ calls \in 0..MaxCalls /\ caller \in [Callers -> CallerState]
  BY DEF Sound, Typed, TypeOK
<1>2. CASE Drop
  <2>1. /\ worker' = Awake(worker) /\ shutdown' = TRUE
        /\ \A c \in Callers : caller[c].at = "idle"
        /\ UNCHANGED <<slots, queue, running, cpu, ceiling, caller, submitted,
                       calls, starts, caught, ended>>
    BY <1>2 DEF Drop, limits, history
  <2>2. shutdown' \in BOOLEAN
    BY <2>1
  <2>3. Quiet'
    BY <2>1 DEF Quiet
  <2>4. \A c \in Callers :
          Pushing(c)' => Pushing(c) /\ caller'[c].job = caller[c].job
    BY <2>1 DEF Pushing
  <2> QED
    BY <1>1, <2>1, <2>2, <2>3, <2>4, TellingKeeps
<1>3. ASSUME NEW c \in Callers, SetMaxRunning(c) PROVE Sound'
  <2>1. /\ worker' = Awake(worker) /\ ~shutdown /\ calls < MaxCalls
        /\ calls' = calls + 1
        /\ UNCHANGED <<slots, queue, running, cpu, shutdown, caller, submitted,
                       starts, caught, ended>>
    BY <1>3 DEF SetMaxRunning, MayCall, Called, history
  <2>2. PICK n \in 0..(Cardinality(Workers) + 1) :
          ceiling' = Clamp(n, 1, Cardinality(Workers))
    BY <1>3 DEF SetMaxRunning
  <2>3. ceiling' \in Nat \ {0}
    <3>1. n \in Nat
      BY ConstantsAssumption, FS_CardinalityType
    <3> QED
      BY <2>2, <3>1, CeilingIs
  <2>4. calls' \in 0..MaxCalls /\ shutdown' \in BOOLEAN
    BY <1>1, <2>1, ConstantsAssumption
  <2>5. Quiet' /\ \A d \in Callers :
          Pushing(d)' => Pushing(d) /\ caller'[d].job = caller[d].job
    BY <2>1 DEF Quiet, Pushing
  <2> QED
    BY <1>1, <2>1, <2>3, <2>4, <2>5, TellingKeeps
<1>4. "idle" \in CallerAt
  BY DEF CallerAt
<1>5. ASSUME NEW c \in Callers
      PROVE  /\ CallerGoes(c, "idle", NoJob) \in [Callers -> CallerState]
             /\ CallerGoes(c, "idle", NoJob)[c] = [at |-> "idle", job |-> NoJob]
             /\ \A d \in Callers \ {c} :
                  CallerGoes(c, "idle", NoJob)[d] = caller[d]
  BY <1>1, <1>4, GoesIs
<1>6. ASSUME NEW c \in Callers, Wake(c) PROVE Sound'
  <2>1. /\ worker' = Awake(worker) /\ caller[c].at = "wake"
        /\ caller' = CallerGoes(c, "idle", NoJob)
        /\ UNCHANGED <<slots, queue, running, cpu, ceiling, shutdown, submitted,
                       calls, starts, caught, ended>>
    BY <1>6 DEF Wake, limits, history
  <2>2. /\ caller' \in [Callers -> CallerState] /\ caller'[c].at = "idle"
        /\ \A d \in Callers \ {c} : caller'[d] = caller[d]
    BY <1>5, <2>1
  <2>3. Quiet'
    BY <1>1, <2>1 DEF Quiet
  <2>4. \A d \in Callers :
          /\ Pushing(d)' => Pushing(d) /\ caller'[d].job = caller[d].job
          /\ caller'[d].at = "idleAsleep" => caller[d].at = "idleAsleep"
          /\ caller[d].at = "notify" => caller'[d].at = "notify"
    BY <2>1, <2>2 DEF Pushing
  <2> QED
    BY <1>1, <2>1, <2>2, <2>3, <2>4, TellingKeeps
<1>7. ASSUME NEW c \in Callers, NotifyWaiters(c) PROVE Sound'
  <2> DEFINE cs == CallerGoes(c, "idle", NoJob)
  <2>1. /\ worker' = Awake(worker) /\ caller[c].at = "notify"
        /\ caller' = IdleAwake(cs)
        /\ UNCHANGED <<slots, queue, running, cpu, ceiling, shutdown, submitted,
                       calls, starts, caught, ended>>
    BY <1>7 DEF NotifyWaiters, limits, history
  <2>2. /\ cs \in [Callers -> CallerState] /\ cs[c].at = "idle"
        /\ \A d \in Callers \ {c} : cs[d] = caller[d]
    BY <1>5
  <2> HIDE DEF cs
  <2>3. /\ caller' \in [Callers -> CallerState]
        /\ \A d \in Callers :
             /\ caller'[d].at = IF cs[d].at = "idleAsleep" THEN "idleLook"
                                ELSE cs[d].at
             /\ caller'[d].job = cs[d].job
    BY <2>1, <2>2, IdleAwakeIs
  <2>4. Quiet'
    BY <1>1, <2>1 DEF Quiet
  <2>5. \A d \in Callers :
          /\ Pushing(d)' => Pushing(d) /\ caller'[d].job = caller[d].job
          /\ caller'[d].at # "idleAsleep"
    BY <2>2, <2>3 DEF Pushing
  <2> QED
    BY <1>1, <2>1, <2>3, <2>4, <2>5, TellingKeeps
<1> QED
  BY <1>2, <1>3, <1>6, <1>7

-----------------------------------------------------------------------------
(***************************************************************************)
(* Types, the limits, and the wake-ups.                                    *)
(***************************************************************************)
\* A queue that was just built: its workers are about to look for the first
\* time.  [queue.rs with_scheduler]
LEMMA SoundStart == Init => Sound
<1> SUFFICES ASSUME Init PROVE Sound
  OBVIOUS
<1>1. /\ \A w \in Workers : worker[w] = Resting
      /\ \A c \in Callers : caller[c] = Idle
      /\ \A j \in Jobs : slots[j] = NoSlot
      /\ queue = <<>> /\ running = 0 /\ cpu = 0 /\ shutdown = FALSE
      /\ submitted = 0
  BY DEF Init
<1>2. Elems(queue) = {} /\ Distinct(queue)
  BY <1>1 DEF Elems, Distinct
<1>3. \A w \in Workers : worker[w].at = "look"
  BY <1>1 DEF Resting
<1>4. \A c \in Callers : caller[c].at = "idle"
  BY <1>1 DEF Idle
<1>5. TypeOK
  <2>1. Resting \in WorkerState /\ Idle \in CallerState /\ NoSlot \in Slot
    BY DEF Resting, WorkerState, WorkerAt, Idle, CallerState, CallerAt, NoSlot,
           Slot, JobStates
  <2>2. ceiling \in Nat \ {0}
    BY ConstantsAssumption, CeilingIs DEF Init
  <2>3. queue \in Seq(Jobs)
    BY <1>1
  <2>4. submitted \in 0..MaxJobs /\ calls \in 0..MaxCalls
    BY ConstantsAssumption DEF Init
  <2> QED
    BY <2>1, <2>2, <2>3, <2>4 DEF Init, TypeOK
<1>6. Typed
  BY <1>3, <1>5 DEF Typed
<1>7. Holding = {}
  BY <1>3 DEF Holding, Reserving, Executing
<1>8. Listed
  BY <1>2, <1>4 DEF Listed, Pushing
<1>9. HeldOnce
  BY <1>7 DEF HeldOnce
<1>10. Unused
  BY <1>1 DEF Unused
<1>11. Counters
  <2>1. Reserved = {}
    BY <1>7 DEF Reserved
  <2> QED
    BY <1>1, <1>7, <2>1, FS_EmptySet, ConstantsAssumption DEF Counters
<1>12. Quiet /\ WorkersCalled /\ WaitersCalled
  BY <1>2, <1>4 DEF Quiet, WorkersCalled, WaitersCalled
<1> QED
  BY <1>6, <1>8, <1>9, <1>10, <1>11, <1>12 DEF Sound

\* Every step keeps it.
LEMMA SoundStep == Sound /\ [Next]_vars => Sound'
<1> SUFFICES ASSUME Sound, [Next]_vars PROVE Sound'
  OBVIOUS
<1>1. ASSUME NEW w \in Workers, WorkerStep(w) PROVE Sound'
  BY <1>1, ReserveKeeps, SleepKeeps, ExitKeeps, HoldersKeep, ReleaseKeeps
  DEF WorkerStep
<1>2. ASSUME NEW c \in Callers, Call(c) \/ CallStep(c) PROVE Sound'
  BY <1>2, SubmitKeeps, PushKeeps, PauseKeeps, ControlKeeps, TellersKeep
  DEF Call, CallStep
<1>3. CASE Drop
  BY <1>3, TellersKeep
<1>4. CASE UNCHANGED vars
  BY <1>4
  DEF vars, limits, history, Sound, Typed, TypeOK, Listed, HeldOnce, Unused,
      Counters, Quiet, WorkersCalled, WaitersCalled, Distinct, Elems, Pushing,
      Holding, Reserved, Reorderable, Notifying
<1> QED
  BY <1>1, <1>2, <1>3, <1>4 DEF Next

\* The invariant, and the invariant of the first theorem.
LEMMA AlwaysSound == Spec => [](Sound /\ IInv)
BY Start, Step, SoundStart, SoundStep, PTL DEF Spec

\* Every record stays of its type: in particular no counter is given back
\* more often than it was taken.  [queue.rs release_resources]
THEOREM TypeCorrect == Spec => []TypeOK
<1>1. Sound => TypeOK
  BY DEF Sound, Typed
<1> QED
  BY AlwaysSound, <1>1, PTL

\* The two counters are what the workers hold, the CPU budget is kept, and
\* while somebody could run or wait in vain he is awake or about to be told.
\* [queue.rs reserve_next_job, release_resources, notify_waiters, resume]
THEOREM BudgetIsAllUsed == Spec => []BudgetIsUsed
<1>1. Sound => BudgetIsUsed
  <2> SUFFICES ASSUME Sound PROVE BudgetIsUsed
    OBVIOUS
  <2>1. /\ HeldOnce /\ Counters /\ WorkersCalled /\ WaitersCalled
        /\ queue \in Seq(Jobs)
    BY DEF Sound, Typed, TypeOK
  <2>2. ResourcesConserved
    BY <2>1 DEF ResourcesConserved, HeldOnce, Counters
  <2>3. ASSUME \A j \in Elems(queue) : ~Reorderable(j) PROVE ~Claimable
    <3>1. \A i \in DOMAIN queue : ~Reorderable(queue[i])
      BY <2>3 DEF Elems
    <3>2. Places = {}
      BY <2>1, <3>1 DEF Places
    <3> QED
      BY <3>2 DEF Claimable
  <2>4. NoMissedWakeup
    BY <2>1, <2>3 DEF NoMissedWakeup, WorkersCalled, WaitersCalled
  <2> QED
    BY <2>2, <2>4 DEF BudgetIsUsed
<1> QED
  BY AlwaysSound, <1>1, PTL

-----------------------------------------------------------------------------
(***************************************************************************)
(* The queue implements JobSlots.                                          *)
(***************************************************************************)
\* The jobs of the workers at some places, after a step of one of them.
LEMMA JobsMove ==
  ASSUME NEW A, NEW w \in Workers, NEW k,
         \A v \in Workers \ {w} :
           /\ worker'[v].at \in A <=> worker[v].at \in A
           /\ worker[v].at \in A => worker'[v].job = worker[v].job
  PROVE  /\ (\/ worker[w].at \notin A /\ worker'[w].at \notin A
             \/ /\ worker[w].at \in A /\ worker'[w].at \in A
                /\ worker'[w].job = worker[w].job)
              => JobsAt(A)' = JobsAt(A)
         /\ (worker[w].at \notin A /\ worker'[w].at \in A /\ worker'[w].job = k)
              => JobsAt(A)' = JobsAt(A) \cup {k}
         /\ (/\ worker[w].at \in A /\ worker'[w].at \notin A
             /\ worker[w].job = k
             /\ \A v \in Workers \ {w} :
                  worker[v].at \in A => worker[v].job # k)
              => JobsAt(A)' = JobsAt(A) \ {k}
<1>1. ASSUME NEW j
      PROVE  /\ j \in JobsAt(A) <=>
                  \E v \in Workers : worker[v].at \in A /\ worker[v].job = j
             /\ j \in JobsAt(A)' <=>
                  \E v \in Workers : worker'[v].at \in A /\ worker'[v].job = j
  BY DEF JobsAt
<1>2. ASSUME \/ worker[w].at \notin A /\ worker'[w].at \notin A
             \/ /\ worker[w].at \in A /\ worker'[w].at \in A
                /\ worker'[w].job = worker[w].job
      PROVE  JobsAt(A)' = JobsAt(A)
  <2>1. \A v \in Workers :
          /\ worker'[v].at \in A <=> worker[v].at \in A
          /\ worker[v].at \in A => worker'[v].job = worker[v].job
    BY <1>2
  <2>2. ASSUME NEW j PROVE j \in JobsAt(A)' <=> j \in JobsAt(A)
    BY <1>1, <2>1
  <2> QED
    BY <2>2
<1>3. ASSUME worker[w].at \notin A, worker'[w].at \in A, worker'[w].job = k
      PROVE  JobsAt(A)' = JobsAt(A) \cup {k}
  BY <1>1, <1>3
<1>4. ASSUME worker[w].at \in A, worker'[w].at \notin A, worker[w].job = k,
             \A v \in Workers \ {w} : worker[v].at \in A => worker[v].job # k
      PROVE  JobsAt(A)' = JobsAt(A) \ {k}
  BY <1>1, <1>4
<1> QED
  BY <1>2, <1>3, <1>4

Marking == {"markPaused", "markRunning"}

\* What a caller has decided to write.
LEMMA WritingIs ==
  /\ \A c \in Callers :
       Writing[c] = IF caller[c].at \notin Marking
                    THEN [job |-> NoJob, state |-> "none"]
                    ELSE [job |-> caller[c].job,
                          state |-> IF caller[c].at = "markPaused"
                                    THEN "Paused" ELSE "Running"]
  /\ \A c \in Callers :
       Writing'[c] = IF caller'[c].at \notin Marking
                     THEN [job |-> NoJob, state |-> "none"]
                     ELSE [job |-> caller'[c].job,
                           state |-> IF caller'[c].at = "markPaused"
                                     THEN "Paused" ELSE "Running"]
  /\ Writing = [c \in Callers |-> Writing[c]]
  /\ Writing' = [c \in Callers |-> Writing'[c]]
BY DEF Writing, Marking

\* A step of which no pause or resume takes notice.
LEMMA WritingStays ==
  ASSUME \A c \in Callers :
           /\ caller'[c].at = caller[c].at \/ {caller'[c].at, caller[c].at} \cap Marking = {}
           /\ caller[c].at \in Marking => caller'[c].job = caller[c].job
  PROVE  Writing' = Writing
<1>1. \A c \in Callers : Writing'[c] = Writing[c]
  BY WritingIs
<1> QED
  BY <1>1, WritingIs

\* A step that the promise does not see.
LEMMA Unseen ==
  ASSUME slots' = slots, Writing' = Writing,
         JobsAt({"claim"})' = JobsAt({"claim"}),
         JobsAt(Executing)' = JobsAt(Executing)
  PROVE  [Promise!SlotsNext]_(Promise!slotVars)
BY DEF Promise!slotVars

\* Before the first job.
LEMMA PromiseStart == Init => Promise!SlotsInit
<1> SUFFICES ASSUME Init PROVE Promise!SlotsInit
  OBVIOUS
<1>1. \A w \in Workers : worker[w].at = "look"
  BY DEF Init, Resting
<1>2. JobsAt({"claim"}) = {} /\ JobsAt(Executing) = {}
  BY <1>1 DEF JobsAt, Executing
<1>3. \A c \in Callers : caller[c].at = "idle"
  BY DEF Init, Idle
<1>4. Writing = [c \in Callers |-> [job |-> NoJob, state |-> "none"]]
  BY <1>3 DEF Writing
<1>5. slots = [j \in Jobs |-> NoSlot]
  BY DEF Init
<1> QED
  BY <1>2, <1>4, <1>5
  DEF Promise!SlotsInit, Promise!NoSlot, Promise!Nothing, NoSlot

\* The steps of the promise, one by one.
LEMMA Promised ==
  /\ \A j \in Jobs :
       \/ Promise!Enter(j) \/ Promise!Reserve(j) \/ Promise!Claim(j)
       \/ Promise!LetGo(j) \/ Promise!Forget(j)
       \/ \E b \in BOOLEAN : Promise!Gate(j, b)
       \/ \E o \in Terminal : Promise!Finish(j, o)
       => Promise!SlotsNext
  /\ \A c \in Callers, j \in Jobs :
       Promise!Pause(c, j) \/ Promise!Resume(c, j) => Promise!SlotsNext
  /\ \A c \in Callers : Promise!WriteState(c) => Promise!SlotsNext
  /\ \A js \in SUBSET Jobs : Promise!Cancel(js) => Promise!SlotsNext
BY DEF Promise!SlotsNext, Promise!Terminal, Terminal

\* A worker with a job it holds.  [queue.rs claim_job, worker_loop]
LEMMA HoldersPromise ==
  ASSUME Sound, NEW w \in Workers, Claim(w) \/ Body(w) \/ Store(w)
  PROVE  [Promise!SlotsNext]_(Promise!slotVars)
<1> PICK k : k = worker[w].job
  OBVIOUS
<1>1. /\ \A v \in Workers \ {w} : worker'[v] = worker[v]
      /\ worker[w].at \in Reserving /\ worker'[w].job = k
  BY HolderSteps
<1>2. TypeOK /\ HeldOnce
  BY DEF Sound, Typed
<1>3. k \in Jobs
  BY <1>1, <1>2, ConstantsAssumption DEF HeldOnce, Holding, TypeOK, Jobs
<1>4. \A v \in Workers \ {w} :
        worker[v].at \in Reserving => worker[v].job # k
  BY <1>1, <1>2 DEF HeldOnce, Holding
<1>5. {"claim"} \subseteq Reserving /\ Executing \subseteq Reserving
  BY DEF Reserving
<1>6. /\ "claim" \notin Executing /\ "release" \notin Executing
      /\ "body" \in Executing /\ "store" \in Executing
      /\ "checkpoint" \in Executing /\ "checked" \in Executing
  BY DEF Executing
<1>7. ASSUME NEW A, A \subseteq Reserving
      PROVE  /\ (worker[w].at \in A <=> worker'[w].at \in A)
                  => JobsAt(A)' = JobsAt(A)
             /\ worker[w].at \notin A /\ worker'[w].at \in A
                  => JobsAt(A)' = JobsAt(A) \cup {k}
             /\ worker[w].at \in A /\ worker'[w].at \notin A
                  => JobsAt(A)' = JobsAt(A) \ {k}
  <2>1. \A v \in Workers \ {w} :
          /\ worker'[v].at \in A <=> worker[v].at \in A
          /\ worker[v].at \in A => worker'[v].job = worker[v].job
          /\ worker[v].at \in A => worker[v].job # k
    BY <1>1, <1>4, <1>7
  <2>2. ASSUME worker[w].at \in A <=> worker'[w].at \in A
        PROVE  JobsAt(A)' = JobsAt(A)
    BY <1>1, <2>1, <2>2, JobsMove
  <2>3. ASSUME worker[w].at \notin A, worker'[w].at \in A
        PROVE  JobsAt(A)' = JobsAt(A) \cup {k}
    <3>1. worker'[w].job = k
      BY <1>1
    <3>2. \A v \in Workers \ {w} :
            /\ worker'[v].at \in A <=> worker[v].at \in A
            /\ worker[v].at \in A => worker'[v].job = worker[v].job
      BY <2>1
    <3> QED
      BY <2>3, <3>1, <3>2, JobsMove
  <2>4. ASSUME worker[w].at \in A, worker'[w].at \notin A
        PROVE  JobsAt(A)' = JobsAt(A) \ {k}
    BY <1>1, <2>1, <2>4, JobsMove
  <2> QED
    BY <2>2, <2>3, <2>4
<1>8. Writing' = Writing
  <2>1. caller' = caller
    BY DEF Claim, Store, Body, Phase, Chunk, ReadCancelled, ReadPaused, Return
  <2> QED
    BY <2>1, WritingStays
<1>9. worker \in [Workers -> WorkerState]
  BY <1>2 DEF TypeOK
<1>10. ASSUME NEW at, worker' = [worker EXCEPT ![w].at = at]
       PROVE  worker'[w].at = at
  BY <1>9, <1>10 DEF WorkerState
<1>11. worker[w].at \in Executing => k \in JobsAt(Executing)
  BY DEF JobsAt
<1>12. CASE Claim(w)
  <2>1. worker[w].at = "claim" /\ k \in JobsAt({"claim"})
    BY <1>12 DEF Claim, JobsAt
  <2>2. CASE /\ slots[k].state = "Queued" /\ slots[k].closure
             /\ slots' = [slots EXCEPT
                  ![k].state = IF slots[k].paused THEN "Paused" ELSE "Running",
                  ![k].closure = FALSE]
             /\ worker' = [worker EXCEPT ![w].at = "body"]
    <3>1. worker'[w].at = "body"
      BY <1>10, <2>2
    <3>2. /\ JobsAt({"claim"})' = JobsAt({"claim"}) \ {k}
          /\ JobsAt(Executing)' = JobsAt(Executing) \cup {k}
      BY <1>5, <1>6, <1>7, <2>1, <3>1
    <3>3. Promise!Claim(k)
      BY <1>8, <2>1, <2>2, <3>2 DEF Promise!Claim, Promise!Waiting
    <3> QED
      BY <1>3, <3>3, Promised
  <2>3. CASE /\ ~(slots[k].state = "Queued" /\ slots[k].closure)
             /\ slots' = slots
             /\ worker' = [worker EXCEPT ![w].at = "release"]
    <3>1. worker'[w].at = "release"
      BY <1>10, <2>3
    <3>2. /\ JobsAt({"claim"})' = JobsAt({"claim"}) \ {k}
          /\ JobsAt(Executing)' = JobsAt(Executing)
      BY <1>5, <1>6, <1>7, <2>1, <3>1
    <3>3. Promise!LetGo(k)
      BY <1>8, <2>1, <2>3, <3>2 DEF Promise!LetGo, Promise!Waiting
    <3> QED
      BY <1>3, <3>3, Promised
  <2> QED
    BY <1>12, <2>2, <2>3 DEF Claim
<1>13. CASE Store(w)
  <2>1. /\ worker[w].at = "store" /\ k \in JobsAt(Executing)
        /\ slots' = [slots EXCEPT ![k].state = worker[w].outcome]
    BY <1>6, <1>11, <1>13 DEF Store
  <2>2. worker'[w].at = "release"
    BY <1>10, <1>13 DEF Store
  <2>3. /\ JobsAt({"claim"})' = JobsAt({"claim"})
        /\ JobsAt(Executing)' = JobsAt(Executing) \ {k}
    BY <1>5, <1>6, <1>7, <2>1, <2>2
  <2>4. worker[w].outcome \in Terminal
    BY <2>1 DEF Sound, Typed
  <2>5. Promise!Finish(k, worker[w].outcome)
    BY <1>8, <2>1, <2>3 DEF Promise!Finish
  <2> QED
    BY <1>3, <2>4, <2>5, Promised
<1>14. CASE Body(w)
  <2>1. worker[w].at \in Executing
    BY <1>6, <1>14
    DEF Body, Phase, Chunk, ReadCancelled, ReadPaused, Return
  <2>2. worker'[w].at \in Executing
    <3>1. worker[w] \in WorkerState
      BY <1>9
    <3>2. CASE Phase(w)
      <4>1. worker' = [worker EXCEPT ![w] =
                         [worker[w] EXCEPT !.chunks = worker[w].chunks + 1]]
        BY <1>9, <3>2 DEF Phase
      <4> QED
        BY <1>9, <2>1, <3>1, <4>1 DEF WorkerState
    <3>3. CASE Chunk(w)
      <4>1. worker' = [[worker EXCEPT ![w].chunks = worker[w].chunks + 1]
                         EXCEPT ![w].at = "checkpoint"]
        BY <3>3 DEF Chunk
      <4>2. worker' = [worker EXCEPT ![w] =
                         [[worker[w] EXCEPT !.chunks = worker[w].chunks + 1]
                            EXCEPT !.at = "checkpoint"]]
        BY <1>9, <4>1
      <4>3. worker'[w].at = "checkpoint"
        BY <1>9, <3>1, <4>2 DEF WorkerState
      <4> QED
        BY <1>6, <4>3
    <3>4. CASE ReadCancelled(w) \/ Return(w)
      <4>1. PICK o :
              \/ worker' = [worker EXCEPT ![w].at = "checked"]
              \/ worker' = [worker EXCEPT ![w].at = "store", ![w].outcome = o]
        BY <3>4 DEF ReadCancelled, Return
      <4>2. CASE worker' = [worker EXCEPT ![w].at = "checked"]
        BY <1>6, <1>10, <4>2
      <4>3. CASE worker' = [worker EXCEPT ![w].at = "store", ![w].outcome = o]
        <5>1. worker' = [[worker EXCEPT ![w].at = "store"]
                           EXCEPT ![w].outcome = o]
          BY <4>3
        <5>2. worker' = [worker EXCEPT ![w] =
                           [[worker[w] EXCEPT !.at = "store"]
                              EXCEPT !.outcome = o]]
          BY <1>9, <5>1
        <5>3. worker'[w].at = "store"
          BY <1>9, <3>1, <5>2 DEF WorkerState
        <5> QED
          BY <1>6, <5>3
      <4> QED
        BY <4>1, <4>2, <4>3
    <3>5. CASE ReadPaused(w)
      <4>1. PICK at \in {"checkpoint", "body"} :
              worker' = [worker EXCEPT ![w].at = at]
        BY <3>5 DEF ReadPaused
      <4> QED
        BY <1>6, <1>10, <4>1
    <3> QED
      BY <1>14, <3>2, <3>3, <3>4, <3>5 DEF Body
  <2>3. /\ JobsAt({"claim"})' = JobsAt({"claim"})
        /\ JobsAt(Executing)' = JobsAt(Executing)
    BY <1>5, <1>6, <1>7, <2>1, <2>2
  <2>4. CASE slots' = slots
    BY <1>8, <2>3, <2>4, Unseen
  <2>5. CASE Phase(w)
    <3>1. PICK b \in BOOLEAN : slots' = [slots EXCEPT ![k].interruptible = b]
      BY <2>5 DEF Phase
    <3>2. Promise!Gate(k, b)
      BY <1>8, <1>11, <2>1, <2>3, <3>1 DEF Promise!Gate
    <3> QED
      BY <1>3, <3>2, Promised
  <2> QED
    BY <1>14, <2>4, <2>5 DEF Body, Chunk, ReadCancelled, ReadPaused, Return
<1> QED
  BY <1>12, <1>13, <1>14

\* A worker in its loop: only a reservation is seen.  [queue.rs
\* reserve_next_job, worker_loop, release_resources]
LEMMA LoopPromises ==
  ASSUME Sound, NEW w \in Workers,
         Reserve(w) \/ Sleep(w) \/ Exit(w) \/ Release(w)
  PROVE  [Promise!SlotsNext]_(Promise!slotVars)
<1>1. TypeOK /\ Listed /\ HeldOnce /\ caller \in [Callers -> CallerState]
      /\ queue \in Seq(Jobs)
  BY DEF Sound, Typed, TypeOK
<1>2. /\ "asleep" \notin Executing /\ "look" \notin Executing
      /\ "release" \notin Executing /\ "claim" \notin Executing
      /\ "exited" \notin Executing
  BY DEF Executing
<1>3. slots' = slots
  BY DEF Reserve, Sleep, Exit, Release
<1>4. Writing' = Writing
  <2>1. CASE caller' = caller
    BY <2>1, WritingStays
  <2>2. CASE caller' = IdleAwake(caller)
    <3>1. \A c \in Callers :
            /\ caller'[c].at = IF caller[c].at = "idleAsleep" THEN "idleLook"
                               ELSE caller[c].at
            /\ caller'[c].job = caller[c].job
      BY <1>1, <2>2, IdleAwakeIs
    <3> QED
      BY <3>1, WritingStays DEF Marking
  <2> QED
    BY <2>1, <2>2 DEF Reserve, Sleep, Exit, Release
<1>5. \A v \in Workers \ {w} :
        /\ worker'[v].at = IF Release(w) /\ worker[v].at = "asleep" THEN "look"
                           ELSE worker[v].at
        /\ worker'[v].job = worker[v].job
  BY LoopSteps
<1>6. worker[w].at \in {"look", "release"}
  BY DEF Reserve, Sleep, Exit, Release
<1>7. ASSUME NEW A, A = {"claim"} \/ A = Executing
      PROVE  /\ worker[w].at \notin A
             /\ \A v \in Workers \ {w} :
                  /\ worker'[v].at \in A <=> worker[v].at \in A
                  /\ worker[v].at \in A => worker'[v].job = worker[v].job
  BY <1>2, <1>5, <1>6, <1>7
<1>8. CASE Reserve(w)
  <2> PICK k : k = queue[First]
    OBVIOUS
  <2>1. worker'[w].at = "claim" /\ worker'[w].job = k /\ Places # {}
    BY <1>8, LoopSteps
  <2>2. First \in Places /\ k \in Jobs /\ First \in DOMAIN queue
    BY <1>1, <2>1, FirstIs
  <2>3. slots[k].state = "Queued" /\ slots[k].closure /\ ~slots[k].paused
    BY <2>2 DEF Places, Reorderable
  <2>4. k \notin JobsAt({"claim"})
    <3>1. k \in Elems(queue)
      BY <2>2 DEF Elems
    <3> QED
      BY <1>1, <3>1 DEF HeldOnce, Holding, JobsAt, Reserving
  <2>5. JobsAt({"claim"})' = JobsAt({"claim"}) \cup {k}
    BY <1>7, <2>1, JobsMove
  <2>6. JobsAt(Executing)' = JobsAt(Executing)
    <3>1. worker[w].at \notin Executing /\ worker'[w].at \notin Executing
      BY <1>2, <1>6, <2>1
    <3>2. \A v \in Workers \ {w} :
            /\ worker'[v].at \in Executing <=> worker[v].at \in Executing
            /\ worker[v].at \in Executing => worker'[v].job = worker[v].job
      BY <1>7
    <3> QED
      BY <3>1, <3>2, JobsMove
  <2>7. Promise!Reserve(k)
    BY <1>3, <1>4, <2>3, <2>4, <2>5, <2>6
    DEF Promise!Reserve, Promise!Waiting
  <2> QED
    BY <2>2, <2>7, Promised
<1>9. CASE ~Reserve(w)
  <2>1. worker'[w].at \in {"asleep", "exited", "look"}
    BY <1>9, LoopSteps
  <2>2. ASSUME NEW A, A = {"claim"} \/ A = Executing
        PROVE  JobsAt(A)' = JobsAt(A)
    <3>1. worker[w].at \notin A /\ worker'[w].at \notin A
      BY <1>2, <1>7, <2>1, <2>2
    <3> QED
      BY <1>7, <2>2, <3>1, JobsMove
  <2> QED
    BY <1>3, <1>4, <2>2, Unseen
<1> QED
  BY <1>8, <1>9

\* What a caller goes on to write.  [queue.rs try_pause, resume, set_state]
LEMMA WritingGoes ==
  ASSUME TypeOK, NEW c \in Callers, NEW at \in CallerAt,
         NEW j \in Jobs \cup {NoJob},
         \/ caller' = CallerGoes(c, at, j)
         \/ caller' = IdleAwake(CallerGoes(c, at, j))
  PROVE  /\ at \notin Marking /\ caller[c].at \notin Marking
              => Writing' = Writing
         /\ at \notin Marking
              => Writing' = [Writing EXCEPT
                               ![c] = [job |-> NoJob, state |-> "none"]]
         /\ at = "markPaused"
              => Writing' = [Writing EXCEPT
                               ![c] = [job |-> j, state |-> "Paused"]]
         /\ at = "markRunning"
              => Writing' = [Writing EXCEPT
                               ![c] = [job |-> j, state |-> "Running"]]
<1>1. /\ CallerGoes(c, at, j) \in [Callers -> CallerState]
      /\ CallerGoes(c, at, j)[c] = [at |-> at, job |-> j]
      /\ \A d \in Callers \ {c} : CallerGoes(c, at, j)[d] = caller[d]
  BY GoesIs
<1>2. ASSUME NEW d \in Callers \ {c}
      PROVE  /\ caller'[d].at = caller[d].at
                  \/ {caller'[d].at, caller[d].at} \cap Marking = {}
             /\ caller'[d].job = caller[d].job
  <2>1. CASE caller' = CallerGoes(c, at, j)
    BY <1>1, <2>1
  <2>2. CASE caller' = IdleAwake(CallerGoes(c, at, j))
    <3>1. /\ caller'[d].at = IF caller[d].at = "idleAsleep" THEN "idleLook"
                             ELSE caller[d].at
          /\ caller'[d].job = caller[d].job
      BY <1>1, <2>2, IdleAwakeIs
    <3> QED
      BY <3>1 DEF Marking
  <2> QED
    BY <2>1, <2>2
<1>3. /\ caller'[c].at = at \/ {caller'[c].at, at} \cap Marking = {}
      /\ caller'[c].job = j
  <2>1. CASE caller' = CallerGoes(c, at, j)
    BY <1>1, <2>1
  <2>2. CASE caller' = IdleAwake(CallerGoes(c, at, j))
    <3>1. /\ caller'[c].at = IF at = "idleAsleep" THEN "idleLook" ELSE at
          /\ caller'[c].job = j
      BY <1>1, <2>2, IdleAwakeIs
    <3> QED
      BY <3>1 DEF Marking
  <2> QED
    BY <2>1, <2>2
<1>4. \A d \in Callers \ {c} : Writing'[d] = Writing[d]
  BY <1>2, WritingIs
<1>5. Writing'[c] = IF at \notin Marking
                    THEN [job |-> NoJob, state |-> "none"]
                    ELSE [job |-> j, state |-> IF at = "markPaused"
                                               THEN "Paused" ELSE "Running"]
  <2>1. at \in Marking => caller'[c].at = at
    BY <1>3
  <2>2. at \notin Marking => caller'[c].at \notin Marking
    BY <1>3
  <2> QED
    BY <1>3, <2>1, <2>2, WritingIs
<1>6. \A r : (Writing'[c] = r) => Writing' = [Writing EXCEPT ![c] = r]
  BY <1>4, WritingIs
<1>7. ASSUME at \notin Marking, caller[c].at \notin Marking
      PROVE  Writing' = Writing
  <2>1. Writing'[c] = Writing[c]
    BY <1>5, <1>7, WritingIs
  <2> QED
    BY <1>4, <2>1, WritingIs
<1> QED
  BY <1>5, <1>6, <1>7 DEF Marking

\* A caller with its control of a job.  [queue.rs submit, try_pause, resume,
\* set_state, request_cancel_many, forget_terminal]
LEMMA CallersPromise ==
  ASSUME Sound, NEW c \in Callers, Call(c) \/ CallStep(c)
  PROVE  [Promise!SlotsNext]_(Promise!slotVars)
<1>1. /\ TypeOK /\ Unused /\ caller \in [Callers -> CallerState]
      /\ worker \in [Workers -> WorkerState] /\ submitted \in 0..MaxJobs
  BY DEF Sound, Typed, TypeOK
<1>2. Known \subseteq Jobs
  BY <1>1, ConstantsAssumption DEF Known, Jobs
<1>3. ASSUME NEW A, A = {"claim"} \/ A = Executing
      PROVE  JobsAt(A)' = JobsAt(A)
  <2>1. CASE worker' = worker
    BY <2>1 DEF JobsAt
  <2>2. CASE worker' = Awake(worker)
    <3>1. \A w \in Workers :
            /\ worker'[w].at = IF worker[w].at = "asleep" THEN "look"
                               ELSE worker[w].at
            /\ worker'[w].job = worker[w].job
      BY <1>1, <2>2, AwakeIs
    <3>2. "asleep" \notin A /\ "look" \notin A
      BY <1>3 DEF Executing
    <3>3. \A w \in Workers :
            /\ worker'[w].at \in A <=> worker[w].at \in A
            /\ worker'[w].job = worker[w].job
      BY <3>1, <3>2
    <3>4. \A j : j \in JobsAt(A)' <=> j \in JobsAt(A)
      BY <3>3 DEF JobsAt
    <3> QED
      BY <3>4
  <2> QED
    BY <2>1, <2>2
    DEF Call, CallStep, Submit, TryPause, Resume, TryCancelMany, SetMaxRunning,
        ForgetTerminal, MoveBefore, MoveStep, WaitIdle, Push, Wake, MarkPaused,
        MarkRunning, NotifyWaiters, IdleLook
<1>4. /\ JobsAt({"claim"})' = JobsAt({"claim"})
      /\ JobsAt(Executing)' = JobsAt(Executing)
  BY <1>3
<1>5. /\ {"idle", "push", "wake", "notify", "idleLook", "idleAsleep"}
           \subseteq CallerAt \ Marking
      /\ Marking \subseteq CallerAt /\ NoJob \in Jobs \cup {NoJob}
  BY DEF CallerAt, Marking
<1>6. caller[c].at \notin Marking => Writing[c] = [job |-> NoJob, state |-> "none"]
  BY WritingIs
<1>7. ASSUME caller' = caller PROVE Writing' = Writing
  BY <1>7, WritingStays
\* Steps that only the queue, the limits or the waiters see.
<1>8. CASE \/ Push(c) \/ Wake(c) \/ NotifyWaiters(c) \/ SetMaxRunning(c)
           \/ MoveBefore(c) \/ MoveStep(c) \/ WaitIdle(c) \/ IdleLook(c)
  <2>1. slots' = slots
    BY <1>8
    DEF Push, Wake, NotifyWaiters, SetMaxRunning, MoveBefore, MoveStep,
        WaitIdle, IdleLook
  <2>2. \/ caller' = caller
        \/ \E at \in {"idle", "wake", "idleLook", "idleAsleep"} :
             \/ caller' = CallerGoes(c, at, NoJob)
             \/ caller' = IdleAwake(CallerGoes(c, at, NoJob))
    BY <1>8
    DEF Push, Wake, NotifyWaiters, SetMaxRunning, MoveBefore, MoveStep,
        WaitIdle, IdleLook
  <2>3. caller[c].at \notin Marking
    BY <1>8
    DEF Push, Wake, NotifyWaiters, SetMaxRunning, MoveBefore, MoveStep,
        WaitIdle, IdleLook, MayCall, Marking
  <2>4. Writing' = Writing
    BY <1>1, <1>5, <1>7, <2>2, <2>3, WritingGoes
  <2> QED
    BY <1>4, <2>1, <2>4, Unseen
<1>9. CASE Submit(c)
  <2> PICK k : k = submitted + 1
    OBVIOUS
  <2>1. /\ k \in Jobs /\ k > submitted /\ submitted' = k
        /\ caller[c].at = "idle" /\ caller' = CallerGoes(c, "push", k)
    BY <1>1, <1>9, ConstantsAssumption DEF Submit, MayCall, Jobs
  <2>2. slots[k].state = "Absent"
    BY <1>1, <2>1 DEF Unused, NoSlot
  <2>3. Writing' = Writing
    BY <1>1, <1>5, <2>1, WritingGoes DEF Marking
  <2>4. slots' = [slots EXCEPT ![k] =
          [state |-> "Queued", paused |-> FALSE, cancelled |-> FALSE,
           interruptible |-> TRUE, closure |-> TRUE]]
    BY <1>9, <2>1 DEF Submit
  <2>5. Promise!Enter(k)
    BY <1>4, <2>2, <2>3, <2>4 DEF Promise!Enter, Promise!Known
  <2> QED
    BY <2>1, <2>5, Promised
<1>10. CASE TryPause(c)
  <2>1. PICK k \in Known :
          /\ slots[k].state \notin Terminal \cup {"Absent"}
          /\ slots[k].interruptible
          /\ slots' = [slots EXCEPT ![k].paused = TRUE]
          /\ caller' = IF slots[k].state = "Running"
                       THEN CallerGoes(c, "markPaused", k) ELSE caller
    BY <1>10 DEF TryPause
  <2>2. k \in Jobs /\ caller[c].at = "idle"
    BY <1>2, <1>10 DEF TryPause, MayCall
  <2>3. Writing' = IF slots[k].state = "Running"
                   THEN [Writing EXCEPT ![c] = [job |-> k, state |-> "Paused"]]
                   ELSE Writing
    <3>1. CASE slots[k].state = "Running"
      BY <1>1, <1>5, <2>1, <2>2, <3>1, WritingGoes DEF Marking
    <3>2. CASE slots[k].state # "Running"
      BY <1>7, <2>1, <3>2
    <3> QED
      BY <3>1, <3>2
  <2>4. Writing[c] = [job |-> NoJob, state |-> "none"]
    BY <1>6, <2>2 DEF Marking
  <2>5. Promise!Pause(c, k)
    BY <1>4, <2>1, <2>3, <2>4
    DEF Promise!Pause, Promise!Nothing, Promise!Live, Promise!Known,
        Promise!Over, Promise!Terminal, Terminal
  <2> QED
    BY <2>2, <2>5, Promised
<1>11. CASE Resume(c)
  <2>1. PICK k \in Known :
          /\ slots[k].state # "Absent"
          /\ slots' = [slots EXCEPT ![k].paused = FALSE]
          /\ caller' =
               IF slots[k].state = "Paused" THEN CallerGoes(c, "markRunning", k)
               ELSE IF slots[k].state = "Queued" /\ slots[k].closure
                    THEN CallerGoes(c, "notify", NoJob)
               ELSE caller
    BY <1>11 DEF Resume
  <2>2. k \in Jobs /\ caller[c].at = "idle"
    BY <1>2, <1>11 DEF Resume, MayCall
  <2>3. Writing' = IF slots[k].state = "Paused"
                   THEN [Writing EXCEPT ![c] = [job |-> k, state |-> "Running"]]
                   ELSE Writing
    <3>1. CASE slots[k].state = "Paused"
      BY <1>1, <1>5, <2>1, <2>2, <3>1, WritingGoes DEF Marking
    <3>2. CASE slots[k].state # "Paused" /\ caller' = CallerGoes(c, "notify", NoJob)
      BY <1>1, <1>5, <2>2, <3>2, WritingGoes DEF Marking
    <3>3. CASE slots[k].state # "Paused" /\ caller' = caller
      BY <1>7, <3>3
    <3> QED
      BY <2>1, <3>1, <3>2, <3>3
  <2>4. Writing[c] = [job |-> NoJob, state |-> "none"]
    BY <1>6, <2>2 DEF Marking
  <2>5. Promise!Resume(c, k)
    BY <1>4, <2>1, <2>3, <2>4
    DEF Promise!Resume, Promise!Nothing, Promise!Known
  <2> QED
    BY <2>2, <2>5, Promised
<1>12. CASE MarkPaused(c) \/ MarkRunning(c)
  <2> PICK k, s : /\ k = caller[c].job
                  /\ s = IF caller[c].at = "markPaused" THEN "Paused" ELSE "Running"
    OBVIOUS
  <2>1. /\ caller[c].at \in Marking /\ caller' = CallerGoes(c, "idle", NoJob)
        /\ slots' = IF slots[k].state = "Absent" THEN slots
                    ELSE [slots EXCEPT ![k].state = s]
    BY <1>12 DEF MarkPaused, MarkRunning, Marking
  <2>2. Writing[c] = [job |-> k, state |-> s] /\ s # "none"
    BY <2>1, WritingIs
  <2>3. Writing' = [Writing EXCEPT ![c] = [job |-> NoJob, state |-> "none"]]
    BY <1>1, <1>5, <2>1, WritingGoes
  <2>4. Writing[c] # [job |-> NoJob, state |-> "none"]
    BY <2>2
  <2>5. Writing[c].job = k /\ Writing[c].state = s
    BY <2>2
  <2>6. Promise!WriteState(c)
    BY <1>4, <2>1, <2>3, <2>4, <2>5
    DEF Promise!WriteState, Promise!Nothing, Promise!Known
  <2> QED
    BY <2>6, Promised
<1>13. CASE ForgetTerminal(c)
  <2>1. PICK k \in Known :
          slots[k].state \in Terminal /\ slots' = [slots EXCEPT ![k] = NoSlot]
    BY <1>13 DEF ForgetTerminal
  <2>2. Writing' = Writing
    BY <1>7, <1>13 DEF ForgetTerminal
  <2>3. Promise!Forget(k)
    BY <1>4, <2>1, <2>2
    DEF Promise!Forget, Promise!Over, Promise!Terminal, Promise!NoSlot,
        Terminal, NoSlot
  <2> QED
    BY <1>2, <2>1, <2>3, Promised
<1>14. CASE TryCancelMany(c)
  <2>1. PICK js \in SUBSET Known :
          LET requested == {j \in js : Cancellable(j)}
              waiting   == {j \in requested :
                              slots[j].state = "Queued" /\ slots[j].closure}
          IN  /\ requested # {}
              /\ slots' = [j \in Jobs |->
                   IF j \in waiting
                   THEN [slots[j] EXCEPT !.cancelled = TRUE,
                                         !.closure = FALSE,
                                         !.state = "Cancelled"]
                   ELSE IF j \in requested
                        THEN [slots[j] EXCEPT !.cancelled = TRUE]
                   ELSE slots[j]]
              /\ caller' = IF waiting # {} THEN CallerGoes(c, "notify", NoJob)
                           ELSE caller
    BY <1>14 DEF TryCancelMany
  <2>2. caller[c].at = "idle" /\ js \in SUBSET Jobs
    BY <1>2, <1>14 DEF TryCancelMany, MayCall
  <2>3. Writing' = Writing
    <3>1. caller' = caller \/ caller' = CallerGoes(c, "notify", NoJob)
      BY <2>1
    <3> QED
      BY <1>1, <1>5, <1>7, <2>2, <3>1, WritingGoes DEF Marking
  <2>4. \A j \in Jobs : Promise!Cancellable(j) <=> Cancellable(j)
    BY DEF Promise!Cancellable, Promise!Live, Promise!Known, Promise!Over,
           Promise!Terminal, Cancellable, Terminal
  <2>5. \A j \in Jobs :
          Promise!Waiting(j) <=> slots[j].state = "Queued" /\ slots[j].closure
    BY DEF Promise!Waiting
  <2>6. \E j \in js : Promise!Cancellable(j)
    BY <2>1, <2>2, <2>4
  <2>7. slots' = [j \in Jobs |->
          IF ~(j \in js /\ Promise!Cancellable(j)) THEN slots[j]
          ELSE IF Promise!Waiting(j)
               THEN [slots[j] EXCEPT !.cancelled = TRUE, !.closure = FALSE,
                                     !.state = "Cancelled"]
          ELSE [slots[j] EXCEPT !.cancelled = TRUE]]
    BY <2>1, <2>4, <2>5
  <2>8. Promise!Cancel(js)
    BY <1>4, <2>3, <2>6, <2>7 DEF Promise!Cancel
  <2> QED
    BY <2>2, <2>8, Promised
<1> QED
  BY <1>8, <1>9, <1>10, <1>11, <1>12, <1>13, <1>14 DEF Call, CallStep

\* Every step of the queue is a step of JobSlots or none at all.
LEMMA PromiseStep ==
  Sound /\ [Next]_vars => [Promise!SlotsNext]_(Promise!slotVars)
<1> SUFFICES ASSUME Sound, [Next]_vars
             PROVE  [Promise!SlotsNext]_(Promise!slotVars)
  OBVIOUS
<1>1. ASSUME NEW w \in Workers, WorkerStep(w)
      PROVE  [Promise!SlotsNext]_(Promise!slotVars)
  BY <1>1, LoopPromises, HoldersPromise DEF WorkerStep
<1>2. ASSUME NEW c \in Callers, Call(c) \/ CallStep(c)
      PROVE  [Promise!SlotsNext]_(Promise!slotVars)
  BY <1>2, CallersPromise
<1>3. CASE Drop
  <2>1. slots' = slots /\ caller' = caller /\ worker' = Awake(worker)
    BY <1>3 DEF Drop
  <2>2. \A w \in Workers :
          /\ worker'[w].at = IF worker[w].at = "asleep" THEN "look"
                             ELSE worker[w].at
          /\ worker'[w].job = worker[w].job
    BY <2>1, AwakeIs DEF Sound, Typed, TypeOK
  <2>3. ASSUME NEW A, A = {"claim"} \/ A = Executing
        PROVE  JobsAt(A)' = JobsAt(A)
    <3>1. "asleep" \notin A /\ "look" \notin A
      BY <2>3 DEF Executing
    <3>2. \A w \in Workers :
            /\ worker'[w].at \in A <=> worker[w].at \in A
            /\ worker'[w].job = worker[w].job
      BY <2>2, <3>1
    <3>3. \A j : j \in JobsAt(A)' <=> j \in JobsAt(A)
      BY <3>2 DEF JobsAt
    <3> QED
      BY <3>3
  <2>4. Writing' = Writing
    BY <2>1, WritingStays
  <2> QED
    BY <2>1, <2>3, <2>4, Unseen
<1>4. CASE UNCHANGED vars
  <2>1. slots' = slots /\ caller' = caller /\ worker' = worker
    BY <1>4 DEF vars
  <2>2. Writing' = Writing /\ \A A : JobsAt(A)' = JobsAt(A)
    BY <2>1, WritingStays DEF JobsAt
  <2> QED
    BY <2>1, <2>2, Unseen
<1> QED
  BY <1>1, <1>2, <1>3, <1>4 DEF Next

\* Whatever the workers, the limits, the order and the notifications do, a
\* job sees nothing but the steps of JobSlots.
\* [queue.rs, every use of the lock `slots`]
THEOREM QueueImplementsSlots == Spec => ImplementsSlots
<1>1. Spec => []Sound
  BY SoundStart, SoundStep, PTL DEF Spec
<1> QED
  BY <1>1, PromiseStart, PromiseStep, PTL
  DEF Spec, ImplementsSlots, Promise!SlotsSpec
=============================================================================
