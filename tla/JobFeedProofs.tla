---------------------------- MODULE JobFeedProofs ----------------------------
(***************************************************************************)
(* The task list and its feed, proved.                                     *)
(***************************************************************************)
EXTENDS JobFeed, FiniteSetTheorems, SequenceTheorems, TLAPS

-----------------------------------------------------------------------------
(***************************************************************************)
(* The store.                                                              *)
(***************************************************************************)
Records == [version : Nat, created : Nat, state : States,
            dismissed_by : SUBSET Windows]
Removals == [id : Jobs, version : Nat, audience : SUBSET Windows]
Stores == [revision : Nat, jobs : UNION {[D -> Records] : D \in SUBSET Jobs},
           ended : Seq(Jobs), removals : SUBSET Removals]

Shown(s) == {j \in DOMAIN s.jobs : "main" \notin s.jobs[j].dismissed_by}
DoneIn(s) == {j \in DOMAIN s.jobs : Terminal(s.jobs[j].state)}

\* No version is ahead of the store or comes twice among the removals, which
\* never name a job that is still shown.
Sound(s, u) ==
  /\ s \in Stores
  /\ u \subseteq Jobs /\ DOMAIN s.jobs \subseteq Jobs \ u
  /\ \A j \in DOMAIN s.jobs : /\ s.jobs[j].created \in 1..s.jobs[j].version
                              /\ s.jobs[j].version <= s.revision
  /\ IsFiniteSet(s.removals) /\ Cardinality(s.removals) <= MaxChanges
  /\ \A q \in s.removals : /\ q.version \in 1..s.revision
                           /\ q.id \notin u
                           /\ "main" \in q.audience => q.id \notin Shown(s)
  /\ \A q, r \in s.removals : q.version = r.version => q = r

\* The terminal records, in the order they ended.
Lined(s) ==
  /\ \A a, b \in DOMAIN s.ended : s.ended[a] = s.ended[b] => a = b
  /\ Range(s.ended) = DoneIn(s)

\* A delta since r names the job among the removed, or is a reset.
Announced(s, j, r) ==
  \/ \E q \in s.removals : q.id = j /\ "main" \in q.audience /\ q.version > r
  \/ r + MaxChanges < s.revision

\* How the store may change: a record that changes gets a new version, one that
\* has ended does not change any more, and what goes is announced.
Grown(s, t, new) ==
  /\ s.revision <= t.revision
  /\ new \cap DOMAIN s.jobs = {}
  /\ DOMAIN t.jobs \subseteq DOMAIN s.jobs \cup new
  /\ \A j \in DOMAIN t.jobs \cap DOMAIN s.jobs :
       /\ t.jobs[j].created = s.jobs[j].created
       /\ \/ /\ t.jobs[j].version = s.jobs[j].version
             /\ t.jobs[j].state = s.jobs[j].state
          \/ /\ ~Terminal(s.jobs[j].state)
             /\ t.jobs[j].version > s.revision
  /\ \A j \in DOMAIN t.jobs \cap new : t.jobs[j].created > s.revision
  /\ Shown(t) \subseteq Shown(s) \cup new
  /\ \A j \in Shown(s) \ Shown(t) : Announced(t, j, s.revision)
  /\ \A j \in Jobs, r \in Nat : Announced(s, j, r) => Announced(t, j, r)

\* The bounds of the histories.
LEMMA Bounds == MaxChanges \in Nat /\ MaxChanges > 0 /\ MaxTerminal \in Nat /\ MaxTerminal > 0
  BY FeedAssumption

\* The fields of a store.
LEMMA StoreFields ==
  ASSUME NEW s \in Stores
  PROVE  /\ s.revision \in Nat
         /\ DOMAIN s.jobs \subseteq Jobs
         /\ s.jobs \in [DOMAIN s.jobs -> Records]
         /\ \A j \in DOMAIN s.jobs :
              /\ s.jobs[j] \in Records
              /\ s.jobs[j].version \in Nat /\ s.jobs[j].created \in Nat
              /\ s.jobs[j].state \in States
              /\ s.jobs[j].dismissed_by \subseteq Windows
         /\ s.ended \in Seq(Jobs)
         /\ s.removals \subseteq Removals
  BY DEF Stores, Records

\* The jobs of a set take their revisions in the order of their ids.
\* [snapshots.rs sync_queue_statuses, dismiss]
LEMMA RankFacts ==
  ASSUME NEW S \in SUBSET Jobs
  PROVE  /\ IsFiniteSet(S) /\ Cardinality(S) \in Nat
         /\ \A j \in S : Rank(S, j) \in 1..Cardinality(S)
         /\ \A j, k \in S : j < k => Rank(S, j) < Rank(S, k)
<1> DEFINE Upto(j) == {k \in S : k <= j}
<1>1. IsFiniteSet(S) /\ Cardinality(S) \in Nat /\ S \subseteq Nat
  BY FeedAssumption, FS_Subset, FS_CardinalityType
<1>2. \A j \in S : IsFiniteSet(Upto(j)) /\ Cardinality(Upto(j)) \in Nat
                   /\ Cardinality(Upto(j)) <= Cardinality(S)
  BY <1>1, FS_Subset, FS_CardinalityType
<1>3. \A j \in S : Rank(S, j) = Cardinality(Upto(j))
  BY DEF Rank
<1>4. \A j \in S : Cardinality(Upto(j)) # 0
  <2> TAKE j \in S
  <2>1. j \in Upto(j)
    BY <1>1
  <2> QED
    BY <1>2, <2>1, FS_EmptySet
<1>5. ASSUME NEW j \in S, NEW k \in S, j < k
      PROVE  Cardinality(Upto(j)) < Cardinality(Upto(k))
  <2>0. j \in Nat /\ k \in Nat /\ \A x \in S : x \in Nat
    BY <1>1
  <2>1. Upto(j) \in SUBSET Upto(k)
    <3>1. \A x \in S : x <= j => x <= k
      BY <2>0, <1>5
    <3> QED
      BY <3>1
  <2>2. k \in Upto(k) /\ k \notin Upto(j)
    BY <1>1, <1>5
  <2>3. /\ Cardinality(Upto(j)) <= Cardinality(Upto(k))
        /\ Cardinality(Upto(k)) # Cardinality(Upto(j))
    BY <1>2, <2>1, <2>2, FS_Subset
  <2> QED
    BY <1>2, <2>3
<1> HIDE DEF Upto
<1>6. \A j \in S : Rank(S, j) \in 1..Cardinality(S)
  BY <1>1, <1>2, <1>3, <1>4
<1>7. \A j, k \in S : j < k => Rank(S, j) < Rank(S, k)
  BY <1>3, <1>5
<1> QED
  BY <1>1, <1>6, <1>7

\* A single job takes the next revision.  [snapshots.rs next_revision]
LEMMA RankOfOne ==
  ASSUME NEW j \in Jobs
  PROVE  Cardinality({j}) = 1 /\ Rank({j}, j) = 1
<1>1. {k \in {j} : k <= j} = {j}
  BY FeedAssumption
<1> QED
  BY <1>1, FS_Singleton DEF Rank

\* What was announced stays so for anybody who asks from further back.
LEMMA AnnouncedEarlier ==
  ASSUME NEW s \in Stores, NEW j, NEW r \in Nat, NEW q \in Nat, r <= q,
         Announced(s, j, q)
  PROVE  Announced(s, j, r)
<1>1. \A x \in s.removals : x.version \in Nat
  BY DEF Stores, Removals
<1> QED
  BY <1>1, Bounds, StoreFields DEF Announced

\* Changes compose: what two critical sections did one after the other.
LEMMA GrownTwice ==
  ASSUME NEW s \in Stores, NEW t \in Stores, NEW v \in Stores, NEW new,
         Grown(s, t, new), Grown(t, v, {})
  PROVE  Grown(s, v, new)
<1>1. s.revision <= v.revision /\ DOMAIN v.jobs \subseteq DOMAIN t.jobs
  BY StoreFields DEF Grown
<1>2. \A j \in DOMAIN v.jobs \cap DOMAIN s.jobs :
       /\ v.jobs[j].created = s.jobs[j].created
       /\ \/ /\ v.jobs[j].version = s.jobs[j].version
             /\ v.jobs[j].state = s.jobs[j].state
          \/ /\ ~Terminal(s.jobs[j].state)
             /\ v.jobs[j].version > s.revision
  <2> TAKE j \in DOMAIN v.jobs \cap DOMAIN s.jobs
  <2>1. j \in DOMAIN t.jobs
    BY <1>1
  <2>2. /\ s.jobs[j].version \in Nat /\ t.jobs[j].version \in Nat
        /\ v.jobs[j].version \in Nat
        /\ s.revision \in Nat /\ t.revision \in Nat /\ s.revision <= t.revision
    BY <2>1, StoreFields DEF Grown
  <2> QED
    BY <2>1, <2>2 DEF Grown
<1>3. \A j \in DOMAIN v.jobs \cap new : v.jobs[j].created > s.revision
  BY <1>1 DEF Grown
<1>4. Shown(v) \subseteq Shown(s) \cup new
  BY DEF Grown
<1>5. ASSUME NEW j \in Shown(s) \ Shown(v) PROVE Announced(v, j, s.revision)
  <2>1. j \in Jobs /\ s.revision \in Nat /\ t.revision \in Nat /\ s.revision <= t.revision
    BY StoreFields DEF Shown, Grown
  <2>2. CASE j \in Shown(t)
    BY <2>1, <2>2, <1>5, AnnouncedEarlier DEF Grown
  <2>3. CASE j \notin Shown(t)
    BY <2>1, <2>3, <1>5 DEF Grown
  <2> QED
    BY <2>2, <2>3
<1>6. \A j \in Jobs, r \in Nat : Announced(s, j, r) => Announced(v, j, r)
  BY DEF Grown
<1>7. new \cap DOMAIN s.jobs = {} /\ DOMAIN v.jobs \subseteq DOMAIN s.jobs \cup new
  BY <1>1 DEF Grown
<1> QED
  BY <1>1, <1>2, <1>3, <1>4, <1>5, <1>6, <1>7 DEF Grown

\* The history of removals keeps its bound, and what it forgets is older than
\* MaxChanges revisions.  [snapshots.rs trim_removals]
LEMMA NewestFacts ==
  ASSUME NEW R \in SUBSET Removals, IsFiniteSet(R), NEW n \in Nat,
         \A q \in R : q.version <= n,
         \A q, r \in R : q.version = r.version => q = r
  PROVE  /\ Newest(R) \subseteq R /\ IsFiniteSet(Newest(R))
         /\ Cardinality(Newest(R)) <= MaxChanges
         /\ \A q \in R \ Newest(R) : q.version + MaxChanges <= n
<1> DEFINE After(q) == {x \in R : x.version > q.version}
<1>0. \A q \in R : q.version \in Nat
  BY DEF Removals
<1>1. \A q \in R : /\ q.version \in Nat
                   /\ IsFiniteSet(After(q)) /\ Cardinality(After(q)) \in Nat
  <2>1. \A q \in R : After(q) \in SUBSET R
    OBVIOUS
  <2> QED
    BY <1>0, <2>1, FS_Subset, FS_CardinalityType
<1>2. Newest(R) = {q \in R : Cardinality(After(q)) < MaxChanges}
  BY DEF Newest
<1>2a. \A q \in R, x \in R : x \in After(q) <=> x.version > q.version
  OBVIOUS
<1>2b. \A q \in R : After(q) \subseteq R
  OBVIOUS
<1> HIDE DEF After
<1>3. IsFiniteSet(Newest(R)) /\ Cardinality(Newest(R)) \in Nat
  BY <1>2, FS_Subset, FS_CardinalityType
<1>4. Cardinality(Newest(R)) <= MaxChanges
  <2>1. CASE Newest(R) = {}
    BY <2>1, FS_EmptySet, Bounds
  <2>2. CASE Newest(R) # {}
    <3> DEFINE V == {q.version : q \in Newest(R)}
               Less == {ss \in Nat \X Nat : ss[1] < ss[2]}
    <3>1. V \subseteq Nat /\ V # {}
      BY <1>0, <1>2, <2>2
    <3>2. IsWellFoundedOn(Less, Nat)
      BY NatLessThanWellFounded DEF OpToRel
    <3>3. PICK v \in V : \A y \in V : <<y, v>> \notin Less
      BY <3>1, <3>2, WFMin
    <3>4. PICK m \in Newest(R) : m.version = v
      BY <3>3
    <3>5. ASSUME NEW q \in Newest(R) PROVE m.version <= q.version
      <4>1. q.version \in Nat /\ m.version \in Nat /\ q.version \in V
        BY <1>1, <1>2
      <4> DEFINE pair == <<q.version, v>>
      <4>2. pair \in Nat \X Nat /\ pair[1] = q.version /\ pair[2] = v
        BY <4>1, <3>4
      <4>3. pair \notin Less
        BY <3>3, <4>1
      <4> QED
        BY <4>1, <4>2, <4>3, <3>4
    <3>6. Newest(R) \ {m} \in SUBSET After(m)
      <4>1. ASSUME NEW q \in Newest(R) \ {m} PROVE q \in After(m)
        <5>1. q \in R /\ m \in R /\ q.version # m.version
          BY <1>2
        <5>2. m.version <= q.version /\ q.version \in Nat /\ m.version \in Nat
          BY <5>1, <1>0, <3>5
        <5> QED
          BY <5>1, <5>2, <1>2a
      <4> QED
        BY <4>1
    <3>7. Cardinality(After(m)) < MaxChanges
      BY <1>2
    <3>8. Cardinality(Newest(R) \ {m}) <= Cardinality(After(m))
      BY <1>1, <1>2, <3>6, FS_Subset
    <3>9. Cardinality(Newest(R) \ {m}) = Cardinality(Newest(R)) - 1
      BY <1>3, FS_RemoveElement
    <3>10. Cardinality(After(m)) \in Nat
      BY <1>1, <1>2
    <3> QED
      BY <1>3, <3>7, <3>8, <3>9, <3>10, Bounds
  <2> QED
    BY <2>1, <2>2
<1>5. ASSUME NEW q \in R \ Newest(R) PROVE q.version + MaxChanges <= n
  <2>1. Cardinality(After(q)) >= MaxChanges /\ q.version \in Nat
    <3>1. Cardinality(After(q)) \in Nat /\ ~(Cardinality(After(q)) < MaxChanges)
      BY <1>1, <1>2
    <3> QED
      BY <3>1, <1>0, Bounds
  <2> DEFINE I == (q.version + 1)..n
             f == [x \in After(q) |-> x.version]
  <2>2. IsFiniteSet(I) /\ Cardinality(I) = IF q.version + 1 > n THEN 0 ELSE n - (q.version + 1) + 1
    <3>1. q.version + 1 \in Int /\ n \in Int
      BY <2>1
    <3> QED
      BY <3>1, FS_Interval
  <2>3. f \in Injection(After(q), I)
    <3>1. \A x \in After(q) : x.version \in I
      <4> TAKE x \in After(q)
      <4>1. x \in R
        BY <1>2b
      <4>2. x.version > q.version /\ x.version <= n /\ x.version \in Nat
        BY <4>1, <1>2a, <1>0
      <4> QED
        BY <4>2, <2>1
    <3>2. \A x, y \in After(q) : f[x] = f[y] => x = y
      BY <1>2b
    <3> QED
      BY <3>1, <3>2 DEF Injection, IsInjective
  <2>4. Cardinality(After(q)) <= Cardinality(I)
    BY <2>2, <2>3, FS_Injection
  <2> HIDE DEF I
  <2>5. Cardinality(After(q)) \in Nat
    BY <1>1
  <2> QED
    BY <2>1, <2>2, <2>4, <2>5, Bounds
<1> QED
  BY <1>2, <1>3, <1>4, <1>5

\* Removals are announced to their audience, and no earlier announcement is
\* lost but to those who get everything anew.
\* [snapshots.rs remove_without_terminal_scan, delta]
LEMMA RemovedFacts ==
  ASSUME NEW s, NEW u, Sound(s, u), NEW S \in SUBSET (Jobs \ u),
         NEW audience \in SUBSET Windows,
         "main" \in audience => S \cap Shown(s) = {},
         NEW t, t = Removed(s, S, audience)
  PROVE  /\ Sound(t, u) /\ t.jobs = s.jobs /\ t.ended = s.ended
         /\ s.revision <= t.revision
         /\ \A j \in Jobs, r \in Nat : Announced(s, j, r) => Announced(t, j, r)
         /\ "main" \in audience => \A j \in S : Announced(t, j, s.revision)
<1> DEFINE entry(j) == [id |-> j, version |-> s.revision + Rank(S, j),
                        audience |-> audience]
           E == {entry(j) : j \in S}
           R == s.removals \cup E
<1>1. /\ s \in Stores /\ s.revision \in Nat /\ s.removals \subseteq Removals
      /\ IsFiniteSet(s.removals)
  BY StoreFields DEF Sound
<1>2. /\ IsFiniteSet(S) /\ Cardinality(S) \in Nat
      /\ \A j \in S : Rank(S, j) \in 1..Cardinality(S)
      /\ \A j, k \in S : j < k => Rank(S, j) < Rank(S, k)
  <2>1. S \in SUBSET Jobs
    OBVIOUS
  <2> QED
    BY <2>1, RankFacts
<1>3. t = [s EXCEPT !.revision = s.revision + Cardinality(S), !.removals = Newest(R)]
  BY DEF Removed
<1>4. t.jobs = s.jobs /\ t.ended = s.ended /\ t.revision = s.revision + Cardinality(S)
      /\ t.removals = Newest(R)
  BY <1>1, <1>3 DEF Stores
<1>5. E \subseteq Removals
  <2>1. ASSUME NEW j \in S PROVE entry(j) \in Removals
    BY <1>1, <1>2 DEF Removals
  <2> QED
    BY <2>1
<1>6. IsFiniteSet(E)
  <2> DEFINE f == [j \in S |-> entry(j)]
  <2>1. f \in Surjection(S, E)
    BY DEF Surjection
  <2> QED
    BY <2>1, <1>2, FS_Surjection
<1>7. IsFiniteSet(R) /\ R \in SUBSET Removals
  <2>1. IsFiniteSet(s.removals \cup E)
    BY <1>1, <1>6, FS_Union
  <2> QED
    BY <2>1, <1>1, <1>5
<1>8. \A q \in E : \E j \in S : /\ q.id = j /\ q.version = s.revision + Rank(S, j)
                                /\ q.audience = audience /\ q = entry(j)
  OBVIOUS
<1>9. \A q \in E : q.version \in (s.revision + 1)..t.revision
  BY <1>1, <1>2, <1>4, <1>8
<1> HIDE DEF E
<1>10. \A q \in s.removals : q.version \in 1..s.revision
  BY DEF Sound
<1>11. \A q \in R : q.version \in 1..t.revision
  BY <1>1, <1>2, <1>4, <1>9, <1>10
<1>12. \A q, r \in E : q.version = r.version => q = r
  <2> TAKE q, r \in E
  <2> HAVE q.version = r.version
  <2>1. PICK j \in S : q = entry(j) /\ q.version = s.revision + Rank(S, j)
    BY <1>8
  <2>2. PICK k \in S : r = entry(k) /\ r.version = s.revision + Rank(S, k)
    BY <1>8
  <2>3. Rank(S, j) = Rank(S, k)
    BY <2>1, <2>2, <1>1, <1>2
  <2>4. j \in Nat /\ k \in Nat
    BY FeedAssumption
  <2>5. j = k
    BY <2>3, <2>4, <1>2
  <2> QED
    BY <2>1, <2>2, <2>5
<1>13. \A q, r \in R : q.version = r.version => q = r
  <2>1. \A q, r \in s.removals : q.version = r.version => q = r
    BY DEF Sound
  <2>2. \A q \in s.removals, r \in E : q.version # r.version
    BY <1>1, <1>9, <1>10, <1>4, <1>2
  <2> QED
    BY <2>1, <2>2, <1>12
<1>14. t.revision \in Nat /\ \A q \in R : q.version <= t.revision
  BY <1>1, <1>2, <1>4, <1>11
<1>15. /\ Newest(R) \subseteq R /\ IsFiniteSet(Newest(R))
       /\ Cardinality(Newest(R)) <= MaxChanges
       /\ \A q \in R \ Newest(R) : q.version + MaxChanges <= t.revision
  <2> HIDE DEF R
  <2> QED
    BY <1>7, <1>13, <1>14, NewestFacts
<1>16. Shown(t) = Shown(s)
  BY <1>4 DEF Shown
<1>17. Sound(t, u)
  <2>1. t \in Stores
    <3>1. Newest(R) \in SUBSET Removals
      BY <1>7, <1>15
    <3> HIDE DEF R
    <3> QED
      BY <1>1, <1>3, <1>14, <3>1, <1>4 DEF Stores
  <2>2. u \subseteq Jobs /\ DOMAIN t.jobs \subseteq Jobs \ u
    BY <1>4 DEF Sound
  <2>3. \A j \in DOMAIN t.jobs : /\ t.jobs[j].created \in 1..t.jobs[j].version
                                 /\ t.jobs[j].version <= t.revision
    <3> TAKE j \in DOMAIN t.jobs
    <3>1. /\ s.jobs[j].created \in 1..s.jobs[j].version
          /\ s.jobs[j].version <= s.revision /\ s.jobs[j].version \in Nat
      BY <1>1, <1>4, StoreFields DEF Sound
    <3> QED
      BY <1>1, <1>2, <1>4, <3>1
  <2>4. \A q \in t.removals : /\ q.version \in 1..t.revision
                              /\ q.id \notin u
                              /\ "main" \in q.audience => q.id \notin Shown(t)
    <3> TAKE q \in t.removals
    <3>1. q \in R
      BY <1>4, <1>15
    <3>2. CASE q \in s.removals
      BY <3>1, <3>2, <1>11, <1>16 DEF Sound
    <3>3. CASE q \in E
      BY <3>1, <3>3, <1>8, <1>11, <1>16
    <3> QED
      BY <3>1, <3>2, <3>3
  <2>5. \A q, r \in t.removals : q.version = r.version => q = r
    BY <1>4, <1>13, <1>15
  <2> QED
    BY <2>1, <2>2, <2>3, <2>4, <2>5, <1>4, <1>15 DEF Sound
<1>18. \A q \in R, j \in Jobs, r \in Nat :
         q.id = j /\ "main" \in q.audience /\ q.version > r => Announced(t, j, r)
  <2> TAKE q \in R, j \in Jobs, r \in Nat
  <2> HAVE q.id = j /\ "main" \in q.audience /\ q.version > r
  <2>1. CASE q \in Newest(R)
    BY <2>1, <1>4 DEF Announced
  <2>2. CASE q \notin Newest(R)
    <3>1. q.version + MaxChanges <= t.revision /\ q.version \in Nat
      <4>1. q.version \in 1..t.revision
        BY <1>11
      <4> HIDE DEF R
      <4> QED
        BY <2>2, <1>15, <4>1, <1>14
    <3>2. r + MaxChanges < t.revision
      BY <3>1, <1>14, Bounds
    <3> QED
      BY <3>2 DEF Announced
  <2> QED
    BY <2>1, <2>2
<1>19. \A j \in Jobs, r \in Nat : Announced(s, j, r) => Announced(t, j, r)
  <2> TAKE j \in Jobs, r \in Nat
  <2> HAVE Announced(s, j, r)
  <2>1. CASE r + MaxChanges < s.revision
    <3>1. r + MaxChanges < t.revision
      BY <2>1, <1>1, <1>2, <1>4, Bounds
    <3> QED
      BY <3>1 DEF Announced
  <2>2. CASE \E q \in s.removals : q.id = j /\ "main" \in q.audience /\ q.version > r
    BY <2>2, <1>18
  <2> QED
    BY <2>1, <2>2 DEF Announced
<1>20. "main" \in audience => \A j \in S : Announced(t, j, s.revision)
  <2> HAVE "main" \in audience
  <2> TAKE j \in S
  <2>1. entry(j) \in R
    BY DEF E
  <2>2. entry(j).id = j /\ entry(j).audience = audience
        /\ entry(j).version = s.revision + Rank(S, j)
    OBVIOUS
  <2>3. entry(j).version > s.revision
    BY <2>2, <1>1, <1>2
  <2> HIDE DEF entry, R
  <2>4. j \in Jobs
    OBVIOUS
  <2> QED
    BY <2>1, <2>2, <2>3, <2>4, <1>1, <1>18
<1> QED
  BY <1>1, <1>2, <1>4, <1>17, <1>19, <1>20

\* A record that is new or changes gets a revision that was not given before.
\* [snapshots.rs next_revision]
LEMMA SoundAfter ==
  ASSUME NEW s, NEW u, Sound(s, u), NEW t \in Stores, NEW new \in SUBSET u,
         NEW v \in SUBSET (u \ new),
         s.revision <= t.revision, t.removals = s.removals,
         DOMAIN t.jobs \subseteq DOMAIN s.jobs \cup new,
         \A j \in DOMAIN t.jobs \cap DOMAIN s.jobs :
           /\ t.jobs[j].created = s.jobs[j].created
           /\ \/ t.jobs[j].version = s.jobs[j].version
              \/ t.jobs[j].version \in (s.revision + 1)..t.revision,
         \A j \in DOMAIN t.jobs \cap new :
           /\ t.jobs[j].created \in 1..t.jobs[j].version
           /\ t.jobs[j].version <= t.revision,
         Shown(t) \subseteq Shown(s) \cup new
  PROVE  /\ Sound(t, v)
         /\ \A j \in Jobs, r \in Nat : Announced(s, j, r) => Announced(t, j, r)
<1>1. /\ s \in Stores /\ s.revision \in Nat /\ t.revision \in Nat
      /\ DOMAIN t.jobs \subseteq Jobs
  BY StoreFields DEF Sound
<1>2. v \subseteq Jobs /\ DOMAIN t.jobs \subseteq Jobs \ v
  BY <1>1 DEF Sound
<1>3. \A j \in DOMAIN t.jobs : /\ t.jobs[j].created \in 1..t.jobs[j].version
                               /\ t.jobs[j].version <= t.revision
  <2> TAKE j \in DOMAIN t.jobs
  <2>1. t.jobs[j].version \in Nat /\ t.jobs[j].created \in Nat
    BY StoreFields
  <2>2. CASE j \in new
    BY <2>2
  <2>3. CASE j \in DOMAIN s.jobs
    <3>1. /\ s.jobs[j].created \in 1..s.jobs[j].version
          /\ s.jobs[j].version <= s.revision /\ s.jobs[j].version \in Nat
      BY <2>3, <1>1, StoreFields DEF Sound
    <3> QED
      BY <2>1, <2>3, <3>1, <1>1
  <2> QED
    BY <2>2, <2>3
<1>4. \A q \in t.removals : /\ q.version \in 1..t.revision
                            /\ q.id \notin v
                            /\ "main" \in q.audience => q.id \notin Shown(t)
  <2> TAKE q \in t.removals
  <2>1. /\ q.version \in 1..s.revision /\ q.id \notin u
        /\ "main" \in q.audience => q.id \notin Shown(s)
    BY DEF Sound
  <2> QED
    BY <2>1, <1>1
<1>5. Sound(t, v)
  BY <1>2, <1>3, <1>4 DEF Sound
<1>6. ASSUME NEW j \in Jobs, NEW r \in Nat, Announced(s, j, r) PROVE Announced(t, j, r)
  BY <1>1, <1>6, Bounds DEF Announced
<1> QED
  BY <1>5, <1>6

\* Doing nothing is a change.
LEMMA GrownSelf ==
  ASSUME NEW s \in Stores PROVE Grown(s, s, {})
  BY StoreFields DEF Grown

\* The oldest terminal record makes room for the newest.
\* [snapshots.rs prune_terminal]
LEMMA PrunedFacts ==
  ASSUME NEW s, NEW u, Sound(s, u), Lined(s), Len(s.ended) <= MaxTerminal + 1,
         NEW t, t = Pruned(s)
  PROVE  /\ Sound(t, u) /\ Grown(s, t, {}) /\ Lined(t) /\ Len(t.ended) <= MaxTerminal
         /\ \A k \in DOMAIN t.jobs : k \in DOMAIN s.jobs /\ t.jobs[k] = s.jobs[k]
<1>1. s \in Stores /\ s.ended \in Seq(Jobs) /\ s.revision \in Nat
  BY StoreFields DEF Sound
<1>2. CASE Len(s.ended) <= MaxTerminal
  BY <1>1, <1>2, GrownSelf DEF Pruned
<1>3. CASE ~(Len(s.ended) <= MaxTerminal)
  <2> DEFINE j == Head(s.ended)
             s1 == [s EXCEPT !.ended = Tail(@), !.jobs = Without(@, {j})]
             audience == {"main", Owner(j)}
  <2>1. t = Removed(s1, {j}, audience)
    BY <1>3 DEF Pruned
  <2>2. Len(s.ended) > 0 /\ s.ended # <<>> /\ j = s.ended[1] /\ 1 \in DOMAIN s.ended
    BY <1>1, <1>3, Bounds
  <2>3. j \in DoneIn(s) /\ j \in Jobs /\ j \in DOMAIN s.jobs
    BY <2>2, <1>1, StoreFields DEF Lined, Range, DoneIn
  <2>4. /\ s1 \in Stores /\ s1.revision = s.revision /\ s1.removals = s.removals
        /\ DOMAIN s1.jobs = DOMAIN s.jobs \ {j}
        /\ \A k \in DOMAIN s1.jobs : s1.jobs[k] = s.jobs[k]
        /\ s1.ended = Tail(s.ended)
    <3>1. /\ Without(s.jobs, {j}) \in [DOMAIN s.jobs \ {j} -> Records]
          /\ DOMAIN s.jobs \ {j} \in SUBSET Jobs
          /\ \A k \in DOMAIN s.jobs \ {j} : Without(s.jobs, {j})[k] = s.jobs[k]
      BY <1>1, StoreFields DEF Without, Restrict
    <3>2. Tail(s.ended) \in Seq(Jobs)
      BY <1>1, <2>2
    <3>3. Without(s.jobs, {j}) \in UNION {[D -> Records] : D \in SUBSET Jobs}
      BY <3>1
    <3> HIDE DEF j
    <3> QED
      BY <3>1, <3>2, <3>3, <1>1 DEF Stores
  <2>5. Shown(s1) \subseteq Shown(s) /\ Shown(s1) = Shown(s) \ {j}
    BY <2>4 DEF Shown
  <2> HIDE DEF s1
  <2>6. /\ Sound(s1, u)
        /\ \A k \in Jobs, r \in Nat : Announced(s, k, r) => Announced(s1, k, r)
    <3> DEFINE none == {}
    <3>1. u \subseteq Jobs /\ none \in SUBSET u /\ u \in SUBSET (u \ none)
      BY DEF Sound
    <3>2. /\ s.revision <= s1.revision /\ s1.removals = s.removals
          /\ DOMAIN s1.jobs \subseteq DOMAIN s.jobs \cup none
          /\ \A k \in DOMAIN s1.jobs \cap DOMAIN s.jobs :
               /\ s1.jobs[k].created = s.jobs[k].created
               /\ \/ s1.jobs[k].version = s.jobs[k].version
                  \/ s1.jobs[k].version \in (s.revision + 1)..s1.revision
          /\ Shown(s1) \subseteq Shown(s) \cup none
      BY <2>4, <2>5, <1>1
    <3>3. \A k \in DOMAIN s1.jobs \cap none :
            /\ s1.jobs[k].created \in 1..s1.jobs[k].version
            /\ s1.jobs[k].version <= s1.revision
      OBVIOUS
    <3> HIDE DEF none, j
    <3> QED
      BY <2>4, <3>1, <3>2, <3>3, SoundAfter
  <2>7. {j} \in SUBSET (Jobs \ u) /\ audience \in SUBSET Windows
    BY <2>3 DEF Sound, Owner, Windows
  <2>8. /\ Sound(t, u) /\ t.jobs = s1.jobs /\ t.ended = s1.ended
        /\ s1.revision <= t.revision
        /\ \A k \in Jobs, r \in Nat : Announced(s1, k, r) => Announced(t, k, r)
        /\ Announced(t, j, s.revision)
    <3> DEFINE S == {j}
    <3>1. /\ S \in SUBSET (Jobs \ u) /\ t = Removed(s1, S, audience)
          /\ "main" \in audience => S \cap Shown(s1) = {}
          /\ "main" \in audience /\ audience \in SUBSET Windows
      BY <2>1, <2>5, <2>7
    <3>2. j \in S
      OBVIOUS
    <3> HIDE DEF j, S, audience
    <3>3. /\ Sound(t, u) /\ t.jobs = s1.jobs /\ t.ended = s1.ended
          /\ s1.revision <= t.revision
          /\ \A k \in Jobs, r \in Nat : Announced(s1, k, r) => Announced(t, k, r)
          /\ "main" \in audience => \A k \in S : Announced(t, k, s1.revision)
      BY <2>6, <3>1, RemovedFacts, Zenon
    <3> QED
      BY <3>1, <3>2, <3>3, <2>4
  <2>9. Shown(t) = Shown(s1)
    BY <2>8 DEF Shown
  <2>10. Grown(s, t, {})
    BY <2>4, <2>5, <2>6, <2>8, <2>9 DEF Grown
  <2>11. Lined(t) /\ Len(t.ended) <= MaxTerminal
    <3>1. /\ t.ended = Tail(s.ended) /\ Len(t.ended) = Len(s.ended) - 1
          /\ \A a \in 1..Len(t.ended) : t.ended[a] = s.ended[a + 1]
          /\ DOMAIN t.ended = 1..Len(t.ended) /\ DOMAIN s.ended = 1..Len(s.ended)
          /\ Len(s.ended) \in Nat
      BY <2>2, <2>4, <2>8, <1>1
    <3>2. \A a, b \in DOMAIN t.ended : t.ended[a] = t.ended[b] => a = b
      <4> TAKE a, b \in DOMAIN t.ended
      <4>1. a + 1 \in DOMAIN s.ended /\ b + 1 \in DOMAIN s.ended /\ a \in Nat /\ b \in Nat
        BY <3>1
      <4>2. t.ended[a] = s.ended[a + 1] /\ t.ended[b] = s.ended[b + 1]
        BY <3>1
      <4>3. t.ended[a] = t.ended[b] => a + 1 = b + 1
        BY <4>1, <4>2 DEF Lined
      <4> QED
        BY <4>1, <4>3
    <3>3. DoneIn(t) = DoneIn(s) \ {j}
      BY <2>4, <2>8 DEF DoneIn
    <3>4. Range(t.ended) = DoneIn(t)
      <4>1. ASSUME NEW a \in DOMAIN t.ended PROVE t.ended[a] \in DoneIn(s) \ {j}
        <5>1. a + 1 \in DOMAIN s.ended /\ a + 1 # 1 /\ t.ended[a] = s.ended[a + 1]
          BY <3>1
        <5> QED
          BY <5>1, <2>2 DEF Lined, Range
      <4>2. ASSUME NEW k \in DoneIn(s) \ {j} PROVE \E a \in DOMAIN t.ended : t.ended[a] = k
        <5>1. PICK b \in DOMAIN s.ended : s.ended[b] = k
          BY DEF Lined, Range
        <5>2. b # 1 /\ b \in 1..Len(s.ended)
          BY <5>1, <2>2, <3>1
        <5>3. b - 1 \in 1..Len(t.ended) /\ t.ended[b - 1] = s.ended[b - 1 + 1] /\ b - 1 + 1 = b
          BY <5>2, <3>1
        <5> QED
          BY <5>1, <5>3, <3>1
      <4> QED
        BY <4>1, <4>2, <3>3 DEF Range
    <3>5. Len(t.ended) <= MaxTerminal
      BY <3>1, Bounds
    <3> QED
      BY <3>2, <3>4, <3>5 DEF Lined
  <2> QED
    BY <2>4, <2>8, <2>10, <2>11
<1> QED
  BY <1>2, <1>3

\* A job that ends is the newest of the terminal ones.
\* [snapshots.rs set_state]
LEMMA EndedFacts ==
  ASSUME NEW s, NEW u, Sound(s, u), NEW j \in DoneIn(s),
         \A a, b \in DOMAIN s.ended : s.ended[a] = s.ended[b] => a = b,
         Range(s.ended) = DoneIn(s) \ {j}, Len(s.ended) <= MaxTerminal,
         NEW t, t = Ended(s, j)
  PROVE  /\ Sound(t, u) /\ Grown(s, t, {}) /\ Lined(t) /\ Len(t.ended) <= MaxTerminal
         /\ \A k \in DOMAIN t.jobs : k \in DOMAIN s.jobs /\ t.jobs[k] = s.jobs[k]
<1> DEFINE s1 == [s EXCEPT !.ended = Append(@, j)]
<1>1. s \in Stores /\ s.ended \in Seq(Jobs) /\ j \in Jobs
  BY StoreFields DEF Sound, DoneIn
<1>2. /\ Append(s.ended, j) \in Seq(Jobs)
      /\ Len(Append(s.ended, j)) = Len(s.ended) + 1
      /\ \A a \in 1..Len(s.ended) : Append(s.ended, j)[a] = s.ended[a]
      /\ Append(s.ended, j)[Len(s.ended) + 1] = j
      /\ Len(s.ended) \in Nat /\ DOMAIN s.ended = 1..Len(s.ended)
      /\ DOMAIN Append(s.ended, j) = 1..(Len(s.ended) + 1)
  BY <1>1
<1>3. /\ s1 \in Stores /\ s1.revision = s.revision /\ s1.jobs = s.jobs
      /\ s1.removals = s.removals /\ s1.ended = Append(s.ended, j)
  BY <1>1, <1>2 DEF Stores
<1> HIDE DEF s1
<1>4. /\ Shown(s1) = Shown(s) /\ DoneIn(s1) = DoneIn(s)
      /\ \A k, r : Announced(s1, k, r) <=> Announced(s, k, r)
  BY <1>3 DEF Shown, DoneIn, Announced
<1>5. Sound(s1, u)
  BY <1>3, <1>4 DEF Sound
<1>6. Lined(s1)
  <2>1. \A a \in 1..Len(s.ended) : s.ended[a] \in DoneIn(s) /\ s.ended[a] # j
    BY <1>2 DEF Range
  <2>2. \A a, b \in DOMAIN s1.ended : s1.ended[a] = s1.ended[b] => a = b
    <3> TAKE a, b \in DOMAIN s1.ended
    <3>1. CASE a \in 1..Len(s.ended) /\ b \in 1..Len(s.ended)
      BY <3>1, <1>2, <1>3
    <3>2. CASE a = Len(s.ended) + 1 \/ b = Len(s.ended) + 1
      BY <3>2, <2>1, <1>2, <1>3
    <3> QED
      BY <3>1, <3>2, <1>2, <1>3
  <2>3. Range(s1.ended) = DoneIn(s1)
    <3>1. ASSUME NEW a \in DOMAIN s1.ended PROVE s1.ended[a] \in DoneIn(s)
      BY <2>1, <1>2, <1>3
    <3>2. ASSUME NEW k \in DoneIn(s) PROVE \E a \in DOMAIN s1.ended : s1.ended[a] = k
      <4>1. CASE k = j
        BY <4>1, <1>2, <1>3
      <4>2. CASE k # j
        <5>1. PICK a \in DOMAIN s.ended : s.ended[a] = k
          BY <4>2 DEF Range
        <5> QED
          BY <5>1, <1>2, <1>3
      <4> QED
        BY <4>1, <4>2
    <3> QED
      BY <3>1, <3>2, <1>4 DEF Range
  <2> QED
    BY <2>2, <2>3 DEF Lined
<1>7. t = Pruned(s1)
  BY DEF Ended, s1
<1>8. Len(s1.ended) <= MaxTerminal + 1
  BY <1>2, <1>3, Bounds
<1>9. /\ Sound(t, u) /\ Grown(s1, t, {}) /\ Lined(t) /\ Len(t.ended) <= MaxTerminal
      /\ \A k \in DOMAIN t.jobs : k \in DOMAIN s1.jobs /\ t.jobs[k] = s1.jobs[k]
  BY <1>5, <1>6, <1>7, <1>8, PrunedFacts, Zenon
<1> QED
  BY <1>3, <1>4, <1>9 DEF Grown

\* Only what has ended can be dismissed.
Settled(s) ==
  \A j \in DOMAIN s.jobs : Terminal(s.jobs[j].state) \/ s.jobs[j].dismissed_by = {}

StoreOK(s, u) == Sound(s, u) /\ Lined(s) /\ Len(s.ended) <= MaxTerminal /\ Settled(s)

\* Records that change while their jobs go on.
\* [snapshots.rs set_progress, sync_queue_statuses]
LEMMA StampedFacts ==
  ASSUME NEW s \in Stores, NEW S \in SUBSET DOMAIN s.jobs, NEW t, t = Stamped(s, S)
  PROVE  /\ t \in Stores /\ t.ended = s.ended /\ t.removals = s.removals
         /\ t.revision = s.revision + Cardinality(S) /\ Cardinality(S) \in Nat
         /\ DOMAIN t.jobs = DOMAIN s.jobs
         /\ \A j \in DOMAIN s.jobs :
              /\ t.jobs[j].created = s.jobs[j].created
              /\ t.jobs[j].state = s.jobs[j].state
              /\ t.jobs[j].dismissed_by = s.jobs[j].dismissed_by
              /\ j \notin S => t.jobs[j].version = s.jobs[j].version
              /\ j \in S => t.jobs[j].version = s.revision + Rank(S, j)
              /\ j \in S => t.jobs[j].version \in (s.revision + 1)..t.revision
<1>1. /\ S \in SUBSET Jobs /\ DOMAIN s.jobs \in SUBSET Jobs /\ s.revision \in Nat
      /\ s.jobs \in [DOMAIN s.jobs -> Records]
  BY StoreFields
<1>2. Cardinality(S) \in Nat /\ \A j \in S : Rank(S, j) \in 1..Cardinality(S)
  BY <1>1, RankFacts
<1> DEFINE J == [j \in DOMAIN s.jobs |->
                 IF j \in S
                   THEN [s.jobs[j] EXCEPT !.version = s.revision + Rank(S, j)]
                   ELSE s.jobs[j]]
<1>3. J \in [DOMAIN s.jobs -> Records]
  <2>1. ASSUME NEW j \in DOMAIN s.jobs PROVE J[j] \in Records
    <3>1. s.jobs[j] \in Records
      BY <1>1
    <3>2. CASE j \in S
      <4>1. s.revision + Rank(S, j) \in Nat
        BY <3>2, <1>1, <1>2
      <4> QED
        BY <3>1, <3>2, <4>1 DEF Records
    <3>3. CASE j \notin S
      BY <3>1, <3>3
    <3> QED
      BY <3>2, <3>3
  <2> QED
    BY <2>1
<1>4. J \in UNION {[D -> Records] : D \in SUBSET Jobs}
  BY <1>1, <1>3
<1>5. t = [s EXCEPT !.revision = s.revision + Cardinality(S), !.jobs = J]
  BY DEF Stamped
<1>6. \A j \in DOMAIN s.jobs :
              /\ J[j].created = s.jobs[j].created
              /\ J[j].state = s.jobs[j].state
              /\ J[j].dismissed_by = s.jobs[j].dismissed_by
              /\ j \notin S => J[j].version = s.jobs[j].version
              /\ j \in S => J[j].version = s.revision + Rank(S, j)
  BY <1>1 DEF Records
<1>7. DOMAIN J = DOMAIN s.jobs
  OBVIOUS
<1> HIDE DEF J
<1>8. t \in Stores /\ t.jobs = J /\ t.ended = s.ended /\ t.removals = s.removals
      /\ t.revision = s.revision + Cardinality(S)
  <2>1. PICK n \in Nat : n = s.revision + Cardinality(S)
    BY <1>1, <1>2
  <2>2. t = [s EXCEPT !.revision = n, !.jobs = J]
    BY <1>5, <2>1
  <2> QED
    BY <1>4, <2>1, <2>2 DEF Stores
<1> QED
  BY <1>1, <1>2, <1>6, <1>7, <1>8

\* A change of records that go on keeps the store in order.
LEMMA StampedKeeps ==
  ASSUME NEW s, NEW u, Sound(s, u), NEW S \in SUBSET (DOMAIN s.jobs \ DoneIn(s)),
         NEW t, t = Stamped(s, S)
  PROVE  /\ Sound(t, u) /\ Grown(s, t, {})
         /\ t.ended = s.ended /\ DoneIn(t) = DoneIn(s) /\ Shown(t) = Shown(s)
         /\ \A k \in DOMAIN t.jobs :
              /\ k \in DOMAIN s.jobs /\ t.jobs[k].state = s.jobs[k].state
              /\ t.jobs[k].dismissed_by = s.jobs[k].dismissed_by
<1>1. s \in Stores /\ S \in SUBSET DOMAIN s.jobs /\ s.revision \in Nat
  BY StoreFields DEF Sound
<1>2. /\ t \in Stores /\ t.ended = s.ended /\ t.removals = s.removals
      /\ t.revision = s.revision + Cardinality(S) /\ Cardinality(S) \in Nat
      /\ DOMAIN t.jobs = DOMAIN s.jobs
      /\ \A j \in DOMAIN s.jobs :
           /\ t.jobs[j].created = s.jobs[j].created
           /\ t.jobs[j].state = s.jobs[j].state
           /\ t.jobs[j].dismissed_by = s.jobs[j].dismissed_by
           /\ j \notin S => t.jobs[j].version = s.jobs[j].version
           /\ j \in S => t.jobs[j].version \in (s.revision + 1)..t.revision
  BY <1>1, StampedFacts
<1>3. Shown(t) = Shown(s) /\ DoneIn(t) = DoneIn(s)
  BY <1>2 DEF Shown, DoneIn
<1> DEFINE none == {}
<1>4. /\ none \in SUBSET u /\ u \in SUBSET (u \ none) /\ s.revision <= t.revision
      /\ DOMAIN t.jobs \subseteq DOMAIN s.jobs \cup none
      /\ Shown(t) \subseteq Shown(s) \cup none
  BY <1>1, <1>2, <1>3
<1>5. \A j \in DOMAIN t.jobs \cap none : /\ t.jobs[j].created \in 1..t.jobs[j].version
                                         /\ t.jobs[j].version <= t.revision
  OBVIOUS
<1>6. \A j \in DOMAIN t.jobs \cap DOMAIN s.jobs :
           /\ t.jobs[j].created = s.jobs[j].created
           /\ \/ t.jobs[j].version = s.jobs[j].version
              \/ t.jobs[j].version \in (s.revision + 1)..t.revision
  BY <1>2
<1> HIDE DEF none
<1>7. /\ Sound(t, u)
      /\ \A j \in Jobs, r \in Nat : Announced(s, j, r) => Announced(t, j, r)
  BY <1>2, <1>4, <1>5, <1>6, SoundAfter, Zenon
<1>9. Grown(s, t, {})
  <2>1. \A j \in S : ~Terminal(s.jobs[j].state)
    BY DEF DoneIn
  <2>2. \A j \in DOMAIN t.jobs \cap DOMAIN s.jobs :
       /\ t.jobs[j].created = s.jobs[j].created
       /\ \/ /\ t.jobs[j].version = s.jobs[j].version
             /\ t.jobs[j].state = s.jobs[j].state
          \/ /\ ~Terminal(s.jobs[j].state)
             /\ t.jobs[j].version > s.revision
    BY <1>1, <1>2, <2>1
  <2> QED
    BY <1>2, <1>3, <1>4, <1>7, <2>2 DEF Grown
<1> QED
  BY <1>2, <1>3, <1>7, <1>9

\* What is dismissed at one time, [snapshots.rs dismiss] with all its checks
\* passed.
LEMMA DismissedFacts ==
  ASSUME NEW s, NEW u, StoreOK(s, u), NEW window \in Windows,
         NEW ids \in SUBSET DoneIn(s), NEW t, t = Dismissed(s, window, ids)
  PROVE  /\ StoreOK(t, u) /\ Grown(s, t, {}) /\ DOMAIN t.jobs = DOMAIN s.jobs
         /\ \A j \in DOMAIN s.jobs :
              /\ t.jobs[j].version = s.jobs[j].version
              /\ t.jobs[j].state = s.jobs[j].state
              /\ "main" \in t.jobs[j].dismissed_by
                   => "main" \in s.jobs[j].dismissed_by \/ (window = "main" /\ j \in ids)
         /\ window = "main" => ids \cap Shown(t) = {}
<1> DEFINE S == {j \in ids : window \notin s.jobs[j].dismissed_by}
           J == [j \in DOMAIN s.jobs |->
                    IF j \in S THEN [s.jobs[j] EXCEPT !.dismissed_by = @ \cup {window}]
                    ELSE s.jobs[j]]
           s1 == [s EXCEPT !.jobs = J]
           audience == {window}
<1>1. s \in Stores /\ s.revision \in Nat /\ s.jobs \in [DOMAIN s.jobs -> Records]
      /\ DOMAIN s.jobs \in SUBSET Jobs
  BY StoreFields DEF StoreOK, Sound
<1>2. t = Removed(s1, S, audience)
  BY DEF Dismissed
<1>3. J \in [DOMAIN s.jobs -> Records]
  <2>1. ASSUME NEW j \in DOMAIN s.jobs PROVE J[j] \in Records
    BY <1>1 DEF Records
  <2> QED
    BY <2>1
<1>4. /\ DOMAIN J = DOMAIN s.jobs
      /\ \A j \in DOMAIN s.jobs :
           /\ J[j].created = s.jobs[j].created
           /\ J[j].version = s.jobs[j].version
           /\ J[j].state = s.jobs[j].state
           /\ j \in S => J[j].dismissed_by = s.jobs[j].dismissed_by \cup {window}
           /\ j \notin S => J[j].dismissed_by = s.jobs[j].dismissed_by
  BY <1>1 DEF Records
<1>5. /\ S \subseteq ids /\ ids \subseteq DOMAIN s.jobs
      /\ \A j \in ids : Terminal(s.jobs[j].state)
      /\ \A j \in ids \ S : window \in s.jobs[j].dismissed_by
  BY DEF DoneIn
<1> HIDE DEF J, S
<1>6. /\ s1 \in Stores /\ s1.jobs = J /\ s1.revision = s.revision
      /\ s1.removals = s.removals /\ s1.ended = s.ended
  BY <1>1, <1>3 DEF Stores
<1> HIDE DEF s1
<1>7. /\ Shown(s1) \subseteq Shown(s) /\ DoneIn(s1) = DoneIn(s)
      /\ Shown(s) \ Shown(s1) \subseteq S
      /\ window # "main" => Shown(s1) = Shown(s)
      /\ window = "main" => ids \cap Shown(s1) = {}
  BY <1>4, <1>5, <1>6 DEF Shown, DoneIn
<1>8. /\ Sound(s1, u)
      /\ \A k \in Jobs, r \in Nat : Announced(s, k, r) => Announced(s1, k, r)
  <2> DEFINE none == {}
  <2>1. /\ none \in SUBSET u /\ u \in SUBSET (u \ none) /\ s.revision <= s1.revision
        /\ DOMAIN s1.jobs \subseteq DOMAIN s.jobs \cup none
        /\ Shown(s1) \subseteq Shown(s) \cup none
    BY <1>1, <1>4, <1>6, <1>7
  <2>2. \A j \in DOMAIN s1.jobs \cap none : /\ s1.jobs[j].created \in 1..s1.jobs[j].version
                                            /\ s1.jobs[j].version <= s1.revision
    OBVIOUS
  <2>3. \A j \in DOMAIN s1.jobs \cap DOMAIN s.jobs :
           /\ s1.jobs[j].created = s.jobs[j].created
           /\ \/ s1.jobs[j].version = s.jobs[j].version
              \/ s1.jobs[j].version \in (s.revision + 1)..s1.revision
    BY <1>4, <1>6
  <2> HIDE DEF none
  <2> QED
    BY <1>6, <2>1, <2>2, <2>3, SoundAfter, Zenon DEF StoreOK
<1>9. /\ S \in SUBSET (Jobs \ u) /\ audience \in SUBSET Windows
      /\ "main" \in audience => S \cap Shown(s1) = {}
  BY <1>1, <1>5, <1>7 DEF StoreOK, Sound
<1> HIDE DEF audience
<1>10. /\ Sound(t, u) /\ t.jobs = s1.jobs /\ t.ended = s1.ended
       /\ s1.revision <= t.revision
       /\ \A k \in Jobs, r \in Nat : Announced(s1, k, r) => Announced(t, k, r)
       /\ "main" \in audience => \A k \in S : Announced(t, k, s1.revision)
  BY <1>2, <1>8, <1>9, RemovedFacts, Zenon
<1>11. Shown(t) = Shown(s1) /\ DoneIn(t) = DoneIn(s)
  BY <1>10, <1>7 DEF Shown, DoneIn
<1>12. \A j \in Shown(s) \ Shown(t) : Announced(t, j, s.revision)
  <2>1. CASE window = "main"
    <3>1. "main" \in audience
      BY <2>1 DEF audience
    <3> QED
      BY <3>1, <1>6, <1>7, <1>10, <1>11
  <2>2. CASE window # "main"
    BY <2>2, <1>7, <1>11
  <2> QED
    BY <2>1, <2>2
<1>13. Grown(s, t, {})
  BY <1>4, <1>6, <1>7, <1>8, <1>10, <1>11, <1>12 DEF Grown
<1>14. Lined(t) /\ Len(t.ended) <= MaxTerminal /\ Settled(t)
  <2>1. Lined(t) /\ Len(t.ended) <= MaxTerminal
    BY <1>6, <1>10, <1>11 DEF StoreOK, Lined
  <2>2. Settled(t)
    BY <1>4, <1>5, <1>6, <1>10 DEF StoreOK, Settled
  <2> QED
    BY <2>1, <2>2
<1> QED
  BY <1>4, <1>5, <1>6, <1>7, <1>10, <1>11, <1>13, <1>14 DEF StoreOK

\* A job's state changes, the jobs behind it move up, and a job that ends may
\* push out the oldest.  [snapshots.rs set_state]
LEMMA WithStateFacts ==
  ASSUME NEW s, NEW u, StoreOK(s, u), NEW j \in DOMAIN s.jobs \ DoneIn(s),
         NEW state \in States, NEW S \in SUBSET (DOMAIN s.jobs \ DoneIn(s)), j \notin S,
         NEW t, t = WithState(s, j, state, S)
  PROVE  /\ StoreOK(t, u) /\ Grown(s, t, {})
         /\ Shown(s) \cap DOMAIN t.jobs \subseteq Shown(t)
<1> DEFINE s1 == [s EXCEPT !.jobs[j].state = state]
           t1 == Stamped(s1, {j})
           t2 == Stamped(t1, S)
<1>1. s \in Stores /\ s.revision \in Nat /\ s.jobs \in [DOMAIN s.jobs -> Records]
      /\ DOMAIN s.jobs \in SUBSET Jobs /\ Sound(s, u) /\ j \in Jobs
  BY StoreFields DEF StoreOK, Sound
<1>2. /\ s1 \in Stores /\ s1.revision = s.revision
      /\ s1.removals = s.removals /\ s1.ended = s.ended
      /\ DOMAIN s1.jobs = DOMAIN s.jobs
      /\ \A k \in DOMAIN s.jobs \ {j} : s1.jobs[k] = s.jobs[k]
      /\ s1.jobs[j] = [s.jobs[j] EXCEPT !.state = state]
  <2> DEFINE J == [s.jobs EXCEPT ![j].state = state]
  <2>1. /\ J \in [DOMAIN s.jobs -> Records] /\ DOMAIN J = DOMAIN s.jobs
        /\ \A k \in DOMAIN s.jobs \ {j} : J[k] = s.jobs[k]
        /\ J[j] = [s.jobs[j] EXCEPT !.state = state]
    BY <1>1 DEF Records
  <2>2. s1 = [s EXCEPT !.jobs = J]
    BY <1>1 DEF Stores
  <2> HIDE DEF J, s1
  <2> QED
    BY <1>1, <2>1, <2>2 DEF Stores
<1>3. /\ s1.jobs[j].created = s.jobs[j].created
      /\ s1.jobs[j].dismissed_by = s.jobs[j].dismissed_by
      /\ s1.jobs[j].state = state
  BY <1>1, <1>2 DEF Records
<1> HIDE DEF s1
<1>4. /\ t1 \in Stores /\ t1.ended = s1.ended /\ t1.removals = s1.removals
      /\ t1.revision = s1.revision + 1
      /\ DOMAIN t1.jobs = DOMAIN s1.jobs
      /\ \A k \in DOMAIN s1.jobs :
           /\ t1.jobs[k].created = s1.jobs[k].created
           /\ t1.jobs[k].state = s1.jobs[k].state
           /\ t1.jobs[k].dismissed_by = s1.jobs[k].dismissed_by
           /\ k \notin {j} => t1.jobs[k].version = s1.jobs[k].version
           /\ k \in {j} => t1.jobs[k].version \in (s1.revision + 1)..t1.revision
  <2>1. {j} \in SUBSET DOMAIN s1.jobs /\ Cardinality({j}) = 1
    BY <1>2, FS_Singleton
  <2> QED
    BY <1>2, <2>1, StampedFacts
<1> HIDE DEF t1
<1>5. /\ Shown(t1) = Shown(s)
      /\ DoneIn(t1) = IF Terminal(state) THEN DoneIn(s) \cup {j} ELSE DoneIn(s)
  <2>1. \A k \in DOMAIN s.jobs : t1.jobs[k].dismissed_by = s.jobs[k].dismissed_by
    BY <1>2, <1>3, <1>4
  <2>2. \A k \in DOMAIN s.jobs : t1.jobs[k].state = IF k = j THEN state ELSE s.jobs[k].state
    BY <1>2, <1>3, <1>4
  <2> QED
    BY <2>1, <2>2, <1>2, <1>4 DEF Shown, DoneIn
<1>6. \A k \in DOMAIN s.jobs :
        /\ t1.jobs[k].created = s.jobs[k].created
        /\ k # j => t1.jobs[k].version = s.jobs[k].version /\ t1.jobs[k].state = s.jobs[k].state
        /\ k = j => t1.jobs[k].version \in (s.revision + 1)..t1.revision
  BY <1>2, <1>3, <1>4
<1>7. /\ Sound(t1, u)
      /\ \A k \in Jobs, r \in Nat : Announced(s, k, r) => Announced(t1, k, r)
  <2> DEFINE none == {}
  <2>1. /\ none \in SUBSET u /\ u \in SUBSET (u \ none) /\ s.revision <= t1.revision
        /\ DOMAIN t1.jobs \subseteq DOMAIN s.jobs \cup none
        /\ Shown(t1) \subseteq Shown(s) \cup none
        /\ t1.removals = s.removals
    BY <1>1, <1>2, <1>4, <1>5
  <2>2. \A k \in DOMAIN t1.jobs \cap none : /\ t1.jobs[k].created \in 1..t1.jobs[k].version
                                            /\ t1.jobs[k].version <= t1.revision
    OBVIOUS
  <2>3. \A k \in DOMAIN t1.jobs \cap DOMAIN s.jobs :
           /\ t1.jobs[k].created = s.jobs[k].created
           /\ \/ t1.jobs[k].version = s.jobs[k].version
              \/ t1.jobs[k].version \in (s.revision + 1)..t1.revision
    BY <1>6
  <2> HIDE DEF none
  <2> QED
    BY <1>1, <1>4, <2>1, <2>2, <2>3, SoundAfter, Zenon
<1>8. Grown(s, t1, {})
  <2>1. ~Terminal(s.jobs[j].state)
    BY DEF DoneIn
  <2>2. \A k \in DOMAIN t1.jobs \cap DOMAIN s.jobs :
       /\ t1.jobs[k].created = s.jobs[k].created
       /\ \/ /\ t1.jobs[k].version = s.jobs[k].version
             /\ t1.jobs[k].state = s.jobs[k].state
          \/ /\ ~Terminal(s.jobs[k].state)
             /\ t1.jobs[k].version > s.revision
    BY <1>1, <1>6, <2>1
  <2> QED
    BY <1>1, <1>2, <1>4, <1>5, <1>7, <2>2 DEF Grown
<1>9. /\ Sound(t2, u) /\ Grown(t1, t2, {}) /\ t2.ended = t1.ended /\ DoneIn(t2) = DoneIn(t1)
      /\ \A k \in DOMAIN t2.jobs :
           /\ k \in DOMAIN t1.jobs /\ t2.jobs[k].state = t1.jobs[k].state
           /\ t2.jobs[k].dismissed_by = t1.jobs[k].dismissed_by
  <2>1. S \in SUBSET (DOMAIN t1.jobs \ DoneIn(t1))
    BY <1>2, <1>4, <1>5
  <2> QED
    BY <1>7, <2>1, StampedKeeps
<1> HIDE DEF t2
<1>10. t2 \in Stores /\ Grown(s, t2, {})
  <2>1. t2 \in Stores
    BY <1>9 DEF Sound
  <2> QED
    BY <1>1, <1>4, <1>8, <1>9, <2>1, GrownTwice
<1>11. /\ t2.ended = s.ended
       /\ \A k \in DOMAIN t2.jobs :
            /\ k \in DOMAIN s.jobs /\ (k # j => t2.jobs[k].state = s.jobs[k].state)
            /\ t2.jobs[k].dismissed_by = s.jobs[k].dismissed_by
       /\ s.jobs[j].dismissed_by = {}
  <2>1. t2.ended = s.ended
    BY <1>2, <1>4, <1>9
  <2>2. s.jobs[j].dismissed_by = {}
    BY DEF StoreOK, Settled, DoneIn
  <2>3. ASSUME NEW k \in DOMAIN t2.jobs
        PROVE  /\ k \in DOMAIN s.jobs /\ (k # j => t2.jobs[k].state = s.jobs[k].state)
               /\ t2.jobs[k].dismissed_by = s.jobs[k].dismissed_by
    <3>1. /\ k \in DOMAIN s1.jobs /\ k \in DOMAIN t1.jobs
          /\ t2.jobs[k].state = t1.jobs[k].state
          /\ t2.jobs[k].dismissed_by = t1.jobs[k].dismissed_by
      BY <1>4, <1>9
    <3>2. t1.jobs[k].state = s1.jobs[k].state /\ t1.jobs[k].dismissed_by = s1.jobs[k].dismissed_by
      BY <1>4, <3>1
    <3> QED
      BY <1>2, <1>3, <3>1, <3>2
  <2> QED
    BY <2>1, <2>2, <2>3
<1>0. ASSUME \A k \in DOMAIN t.jobs : k \in DOMAIN t2.jobs /\ t.jobs[k] = t2.jobs[k]
      PROVE  Settled(t) /\ Shown(s) \cap DOMAIN t.jobs \subseteq Shown(t)
  <2>1. ASSUME NEW k \in DOMAIN t.jobs
        PROVE  Terminal(t.jobs[k].state) \/ t.jobs[k].dismissed_by = {}
    <3>1. /\ t.jobs[k] = t2.jobs[k] /\ k \in DOMAIN s.jobs
          /\ (k # j => t2.jobs[k].state = s.jobs[k].state)
          /\ t2.jobs[k].dismissed_by = s.jobs[k].dismissed_by
      BY <1>0, <1>11
    <3>2. Terminal(s.jobs[k].state) \/ s.jobs[k].dismissed_by = {}
      BY <3>1 DEF StoreOK, Settled
    <3> QED
      BY <1>11, <3>1, <3>2
  <2>2. \A k \in Shown(s) \cap DOMAIN t.jobs : k \in Shown(t)
    BY <1>0, <1>11 DEF Shown
  <2> QED
    BY <2>1, <2>2 DEF Settled
<1>12. CASE Terminal(state)
  <2>1. t = Ended(t2, j)
    BY <1>12 DEF WithState, t2, t1, s1
  <2>2. /\ j \in DoneIn(t2) /\ Range(t2.ended) = DoneIn(t2) \ {j}
        /\ \A a, b \in DOMAIN t2.ended : t2.ended[a] = t2.ended[b] => a = b
        /\ Len(t2.ended) <= MaxTerminal
    BY <1>5, <1>9, <1>11, <1>12 DEF StoreOK, Lined
  <2>0. Sound(t2, u)
    BY <1>9
  <2>3. /\ Sound(t, u) /\ Grown(t2, t, {}) /\ Lined(t) /\ Len(t.ended) <= MaxTerminal
        /\ \A k \in DOMAIN t.jobs : k \in DOMAIN t2.jobs /\ t.jobs[k] = t2.jobs[k]
    BY <2>0, <2>1, <2>2, EndedFacts, Zenon
  <2>4. t \in Stores
    BY <2>3 DEF Sound
  <2> QED
    BY <1>1, <1>10, <1>0, <2>3, <2>4, GrownTwice DEF StoreOK
<1>13. CASE ~Terminal(state)
  <2>1. t = t2
    BY <1>13 DEF WithState, t2, t1, s1
  <2>2. Lined(t2) /\ Len(t2.ended) <= MaxTerminal
    BY <1>5, <1>9, <1>11, <1>13 DEF StoreOK, Lined
  <2> QED
    BY <1>9, <1>10, <1>0, <2>1, <2>2 DEF StoreOK
<1> QED
  BY <1>12, <1>13

\* A job is registered, waiting or cancelled already.
\* [snapshots.rs insert_with_resources]
LEMMA InsertedFacts ==
  ASSUME NEW s, NEW u, StoreOK(s, u), NEW j \in u, NEW state \in States,
         NEW t, t = Inserted(s, j, state)
  PROVE  /\ StoreOK(t, u \ {j}) /\ Grown(s, t, {j})
         /\ (Shown(s) \cup {j}) \cap DOMAIN t.jobs \subseteq Shown(t)
<1> DEFINE v == s.revision + 1
           record == [version |-> v, created |-> v, state |-> state, dismissed_by |-> {}]
           J == [k \in DOMAIN s.jobs \cup {j} |-> IF k = j THEN record ELSE s.jobs[k]]
           s1 == [s EXCEPT !.revision = v, !.jobs = J]
           new == {j}
           rest == u \ {j}
<1>1. s \in Stores /\ s.revision \in Nat /\ s.jobs \in [DOMAIN s.jobs -> Records]
      /\ DOMAIN s.jobs \in SUBSET Jobs /\ Sound(s, u) /\ j \in Jobs
      /\ j \notin DOMAIN s.jobs
  BY StoreFields DEF StoreOK, Sound
<1>2. t = IF Terminal(state) THEN Ended(s1, j) ELSE s1
  BY DEF Inserted
<1>3. v \in Nat /\ record \in Records
  BY <1>1 DEF Records, Windows
<1>4. /\ J \in [DOMAIN s.jobs \cup {j} -> Records]
      /\ DOMAIN J = DOMAIN s.jobs \cup {j} /\ J[j] = record
      /\ \A k \in DOMAIN s.jobs : J[k] = s.jobs[k]
  BY <1>1, <1>3
<1>5. J \in UNION {[D -> Records] : D \in SUBSET Jobs}
  <2>1. DOMAIN s.jobs \cup {j} \in SUBSET Jobs
    BY <1>1
  <2> HIDE DEF J
  <2> QED
    BY <1>4, <2>1
<1> HIDE DEF J, record
<1>6. /\ s1 \in Stores /\ s1.revision = s.revision + 1 /\ s1.jobs = J
      /\ s1.removals = s.removals /\ s1.ended = s.ended
  <2> HIDE DEF v
  <2>1. v = s.revision + 1
    BY DEF v
  <2> QED
    BY <1>1, <1>3, <1>5, <2>1 DEF Stores
<1> HIDE DEF s1
<1>7. /\ DOMAIN s1.jobs = DOMAIN s.jobs \cup {j}
      /\ \A k \in DOMAIN s.jobs : s1.jobs[k] = s.jobs[k]
      /\ s1.jobs[j].version = s.revision + 1 /\ s1.jobs[j].created = s.revision + 1
      /\ s1.jobs[j].state = state /\ s1.jobs[j].dismissed_by = {}
  BY <1>4, <1>6 DEF record
<1>8. /\ Shown(s1) = Shown(s) \cup {j}
      /\ DoneIn(s1) = IF Terminal(state) THEN DoneIn(s) \cup {j} ELSE DoneIn(s)
      /\ j \notin DoneIn(s)
  BY <1>1, <1>7 DEF Shown, DoneIn
<1>9. /\ Sound(s1, rest)
      /\ \A k \in Jobs, r \in Nat : Announced(s, k, r) => Announced(s1, k, r)
  <2>1. /\ new \in SUBSET u /\ rest \in SUBSET (u \ new) /\ s.revision <= s1.revision
        /\ DOMAIN s1.jobs \subseteq DOMAIN s.jobs \cup new
        /\ Shown(s1) \subseteq Shown(s) \cup new
        /\ s1.removals = s.removals
    BY <1>1, <1>6, <1>7, <1>8
  <2>2. \A k \in DOMAIN s1.jobs \cap new : /\ s1.jobs[k].created \in 1..s1.jobs[k].version
                                           /\ s1.jobs[k].version <= s1.revision
    BY <1>1, <1>6, <1>7
  <2>3. \A k \in DOMAIN s1.jobs \cap DOMAIN s.jobs :
           /\ s1.jobs[k].created = s.jobs[k].created
           /\ \/ s1.jobs[k].version = s.jobs[k].version
              \/ s1.jobs[k].version \in (s.revision + 1)..s1.revision
    BY <1>7
  <2> HIDE DEF new, rest
  <2> QED
    BY <1>1, <1>6, <2>1, <2>2, <2>3, SoundAfter, Zenon
<1>10. Grown(s, s1, {j})
  BY <1>1, <1>6, <1>7, <1>8, <1>9 DEF Grown
<1>0. ASSUME \A k \in DOMAIN t.jobs : k \in DOMAIN s1.jobs /\ t.jobs[k] = s1.jobs[k]
      PROVE  Settled(t) /\ (Shown(s) \cup {j}) \cap DOMAIN t.jobs \subseteq Shown(t)
  BY <1>7, <1>0 DEF StoreOK, Settled, Shown
<1>11. CASE Terminal(state)
  <2>1. /\ j \in DoneIn(s1) /\ Range(s1.ended) = DoneIn(s1) \ {j}
        /\ \A a, b \in DOMAIN s1.ended : s1.ended[a] = s1.ended[b] => a = b
        /\ Len(s1.ended) <= MaxTerminal
        /\ t = Ended(s1, j)
    BY <1>2, <1>6, <1>8, <1>11 DEF StoreOK, Lined
  <2>2. /\ Sound(t, rest) /\ Grown(s1, t, {}) /\ Lined(t) /\ Len(t.ended) <= MaxTerminal
        /\ \A k \in DOMAIN t.jobs : k \in DOMAIN s1.jobs /\ t.jobs[k] = s1.jobs[k]
    BY <1>9, <2>1, EndedFacts, Zenon
  <2>3. t \in Stores
    BY <2>2 DEF Sound
  <2> QED
    BY <1>1, <1>6, <1>10, <1>0, <2>2, <2>3, GrownTwice DEF StoreOK
<1>12. CASE ~Terminal(state)
  <2>1. Lined(s1) /\ Len(s1.ended) <= MaxTerminal /\ t = s1
    BY <1>2, <1>6, <1>8, <1>12 DEF StoreOK, Lined
  <2> QED
    BY <1>9, <1>10, <1>0, <2>1 DEF StoreOK
<1> QED
  BY <1>11, <1>12

-----------------------------------------------------------------------------
(***************************************************************************)
(* Reports, rows and calls.                                                *)
(***************************************************************************)
Kinds == {"submit", "poll", "delta", "refresh", "move", "dismiss"}
Lines == [version : Nat, state : States, localEffects : BOOLEAN]
Rows == UNION {[D -> Lines] : D \in SUBSET Jobs}
Reports == [id : Jobs, version : Nat, state : States, spec : BOOLEAN]
Deltas == [revision : Nat, reset : BOOLEAN, upserts : SUBSET Reports,
           removed : SUBSET Jobs]
Replies == (SUBSET Reports) \cup Deltas \cup BOOLEAN
Calls == [kind : Kinds, ids : SUBSET Jobs, since : Nat \cup {Unknown},
          generation : Nat, rollback : Rows, answered : BOOLEAN, reply : Replies]

Single(P) == \A p, q \in P : p.id = q.id => p = q

\* What is told of a job was so once: it may be old, but not wrong, and whoever
\* holds it will hear when the job is gone.
Coherent(s, u, j, v, state) ==
  /\ j \in Jobs \ u
  /\ v \in 1..s.revision
  /\ state \in States
  /\ j \in DOMAIN s.jobs =>
       /\ v <= s.jobs[j].version
       /\ v = s.jobs[j].version => state = s.jobs[j].state
       /\ Terminal(state) => v = s.jobs[j].version
  /\ j \notin Shown(s) => Announced(s, j, v)

Reported(s, u, P) == \A p \in P : Coherent(s, u, p.id, p.version, p.state)
Listed(s, u, f) == \A j \in DOMAIN f : Coherent(s, u, j, f[j].version, f[j].state)

IsDelta(x) == x.kind \in {"poll", "delta"}
Looks(x) == x.kind \in {"submit", "refresh"}

\* The reports an answer carries.
Brought(x) ==
  IF ~x.answered THEN {}
  ELSE IF IsDelta(x) THEN x.reply.upserts
  ELSE IF Looks(x) THEN x.reply ELSE {}

AnswerOK(s, u, x) ==
  /\ IsDelta(x) => x.reply \in Deltas /\ x.reply.revision <= s.revision
  /\ x.kind \in {"move", "dismiss"} => x.reply \in BOOLEAN
  /\ Looks(x) => /\ x.reply \in SUBSET Reports
                 /\ \A p \in x.reply : x.ids = {p.id}
  /\ Single(Brought(x)) /\ Reported(s, u, Brought(x))

CallOK(s, u, x) ==
  /\ x \in Calls
  /\ x.since <= s.revision
  /\ Looks(x) => \E j \in Mine : x.ids = {j}
  /\ x.kind # "submit" => x.ids \subseteq Jobs \ u
  /\ Listed(s, u, x.rollback)
  /\ \A j \in DOMAIN x.rollback : Terminal(x.rollback[j].state)
  /\ x.kind = "dismiss" => DOMAIN x.rollback = x.ids
  /\ x.answered => AnswerOK(s, u, x)

\* Commands run in the order sent, and a job is submitted once.
CallsOK(s, u, c) ==
  /\ c \in Seq(Calls)
  /\ \A i \in DOMAIN c : CallOK(s, u, c[i])
  /\ \A i, k \in DOMAIN c : i < k /\ c[k].answered => c[i].answered
  /\ \A i, k \in DOMAIN c :
       c[i].kind = "submit" /\ c[k].kind = "submit" /\ c[i].ids = c[k].ids => i = k

WindowOK(s, u, f, r, g, L) ==
  /\ f \in Rows /\ Listed(s, u, f)
  /\ r \in {Unknown} \cup (0..s.revision)
  /\ g \in Nat
  /\ L \subseteq Jobs \ u
  /\ \A j \in L \cap DOMAIN s.jobs : Terminal(s.jobs[j].state)

EventsOK(s, u, ev) ==
  /\ ev \subseteq Reports
  /\ Reported(s, u, ev)
  /\ \A p \in ev : ~p.spec /\ p.id \in Mine

\* A job this window has submitted and heard of.
Claimed(u, c, j) ==
  /\ j \in Mine \ u
  /\ \A i \in DOMAIN c : c[i].kind = "submit" => c[i].ids # {j}

Once(u, c, f, n) ==
  \A j \in DOMAIN f : f[j].localEffects =>
    /\ Claimed(u, c, j)
    /\ Terminal(f[j].state) <=> n[j] = 1

Onces(u, c, f, n) ==
  /\ n \in [Jobs -> {0, 1}]
  /\ \A j \in Jobs : n[j] = 1 => Claimed(u, c, j)
  /\ Once(u, c, f, n)
  /\ \A i \in DOMAIN c : Once(u, c, c[i].rollback, n)

\* The store grows while what was told of it lags behind.
LEMMA CoherentGrown ==
  ASSUME NEW s, NEW t, NEW u, NEW new \in SUBSET u, StoreOK(s, u), StoreOK(t, u \ new),
         Grown(s, t, new), NEW j, NEW v, NEW state, Coherent(s, u, j, v, state)
  PROVE  Coherent(t, u \ new, j, v, state)
<1>1. /\ s \in Stores /\ t \in Stores /\ s.revision \in Nat /\ t.revision \in Nat
      /\ s.revision <= t.revision
  BY StoreFields DEF StoreOK, Sound, Grown
<1>2. j \in Jobs \ u /\ v \in 1..s.revision /\ state \in States /\ j \notin new
  BY DEF Coherent
<1>3. ASSUME j \in DOMAIN t.jobs
      PROVE  /\ v <= t.jobs[j].version
             /\ v = t.jobs[j].version => state = t.jobs[j].state
             /\ Terminal(state) => v = t.jobs[j].version
  <2>1. j \in DOMAIN s.jobs
    BY <1>2, <1>3 DEF Grown
  <2>2. /\ s.jobs[j].version \in Nat /\ t.jobs[j].version \in Nat
        /\ s.jobs[j].version <= s.revision
    BY <1>1, <1>3, <2>1, StoreFields DEF StoreOK, Sound
  <2>3. /\ v <= s.jobs[j].version
        /\ v = s.jobs[j].version => state = s.jobs[j].state
        /\ Terminal(state) => v = s.jobs[j].version
    BY <2>1 DEF Coherent
  <2>4. \/ t.jobs[j].version = s.jobs[j].version /\ t.jobs[j].state = s.jobs[j].state
        \/ ~Terminal(s.jobs[j].state) /\ t.jobs[j].version > s.revision
    BY <1>3, <2>1 DEF Grown
  <2> QED
    BY <1>1, <1>2, <2>2, <2>3, <2>4
<1>4. ASSUME j \notin Shown(t)
      PROVE  Announced(t, j, v)
  <2>1. CASE j \in Shown(s)
    <3>1. Announced(t, j, s.revision)
      BY <1>4, <2>1 DEF Grown
    <3> QED
      BY <1>1, <1>2, <3>1, AnnouncedEarlier
  <2>2. CASE j \notin Shown(s)
    <3>1. Announced(s, j, v)
      BY <2>2 DEF Coherent
    <3> QED
      BY <1>2, <3>1 DEF Grown
  <2> QED
    BY <2>1, <2>2
<1> QED
  BY <1>1, <1>2, <1>3, <1>4 DEF Coherent

\* A record as it stands.
LEMMA CoherentNow ==
  ASSUME NEW s, NEW u, StoreOK(s, u), NEW j \in Shown(s)
  PROVE  Coherent(s, u, j, s.jobs[j].version, s.jobs[j].state)
<1>1. s \in Stores /\ j \in DOMAIN s.jobs
  BY DEF StoreOK, Sound, Shown
<1>2. /\ s.jobs[j].version \in Nat /\ s.jobs[j].created \in 1..s.jobs[j].version
      /\ s.jobs[j].version <= s.revision /\ s.jobs[j].state \in States
      /\ s.revision \in Nat /\ j \in Jobs \ u
  BY <1>1, StoreFields DEF StoreOK, Sound
<1>3. s.jobs[j].version \in 1..s.revision
  BY <1>2
<1> QED
  BY <1>1, <1>2, <1>3 DEF Coherent

\* What the window holds and awaits stays coherent while the backend works.
LEMMA WindowGrown ==
  ASSUME NEW s, NEW t, NEW u, NEW new \in SUBSET u, StoreOK(s, u), StoreOK(t, u \ new),
         Grown(s, t, new), NEW f, NEW r, NEW g, NEW L, WindowOK(s, u, f, r, g, L)
  PROVE  WindowOK(t, u \ new, f, r, g, L)
<1>1. Listed(t, u \ new, f)
  BY CoherentGrown, Zenon DEF WindowOK, Listed
<1>2. s.revision \in Nat /\ t.revision \in Nat /\ s.revision <= t.revision
  BY StoreFields DEF StoreOK, Sound, Grown
<1>3. r \in {Unknown} \cup (0..t.revision)
  BY <1>2 DEF WindowOK
<1>4. ASSUME NEW j \in L \cap DOMAIN t.jobs
      PROVE  Terminal(t.jobs[j].state)
  <2>1. j \in DOMAIN s.jobs /\ Terminal(s.jobs[j].state)
    BY DEF WindowOK, Grown
  <2> QED
    BY <2>1 DEF Grown
<1> QED
  BY <1>1, <1>3, <1>4 DEF WindowOK

\* The same of an awaited command.
LEMMA CallGrown ==
  ASSUME NEW s, NEW t, NEW u, NEW new \in SUBSET u, StoreOK(s, u), StoreOK(t, u \ new),
         Grown(s, t, new), NEW x, CallOK(s, u, x)
  PROVE  CallOK(t, u \ new, x)
<1>1. s.revision \in Nat /\ t.revision \in Nat /\ s.revision <= t.revision
  BY StoreFields DEF StoreOK, Sound, Grown
<1>2. Listed(t, u \ new, x.rollback)
  BY CoherentGrown, Zenon DEF CallOK, Listed
<1>3. x.since <= t.revision
  BY <1>1 DEF CallOK, Calls, Unknown
<1>4. ASSUME x.answered
      PROVE  AnswerOK(t, u \ new, x)
  <2>1. AnswerOK(s, u, x)
    BY <1>4 DEF CallOK
  <2>2. Reported(t, u \ new, Brought(x))
    BY <2>1, CoherentGrown, Zenon DEF AnswerOK, Reported
  <2>3. IsDelta(x) => x.reply \in Deltas /\ x.reply.revision <= t.revision
    BY <1>1, <2>1 DEF AnswerOK, Deltas
  <2> QED
    BY <2>1, <2>2, <2>3 DEF AnswerOK
<1> QED
  BY <1>2, <1>3, <1>4 DEF CallOK

\* The same of all awaited commands and events.
LEMMA CallsGrown ==
  ASSUME NEW s, NEW t, NEW u, NEW new \in SUBSET u, StoreOK(s, u), StoreOK(t, u \ new),
         Grown(s, t, new), NEW c, CallsOK(s, u, c), NEW ev, EventsOK(s, u, ev)
  PROVE  CallsOK(t, u \ new, c) /\ EventsOK(t, u \ new, ev)
<1>1. \A i \in DOMAIN c : CallOK(t, u \ new, c[i])
  BY CallGrown, Zenon DEF CallsOK
<1>2. Reported(t, u \ new, ev)
  BY CoherentGrown, Zenon DEF EventsOK, Reported
<1> QED
  BY <1>1, <1>2 DEF CallsOK, EventsOK

-----------------------------------------------------------------------------
(***************************************************************************)
(* Answers.                                                                *)
(***************************************************************************)

\* A job is looked up.  [snapshots.rs get]
LEMMA LookedFacts ==
  ASSUME StoreOK(store, unused), NEW j \in Jobs
  PROVE  /\ Looked(j) \in SUBSET Reports /\ Single(Looked(j))
         /\ Reported(store, unused, Looked(j))
         /\ \A p \in Looked(j) : /\ p.id = j /\ p.spec /\ j \in Shown(store)
                                 /\ p.version = store.jobs[j].version
                                 /\ p.state = store.jobs[j].state
<1>1. Visible = Shown(store) /\ store \in Stores
  BY DEF Visible, Known, Shown, StoreOK, Sound
<1>2. ASSUME NEW p \in Looked(j)
      PROVE  /\ j \in Shown(store) /\ p = Snapshot(j, TRUE) /\ p \in Reports /\ p.id = j /\ p.spec
             /\ p.version = store.jobs[j].version /\ p.state = store.jobs[j].state
             /\ Coherent(store, unused, p.id, p.version, p.state)
  <2>1. j \in Shown(store) /\ p = Snapshot(j, TRUE)
    BY <1>1 DEF Looked
  <2>2. j \in DOMAIN store.jobs
    BY <2>1 DEF Shown
  <2>3. store.jobs[j].version \in Nat /\ store.jobs[j].state \in States
    BY <1>1, <2>2, StoreFields
  <2>4. /\ p.id = j /\ p.spec /\ p.version = store.jobs[j].version
        /\ p.state = store.jobs[j].state /\ p \in Reports
    BY <2>1, <2>3 DEF Snapshot, Reports
  <2> QED
    BY <2>1, <2>4, CoherentNow
<1> QED
  BY <1>2 DEF Single, Reported

\* What a delta tells, and what it does not.  [snapshots.rs list_since]
LEMMA DeltaFacts ==
  ASSUME StoreOK(store, unused), NEW since \in Nat \cup {Unknown}, NEW d, d = Delta(since)
  PROVE  /\ d \in Deltas /\ d.revision = store.revision
         /\ ~d.reset => since # Unknown /\ since <= store.revision
                        /\ since + MaxChanges >= store.revision
         /\ Single(d.upserts) /\ Reported(store, unused, d.upserts)
         /\ \A p \in d.upserts : /\ p.id \in Shown(store)
                                 /\ p.version = store.jobs[p.id].version
                                 /\ p.state = store.jobs[p.id].state
         /\ \A j \in Shown(store) :
              /\ (d.reset \/ store.jobs[j].version > since)
                   => \E p \in d.upserts : p.id = j
              /\ (d.reset \/ store.jobs[j].created > since)
                   => \A p \in d.upserts : p.id = j => p.spec
         /\ d.removed \cap Shown(store) = {} /\ d.removed \cap unused = {}
         /\ ~d.reset => \A q \in store.removals :
              "main" \in q.audience /\ q.version > since => q.id \in d.removed
<1> DEFINE reset == since = Unknown \/ since > store.revision \/ since < Oldest - 1
           told == {k \in Shown(store) : reset \/ store.jobs[k].version > since}
           gone == {q \in store.removals : q.version > since /\ "main" \in q.audience}
<1>1. Visible = Shown(store) /\ store \in Stores /\ Sound(store, unused)
  BY DEF Visible, Known, Shown, StoreOK, Sound
<1>2. d = [revision |-> store.revision, reset |-> reset,
           upserts |-> {Snapshot(j, reset \/ store.jobs[j].created > since) : j \in told},
           removed |-> IF reset THEN {} ELSE {r.id : r \in gone}]
  BY <1>1 DEF Delta
<1>3. /\ d.revision = store.revision /\ d.reset = reset
      /\ d.upserts = {Snapshot(j, reset \/ store.jobs[j].created > since) : j \in told}
      /\ d.removed = IF reset THEN {} ELSE {r.id : r \in gone}
  BY <1>2
<1>4. reset \in BOOLEAN /\ store.revision \in Nat /\ Shown(store) \subseteq DOMAIN store.jobs
  BY <1>1, StoreFields DEF Shown
<1>5. ~reset => since # Unknown /\ since <= store.revision /\ since + MaxChanges >= store.revision
  <2>1. MaxChanges \in Nat
    BY Bounds
  <2> QED
    BY <1>4, <2>1 DEF Oldest, Unknown
<1> HIDE DEF reset
<1>6. ASSUME NEW p \in d.upserts
      PROVE  /\ p.id \in told /\ p \in Reports
             /\ p.version = store.jobs[p.id].version
             /\ p.state = store.jobs[p.id].state
             /\ p.spec = (reset \/ store.jobs[p.id].created > since)
             /\ p = Snapshot(p.id, reset \/ store.jobs[p.id].created > since)
             /\ Coherent(store, unused, p.id, p.version, p.state)
  <2>1. PICK j \in told : p = Snapshot(j, reset \/ store.jobs[j].created > since)
    BY <1>3
  <2>2. /\ p.id = j /\ p.version = store.jobs[j].version /\ p.state = store.jobs[j].state
        /\ p.spec = (reset \/ store.jobs[j].created > since)
    BY <2>1 DEF Snapshot
  <2>3. j \in DOMAIN store.jobs /\ j \in Jobs /\ store.jobs[j].version \in Nat
        /\ store.jobs[j].state \in States
    BY <1>1, <1>4, StoreFields
  <2>4. p \in Reports
    BY <2>1, <2>3, <1>4 DEF Snapshot, Reports
  <2> QED
    BY <2>1, <2>2, <2>4, CoherentNow
<1>7. ASSUME NEW j \in told
      PROVE  \E p \in d.upserts : p.id = j
  <2>1. Snapshot(j, reset \/ store.jobs[j].created > since) \in d.upserts
    BY <1>3
  <2> QED
    BY <2>1 DEF Snapshot
<1>8. d.removed \subseteq Jobs /\ d.removed \cap Shown(store) = {} /\ d.removed \cap unused = {}
  <2>1. \A q \in store.removals : q.id \in Jobs
    BY <1>1, StoreFields DEF Removals
  <2>2. \A q \in gone : q.id \notin unused /\ q.id \notin Shown(store)
    BY <1>1 DEF Sound
  <2> HIDE DEF gone
  <2>3. \A q \in gone : q.id \in Jobs
    BY <2>1 DEF gone
  <2> QED
    BY <1>3, <2>2, <2>3
<1>9. d \in Deltas
  <2>1. d.upserts \subseteq Reports
    BY <1>6
  <2> HIDE DEF told, gone
  <2> QED
    BY <1>2, <1>3, <1>4, <1>8, <2>1 DEF Deltas
<1>10. Single(d.upserts)
  BY <1>6 DEF Single
<1>11. Reported(store, unused, d.upserts)
  BY <1>6 DEF Reported
<1>12. ~d.reset => \A q \in store.removals :
              "main" \in q.audience /\ q.version > since => q.id \in d.removed
  BY <1>3
<1> QED
  BY <1>3, <1>5, <1>6, <1>7, <1>8, <1>9, <1>10, <1>11, <1>12

-----------------------------------------------------------------------------
(***************************************************************************)
(* The commands awaited.                                                   *)
(***************************************************************************)

\* A command is sent: it is the last.
LEMMA SentFacts ==
  ASSUME NEW c \in Seq(Calls), NEW x \in Calls, NEW b, b = Append(c, x)
  PROVE  /\ b \in Seq(Calls) /\ Len(b) = Len(c) + 1 /\ Len(c) \in Nat
         /\ DOMAIN c = 1..Len(c) /\ DOMAIN b = DOMAIN c \cup {Len(c) + 1}
         /\ \A k \in DOMAIN c : b[k] = c[k] /\ k < Len(c) + 1
         /\ b[Len(c) + 1] = x
  OBVIOUS

\* A reply is taken: the others keep their order.
LEMMA DropFacts ==
  ASSUME NEW c \in Seq(Calls), NEW i \in DOMAIN c, NEW b, b = RemoveAt(c, i)
  PROVE  /\ b \in Seq(Calls) /\ Len(b) = Len(c) - 1 /\ Len(c) \in Nat
         /\ DOMAIN c = 1..Len(c) /\ DOMAIN b = 1..Len(b) /\ i \in 1..Len(c)
         /\ \A k \in DOMAIN b : /\ k < i => k \in DOMAIN c /\ b[k] = c[k]
                                /\ k >= i => k + 1 \in DOMAIN c /\ b[k] = c[k + 1]
<1> DEFINE m == SubSeq(c, 1, i - 1)
           n == SubSeq(c, i + 1, Len(c))
<1>1. Len(c) \in Nat /\ DOMAIN c = 1..Len(c) /\ i \in 1..Len(c)
  OBVIOUS
<1>2. /\ m \in Seq(Calls) /\ Len(m) = i - 1 /\ \A k \in 1..(i - 1) : m[k] = c[k]
  BY <1>1
<1>3. /\ n \in Seq(Calls) /\ Len(n) = Len(c) - i
      /\ \A k \in 1..(Len(c) - i) : n[k] = c[k + i]
  BY <1>1
<1>4. b = m \o n
  BY DEF RemoveAt
<1> HIDE DEF m, n
<1>5. /\ b \in Seq(Calls) /\ Len(b) = Len(c) - 1
      /\ DOMAIN b = 1..Len(b)
  <2>1. m \o n \in Seq(Calls) /\ Len(m \o n) = Len(m) + Len(n)
    BY <1>2, <1>3, ConcatProperties
  <2>2. Len(m) + Len(n) = Len(c) - 1
    BY <1>1, <1>2, <1>3
  <2>3. b \in Seq(Calls) /\ Len(b) = Len(c) - 1
    BY <2>1, <2>2, <1>4, Zenon
  <2> QED
    BY <2>3, LenProperties, Zenon
<1>6. ASSUME NEW k \in 1..(Len(c) - 1)
      PROVE  /\ k < i => k \in DOMAIN c /\ b[k] = c[k]
             /\ k >= i => k + 1 \in DOMAIN c /\ b[k] = c[k + 1]
  <2>1. CASE k < i
    <3>1. k \in 1..(i - 1) /\ k \in 1..Len(c)
      BY <2>1, <1>1
    <3>2. b[k] = m[k]
      BY <3>1, <1>1, <1>2, <1>3, <1>4
    <3> QED
      BY <3>1, <3>2, <2>1, <1>1, <1>2
  <2>2. CASE k >= i
    <3>1. /\ k - (i - 1) \in 1..(Len(c) - i) /\ (k - (i - 1)) + i = k + 1
          /\ k + 1 \in 1..Len(c) /\ ~(k < i) /\ k \in Nat /\ ~(k <= i - 1)
      BY <2>2, <1>1
    <3>2. b[k] = n[k - (i - 1)]
      BY <3>1, <1>1, <1>2, <1>3, <1>4
    <3>3. n[k - (i - 1)] = c[k + 1]
      BY <3>1, <1>3
    <3> QED
      BY <3>1, <3>2, <3>3, <1>1
  <2> QED
    BY <2>1, <2>2, <1>1
<1> QED
  BY <1>1, <1>5, <1>6

\* The same, of where each command was.
LEMMA DropPlaces ==
  ASSUME NEW c \in Seq(Calls), NEW i \in DOMAIN c, NEW b, b = RemoveAt(c, i)
  PROVE  /\ b \in Seq(Calls)
         /\ \E h \in [DOMAIN b -> DOMAIN c \ {i}] :
              /\ \A k \in DOMAIN b : b[k] = c[h[k]]
              /\ \A k, l \in DOMAIN b : k < l => h[k] < h[l]
              /\ \A k, l \in DOMAIN b : h[k] = h[l] => k = l
<1> DEFINE h == [k \in DOMAIN b |-> IF k < i THEN k ELSE k + 1]
<1>1. /\ b \in Seq(Calls) /\ Len(b) = Len(c) - 1 /\ Len(c) \in Nat
      /\ DOMAIN c = 1..Len(c) /\ DOMAIN b = 1..Len(b) /\ i \in 1..Len(c)
      /\ \A k \in DOMAIN b : /\ k < i => k \in DOMAIN c /\ b[k] = c[k]
                             /\ k >= i => k + 1 \in DOMAIN c /\ b[k] = c[k + 1]
  BY DropFacts
<1>2. h \in [DOMAIN b -> DOMAIN c \ {i}]
  BY <1>1
<1>3. \A k \in DOMAIN b : b[k] = c[h[k]]
  BY <1>1
<1>4. \A k, l \in DOMAIN b : k < l => h[k] < h[l]
  BY <1>1
<1>5. \A k, l \in DOMAIN b : h[k] = h[l] => k = l
  BY <1>1
<1> HIDE DEF h
<1> QED
  BY <1>1, <1>2, <1>3, <1>4, <1>5

\* A reply leaves the rest of what is awaited in order.
LEMMA CallsDropped ==
  ASSUME NEW s, NEW u, NEW c, CallsOK(s, u, c), NEW i \in DOMAIN c,
         NEW b, b = RemoveAt(c, i)
  PROVE  /\ CallsOK(s, u, b)
         /\ \A j \in Jobs : Claimed(u, c, j) => Claimed(u, b, j)
         /\ c[i].kind = "submit" => \A k \in DOMAIN b :
              b[k].kind = "submit" => b[k].ids # c[i].ids
         /\ \A k \in DOMAIN b : \E l \in DOMAIN c : b[k] = c[l]
<1>0. c \in Seq(Calls) /\ DOMAIN c \subseteq Nat
  BY DEF CallsOK
<1>1. b \in Seq(Calls)
  BY <1>0, DropPlaces
<1>2. PICK h \in [DOMAIN b -> DOMAIN c \ {i}] :
        /\ \A k \in DOMAIN b : b[k] = c[h[k]]
        /\ \A k, l \in DOMAIN b : k < l => h[k] < h[l]
        /\ \A k, l \in DOMAIN b : h[k] = h[l] => k = l
  BY <1>0, DropPlaces
<1>3. \A k \in DOMAIN b : h[k] \in DOMAIN c /\ h[k] # i
  BY <1>2
<1>4. \A k \in DOMAIN b : CallOK(s, u, b[k])
  BY <1>2, <1>3 DEF CallsOK
<1>5. \A k, l \in DOMAIN b : k < l /\ b[l].answered => b[k].answered
  BY <1>2, <1>3 DEF CallsOK
<1>6. \A k, l \in DOMAIN b :
        b[k].kind = "submit" /\ b[l].kind = "submit" /\ b[k].ids = b[l].ids => k = l
  BY <1>2, <1>3 DEF CallsOK
<1>7. c[i].kind = "submit" => \A k \in DOMAIN b :
        b[k].kind = "submit" => b[k].ids # c[i].ids
  BY <1>2, <1>3 DEF CallsOK
<1>8. \A j \in Jobs : Claimed(u, c, j) => Claimed(u, b, j)
  BY <1>2, <1>3 DEF Claimed
<1> QED
  BY <1>1, <1>2, <1>3, <1>4, <1>5, <1>6, <1>7, <1>8 DEF CallsOK

\* A command is sent; a job that is submitted has no id yet and is not being
\* submitted.
LEMMA CallsSent ==
  ASSUME NEW s, NEW u, NEW c, CallsOK(s, u, c), NEW x, CallOK(s, u, x), ~x.answered,
         x.kind = "submit" => \A k \in DOMAIN c : c[k].kind = "submit" => c[k].ids # x.ids,
         NEW b, b = Append(c, x)
  PROVE  CallsOK(s, u, b)
<1>0. c \in Seq(Calls) /\ x \in Calls
  BY DEF CallsOK, CallOK
<1>1. /\ b \in Seq(Calls) /\ Len(c) \in Nat /\ DOMAIN c = 1..Len(c)
      /\ DOMAIN b = DOMAIN c \cup {Len(c) + 1}
      /\ \A k \in DOMAIN c : b[k] = c[k] /\ k < Len(c) + 1
      /\ b[Len(c) + 1] = x
  BY <1>0, SentFacts
<1>2. \A k \in DOMAIN b : CallOK(s, u, b[k])
  BY <1>1 DEF CallsOK
<1>3. \A k, l \in DOMAIN b : k < l /\ b[l].answered => b[k].answered
  BY <1>1 DEF CallsOK
<1>4. ASSUME NEW k \in DOMAIN b, NEW l \in DOMAIN b,
             b[k].kind = "submit", b[l].kind = "submit", b[k].ids = b[l].ids
      PROVE  k = l
  <2>1. CASE k \in DOMAIN c /\ l \in DOMAIN c
    BY <2>1, <1>1, <1>4 DEF CallsOK
  <2>2. CASE k = Len(c) + 1 \/ l = Len(c) + 1
    BY <2>2, <1>1, <1>4
  <2> QED
    BY <2>1, <2>2, <1>1
<1> QED
  BY <1>1, <1>2, <1>3, <1>4 DEF CallsOK

Replied(c, i, reply) ==
  [c EXCEPT ![i].answered = TRUE, ![i].reply = reply, ![i].since = Unknown]

\* A command is answered in its turn.
LEMMA AnsweredFacts ==
  ASSUME NEW c \in Seq(Calls), NEW i \in DOMAIN c, NEW reply \in Replies, NEW b, b = Replied(c, i, reply)
  PROVE  /\ b \in Seq(Calls) /\ DOMAIN b = DOMAIN c
         /\ \A k \in DOMAIN c \ {i} : b[k] = c[k]
         /\ b[i].kind = c[i].kind /\ b[i].ids = c[i].ids /\ b[i].generation = c[i].generation
         /\ b[i].rollback = c[i].rollback /\ b[i].answered /\ b[i].reply = reply
         /\ b[i].since = Unknown
<1> DEFINE x == [c[i] EXCEPT !.answered = TRUE, !.reply = reply, !.since = Unknown]
           e == [c EXCEPT ![i] = x]
<1>1. c[i] \in Calls /\ i \in 1..Len(c) /\ DOMAIN c = 1..Len(c)
  OBVIOUS
<1>2. /\ x \in Calls /\ x.kind = c[i].kind /\ x.ids = c[i].ids /\ x.generation = c[i].generation
      /\ x.rollback = c[i].rollback /\ x.answered /\ x.reply = reply /\ x.since = Unknown
  BY <1>1 DEF Calls
<1>3. b = e
  BY <1>1 DEF Calls, Replied
<1> HIDE DEF x
<1>4. /\ e \in Seq(Calls) /\ Len(e) = Len(c)
      /\ \A k \in 1..Len(c) : e[k] = IF k = i THEN x ELSE c[k]
  BY <1>1, <1>2, ExceptSeq
<1>5. DOMAIN e = DOMAIN c
  OBVIOUS
<1> HIDE DEF e
<1>6. e[i] = x /\ \A k \in DOMAIN c \ {i} : e[k] = c[k]
  BY <1>1, <1>4
<1>7. b \in Seq(Calls) /\ DOMAIN b = DOMAIN c /\ b[i] = x /\ \A k \in DOMAIN c \ {i} : b[k] = c[k]
  BY <1>3, <1>4, <1>5, <1>6, Zenon
<1>8. /\ b[i].kind = c[i].kind /\ b[i].ids = c[i].ids /\ b[i].generation = c[i].generation
      /\ b[i].rollback = c[i].rollback /\ b[i].answered /\ b[i].reply = reply
      /\ b[i].since = Unknown
  BY <1>2, <1>7, Zenon
<1> QED
  BY <1>7, <1>8, Zenon

\* An answer keeps what is awaited in order.
LEMMA CallsAnswered ==
  ASSUME NEW s, NEW u, NEW c, CallsOK(s, u, c), NEW i \in DOMAIN c,
         \A k \in 1..(i - 1) : c[k].answered, s.revision \in Nat,
         NEW reply \in Replies, NEW b, b = Replied(c, i, reply),
         AnswerOK(s, u, b[i])
  PROVE  /\ CallsOK(s, u, b)
         /\ \A j \in Jobs : Claimed(u, c, j) => Claimed(u, b, j)
<1>0. c \in Seq(Calls) /\ DOMAIN c \subseteq Nat \ {0}
  BY DEF CallsOK
<1>1. /\ b \in Seq(Calls) /\ DOMAIN b = DOMAIN c
      /\ \A k \in DOMAIN c \ {i} : b[k] = c[k]
      /\ b[i].kind = c[i].kind /\ b[i].ids = c[i].ids /\ b[i].generation = c[i].generation
      /\ b[i].rollback = c[i].rollback /\ b[i].answered /\ b[i].reply = reply
      /\ b[i].since = Unknown
  BY <1>0, AnsweredFacts
<1>2. CallOK(s, u, c[i]) /\ b[i] \in Calls /\ Unknown <= s.revision
  BY <1>0, <1>1 DEF CallsOK, Unknown
<1>3. CallOK(s, u, b[i])
  BY <1>1, <1>2 DEF CallOK, Looks
<1>4. \A k \in DOMAIN b : CallOK(s, u, b[k])
  BY <1>1, <1>3 DEF CallsOK
<1>5. \A k, l \in DOMAIN b : k < l /\ b[l].answered => b[k].answered
  <2> TAKE k, l \in DOMAIN b
  <2>1. CASE l = i
    BY <2>1, <1>0, <1>1
  <2>2. CASE l # i
    BY <2>2, <1>0, <1>1 DEF CallsOK
  <2> QED
    BY <2>1, <2>2
<1>6. \A k, l \in DOMAIN b :
        b[k].kind = "submit" /\ b[l].kind = "submit" /\ b[k].ids = b[l].ids => k = l
  <2>1. \A k \in DOMAIN b : b[k].kind = c[k].kind /\ b[k].ids = c[k].ids
    BY <1>1
  <2> QED
    BY <1>1, <2>1 DEF CallsOK
<1>7. \A j \in Jobs : Claimed(u, c, j) => Claimed(u, b, j)
  <2>1. \A k \in DOMAIN b : b[k].kind = c[k].kind /\ b[k].ids = c[k].ids
    BY <1>1
  <2> QED
    BY <1>1, <2>1 DEF Claimed
<1> QED
  BY <1>1, <1>4, <1>5, <1>6, <1>7 DEF CallsOK

-----------------------------------------------------------------------------
(***************************************************************************)
(* Reports applied to the list.                                            *)
(***************************************************************************)
Told(f, p) ==
  IF p.id \in DOMAIN f
    THEN p.version >= f[p.id].version /\ (Terminal(f[p.id].state) => Terminal(p.state))
    ELSE p.spec

\* The completion effects of a row are due.
Due(f, h, j) ==
  /\ j \in DOMAIN f /\ f[j].localEffects
  /\ ~Terminal(f[j].state) /\ Terminal(h[j].state)

\* Rows f become h when reports P are applied, and n becomes m.
Applied(f, n, P, h, m) ==
  /\ DOMAIN f \subseteq DOMAIN h
  /\ \A j \in DOMAIN h :
       \/ /\ j \in DOMAIN f /\ h[j] = f[j]
          /\ \A p \in P : p.id = j => ~Told(f, p)
       \/ \E p \in P : /\ p.id = j /\ Told(f, p)
                       /\ h[j].version = p.version /\ h[j].state = p.state
                       /\ h[j].localEffects <=> (j \in DOMAIN f /\ f[j].localEffects)
  /\ \A p \in P : Told(f, p) => /\ p.id \in DOMAIN h
                                /\ h[p.id].version = p.version /\ h[p.id].state = p.state
  /\ \A j \in Jobs : m[j] = IF Due(f, h, j) THEN n[j] + 1 ELSE n[j]

\* The rows of a list.
LEMMA RowsFields ==
  ASSUME NEW f \in Rows
  PROVE  /\ DOMAIN f \in SUBSET Jobs /\ f \in [DOMAIN f -> Lines]
         /\ \A j \in DOMAIN f : /\ f[j] \in Lines /\ f[j].version \in Nat
                                /\ f[j].state \in States /\ f[j].localEffects \in BOOLEAN
  BY DEF Rows, Lines

\* Reports that are newer than their row, or describe a job there is no row of,
\* make it.  [jobs.svelte.ts applySnapshots, shouldApplyFullSnapshot]
LEMMA AppliedFacts ==
  ASSUME NEW f \in Rows, NEW n \in [Jobs -> Nat], NEW P \in SUBSET Reports, Single(P),
         NEW w, w = applySnapshots([tasks |-> f, ran |-> n], P)
  PROVE  /\ w.tasks \in Rows /\ w.ran \in [Jobs -> Nat]
         /\ Applied(f, n, P, w.tasks, w.ran)
<1> DEFINE view == [tasks |-> f, ran |-> n]
           told == {p \in P : decodable(view, p)}
           ids == {p.id : p \in told}
           of(j) == CHOOSE p \in told : p.id = j
           h == [j \in DOMAIN f \cup ids |-> IF j \in ids THEN Row(view, of(j)) ELSE f[j]]
           m == [j \in Jobs |-> IF j \in ids /\ runTerminalEffects(view, of(j))
                                  THEN n[j] + 1 ELSE n[j]]
<1>1. w.tasks = h /\ w.ran = m
  BY DEF applySnapshots
<1>2. /\ DOMAIN f \in SUBSET Jobs
      /\ \A j \in DOMAIN f : /\ f[j] \in Lines /\ f[j].version \in Nat
                             /\ f[j].state \in States /\ f[j].localEffects \in BOOLEAN
  BY RowsFields
<1>3. \A p \in P : decodable(view, p) <=> Told(f, p)
  BY DEF decodable, shouldApplyFullSnapshot, Told
<1>4. ASSUME NEW p \in told PROVE of(p.id) = p /\ p.id \in ids
  <2>1. of(p.id) \in told /\ of(p.id).id = p.id
    OBVIOUS
  <2> QED
    BY <2>1 DEF Single
<1>5. \A j \in ids : \E p \in told : p.id = j
  OBVIOUS
<1>6. \A p \in P : p \in Reports /\ p.id \in Jobs /\ p.version \in Nat /\ p.state \in States
  BY DEF Reports
<1>7. ASSUME NEW p \in P
      PROVE  /\ Row(view, p) \in Lines
             /\ Row(view, p).version = p.version /\ Row(view, p).state = p.state
             /\ Row(view, p).localEffects <=> (p.id \in DOMAIN f /\ f[p.id].localEffects)
  <2>1. CASE p.id \in DOMAIN f
    <3>1. Row(view, p) = [f[p.id] EXCEPT !.version = p.version, !.state = p.state]
      BY <2>1 DEF Row
    <3> QED
      BY <3>1, <2>1, <1>2, <1>6 DEF Lines
  <2>2. CASE p.id \notin DOMAIN f
    <3>1. Row(view, p) = [version |-> p.version, state |-> p.state, localEffects |-> FALSE]
      BY <2>2 DEF Row
    <3>2. [version |-> p.version, state |-> p.state, localEffects |-> FALSE] \in Lines
      BY <1>6 DEF Lines
    <3>3. ~Row(view, p).localEffects
      BY <3>1
    <3> HIDE DEF view
    <3> QED
      BY <3>1, <3>2, <3>3, <2>2
  <2> QED
    BY <2>1, <2>2
<1>8. \A p \in P : runTerminalEffects(view, p) <=>
        /\ p.id \in DOMAIN f /\ f[p.id].localEffects
        /\ ~Terminal(f[p.id].state) /\ Terminal(p.state)
  BY DEF runTerminalEffects
<1>9. told \subseteq P /\ \A p \in P : p \in told <=> Told(f, p)
  BY <1>3
<1> HIDE DEF view, told, of
<1>10. /\ DOMAIN h = DOMAIN f \cup ids
       /\ \A p \in told : h[p.id] = Row(view, p)
       /\ \A j \in DOMAIN f \ ids : h[j] = f[j]
  BY <1>4
<1>11. \A j \in Jobs : /\ j \notin ids => m[j] = n[j]
                       /\ \A p \in told : p.id = j => m[j] = IF runTerminalEffects(view, p) THEN n[j] + 1 ELSE n[j]
  BY <1>4
<1>12. m \in [Jobs -> Nat]
  OBVIOUS
<1> HIDE DEF h, m
<1>13. h \in Rows
  <2>1. DOMAIN h \in SUBSET Jobs
    BY <1>2, <1>5, <1>6, <1>9, <1>10
  <2>2. ASSUME NEW j \in DOMAIN h PROVE h[j] \in Lines
    <3>1. CASE j \in ids
      BY <3>1, <1>5, <1>7, <1>9, <1>10
    <3>2. CASE j \notin ids
      BY <3>2, <1>2, <1>10
    <3> QED
      BY <3>1, <3>2
  <2>3. h \in [DOMAIN h -> Lines]
    <3>1. h = [j \in DOMAIN h |-> h[j]]
      BY DEF h
    <3> QED
      BY <2>2, <3>1
  <2> QED
    BY <2>1, <2>3 DEF Rows
<1>14. \A p \in P : Told(f, p) => /\ p.id \in DOMAIN h
                                  /\ h[p.id].version = p.version /\ h[p.id].state = p.state
  BY <1>4, <1>7, <1>9, <1>10
<1>15. ASSUME NEW j \in DOMAIN h
       PROVE  \/ /\ j \in DOMAIN f /\ h[j] = f[j]
                 /\ \A p \in P : p.id = j => ~Told(f, p)
              \/ \E p \in P : /\ p.id = j /\ Told(f, p)
                              /\ h[j].version = p.version /\ h[j].state = p.state
                              /\ h[j].localEffects <=> (j \in DOMAIN f /\ f[j].localEffects)
  <2>1. CASE j \in ids
    <3>1. PICK p \in told : p.id = j
      BY <2>1
    <3>2. p \in P /\ Told(f, p) /\ h[j] = Row(view, p)
      BY <3>1, <1>9, <1>10
    <3> QED
      BY <3>1, <3>2, <1>7
  <2>2. CASE j \notin ids
    <3>1. j \in DOMAIN f /\ h[j] = f[j]
      BY <2>2, <1>10
    <3>2. \A p \in P : p.id = j => ~Told(f, p)
      BY <2>2, <1>4, <1>9
    <3> QED
      BY <3>1, <3>2
  <2> QED
    BY <2>1, <2>2
<1>16. ASSUME NEW j \in Jobs PROVE m[j] = IF Due(f, h, j) THEN n[j] + 1 ELSE n[j]
  <2>1. CASE j \in ids
    <3>1. PICK p \in told : p.id = j
      BY <2>1
    <3>2. p \in P /\ h[j].state = p.state /\ m[j] = IF runTerminalEffects(view, p) THEN n[j] + 1 ELSE n[j]
      BY <3>1, <1>7, <1>9, <1>10, <1>11
    <3>3. runTerminalEffects(view, p) <=> Due(f, h, j)
      BY <3>1, <3>2, <1>8 DEF Due
    <3> QED
      BY <3>2, <3>3
  <2>2. CASE j \notin ids
    <3>1. m[j] = n[j]
      BY <2>2, <1>11
    <3>2. ~Due(f, h, j)
      BY <2>2, <1>10 DEF Due
    <3> QED
      BY <3>1, <3>2
  <2> QED
    BY <2>1, <2>2
<1>17. DOMAIN f \subseteq DOMAIN h
  BY <1>10
<1> QED
  BY <1>1, <1>12, <1>13, <1>14, <1>15, <1>16, <1>17 DEF Applied

\* Reports that are applied leave the list in order, and run the effects of a
\* row once.  [jobs.svelte.ts applySnapshots, runTerminalEffects]
LEMMA AppliedKeeps ==
  ASSUME NEW s, NEW u, StoreOK(s, u), NEW f, NEW r, NEW g, NEW L, WindowOK(s, u, f, r, g, L),
         NEW c, CallsOK(s, u, c), NEW n, Onces(u, c, f, n),
         NEW P \in SUBSET Reports, Reported(s, u, P),
         NEW h \in Rows, NEW m \in [Jobs -> Nat], Applied(f, n, P, h, m)
  PROVE  WindowOK(s, u, h, r, g, L) /\ Onces(u, c, h, m)
<1>1. f \in Rows /\ n \in [Jobs -> {0, 1}] /\ DOMAIN f \in SUBSET Jobs /\ DOMAIN h \in SUBSET Jobs
  BY RowsFields DEF WindowOK, Onces
<1>2. Listed(s, u, h)
  <2> SUFFICES ASSUME NEW j \in DOMAIN h
               PROVE  Coherent(s, u, j, h[j].version, h[j].state)
    BY DEF Listed
  <2>1. \/ j \in DOMAIN f /\ h[j] = f[j]
        \/ \E p \in P : p.id = j /\ h[j].version = p.version /\ h[j].state = p.state
    BY DEF Applied
  <2>2. CASE j \in DOMAIN f /\ h[j] = f[j]
    BY <2>2 DEF WindowOK, Listed
  <2>3. CASE \E p \in P : p.id = j /\ h[j].version = p.version /\ h[j].state = p.state
    <3>1. PICK p \in P : p.id = j /\ h[j].version = p.version /\ h[j].state = p.state
      BY <2>3
    <3>2. Coherent(s, u, p.id, p.version, p.state)
      BY DEF Reported
    <3> QED
      BY <3>1, <3>2
  <2> QED
    BY <2>1, <2>2, <2>3
<1>3. ASSUME NEW j \in DOMAIN f
      PROVE  Terminal(f[j].state) => Terminal(h[j].state)
  <2>1. \/ h[j] = f[j]
        \/ \E p \in P : p.id = j /\ Told(f, p) /\ h[j].state = p.state
    BY DEF Applied
  <2> QED
    BY <2>1 DEF Told
<1>4. \A j \in DOMAIN h : h[j].localEffects => j \in DOMAIN f /\ f[j].localEffects
  BY DEF Applied
<1>5. \A j \in DOMAIN f : f[j].localEffects =>
        /\ Claimed(u, c, j)
        /\ Terminal(f[j].state) <=> n[j] = 1
  BY DEF Onces, Once
<1>6. \A j \in Jobs : /\ n[j] \in {0, 1} /\ (n[j] = 1 => Claimed(u, c, j))
                      /\ m[j] = IF Due(f, h, j) THEN n[j] + 1 ELSE n[j]
  BY <1>1 DEF Onces, Applied
<1>7. \A j \in Jobs : Due(f, h, j) => n[j] = 0 /\ Claimed(u, c, j)
  BY <1>5, <1>6 DEF Due
<1>8. \A j \in Jobs : m[j] \in {0, 1} /\ (m[j] = 1 => Claimed(u, c, j))
  BY <1>6, <1>7
<1>9. Once(u, c, h, m)
  <2> SUFFICES ASSUME NEW j \in DOMAIN h, h[j].localEffects
               PROVE  /\ Claimed(u, c, j)
                      /\ Terminal(h[j].state) <=> m[j] = 1
    BY DEF Once
  <2>1. j \in Jobs /\ j \in DOMAIN f /\ f[j].localEffects /\ Claimed(u, c, j)
        /\ (Terminal(f[j].state) <=> n[j] = 1)
    BY <1>1, <1>4, <1>5
  <2>2. CASE Due(f, h, j)
    BY <2>1, <2>2, <1>6, <1>7 DEF Due
  <2>3. CASE ~Due(f, h, j)
    BY <2>1, <2>3, <1>3, <1>6 DEF Due
  <2> QED
    BY <2>2, <2>3
<1>10. ASSUME NEW i \in DOMAIN c
       PROVE  Once(u, c, c[i].rollback, m)
  <2> SUFFICES ASSUME NEW j \in DOMAIN c[i].rollback, c[i].rollback[j].localEffects
               PROVE  /\ Claimed(u, c, j)
                      /\ Terminal(c[i].rollback[j].state) <=> m[j] = 1
    BY DEF Once
  <2>1. /\ Claimed(u, c, j)
        /\ Terminal(c[i].rollback[j].state) <=> n[j] = 1
    BY DEF Onces, Once
  <2>2. Terminal(c[i].rollback[j].state)
    BY DEF CallsOK, CallOK
  <2>3. j \in Jobs
    BY <2>1, FeedAssumption DEF Claimed
  <2> QED
    BY <2>1, <2>2, <2>3, <1>6, <1>7
<1> QED
  BY <1>1, <1>2, <1>8, <1>9, <1>10 DEF WindowOK, Onces

\* Rows are dropped.  [jobs.svelte.ts applySnapshotDelta, clearFinished]
LEMMA RowsRestricted ==
  ASSUME NEW f \in Rows, NEW S \in SUBSET DOMAIN f, NEW h, h = Restrict(f, S)
  PROVE  h \in Rows /\ DOMAIN h = S /\ \A j \in S : h[j] = f[j]
<1>1. DOMAIN f \in SUBSET Jobs /\ \A j \in DOMAIN f : f[j] \in Lines
  BY RowsFields
<1>2. h = [j \in S |-> f[j]]
  BY DEF Restrict
<1> QED
  BY <1>1, <1>2 DEF Rows

\* What is left is in order.
LEMMA RestrictedKeeps ==
  ASSUME NEW s, NEW u, NEW f, NEW r, NEW g, NEW L, WindowOK(s, u, f, r, g, L),
         NEW c, NEW n, Onces(u, c, f, n), NEW S \in SUBSET DOMAIN f, NEW h, h = Restrict(f, S)
  PROVE  WindowOK(s, u, h, r, g, L) /\ Onces(u, c, h, n)
<1>1. h \in Rows /\ DOMAIN h = S /\ \A j \in S : h[j] = f[j]
  BY RowsRestricted DEF WindowOK
<1>2. Listed(s, u, h)
  BY <1>1 DEF WindowOK, Listed
<1>3. Once(u, c, h, n)
  BY <1>1 DEF Onces, Once
<1> QED
  BY <1>1, <1>2, <1>3 DEF WindowOK, Onces

\* A submission comes back: the row is this window's own from now on.
\* [jobs.svelte.ts localSubmissionPromotion]
LEMMA PromotedKeeps ==
  ASSUME NEW s, NEW u, NEW f, NEW r, NEW g, NEW L, WindowOK(s, u, f, r, g, L),
         NEW c, NEW n, Onces(u, c, f, n), NEW j \in Jobs, Claimed(u, c, j),
         j \in DOMAIN f => ~f[j].localEffects, n[j] = 0,
         \A i \in DOMAIN c : j \in DOMAIN c[i].rollback => ~c[i].rollback[j].localEffects,
         NEW w, w = Promoted([tasks |-> f, ran |-> n], j)
  PROVE  WindowOK(s, u, w.tasks, r, g, L) /\ Onces(u, c, w.tasks, w.ran)
<1>1. CASE j \notin DOMAIN f
  <2>1. w = [tasks |-> f, ran |-> n]
    BY <1>1 DEF Promoted
  <2> QED
    BY <2>1
<1>2. CASE j \in DOMAIN f
  <2> DEFINE h == [f EXCEPT ![j].localEffects = TRUE]
             k == IF Terminal(f[j].state) THEN 1 ELSE 0
             m == [n EXCEPT ![j] = k]
  <2>1. /\ f \in Rows /\ n \in [Jobs -> {0, 1}] /\ DOMAIN f \in SUBSET Jobs
        /\ \A i \in DOMAIN f : f[i] \in Lines
    BY RowsFields DEF WindowOK, Onces
  <2>2. w.tasks = h /\ w.ran = m
    <3>1. Terminal(f[j].state) => n[j] + 1 = 1
      OBVIOUS
    <3>2. w = [[tasks |-> f, ran |-> n] EXCEPT
                 !.tasks[j].localEffects = TRUE,
                 !.ran[j] = IF ~f[j].localEffects /\ Terminal(f[j].state) THEN @ + 1 ELSE @]
      BY <1>2 DEF Promoted
    <3>3. w.ran = [n EXCEPT ![j] = IF ~f[j].localEffects /\ Terminal(f[j].state) THEN @ + 1 ELSE @]
      BY <3>2
    <3>4. w.tasks = h
      BY <3>2
    <3> QED
      BY <1>2, <3>1, <3>3, <3>4
  <2>3. /\ h \in Rows /\ DOMAIN h = DOMAIN f /\ \A i \in DOMAIN f \ {j} : h[i] = f[i]
        /\ h[j].version = f[j].version /\ h[j].state = f[j].state /\ h[j].localEffects
    <3>1. f[j] \in Lines /\ DOMAIN h = DOMAIN f
      BY <1>2, <2>1
    <3>2. \A i \in DOMAIN f \ {j} : h[i] = f[i]
      OBVIOUS
    <3>3. h[j] = [f[j] EXCEPT !.localEffects = TRUE]
      BY <1>2
    <3>4. /\ h[j] \in Lines /\ h[j].version = f[j].version /\ h[j].state = f[j].state
          /\ h[j].localEffects
      BY <3>1, <3>3 DEF Lines
    <3>5. \A i \in DOMAIN h : h[i] \in Lines
      BY <2>1, <3>1, <3>2, <3>4
    <3>6. h = [i \in DOMAIN h |-> h[i]]
      OBVIOUS
    <3> HIDE DEF h
    <3>7. h \in Rows
      BY <2>1, <3>1, <3>5, <3>6 DEF Rows
    <3> QED
      BY <3>1, <3>2, <3>4, <3>7
  <2>4. /\ m \in [Jobs -> {0, 1}] /\ m[j] = k /\ \A i \in Jobs \ {j} : m[i] = n[i]
    BY <2>1
  <2>5. k = 1 <=> Terminal(h[j].state)
    BY <2>3
  <2> HIDE DEF h, m, k
  <2>6. Listed(s, u, h)
    BY <2>3 DEF WindowOK, Listed
  <2>7. \A i \in Jobs : m[i] = 1 => Claimed(u, c, i)
    BY <2>4 DEF Onces
  <2>8. Once(u, c, h, m)
    BY <2>1, <2>3, <2>4, <2>5 DEF Onces, Once
  <2>9. ASSUME NEW i \in DOMAIN c
        PROVE  Once(u, c, c[i].rollback, m)
    <3>1. Once(u, c, c[i].rollback, n)
      BY DEF Onces
    <3>2. \A l : Claimed(u, c, l) => l \in Jobs
      BY FeedAssumption DEF Claimed
    <3> QED
      BY <2>4, <3>1, <3>2 DEF Once
  <2> QED
    BY <2>2, <2>3, <2>4, <2>6, <2>7, <2>8, <2>9 DEF WindowOK, Onces
<1> QED
  BY <1>1, <1>2

-----------------------------------------------------------------------------
(***************************************************************************)
(* Whatever the order of replies: the types, and the completion effects.   *)
(***************************************************************************)
Feed ==
  /\ StoreOK(store, unused)
  /\ WindowOK(store, unused, tasks, snapshotRevision, snapshotGeneration, locallyDismissed)
  /\ CallsOK(store, unused, calls)
  /\ EventsOK(store, unused, events)
  /\ Onces(unused, calls, tasks, ran)
  /\ refused \in BOOLEAN

\* What the backend does on its own: records of the jobs grow, none that is
\* left stops being shown, and a job of this window is registered when its
\* submission is due.
Worked(new) ==
  /\ new \subseteq unused /\ unused' = unused \ new
  /\ StoreOK(store', unused') /\ Grown(store, store', new)
  /\ (Shown(store) \cup new) \cap DOMAIN store'.jobs \subseteq Shown(store')
  /\ \A j \in new \cap Mine :
       \E i \in DOMAIN calls : Turn(i, "submit") /\ calls[i].ids = {j}
  /\ UNCHANGED <<client, calls, refused>>
  /\ EventsOK(store', unused', events')

\* At the start nothing is known.
LEMMA FeedInit == Init => Feed
<1> SUFFICES ASSUME Init PROVE Feed
  OBVIOUS
<1> USE DEF Init
<1>1. /\ store.revision = 0 /\ store.jobs = <<>> /\ store.ended = <<>> /\ store.removals = {}
      /\ DOMAIN store.jobs = {}
  BY DEF EmptyStore
<1>2. store \in Stores
  <2> DEFINE J == UNION {[D -> Records] : D \in SUBSET Jobs}
  <2>1. <<>> \in J
    <3>1. <<>> \in [{} -> Records] /\ {} \in SUBSET Jobs
      OBVIOUS
    <3> QED
      BY <3>1
  <2>2. <<>> \in Seq(Jobs) /\ {} \in SUBSET Removals /\ 0 \in Nat
    OBVIOUS
  <2>3. Stores = [revision : Nat, jobs : J, ended : Seq(Jobs), removals : SUBSET Removals]
    BY DEF Stores
  <2> HIDE DEF J
  <2> QED
    BY <2>1, <2>2, <2>3 DEF EmptyStore
<1>3. Sound(store, unused)
  <2>1. IsFiniteSet({}) /\ Cardinality({}) = 0
    BY FS_EmptySet
  <2>2. MaxChanges \in Nat
    BY Bounds
  <2> QED
    BY <1>1, <1>2, <2>1, <2>2 DEF Sound
<1>4. Lined(store) /\ Len(store.ended) <= MaxTerminal /\ Settled(store)
  <2>1. MaxTerminal \in Nat /\ Len(store.ended) = 0 /\ DOMAIN store.ended = {}
    BY <1>1, Bounds
  <2>2. DoneIn(store) = {} /\ Range(store.ended) = {}
    BY <1>1, <2>1 DEF DoneIn, Range
  <2> QED
    BY <1>1, <2>1, <2>2 DEF Lined, Settled
<1>5. tasks \in Rows /\ DOMAIN tasks = {}
  <2>1. tasks \in [{} -> Lines] /\ {} \in SUBSET Jobs /\ DOMAIN tasks = {}
    OBVIOUS
  <2> QED
    BY <2>1 DEF Rows
<1>6. WindowOK(store, unused, tasks, snapshotRevision, snapshotGeneration, locallyDismissed)
  BY <1>5 DEF WindowOK, Listed
<1>7. CallsOK(store, unused, calls) /\ DOMAIN calls = {}
  <2>1. calls \in Seq(Calls) /\ DOMAIN calls = {}
    OBVIOUS
  <2> QED
    BY <2>1 DEF CallsOK
<1>8. EventsOK(store, unused, events)
  BY DEF EventsOK, Reported
<1>9. Onces(unused, calls, tasks, ran)
  BY <1>5, <1>7 DEF Onces, Once
<1> QED
  BY <1>3, <1>4, <1>6, <1>7, <1>8, <1>9 DEF Feed, StoreOK

\* An event tells the record as it is.  [events.rs emit_snapshot]
LEMMA EmitFacts ==
  ASSUME Feed, NEW new \in SUBSET unused, StoreOK(store', unused'), unused' = unused \ new,
         Grown(store, store', new), NEW j \in Jobs,
         j \in DOMAIN store'.jobs => j \in Shown(store'), Emit(j)
  PROVE  EventsOK(store', unused', events')
<1>1. EventsOK(store', unused', events)
  BY CallsGrown, Zenon DEF Feed
<1> DEFINE p == [id |-> j, version |-> store'.jobs[j].version,
                 state |-> store'.jobs[j].state, spec |-> FALSE]
<1>2. \/ events' = events
      \/ j \in Mine /\ j \in DOMAIN store'.jobs /\ events' = events \cup {p}
  BY DEF Emit
<1>3. CASE events' = events
  BY <1>1, <1>3
<1>4. CASE j \in Mine /\ j \in DOMAIN store'.jobs /\ events' = events \cup {p}
  <2>1. j \in Shown(store') /\ store' \in Stores
    BY <1>4 DEF StoreOK, Sound
  <2>2. store'.jobs[j].version \in Nat /\ store'.jobs[j].state \in States
    BY <1>4, <2>1, StoreFields
  <2>3. p \in Reports /\ p.id = j /\ p.version = store'.jobs[j].version
        /\ p.state = store'.jobs[j].state /\ ~p.spec
    BY <2>2 DEF Reports
  <2>4. Coherent(store', unused', j, store'.jobs[j].version, store'.jobs[j].state)
    BY <2>1, CoherentNow
  <2> HIDE DEF p
  <2>5. Coherent(store', unused', p.id, p.version, p.state)
    BY <2>3, <2>4
  <2>6. \A q \in events' : q \in events \/ q = p
    BY <1>4
  <2>7. Reported(store', unused', events')
    BY <1>1, <2>5, <2>6 DEF EventsOK, Reported
  <2> QED
    BY <1>1, <1>4, <2>3, <2>6, <2>7 DEF EventsOK
<1> QED
  BY <1>2, <1>3, <1>4

\* A job that goes on is shown.
LEMMA ActiveShown ==
  ASSUME NEW s, NEW u, StoreOK(s, u), NEW j \in DOMAIN s.jobs \ DoneIn(s)
  PROVE  j \in Shown(s)
  BY DEF StoreOK, Settled, DoneIn, Shown

\* The backend's steps.
LEMMA BackendWorks ==
  ASSUME Feed, Backend
  PROVE  \E new : Worked(new)
<1>0. /\ StoreOK(store, unused) /\ EventsOK(store, unused, events) /\ unused \subseteq Jobs
      /\ DOMAIN store.jobs \subseteq Jobs
      /\ Known = DOMAIN store.jobs /\ Active = DOMAIN store.jobs \ DoneIn(store)
      /\ Shown(store) \subseteq DOMAIN store.jobs
  BY DEF Feed, StoreOK, Sound, Known, Active, DoneIn, Shown
<1>1. ASSUME NEW j \in Jobs, NEW state \in {"queued", "done"}, Register(j, state)
      PROVE  Worked({j})
  <2>1. j \in unused /\ state \in States /\ unused' = unused \ {j}
        /\ store' = Inserted(store, j, state) /\ UNCHANGED <<client, calls, refused>>
    BY <1>1 DEF Register, Change, States
  <2>2. /\ StoreOK(store', unused') /\ Grown(store, store', {j})
        /\ (Shown(store) \cup {j}) \cap DOMAIN store'.jobs \subseteq Shown(store')
    BY <1>0, <2>1, InsertedFacts
  <2>3. \A k \in {j} \cap Mine :
          \E i \in DOMAIN calls : Turn(i, "submit") /\ calls[i].ids = {k}
    BY <1>1 DEF Register
  <2>4. {j} \in SUBSET unused
    BY <2>1
  <2>5. EventsOK(store', unused', events')
    <3>1. CASE events' = events
      BY <3>1, <1>0, <2>1, <2>2, <2>4, CallsGrown, Zenon DEF Feed
    <3>2. CASE Emit(j)
      BY <3>2, <2>1, <2>2, <2>4, EmitFacts
    <3> QED
      BY <3>1, <3>2, <1>1 DEF Register
  <2> QED
    BY <2>1, <2>2, <2>3, <2>5 DEF Worked
<1> DEFINE none == {}
<1>2. none \in SUBSET unused /\ unused = unused \ none
  OBVIOUS
<1>3. ASSUME unused' = unused, StoreOK(store', unused), Grown(store, store', {}),
             Shown(store) \cap DOMAIN store'.jobs \subseteq Shown(store'),
             UNCHANGED <<client, calls, refused>>,
             \/ events' = events
             \/ \E j \in DOMAIN store.jobs \ DoneIn(store) : Emit(j)
      PROVE  Worked({})
  <2>1. unused' = unused \ none
    BY <1>2, <1>3
  <2>2. StoreOK(store', unused')
    BY <1>3
  <2>3. EventsOK(store', unused', events')
    <3>1. CASE events' = events
      <4>1. EventsOK(store', unused \ none, events)
        BY <1>0, <1>2, <1>3, <2>1, <2>2, CallsGrown DEF Feed
      <4> QED
        BY <3>1, <4>1, <2>1, Zenon
    <3>2. ASSUME NEW j \in DOMAIN store.jobs \ DoneIn(store), Emit(j)
          PROVE  EventsOK(store', unused', events')
      <4>1. j \in Jobs /\ j \in Shown(store)
        BY <1>0, ActiveShown
      <4>2. j \in DOMAIN store'.jobs => j \in Shown(store')
        BY <1>3, <4>1
      <4>3. Grown(store, store', none)
        BY <1>3
      <4> HIDE DEF none
      <4> QED
        BY <1>2, <2>1, <2>2, <3>2, <4>1, <4>2, <4>3, EmitFacts
    <3> QED
      BY <3>1, <3>2, <1>3
  <2> QED
    BY <1>3, <2>2, <2>3 DEF Worked
<1> HIDE DEF none
<1>4. ASSUME NEW S \in SUBSET (DOMAIN store.jobs \ DoneIn(store)), store' = Stamped(store, S)
      PROVE  /\ StoreOK(store', unused) /\ Grown(store, store', {})
             /\ Shown(store) \cap DOMAIN store'.jobs \subseteq Shown(store')
  <2>1. /\ Sound(store', unused) /\ Grown(store, store', {})
        /\ store'.ended = store.ended /\ DoneIn(store') = DoneIn(store)
        /\ Shown(store') = Shown(store)
        /\ \A k \in DOMAIN store'.jobs :
             /\ k \in DOMAIN store.jobs /\ store'.jobs[k].state = store.jobs[k].state
             /\ store'.jobs[k].dismissed_by = store.jobs[k].dismissed_by
    BY <1>0, <1>4, StampedKeeps DEF StoreOK
  <2>2. Lined(store') /\ Settled(store') /\ Len(store'.ended) <= MaxTerminal
    BY <1>0, <2>1 DEF StoreOK, Lined, Settled
  <2> QED
    BY <2>1, <2>2 DEF StoreOK
<1>5. ASSUME NEW j \in Jobs, SetProgress(j)
      PROVE  Worked({})
  <2>1. /\ {j} \in SUBSET (DOMAIN store.jobs \ DoneIn(store)) /\ store' = Stamped(store, {j})
        /\ unused' = unused /\ UNCHANGED <<client, calls, refused>> /\ Emit(j)
    BY <1>0, <1>5 DEF SetProgress, Change
  <2> QED
    BY <1>3, <1>4, <2>1
<1>6. ASSUME NEW j \in Jobs, NEW state \in States, NEW S \in SUBSET Known, SetState(j, state, S)
      PROVE  Worked({})
  <2>1. /\ j \in DOMAIN store.jobs \ DoneIn(store) /\ S \in SUBSET (DOMAIN store.jobs \ DoneIn(store))
        /\ j \notin S /\ store' = WithState(store, j, state, S)
        /\ unused' = unused /\ UNCHANGED <<client, calls, refused>> /\ Emit(j)
    BY <1>0, <1>6 DEF SetState, Change, InState, DoneIn, Terminal
  <2>2. /\ StoreOK(store', unused) /\ Grown(store, store', {})
        /\ Shown(store) \cap DOMAIN store'.jobs \subseteq Shown(store')
    BY <1>0, <2>1, WithStateFacts
  <2> QED
    BY <1>3, <2>1, <2>2
<1>7. ASSUME NEW S \in SUBSET Known, SyncQueueStatuses(S)
      PROVE  Worked({})
  <2>1. /\ S \in SUBSET (DOMAIN store.jobs \ DoneIn(store)) /\ store' = Stamped(store, S)
        /\ unused' = unused /\ UNCHANGED <<client, calls, refused, events>>
    BY <1>0, <1>7 DEF SyncQueueStatuses, Change, InState, DoneIn, Terminal
  <2> QED
    BY <1>3, <1>4, <2>1
<1>8. ASSUME NEW S \in SUBSET Known, OtherDismiss(S)
      PROVE  Worked({})
  <2>1. /\ S \in SUBSET DoneIn(store) /\ store' = Dismissed(store, "other", S)
        /\ unused' = unused /\ UNCHANGED <<client, calls, refused, events>>
    BY <1>0, <1>8 DEF OtherDismiss, Change, InState, DoneIn, Terminal
  <2>2. "other" \in Windows
    BY DEF Windows
  <2>3. /\ StoreOK(store', unused) /\ Grown(store, store', {})
        /\ DOMAIN store'.jobs = DOMAIN store.jobs
        /\ \A j \in DOMAIN store.jobs :
             "main" \in store'.jobs[j].dismissed_by => "main" \in store.jobs[j].dismissed_by
    BY <1>0, <2>1, <2>2, DismissedFacts
  <2>4. Shown(store) \cap DOMAIN store'.jobs \subseteq Shown(store')
    BY <2>3 DEF Shown
  <2> QED
    BY <1>3, <2>1, <2>3, <2>4
<1> QED
  BY <1>1, <1>5, <1>6, <1>7, <1>8 DEF Backend

\* What is claimed stays claimed.
LEMMA OncesMoved ==
  ASSUME NEW u, NEW v, NEW c, NEW b, NEW f, NEW n, Onces(u, c, f, n),
         \A j \in Jobs : Claimed(u, c, j) => Claimed(v, b, j),
         \A k \in DOMAIN b : Once(u, c, b[k].rollback, n)
  PROVE  Onces(v, b, f, n)
<1>1. \A j : Claimed(u, c, j) => j \in Jobs
  BY FeedAssumption DEF Claimed
<1>2. \A j : Claimed(u, c, j) => Claimed(v, b, j)
  BY <1>1
<1>3. ASSUME NEW h, Once(u, c, h, n) PROVE Once(v, b, h, n)
  BY <1>2, <1>3 DEF Once
<1> QED
  BY <1>2, <1>3 DEF Onces

\* The backend works.
LEMMA WorkedKeeps ==
  ASSUME Feed, NEW new, Worked(new)
  PROVE  Feed'
<1>1. /\ new \in SUBSET unused /\ unused' = unused \ new /\ StoreOK(store', unused \ new)
      /\ StoreOK(store, unused) /\ Grown(store, store', new)
      /\ tasks' = tasks /\ snapshotRevision' = snapshotRevision
      /\ snapshotGeneration' = snapshotGeneration /\ locallyDismissed' = locallyDismissed
      /\ ran' = ran /\ calls' = calls /\ refused' = refused
      /\ EventsOK(store', unused', events')
  BY DEF Worked, Feed, client
<1>2. WindowOK(store', unused \ new, tasks, snapshotRevision, snapshotGeneration, locallyDismissed)
  BY <1>1, WindowGrown DEF Feed
<1>3. CallsOK(store', unused \ new, calls)
  BY <1>1, CallsGrown DEF Feed
<1>4. Onces(unused', calls, tasks, ran)
  <2>1. \A j \in Jobs : Claimed(unused, calls, j) => Claimed(unused', calls, j)
    BY <1>1 DEF Claimed
  <2> QED
    BY <2>1, OncesMoved DEF Feed, Onces
<1> QED
  BY <1>1, <1>2, <1>3, <1>4 DEF Feed

\* A reply is on its way: nothing else has changed.
LEMMA ReplyKeeps ==
  ASSUME Feed, NEW i \in DOMAIN calls, NEW reply \in Replies, Reply(i, reply),
         \A k \in 1..(i - 1) : calls[k].answered,
         StoreOK(store', unused), Grown(store, store', {}), refused' \in BOOLEAN,
         AnswerOK(store', unused, calls'[i])
  PROVE  Feed'
<1> DEFINE none == {}
<1>1. /\ unused' = unused /\ tasks' = tasks /\ snapshotRevision' = snapshotRevision
      /\ snapshotGeneration' = snapshotGeneration /\ locallyDismissed' = locallyDismissed
      /\ ran' = ran /\ events' = events
      /\ calls' = Replied(calls, i, reply)
  BY DEF Reply, client, Replied
<1>2. /\ none \in SUBSET unused /\ unused \ none = unused /\ Grown(store, store', none)
      /\ StoreOK(store, unused) /\ StoreOK(store', unused \ none)
  BY DEF Feed
<1> HIDE DEF none
<1>3. /\ WindowOK(store', unused, tasks, snapshotRevision, snapshotGeneration, locallyDismissed)
      /\ CallsOK(store', unused, calls) /\ EventsOK(store', unused, events)
  <2>1. WindowOK(store', unused \ none, tasks, snapshotRevision, snapshotGeneration, locallyDismissed)
    BY <1>2, WindowGrown DEF Feed
  <2>2. CallsOK(store', unused \ none, calls) /\ EventsOK(store', unused \ none, events)
    BY <1>2, CallsGrown DEF Feed
  <2> QED
    BY <1>2, <2>1, <2>2
<1>4. store'.revision \in Nat
  BY StoreFields DEF StoreOK, Sound
<1>5. /\ CallsOK(store', unused, calls')
      /\ \A j \in Jobs : Claimed(unused, calls, j) => Claimed(unused, calls', j)
  BY <1>1, <1>3, <1>4, CallsAnswered
<1>6. Onces(unused, calls', tasks, ran)
  <2>1. calls \in Seq(Calls)
    BY <1>3 DEF CallsOK
  <2>2. /\ DOMAIN calls' = DOMAIN calls /\ calls'[i].rollback = calls[i].rollback
        /\ \A k \in DOMAIN calls \ {i} : calls'[k] = calls[k]
    BY <1>1, <2>1, AnsweredFacts
  <2>3. \A k \in DOMAIN calls' : Once(unused, calls, calls'[k].rollback, ran)
    BY <2>2 DEF Feed, Onces
  <2> QED
    BY <1>5, <2>3, OncesMoved DEF Feed
<1> QED
  BY <1>1, <1>3, <1>5, <1>6 DEF Feed

\* The backend's replies.
LEMMA AnswerKeeps ==
  ASSUME Feed, NEW i \in DOMAIN calls, Answer(i)
  PROVE  Feed'
<1>0. /\ StoreOK(store, unused) /\ calls \in Seq(Calls) /\ CallOK(store, unused, calls[i])
      /\ calls[i] \in Calls /\ store \in Stores /\ calls[i].ids \in SUBSET Jobs
  BY DEF Feed, CallsOK, CallOK, Calls, StoreOK, Sound
<1>1. ASSUME NEW kind, Turn(i, kind)
      PROVE  calls[i].kind = kind /\ ~calls[i].answered /\ \A k \in 1..(i - 1) : calls[k].answered
  BY <1>1 DEF Turn
<1>2. ASSUME NEW reply \in Replies, Reply(i, reply)
      PROVE  /\ calls'[i].kind = calls[i].kind /\ calls'[i].ids = calls[i].ids
             /\ calls'[i].answered /\ calls'[i].reply = reply
  <2>1. calls' = Replied(calls, i, reply)
    BY <1>2 DEF Reply, Replied
  <2> QED
    BY <1>0, <2>1, AnsweredFacts
<1>3. refused \in BOOLEAN
  BY DEF Feed
<1>4. StoreOK(store, unused) /\ Grown(store, store, {})
  BY <1>0, GrownSelf
<1>5. ASSUME NEW j \in calls[i].ids, Looks(calls[i]),
             Reply(i, Looked(j)), UNCHANGED <<store, refused>>,
             \A k \in 1..(i - 1) : calls[k].answered
      PROVE  Feed'
  <2>1. j \in Jobs /\ calls[i].ids = {j}
    BY <1>0, <1>5 DEF CallOK
  <2>2. /\ Looked(j) \in SUBSET Reports /\ Single(Looked(j))
        /\ Reported(store, unused, Looked(j)) /\ \A p \in Looked(j) : p.id = j
    BY <1>0, <2>1, LookedFacts
  <2>3. Looked(j) \in Replies
    BY <2>2 DEF Replies
  <2>4. /\ calls'[i].kind = calls[i].kind /\ calls'[i].ids = calls[i].ids
        /\ calls'[i].answered /\ calls'[i].reply = Looked(j)
    BY <1>2, <1>5, <2>3
  <2>5. Brought(calls'[i]) = Looked(j)
    BY <1>5, <2>4 DEF Brought, Looks, IsDelta
  <2>6. AnswerOK(store, unused, calls'[i])
    BY <1>5, <2>1, <2>2, <2>4, <2>5 DEF AnswerOK, Looks, IsDelta
  <2>7. StoreOK(store', unused) /\ Grown(store, store', {}) /\ refused' \in BOOLEAN
        /\ AnswerOK(store', unused, calls'[i])
    BY <1>3, <1>4, <1>5, <2>6
  <2> QED
    BY <1>5, <2>3, <2>7, ReplyKeeps
<1>6. CASE AnswerSubmit(i)
  <2>1. PICK j \in calls[i].ids \ unused : Reply(i, Looked(j))
    BY <1>6 DEF AnswerSubmit
  <2>2. Looks(calls[i]) /\ UNCHANGED <<store, refused>> /\ \A k \in 1..(i - 1) : calls[k].answered
    BY <1>1, <1>6 DEF AnswerSubmit, Looks
  <2> QED
    BY <1>5, <2>1, <2>2
<1>7. CASE AnswerSnapshot(i)
  <2>1. PICK j \in calls[i].ids : Reply(i, Looked(j))
    BY <1>7 DEF AnswerSnapshot
  <2>2. Looks(calls[i]) /\ UNCHANGED <<store, refused>> /\ \A k \in 1..(i - 1) : calls[k].answered
    BY <1>1, <1>7 DEF AnswerSnapshot, Looks
  <2> QED
    BY <1>5, <2>1, <2>2
<1>8. CASE AnswerSnapshots(i)
  <2> DEFINE d == Delta(calls[i].since)
  <2>1. IsDelta(calls[i]) /\ UNCHANGED <<store, refused>> /\ Reply(i, d)
        /\ \A k \in 1..(i - 1) : calls[k].answered
    BY <1>1, <1>8 DEF AnswerSnapshots, IsDelta
  <2>2. calls[i].since \in Nat \cup {Unknown}
    BY <1>0 DEF Calls
  <2>3. /\ d \in Deltas /\ d.revision = store.revision
        /\ Single(d.upserts) /\ Reported(store, unused, d.upserts)
    BY <1>0, <2>2, DeltaFacts
  <2> HIDE DEF d
  <2>4. d \in Replies /\ store.revision <= store.revision
    BY <1>0, <2>3, StoreFields DEF Replies
  <2>5. /\ calls'[i].kind = calls[i].kind /\ calls'[i].ids = calls[i].ids
        /\ calls'[i].answered /\ calls'[i].reply = d
    BY <1>2, <2>1, <2>4
  <2>6. Brought(calls'[i]) = d.upserts
    BY <2>1, <2>5 DEF Brought, IsDelta
  <2>7. AnswerOK(store, unused, calls'[i])
    BY <2>1, <2>3, <2>4, <2>5, <2>6 DEF AnswerOK, Looks, IsDelta
  <2>8. StoreOK(store', unused) /\ Grown(store, store', {}) /\ refused' \in BOOLEAN
        /\ AnswerOK(store', unused, calls'[i])
    BY <1>3, <1>4, <2>1, <2>7
  <2> QED
    BY <2>1, <2>4, <2>8, ReplyKeeps
<1>9. ASSUME NEW reply \in BOOLEAN, calls[i].kind \in {"move", "dismiss"}, Reply(i, reply),
             StoreOK(store', unused), Grown(store, store', {}), refused' \in BOOLEAN,
             \A k \in 1..(i - 1) : calls[k].answered
      PROVE  Feed'
  <2>1. reply \in Replies
    BY DEF Replies
  <2>2. /\ calls'[i].kind = calls[i].kind /\ calls'[i].answered /\ calls'[i].reply = reply
    BY <1>2, <1>9, <2>1
  <2>3. Brought(calls'[i]) = {} /\ ~IsDelta(calls'[i]) /\ ~Looks(calls'[i])
    BY <1>9, <2>2 DEF Brought, IsDelta, Looks
  <2>4. calls'[i].reply \in BOOLEAN
    BY <2>2
  <2>5. AnswerOK(store', unused, calls'[i])
    BY <2>3, <2>4 DEF AnswerOK, Single, Reported
  <2> QED
    BY <1>9, <2>1, <2>5, ReplyKeeps
<1>10. CASE AnswerMove(i)
  <2>1. PICK moved \in {calls[i].ids \subseteq InState("queued"), FALSE} : Reply(i, moved)
    BY <1>10 DEF AnswerMove
  <2>2. moved \in BOOLEAN
    OBVIOUS
  <2>3. calls[i].kind \in {"move", "dismiss"} /\ UNCHANGED <<store, refused>>
        /\ \A k \in 1..(i - 1) : calls[k].answered
    BY <1>1, <1>10 DEF AnswerMove
  <2> QED
    BY <1>3, <1>4, <1>9, <2>1, <2>2, <2>3
<1>11. CASE AnswerDismiss(i)
  <2>1. calls[i].kind \in {"move", "dismiss"} /\ \A k \in 1..(i - 1) : calls[k].answered
    BY <1>1, <1>11 DEF AnswerDismiss
  <2>2. CASE calls[i].ids \subseteq InState("done")
    <3>1. /\ store' = Dismissed(store, "main", calls[i].ids) /\ Reply(i, TRUE)
          /\ refused' = refused /\ calls[i].ids \in SUBSET DoneIn(store) /\ "main" \in Windows
      BY <1>11, <2>2 DEF AnswerDismiss, InState, Known, DoneIn, Terminal, Windows
    <3>2. StoreOK(store', unused) /\ Grown(store, store', {})
      BY <1>0, <3>1, DismissedFacts
    <3> QED
      BY <1>3, <1>9, <2>1, <3>1, <3>2
  <2>3. CASE ~(calls[i].ids \subseteq InState("done"))
    <3>1. store' = store /\ Reply(i, FALSE) /\ refused' = TRUE
      BY <1>11, <2>3 DEF AnswerDismiss
    <3> QED
      BY <1>4, <1>9, <2>1, <3>1
  <2> QED
    BY <2>2, <2>3
<1> QED
  BY <1>6, <1>7, <1>8, <1>10, <1>11 DEF Answer

\* A command as it is sent.  [jobs.svelte.ts clearFinished: the rows it may put
\* back are finished ones]
LEMMA CallFacts ==
  ASSUME Feed, NEW kind \in Kinds, NEW ids \in SUBSET Jobs, NEW x, x = Call(kind, ids),
         kind \in {"submit", "refresh"} => \E j \in Mine : ids = {j},
         kind # "submit" => ids \cap unused = {},
         kind = "dismiss" => \A j \in ids : j \in DOMAIN tasks /\ Terminal(tasks[j].state)
  PROVE  /\ CallOK(store, unused, x) /\ x.kind = kind /\ x.ids = ids /\ ~x.answered
         /\ x.since = IF kind \in {"poll", "delta"} THEN snapshotRevision ELSE Unknown
         /\ x.generation = IF kind = "poll" THEN snapshotGeneration ELSE 0
         /\ \A j \in DOMAIN x.rollback : j \in DOMAIN tasks /\ x.rollback[j] = tasks[j]
         /\ Once(unused, calls, x.rollback, ran)
<1>0. /\ WindowOK(store, unused, tasks, snapshotRevision, snapshotGeneration, locallyDismissed)
      /\ tasks \in Rows /\ store.revision \in Nat
  BY StoreFields DEF Feed, WindowOK, StoreOK, Sound
<1> DEFINE back == IF kind = "dismiss" THEN Restrict(tasks, DOMAIN tasks \cap ids) ELSE <<>>
<1>1. /\ x.kind = kind /\ x.ids = ids /\ ~x.answered
      /\ x.since = IF kind \in {"poll", "delta"} THEN snapshotRevision ELSE Unknown
      /\ x.generation = IF kind = "poll" THEN snapshotGeneration ELSE 0
      /\ x.rollback = back
  BY DEF Call
<1>2. back \in Rows
  <2>1. CASE kind = "dismiss"
    BY <1>0, <2>1, RowsRestricted
  <2>2. CASE kind # "dismiss"
    <3>1. back \in [{} -> Lines] /\ {} \in SUBSET Jobs
      BY <2>2
    <3> QED
      BY <3>1 DEF Rows
  <2> QED
    BY <2>1, <2>2
<1>3. /\ \A j \in DOMAIN back : j \in DOMAIN tasks /\ back[j] = tasks[j] /\ j \in ids /\ kind = "dismiss"
      /\ kind = "dismiss" => DOMAIN back = ids
  <2>1. CASE kind = "dismiss"
    <3>1. /\ DOMAIN back = DOMAIN tasks \cap ids
          /\ \A j \in DOMAIN tasks \cap ids : back[j] = tasks[j]
      BY <1>0, <2>1, RowsRestricted
    <3> QED
      BY <2>1, <3>1
  <2>2. CASE kind # "dismiss"
    <3>1. DOMAIN back = {}
      BY <2>2
    <3> QED
      BY <2>2, <3>1
  <2> QED
    BY <2>1, <2>2
<1>4. x \in Calls
  <2>1. snapshotRevision \in Nat \cup {Unknown} /\ snapshotGeneration \in Nat
    BY <1>0 DEF WindowOK
  <2>2. {} \in Replies /\ FALSE \in BOOLEAN
    BY DEF Replies
  <2>3. (IF kind \in {"poll", "delta"} THEN snapshotRevision ELSE Unknown) \in Nat \cup {Unknown}
    BY <2>1
  <2>4. (IF kind = "poll" THEN snapshotGeneration ELSE 0) \in Nat
    BY <2>1
  <2>5. x = [kind |-> kind, ids |-> ids,
             since |-> IF kind \in {"poll", "delta"} THEN snapshotRevision ELSE Unknown,
             generation |-> IF kind = "poll" THEN snapshotGeneration ELSE 0,
             rollback |-> back, answered |-> FALSE, reply |-> {}]
    BY DEF Call
  <2> HIDE DEF back
  <2> QED
    BY <1>2, <2>2, <2>3, <2>4, <2>5 DEF Calls
<1> HIDE DEF back
<1>5. Listed(store, unused, x.rollback)
  BY <1>0, <1>1, <1>3 DEF WindowOK, Listed
<1>6. \A j \in DOMAIN x.rollback : Terminal(x.rollback[j].state)
  BY <1>1, <1>3
<1>7. x.since <= store.revision
  BY <1>0, <1>1 DEF WindowOK, Unknown
<1>8. Once(unused, calls, x.rollback, ran)
  BY <1>1, <1>3 DEF Feed, Onces, Once
<1>9. CallOK(store, unused, x)
  BY <1>1, <1>3, <1>4, <1>5, <1>6, <1>7 DEF CallOK, Looks
<1> QED
  BY <1>1, <1>3, <1>8, <1>9

\* A command is sent.
LEMMA SendKeeps ==
  ASSUME Feed, NEW x, CallOK(store, unused, x), ~x.answered,
         Once(unused, calls, x.rollback, ran),
         x.kind = "submit" =>
           /\ x.ids \subseteq unused
           /\ \A k \in DOMAIN calls : calls[k].kind = "submit" => calls[k].ids # x.ids,
         NEW b, b = Append(calls, x)
  PROVE  CallsOK(store, unused, b) /\ Onces(unused, b, tasks, ran)
<1>1. CallsOK(store, unused, b)
  BY CallsSent DEF Feed
<1>2. calls \in Seq(Calls) /\ x \in Calls
  BY DEF Feed, CallsOK, CallOK
<1>3. /\ DOMAIN b = DOMAIN calls \cup {Len(calls) + 1}
      /\ \A k \in DOMAIN calls : b[k] = calls[k]
      /\ b[Len(calls) + 1] = x
  BY <1>2, SentFacts
<1>4. ASSUME NEW j \in Jobs, Claimed(unused, calls, j)
      PROVE  Claimed(unused, b, j)
  <2>1. x.kind = "submit" => x.ids # {j}
    BY <1>4 DEF Claimed
  <2> QED
    BY <1>3, <1>4, <2>1 DEF Claimed
<1>5. \A k \in DOMAIN b : Once(unused, calls, b[k].rollback, ran)
  BY <1>3 DEF Feed, Onces
<1> QED
  BY <1>1, <1>4, <1>5, OncesMoved DEF Feed

\* The window's commands.
LEMMA WindowKeeps ==
  ASSUME Feed, Window
  PROVE  Feed'
<1>0. /\ StoreOK(store, unused) /\ EventsOK(store, unused, events)
      /\ WindowOK(store, unused, tasks, snapshotRevision, snapshotGeneration, locallyDismissed)
      /\ refused \in BOOLEAN /\ Mine \subseteq Jobs
      /\ \A j \in DOMAIN tasks : Coherent(store, unused, j, tasks[j].version, tasks[j].state)
      /\ \A j \in DOMAIN tasks : j \in Jobs \ unused
  BY FeedAssumption DEF Feed, WindowOK, Listed, Coherent
<1>1. ASSUME NEW kind \in Kinds, NEW ids \in SUBSET Jobs, Send(Call(kind, ids)),
             kind \in {"submit", "refresh"} => \E j \in Mine : ids = {j},
             kind # "submit" => ids \cap unused = {},
             kind = "submit" => /\ ids \subseteq unused
                                /\ \A k \in Waiting("submit") : calls[k].ids # ids,
             kind = "dismiss" => \A j \in ids : j \in DOMAIN tasks /\ Terminal(tasks[j].state)
      PROVE  /\ CallsOK(store, unused, calls') /\ Onces(unused, calls', tasks, ran)
             /\ store' = store /\ unused' = unused /\ events' = events /\ refused' = refused
  <2> DEFINE x == Call(kind, ids)
  <2>1. /\ CallOK(store, unused, x) /\ x.kind = kind /\ x.ids = ids /\ ~x.answered
        /\ Once(unused, calls, x.rollback, ran)
    BY <1>1, CallFacts
  <2>2. calls' = Append(calls, x) /\ UNCHANGED <<store, unused, events, refused>>
    BY <1>1 DEF Send
  <2> HIDE DEF x
  <2>3. x.kind = "submit" =>
           /\ x.ids \subseteq unused
           /\ \A k \in DOMAIN calls : calls[k].kind = "submit" => calls[k].ids # x.ids
    BY <1>1, <2>1 DEF Waiting
  <2> QED
    BY <2>1, <2>2, <2>3, SendKeeps
<1>2. ASSUME UNCHANGED client, CallsOK(store, unused, calls'), Onces(unused, calls', tasks, ran),
             store' = store, unused' = unused, events' = events, refused' = refused
      PROVE  Feed'
  BY <1>0, <1>2 DEF Feed, client
<1>3. CASE Poll
  <2>1. Send(Call("poll", {})) /\ UNCHANGED client /\ "poll" \in Kinds /\ {} \in SUBSET Jobs
    BY <1>3 DEF Poll, Kinds
  <2> QED
    BY <1>1, <1>2, <2>1
<1>4. ASSUME NEW j \in Jobs, submitJob(j)
      PROVE  Feed'
  <2>1. /\ Send(Call("submit", {j})) /\ UNCHANGED client /\ "submit" \in Kinds /\ {j} \in SUBSET Jobs
        /\ j \in Mine /\ {j} \subseteq unused /\ \A k \in Waiting("submit") : calls[k].ids # {j}
    BY <1>4 DEF submitJob, Kinds
  <2> QED
    BY <1>1, <1>2, <2>1
<1>5. ASSUME NEW j \in Jobs, requestQueueMove(j)
      PROVE  Feed'
  <2>1. /\ Send(Call("move", {j})) /\ UNCHANGED client /\ "move" \in Kinds /\ {j} \in SUBSET Jobs
        /\ {j} \cap unused = {}
    BY <1>0, <1>5 DEF requestQueueMove, Kinds
  <2> QED
    BY <1>1, <1>2, <2>1
<1>6. ASSUME NEW j \in Jobs, refreshQuestionTask(j)
      PROVE  Feed'
  <2>1. /\ Send(Call("refresh", {j})) /\ UNCHANGED client /\ "refresh" \in Kinds /\ {j} \in SUBSET Jobs
        /\ {j} \cap unused = {} /\ j \in Mine
    BY <1>0, <1>6 DEF refreshQuestionTask, Kinds
  <2> QED
    BY <1>1, <1>2, <2>1
<1>7. ASSUME NEW ids \in SUBSET DOMAIN tasks, clearFinished(ids)
      PROVE  Feed'
  <2>1. /\ Send(Call("dismiss", ids)) /\ "dismiss" \in Kinds /\ ids \in SUBSET Jobs
        /\ ids \cap unused = {}
        /\ \A j \in ids : j \in DOMAIN tasks /\ Terminal(tasks[j].state)
        /\ locallyDismissed' = locallyDismissed \cup ids
        /\ snapshotGeneration' = snapshotGeneration + 1 /\ snapshotRevision' = Unknown
        /\ tasks' = tasks /\ ran' = ran
    BY <1>0, <1>7 DEF clearFinished, Kinds
  <2>2. /\ CallsOK(store, unused, calls') /\ Onces(unused, calls', tasks, ran)
        /\ store' = store /\ unused' = unused /\ events' = events /\ refused' = refused
    BY <1>1, <2>1
  <2>3. \A j \in ids : j \in DOMAIN store.jobs => Terminal(store.jobs[j].state)
    BY <1>0, <2>1 DEF Coherent
  <2>4. WindowOK(store, unused, tasks, Unknown, snapshotGeneration + 1, locallyDismissed \cup ids)
    BY <1>0, <2>1, <2>3 DEF WindowOK
  <2> QED
    BY <1>0, <2>1, <2>2, <2>4 DEF Feed
<1> QED
  BY <1>3, <1>4, <1>5, <1>6, <1>7 DEF Window

\* A reply is taken from what is awaited.
LEMMA TakenFacts ==
  ASSUME Feed, NEW i \in DOMAIN calls, calls[i].answered, NEW b, b = RemoveAt(calls, i)
  PROVE  /\ CallsOK(store, unused, b) /\ Onces(unused, b, tasks, ran)
         /\ CallOK(store, unused, calls[i]) /\ AnswerOK(store, unused, calls[i])
         /\ calls[i].kind = "submit" => \A k \in DOMAIN b :
              b[k].kind = "submit" => b[k].ids # calls[i].ids
         /\ \A k \in DOMAIN b : \E l \in DOMAIN calls : b[k] = calls[l]
<1>1. /\ CallsOK(store, unused, b)
      /\ \A j \in Jobs : Claimed(unused, calls, j) => Claimed(unused, b, j)
      /\ calls[i].kind = "submit" => \A k \in DOMAIN b :
           b[k].kind = "submit" => b[k].ids # calls[i].ids
      /\ \A k \in DOMAIN b : \E l \in DOMAIN calls : b[k] = calls[l]
  BY CallsDropped DEF Feed
<1>2. \A k \in DOMAIN b : Once(unused, calls, b[k].rollback, ran)
  BY <1>1 DEF Feed, Onces
<1>3. Onces(unused, b, tasks, ran)
  BY <1>1, <1>2, OncesMoved DEF Feed
<1>4. CallOK(store, unused, calls[i])
  BY DEF Feed, CallsOK
<1>5. AnswerOK(store, unused, calls[i])
  BY <1>4 DEF CallOK
<1> QED
  BY <1>1, <1>3, <1>4, <1>5

Kept(d) == {j \in DOMAIN tasks : Survives(d, StillDismissed(d), j)}
Decoded(d) == {p \in d.upserts : Told(tasks, p) /\ p.id \notin StillDismissed(d)}

\* What a delta makes of the list.  [jobs.svelte.ts applySnapshotDelta]
LEMMA ReconciledFacts ==
  ASSUME Feed, NEW d \in Deltas, Single(d.upserts)
  PROVE  /\ Restrict(tasks, Kept(d)) \in Rows /\ DOMAIN Restrict(tasks, Kept(d)) = Kept(d)
         /\ \A j \in Kept(d) : Restrict(tasks, Kept(d))[j] = tasks[j]
         /\ Kept(d) \in SUBSET DOMAIN tasks
         /\ Decoded(d) \in SUBSET Reports /\ Decoded(d) \subseteq d.upserts
         /\ Reconciled(d).tasks \in Rows /\ Reconciled(d).ran \in [Jobs -> Nat]
         /\ Applied(Restrict(tasks, Kept(d)), ran, Decoded(d),
                    Reconciled(d).tasks, Reconciled(d).ran)
<1> DEFINE k == Restrict(tasks, Kept(d))
<1>1. tasks \in Rows /\ ran \in [Jobs -> Nat]
  BY DEF Feed, WindowOK, Onces
<1>2. Kept(d) \in SUBSET DOMAIN tasks
  BY DEF Kept
<1>3. k \in Rows /\ DOMAIN k = Kept(d) /\ \A j \in Kept(d) : k[j] = tasks[j]
  BY <1>1, <1>2, RowsRestricted
<1>4. Decoded(d) \in SUBSET Reports /\ Decoded(d) \subseteq d.upserts /\ Single(Decoded(d))
  BY DEF Decoded, Deltas, Single
<1>5. {s \in d.upserts : decodable(View, s) /\ s.id \notin StillDismissed(d)} = Decoded(d)
  BY DEF Decoded, Told, decodable, shouldApplyFullSnapshot, View
<1>6. Reconciled(d) = applySnapshots([tasks |-> k, ran |-> ran], Decoded(d))
  BY <1>5 DEF Reconciled, Kept
<1> HIDE DEF k
<1>7. /\ Reconciled(d).tasks \in Rows /\ Reconciled(d).ran \in [Jobs -> Nat]
      /\ Applied(k, ran, Decoded(d), Reconciled(d).tasks, Reconciled(d).ran)
  BY <1>1, <1>3, <1>4, <1>6, AppliedFacts
<1> QED
  BY <1>2, <1>3, <1>4, <1>7 DEF k

\* A delta leaves the list in order.
LEMMA DeltaKeeps ==
  ASSUME Feed, NEW b, CallsOK(store, unused, b), Onces(unused, b, tasks, ran),
         NEW d \in Deltas, d.revision <= store.revision, Single(d.upserts),
         Reported(store, unused, d.upserts), applySnapshotDelta(d)
  PROVE  /\ WindowOK(store, unused, tasks', snapshotRevision', snapshotGeneration', locallyDismissed')
         /\ Onces(unused, b, tasks', ran')
<1>0. /\ WindowOK(store, unused, tasks, snapshotRevision, snapshotGeneration, locallyDismissed)
      /\ StoreOK(store, unused) /\ d.revision \in Nat /\ store.revision \in Nat
  BY StoreFields DEF Feed, Deltas, StoreOK, Sound
<1>1. CASE UNCHANGED client
  BY <1>0, <1>1 DEF client
<1>2. CASE /\ tasks' = Reconciled(d).tasks /\ ran' = Reconciled(d).ran
           /\ snapshotRevision' = d.revision /\ locallyDismissed' = StillDismissed(d)
           /\ UNCHANGED snapshotGeneration
  <2> DEFINE k == Restrict(tasks, Kept(d))
             h == Reconciled(d).tasks
             m == Reconciled(d).ran
             P == Decoded(d)
  <2>1. /\ k \in Rows /\ Kept(d) \in SUBSET DOMAIN tasks
        /\ P \in SUBSET Reports /\ P \subseteq d.upserts
        /\ h \in Rows /\ m \in [Jobs -> Nat] /\ Applied(k, ran, P, h, m)
    BY ReconciledFacts
  <2>2. /\ WindowOK(store, unused, k, snapshotRevision, snapshotGeneration, locallyDismissed)
        /\ Onces(unused, b, k, ran)
    BY <1>0, <2>1, RestrictedKeeps
  <2> HIDE DEF k, h, m, P
  <2>3. Reported(store, unused, P)
    BY <2>1 DEF Reported
  <2>4. /\ WindowOK(store, unused, h, snapshotRevision, snapshotGeneration, locallyDismissed)
        /\ Onces(unused, b, h, m)
    BY <1>0, <2>1, <2>2, <2>3, AppliedKeeps
  <2>5. StillDismissed(d) \subseteq locallyDismissed
    BY DEF StillDismissed
  <2>6. tasks' = h /\ ran' = m
    BY <1>2 DEF h, m
  <2>7. WindowOK(store, unused, h, d.revision, snapshotGeneration, StillDismissed(d))
    BY <1>0, <2>4, <2>5 DEF WindowOK
  <2> QED
    BY <1>2, <2>4, <2>6, <2>7
<1> QED
  BY <1>1, <1>2 DEF applySnapshotDelta

\* Replies that carry the job they are about.
\* [jobs.svelte.ts submitJob, refreshQuestionTask]
LEMMA LookReturns ==
  ASSUME Feed, NEW i \in DOMAIN calls, SubmitReturns(i) \/ RefreshReturns(i)
  PROVE  Feed'
<1> DEFINE b == RemoveAt(calls, i)
<1>0. /\ StoreOK(store, unused) /\ EventsOK(store, unused, events) /\ refused \in BOOLEAN
      /\ WindowOK(store, unused, tasks, snapshotRevision, snapshotGeneration, locallyDismissed)
      /\ tasks \in Rows /\ ran \in [Jobs -> Nat] /\ Onces(unused, calls, tasks, ran)
  BY DEF Feed, WindowOK, Onces
<1>1. /\ calls[i].answered /\ calls[i].kind \in {"submit", "refresh"} /\ calls' = b
      /\ store' = store /\ unused' = unused /\ events' = events /\ refused' = refused
  BY DEF SubmitReturns, RefreshReturns, Arrives
<1>2. /\ CallsOK(store, unused, b) /\ Onces(unused, b, tasks, ran)
      /\ CallOK(store, unused, calls[i]) /\ AnswerOK(store, unused, calls[i])
      /\ calls[i].kind = "submit" => \A k \in DOMAIN b :
           b[k].kind = "submit" => b[k].ids # calls[i].ids
      /\ \A k \in DOMAIN b : \E l \in DOMAIN calls : b[k] = calls[l]
  BY <1>1, TakenFacts
<1> HIDE DEF b
<1> DEFINE P == calls[i].reply
<1>3. /\ P \in SUBSET Reports /\ \A p \in P : calls[i].ids = {p.id}
      /\ Single(P) /\ Reported(store, unused, P) /\ Looks(calls[i])
  BY <1>1, <1>2 DEF AnswerOK, Brought, Looks, IsDelta
<1>4. PICK j \in Mine : calls[i].ids = {j}
  BY <1>2, <1>3 DEF CallOK
<1>5. ASSUME NEW Q \in SUBSET P
      PROVE  LET w == applySnapshots([tasks |-> tasks, ran |-> ran], Q)
             IN  /\ WindowOK(store, unused, w.tasks, snapshotRevision, snapshotGeneration, locallyDismissed)
                 /\ Onces(unused, b, w.tasks, w.ran) /\ Applied(tasks, ran, Q, w.tasks, w.ran)
  <2> DEFINE w == applySnapshots([tasks |-> tasks, ran |-> ran], Q)
  <2>1. Single(Q) /\ Q \in SUBSET Reports /\ Reported(store, unused, Q)
    BY <1>3 DEF Single, Reported
  <2>2. w.tasks \in Rows /\ w.ran \in [Jobs -> Nat] /\ Applied(tasks, ran, Q, w.tasks, w.ran)
    BY <1>0, <2>1, AppliedFacts
  <2> HIDE DEF w
  <2>3. /\ WindowOK(store, unused, w.tasks, snapshotRevision, snapshotGeneration, locallyDismissed)
        /\ Onces(unused, b, w.tasks, w.ran)
    BY <1>0, <1>2, <2>1, <2>2, AppliedKeeps
  <2> QED
    BY <2>2, <2>3 DEF w
<1>6. ASSUME NEW h, NEW m, tasks' = h, ran' = m,
             UNCHANGED <<snapshotRevision, snapshotGeneration, locallyDismissed>>,
             WindowOK(store, unused, h, snapshotRevision, snapshotGeneration, locallyDismissed),
             Onces(unused, b, h, m)
      PROVE  Feed'
  BY <1>0, <1>1, <1>2, <1>6 DEF Feed
<1>7. CASE UNCHANGED client
  BY <1>0, <1>1, <1>2, <1>7 DEF Feed, client
<1>8. CASE RefreshReturns(i) /\ ~UNCHANGED client
  <2>1. Shows(applySnapshots([tasks |-> tasks, ran |-> ran], P))
    BY <1>8 DEF RefreshReturns, View
  <2> QED
    BY <2>1, <1>5, <1>6 DEF Shows
<1>9. CASE SubmitReturns(i) /\ ~UNCHANGED client
  <2>1. PICK p \in P : Shows(Promoted(applySnapshots([tasks |-> tasks, ran |-> ran], {p}), p.id))
    BY <1>9 DEF SubmitReturns, View
  <2> DEFINE w == applySnapshots([tasks |-> tasks, ran |-> ran], {p})
             h == w.tasks
             m == w.ran
             z == Promoted([tasks |-> h, ran |-> m], j)
  <2>2. /\ WindowOK(store, unused, h, snapshotRevision, snapshotGeneration, locallyDismissed)
        /\ Onces(unused, b, h, m) /\ Applied(tasks, ran, {p}, h, m)
    BY <1>5
  <2>3. w = [tasks |-> h, ran |-> m]
    BY DEF applySnapshots
  <2> HIDE DEF w, h, m
  <2>4. calls[i].kind = "submit" /\ p.id = j /\ j \in Jobs \ unused /\ calls[i].ids = {j}
    <3>1. p.id = j
      BY <1>3, <1>4
    <3>2. Coherent(store, unused, p.id, p.version, p.state)
      BY <1>3 DEF Reported
    <3> QED
      BY <1>4, <1>9, <3>1, <3>2 DEF SubmitReturns, Arrives, Coherent
  <2>5. ~Claimed(unused, calls, j)
    BY <2>4 DEF Claimed
  <2>6. Claimed(unused, b, j)
    BY <1>2, <1>4, <2>4 DEF Claimed
  <2>7. /\ j \in DOMAIN tasks => ~tasks[j].localEffects
        /\ ran[j] = 0
        /\ \A l \in DOMAIN calls : j \in DOMAIN calls[l].rollback => ~calls[l].rollback[j].localEffects
    <3>1. ran[j] \in {0, 1}
      BY <1>0, <2>4 DEF Onces
    <3> QED
      BY <1>0, <2>4, <2>5, <3>1 DEF Onces, Once
  <2>8. \A l \in DOMAIN b : j \in DOMAIN b[l].rollback => ~b[l].rollback[j].localEffects
    BY <1>2, <2>7
  <2>9. /\ j \in DOMAIN h => ~h[j].localEffects
        /\ m[j] = 0
    BY <2>2, <2>4, <2>7 DEF Applied, Due
  <2>10. WindowOK(store, unused, z.tasks, snapshotRevision, snapshotGeneration, locallyDismissed)
         /\ Onces(unused, b, z.tasks, z.ran)
    BY <2>2, <2>4, <2>6, <2>8, <2>9, PromotedKeeps
  <2>11. Shows(z)
    BY <2>1, <2>3, <2>4 DEF w, h, m
  <2> HIDE DEF z
  <2> QED
    BY <1>6, <2>10, <2>11 DEF Shows
<1> QED
  BY <1>7, <1>8, <1>9

\* Deltas, fetched by a poll or after a move.
\* [jobs.svelte.ts reconcileSnapshotFeed, requestQueueMove]
LEMMA DeltaReturn ==
  ASSUME Feed, NEW i \in DOMAIN calls, PollReturns(i) \/ PollFails(i) \/ DeltaReturns(i)
  PROVE  Feed'
<1> DEFINE b == RemoveAt(calls, i)
           d == calls[i].reply
<1>0. /\ StoreOK(store, unused) /\ EventsOK(store, unused, events) /\ refused \in BOOLEAN
      /\ WindowOK(store, unused, tasks, snapshotRevision, snapshotGeneration, locallyDismissed)
  BY DEF Feed
<1>1. /\ calls[i].answered /\ IsDelta(calls[i]) /\ calls' = b
      /\ store' = store /\ unused' = unused /\ events' = events /\ refused' = refused
  BY DEF PollReturns, PollFails, DeltaReturns, Arrives, IsDelta
<1>2. /\ CallsOK(store, unused, b) /\ Onces(unused, b, tasks, ran)
      /\ AnswerOK(store, unused, calls[i])
  BY <1>1, TakenFacts
<1> HIDE DEF b
<1>3. /\ d \in Deltas /\ d.revision <= store.revision /\ Single(d.upserts)
      /\ Reported(store, unused, d.upserts)
  BY <1>1, <1>2 DEF AnswerOK, Brought
<1>4. UNCHANGED client \/ applySnapshotDelta(d)
  BY DEF PollReturns, PollFails, DeltaReturns
<1>5. /\ WindowOK(store, unused, tasks', snapshotRevision', snapshotGeneration', locallyDismissed')
      /\ Onces(unused, b, tasks', ran')
  <2>1. CASE UNCHANGED client
    BY <1>0, <1>2, <2>1 DEF client
  <2>2. CASE applySnapshotDelta(d)
    BY <1>2, <1>3, <2>2, DeltaKeeps
  <2> QED
    BY <1>4, <2>1, <2>2
<1> QED
  BY <1>0, <1>1, <1>2, <1>5 DEF Feed

\* A move that succeeded asks for the new positions.
\* [jobs.svelte.ts requestQueueMove]
LEMMA MoveReturn ==
  ASSUME Feed, NEW i \in DOMAIN calls, MoveReturns(i)
  PROVE  Feed'
<1> DEFINE b == RemoveAt(calls, i)
<1>0. /\ StoreOK(store, unused) /\ EventsOK(store, unused, events) /\ refused \in BOOLEAN
      /\ WindowOK(store, unused, tasks, snapshotRevision, snapshotGeneration, locallyDismissed)
      /\ Onces(unused, calls, tasks, ran)
  BY DEF Feed
<1>1. /\ calls[i].answered
      /\ store' = store /\ unused' = unused /\ events' = events /\ refused' = refused
      /\ UNCHANGED client
  BY DEF MoveReturns, Arrives
<1>2. CallsOK(store, unused, b) /\ Onces(unused, b, tasks, ran)
  BY <1>1, TakenFacts
<1>3. \/ calls' = b
      \/ calls' = Append(b, Call("delta", {}))
  BY DEF MoveReturns
<1> HIDE DEF b
<1>4. CASE calls' = b
  BY <1>0, <1>1, <1>2, <1>4 DEF Feed, client
<1>5. CASE calls' = Append(b, Call("delta", {}))
  <2> DEFINE x == Call("delta", {})
  <2>1. /\ CallOK(store, unused, x) /\ x.kind = "delta" /\ ~x.answered
        /\ \A j \in DOMAIN x.rollback : j \in DOMAIN tasks /\ x.rollback[j] = tasks[j]
    BY CallFacts DEF Kinds
  <2> HIDE DEF x
  <2>2. CallsOK(store, unused, calls')
    BY <1>2, <1>5, <2>1, CallsSent DEF x
  <2>3. b \in Seq(Calls) /\ x \in Calls
    BY <1>2, <2>1 DEF CallsOK, CallOK
  <2>4. /\ DOMAIN calls' = DOMAIN b \cup {Len(b) + 1}
        /\ \A k \in DOMAIN b : calls'[k] = b[k]
        /\ calls'[Len(b) + 1] = x
    BY <1>5, <2>3, SentFacts DEF x
  <2>5. Once(unused, b, x.rollback, ran)
    BY <1>2, <2>1 DEF Onces, Once
  <2>6. \A j \in Jobs : Claimed(unused, b, j) => Claimed(unused, calls', j)
    BY <2>1, <2>4 DEF Claimed
  <2>7. \A k \in DOMAIN calls' : Once(unused, b, calls'[k].rollback, ran)
    BY <1>2, <2>4, <2>5 DEF Onces
  <2>8. Onces(unused, calls', tasks, ran)
    BY <1>2, <2>6, <2>7, OncesMoved
  <2> QED
    BY <1>0, <1>1, <2>2, <2>8 DEF Feed, client
<1> QED
  BY <1>3, <1>4, <1>5

\* Rows that are put back keep the effects they have run.
\* [jobs.svelte.ts clearFinished]
LEMMA ClearReturn ==
  ASSUME Feed, NEW i \in DOMAIN calls, ClearReturns(i)
  PROVE  Feed'
<1> DEFINE b == RemoveAt(calls, i)
           back == calls[i].rollback
           ended == {j \in DOMAIN tasks \cap calls[i].ids : Terminal(tasks[j].state)}
           h == [j \in DOMAIN tasks \cup DOMAIN back |->
                   IF j \in DOMAIN tasks THEN tasks[j] ELSE back[j]]
<1>0. /\ StoreOK(store, unused) /\ EventsOK(store, unused, events) /\ refused \in BOOLEAN
      /\ WindowOK(store, unused, tasks, snapshotRevision, snapshotGeneration, locallyDismissed)
      /\ Onces(unused, calls, tasks, ran) /\ tasks \in Rows
  BY DEF Feed, WindowOK
<1>1. /\ calls[i].answered /\ calls' = b
      /\ store' = store /\ unused' = unused /\ events' = events /\ refused' = refused
  BY DEF ClearReturns, Arrives
<1>2. CallsOK(store, unused, b) /\ Onces(unused, b, tasks, ran) /\ CallOK(store, unused, calls[i])
  BY <1>1, TakenFacts
<1> HIDE DEF b
<1>3. CASE calls[i].reply
  <2>1. /\ tasks' = Restrict(tasks, DOMAIN tasks \ ended) /\ ran' = ran
        /\ UNCHANGED <<snapshotRevision, snapshotGeneration, locallyDismissed>>
    BY <1>3 DEF ClearReturns, Without
  <2>2. DOMAIN tasks \ ended \in SUBSET DOMAIN tasks
    OBVIOUS
  <2> HIDE DEF ended
  <2>3. /\ WindowOK(store, unused, tasks', snapshotRevision, snapshotGeneration, locallyDismissed)
        /\ Onces(unused, b, tasks', ran)
    BY <1>0, <1>2, <2>1, <2>2, RestrictedKeeps
  <2> QED
    BY <1>0, <1>1, <1>2, <2>1, <2>3 DEF Feed
<1>4. CASE ~calls[i].reply
  <2>1. /\ tasks' = h /\ ran' = ran
        /\ locallyDismissed' = locallyDismissed \ calls[i].ids
        /\ snapshotGeneration' = snapshotGeneration + 1 /\ snapshotRevision' = Unknown
    BY <1>4 DEF ClearReturns
  <2>2. back \in Rows /\ Listed(store, unused, back)
    BY <1>2 DEF CallOK, Calls
  <2>3. /\ DOMAIN h = DOMAIN tasks \cup DOMAIN back
        /\ \A j \in DOMAIN h : \/ j \in DOMAIN tasks /\ h[j] = tasks[j]
                               \/ j \in DOMAIN back /\ h[j] = back[j]
    OBVIOUS
  <2>4. h \in Rows
    <3>1. \A j \in DOMAIN h : h[j] \in Lines
      BY <1>0, <2>2, <2>3, RowsFields
    <3>2. DOMAIN h \in SUBSET Jobs
      BY <1>0, <2>2, <2>3, RowsFields
    <3>3. h = [j \in DOMAIN h |-> h[j]]
      OBVIOUS
    <3> HIDE DEF h
    <3> QED
      BY <3>1, <3>2, <3>3 DEF Rows
  <2> HIDE DEF h, back
  <2>5. Listed(store, unused, h)
    BY <1>0, <2>2, <2>3 DEF WindowOK, Listed
  <2>6. WindowOK(store, unused, h, Unknown, snapshotGeneration + 1, locallyDismissed \ calls[i].ids)
    BY <1>0, <2>4, <2>5 DEF WindowOK
  <2>7. Once(unused, calls, back, ran) /\ \A j \in DOMAIN back : Terminal(back[j].state)
    BY <1>0, <1>2 DEF Onces, CallOK, back
  <2>8. \A j \in DOMAIN back : back[j].localEffects => Claimed(unused, b, j) /\ ran[j] = 1
    <3>1. ASSUME NEW j \in DOMAIN back, back[j].localEffects
          PROVE  Claimed(unused, b, j) /\ ran[j] = 1
      <4>1. ran[j] = 1 /\ j \in Jobs
        BY <2>2, <2>7, <3>1, RowsFields DEF Once
      <4> QED
        BY <1>2, <4>1 DEF Onces
    <3> QED
      BY <3>1
  <2>9. Once(unused, b, h, ran)
    <3>1. Once(unused, b, tasks, ran)
      BY <1>2 DEF Onces
    <3> QED
      BY <2>3, <2>7, <2>8, <3>1 DEF Once
  <2>10. Onces(unused, b, h, ran)
    BY <1>2, <2>9 DEF Onces
  <2> QED
    BY <1>0, <1>1, <1>2, <2>1, <2>6, <2>10 DEF Feed
<1> QED
  BY <1>3, <1>4

\* An event arrives, late or not.  [jobs.svelte.ts initJobEvents]
LEMMA EventKeeps ==
  ASSUME Feed, NEW p \in events, EventArrives(p)
  PROVE  Feed'
<1> DEFINE w == applySnapshots([tasks |-> tasks, ran |-> ran], {p})
<1>0. /\ StoreOK(store, unused) /\ EventsOK(store, unused, events) /\ refused \in BOOLEAN
      /\ WindowOK(store, unused, tasks, snapshotRevision, snapshotGeneration, locallyDismissed)
      /\ Onces(unused, calls, tasks, ran) /\ tasks \in Rows /\ ran \in [Jobs -> Nat]
      /\ CallsOK(store, unused, calls)
  BY DEF Feed, WindowOK, Onces
<1>1. {p} \in SUBSET Reports /\ Single({p}) /\ Reported(store, unused, {p})
  BY <1>0 DEF EventsOK, Single, Reported
<1>2. w.tasks \in Rows /\ w.ran \in [Jobs -> Nat] /\ Applied(tasks, ran, {p}, w.tasks, w.ran)
  BY <1>0, <1>1, AppliedFacts
<1>3. /\ Shows(w) /\ events' = events \ {p} /\ store' = store /\ unused' = unused
      /\ calls' = calls /\ refused' = refused
  BY DEF EventArrives, View
<1> HIDE DEF w
<1>4. /\ WindowOK(store, unused, w.tasks, snapshotRevision, snapshotGeneration, locallyDismissed)
      /\ Onces(unused, calls, w.tasks, w.ran)
  BY <1>0, <1>1, <1>2, AppliedKeeps
<1>5. EventsOK(store, unused, events')
  BY <1>0, <1>3 DEF EventsOK, Reported
<1> QED
  BY <1>0, <1>3, <1>4, <1>5 DEF Feed, Shows

\* Every step keeps the feed in order, in whatever order replies arrive.
LEMMA FeedStep == Feed /\ [Next]_vars => Feed'
<1> SUFFICES ASSUME Feed, [Next]_vars PROVE Feed'
  OBVIOUS
<1>1. CASE Backend
  BY <1>1, BackendWorks, WorkedKeeps
<1>2. CASE Window
  BY <1>2, WindowKeeps
<1>3. ASSUME NEW i \in DOMAIN calls, Answer(i) PROVE Feed'
  BY <1>3, AnswerKeeps
<1>4. ASSUME NEW i \in DOMAIN calls, Return(i) \/ PollFails(i) PROVE Feed'
  BY <1>4, LookReturns, DeltaReturn, MoveReturn, ClearReturn DEF Return
<1>5. ASSUME NEW p \in events, EventArrives(p) PROVE Feed'
  BY <1>5, EventKeeps
<1>6. CASE UNCHANGED vars
  BY <1>6 DEF vars, Feed
<1> QED
  BY <1>1, <1>2, <1>3, <1>4, <1>5, <1>6 DEF Next

\* In order or not, the store and the list are well formed.
THEOREM FeedTypeCorrect == Spec => []TypeOK
<1>1. Feed => TypeOK
  <2> SUFFICES ASSUME Feed PROVE TypeOK
    OBVIOUS
  <2>1. /\ Sound(store, unused) /\ Lined(store) /\ Len(store.ended) <= MaxTerminal
        /\ store \in Stores
        /\ WindowOK(store, unused, tasks, snapshotRevision, snapshotGeneration, locallyDismissed)
    BY DEF Feed, StoreOK, Sound
  <2>2. InState("done") = DoneIn(store) /\ Known = DOMAIN store.jobs
    BY DEF InState, Known, DoneIn, Terminal
  <2>3. \A j \in DOMAIN tasks : j \in Jobs \ unused /\ tasks[j].version \in 1..store.revision
    BY <2>1 DEF WindowOK, Listed, Coherent
  <2> QED
    BY <2>1, <2>2, <2>3, StoreFields DEF TypeOK, Sound, Lined, WindowOK
<1> QED
  BY <1>1, FeedInit, FeedStep, PTL DEF Spec

\* Completion effects run once, only in the window that submitted the job.
\* [jobs.svelte.ts runTerminalEffects, localSubmissionPromotion]
THEOREM EffectsRunOnce == Spec => []EffectsOnce
<1>1. Feed => EffectsOnce
  <2> SUFFICES ASSUME Feed, NEW j \in Jobs
               PROVE  /\ ran[j] <= IF j \in Mine THEN 1 ELSE 0
                      /\ j \in DOMAIN tasks /\ tasks[j].localEffects /\ Terminal(tasks[j].state)
                           => ran[j] = 1
    BY DEF EffectsOnce
  <2>1. ran[j] \in {0, 1} /\ (ran[j] = 1 => j \in Mine)
    BY DEF Feed, Onces, Claimed
  <2>2. j \in DOMAIN tasks /\ tasks[j].localEffects /\ Terminal(tasks[j].state) => ran[j] = 1
    BY DEF Feed, Onces, Once
  <2> QED
    BY <2>1, <2>2
<1> QED
  BY <1>1, FeedInit, FeedStep, PTL DEF Spec

-----------------------------------------------------------------------------
(***************************************************************************)
(* While replies come in order, a window that has caught up misses         *)
(* nothing.                                                                *)
(***************************************************************************)
Fed(s, u, f, r, g, L, c) ==
  StoreOK(s, u) /\ WindowOK(s, u, f, r, g, L) /\ CallsOK(s, u, c)

Names(x, j) == \E p \in Brought(x) : p.id = j
Clears(x, j) == x.kind = "dismiss" /\ j \in x.ids
Submits(x, j) == x.kind = "submit" /\ j \in x.ids

\* The window has heard of a job, in whatever it keeps.
Seen(f, L, c, j) ==
  j \in DOMAIN f \/ j \in L \/ \E i \in DOMAIN c : Clears(c[i], j)

\* A job is not heard of before its submission returns.
Unheard(u, f, L, c) ==
  \A i \in DOMAIN c, j \in Jobs : Submits(c[i], j) =>
    /\ ~Seen(f, L, c, j)
    /\ \A k \in DOMAIN c : k < i =>
         ~Names(c[k], j) /\ (~c[k].answered => j \in u)

\* Rows that are being cleared stay finished.
Finished(f, L) == \A j \in L \cap DOMAIN f : Terminal(f[j].state)

\* Rows that were cleared are not shown.
Gone(s, c) ==
  \A i \in DOMAIN c : c[i].kind = "dismiss" /\ c[i].answered /\ c[i].reply
                        => c[i].ids \cap Shown(s) = {}

\* A delta knows of every job the window has heard of before.
Informed(s, f, L, c) ==
  \A k \in DOMAIN c, j \in DOMAIN s.jobs : IsDelta(c[k]) /\ c[k].answered =>
    /\ Seen(f, L, c, j) => s.jobs[j].created <= c[k].reply.revision
    /\ \A i \in DOMAIN c : i <= k /\ Names(c[i], j)
                             => s.jobs[j].created <= c[k].reply.revision

Present(f, L, j) == j \in L \/ j \in DOMAIN f
Right(s, f, L, j) ==
  j \in L \/ (j \in DOMAIN f /\ f[j].version = s.jobs[j].version)

\* The list has what there was at a revision.
Upto(s, f, L, r) ==
  \A j \in Shown(s) : /\ s.jobs[j].created <= r => Present(f, L, j)
                      /\ s.jobs[j].version <= r => Right(s, f, L, j)

\* A delta brings what the list lacks.
Covers(s, f, L, d) ==
  \A j \in Shown(s) :
    /\ s.jobs[j].created <= d.revision =>
         \/ ~d.reset /\ Present(f, L, j)
         \/ \E p \in d.upserts : p.id = j /\ p.spec
    /\ s.jobs[j].version <= d.revision =>
         \/ ~d.reset /\ Right(s, f, L, j)
         \/ \E p \in d.upserts : p.id = j /\ p.version = s.jobs[j].version

Complete(s, u, f, r, L, c) ==
  /\ r # Unknown => Upto(s, f, L, r)
  /\ \A k \in DOMAIN c : IsDelta(c[k]) =>
       /\ ~c[k].answered /\ c[k].since # Unknown => Upto(s, f, L, c[k].since)
       /\ c[k].answered => /\ Covers(s, f, L, c[k].reply)
                           /\ c[k].reply.removed \cap (Shown(s) \cup u) = {}

Led(s, u, f, r, L, c) ==
  /\ Unheard(u, f, L, c) /\ Finished(f, L) /\ Gone(s, c)
  /\ Informed(s, f, L, c) /\ Complete(s, u, f, r, L, c)

\* What the window has and awaits is about jobs that have an id.
LEMMA HeardFacts ==
  ASSUME NEW s, NEW u, NEW f, NEW r, NEW g, NEW L, NEW c, Fed(s, u, f, r, g, L, c)
  PROVE  /\ \A j : Seen(f, L, c, j) => j \in Jobs \ u
         /\ \A i \in DOMAIN c : \A j : Names(c[i], j) => c[i].answered /\ j \in Jobs \ u
         /\ \A i \in DOMAIN c : \A j : Submits(c[i], j) => j \in Mine /\ c[i].ids = {j}
         /\ s \in Stores /\ s.revision \in Nat /\ u \subseteq Jobs
         /\ DOMAIN s.jobs \subseteq Jobs \ u /\ Shown(s) \subseteq DOMAIN s.jobs
         /\ \A j \in DOMAIN s.jobs : /\ s.jobs[j].version \in Nat /\ s.jobs[j].created \in Nat
                                     /\ s.jobs[j].created <= s.jobs[j].version
                                     /\ s.jobs[j].version <= s.revision
         /\ c \in Seq(Calls) /\ DOMAIN c \subseteq Nat \ {0}
         /\ \A i \in DOMAIN c : IsDelta(c[i]) /\ c[i].answered =>
              /\ c[i].reply \in Deltas /\ c[i].reply.revision \in Nat
              /\ c[i].reply.revision <= s.revision
              /\ Brought(c[i]) = c[i].reply.upserts
         /\ \A i \in DOMAIN c : /\ c[i].since \in Nat \cup {Unknown} /\ c[i].since <= s.revision
         /\ r \in {Unknown} \cup (0..s.revision)
<1>0. /\ StoreOK(s, u) /\ WindowOK(s, u, f, r, g, L) /\ c \in Seq(Calls)
      /\ \A i \in DOMAIN c : CallOK(s, u, c[i]) /\ c[i] \in Calls
      /\ s \in Stores /\ Sound(s, u)
  BY DEF Fed, CallsOK, CallOK, StoreOK, Sound
<1>1. DOMAIN c \subseteq Nat \ {0}
  BY <1>0
<1>2. ASSUME NEW j, Seen(f, L, c, j) PROVE j \in Jobs \ u
  <2>1. j \in DOMAIN f => j \in Jobs \ u
    BY <1>0 DEF WindowOK, Listed, Coherent
  <2>2. j \in L => j \in Jobs \ u
    BY <1>0 DEF WindowOK
  <2>3. ASSUME NEW i \in DOMAIN c, Clears(c[i], j) PROVE j \in Jobs \ u
    BY <1>0, <2>3 DEF Clears, CallOK
  <2> QED
    BY <1>2, <2>1, <2>2, <2>3 DEF Seen
<1>3. ASSUME NEW i \in DOMAIN c, NEW j, Names(c[i], j)
      PROVE  c[i].answered /\ j \in Jobs \ u
  <2>1. c[i].answered
    BY <1>3 DEF Names, Brought
  <2>2. Reported(s, u, Brought(c[i]))
    BY <1>0, <2>1 DEF CallOK, AnswerOK
  <2> QED
    BY <1>3, <2>1, <2>2 DEF Names, Reported, Coherent
<1>4. ASSUME NEW i \in DOMAIN c, NEW j, Submits(c[i], j)
      PROVE  j \in Mine /\ c[i].ids = {j}
  BY <1>0, <1>4 DEF Submits, CallOK, Looks
<1>5. /\ s.revision \in Nat /\ u \subseteq Jobs
      /\ DOMAIN s.jobs \subseteq Jobs \ u /\ Shown(s) \subseteq DOMAIN s.jobs
      /\ \A j \in DOMAIN s.jobs : /\ s.jobs[j].version \in Nat /\ s.jobs[j].created \in Nat
                                  /\ s.jobs[j].created <= s.jobs[j].version
                                  /\ s.jobs[j].version <= s.revision
  BY <1>0, StoreFields DEF Sound, Shown
<1>6. ASSUME NEW i \in DOMAIN c, IsDelta(c[i]), c[i].answered
      PROVE  /\ c[i].reply \in Deltas /\ c[i].reply.revision \in Nat
             /\ c[i].reply.revision <= s.revision
             /\ Brought(c[i]) = c[i].reply.upserts
  BY <1>0, <1>6 DEF CallOK, AnswerOK, Deltas, Brought
<1>7. \A i \in DOMAIN c : c[i].since \in Nat \cup {Unknown} /\ c[i].since <= s.revision
  BY <1>0 DEF CallOK, Calls
<1>8. r \in {Unknown} \cup (0..s.revision)
  BY <1>0 DEF WindowOK
<1> QED
  BY <1>0, <1>1, <1>2, <1>3, <1>4, <1>5, <1>6, <1>7, <1>8

\* What a list has of the jobs shown, it has while the store grows: what is new
\* comes after.
LEMMA UptoGrown ==
  ASSUME NEW s, NEW t, NEW u, NEW new \in SUBSET u, StoreOK(s, u), StoreOK(t, u \ new),
         Grown(s, t, new), NEW f, NEW L
  PROVE  /\ \A r \in Nat : r <= s.revision /\ Upto(s, f, L, r) => Upto(t, f, L, r)
         /\ \A d : d.revision \in Nat /\ d.revision <= s.revision /\ Covers(s, f, L, d)
                     => Covers(t, f, L, d)
<1>0. /\ s \in Stores /\ t \in Stores /\ s.revision \in Nat /\ t.revision \in Nat
      /\ Shown(s) \subseteq DOMAIN s.jobs /\ Shown(t) \subseteq DOMAIN t.jobs
      /\ \A j \in DOMAIN s.jobs : s.jobs[j].version \in Nat /\ s.jobs[j].created \in Nat
      /\ \A j \in DOMAIN t.jobs : /\ t.jobs[j].version \in Nat /\ t.jobs[j].created \in Nat
                                  /\ t.jobs[j].created <= t.jobs[j].version
  BY StoreFields DEF StoreOK, Sound, Shown
<1>1. ASSUME NEW j \in Shown(t)
      PROVE  \/ /\ j \in Shown(s) /\ t.jobs[j].created = s.jobs[j].created
                /\ \/ t.jobs[j].version = s.jobs[j].version
                   \/ t.jobs[j].version > s.revision
             \/ t.jobs[j].created > s.revision /\ t.jobs[j].version > s.revision
  <2>1. CASE j \in new
    BY <1>0, <2>1 DEF Grown
  <2>2. CASE j \notin new
    BY <1>0, <2>2 DEF Grown
  <2> QED
    BY <2>1, <2>2
<1>2. ASSUME NEW r \in Nat, r <= s.revision, Upto(s, f, L, r), NEW j \in Shown(t)
      PROVE  /\ t.jobs[j].created <= r => Present(f, L, j)
             /\ t.jobs[j].version <= r => Right(t, f, L, j)
  BY <1>0, <1>1, <1>2 DEF Upto, Right
<1>3. ASSUME NEW d, d.revision \in Nat, d.revision <= s.revision, Covers(s, f, L, d),
             NEW j \in Shown(t)
      PROVE  /\ t.jobs[j].created <= d.revision =>
                  \/ ~d.reset /\ Present(f, L, j)
                  \/ \E p \in d.upserts : p.id = j /\ p.spec
             /\ t.jobs[j].version <= d.revision =>
                  \/ ~d.reset /\ Right(t, f, L, j)
                  \/ \E p \in d.upserts : p.id = j /\ p.version = t.jobs[j].version
  <2>1. CASE t.jobs[j].created > s.revision /\ t.jobs[j].version > s.revision
    BY <1>0, <1>3, <2>1
  <2>2. CASE /\ j \in Shown(s) /\ t.jobs[j].created = s.jobs[j].created
             /\ \/ t.jobs[j].version = s.jobs[j].version
                \/ t.jobs[j].version > s.revision
    <3>1. t.jobs[j].version <= d.revision => t.jobs[j].version = s.jobs[j].version
      BY <1>0, <1>3, <2>2
    <3> QED
      BY <1>3, <2>2, <3>1 DEF Covers, Right
  <2> QED
    BY <1>1, <2>1, <2>2
<1>4. ASSUME NEW r \in Nat, r <= s.revision, Upto(s, f, L, r) PROVE Upto(t, f, L, r)
  <2>1. \A j \in Shown(t) : /\ t.jobs[j].created <= r => Present(f, L, j)
                            /\ t.jobs[j].version <= r => Right(t, f, L, j)
    BY <1>2, <1>4
  <2> QED
    BY <2>1 DEF Upto
<1>5. ASSUME NEW d, d.revision \in Nat, d.revision <= s.revision, Covers(s, f, L, d)
      PROVE  Covers(t, f, L, d)
  <2> SUFFICES ASSUME NEW j \in Shown(t)
               PROVE  /\ t.jobs[j].created <= d.revision =>
                           \/ ~d.reset /\ Present(f, L, j)
                           \/ \E p \in d.upserts : p.id = j /\ p.spec
                      /\ t.jobs[j].version <= d.revision =>
                           \/ ~d.reset /\ Right(t, f, L, j)
                           \/ \E p \in d.upserts : p.id = j /\ p.version = t.jobs[j].version
    BY DEF Covers
  <2> QED
    BY <1>3, <1>5
<1> QED
  BY <1>4, <1>5

\* The backend works while the window waits.
LEMMA LedGrown ==
  ASSUME NEW s, NEW t, NEW u, NEW new \in SUBSET u, NEW f, NEW r, NEW g, NEW L, NEW c,
         Fed(s, u, f, r, g, L, c), StoreOK(t, u \ new), Grown(s, t, new),
         \A j \in new \cap Mine : \E i \in DOMAIN c :
           c[i].kind = "submit" /\ c[i].ids = {j} /\ \A k \in 1..(i - 1) : c[k].answered,
         Led(s, u, f, r, L, c)
  PROVE  Led(t, u \ new, f, r, L, c)
<1>0. /\ \A j : Seen(f, L, c, j) => j \in Jobs \ u
      /\ \A i \in DOMAIN c : \A j : Names(c[i], j) => c[i].answered /\ j \in Jobs \ u
      /\ \A i \in DOMAIN c : \A j : Submits(c[i], j) => j \in Mine /\ c[i].ids = {j}
      /\ DOMAIN c \subseteq Nat \ {0} /\ StoreOK(s, u) /\ CallsOK(s, u, c)
      /\ r \in {Unknown} \cup (0..s.revision) /\ s.revision \in Nat
  BY HeardFacts DEF Fed
<1>1. Unheard(u \ new, f, L, c)
  <2> SUFFICES ASSUME NEW i \in DOMAIN c, NEW j \in Jobs, Submits(c[i], j),
                      NEW k \in DOMAIN c, k < i, ~c[k].answered
               PROVE  j \notin new
    BY DEF Led, Unheard
  <2> SUFFICES ASSUME j \in new PROVE FALSE
    OBVIOUS
  <2>1. PICK l \in DOMAIN c :
          c[l].kind = "submit" /\ c[l].ids = {j} /\ \A m \in 1..(l - 1) : c[m].answered
    BY <1>0
  <2>2. c[i].kind = "submit" /\ c[i].ids = {j}
    BY <1>0 DEF Submits
  <2>3. l = i
    BY <1>0, <2>1, <2>2 DEF CallsOK
  <2>4. k \in 1..(i - 1)
    BY <1>0
  <2> QED
    BY <2>1, <2>3, <2>4
<1>2. Gone(t, c)
  <2> SUFFICES ASSUME NEW i \in DOMAIN c, c[i].kind = "dismiss", c[i].answered, c[i].reply,
                      NEW j \in c[i].ids, j \in Shown(t)
               PROVE  FALSE
    BY DEF Gone
  <2>1. j \notin Shown(s)
    BY DEF Led, Gone
  <2>2. j \notin u
    BY <1>0 DEF CallsOK, CallOK, Looks
  <2> QED
    BY <2>1, <2>2 DEF Grown
<1>3. Informed(t, f, L, c)
  <2> SUFFICES ASSUME NEW k \in DOMAIN c, NEW j \in DOMAIN t.jobs, IsDelta(c[k]), c[k].answered
               PROVE  /\ Seen(f, L, c, j) => t.jobs[j].created <= c[k].reply.revision
                      /\ \A i \in DOMAIN c : i <= k /\ Names(c[i], j)
                                               => t.jobs[j].created <= c[k].reply.revision
    BY DEF Informed
  <2>1. j \notin u => j \in DOMAIN s.jobs /\ t.jobs[j].created = s.jobs[j].created
    BY DEF Grown
  <2> QED
    BY <1>0, <2>1 DEF Led, Informed
<1>4. Complete(t, u \ new, f, r, L, c)
  <2>1. r # Unknown => Upto(t, f, L, r)
    BY <1>0, UptoGrown DEF Led, Complete
  <2>2. ASSUME NEW k \in DOMAIN c, IsDelta(c[k]), ~c[k].answered, c[k].since # Unknown
        PROVE  Upto(t, f, L, c[k].since)
    <3>1. c[k].since \in Nat /\ c[k].since <= s.revision
      BY <2>2, HeardFacts
    <3>2. Upto(s, f, L, c[k].since)
      BY <2>2 DEF Led, Complete
    <3> QED
      BY <1>0, <3>1, <3>2, UptoGrown
  <2>3. ASSUME NEW k \in DOMAIN c, IsDelta(c[k]), c[k].answered
        PROVE  /\ Covers(t, f, L, c[k].reply)
               /\ c[k].reply.removed \cap (Shown(t) \cup (u \ new)) = {}
    <3>1. c[k].reply.revision \in Nat /\ c[k].reply.revision <= s.revision
      BY <2>3, HeardFacts
    <3>2. Covers(s, f, L, c[k].reply) /\ c[k].reply.removed \cap (Shown(s) \cup u) = {}
      BY <2>3 DEF Led, Complete
    <3>3. Covers(t, f, L, c[k].reply)
      BY <1>0, <3>1, <3>2, UptoGrown
    <3>4. Shown(t) \subseteq Shown(s) \cup new
      BY DEF Grown
    <3> QED
      BY <3>2, <3>3, <3>4
  <2> QED
    BY <2>1, <2>2, <2>3 DEF Complete
<1>5. Finished(f, L)
  BY DEF Led
<1> QED
  BY <1>1, <1>2, <1>3, <1>4, <1>5 DEF Led

\* The backend answers: a delta knows all there is.
LEMMA LedAnswered ==
  ASSUME NEW s, NEW u, NEW f, NEW r, NEW g, NEW L, NEW c, NEW b,
         Fed(s, u, f, r, g, L, c), Fed(s, u, f, r, g, L, b), NEW i \in DOMAIN c,
         \A k \in 1..(i - 1) : c[k].answered, ~c[i].answered,
         NEW reply \in Replies, b = Replied(c, i, reply),
         IsDelta(c[i]) => /\ reply.revision = s.revision /\ Covers(s, f, L, reply)
                          /\ reply.removed \cap (Shown(s) \cup u) = {},
         c[i].kind = "dismiss" /\ b[i].reply => c[i].ids \cap Shown(s) = {},
         Led(s, u, f, r, L, c)
  PROVE  Led(s, u, f, r, L, b)
<1>0. /\ \A j : Seen(f, L, c, j) => j \in Jobs \ u
      /\ \A j \in DOMAIN s.jobs : /\ s.jobs[j].created \in Nat
                                  /\ s.jobs[j].created <= s.revision
      /\ c \in Seq(Calls) /\ DOMAIN c \subseteq Nat \ {0} /\ s.revision \in Nat
      /\ r \in {Unknown} \cup (0..s.revision) /\ CallsOK(s, u, c)
  <2>1. /\ s.revision \in Nat
        /\ \A j \in DOMAIN s.jobs : /\ s.jobs[j].version \in Nat /\ s.jobs[j].created \in Nat
                                    /\ s.jobs[j].created <= s.jobs[j].version
                                    /\ s.jobs[j].version <= s.revision
    BY HeardFacts
  <2>2. \A j \in DOMAIN s.jobs : s.jobs[j].created \in Nat /\ s.jobs[j].created <= s.revision
    BY <2>1
  <2> QED
    BY <2>1, <2>2, HeardFacts DEF Fed
<1>1. \A k \in DOMAIN b : \A j : Names(b[k], j) => b[k].answered /\ j \in Jobs \ u
  BY HeardFacts
<1>2. /\ DOMAIN b = DOMAIN c /\ \A k \in DOMAIN c \ {i} : b[k] = c[k]
      /\ b[i].kind = c[i].kind /\ b[i].ids = c[i].ids
      /\ b[i].answered /\ b[i].reply = reply
  BY <1>0, AnsweredFacts
<1>3. \A k \in DOMAIN c : b[k].kind = c[k].kind /\ b[k].ids = c[k].ids
  BY <1>2
<1>4. \A j : /\ Seen(f, L, b, j) <=> Seen(f, L, c, j)
             /\ \A k \in DOMAIN c : Submits(b[k], j) <=> Submits(c[k], j)
  BY <1>2, <1>3 DEF Seen, Clears, Submits
<1>5. ASSUME NEW k \in DOMAIN c, c[k].answered PROVE k < i
  <2>1. k # i
    BY <1>5
  <2>2. ~(i < k)
    BY <1>0, <1>5 DEF CallsOK
  <2> QED
    BY <1>0, <2>1, <2>2
<1>6. Unheard(u, f, L, b)
  <2> SUFFICES ASSUME NEW l \in DOMAIN c, NEW j \in Jobs, Submits(c[l], j)
               PROVE  /\ ~Seen(f, L, c, j)
                      /\ \A k \in DOMAIN c : k < l =>
                           ~Names(b[k], j) /\ (~b[k].answered => j \in u)
    BY <1>2, <1>4 DEF Unheard
  <2>1. /\ ~Seen(f, L, c, j)
        /\ \A k \in DOMAIN c : k < l =>
             ~Names(c[k], j) /\ (~c[k].answered => j \in u)
    BY DEF Led, Unheard
  <2>2. ASSUME NEW k \in DOMAIN c, k < l
        PROVE  ~Names(b[k], j) /\ (~b[k].answered => j \in u)
    <3>1. CASE k = i
      BY <1>1, <1>2, <2>1, <2>2, <3>1
    <3>2. CASE k # i
      BY <1>2, <2>1, <2>2, <3>2
    <3> QED
      BY <3>1, <3>2
  <2> QED
    BY <2>1, <2>2
<1>7. Gone(s, b)
  <2> SUFFICES ASSUME NEW k \in DOMAIN c, b[k].kind = "dismiss", b[k].answered, b[k].reply
               PROVE  b[k].ids \cap Shown(s) = {}
    BY <1>2 DEF Gone
  <2>1. CASE k = i
    BY <1>2, <2>1
  <2>2. CASE k # i
    BY <1>2, <2>2 DEF Led, Gone
  <2> QED
    BY <2>1, <2>2
<1>8. Informed(s, f, L, b)
  <2> SUFFICES ASSUME NEW k \in DOMAIN c, NEW j \in DOMAIN s.jobs, IsDelta(b[k]), b[k].answered
               PROVE  /\ Seen(f, L, c, j) => s.jobs[j].created <= b[k].reply.revision
                      /\ \A l \in DOMAIN c : l <= k /\ Names(b[l], j)
                                               => s.jobs[j].created <= b[k].reply.revision
    BY <1>2, <1>4 DEF Informed
  <2>1. CASE k = i
    <3>1. b[k].reply.revision = s.revision
      BY <1>2, <2>1 DEF IsDelta
    <3> QED
      BY <1>0, <3>1
  <2>2. CASE k # i
    <3>1. b[k] = c[k] /\ k < i
      BY <1>2, <1>5, <2>2
    <3>2. \A l \in DOMAIN c : l <= k => b[l] = c[l]
      BY <1>0, <1>2, <3>1
    <3> QED
      BY <3>1, <3>2 DEF Led, Informed
  <2> QED
    BY <2>1, <2>2
<1>9. Complete(s, u, f, r, L, b)
  <2>1. r # Unknown => Upto(s, f, L, r)
    BY DEF Led, Complete
  <2>2. ASSUME NEW k \in DOMAIN c, IsDelta(b[k])
        PROVE  /\ ~b[k].answered /\ b[k].since # Unknown => Upto(s, f, L, b[k].since)
               /\ b[k].answered => /\ Covers(s, f, L, b[k].reply)
                                   /\ b[k].reply.removed \cap (Shown(s) \cup u) = {}
    <3>1. CASE k = i
      BY <1>2, <2>2, <3>1 DEF IsDelta
    <3>2. CASE k # i
      BY <1>2, <2>2, <3>2 DEF Led, Complete
    <3> QED
      BY <3>1, <3>2
  <2> QED
    BY <1>2, <2>1, <2>2 DEF Complete
<1>10. Finished(f, L)
  BY DEF Led
<1> QED
  BY <1>6, <1>7, <1>8, <1>9, <1>10 DEF Led

\* A command is sent: a clearing is about rows the window has, and a delta is
\* asked from a revision the list is up to.
LEMMA LedSent ==
  ASSUME NEW s, NEW u, NEW f, NEW r, NEW g, NEW L, NEW c, Fed(s, u, f, r, g, L, c),
         NEW x, CallOK(s, u, x), ~x.answered, NEW b, b = Append(c, x),
         NEW q, NEW M, q = r \/ q = Unknown, L \subseteq M, M \subseteq L \cup DOMAIN f,
         Finished(f, M),
         x.kind = "submit" => x.ids \subseteq u,
         x.kind = "dismiss" => x.ids \subseteq DOMAIN f,
         IsDelta(x) => x.since \in {r, Unknown},
         Led(s, u, f, r, L, c)
  PROVE  Led(s, u, f, q, M, b)
<1> DEFINE n == Len(c) + 1
<1>0. /\ \A j : Seen(f, L, c, j) => j \in Jobs \ u
      /\ \A k \in DOMAIN c : \A j : Names(c[k], j) => c[k].answered /\ j \in Jobs \ u
      /\ c \in Seq(Calls) /\ x \in Calls /\ CallsOK(s, u, c)
  BY HeardFacts DEF CallOK, Fed
<1>1. /\ Len(c) \in Nat /\ DOMAIN c = 1..Len(c)
      /\ DOMAIN b = DOMAIN c \cup {n} /\ \A k \in DOMAIN c : b[k] = c[k] /\ k < n
      /\ b[n] = x /\ n \in Nat /\ n \notin DOMAIN c
  BY <1>0, SentFacts
<1> HIDE DEF n
<1>2. \A j : ~Names(x, j)
  BY DEF Names, Brought
<1>3. \A j : Seen(f, M, b, j) => Seen(f, L, c, j)
  <2> SUFFICES ASSUME NEW j, Seen(f, M, b, j) PROVE Seen(f, L, c, j)
    OBVIOUS
  <2>1. \A k \in DOMAIN b : Clears(b[k], j) =>
          j \in DOMAIN f \/ \E l \in DOMAIN c : Clears(c[l], j)
    BY <1>1 DEF Clears
  <2> QED
    BY <2>1 DEF Seen
<1>4. Unheard(u, f, M, b)
  <2> SUFFICES ASSUME NEW i \in DOMAIN b, NEW j \in Jobs, Submits(b[i], j)
               PROVE  /\ ~Seen(f, M, b, j)
                      /\ \A k \in DOMAIN b : k < i =>
                           ~Names(b[k], j) /\ (~b[k].answered => j \in u)
    BY DEF Unheard
  <2>1. CASE i = n
    <3>1. j \in u
      BY <1>1, <2>1 DEF Submits
    <3>2. \A k \in DOMAIN b : ~Names(b[k], j)
      BY <1>0, <1>1, <1>2, <3>1
    <3> QED
      BY <1>0, <1>3, <3>1, <3>2
  <2>2. CASE i \in DOMAIN c
    <3>1. \A k \in DOMAIN b : k < i => k \in DOMAIN c /\ b[k] = c[k]
      BY <1>1, <2>2
    <3>2. Submits(c[i], j)
      BY <1>1, <2>2
    <3> QED
      BY <1>3, <2>2, <3>1, <3>2 DEF Led, Unheard
  <2> QED
    BY <1>1, <2>1, <2>2
<1>5. Gone(s, b)
  BY <1>1 DEF Led, Gone
<1>6. Informed(s, f, M, b)
  <2> SUFFICES ASSUME NEW k \in DOMAIN b, NEW j \in DOMAIN s.jobs, IsDelta(b[k]), b[k].answered
               PROVE  /\ Seen(f, M, b, j) => s.jobs[j].created <= b[k].reply.revision
                      /\ \A l \in DOMAIN b : l <= k /\ Names(b[l], j)
                                               => s.jobs[j].created <= b[k].reply.revision
    BY DEF Informed
  <2>1. k \in DOMAIN c /\ b[k] = c[k]
    BY <1>1
  <2>2. \A l \in DOMAIN b : l <= k => l \in DOMAIN c /\ b[l] = c[l]
    BY <1>1, <2>1
  <2> QED
    BY <1>3, <2>1, <2>2 DEF Led, Informed
<1>7. ASSUME NEW v, Upto(s, f, L, v) PROVE Upto(s, f, M, v)
  BY <1>7 DEF Upto, Present, Right
<1>8. ASSUME NEW d, Covers(s, f, L, d) PROVE Covers(s, f, M, d)
  <2> SUFFICES ASSUME NEW j \in Shown(s)
               PROVE  /\ s.jobs[j].created <= d.revision =>
                           \/ ~d.reset /\ Present(f, M, j)
                           \/ \E p \in d.upserts : p.id = j /\ p.spec
                      /\ s.jobs[j].version <= d.revision =>
                           \/ ~d.reset /\ Right(s, f, M, j)
                           \/ \E p \in d.upserts : p.id = j /\ p.version = s.jobs[j].version
    BY DEF Covers
  <2>1. /\ Present(f, L, j) => Present(f, M, j)
        /\ Right(s, f, L, j) => Right(s, f, M, j)
    BY DEF Present, Right
  <2> QED
    BY <1>8, <2>1 DEF Covers
<1>9. Complete(s, u, f, q, M, b)
  <2>1. q # Unknown => Upto(s, f, M, q)
    BY <1>7 DEF Led, Complete
  <2>2. ASSUME NEW k \in DOMAIN b, IsDelta(b[k])
        PROVE  /\ ~b[k].answered /\ b[k].since # Unknown => Upto(s, f, M, b[k].since)
               /\ b[k].answered => /\ Covers(s, f, M, b[k].reply)
                                   /\ b[k].reply.removed \cap (Shown(s) \cup u) = {}
    <3>1. CASE k = n
      BY <1>1, <1>7, <2>2, <3>1 DEF Led, Complete
    <3>2. CASE k \in DOMAIN c
      BY <1>1, <1>7, <1>8, <2>2, <3>2 DEF Led, Complete
    <3> QED
      BY <1>1, <3>1, <3>2
  <2> QED
    BY <2>1, <2>2 DEF Complete
<1> QED
  BY <1>4, <1>5, <1>6, <1>9 DEF Led

\* The list changes, and what it had of the jobs shown it still has.
Keeps(s, f, L, h, M) ==
  \A j \in Shown(s) : /\ Present(f, L, j) => Present(h, M, j)
                      /\ Right(s, f, L, j) => Right(s, h, M, j)

\* What it was up to it is up to.
LEMMA UptoKept ==
  ASSUME NEW s, NEW f, NEW L, NEW h, NEW M, Keeps(s, f, L, h, M)
  PROVE  /\ \A r : Upto(s, f, L, r) => Upto(s, h, M, r)
         /\ \A d : Covers(s, f, L, d) => Covers(s, h, M, d)
<1>1. ASSUME NEW r, Upto(s, f, L, r) PROVE Upto(s, h, M, r)
  BY <1>1 DEF Upto, Keeps
<1>2. ASSUME NEW d, Covers(s, f, L, d) PROVE Covers(s, h, M, d)
  <2> SUFFICES ASSUME NEW j \in Shown(s)
               PROVE  /\ s.jobs[j].created <= d.revision =>
                           \/ ~d.reset /\ Present(h, M, j)
                           \/ \E p \in d.upserts : p.id = j /\ p.spec
                      /\ s.jobs[j].version <= d.revision =>
                           \/ ~d.reset /\ Right(s, h, M, j)
                           \/ \E p \in d.upserts : p.id = j /\ p.version = s.jobs[j].version
    BY DEF Covers
  <2> QED
    BY <1>2 DEF Covers, Keeps
<1> QED
  BY <1>1, <1>2

\* The first reply is taken.
LEMMA FirstTaken ==
  ASSUME NEW c \in Seq(Calls), 1 \in DOMAIN c, NEW b, b = RemoveAt(c, 1)
  PROVE  /\ DOMAIN b \subseteq Nat \ {0} /\ DOMAIN c \subseteq Nat \ {0} /\ b \in Seq(Calls)
         /\ \A k \in DOMAIN b : k + 1 \in DOMAIN c /\ b[k] = c[k + 1]
         /\ \A l \in DOMAIN c \ {1} : l - 1 \in DOMAIN b /\ b[l - 1] = c[l]
<1>1. /\ b \in Seq(Calls) /\ Len(b) = Len(c) - 1 /\ Len(c) \in Nat
      /\ DOMAIN c = 1..Len(c) /\ DOMAIN b = 1..Len(b)
      /\ \A k \in DOMAIN b : /\ k < 1 => k \in DOMAIN c /\ b[k] = c[k]
                             /\ k >= 1 => k + 1 \in DOMAIN c /\ b[k] = c[k + 1]
  BY DropFacts
<1>2. \A k \in DOMAIN b : k + 1 \in DOMAIN c /\ b[k] = c[k + 1]
  BY <1>1
<1>3. ASSUME NEW l \in DOMAIN c \ {1} PROVE l - 1 \in DOMAIN b /\ b[l - 1] = c[l]
  <2>1. l - 1 \in DOMAIN b /\ (l - 1) + 1 = l
    BY <1>1
  <2> QED
    BY <1>2, <2>1
<1> QED
  BY <1>1, <1>2, <1>3

\* The first reply is taken, and the list is what it and the reply make.
LEMMA LedTaken ==
  ASSUME NEW s, NEW u, NEW f, NEW r, NEW g, NEW L, NEW c, Fed(s, u, f, r, g, L, c),
         1 \in DOMAIN c, NEW b, b = RemoveAt(c, 1),
         NEW h, NEW q, NEW M,
         \A j : j \in DOMAIN h \/ j \in M => Seen(f, L, c, j) \/ Names(c[1], j),
         Finished(h, M), Keeps(s, f, L, h, M), q # Unknown => Upto(s, h, M, q),
         Led(s, u, f, r, L, c)
  PROVE  Led(s, u, h, q, M, b)
<1>0. /\ c \in Seq(Calls) /\ DOMAIN b \subseteq Nat \ {0}
      /\ \A k \in DOMAIN b : k + 1 \in DOMAIN c /\ b[k] = c[k + 1]
      /\ \A j : Names(c[1], j) => j \in Jobs
      /\ \A j : Seen(f, L, c, j) => j \in Jobs
  <2>1. c \in Seq(Calls)
    BY DEF Fed, CallsOK
  <2> QED
    BY <2>1, FirstTaken, HeardFacts
<1>1. \A j : Seen(h, M, b, j) => Seen(f, L, c, j) \/ Names(c[1], j)
  <2> SUFFICES ASSUME NEW j, Seen(h, M, b, j) PROVE Seen(f, L, c, j) \/ Names(c[1], j)
    OBVIOUS
  <2>1. (\E k \in DOMAIN b : Clears(b[k], j)) => Seen(f, L, c, j)
    BY <1>0 DEF Seen
  <2> QED
    BY <2>1 DEF Seen
<1>2. Unheard(u, h, M, b)
  <2> SUFFICES ASSUME NEW i \in DOMAIN b, NEW j \in Jobs, Submits(b[i], j)
               PROVE  /\ ~Seen(h, M, b, j)
                      /\ \A k \in DOMAIN b : k < i =>
                           ~Names(b[k], j) /\ (~b[k].answered => j \in u)
    BY DEF Unheard
  <2>1. i + 1 \in DOMAIN c /\ Submits(c[i + 1], j) /\ 1 < i + 1
    BY <1>0
  <2>2. /\ ~Seen(f, L, c, j)
        /\ \A k \in DOMAIN c : k < i + 1 =>
             ~Names(c[k], j) /\ (~c[k].answered => j \in u)
    BY <2>1 DEF Led, Unheard
  <2>3. \A k \in DOMAIN b : k < i => k + 1 \in DOMAIN c /\ k + 1 < i + 1 /\ b[k] = c[k + 1]
    BY <1>0
  <2> QED
    BY <1>1, <2>1, <2>2, <2>3
<1>3. Gone(s, b)
  BY <1>0 DEF Led, Gone
<1>4. Informed(s, h, M, b)
  <2> SUFFICES ASSUME NEW k \in DOMAIN b, NEW j \in DOMAIN s.jobs, IsDelta(b[k]), b[k].answered
               PROVE  /\ Seen(h, M, b, j) => s.jobs[j].created <= b[k].reply.revision
                      /\ \A l \in DOMAIN b : l <= k /\ Names(b[l], j)
                                               => s.jobs[j].created <= b[k].reply.revision
    BY DEF Informed
  <2>1. k + 1 \in DOMAIN c /\ b[k] = c[k + 1] /\ 1 <= k + 1
    BY <1>0
  <2>2. /\ Seen(f, L, c, j) => s.jobs[j].created <= b[k].reply.revision
        /\ \A l \in DOMAIN c : l <= k + 1 /\ Names(c[l], j)
                                 => s.jobs[j].created <= b[k].reply.revision
    BY <2>1 DEF Led, Informed
  <2>3. \A l \in DOMAIN b : l <= k => l + 1 \in DOMAIN c /\ b[l] = c[l + 1] /\ l + 1 <= k + 1
    BY <1>0
  <2> QED
    BY <1>1, <2>1, <2>2, <2>3
<1>5. Complete(s, u, h, q, M, b)
  <2>1. ASSUME NEW k \in DOMAIN b, IsDelta(b[k])
        PROVE  /\ ~b[k].answered /\ b[k].since # Unknown => Upto(s, h, M, b[k].since)
               /\ b[k].answered => /\ Covers(s, h, M, b[k].reply)
                                   /\ b[k].reply.removed \cap (Shown(s) \cup u) = {}
    <3>1. k + 1 \in DOMAIN c /\ b[k] = c[k + 1]
      BY <1>0
    <3>2. /\ ~b[k].answered /\ b[k].since # Unknown => Upto(s, f, L, b[k].since)
          /\ b[k].answered => /\ Covers(s, f, L, b[k].reply)
                              /\ b[k].reply.removed \cap (Shown(s) \cup u) = {}
      BY <2>1, <3>1 DEF Led, Complete
    <3> QED
      BY <3>2, UptoKept
  <2> QED
    BY <2>1 DEF Complete
<1> QED
  BY <1>2, <1>3, <1>4, <1>5 DEF Led

\* Reports are applied: nothing that is told is newer than the store.
LEMMA KeepsApplied ==
  ASSUME NEW s, NEW u, StoreOK(s, u), NEW f, NEW r, NEW g, NEW L, WindowOK(s, u, f, r, g, L),
         NEW n, NEW P, Reported(s, u, P), NEW h, NEW m, Applied(f, n, P, h, m)
  PROVE  Keeps(s, f, L, h, L)
<1> SUFFICES ASSUME NEW j \in Shown(s)
             PROVE  /\ Present(f, L, j) => Present(h, L, j)
                    /\ Right(s, f, L, j) => Right(s, h, L, j)
  BY DEF Keeps
<1>1. DOMAIN f \subseteq DOMAIN h
  BY DEF Applied
<1>2. j \in DOMAIN s.jobs /\ s.jobs[j].version \in Nat
  BY StoreFields DEF StoreOK, Sound, Shown
<1>3. ASSUME j \in DOMAIN f, f[j].version = s.jobs[j].version
      PROVE  h[j].version = s.jobs[j].version
  <2>1. \/ h[j] = f[j]
        \/ \E p \in P : p.id = j /\ Told(f, p) /\ h[j].version = p.version
    BY <1>1, <1>3 DEF Applied
  <2>2. CASE \E p \in P : p.id = j /\ Told(f, p) /\ h[j].version = p.version
    <3>1. PICK p \in P : p.id = j /\ Told(f, p) /\ h[j].version = p.version
      BY <2>2
    <3>2. p.version >= f[j].version
      BY <1>3, <3>1 DEF Told
    <3>3. Coherent(s, u, j, p.version, p.state)
      BY <3>1 DEF Reported
    <3>4. p.version <= s.jobs[j].version /\ p.version \in 1..s.revision
      BY <1>2, <3>3 DEF Coherent
    <3> QED
      BY <1>2, <1>3, <3>1, <3>2, <3>4
  <2> QED
    BY <1>3, <2>1, <2>2
<1> QED
  BY <1>1, <1>3 DEF Present, Right

\* A delta that is applied brings the list up to its revision, and takes nothing
\* that is shown: the window has heard of no job the delta does not know.
\* [jobs.svelte.ts applySnapshotDelta]
LEMMA DeltaLed ==
  ASSUME Feed, Led(store, unused, tasks, snapshotRevision, locallyDismissed, calls),
         1 \in DOMAIN calls, calls[1].answered, IsDelta(calls[1]), NEW d, d = calls[1].reply,
         NEW h, h = Reconciled(d).tasks, NEW M, M = StillDismissed(d)
  PROVE  /\ \A j : j \in DOMAIN h \/ j \in M =>
              Seen(tasks, locallyDismissed, calls, j) \/ Names(calls[1], j)
         /\ Finished(h, M)
         /\ Keeps(store, tasks, locallyDismissed, h, M)
         /\ Upto(store, h, M, d.revision)
<1> DEFINE L == locallyDismissed
           D == Kept(d)
           k == Restrict(tasks, Kept(d))
           P == Decoded(d)
           told == {p.id : p \in d.upserts}
<1>0. /\ Fed(store, unused, tasks, snapshotRevision, snapshotGeneration, L, calls)
      /\ CallOK(store, unused, calls[1])
  BY DEF Feed, Fed, CallsOK
<1>1. /\ d \in Deltas /\ Single(d.upserts) /\ Reported(store, unused, d.upserts)
      /\ Brought(calls[1]) = d.upserts
  BY <1>0 DEF CallOK, AnswerOK, Brought
<1>2. /\ DOMAIN k = D /\ D \in SUBSET DOMAIN tasks
      /\ \A j \in D : k[j] = tasks[j]
      /\ P \subseteq d.upserts /\ Applied(k, ran, P, h, Reconciled(d).ran)
  BY <1>1, ReconciledFacts
<1>3. /\ \A j \in DOMAIN tasks : j \in D <=>
           /\ j \notin d.removed
           /\ d.reset /\ tasks[j].version <= d.revision => j \in told /\ j \notin M
      /\ \A p \in d.upserts : p \in P <=> Told(tasks, p) /\ p.id \notin M
      /\ \A j : j \in M <=> /\ j \in L /\ j \notin d.removed
                            /\ d.reset => j \in told
  BY DEF Kept, Survives, Decoded, StillDismissed
<1>4. Finished(tasks, L) /\ Covers(store, tasks, L, d)
      /\ d.removed \cap (Shown(store) \cup unused) = {}
  BY DEF Led, Complete
<1>5. \A j \in DOMAIN store.jobs : Seen(tasks, L, calls, j) => store.jobs[j].created <= d.revision
  BY DEF Led, Informed
<1>6. /\ Shown(store) \subseteq DOMAIN store.jobs /\ d.revision \in Nat
      /\ \A j \in DOMAIN store.jobs : /\ store.jobs[j].version \in Nat
                                      /\ store.jobs[j].created \in Nat
                                      /\ store.jobs[j].created <= store.jobs[j].version
  BY <1>0, <1>1, HeardFacts DEF Deltas
<1> HIDE DEF L, D, k, P, told
<1>7. /\ DOMAIN k \subseteq DOMAIN h
      /\ \A j \in DOMAIN h :
           \/ j \in D /\ h[j] = k[j]
           \/ \E p \in P : p.id = j /\ Told(k, p) /\ h[j].version = p.version /\ h[j].state = p.state
      /\ \A p \in P : Told(k, p) => p.id \in DOMAIN h /\ h[p.id].version = p.version
  BY <1>2 DEF Applied
<1>8. ASSUME NEW j, j \in DOMAIN h \/ j \in M
      PROVE  Seen(tasks, L, calls, j) \/ Names(calls[1], j)
  <2>1. CASE j \in DOMAIN h
    BY <1>1, <1>2, <1>7, <2>1 DEF Seen, Names
  <2>2. CASE j \in M
    BY <1>3, <2>2 DEF Seen
  <2> QED
    BY <1>8, <2>1, <2>2
<1>9. Finished(h, M)
  <2> SUFFICES ASSUME NEW j \in M, j \in DOMAIN h PROVE Terminal(h[j].state)
    BY DEF Finished
  <2>1. \A p \in P : p.id # j
    BY <1>2, <1>3
  <2>2. j \in D /\ h[j] = tasks[j]
    BY <1>2, <1>7, <2>1
  <2> QED
    BY <1>2, <1>3, <1>4, <2>2 DEF Finished
<1>10. ASSUME NEW j \in Shown(store)
       PROVE  /\ j \notin d.removed /\ j \in DOMAIN store.jobs
              /\ j \in DOMAIN tasks => store.jobs[j].created <= d.revision
              /\ j \in L => store.jobs[j].created <= d.revision
  BY <1>4, <1>5, <1>6 DEF Seen
<1>11. ASSUME NEW j \in Shown(store), store.jobs[j].created <= d.revision
       PROVE  (~d.reset /\ Present(tasks, L, j)) \/ \E p \in d.upserts : p.id = j /\ p.spec
  BY <1>4, <1>11 DEF Covers
\* A job shown that the delta knows stays in the list, with what the list had.
<1>12. ASSUME NEW j \in Shown(store), store.jobs[j].created <= d.revision
       PROVE  /\ j \in L => j \in M
              /\ j \in DOMAIN tasks /\ j \notin M => j \in D
              /\ j \notin M /\ j \notin DOMAIN tasks => \E p \in d.upserts : p.id = j /\ p.spec
  <2>1. \/ ~d.reset /\ Present(tasks, L, j)
        \/ j \in told /\ \E p \in d.upserts : p.id = j /\ p.spec
    BY <1>11, <1>12 DEF told
  <2>2. j \notin d.removed
    BY <1>10
  <2>3. j \in L => j \in M
    BY <1>3, <2>1, <2>2
  <2>4. j \in DOMAIN tasks /\ j \notin M => j \in D
    BY <1>3, <2>1, <2>2
  <2>5. j \notin M /\ j \notin DOMAIN tasks => \E p \in d.upserts : p.id = j /\ p.spec
    BY <2>1, <2>3 DEF Present
  <2> QED
    BY <2>3, <2>4, <2>5
\* A report that is not older than the store's record is applied.
<1>13. ASSUME NEW p \in d.upserts, p.id \in Shown(store), p.id \notin M,
              p.version = store.jobs[p.id].version \/ p.id \notin DOMAIN tasks,
              p.id \in DOMAIN tasks => p.id \in D,
              p.id \notin DOMAIN tasks => p.spec
       PROVE  p.id \in DOMAIN h /\ h[p.id].version = p.version
  <2>1. Told(tasks, p) /\ Told(k, p)
    <3>1. CASE p.id \in DOMAIN tasks
      <4>1. /\ Coherent(store, unused, p.id, p.version, p.state)
            /\ Coherent(store, unused, p.id, tasks[p.id].version, tasks[p.id].state)
        BY <1>0, <1>1, <3>1 DEF Reported, Fed, WindowOK, Listed
      <4>2. /\ p.id \in DOMAIN store.jobs /\ p.version = store.jobs[p.id].version
            /\ tasks[p.id].version <= store.jobs[p.id].version
            /\ tasks[p.id].version \in Nat /\ p.version \in Nat
        BY <1>6, <1>13, <3>1, <4>1 DEF Coherent
      <4>3. Terminal(tasks[p.id].state) => Terminal(p.state)
        BY <1>13, <4>1, <4>2 DEF Coherent
      <4>4. p.id \in D /\ k[p.id] = tasks[p.id] /\ DOMAIN k = D
        BY <1>2, <1>13, <3>1
      <4> QED
        BY <3>1, <4>2, <4>3, <4>4 DEF Told
    <3>2. CASE p.id \notin DOMAIN tasks
      BY <1>2, <1>13, <3>2 DEF Told
    <3> QED
      BY <3>1, <3>2
  <2>2. p \in P
    BY <1>3, <1>13, <2>1
  <2> QED
    BY <1>7, <2>1, <2>2
<1>14. ASSUME NEW j \in Shown(store), store.jobs[j].created <= d.revision
       PROVE  Present(h, M, j)
  <2>1. CASE j \in M
    BY <2>1 DEF Present
  <2>2. CASE j \notin M /\ j \in DOMAIN tasks
    BY <1>2, <1>7, <1>12, <1>14, <2>2 DEF Present
  <2>3. CASE j \notin M /\ j \notin DOMAIN tasks
    <3>1. PICK p \in d.upserts : p.id = j /\ p.spec
      BY <1>12, <1>14, <2>3
    <3> QED
      BY <1>13, <2>3, <3>1 DEF Present
  <2> QED
    BY <2>1, <2>2, <2>3
<1>15. ASSUME NEW j \in D, j \in Shown(store), tasks[j].version = store.jobs[j].version
       PROVE  j \in DOMAIN h /\ h[j].version = store.jobs[j].version
  <2>1. j \in DOMAIN h /\ k[j] = tasks[j] /\ j \in DOMAIN k
    BY <1>2, <1>7
  <2>2. CASE h[j] = k[j]
    BY <1>15, <2>1, <2>2
  <2>3. ASSUME NEW p \in P, p.id = j, Told(k, p), h[j].version = p.version
        PROVE  h[j].version = store.jobs[j].version
    <3>1. p.version >= tasks[j].version
      BY <2>1, <2>3 DEF Told
    <3>2. Coherent(store, unused, j, p.version, p.state)
      BY <1>1, <1>2, <2>3 DEF Reported
    <3>3. /\ j \in DOMAIN store.jobs /\ store.jobs[j].version \in Nat
          /\ p.version \in 1..store.revision /\ store.revision \in Nat
          /\ p.version <= store.jobs[j].version
      BY <1>1, <1>6, <1>15, <3>2 DEF Coherent, Feed, StoreOK, Sound, Stores
    <3> QED
      BY <1>15, <2>3, <3>1, <3>3
  <2> QED
    BY <1>7, <2>1, <2>2, <2>3
<1>16. Keeps(store, tasks, L, h, M)
  <2> SUFFICES ASSUME NEW j \in Shown(store)
               PROVE  /\ Present(tasks, L, j) => Present(h, M, j)
                      /\ Right(store, tasks, L, j) => Right(store, h, M, j)
    BY DEF Keeps
  <2>1. Present(tasks, L, j) => store.jobs[j].created <= d.revision
    BY <1>10 DEF Present
  <2>2. Right(store, tasks, L, j) => Present(tasks, L, j)
    BY DEF Right, Present
  <2>3. ASSUME Right(store, tasks, L, j) PROVE Right(store, h, M, j)
    <3>1. CASE j \in M
      BY <3>1 DEF Right
    <3>2. CASE j \notin M
      <4>1. j \in D /\ tasks[j].version = store.jobs[j].version
        BY <1>12, <2>1, <2>2, <2>3, <3>2 DEF Right
      <4> QED
        BY <1>15, <4>1 DEF Right
    <3> QED
      BY <3>1, <3>2
  <2> QED
    BY <1>14, <2>1, <2>3
<1>17. Upto(store, h, M, d.revision)
  <2> SUFFICES ASSUME NEW j \in Shown(store), store.jobs[j].version <= d.revision
               PROVE  Right(store, h, M, j)
    BY <1>14 DEF Upto
  <2>1. store.jobs[j].created <= d.revision
    BY <1>6
  <2>2. \/ ~d.reset /\ Right(store, tasks, L, j)
        \/ \E p \in d.upserts : p.id = j /\ p.version = store.jobs[j].version
    BY <1>4 DEF Covers
  <2>3. CASE Right(store, tasks, L, j)
    BY <1>16, <2>3 DEF Keeps
  <2>4. CASE j \in M
    BY <2>4 DEF Right
  <2>5. ASSUME NEW p \in d.upserts, p.id = j, p.version = store.jobs[j].version, j \notin M
        PROVE  Right(store, h, M, j)
    <3>1. j \in DOMAIN tasks => j \in D
      BY <1>12, <2>1, <2>5
    <3>2. j \notin DOMAIN tasks => p.spec
      BY <1>1, <1>12, <2>1, <2>5 DEF Single
    <3> QED
      BY <1>13, <2>5, <3>1, <3>2 DEF Right
  <2> QED
    BY <2>2, <2>3, <2>4, <2>5
<1> QED
  BY <1>8, <1>9, <1>16, <1>17 DEF L

Ahead == Led(store, unused, tasks, snapshotRevision, locallyDismissed, calls)

\* At the start the window has heard of nothing.
LEMMA AheadInit == Init => Ahead
<1> SUFFICES ASSUME Init PROVE Ahead
  OBVIOUS
<1>1. /\ tasks = <<>> /\ snapshotRevision = Unknown /\ calls = <<>> /\ DOMAIN calls = {}
      /\ DOMAIN tasks = {}
  BY DEF Init
<1>2. Unheard(unused, tasks, locallyDismissed, calls) /\ Finished(tasks, locallyDismissed)
  BY <1>1 DEF Unheard, Finished
<1>3. Gone(store, calls) /\ Informed(store, tasks, locallyDismissed, calls)
  BY <1>1 DEF Gone, Informed
<1>4. Complete(store, unused, tasks, snapshotRevision, locallyDismissed, calls)
  BY <1>1 DEF Complete
<1> QED
  BY <1>2, <1>3, <1>4 DEF Ahead, Led

\* The backend works while the window waits.
LEMMA WorkedAhead ==
  ASSUME Feed, Ahead, NEW new, Worked(new)
  PROVE  Ahead'
<1>1. /\ new \in SUBSET unused /\ unused' = unused \ new /\ StoreOK(store', unused \ new)
      /\ Grown(store, store', new)
      /\ tasks' = tasks /\ snapshotRevision' = snapshotRevision
      /\ locallyDismissed' = locallyDismissed /\ calls' = calls
  BY DEF Worked, Feed, client
<1>2. \A j \in new \cap Mine : \E i \in DOMAIN calls :
        calls[i].kind = "submit" /\ calls[i].ids = {j} /\ \A k \in 1..(i - 1) : calls[k].answered
  BY DEF Worked, Turn
<1>3. Fed(store, unused, tasks, snapshotRevision, snapshotGeneration, locallyDismissed, calls)
  BY DEF Feed, Fed
<1>4. Led(store, unused, tasks, snapshotRevision, locallyDismissed, calls)
  BY DEF Ahead
<1>5. Led(store', unused \ new, tasks, snapshotRevision, locallyDismissed, calls)
  BY <1>1, <1>2, <1>3, <1>4, LedGrown
<1> QED
  BY <1>1, <1>5 DEF Ahead

\* A reply is on its way: nothing else has changed.
LEMMA ReplyAhead ==
  ASSUME Feed, Ahead, Feed', NEW i \in DOMAIN calls, NEW reply \in Replies, Reply(i, reply),
         \A k \in 1..(i - 1) : calls[k].answered, ~calls[i].answered,
         Grown(store, store', {}),
         IsDelta(calls[i]) => /\ store' = store /\ reply.revision = store.revision
                              /\ Covers(store, tasks, locallyDismissed, reply)
                              /\ reply.removed \cap (Shown(store) \cup unused) = {},
         calls[i].kind = "dismiss" /\ calls'[i].reply => calls[i].ids \cap Shown(store') = {}
  PROVE  Ahead'
<1> DEFINE none == {}
<1>1. /\ unused' = unused /\ tasks' = tasks /\ snapshotRevision' = snapshotRevision
      /\ snapshotGeneration' = snapshotGeneration /\ locallyDismissed' = locallyDismissed
      /\ calls' = Replied(calls, i, reply)
  BY DEF Reply, client, Replied
<1>2. /\ none \in SUBSET unused /\ unused \ none = unused /\ Grown(store, store', none)
      /\ StoreOK(store, unused) /\ StoreOK(store', unused \ none)
      /\ \A j \in none \cap Mine : \E k \in DOMAIN calls :
           calls[k].kind = "submit" /\ calls[k].ids = {j} /\ \A l \in 1..(k - 1) : calls[l].answered
  BY <1>1 DEF Feed
<1> HIDE DEF none
<1>3. Fed(store, unused, tasks, snapshotRevision, snapshotGeneration, locallyDismissed, calls)
  BY DEF Feed, Fed
<1>4. Led(store, unused, tasks, snapshotRevision, locallyDismissed, calls)
  BY DEF Ahead
<1>5. Led(store', unused \ none, tasks, snapshotRevision, locallyDismissed, calls)
  BY <1>2, <1>3, <1>4, LedGrown
<1>6. Fed(store', unused, tasks, snapshotRevision, snapshotGeneration, locallyDismissed, calls)
  <2>1. WindowOK(store', unused \ none, tasks, snapshotRevision, snapshotGeneration, locallyDismissed)
    BY <1>2, WindowGrown DEF Feed
  <2>2. CallsOK(store', unused \ none, calls)
    BY <1>2, CallsGrown DEF Feed
  <2> QED
    BY <1>2, <2>1, <2>2 DEF Fed
<1>7. Fed(store', unused, tasks, snapshotRevision, snapshotGeneration, locallyDismissed, calls')
  BY <1>1 DEF Feed, Fed
<1>8. IsDelta(calls[i]) => /\ reply.revision = store'.revision
                           /\ Covers(store', tasks, locallyDismissed, reply)
                           /\ reply.removed \cap (Shown(store') \cup unused) = {}
  OBVIOUS
<1>9. Led(store', unused, tasks, snapshotRevision, locallyDismissed, calls)
  BY <1>2, <1>5
<1>10. Led(store', unused, tasks, snapshotRevision, locallyDismissed, calls')
  BY <1>1, <1>6, <1>7, <1>8, <1>9, LedAnswered
<1> QED
  BY <1>1, <1>10 DEF Ahead

\* What the list has up to the revision asked from, and what the delta brings,
\* is all that is shown.  [snapshots.rs list_since]
LEMMA DeltaCovers ==
  ASSUME StoreOK(store, unused), NEW since \in Nat \cup {Unknown}, NEW d, d = Delta(since),
         NEW f, NEW L, since # Unknown => Upto(store, f, L, since)
  PROVE  Covers(store, f, L, d)
<1>1. /\ ~d.reset => since # Unknown
      /\ \A p \in d.upserts : /\ p.id \in Shown(store)
                              /\ p.version = store.jobs[p.id].version
      /\ \A j \in Shown(store) :
           /\ (d.reset \/ store.jobs[j].version > since) => \E p \in d.upserts : p.id = j
           /\ (d.reset \/ store.jobs[j].created > since)
                => \A p \in d.upserts : p.id = j => p.spec
  BY DeltaFacts
<1>2. \A j \in Shown(store) : /\ store.jobs[j].version \in Nat /\ store.jobs[j].created \in Nat
                              /\ store.jobs[j].created <= store.jobs[j].version
  BY StoreFields DEF StoreOK, Sound, Shown
<1> SUFFICES ASSUME NEW j \in Shown(store)
             PROVE  /\ \/ ~d.reset /\ Present(f, L, j)
                       \/ \E p \in d.upserts : p.id = j /\ p.spec
                    /\ \/ ~d.reset /\ Right(store, f, L, j)
                       \/ \E p \in d.upserts : p.id = j /\ p.version = store.jobs[j].version
  BY DEF Covers
<1>3. CASE d.reset
  BY <1>1, <1>3
<1>4. CASE ~d.reset
  <2>1. since \in Nat /\ Upto(store, f, L, since)
    BY <1>1, <1>4
  <2>2. Present(f, L, j) \/ \E p \in d.upserts : p.id = j /\ p.spec
    <3>1. CASE store.jobs[j].created <= since
      BY <2>1, <3>1 DEF Upto
    <3>2. CASE store.jobs[j].created > since
      <4>1. store.jobs[j].version > since
        BY <1>2, <2>1, <3>2
      <4> QED
        BY <1>1, <3>2, <4>1
    <3> QED
      BY <1>2, <2>1, <3>1, <3>2
  <2>3. Right(store, f, L, j) \/ \E p \in d.upserts : p.id = j /\ p.version = store.jobs[j].version
    <3>1. CASE store.jobs[j].version <= since
      BY <2>1, <3>1 DEF Upto
    <3>2. CASE store.jobs[j].version > since
      BY <1>1, <3>2
    <3> QED
      BY <1>2, <2>1, <3>1, <3>2
  <2> QED
    BY <1>4, <2>2, <2>3
<1> QED
  BY <1>3, <1>4

\* The backend's replies.
LEMMA AnswerAhead ==
  ASSUME Feed, Ahead, NEW i \in DOMAIN calls, Answer(i)
  PROVE  Ahead'
<1>0. /\ StoreOK(store, unused) /\ calls \in Seq(Calls) /\ CallOK(store, unused, calls[i])
      /\ calls[i] \in Calls /\ store \in Stores /\ calls[i].ids \in SUBSET Jobs
  BY DEF Feed, CallsOK, CallOK, Calls, StoreOK, Sound
<1>1. Feed'
  BY AnswerKeeps
<1>2. ASSUME NEW kind, Turn(i, kind)
      PROVE  calls[i].kind = kind /\ ~calls[i].answered /\ \A k \in 1..(i - 1) : calls[k].answered
  BY <1>2 DEF Turn
<1>3. Grown(store, store, {})
  BY <1>0, GrownSelf
<1>11. ASSUME NEW reply \in Replies, Reply(i, reply)
       PROVE  calls'[i].reply = reply
  <2>1. calls' = Replied(calls, i, reply)
    BY <1>11 DEF Reply, Replied
  <2> QED
    BY <1>0, <2>1, AnsweredFacts
<1>4. ASSUME NEW reply \in Replies, Reply(i, reply), store' = store,
             ~IsDelta(calls[i]), calls[i].kind # "dismiss", ~calls[i].answered,
             \A k \in 1..(i - 1) : calls[k].answered
      PROVE  Ahead'
  <2>1. Grown(store, store', {})
    BY <1>3, <1>4
  <2> QED
    BY <1>1, <1>4, <2>1, ReplyAhead
<1>5. ASSUME NEW j \in calls[i].ids, Looks(calls[i]), Reply(i, Looked(j)), store' = store,
             ~calls[i].answered, \A k \in 1..(i - 1) : calls[k].answered
      PROVE  Ahead'
  <2>1. Looked(j) \in SUBSET Reports
    BY <1>0, LookedFacts
  <2>2. Looked(j) \in Replies /\ ~IsDelta(calls[i]) /\ calls[i].kind # "dismiss"
    BY <1>5, <2>1 DEF Replies, IsDelta, Looks
  <2> QED
    BY <1>4, <1>5, <2>2
<1>6. CASE AnswerSubmit(i)
  <2>1. PICK j \in calls[i].ids \ unused : Reply(i, Looked(j))
    BY <1>6 DEF AnswerSubmit
  <2>2. Looks(calls[i]) /\ store' = store /\ ~calls[i].answered /\ \A k \in 1..(i - 1) : calls[k].answered
    BY <1>2, <1>6 DEF AnswerSubmit, Looks
  <2> QED
    BY <1>5, <2>1, <2>2
<1>7. CASE AnswerSnapshot(i)
  <2>1. PICK j \in calls[i].ids : Reply(i, Looked(j))
    BY <1>7 DEF AnswerSnapshot
  <2>2. Looks(calls[i]) /\ store' = store /\ ~calls[i].answered /\ \A k \in 1..(i - 1) : calls[k].answered
    BY <1>2, <1>7 DEF AnswerSnapshot, Looks
  <2> QED
    BY <1>5, <2>1, <2>2
<1>8. CASE AnswerSnapshots(i)
  <2> DEFINE d == Delta(calls[i].since)
  <2>1. IsDelta(calls[i]) /\ store' = store /\ Reply(i, d) /\ ~calls[i].answered
        /\ \A k \in 1..(i - 1) : calls[k].answered
    BY <1>2, <1>8 DEF AnswerSnapshots, IsDelta
  <2>2. calls[i].since \in Nat \cup {Unknown}
    BY <1>0 DEF Calls
  <2>3. /\ d \in Deltas /\ d.revision = store.revision
        /\ d.removed \cap Shown(store) = {} /\ d.removed \cap unused = {}
    BY <1>0, <2>2, DeltaFacts
  <2>4. calls[i].since # Unknown => Upto(store, tasks, locallyDismissed, calls[i].since)
    BY <2>1 DEF Ahead, Led, Complete
  <2>5. Covers(store, tasks, locallyDismissed, d)
    BY <1>0, <2>2, <2>4, DeltaCovers
  <2> HIDE DEF d
  <2>6. d \in Replies /\ Grown(store, store', {}) /\ d.removed \cap (Shown(store) \cup unused) = {}
        /\ calls[i].kind # "dismiss"
    BY <1>3, <2>1, <2>3 DEF Replies, IsDelta
  <2> QED
    BY <1>1, <2>1, <2>3, <2>5, <2>6, ReplyAhead
<1>9. CASE AnswerMove(i)
  <2>1. PICK moved \in {calls[i].ids \subseteq InState("queued"), FALSE} : Reply(i, moved)
    BY <1>9 DEF AnswerMove
  <2>2. moved \in Replies
    BY DEF Replies
  <2>3. ~IsDelta(calls[i]) /\ calls[i].kind # "dismiss" /\ store' = store /\ ~calls[i].answered
        /\ \A k \in 1..(i - 1) : calls[k].answered
    BY <1>2, <1>9 DEF AnswerMove, IsDelta
  <2> QED
    BY <1>4, <2>1, <2>2, <2>3
<1>10. CASE AnswerDismiss(i)
  <2>1. calls[i].kind = "dismiss" /\ ~IsDelta(calls[i]) /\ ~calls[i].answered
        /\ \A k \in 1..(i - 1) : calls[k].answered
    BY <1>2, <1>10 DEF AnswerDismiss, IsDelta
  <2>2. TRUE \in Replies /\ FALSE \in Replies
    BY DEF Replies
  <2>3. CASE calls[i].ids \subseteq InState("done")
    <3>1. /\ store' = Dismissed(store, "main", calls[i].ids) /\ Reply(i, TRUE)
          /\ calls[i].ids \in SUBSET DoneIn(store) /\ "main" \in Windows
      BY <1>10, <2>3 DEF AnswerDismiss, InState, Known, DoneIn, Terminal, Windows
    <3>2. Grown(store, store', {}) /\ calls[i].ids \cap Shown(store') = {}
      BY <1>0, <3>1, DismissedFacts
    <3> QED
      BY <1>1, <2>1, <2>2, <3>1, <3>2, ReplyAhead
  <2>4. CASE ~(calls[i].ids \subseteq InState("done"))
    <3>1. store' = store /\ Reply(i, FALSE) /\ Grown(store, store', {})
      BY <1>3, <1>10, <2>4 DEF AnswerDismiss
    <3>2. calls'[i].reply = FALSE
      BY <1>11, <2>2, <3>1
    <3> QED
      BY <1>1, <2>1, <2>2, <3>1, <3>2, ReplyAhead
  <2> QED
    BY <2>3, <2>4
<1> QED
  BY <1>6, <1>7, <1>8, <1>9, <1>10 DEF Answer

\* The window's commands.
LEMMA WindowAhead ==
  ASSUME Feed, Ahead, Window
  PROVE  Ahead'
<1>0. /\ Fed(store, unused, tasks, snapshotRevision, snapshotGeneration, locallyDismissed, calls)
      /\ Led(store, unused, tasks, snapshotRevision, locallyDismissed, calls)
      /\ Finished(tasks, locallyDismissed) /\ Mine \subseteq Jobs
      /\ \A j \in DOMAIN tasks : j \in Jobs \ unused
  BY FeedAssumption DEF Feed, Fed, Ahead, Led, WindowOK, Listed, Coherent
<1>1. ASSUME NEW kind \in Kinds, NEW ids \in SUBSET Jobs, Send(Call(kind, ids)),
             kind \in {"submit", "refresh"} => \E j \in Mine : ids = {j},
             kind # "submit" => ids \cap unused = {},
             kind = "submit" => ids \subseteq unused,
             kind = "dismiss" => \A j \in ids : j \in DOMAIN tasks /\ Terminal(tasks[j].state),
             NEW q, NEW M, q = snapshotRevision \/ q = Unknown,
             locallyDismissed \subseteq M, M \subseteq locallyDismissed \cup DOMAIN tasks,
             Finished(tasks, M)
      PROVE  Led(store, unused, tasks, q, M, calls') /\ store' = store /\ unused' = unused
  <2> DEFINE x == Call(kind, ids)
  <2>1. /\ CallOK(store, unused, x) /\ x.kind = kind /\ x.ids = ids /\ ~x.answered
        /\ x.since = IF kind \in {"poll", "delta"} THEN snapshotRevision ELSE Unknown
    BY <1>1, CallFacts
  <2>2. calls' = Append(calls, x) /\ UNCHANGED <<store, unused>>
    BY <1>1 DEF Send
  <2> HIDE DEF x
  <2>3. /\ x.kind = "submit" => x.ids \subseteq unused
        /\ x.kind = "dismiss" => x.ids \subseteq DOMAIN tasks
        /\ IsDelta(x) => x.since \in {snapshotRevision, Unknown}
    BY <1>1, <2>1 DEF IsDelta
  <2>4. Led(store, unused, tasks, q, M, calls')
    BY <1>0, <1>1, <2>1, <2>2, <2>3, LedSent
  <2> QED
    BY <2>2, <2>4
<1>2. ASSUME UNCHANGED client, store' = store, unused' = unused,
             Led(store, unused, tasks, snapshotRevision, locallyDismissed, calls')
      PROVE  Ahead'
  BY <1>2 DEF Ahead, client
<1>3. CASE Poll
  <2>1. Send(Call("poll", {})) /\ UNCHANGED client /\ "poll" \in Kinds /\ {} \in SUBSET Jobs
    BY <1>3 DEF Poll, Kinds
  <2> QED
    BY <1>0, <1>1, <1>2, <2>1
<1>4. ASSUME NEW j \in Jobs, submitJob(j)
      PROVE  Ahead'
  <2>1. /\ Send(Call("submit", {j})) /\ UNCHANGED client /\ "submit" \in Kinds /\ {j} \in SUBSET Jobs
        /\ j \in Mine /\ {j} \subseteq unused
    BY <1>4 DEF submitJob, Kinds
  <2> QED
    BY <1>0, <1>1, <1>2, <2>1
<1>5. ASSUME NEW j \in Jobs, requestQueueMove(j)
      PROVE  Ahead'
  <2>1. /\ Send(Call("move", {j})) /\ UNCHANGED client /\ "move" \in Kinds /\ {j} \in SUBSET Jobs
        /\ {j} \cap unused = {}
    BY <1>0, <1>5 DEF requestQueueMove, Kinds
  <2> QED
    BY <1>0, <1>1, <1>2, <2>1
<1>6. ASSUME NEW j \in Jobs, refreshQuestionTask(j)
      PROVE  Ahead'
  <2>1. /\ Send(Call("refresh", {j})) /\ UNCHANGED client /\ "refresh" \in Kinds /\ {j} \in SUBSET Jobs
        /\ {j} \cap unused = {} /\ j \in Mine
    BY <1>0, <1>6 DEF refreshQuestionTask, Kinds
  <2> QED
    BY <1>0, <1>1, <1>2, <2>1
<1>7. ASSUME NEW ids \in SUBSET DOMAIN tasks, clearFinished(ids)
      PROVE  Ahead'
  <2>1. /\ Send(Call("dismiss", ids)) /\ "dismiss" \in Kinds /\ ids \in SUBSET Jobs
        /\ ids \cap unused = {}
        /\ \A j \in ids : j \in DOMAIN tasks /\ Terminal(tasks[j].state)
        /\ locallyDismissed' = locallyDismissed \cup ids
        /\ snapshotRevision' = Unknown /\ tasks' = tasks
    BY <1>0, <1>7 DEF clearFinished, Kinds
  <2> DEFINE M == locallyDismissed \cup ids
  <2>2. /\ Finished(tasks, M) /\ locallyDismissed \subseteq M
        /\ M \subseteq locallyDismissed \cup DOMAIN tasks
    BY <1>0, <2>1 DEF Finished
  <2> HIDE DEF M
  <2>3. Led(store, unused, tasks, Unknown, M, calls') /\ store' = store /\ unused' = unused
    BY <1>1, <2>1, <2>2
  <2> QED
    BY <2>1, <2>3 DEF Ahead, M
<1> QED
  BY <1>3, <1>4, <1>5, <1>6, <1>7 DEF Window

\* A reply about one job is applied: no row is made of what is being cleared.
LEMMA ReportsTaken ==
  ASSUME NEW s, NEW u, NEW f, NEW r, NEW g, NEW L, NEW c, Fed(s, u, f, r, g, L, c),
         1 \in DOMAIN c, NEW b, b = RemoveAt(c, 1), NEW P, Reported(s, u, P),
         \A p \in P : Names(c[1], p.id) /\ (p.id \in L => p.id \in DOMAIN f),
         NEW n, NEW m, NEW h, Applied(f, n, P, h, m),
         NEW z, DOMAIN z = DOMAIN h,
         \A j \in DOMAIN h : z[j].version = h[j].version /\ z[j].state = h[j].state,
         Led(s, u, f, r, L, c)
  PROVE  Led(s, u, z, r, L, b)
<1>1. /\ DOMAIN f \subseteq DOMAIN h
      /\ \A j \in DOMAIN h :
           \/ j \in DOMAIN f /\ h[j] = f[j]
           \/ \E p \in P : /\ p.id = j /\ Told(f, p)
                           /\ h[j].version = p.version /\ h[j].state = p.state
  BY DEF Applied
<1>2. \A j : j \in DOMAIN z \/ j \in L => Seen(f, L, c, j) \/ Names(c[1], j)
  BY <1>1 DEF Seen
<1>3. Finished(z, L)
  <2> SUFFICES ASSUME NEW j \in L, j \in DOMAIN z PROVE Terminal(h[j].state)
    BY DEF Finished
  <2>1. j \in DOMAIN f /\ Terminal(f[j].state)
    BY <1>1 DEF Led, Finished
  <2> QED
    BY <1>1, <2>1 DEF Told
<1>4. Keeps(s, f, L, h, L)
  BY KeepsApplied DEF Fed
<1>5. Keeps(s, f, L, z, L)
  BY <1>4 DEF Keeps, Present, Right
<1>6. r # Unknown => Upto(s, z, L, r)
  BY <1>5, UptoKept DEF Led, Complete
<1> QED
  BY <1>2, <1>3, <1>5, <1>6, LedTaken

\* The window is where it was, without the reply.
LEMMA NothingTaken ==
  ASSUME NEW s, NEW u, NEW f, NEW r, NEW g, NEW L, NEW c, Fed(s, u, f, r, g, L, c),
         1 \in DOMAIN c, NEW b, b = RemoveAt(c, 1), Led(s, u, f, r, L, c)
  PROVE  Led(s, u, f, r, L, b)
<1>1. /\ Finished(f, L) /\ Keeps(s, f, L, f, L) /\ (r # Unknown => Upto(s, f, L, r))
      /\ \A j : j \in DOMAIN f \/ j \in L => Seen(f, L, c, j) \/ Names(c[1], j)
  BY DEF Led, Complete, Keeps, Seen
<1> QED
  BY <1>1, LedTaken

\* Replies that carry the job they are about.
LEMMA LookAhead ==
  ASSUME Feed, Ahead, 1 \in DOMAIN calls, SubmitReturns(1) \/ RefreshReturns(1)
  PROVE  Ahead'
<1> DEFINE b == RemoveAt(calls, 1)
           P == calls[1].reply
<1>0. /\ Fed(store, unused, tasks, snapshotRevision, snapshotGeneration, locallyDismissed, calls)
      /\ Led(store, unused, tasks, snapshotRevision, locallyDismissed, calls)
      /\ tasks \in Rows /\ ran \in [Jobs -> Nat]
  BY DEF Feed, Fed, Ahead, WindowOK, Onces
<1>1. /\ calls[1].answered /\ calls[1].kind \in {"submit", "refresh"} /\ calls' = b
      /\ store' = store /\ unused' = unused
  BY DEF SubmitReturns, RefreshReturns, Arrives
<1>2. CallOK(store, unused, calls[1]) /\ AnswerOK(store, unused, calls[1])
  BY <1>1 DEF Feed, CallsOK, CallOK
<1>3. /\ P \in SUBSET Reports /\ \A p \in P : calls[1].ids = {p.id}
      /\ Single(P) /\ Reported(store, unused, P) /\ Looks(calls[1]) /\ Brought(calls[1]) = P
  BY <1>1, <1>2 DEF AnswerOK, Brought, Looks, IsDelta
<1> HIDE DEF b
<1>4. ASSUME NEW Q \in SUBSET P, \A p \in Q : p.id \in locallyDismissed => p.id \in DOMAIN tasks,
             NEW w, w = applySnapshots([tasks |-> tasks, ran |-> ran], Q),
             NEW z, DOMAIN z = DOMAIN w.tasks,
             \A j \in DOMAIN w.tasks : /\ z[j].version = w.tasks[j].version
                                       /\ z[j].state = w.tasks[j].state
      PROVE  Led(store, unused, z, snapshotRevision, locallyDismissed, b)
  <2>1. Single(Q) /\ Q \in SUBSET Reports /\ Reported(store, unused, Q)
    BY <1>3 DEF Single, Reported
  <2>2. Applied(tasks, ran, Q, w.tasks, w.ran)
    BY <1>0, <1>4, <2>1, AppliedFacts
  <2>3. \A p \in Q : Names(calls[1], p.id) /\ (p.id \in locallyDismissed => p.id \in DOMAIN tasks)
    BY <1>3, <1>4 DEF Names
  <2>4. b = RemoveAt(calls, 1)
    BY DEF b
  <2> QED
    BY <1>0, <1>4, <2>1, <2>2, <2>3, <2>4, ReportsTaken
<1>5. CASE UNCHANGED client
  <2>1. Led(store, unused, tasks, snapshotRevision, locallyDismissed, b)
    BY <1>0, NothingTaken DEF b
  <2> QED
    BY <1>1, <1>5, <2>1 DEF Ahead, client
<1>6. CASE RefreshReturns(1) /\ ~UNCHANGED client
  <2> DEFINE w == applySnapshots([tasks |-> tasks, ran |-> ran], P)
  <2>1. Shows(w) /\ ~(calls[1].ids \subseteq locallyDismissed)
    BY <1>6 DEF RefreshReturns, View
  <2>2. \A p \in P : p.id \notin locallyDismissed
    BY <1>3, <2>1
  <2>3. Led(store, unused, w.tasks, snapshotRevision, locallyDismissed, b)
    BY <1>4, <2>2
  <2> HIDE DEF w
  <2> QED
    BY <1>1, <2>1, <2>3 DEF Ahead, Shows
<1>7. CASE SubmitReturns(1) /\ ~UNCHANGED client
  <2>1. PICK p \in P : Shows(Promoted(applySnapshots([tasks |-> tasks, ran |-> ran], {p}), p.id))
    BY <1>7 DEF SubmitReturns, View
  <2> DEFINE w == applySnapshots([tasks |-> tasks, ran |-> ran], {p})
             z == Promoted(w, p.id)
  <2>2. p.id \notin locallyDismissed
    <3>1. Submits(calls[1], p.id) /\ p.id \in Jobs
      BY <1>3, <1>7 DEF Submits, SubmitReturns, Arrives, Reports
    <3> QED
      BY <1>0, <3>1 DEF Led, Unheard, Seen
  <2>3. /\ DOMAIN z.tasks = DOMAIN w.tasks
        /\ \A j \in DOMAIN w.tasks : /\ z.tasks[j].version = w.tasks[j].version
                                     /\ z.tasks[j].state = w.tasks[j].state
    <3>1. w = [tasks |-> w.tasks, ran |-> w.ran]
      BY DEF applySnapshots
    <3>2. w.tasks = [j \in DOMAIN w.tasks |-> w.tasks[j]]
      BY DEF applySnapshots
    <3>3. Applied(tasks, ran, {p}, w.tasks, w.ran) /\ w.tasks \in Rows
      <4>1. {p} \in SUBSET Reports /\ Single({p})
        BY <1>3 DEF Single
      <4> QED
        BY <1>0, <4>1, AppliedFacts
    <3> HIDE DEF w
    <3>4. CASE p.id \in DOMAIN w.tasks
      <4>1. z.tasks = [w.tasks EXCEPT ![p.id].localEffects = TRUE]
        BY <3>1, <3>4 DEF Promoted
      <4>2. \A j \in DOMAIN w.tasks : w.tasks[j] \in Lines
        BY <3>3, RowsFields
      <4> HIDE DEF z
      <4> QED
        BY <3>2, <4>1, <4>2 DEF Lines
    <3>5. CASE p.id \notin DOMAIN w.tasks
      BY <3>5 DEF Promoted
    <3> QED
      BY <3>4, <3>5
  <2>4. Led(store, unused, z.tasks, snapshotRevision, locallyDismissed, b)
    <3>1. {p} \in SUBSET P /\ \A q \in {p} : q.id \in locallyDismissed => q.id \in DOMAIN tasks
      BY <2>2
    <3> HIDE DEF z
    <3> QED
      BY <1>4, <2>3, <3>1
  <2>5. Shows(z)
    BY <2>1
  <2> HIDE DEF z
  <2> QED
    BY <1>1, <2>4, <2>5 DEF Ahead, Shows
<1> QED
  BY <1>5, <1>6, <1>7

\* Deltas, fetched by a poll or after a move.
LEMMA DeltaAhead ==
  ASSUME Feed, Ahead, 1 \in DOMAIN calls, PollReturns(1) \/ PollFails(1) \/ DeltaReturns(1)
  PROVE  Ahead'
<1> DEFINE b == RemoveAt(calls, 1)
           d == calls[1].reply
<1>0. /\ Fed(store, unused, tasks, snapshotRevision, snapshotGeneration, locallyDismissed, calls)
      /\ Led(store, unused, tasks, snapshotRevision, locallyDismissed, calls)
  BY DEF Feed, Fed, Ahead
<1>1. /\ calls[1].answered /\ IsDelta(calls[1]) /\ calls' = b
      /\ store' = store /\ unused' = unused
      /\ UNCHANGED client \/ applySnapshotDelta(d)
  BY DEF PollReturns, PollFails, DeltaReturns, Arrives, IsDelta
<1>2. CASE UNCHANGED client
  <2>1. Led(store, unused, tasks, snapshotRevision, locallyDismissed, b)
    BY <1>0, NothingTaken
  <2> HIDE DEF b
  <2> QED
    BY <1>1, <1>2, <2>1 DEF Ahead, client
<1>3. CASE /\ tasks' = Reconciled(d).tasks /\ snapshotRevision' = d.revision
           /\ locallyDismissed' = StillDismissed(d)
  <2> DEFINE h == Reconciled(d).tasks
             M == StillDismissed(d)
             q == d.revision
  <2>1. /\ \A j : j \in DOMAIN h \/ j \in M =>
             Seen(tasks, locallyDismissed, calls, j) \/ Names(calls[1], j)
        /\ Finished(h, M)
        /\ Keeps(store, tasks, locallyDismissed, h, M)
        /\ Upto(store, h, M, q)
    BY <1>0, <1>1, DeltaLed
  <2>2. tasks' = h /\ snapshotRevision' = q /\ locallyDismissed' = M
    BY <1>3
  <2> HIDE DEF h, M, q
  <2>3. Led(store, unused, h, q, M, b)
    BY <1>0, <2>1, LedTaken
  <2> HIDE DEF b
  <2> QED
    BY <1>1, <2>2, <2>3 DEF Ahead
<1> QED
  BY <1>1, <1>2, <1>3 DEF applySnapshotDelta

\* A move that succeeded asks for what changed since the revision the list is
\* up to.
LEMMA MoveAhead ==
  ASSUME Feed, Ahead, 1 \in DOMAIN calls, MoveReturns(1)
  PROVE  Ahead'
<1> DEFINE b == RemoveAt(calls, 1)
           x == Call("delta", {})
<1>0. /\ Fed(store, unused, tasks, snapshotRevision, snapshotGeneration, locallyDismissed, calls)
      /\ Led(store, unused, tasks, snapshotRevision, locallyDismissed, calls)
  BY DEF Feed, Fed, Ahead
<1>1. /\ calls[1].answered /\ store' = store /\ unused' = unused /\ UNCHANGED client
      /\ calls' = b \/ calls' = Append(b, x)
  BY DEF MoveReturns, Arrives
<1>2. Led(store, unused, tasks, snapshotRevision, locallyDismissed, b)
  BY <1>0, NothingTaken
<1>3. Fed(store, unused, tasks, snapshotRevision, snapshotGeneration, locallyDismissed, b)
  BY <1>0, <1>1, TakenFacts DEF Fed
<1>4. /\ CallOK(store, unused, x) /\ x.kind = "delta" /\ ~x.answered
      /\ x.since = snapshotRevision
  BY CallFacts DEF Kinds
<1> HIDE DEF b, x
<1>5. CASE calls' = b
  BY <1>1, <1>2, <1>5 DEF Ahead, client
<1>6. CASE calls' = Append(b, x)
  <2>1. /\ Finished(tasks, locallyDismissed)
        /\ locallyDismissed \subseteq locallyDismissed \cup DOMAIN tasks
        /\ x.kind = "submit" => x.ids \subseteq unused
        /\ x.kind = "dismiss" => x.ids \subseteq DOMAIN tasks
        /\ IsDelta(x) => x.since \in {snapshotRevision, Unknown}
    BY <1>0, <1>4 DEF Led
  <2>2. Led(store, unused, tasks, snapshotRevision, locallyDismissed, calls')
    BY <1>2, <1>3, <1>4, <1>6, <2>1, LedSent
  <2> QED
    BY <1>1, <2>2 DEF Ahead, client
<1> QED
  BY <1>1, <1>5, <1>6

\* Rows that were cleared are not shown any more; after a refusal they are put
\* back, and the next poll asks for everything.
LEMMA ClearAhead ==
  ASSUME Feed, Ahead, 1 \in DOMAIN calls, ClearReturns(1)
  PROVE  Ahead'
<1> DEFINE b == RemoveAt(calls, 1)
           L == locallyDismissed
           ids == calls[1].ids
           back == calls[1].rollback
           ended == {j \in DOMAIN tasks \cap ids : Terminal(tasks[j].state)}
           h == [j \in DOMAIN tasks \cup DOMAIN back |->
                   IF j \in DOMAIN tasks THEN tasks[j] ELSE back[j]]
<1>0. /\ Fed(store, unused, tasks, snapshotRevision, snapshotGeneration, L, calls)
      /\ Led(store, unused, tasks, snapshotRevision, L, calls)
      /\ tasks \in Rows /\ Listed(store, unused, tasks) /\ Finished(tasks, L)
  BY DEF Feed, Fed, Ahead, WindowOK, Led
<1>1. /\ calls[1].kind = "dismiss" /\ calls[1].answered /\ calls' = b
      /\ store' = store /\ unused' = unused
  BY DEF ClearReturns, Arrives
<1>2. /\ DOMAIN back = ids /\ Listed(store, unused, back)
      /\ \A j \in DOMAIN back : Terminal(back[j].state)
  BY <1>1 DEF Feed, CallsOK, CallOK
<1>3. CASE calls[1].reply
  <2> DEFINE k == Restrict(tasks, DOMAIN tasks \ ended)
  <2>1. /\ tasks' = k /\ snapshotRevision' = snapshotRevision /\ locallyDismissed' = L
    BY <1>3 DEF ClearReturns, Without
  <2>2. ended \subseteq ids /\ DOMAIN tasks \ ended \in SUBSET DOMAIN tasks
    OBVIOUS
  <2> HIDE DEF ended
  <2>3. DOMAIN k = DOMAIN tasks \ ended /\ \A j \in DOMAIN tasks \ ended : k[j] = tasks[j]
    BY <1>0, <2>2, RowsRestricted
  <2>4. ids \cap Shown(store) = {}
    BY <1>0, <1>1, <1>3 DEF Led, Gone
  <2> HIDE DEF k, L
  <2>5. Keeps(store, tasks, L, k, L)
    BY <2>2, <2>3, <2>4 DEF Keeps, Present, Right
  <2>6. Finished(k, L) /\ \A j : j \in DOMAIN k \/ j \in L => Seen(tasks, L, calls, j) \/ Names(calls[1], j)
    BY <1>0, <2>3 DEF Finished, Seen
  <2>7. snapshotRevision # Unknown => Upto(store, k, L, snapshotRevision)
    BY <1>0, <2>5, UptoKept DEF Led, Complete
  <2>8. Led(store, unused, k, snapshotRevision, L, b)
    BY <1>0, <2>5, <2>6, <2>7, LedTaken
  <2> HIDE DEF b
  <2> QED
    BY <1>1, <2>1, <2>8 DEF Ahead
<1>4. CASE ~calls[1].reply
  <2> DEFINE M == L \ ids
  <2>1. tasks' = h /\ locallyDismissed' = M /\ snapshotRevision' = Unknown
    BY <1>4 DEF ClearReturns
  <2>2. /\ DOMAIN h = DOMAIN tasks \cup ids
        /\ \A j \in DOMAIN tasks : h[j] = tasks[j]
        /\ \A j \in ids : j \notin DOMAIN tasks => h[j] = back[j]
        /\ \A j : j \in M <=> j \in L /\ j \notin ids
    BY <1>2
  <2> HIDE DEF h, back, M, L, ids
  <2>3. \A j : j \in DOMAIN h \/ j \in M => Seen(tasks, L, calls, j) \/ Names(calls[1], j)
    BY <1>1, <2>2 DEF Seen, Clears, ids
  <2>4. Finished(h, M)
    BY <1>0, <2>2 DEF Finished
  <2>5. Keeps(store, tasks, L, h, M)
    <3> SUFFICES ASSUME NEW j \in Shown(store)
                 PROVE  /\ Present(tasks, L, j) => Present(h, M, j)
                        /\ Right(store, tasks, L, j) => Right(store, h, M, j)
      BY DEF Keeps
    <3>1. Present(tasks, L, j) => Present(h, M, j)
      BY <2>2 DEF Present
    <3>2. ASSUME j \in L, j \in ids PROVE Right(store, h, M, j)
      <4>1. j \in DOMAIN h /\ Terminal(h[j].state)
            /\ Coherent(store, unused, j, h[j].version, h[j].state)
        BY <1>0, <1>2, <2>2, <3>2 DEF Finished, Listed
      <4> QED
        BY <4>1 DEF Right, Coherent, Shown
    <3>3. ASSUME Right(store, tasks, L, j), ~(j \in L /\ j \in ids) PROVE Right(store, h, M, j)
      BY <2>2, <3>3 DEF Right
    <3> QED
      BY <3>1, <3>2, <3>3
  <2> DEFINE q == Unknown
  <2>6. q # Unknown => Upto(store, h, M, q)
    OBVIOUS
  <2> HIDE DEF q
  <2>7. Led(store, unused, h, q, M, b)
    BY <1>0, <2>3, <2>4, <2>5, <2>6, LedTaken DEF L
  <2> HIDE DEF b
  <2> QED
    BY <1>1, <2>1, <2>7 DEF Ahead, q
<1> QED
  BY <1>3, <1>4

\* An event makes no row, and undoes none.
LEMMA EventAhead ==
  ASSUME Feed, Ahead, NEW p \in events, EventArrives(p)
  PROVE  Ahead'
<1> DEFINE w == applySnapshots([tasks |-> tasks, ran |-> ran], {p})
           L == locallyDismissed
           h == w.tasks
<1>0. /\ Led(store, unused, tasks, snapshotRevision, L, calls)
      /\ tasks \in Rows /\ ran \in [Jobs -> Nat] /\ StoreOK(store, unused)
      /\ WindowOK(store, unused, tasks, snapshotRevision, snapshotGeneration, L)
  BY DEF Feed, Ahead, WindowOK, Onces
<1>1. {p} \in SUBSET Reports /\ Single({p}) /\ Reported(store, unused, {p}) /\ ~p.spec
  BY DEF Feed, EventsOK, Single, Reported
<1>2. Applied(tasks, ran, {p}, h, w.ran)
  BY <1>0, <1>1, AppliedFacts
<1>3. tasks' = h /\ UNCHANGED <<store, unused, calls, snapshotRevision, locallyDismissed>>
  BY DEF EventArrives, View, Shows
<1> HIDE DEF w, h, L
<1>4. DOMAIN h = DOMAIN tasks
  BY <1>1, <1>2 DEF Applied, Told
<1>5. Keeps(store, tasks, L, h, L)
  BY <1>0, <1>1, <1>2, KeepsApplied
<1>6. /\ \A q : Upto(store, tasks, L, q) => Upto(store, h, L, q)
      /\ \A d : Covers(store, tasks, L, d) => Covers(store, h, L, d)
  BY <1>5, UptoKept
<1>7. \A j : Seen(h, L, calls, j) <=> Seen(tasks, L, calls, j)
  BY <1>4 DEF Seen
<1>8. Finished(h, L)
  <2> SUFFICES ASSUME NEW j \in L, j \in DOMAIN tasks PROVE Terminal(h[j].state)
    BY <1>4 DEF Finished
  <2>1. Terminal(tasks[j].state)
    BY <1>0 DEF Led, Finished
  <2>2. \/ h[j] = tasks[j]
        \/ p.id = j /\ Told(tasks, p) /\ h[j].state = p.state
    BY <1>2, <1>4 DEF Applied
  <2> QED
    BY <2>1, <2>2 DEF Told
<1>9. /\ Unheard(unused, h, L, calls) /\ Gone(store, calls)
      /\ Informed(store, h, L, calls)
  BY <1>0, <1>7 DEF Led, Unheard, Informed
<1>10. Complete(store, unused, h, snapshotRevision, L, calls)
  BY <1>0, <1>6 DEF Led, Complete
<1> QED
  BY <1>3, <1>8, <1>9, <1>10 DEF Ahead, Led, L

\* While replies come in order, every step keeps the window ahead of what it
\* may be asked to forget.
LEMMA AheadStep == InOrder /\ Feed /\ Ahead /\ [Next]_vars => Ahead'
<1> SUFFICES ASSUME InOrder, Feed, Ahead, [Next]_vars PROVE Ahead'
  OBVIOUS
<1>1. CASE Backend
  BY <1>1, BackendWorks, WorkedAhead
<1>2. CASE Window
  BY <1>2, WindowAhead
<1>3. ASSUME NEW i \in DOMAIN calls, Answer(i) PROVE Ahead'
  BY <1>3, AnswerAhead
<1>4. ASSUME NEW i \in DOMAIN calls, Return(i) \/ PollFails(i) PROVE Ahead'
  <2>1. i = 1
    BY <1>4 DEF Return, SubmitReturns, PollReturns, PollFails, DeltaReturns, MoveReturns,
                RefreshReturns, ClearReturns, Arrives
  <2> QED
    BY <1>4, <2>1, LookAhead, DeltaAhead, MoveAhead, ClearAhead DEF Return
<1>5. ASSUME NEW p \in events, EventArrives(p) PROVE Ahead'
  BY <1>5, EventAhead
<1>6. CASE UNCHANGED vars
  BY <1>6 DEF vars, Ahead
<1> QED
  BY <1>1, <1>2, <1>3, <1>4, <1>5, <1>6 DEF Next

\* A window that has caught up shows every job as the store has it.
LEMMA UptoShows == Feed /\ Ahead => CaughtUp
<1> SUFFICES ASSUME Feed, Ahead, snapshotRevision = store.revision,
                    NEW j \in Visible \ locallyDismissed
             PROVE  /\ j \in DOMAIN tasks
                    /\ tasks[j].version = store.jobs[j].version
                    /\ tasks[j].state = store.jobs[j].state
  BY DEF CaughtUp
<1>1. /\ j \in Shown(store) /\ store.revision \in Nat /\ store.jobs[j].version <= store.revision
      /\ j \in DOMAIN store.jobs
  BY StoreFields DEF Feed, StoreOK, Sound, Shown, Visible, Known
<1>2. snapshotRevision # Unknown
  BY <1>1 DEF Unknown
<1>3. Right(store, tasks, locallyDismissed, j)
  BY <1>1, <1>2 DEF Ahead, Led, Complete, Upto
<1>4. Coherent(store, unused, j, tasks[j].version, tasks[j].state)
  BY <1>3 DEF Right, Feed, WindowOK, Listed
<1> QED
  BY <1>1, <1>3, <1>4 DEF Right, Coherent

\* While replies come in order, a window that has caught up misses nothing and
\* shows every job as the store has it.  [jobs.svelte.ts applySnapshotDelta]
THEOREM MissesNothing == Spec => [](InOrder => CaughtUp)
<1> DEFINE Inv == Feed /\ (InOrder => Ahead)
<1>1. Init => Inv
  BY FeedInit, AheadInit
<1>2. Inv /\ [Next]_vars => Inv'
  BY FeedStep, AheadStep
<1>3. Inv => (InOrder => CaughtUp)
  BY UptoShows
<1> QED
  BY <1>1, <1>2, <1>3, PTL DEF Spec

(***************************************************************************)
(* While replies come in order and no clearing is refused, the window      *)
(* drops what the store dropped, and what was cleared stays away.          *)
(***************************************************************************)
Agreed(c) == \A i \in DOMAIN c : c[i].kind = "dismiss" /\ c[i].answered => c[i].reply

\* A job the window has a row of, or will have once the replies before the k-th
\* are applied.
Held(f, c, j, k) == j \in DOMAIN f \/ \E i \in DOMAIN c : i < k /\ Names(c[i], j)

\* Whoever asks from a revision is told of all that is held and not shown.
Warned(s, f, c, r) ==
  \A j : j \notin Shown(s) /\ (\E k \in Nat : Held(f, c, j, k)) => Announced(s, j, r)

\* A delta removes what is held when it is applied and not shown, or the next
\* one will.
Drops(s, f, c, k) ==
  /\ ~c[k].reply.reset => \A j : j \notin Shown(s) /\ Held(f, c, j, k) =>
       j \in c[k].reply.removed \/ Announced(s, j, c[k].reply.revision)
  /\ \A j : \A i \in DOMAIN c : j \notin Shown(s) /\ k <= i /\ Names(c[i], j) =>
       Announced(s, j, c[k].reply.revision)

Warns(s, f, r, c) ==
  /\ r # Unknown => Warned(s, f, c, r)
  /\ \A k \in DOMAIN c : IsDelta(c[k]) =>
       /\ ~c[k].answered /\ c[k].since # Unknown => Warned(s, f, c, c[k].since)
       /\ c[k].answered => Drops(s, f, c, k)

\* The backend works: what stops being shown is announced.
LEMMA WarnsGrown ==
  ASSUME NEW s, NEW t, NEW u, NEW new \in SUBSET u, NEW f, NEW r, NEW g, NEW L, NEW c,
         Fed(s, u, f, r, g, L, c), StoreOK(t, u \ new), Grown(s, t, new), Warns(s, f, r, c)
  PROVE  Warns(t, f, r, c)
<1>0. /\ s.revision \in Nat /\ t \in Stores /\ DOMAIN f \subseteq Jobs
      /\ \A i \in DOMAIN c : \A j : Names(c[i], j) => j \in Jobs
      /\ \A i \in DOMAIN c : /\ c[i].since \in Nat \cup {Unknown} /\ c[i].since <= s.revision
                             /\ IsDelta(c[i]) /\ c[i].answered =>
                                  c[i].reply.revision \in Nat /\ c[i].reply.revision <= s.revision
      /\ r # Unknown => r \in Nat /\ r <= s.revision
  <2>1. f \in Rows
    BY DEF Fed, WindowOK
  <2> QED
    BY <2>1, HeardFacts, RowsFields DEF StoreOK, Sound
<1>1. ASSUME NEW j, NEW k, Held(f, c, j, k)
      PROVE  j \in Jobs
  BY <1>0, <1>1 DEF Held
<1>2. ASSUME NEW j \in Jobs, NEW q \in Nat, q <= s.revision, j \notin Shown(t)
      PROVE  /\ Announced(s, j, q) => Announced(t, j, q)
             /\ j \in Shown(s) => Announced(t, j, q)
  <2>1. Announced(s, j, q) => Announced(t, j, q)
    BY DEF Grown
  <2>2. ASSUME j \in Shown(s) PROVE Announced(t, j, q)
    <3>1. Announced(t, j, s.revision)
      BY <1>2, <2>2 DEF Grown
    <3> QED
      BY <1>0, <1>2, <3>1, AnnouncedEarlier
  <2> QED
    BY <2>1, <2>2
<1>3. ASSUME NEW q \in Nat, q <= s.revision, Warned(s, f, c, q)
      PROVE  Warned(t, f, c, q)
  BY <1>1, <1>2, <1>3 DEF Warned
<1>4. ASSUME NEW k \in DOMAIN c, IsDelta(c[k]), c[k].answered
      PROVE  Drops(t, f, c, k)
  <2> DEFINE d == c[k].reply
  <2>1. Drops(s, f, c, k) /\ d.revision \in Nat /\ d.revision <= s.revision
    BY <1>0, <1>4 DEF Warns
  <2>2. ASSUME NEW j, ~d.reset, j \notin Shown(t), Held(f, c, j, k)
        PROVE  j \in d.removed \/ Announced(t, j, d.revision)
    BY <1>1, <1>2, <2>1, <2>2 DEF Drops
  <2>3. ASSUME NEW j, NEW i \in DOMAIN c, j \notin Shown(t), k <= i, Names(c[i], j)
        PROVE  Announced(t, j, d.revision)
    BY <1>0, <1>2, <2>1, <2>3 DEF Drops
  <2> QED
    BY <2>2, <2>3 DEF Drops
<1>5. r # Unknown => Warned(t, f, c, r)
  BY <1>0, <1>3 DEF Warns
<1>6. ASSUME NEW k \in DOMAIN c, IsDelta(c[k]), ~c[k].answered, c[k].since # Unknown
      PROVE  Warned(t, f, c, c[k].since)
  BY <1>0, <1>3, <1>6 DEF Warns
<1> QED
  BY <1>4, <1>5, <1>6 DEF Warns

\* The backend answers: a delta that is no reset has all that was announced
\* since, and a report is of what is shown.
LEMMA WarnsAnswered ==
  ASSUME NEW s, NEW u, NEW f, NEW r, NEW g, NEW L, NEW c, NEW b,
         Fed(s, u, f, r, g, L, c), NEW i \in DOMAIN c, ~c[i].answered,
         NEW reply \in Replies, b = Replied(c, i, reply),
         IsDelta(c[i]) =>
           /\ reply.revision = s.revision
           /\ ~reply.reset =>
                /\ c[i].since # Unknown /\ c[i].since + MaxChanges >= s.revision
                /\ \A q \in s.removals : "main" \in q.audience /\ q.version > c[i].since
                                           => q.id \in reply.removed,
         \A j : Names(b[i], j) => j \in Shown(s),
         Warns(s, f, r, c)
  PROVE  Warns(s, f, r, b)
<1>0. /\ s.revision \in Nat /\ c \in Seq(Calls) /\ DOMAIN c \subseteq Nat
      /\ \A k, l \in DOMAIN c : k < l /\ c[l].answered => c[k].answered
      /\ \A k \in DOMAIN c : c[k].since \in Nat \cup {Unknown}
  BY HeardFacts DEF Fed, CallsOK
<1>1. /\ DOMAIN b = DOMAIN c /\ \A k \in DOMAIN c \ {i} : b[k] = c[k]
      /\ b[i].kind = c[i].kind /\ b[i].answered /\ b[i].reply = reply
  BY <1>0, AnsweredFacts
<1>2. ASSUME NEW j, j \notin Shown(s), NEW k, Held(f, b, j, k)
      PROVE  Held(f, c, j, k)
  BY <1>1, <1>2 DEF Held
<1>3. ASSUME NEW q, Warned(s, f, c, q)
      PROVE  Warned(s, f, b, q)
  BY <1>2, <1>3 DEF Warned
<1>4. ASSUME NEW j, NEW l \in DOMAIN b, j \notin Shown(s), Names(b[l], j)
      PROVE  l # i /\ b[l] = c[l] /\ l < i /\ l \in Nat /\ i \in Nat
  <2>1. l # i /\ b[l] = c[l] /\ l \in DOMAIN c
    BY <1>1, <1>4
  <2>2. c[l].answered
    BY <1>4, <2>1 DEF Names, Brought
  <2>3. ~(i < l) /\ l \in Nat /\ i \in Nat
    BY <1>0, <2>1, <2>2
  <2> QED
    BY <2>1, <2>3
<1>5. ASSUME NEW k \in DOMAIN b, IsDelta(b[k]), b[k].answered, k # i
      PROVE  Drops(s, f, b, k)
  <2>1. b[k] = c[k] /\ k \in DOMAIN c /\ Drops(s, f, c, k)
    BY <1>1, <1>5 DEF Warns
  <2> QED
    BY <1>1, <1>2, <1>4, <2>1 DEF Drops
<1>6. ASSUME IsDelta(b[i])
      PROVE  Drops(s, f, b, i)
  <2>1. IsDelta(c[i])
    BY <1>1, <1>6 DEF IsDelta
  <2>2. ASSUME NEW j, ~reply.reset, j \notin Shown(s), Held(f, b, j, i)
        PROVE  j \in reply.removed
    <3>1. c[i].since # Unknown /\ Warned(s, f, c, c[i].since) /\ c[i].since \in Nat
      BY <1>0, <2>1, <2>2 DEF Warns
    <3>2. i \in Nat /\ Held(f, c, j, i)
      BY <1>0, <1>2, <2>2
    <3>3. Announced(s, j, c[i].since)
      BY <2>2, <3>1, <3>2 DEF Warned
    <3>4. ~(c[i].since + MaxChanges < s.revision)
      BY <1>0, <2>1, <2>2, <3>1, Bounds
    <3> QED
      BY <2>1, <2>2, <3>3, <3>4 DEF Announced
  <2>3. ASSUME NEW j, NEW l \in DOMAIN b, j \notin Shown(s), i <= l, Names(b[l], j)
        PROVE  FALSE
    BY <1>4, <2>3
  <2> QED
    BY <1>1, <2>2, <2>3 DEF Drops
<1>7. ASSUME NEW k \in DOMAIN b, IsDelta(b[k]), ~b[k].answered, b[k].since # Unknown
      PROVE  Warned(s, f, b, b[k].since)
  <2>1. b[k] = c[k] /\ k \in DOMAIN c
    BY <1>1, <1>7
  <2>2. Warned(s, f, c, c[k].since)
    BY <1>7, <2>1 DEF Warns
  <2> QED
    BY <1>3, <2>1, <2>2
<1>8. r # Unknown => Warned(s, f, b, r)
  BY <1>3 DEF Warns
<1> QED
  BY <1>5, <1>6, <1>7, <1>8 DEF Warns

\* A command is sent.
LEMMA WarnsSent ==
  ASSUME NEW s, NEW u, NEW f, NEW r, NEW g, NEW L, NEW c, Fed(s, u, f, r, g, L, c),
         NEW x, CallOK(s, u, x), ~x.answered, NEW b, b = Append(c, x),
         NEW q, q = r \/ q = Unknown, IsDelta(x) => x.since \in {r, Unknown},
         Warns(s, f, r, c)
  PROVE  Warns(s, f, q, b)
<1>0. c \in Seq(Calls) /\ x \in Calls
  BY DEF Fed, CallsOK, CallOK
<1>1. /\ DOMAIN c = 1..Len(c) /\ DOMAIN b = DOMAIN c \cup {Len(c) + 1} /\ Len(c) \in Nat
      /\ \A k \in DOMAIN c : b[k] = c[k]
      /\ b[Len(c) + 1] = x
  BY <1>0, SentFacts
<1>2. \A j : ~Names(x, j)
  BY DEF Names, Brought
<1>3. ASSUME NEW j, NEW l \in DOMAIN b, Names(b[l], j)
      PROVE  l \in DOMAIN c /\ b[l] = c[l]
  BY <1>1, <1>2, <1>3
<1>4. ASSUME NEW j, NEW k, Held(f, b, j, k)
      PROVE  Held(f, c, j, k)
  BY <1>3, <1>4 DEF Held
<1>5. ASSUME NEW p, Warned(s, f, c, p)
      PROVE  Warned(s, f, b, p)
  BY <1>4, <1>5 DEF Warned
<1>6. ASSUME NEW k \in DOMAIN b, IsDelta(b[k]), b[k].answered
      PROVE  Drops(s, f, b, k)
  <2>1. k \in DOMAIN c /\ b[k] = c[k]
    BY <1>1, <1>6
  <2>2. Drops(s, f, c, k)
    BY <1>6, <2>1 DEF Warns
  <2> QED
    BY <1>3, <1>4, <2>1, <2>2 DEF Drops
<1>7. ASSUME NEW k \in DOMAIN b, IsDelta(b[k]), ~b[k].answered, b[k].since # Unknown
      PROVE  Warned(s, f, b, b[k].since)
  <2>1. CASE k \in DOMAIN c
    <3>1. Warned(s, f, c, c[k].since) /\ b[k] = c[k]
      BY <1>1, <1>7, <2>1 DEF Warns
    <3> QED
      BY <1>5, <3>1
  <2>2. CASE k = Len(c) + 1
    <3>1. b[k] = x /\ x.since = r /\ r # Unknown
      BY <1>1, <1>7, <2>2
    <3>2. Warned(s, f, c, r)
      BY <3>1 DEF Warns
    <3> QED
      BY <1>5, <3>1, <3>2
  <2> QED
    BY <1>1, <2>1, <2>2
<1>8. q # Unknown => Warned(s, f, b, q)
  BY <1>5 DEF Warns
<1> QED
  BY <1>6, <1>7, <1>8 DEF Warns

\* The first reply is taken: what it brought was held already.
LEMMA WarnsTaken ==
  ASSUME NEW s, NEW f, NEW r, NEW c \in Seq(Calls), 1 \in DOMAIN c, NEW b, b = RemoveAt(c, 1),
         NEW h, NEW q, \A j \in DOMAIN h : j \in DOMAIN f \/ Names(c[1], j),
         q \in {r, Unknown} \/ Warned(s, h, b, q),
         Warns(s, f, r, c)
  PROVE  Warns(s, h, q, b)
<1>1. /\ DOMAIN b \subseteq Nat \ {0} /\ DOMAIN c \subseteq Nat \ {0}
      /\ \A k \in DOMAIN b : k + 1 \in DOMAIN c /\ b[k] = c[k + 1]
  BY FirstTaken
<1>2. ASSUME NEW j, NEW k \in Nat \ {0}, Held(h, b, j, k)
      PROVE  Held(f, c, j, k + 1)
  <2>1. CASE j \in DOMAIN h
    <3>1. 1 < k + 1
      OBVIOUS
    <3> QED
      BY <2>1, <3>1 DEF Held
  <2>2. ASSUME NEW l \in DOMAIN b, l < k, Names(b[l], j)
        PROVE  Held(f, c, j, k + 1)
    <3>1. l + 1 \in DOMAIN c /\ Names(c[l + 1], j) /\ l + 1 < k + 1
      BY <1>1, <2>2
    <3> QED
      BY <3>1 DEF Held
  <2> QED
    BY <1>2, <2>1, <2>2 DEF Held
<1>3. ASSUME NEW p, Warned(s, f, c, p)
      PROVE  Warned(s, h, b, p)
  <2> SUFFICES ASSUME NEW j, j \notin Shown(s), NEW k \in Nat, Held(h, b, j, k)
               PROVE  Announced(s, j, p)
    BY DEF Warned
  <2>1. Held(h, b, j, k + 1)
    BY <1>1 DEF Held
  <2>2. k + 1 \in Nat \ {0} /\ (k + 1) + 1 \in Nat
    OBVIOUS
  <2>3. Held(f, c, j, (k + 1) + 1)
    BY <1>2, <2>1, <2>2
  <2> QED
    BY <1>3, <2>2, <2>3 DEF Warned
<1>4. ASSUME NEW k \in DOMAIN b, IsDelta(b[k]), b[k].answered
      PROVE  Drops(s, h, b, k)
  <2>1. k + 1 \in DOMAIN c /\ b[k] = c[k + 1] /\ k \in Nat \ {0}
    BY <1>1
  <2>2. Drops(s, f, c, k + 1)
    BY <1>4, <2>1 DEF Warns
  <2>3. ASSUME NEW j, ~b[k].reply.reset, j \notin Shown(s), Held(h, b, j, k)
        PROVE  j \in b[k].reply.removed \/ Announced(s, j, b[k].reply.revision)
    <3>1. Held(f, c, j, k + 1)
      BY <1>2, <2>1, <2>3
    <3> QED
      BY <2>1, <2>2, <2>3, <3>1 DEF Drops
  <2>4. ASSUME NEW j, NEW l \in DOMAIN b, j \notin Shown(s), k <= l, Names(b[l], j)
        PROVE  Announced(s, j, b[k].reply.revision)
    <3>1. l + 1 \in DOMAIN c /\ Names(c[l + 1], j) /\ k + 1 <= l + 1
      BY <1>1, <2>1, <2>4
    <3> QED
      BY <2>1, <2>2, <2>4, <3>1 DEF Drops
  <2> QED
    BY <2>3, <2>4 DEF Drops
<1>5. ASSUME NEW k \in DOMAIN b, IsDelta(b[k]), ~b[k].answered, b[k].since # Unknown
      PROVE  Warned(s, h, b, b[k].since)
  <2>1. k + 1 \in DOMAIN c /\ b[k] = c[k + 1]
    BY <1>1
  <2>2. Warned(s, f, c, c[k + 1].since)
    BY <1>5, <2>1 DEF Warns
  <2> QED
    BY <1>3, <2>1, <2>2
<1>6. q # Unknown => Warned(s, h, b, q)
  BY <1>3 DEF Warns
<1> QED
  BY <1>4, <1>5, <1>6 DEF Warns

\* A delta that is applied drops what the window would not be told of again.
\* [jobs.svelte.ts applySnapshotDelta]
LEMMA DeltaWarned ==
  ASSUME Feed, Warns(store, tasks, snapshotRevision, calls),
         1 \in DOMAIN calls, calls[1].answered, IsDelta(calls[1]), NEW b, b = RemoveAt(calls, 1),
         NEW d, d = calls[1].reply, NEW h, h = Reconciled(d).tasks
  PROVE  /\ \A j \in DOMAIN h : j \in DOMAIN tasks \/ Names(calls[1], j)
         /\ Warned(store, h, b, d.revision)
<1> DEFINE D == Kept(d)
           k == Restrict(tasks, Kept(d))
           P == Decoded(d)
           told == {p.id : p \in d.upserts}
<1>0. /\ CallOK(store, unused, calls[1]) /\ calls \in Seq(Calls) /\ store \in Stores
      /\ StoreOK(store, unused) /\ Listed(store, unused, tasks)
  BY DEF Feed, CallsOK, StoreOK, Sound, WindowOK
<1>1. /\ d \in Deltas /\ Single(d.upserts) /\ d.revision \in Nat
      /\ Brought(calls[1]) = d.upserts
  BY <1>0 DEF CallOK, AnswerOK, Brought, Deltas
<1>2. /\ DOMAIN k = D /\ D \in SUBSET DOMAIN tasks
      /\ P \subseteq d.upserts /\ Applied(k, ran, P, h, Reconciled(d).ran)
  BY <1>1, ReconciledFacts
<1>3. \A j \in D : /\ j \notin d.removed
                   /\ d.reset /\ tasks[j].version <= d.revision => j \in told
  BY DEF Kept, Survives
<1>4. \A j \in told : Names(calls[1], j)
  BY <1>1 DEF Names
<1>5. \A p \in d.upserts : p.id \in told
  OBVIOUS
<1> HIDE DEF D, k, P, told
<1>6. \A j \in DOMAIN h : j \in D \/ j \in told
  BY <1>2, <1>5 DEF Applied
<1>7. Drops(store, tasks, calls, 1)
  BY DEF Warns
<1>8. /\ DOMAIN b \subseteq Nat \ {0} /\ DOMAIN calls \subseteq Nat \ {0}
      /\ \A l \in DOMAIN b : l + 1 \in DOMAIN calls /\ b[l] = calls[l + 1]
  BY <1>0, FirstTaken
<1>9. ASSUME NEW j, j \notin Shown(store), NEW l \in DOMAIN calls, Names(calls[l], j)
      PROVE  Announced(store, j, d.revision)
  <2>1. 1 <= l
    BY <1>8
  <2> QED
    BY <1>7, <1>9, <2>1 DEF Drops
<1>10. ASSUME NEW j \in DOMAIN h, j \notin Shown(store)
       PROVE  Announced(store, j, d.revision)
  <2>1. CASE j \in told
    BY <1>4, <1>9, <1>10, <2>1
  <2>2. CASE j \in D /\ ~d.reset
    <3>1. Held(tasks, calls, j, 1)
      BY <1>2, <2>2 DEF Held
    <3> QED
      BY <1>3, <1>7, <1>10, <2>2, <3>1 DEF Drops
  <2>3. CASE j \in D /\ d.reset /\ ~(tasks[j].version <= d.revision)
    <3>1. Coherent(store, unused, j, tasks[j].version, tasks[j].state) /\ j \in Jobs
      BY <1>0, <1>2, <2>3 DEF Listed, Coherent
    <3>2. tasks[j].version \in Nat /\ d.revision <= tasks[j].version
      <4>1. tasks[j].version \in 1..store.revision /\ store.revision \in Nat
        BY <1>0, <3>1, StoreFields DEF Coherent
      <4> QED
        BY <1>1, <2>3, <4>1
    <3>3. Announced(store, j, tasks[j].version)
      BY <1>10, <3>1 DEF Coherent
    <3> QED
      BY <1>0, <1>1, <3>1, <3>2, <3>3, AnnouncedEarlier
  <2> QED
    BY <1>3, <1>6, <1>10, <2>1, <2>2, <2>3
<1>11. Warned(store, h, b, d.revision)
  <2> SUFFICES ASSUME NEW j, j \notin Shown(store), NEW n, Held(h, b, j, n)
               PROVE  Announced(store, j, d.revision)
    BY DEF Warned
  <2>1. ASSUME NEW l \in DOMAIN b, Names(b[l], j)
        PROVE  Announced(store, j, d.revision)
    BY <1>8, <1>9, <2>1
  <2> QED
    BY <1>10, <2>1 DEF Held
<1> QED
  BY <1>2, <1>4, <1>6, <1>11

-----------------------------------------------------------------------------
Cleared(s, j) == j \in DOMAIN s.jobs /\ j \notin Shown(s)
Clearing(c, j, k) == \E i \in DOMAIN c : k < i /\ Clears(c[i], j)

\* Every report of the job that is on its way says it has ended.
Ending(c, j, k) == \A i \in DOMAIN c : \A p \in Brought(c[i]) :
                     k < i /\ p.id = j => Terminal(p.state)

\* What was cleared and is not gone from the window is about to be, and nothing
\* on its way makes a finished row of it an active one.
Leaves(s, f, c, j) ==
  /\ j \in DOMAIN f /\ Cleared(s, j) => Clearing(c, j, 0)
  /\ \A k \in DOMAIN c : Names(c[k], j) /\ Cleared(s, j) => Clearing(c, j, k)
  /\ j \in DOMAIN f /\ Terminal(f[j].state) => Ending(c, j, 0)
  /\ \A k \in DOMAIN c : \A p \in Brought(c[k]) :
       p.id = j /\ Terminal(p.state) => Ending(c, j, k)
  /\ \A i \in DOMAIN c : Clears(c[i], j) =>
       /\ j \in DOMAIN f => Terminal(f[j].state)
       /\ Ending(c, j, 0)

Clean(s, f, c) == \A j \in Jobs \ Mine : Leaves(s, f, c, j)

\* The backend works: no job is cleared unless the window asked for it.
LEMMA CleanGrown ==
  ASSUME NEW s, NEW t, NEW u, NEW f, NEW r, NEW g, NEW L, NEW c, Fed(s, u, f, r, g, L, c),
         \A j \in Jobs : Cleared(t, j) =>
           Cleared(s, j) \/ \E i \in DOMAIN c : Clears(c[i], j) /\ ~c[i].answered,
         Clean(s, f, c)
  PROVE  Clean(t, f, c)
<1> SUFFICES ASSUME NEW j \in Jobs \ Mine PROVE Leaves(t, f, c, j)
  BY DEF Clean
<1>1. Leaves(s, f, c, j)
  BY DEF Clean
<1>2. /\ \A i, k \in DOMAIN c : i < k /\ c[k].answered => c[i].answered
      /\ DOMAIN c \subseteq Nat \ {0}
  BY HeardFacts DEF Fed, CallsOK
<1>3. ASSUME NEW i \in DOMAIN c, Clears(c[i], j), ~c[i].answered
      PROVE  /\ Clearing(c, j, 0)
             /\ \A k \in DOMAIN c : Names(c[k], j) => Clearing(c, j, k)
  <2>1. 0 < i
    BY <1>2
  <2>2. ASSUME NEW k \in DOMAIN c, Names(c[k], j) PROVE k < i
    <3>1. c[k].answered
      BY <2>2 DEF Names, Brought
    <3>2. k # i /\ ~(i < k) /\ k \in Nat /\ i \in Nat
      BY <1>2, <1>3, <3>1
    <3> QED
      BY <3>2
  <2> QED
    BY <1>3, <2>1, <2>2 DEF Clearing
<1>4. Cleared(t, j) => Cleared(s, j) \/ \E i \in DOMAIN c : Clears(c[i], j) /\ ~c[i].answered
  OBVIOUS
<1>5. Cleared(t, j) /\ j \in DOMAIN f => Clearing(c, j, 0)
  BY <1>1, <1>3, <1>4 DEF Leaves
<1>6. \A k \in DOMAIN c : Names(c[k], j) /\ Cleared(t, j) => Clearing(c, j, k)
  BY <1>1, <1>3, <1>4 DEF Leaves
<1> QED
  BY <1>1, <1>5, <1>6 DEF Leaves

\* The backend answers: what it reports is as the store has it.
LEMMA CleanAnswered ==
  ASSUME NEW s, NEW u, NEW f, NEW r, NEW g, NEW L, NEW c, NEW b,
         Fed(s, u, f, r, g, L, c), NEW i \in DOMAIN c, ~c[i].answered,
         NEW reply \in Replies, b = Replied(c, i, reply),
         \A p \in Brought(b[i]) : p.id \in Shown(s) /\ p.state = s.jobs[p.id].state,
         Clean(s, f, c)
  PROVE  Clean(s, f, b)
<1> SUFFICES ASSUME NEW j \in Jobs \ Mine PROVE Leaves(s, f, b, j)
  BY DEF Clean
<1>0. /\ Leaves(s, f, c, j) /\ c \in Seq(Calls) /\ DOMAIN c \subseteq Nat \ {0}
      /\ \A k, l \in DOMAIN c : k < l /\ c[l].answered => c[k].answered
      /\ \A k \in DOMAIN c : CallOK(s, u, c[k])
      /\ Listed(s, u, f)
  BY HeardFacts DEF Clean, Fed, CallsOK, WindowOK
<1>1. /\ DOMAIN b = DOMAIN c /\ \A k \in DOMAIN c \ {i} : b[k] = c[k]
      /\ b[i].kind = c[i].kind /\ b[i].ids = c[i].ids
  BY <1>0, AnsweredFacts
<1>2. /\ \A k \in DOMAIN c : Clears(b[k], j) <=> Clears(c[k], j)
      /\ \A k : Clearing(b, j, k) <=> Clearing(c, j, k)
  BY <1>1 DEF Clears, Clearing
<1>3. ASSUME NEW state, NEW v, Coherent(s, u, j, v, state), Terminal(state)
      PROVE  \A k : Ending(c, j, k) => Ending(b, j, k)
  <2>1. \A p \in Brought(b[i]) : p.id = j => Terminal(p.state)
    BY <1>3 DEF Coherent, Shown
  <2> QED
    BY <1>1, <2>1 DEF Ending
<1>4. ASSUME NEW k \in DOMAIN c, k # i, NEW p \in Brought(b[k]), p.id = j, Terminal(p.state)
      PROVE  Ending(b, j, k)
  <2>1. b[k] = c[k] /\ p \in Brought(c[k]) /\ c[k].answered
    BY <1>1, <1>4 DEF Brought
  <2>2. Ending(c, j, k)
    BY <1>0, <1>4, <2>1 DEF Leaves
  <2>3. Coherent(s, u, j, p.version, p.state)
    BY <1>0, <1>4, <2>1 DEF CallOK, AnswerOK, Reported
  <2> QED
    BY <1>3, <1>4, <2>2, <2>3
<1>5. \A k : Ending(b, j, i)
  <2> SUFFICES ASSUME NEW k \in DOMAIN b, NEW p \in Brought(b[k]), i < k PROVE FALSE
    BY DEF Ending
  <2>1. k # i /\ i \in Nat
    BY <1>0, <1>1
  <2>2. k \in DOMAIN c /\ b[k] = c[k] /\ c[k].answered
    BY <1>1, <2>1 DEF Brought
  <2> QED
    BY <1>0, <2>2
<1>6. j \in DOMAIN f /\ Terminal(f[j].state) => Ending(b, j, 0)
  <2> SUFFICES ASSUME j \in DOMAIN f, Terminal(f[j].state) PROVE Ending(b, j, 0)
    OBVIOUS
  <2>1. Ending(c, j, 0) /\ Coherent(s, u, j, f[j].version, f[j].state)
    BY <1>0 DEF Leaves, Listed
  <2> QED
    BY <1>3, <2>1
<1>7. ASSUME NEW k \in DOMAIN c, Clears(c[k], j)
      PROVE  (j \in DOMAIN f => Terminal(f[j].state)) /\ Ending(b, j, 0)
  <2>1. /\ j \in DOMAIN c[k].rollback /\ Terminal(c[k].rollback[j].state)
        /\ Coherent(s, u, j, c[k].rollback[j].version, c[k].rollback[j].state)
    BY <1>0, <1>7 DEF CallOK, Clears, Listed
  <2>2. (j \in DOMAIN f => Terminal(f[j].state)) /\ Ending(c, j, 0)
    BY <1>0, <1>7 DEF Leaves
  <2> QED
    BY <1>3, <2>1, <2>2
<1>8. \A k \in DOMAIN b : Names(b[k], j) /\ Cleared(s, j) => Clearing(b, j, k)
  <2> SUFFICES ASSUME NEW k \in DOMAIN c, Names(b[k], j), Cleared(s, j) PROVE Clearing(c, j, k)
    BY <1>1, <1>2
  <2>1. k # i
    BY DEF Names, Cleared
  <2> QED
    BY <1>0, <1>1, <2>1 DEF Leaves
<1>9. \A k \in DOMAIN b : \A p \in Brought(b[k]) :
        p.id = j /\ Terminal(p.state) => Ending(b, j, k)
  BY <1>1, <1>4, <1>5
<1> QED
  BY <1>0, <1>1, <1>2, <1>6, <1>7, <1>8, <1>9 DEF Leaves

\* A command is sent: only finished rows are cleared.
LEMMA CleanSent ==
  ASSUME NEW s, NEW u, NEW f, NEW r, NEW g, NEW L, NEW c, Fed(s, u, f, r, g, L, c),
         NEW x, CallOK(s, u, x), ~x.answered, NEW b, b = Append(c, x),
         x.kind = "dismiss" => \A j \in x.ids : j \in DOMAIN f /\ Terminal(f[j].state),
         Clean(s, f, c)
  PROVE  Clean(s, f, b)
<1> SUFFICES ASSUME NEW j \in Jobs \ Mine PROVE Leaves(s, f, b, j)
  BY DEF Clean
<1>0. c \in Seq(Calls) /\ x \in Calls /\ Leaves(s, f, c, j)
  BY DEF Fed, CallsOK, CallOK, Clean
<1>1. /\ DOMAIN c = 1..Len(c) /\ DOMAIN b = DOMAIN c \cup {Len(c) + 1} /\ Len(c) \in Nat
      /\ \A k \in DOMAIN c : b[k] = c[k]
      /\ b[Len(c) + 1] = x
  BY <1>0, SentFacts
<1>2. Brought(x) = {}
  BY DEF Brought
<1>3. ASSUME NEW l \in DOMAIN b, NEW p \in Brought(b[l])
      PROVE  l \in DOMAIN c /\ b[l] = c[l]
  BY <1>1, <1>2, <1>3
<1>4. \A k : Ending(c, j, k) => Ending(b, j, k)
  BY <1>3 DEF Ending
<1>5. \A k : Clearing(c, j, k) => Clearing(b, j, k)
  BY <1>1 DEF Clearing
<1>6. ASSUME NEW k \in DOMAIN b, Clears(b[k], j)
      PROVE  (j \in DOMAIN f => Terminal(f[j].state)) /\ Ending(b, j, 0)
  <2>1. CASE k \in DOMAIN c
    BY <1>0, <1>1, <1>4, <1>6, <2>1 DEF Leaves
  <2>2. CASE k = Len(c) + 1
    <3>1. j \in DOMAIN f /\ Terminal(f[j].state)
      BY <1>1, <1>6, <2>2 DEF Clears
    <3> QED
      BY <1>0, <1>4, <3>1 DEF Leaves
  <2> QED
    BY <1>1, <2>1, <2>2
<1>7. \A k \in DOMAIN b : Names(b[k], j) /\ Cleared(s, j) => Clearing(b, j, k)
  BY <1>0, <1>3, <1>5 DEF Leaves, Names
<1>8. \A k \in DOMAIN b : \A p \in Brought(b[k]) :
        p.id = j /\ Terminal(p.state) => Ending(b, j, k)
  BY <1>0, <1>3, <1>4 DEF Leaves
<1> QED
  BY <1>0, <1>4, <1>5, <1>6, <1>7, <1>8 DEF Leaves

\* The first reply is taken; if it is of a clearing, the rows have gone.
LEMMA CleanTaken ==
  ASSUME NEW s, NEW f, NEW c \in Seq(Calls), 1 \in DOMAIN c, NEW b, b = RemoveAt(c, 1), NEW h,
         \A j \in DOMAIN h : \/ j \in DOMAIN f /\ h[j].state = f[j].state
                             \/ \E p \in Brought(c[1]) : p.id = j /\ h[j].state = p.state,
         c[1].kind = "dismiss" => \A j \in c[1].ids \ Mine : j \notin DOMAIN h,
         Clean(s, f, c)
  PROVE  Clean(s, h, b)
<1> SUFFICES ASSUME NEW j \in Jobs \ Mine PROVE Leaves(s, h, b, j)
  BY DEF Clean
<1>0. Leaves(s, f, c, j)
  BY DEF Clean
<1>1. /\ DOMAIN b \subseteq Nat \ {0} /\ DOMAIN c \subseteq Nat \ {0}
      /\ \A k \in DOMAIN b : k + 1 \in DOMAIN c /\ b[k] = c[k + 1]
      /\ \A l \in DOMAIN c \ {1} : l - 1 \in DOMAIN b /\ b[l - 1] = c[l]
  BY FirstTaken
<1>2. ASSUME NEW k \in Nat, Clearing(c, j, k + 1)
      PROVE  Clearing(b, j, k)
  <2>1. PICK l \in DOMAIN c : k + 1 < l /\ Clears(c[l], j)
    BY <1>2 DEF Clearing
  <2>2. l \in Nat /\ l # 1 /\ k < l - 1
    BY <1>1, <2>1
  <2> QED
    BY <1>1, <2>1, <2>2 DEF Clearing
<1>3. ASSUME NEW k \in Nat, Ending(c, j, k + 1)
      PROVE  Ending(b, j, k)
  <2> SUFFICES ASSUME NEW l \in DOMAIN b, NEW p \in Brought(b[l]), k < l, p.id = j
               PROVE  Terminal(p.state)
    BY DEF Ending
  <2>1. l + 1 \in DOMAIN c /\ p \in Brought(c[l + 1]) /\ k + 1 < l + 1
    BY <1>1
  <2> QED
    BY <1>3, <2>1 DEF Ending
<1>4. Ending(c, j, 0) => Ending(b, j, 0)
  <2> SUFFICES ASSUME Ending(c, j, 0) PROVE Ending(c, j, 0 + 1)
    BY <1>3
  <2> SUFFICES ASSUME NEW l \in DOMAIN c, NEW p \in Brought(c[l]), 0 + 1 < l, p.id = j
               PROVE  Terminal(p.state)
    BY DEF Ending
  <2>1. 0 < l
    BY <1>1
  <2> QED
    BY <2>1 DEF Ending
<1>5. ASSUME j \in DOMAIN h, Cleared(s, j)
      PROVE  Clearing(b, j, 0)
  <2>1. Clearing(c, j, 0 + 1)
    <3>1. CASE j \in DOMAIN f
      <4>1. PICK l \in DOMAIN c : 0 < l /\ Clears(c[l], j)
        BY <1>0, <1>5, <3>1 DEF Leaves, Clearing
      <4>2. l # 1
        BY <1>5, <4>1 DEF Clears
      <4>3. 0 + 1 < l
        BY <1>1, <4>1, <4>2
      <4> QED
        BY <4>1, <4>3 DEF Clearing
    <3>2. CASE Names(c[1], j)
      <4>1. Clearing(c, j, 1)
        BY <1>0, <1>5, <3>2 DEF Leaves
      <4> QED
        BY <4>1
    <3> QED
      BY <1>5, <3>1, <3>2 DEF Names
  <2> QED
    BY <1>2, <2>1
<1>6. \A k \in DOMAIN b : Names(b[k], j) /\ Cleared(s, j) => Clearing(b, j, k)
  <2> SUFFICES ASSUME NEW k \in DOMAIN b, Names(b[k], j), Cleared(s, j) PROVE Clearing(b, j, k)
    OBVIOUS
  <2>1. k \in Nat /\ k + 1 \in DOMAIN c /\ Names(c[k + 1], j)
    BY <1>1
  <2>2. Clearing(c, j, k + 1)
    BY <1>0, <2>1 DEF Leaves
  <2> QED
    BY <1>2, <2>1, <2>2
<1>7. \A k \in DOMAIN b : \A p \in Brought(b[k]) :
        p.id = j /\ Terminal(p.state) => Ending(b, j, k)
  <2> SUFFICES ASSUME NEW k \in DOMAIN b, NEW p \in Brought(b[k]), p.id = j, Terminal(p.state)
               PROVE  Ending(b, j, k)
    OBVIOUS
  <2>1. k \in Nat /\ k + 1 \in DOMAIN c /\ p \in Brought(c[k + 1])
    BY <1>1
  <2>2. Ending(c, j, k + 1)
    BY <1>0, <2>1 DEF Leaves
  <2> QED
    BY <1>3, <2>1, <2>2
<1>8. ASSUME j \in DOMAIN h, Terminal(h[j].state)
      PROVE  Ending(b, j, 0)
  <2>1. CASE j \in DOMAIN f /\ h[j].state = f[j].state
    BY <1>0, <1>4, <1>8, <2>1 DEF Leaves
  <2>2. ASSUME NEW p \in Brought(c[1]), p.id = j, h[j].state = p.state
        PROVE  Ending(b, j, 0)
    <3>1. Ending(c, j, 1) /\ 1 = 0 + 1
      BY <1>0, <1>8, <2>2 DEF Leaves
    <3> QED
      BY <1>3, <3>1
  <2> QED
    BY <1>8, <2>1, <2>2
<1>9. ASSUME NEW k \in DOMAIN b, Clears(b[k], j)
      PROVE  (j \in DOMAIN h => Terminal(h[j].state)) /\ Ending(b, j, 0)
  <2>1. k + 1 \in DOMAIN c /\ Clears(c[k + 1], j)
    BY <1>1, <1>9
  <2>2. (j \in DOMAIN f => Terminal(f[j].state)) /\ Ending(c, j, 0)
    BY <1>0, <2>1 DEF Leaves
  <2>3. \A p \in Brought(c[1]) : p.id = j => Terminal(p.state)
    BY <2>2 DEF Ending
  <2> QED
    BY <1>4, <2>2, <2>3
<1> QED
  BY <1>5, <1>6, <1>7, <1>8, <1>9 DEF Leaves

Fresh == Agreed(calls) /\ Warns(store, tasks, snapshotRevision, calls) /\ Clean(store, tasks, calls)

\* At the start the window holds nothing.
LEMMA FreshInit == Init => Fresh
<1> SUFFICES ASSUME Init PROVE Fresh
  OBVIOUS
<1>1. snapshotRevision = Unknown /\ DOMAIN calls = {} /\ DOMAIN tasks = {}
  BY DEF Init
<1>2. Agreed(calls) /\ Warns(store, tasks, snapshotRevision, calls)
  BY <1>1 DEF Agreed, Warns
<1>3. Clean(store, tasks, calls)
  BY <1>1 DEF Clean, Leaves
<1> QED
  BY <1>2, <1>3 DEF Fresh

\* The backend works.
LEMMA WorkedFresh ==
  ASSUME Feed, Fresh, NEW new, Worked(new)
  PROVE  Fresh'
<1>1. /\ new \in SUBSET unused /\ unused' = unused \ new /\ StoreOK(store', unused \ new)
      /\ Grown(store, store', new)
      /\ (Shown(store) \cup new) \cap DOMAIN store'.jobs \subseteq Shown(store')
      /\ tasks' = tasks /\ snapshotRevision' = snapshotRevision /\ calls' = calls
  BY DEF Worked, Feed, client
<1>2. Fed(store, unused, tasks, snapshotRevision, snapshotGeneration, locallyDismissed, calls)
  BY DEF Feed, Fed
<1>3. Warns(store, tasks, snapshotRevision, calls) /\ Clean(store, tasks, calls) /\ Agreed(calls)
  BY DEF Fresh
<1>4. Warns(store', tasks, snapshotRevision, calls)
  BY <1>1, <1>2, <1>3, WarnsGrown
<1>5. \A j \in Jobs : Cleared(store', j) =>
        Cleared(store, j) \/ \E i \in DOMAIN calls : Clears(calls[i], j) /\ ~calls[i].answered
  BY <1>1 DEF Cleared, Grown
<1>6. Clean(store', tasks, calls)
  BY <1>2, <1>3, <1>5, CleanGrown
<1> QED
  BY <1>1, <1>3, <1>4, <1>6 DEF Fresh

\* A reply is on its way: nothing else has changed.
LEMMA ReplyFresh ==
  ASSUME Feed, Fresh, NEW i \in DOMAIN calls, NEW reply \in Replies, Reply(i, reply),
         ~calls[i].answered, StoreOK(store', unused), Grown(store, store', {}),
         \A j \in Jobs : Cleared(store', j) => Cleared(store, j) \/ Clears(calls[i], j),
         IsDelta(calls[i]) =>
           /\ reply.revision = store'.revision
           /\ ~reply.reset =>
                /\ calls[i].since # Unknown /\ calls[i].since + MaxChanges >= store'.revision
                /\ \A q \in store'.removals : "main" \in q.audience /\ q.version > calls[i].since
                                                => q.id \in reply.removed,
         \A p \in Brought(calls'[i]) : p.id \in Shown(store') /\ p.state = store'.jobs[p.id].state,
         calls[i].kind = "dismiss" => reply = TRUE
  PROVE  Fresh'
<1> DEFINE none == {}
           L == locallyDismissed
           g == snapshotGeneration
<1>1. /\ tasks' = tasks /\ snapshotRevision' = snapshotRevision /\ calls' = Replied(calls, i, reply)
      /\ calls \in Seq(Calls)
  BY DEF Reply, client, Replied, Feed, CallsOK
<1>2. /\ none \in SUBSET unused /\ unused \ none = unused /\ Grown(store, store', none)
      /\ StoreOK(store, unused) /\ StoreOK(store', unused \ none)
  BY DEF Feed
<1> HIDE DEF none, L, g
<1>3. Fed(store, unused, tasks, snapshotRevision, g, L, calls)
  BY DEF Feed, Fed, L, g
<1>4. Warns(store, tasks, snapshotRevision, calls) /\ Clean(store, tasks, calls) /\ Agreed(calls)
  BY DEF Fresh
<1>5. Warns(store', tasks, snapshotRevision, calls)
  BY <1>2, <1>3, <1>4, WarnsGrown
<1>6. \A j \in Jobs : Cleared(store', j) =>
        Cleared(store, j) \/ \E k \in DOMAIN calls : Clears(calls[k], j) /\ ~calls[k].answered
  OBVIOUS
<1>7. Clean(store', tasks, calls)
  BY <1>3, <1>4, <1>6, CleanGrown
<1>8. Fed(store', unused, tasks, snapshotRevision, g, L, calls)
  <2>1. WindowOK(store', unused \ none, tasks, snapshotRevision, g, L)
    BY <1>2, <1>3, WindowGrown DEF Fed
  <2>2. CallsOK(store', unused \ none, calls)
    BY <1>2, CallsGrown DEF Feed
  <2> QED
    BY <1>2, <2>1, <2>2 DEF Fed
<1>9. \A j : Names(calls'[i], j) => j \in Shown(store')
  BY DEF Names
<1>10. Warns(store', tasks, snapshotRevision, calls')
  BY <1>1, <1>5, <1>8, <1>9, WarnsAnswered
<1>11. Clean(store', tasks, calls')
  BY <1>1, <1>7, <1>8, CleanAnswered
<1>12. Agreed(calls')
  <2>1. /\ DOMAIN calls' = DOMAIN calls /\ calls'[i].kind = calls[i].kind
        /\ \A k \in DOMAIN calls \ {i} : calls'[k] = calls[k]
        /\ calls'[i].reply = reply
    BY <1>1, AnsweredFacts
  <2>2. ASSUME NEW k \in DOMAIN calls, calls'[k].kind = "dismiss", calls'[k].answered
        PROVE  calls'[k].reply
    <3>1. CASE k = i
      BY <2>1, <2>2, <3>1
    <3>2. CASE k # i
      BY <1>4, <2>1, <2>2, <3>2 DEF Agreed
    <3> QED
      BY <3>1, <3>2
  <2> QED
    BY <2>1, <2>2 DEF Agreed
<1> QED
  BY <1>1, <1>10, <1>11, <1>12 DEF Fresh

\* The backend's replies, none of them a refusal.
LEMMA AnswerFresh ==
  ASSUME Feed, Fresh, ~refused', NEW i \in DOMAIN calls, Answer(i)
  PROVE  Fresh'
<1>0. /\ StoreOK(store, unused) /\ calls \in Seq(Calls) /\ CallOK(store, unused, calls[i])
      /\ calls[i] \in Calls /\ store \in Stores /\ calls[i].ids \in SUBSET Jobs
  BY DEF Feed, CallsOK, CallOK, Calls, StoreOK, Sound
<1>1. ASSUME NEW kind, Turn(i, kind)
      PROVE  calls[i].kind = kind /\ ~calls[i].answered
  BY <1>1 DEF Turn
<1>2. ASSUME NEW reply \in Replies, Reply(i, reply)
      PROVE  /\ calls'[i].kind = calls[i].kind /\ calls'[i].ids = calls[i].ids
             /\ calls'[i].answered /\ calls'[i].reply = reply
  <2>1. calls' = Replied(calls, i, reply)
    BY <1>2 DEF Reply, Replied
  <2> QED
    BY <1>0, <2>1, AnsweredFacts
<1>3. ASSUME store' = store
      PROVE  /\ StoreOK(store', unused) /\ Grown(store, store', {})
             /\ \A j \in Jobs : Cleared(store', j) => Cleared(store, j) \/ Clears(calls[i], j)
  <2>1. Grown(store, store, {})
    BY <1>0, GrownSelf
  <2> QED
    BY <1>0, <1>3, <2>1
<1>4. ASSUME NEW j \in calls[i].ids, Looks(calls[i]), Reply(i, Looked(j)), store' = store,
             ~calls[i].answered
      PROVE  Fresh'
  <2>1. /\ Looked(j) \in SUBSET Reports
        /\ \A p \in Looked(j) : /\ p.id = j /\ j \in Shown(store)
                                /\ p.state = store.jobs[j].state
    BY <1>0, LookedFacts
  <2>2. Looked(j) \in Replies /\ ~IsDelta(calls[i]) /\ calls[i].kind # "dismiss"
    BY <1>4, <2>1 DEF Replies, IsDelta, Looks
  <2>3. /\ calls'[i].kind = calls[i].kind
        /\ calls'[i].answered /\ calls'[i].reply = Looked(j)
    BY <1>2, <1>4, <2>2
  <2>4. Brought(calls'[i]) = Looked(j)
    BY <1>4, <2>3 DEF Brought, Looks, IsDelta
  <2>5. \A p \in Brought(calls'[i]) : p.id \in Shown(store') /\ p.state = store'.jobs[p.id].state
    BY <1>4, <2>1, <2>4
  <2> QED
    BY <1>3, <1>4, <2>2, <2>5, ReplyFresh
<1>5. ASSUME NEW reply \in BOOLEAN, calls[i].kind \in {"move", "dismiss"}, Reply(i, reply),
             ~calls[i].answered, StoreOK(store', unused), Grown(store, store', {}),
             \A j \in Jobs : Cleared(store', j) => Cleared(store, j) \/ Clears(calls[i], j),
             calls[i].kind = "dismiss" => reply = TRUE
      PROVE  Fresh'
  <2>1. reply \in Replies /\ ~IsDelta(calls[i])
    BY <1>5 DEF Replies, IsDelta
  <2>2. calls'[i].kind = calls[i].kind
    BY <1>2, <1>5, <2>1
  <2>3. Brought(calls'[i]) = {}
    BY <1>5, <2>2 DEF Brought, IsDelta, Looks
  <2>4. \A p \in Brought(calls'[i]) : p.id \in Shown(store') /\ p.state = store'.jobs[p.id].state
    BY <2>3
  <2> QED
    BY <1>5, <2>1, <2>4, ReplyFresh
<1>6. CASE AnswerSubmit(i)
  <2>1. PICK j \in calls[i].ids \ unused : Reply(i, Looked(j))
    BY <1>6 DEF AnswerSubmit
  <2>2. Looks(calls[i]) /\ store' = store /\ ~calls[i].answered
    BY <1>1, <1>6 DEF AnswerSubmit, Looks
  <2> QED
    BY <1>4, <2>1, <2>2
<1>7. CASE AnswerSnapshot(i)
  <2>1. PICK j \in calls[i].ids : Reply(i, Looked(j))
    BY <1>7 DEF AnswerSnapshot
  <2>2. Looks(calls[i]) /\ store' = store /\ ~calls[i].answered
    BY <1>1, <1>7 DEF AnswerSnapshot, Looks
  <2> QED
    BY <1>4, <2>1, <2>2
<1>8. CASE AnswerSnapshots(i)
  <2> DEFINE d == Delta(calls[i].since)
  <2>1. IsDelta(calls[i]) /\ store' = store /\ Reply(i, d) /\ ~calls[i].answered
        /\ calls[i].kind # "dismiss"
    BY <1>1, <1>8 DEF AnswerSnapshots, IsDelta
  <2>2. calls[i].since \in Nat \cup {Unknown}
    BY <1>0 DEF Calls
  <2>3. /\ d \in Deltas /\ d.revision = store.revision
        /\ ~d.reset => calls[i].since # Unknown /\ calls[i].since + MaxChanges >= store.revision
        /\ \A p \in d.upserts : p.id \in Shown(store) /\ p.state = store.jobs[p.id].state
        /\ ~d.reset => \A q \in store.removals :
             "main" \in q.audience /\ q.version > calls[i].since => q.id \in d.removed
    BY <1>0, <2>2, DeltaFacts
  <2> HIDE DEF d
  <2>4. d \in Replies
    BY <2>3 DEF Replies
  <2>5. calls'[i].kind = calls[i].kind /\ calls'[i].answered /\ calls'[i].reply = d
    BY <1>2, <2>1, <2>4
  <2>6. Brought(calls'[i]) = d.upserts
    BY <2>1, <2>5 DEF Brought, IsDelta
  <2>7. \A p \in Brought(calls'[i]) : p.id \in Shown(store') /\ p.state = store'.jobs[p.id].state
    BY <2>1, <2>3, <2>6
  <2>8. /\ d.revision = store'.revision
        /\ ~d.reset =>
             /\ calls[i].since # Unknown /\ calls[i].since + MaxChanges >= store'.revision
             /\ \A q \in store'.removals : "main" \in q.audience /\ q.version > calls[i].since
                                             => q.id \in d.removed
    BY <2>1, <2>3
  <2> QED
    BY <1>3, <2>1, <2>4, <2>7, <2>8, ReplyFresh
<1>9. CASE AnswerMove(i)
  <2>1. PICK moved \in {calls[i].ids \subseteq InState("queued"), FALSE} : Reply(i, moved)
    BY <1>9 DEF AnswerMove
  <2>2. moved \in BOOLEAN
    OBVIOUS
  <2>3. calls[i].kind = "move" /\ store' = store /\ ~calls[i].answered
    BY <1>1, <1>9 DEF AnswerMove
  <2> QED
    BY <1>3, <1>5, <2>1, <2>2, <2>3
<1>10. CASE AnswerDismiss(i)
  <2>1. calls[i].kind = "dismiss" /\ ~calls[i].answered
    BY <1>1, <1>10 DEF AnswerDismiss
  <2>2. /\ store' = Dismissed(store, "main", calls[i].ids) /\ Reply(i, TRUE)
        /\ calls[i].ids \in SUBSET DoneIn(store) /\ "main" \in Windows
    BY <1>10 DEF AnswerDismiss, InState, Known, DoneIn, Terminal, Windows
  <2>3. /\ StoreOK(store', unused) /\ Grown(store, store', {})
        /\ DOMAIN store'.jobs = DOMAIN store.jobs
        /\ \A j \in DOMAIN store.jobs : "main" \in store'.jobs[j].dismissed_by
                => "main" \in store.jobs[j].dismissed_by \/ j \in calls[i].ids
    BY <1>0, <2>2, DismissedFacts
  <2>4. \A j \in Jobs : Cleared(store', j) => Cleared(store, j) \/ Clears(calls[i], j)
    BY <2>1, <2>3 DEF Cleared, Shown, Clears
  <2> QED
    BY <1>5, <2>1, <2>2, <2>3, <2>4
<1> QED
  BY <1>6, <1>7, <1>8, <1>9, <1>10 DEF Answer

\* The window's commands.
LEMMA WindowFresh ==
  ASSUME Feed, Fresh, Window
  PROVE  Fresh'
<1>0. /\ Fed(store, unused, tasks, snapshotRevision, snapshotGeneration, locallyDismissed, calls)
      /\ Warns(store, tasks, snapshotRevision, calls) /\ Clean(store, tasks, calls)
      /\ Agreed(calls) /\ Mine \subseteq Jobs /\ calls \in Seq(Calls)
      /\ \A j \in DOMAIN tasks : j \in Jobs \ unused
  BY FeedAssumption DEF Feed, Fed, Fresh, CallsOK, WindowOK, Listed, Coherent
<1>1. ASSUME NEW kind \in Kinds, NEW ids \in SUBSET Jobs, Send(Call(kind, ids)),
             kind \in {"submit", "refresh"} => \E j \in Mine : ids = {j},
             kind # "submit" => ids \cap unused = {},
             kind = "dismiss" => \A j \in ids : j \in DOMAIN tasks /\ Terminal(tasks[j].state),
             NEW q, q = snapshotRevision \/ q = Unknown
      PROVE  /\ Warns(store, tasks, q, calls') /\ Clean(store, tasks, calls')
             /\ Agreed(calls') /\ store' = store
  <2> DEFINE x == Call(kind, ids)
  <2>1. /\ CallOK(store, unused, x) /\ x.kind = kind /\ x.ids = ids /\ ~x.answered
        /\ x.since = IF kind \in {"poll", "delta"} THEN snapshotRevision ELSE Unknown
    BY <1>1, CallFacts
  <2>2. calls' = Append(calls, x) /\ store' = store
    BY <1>1 DEF Send
  <2> HIDE DEF x
  <2>3. /\ x.kind = "dismiss" => \A j \in x.ids : j \in DOMAIN tasks /\ Terminal(tasks[j].state)
        /\ IsDelta(x) => x.since \in {snapshotRevision, Unknown}
        /\ x \in Calls
    BY <1>1, <2>1 DEF IsDelta, CallOK
  <2>4. Warns(store, tasks, q, calls')
    BY <1>0, <1>1, <2>1, <2>2, <2>3, WarnsSent
  <2>5. Clean(store, tasks, calls')
    BY <1>0, <2>1, <2>2, <2>3, CleanSent
  <2>6. /\ DOMAIN calls' = DOMAIN calls \cup {Len(calls) + 1}
        /\ \A k \in DOMAIN calls : calls'[k] = calls[k]
        /\ calls'[Len(calls) + 1] = x
    BY <1>0, <2>2, <2>3, SentFacts
  <2>7. Agreed(calls')
    BY <1>0, <2>1, <2>6 DEF Agreed
  <2> QED
    BY <2>2, <2>4, <2>5, <2>7
<1>2. ASSUME UNCHANGED client, store' = store,
             Warns(store, tasks, snapshotRevision, calls'), Clean(store, tasks, calls'),
             Agreed(calls')
      PROVE  Fresh'
  BY <1>2 DEF Fresh, client
<1>3. CASE Poll
  <2>1. Send(Call("poll", {})) /\ UNCHANGED client /\ "poll" \in Kinds /\ {} \in SUBSET Jobs
    BY <1>3 DEF Poll, Kinds
  <2> QED
    BY <1>1, <1>2, <2>1
<1>4. ASSUME NEW j \in Jobs, submitJob(j)
      PROVE  Fresh'
  <2>1. /\ Send(Call("submit", {j})) /\ UNCHANGED client /\ "submit" \in Kinds /\ {j} \in SUBSET Jobs
        /\ j \in Mine
    BY <1>4 DEF submitJob, Kinds
  <2> QED
    BY <1>1, <1>2, <2>1
<1>5. ASSUME NEW j \in Jobs, requestQueueMove(j)
      PROVE  Fresh'
  <2>1. /\ Send(Call("move", {j})) /\ UNCHANGED client /\ "move" \in Kinds /\ {j} \in SUBSET Jobs
        /\ {j} \cap unused = {}
    BY <1>0, <1>5 DEF requestQueueMove, Kinds
  <2> QED
    BY <1>1, <1>2, <2>1
<1>6. ASSUME NEW j \in Jobs, refreshQuestionTask(j)
      PROVE  Fresh'
  <2>1. /\ Send(Call("refresh", {j})) /\ UNCHANGED client /\ "refresh" \in Kinds /\ {j} \in SUBSET Jobs
        /\ {j} \cap unused = {} /\ j \in Mine
    BY <1>0, <1>6 DEF refreshQuestionTask, Kinds
  <2> QED
    BY <1>1, <1>2, <2>1
<1>7. ASSUME NEW ids \in SUBSET DOMAIN tasks, clearFinished(ids)
      PROVE  Fresh'
  <2>1. /\ Send(Call("dismiss", ids)) /\ "dismiss" \in Kinds /\ ids \in SUBSET Jobs
        /\ ids \cap unused = {}
        /\ \A j \in ids : j \in DOMAIN tasks /\ Terminal(tasks[j].state)
        /\ snapshotRevision' = Unknown /\ tasks' = tasks
    BY <1>0, <1>7 DEF clearFinished, Kinds
  <2>2. /\ Warns(store, tasks, Unknown, calls') /\ Clean(store, tasks, calls')
        /\ Agreed(calls') /\ store' = store
    BY <1>1, <2>1
  <2> QED
    BY <2>1, <2>2 DEF Fresh
<1> QED
  BY <1>3, <1>4, <1>5, <1>6, <1>7 DEF Window

\* The first reply is taken.
LEMMA TakenFresh ==
  ASSUME Feed, Fresh, 1 \in DOMAIN calls, NEW b, b = RemoveAt(calls, 1), NEW h, NEW q,
         \A j \in DOMAIN h : \/ j \in DOMAIN tasks /\ h[j].state = tasks[j].state
                             \/ \E p \in Brought(calls[1]) : p.id = j /\ h[j].state = p.state,
         q \in {snapshotRevision, Unknown} \/ Warned(store, h, b, q),
         calls[1].kind = "dismiss" => \A j \in calls[1].ids \ Mine : j \notin DOMAIN h
  PROVE  Warns(store, h, q, b) /\ Clean(store, h, b) /\ Agreed(b)
<1>1. /\ calls \in Seq(Calls) /\ Agreed(calls) /\ Clean(store, tasks, calls)
      /\ Warns(store, tasks, snapshotRevision, calls)
  BY DEF Feed, CallsOK, Fresh
<1>2. \A j \in DOMAIN h : j \in DOMAIN tasks \/ Names(calls[1], j)
  BY DEF Names
<1>3. Warns(store, h, q, b)
  BY <1>1, <1>2, WarnsTaken
<1>4. Clean(store, h, b)
  BY <1>1, CleanTaken
<1>5. \A k \in DOMAIN b : k + 1 \in DOMAIN calls /\ b[k] = calls[k + 1]
  BY <1>1, FirstTaken
<1>6. Agreed(b)
  BY <1>1, <1>5 DEF Agreed
<1> QED
  BY <1>3, <1>4, <1>6

\* Replies that carry the job they are about.
LEMMA LookFresh ==
  ASSUME Feed, Fresh, 1 \in DOMAIN calls, SubmitReturns(1) \/ RefreshReturns(1)
  PROVE  Fresh'
<1> DEFINE b == RemoveAt(calls, 1)
           P == calls[1].reply
<1>0. tasks \in Rows /\ ran \in [Jobs -> Nat]
  BY DEF Feed, WindowOK, Onces
<1>1. /\ calls[1].answered /\ calls[1].kind \in {"submit", "refresh"} /\ calls' = b
      /\ store' = store
  BY DEF SubmitReturns, RefreshReturns, Arrives
<1>2. CallOK(store, unused, calls[1]) /\ AnswerOK(store, unused, calls[1])
  BY <1>1 DEF Feed, CallsOK, CallOK
<1>3. P \in SUBSET Reports /\ Single(P) /\ Looks(calls[1]) /\ Brought(calls[1]) = P
  BY <1>1, <1>2 DEF AnswerOK, Brought, Looks, IsDelta
<1>4. b = RemoveAt(calls, 1) /\ snapshotRevision \in {snapshotRevision, Unknown}
      /\ calls[1].kind # "dismiss"
  BY <1>1
<1> HIDE DEF b
<1>5. ASSUME NEW Q \in SUBSET P, NEW w, w = applySnapshots([tasks |-> tasks, ran |-> ran], Q),
             NEW z, DOMAIN z = DOMAIN w.tasks,
             \A j \in DOMAIN w.tasks : z[j].state = w.tasks[j].state
      PROVE  Warns(store, z, snapshotRevision, b) /\ Clean(store, z, b) /\ Agreed(b)
  <2>1. Single(Q) /\ Q \in SUBSET Reports
    BY <1>3 DEF Single
  <2>2. Applied(tasks, ran, Q, w.tasks, w.ran)
    BY <1>0, <1>5, <2>1, AppliedFacts
  <2>3. \A j \in DOMAIN z : \/ j \in DOMAIN tasks /\ z[j].state = tasks[j].state
                            \/ \E p \in Brought(calls[1]) : p.id = j /\ z[j].state = p.state
    BY <1>3, <1>5, <2>2 DEF Applied
  <2> QED
    BY <1>4, <2>3, TakenFresh
<1>6. CASE UNCHANGED client
  <2>1. \A j \in DOMAIN tasks : \/ j \in DOMAIN tasks /\ tasks[j].state = tasks[j].state
                                \/ \E p \in Brought(calls[1]) : p.id = j /\ tasks[j].state = p.state
    OBVIOUS
  <2>2. Warns(store, tasks, snapshotRevision, b) /\ Clean(store, tasks, b) /\ Agreed(b)
    BY <1>4, <2>1, TakenFresh
  <2> QED
    BY <1>1, <1>6, <2>2 DEF Fresh, client
<1>7. CASE RefreshReturns(1) /\ ~UNCHANGED client
  <2> DEFINE w == applySnapshots([tasks |-> tasks, ran |-> ran], P)
  <2>1. Shows(w)
    BY <1>7 DEF RefreshReturns, View
  <2>2. Warns(store, w.tasks, snapshotRevision, b) /\ Clean(store, w.tasks, b) /\ Agreed(b)
    BY <1>5
  <2> HIDE DEF w
  <2> QED
    BY <1>1, <2>1, <2>2 DEF Fresh, Shows
<1>8. CASE SubmitReturns(1) /\ ~UNCHANGED client
  <2>1. PICK p \in P : Shows(Promoted(applySnapshots([tasks |-> tasks, ran |-> ran], {p}), p.id))
    BY <1>8 DEF SubmitReturns, View
  <2> DEFINE w == applySnapshots([tasks |-> tasks, ran |-> ran], {p})
             z == Promoted(w, p.id)
  <2>2. /\ DOMAIN z.tasks = DOMAIN w.tasks
        /\ \A j \in DOMAIN w.tasks : z.tasks[j].state = w.tasks[j].state
    <3>1. w = [tasks |-> w.tasks, ran |-> w.ran]
      BY DEF applySnapshots
    <3>2. w.tasks = [j \in DOMAIN w.tasks |-> w.tasks[j]]
      BY DEF applySnapshots
    <3>3. w.tasks \in Rows
      <4>1. {p} \in SUBSET Reports /\ Single({p})
        BY <1>3 DEF Single
      <4> QED
        BY <1>0, <4>1, AppliedFacts
    <3> HIDE DEF w
    <3>4. CASE p.id \in DOMAIN w.tasks
      <4>1. z.tasks = [w.tasks EXCEPT ![p.id].localEffects = TRUE]
        BY <3>1, <3>4 DEF Promoted
      <4>2. \A j \in DOMAIN w.tasks : w.tasks[j] \in Lines
        BY <3>3, RowsFields
      <4> HIDE DEF z
      <4> QED
        BY <3>2, <4>1, <4>2 DEF Lines
    <3>5. CASE p.id \notin DOMAIN w.tasks
      BY <3>5 DEF Promoted
    <3> QED
      BY <3>4, <3>5
  <2>3. Warns(store, z.tasks, snapshotRevision, b) /\ Clean(store, z.tasks, b) /\ Agreed(b)
    <3>1. {p} \in SUBSET P
      OBVIOUS
    <3> HIDE DEF z
    <3> QED
      BY <1>5, <2>2, <3>1
  <2>4. Shows(z)
    BY <2>1
  <2> HIDE DEF z
  <2> QED
    BY <1>1, <2>3, <2>4 DEF Fresh, Shows
<1> QED
  BY <1>6, <1>7, <1>8

\* Deltas, fetched by a poll or after a move.
LEMMA DeltaFresh ==
  ASSUME Feed, Fresh, 1 \in DOMAIN calls, PollReturns(1) \/ PollFails(1) \/ DeltaReturns(1)
  PROVE  Fresh'
<1> DEFINE b == RemoveAt(calls, 1)
           d == calls[1].reply
<1>1. /\ calls[1].answered /\ IsDelta(calls[1]) /\ calls[1].kind # "dismiss" /\ calls' = b
      /\ store' = store
      /\ UNCHANGED client \/ applySnapshotDelta(d)
  BY DEF PollReturns, PollFails, DeltaReturns, Arrives, IsDelta
<1>2. CASE UNCHANGED client
  <2>1. Warns(store, tasks, snapshotRevision, b) /\ Clean(store, tasks, b) /\ Agreed(b)
    BY <1>1, TakenFresh
  <2> HIDE DEF b
  <2> QED
    BY <1>1, <1>2, <2>1 DEF Fresh, client
<1>3. CASE tasks' = Reconciled(d).tasks /\ snapshotRevision' = d.revision
  <2> DEFINE h == Reconciled(d).tasks
             q == d.revision
             k == Restrict(tasks, Kept(d))
  <2>1. AnswerOK(store, unused, calls[1])
    BY <1>1 DEF Feed, CallsOK, CallOK
  <2>2. d \in Deltas /\ Single(d.upserts) /\ Brought(calls[1]) = d.upserts
    BY <1>1, <2>1 DEF AnswerOK, Brought
  <2>3. /\ DOMAIN k = Kept(d) /\ Kept(d) \subseteq DOMAIN tasks
        /\ \A j \in Kept(d) : k[j] = tasks[j]
        /\ Decoded(d) \subseteq d.upserts
        /\ Applied(k, ran, Decoded(d), h, Reconciled(d).ran)
    BY <2>2, ReconciledFacts
  <2> HIDE DEF k, h
  <2>4. \A j \in DOMAIN h : \/ j \in DOMAIN tasks /\ h[j].state = tasks[j].state
                            \/ \E p \in Brought(calls[1]) : p.id = j /\ h[j].state = p.state
    BY <2>2, <2>3 DEF Applied
  <2>5. Warned(store, h, b, q)
    BY <1>1, DeltaWarned DEF Fresh, h
  <2> HIDE DEF q
  <2>6. Warns(store, h, q, b) /\ Clean(store, h, b) /\ Agreed(b)
    BY <1>1, <2>4, <2>5, TakenFresh
  <2> HIDE DEF b
  <2> QED
    BY <1>1, <1>3, <2>6 DEF Fresh, h, q
<1> QED
  BY <1>1, <1>2, <1>3 DEF applySnapshotDelta

\* A move that succeeded asks for what changed since.
LEMMA MoveFresh ==
  ASSUME Feed, Fresh, 1 \in DOMAIN calls, MoveReturns(1)
  PROVE  Fresh'
<1> DEFINE b == RemoveAt(calls, 1)
           x == Call("delta", {})
<1>1. /\ calls[1].answered /\ calls[1].kind # "dismiss" /\ store' = store /\ UNCHANGED client
      /\ calls' = b \/ calls' = Append(b, x)
  BY DEF MoveReturns, Arrives
<1>2. Warns(store, tasks, snapshotRevision, b) /\ Clean(store, tasks, b) /\ Agreed(b)
  BY <1>1, TakenFresh
<1>3. Fed(store, unused, tasks, snapshotRevision, snapshotGeneration, locallyDismissed, b)
  BY <1>1, TakenFacts DEF Feed, Fed
<1>4. /\ CallOK(store, unused, x) /\ x.kind = "delta" /\ ~x.answered
      /\ x.since = snapshotRevision
  BY CallFacts DEF Kinds
<1> HIDE DEF b, x
<1>5. CASE calls' = b
  BY <1>1, <1>2, <1>5 DEF Fresh, client
<1>6. CASE calls' = Append(b, x)
  <2>1. /\ IsDelta(x) => x.since \in {snapshotRevision, Unknown}
        /\ x.kind = "dismiss" => \A j \in x.ids : j \in DOMAIN tasks /\ Terminal(tasks[j].state)
        /\ b \in Seq(Calls) /\ x \in Calls
    BY <1>3, <1>4 DEF Fed, CallsOK, CallOK
  <2>2. Warns(store, tasks, snapshotRevision, calls')
    BY <1>2, <1>3, <1>4, <1>6, <2>1, WarnsSent
  <2>3. Clean(store, tasks, calls')
    BY <1>2, <1>3, <1>4, <1>6, <2>1, CleanSent
  <2>4. /\ DOMAIN calls' = DOMAIN b \cup {Len(b) + 1}
        /\ \A k \in DOMAIN b : calls'[k] = b[k]
        /\ calls'[Len(b) + 1] = x
    BY <1>6, <2>1, SentFacts
  <2>5. Agreed(calls')
    BY <1>2, <1>4, <2>4 DEF Agreed
  <2> QED
    BY <1>1, <2>2, <2>3, <2>5 DEF Fresh, client
<1> QED
  BY <1>1, <1>5, <1>6

\* The rows that were cleared go.
LEMMA ClearFresh ==
  ASSUME Feed, Fresh, 1 \in DOMAIN calls, ClearReturns(1)
  PROVE  Fresh'
<1> DEFINE b == RemoveAt(calls, 1)
           ids == calls[1].ids
           ended == {j \in DOMAIN tasks \cap ids : Terminal(tasks[j].state)}
           h == Restrict(tasks, DOMAIN tasks \ ended)
<1>1. /\ calls[1].kind = "dismiss" /\ calls[1].answered /\ calls' = b /\ store' = store
  BY DEF ClearReturns, Arrives
<1>2. calls[1].reply
  BY <1>1 DEF Fresh, Agreed
<1>3. tasks' = h /\ snapshotRevision' = snapshotRevision
  BY <1>2 DEF ClearReturns, Without
<1>4. ids \subseteq Jobs /\ tasks \in Rows
  BY DEF Feed, CallsOK, CallOK, Calls, WindowOK
<1>5. DOMAIN h = DOMAIN tasks \ ended /\ \A j \in DOMAIN tasks \ ended : h[j] = tasks[j]
  <2>1. DOMAIN tasks \ ended \in SUBSET DOMAIN tasks
    OBVIOUS
  <2> HIDE DEF ended
  <2> QED
    BY <1>4, <2>1, RowsRestricted
<1>6. ASSUME NEW j \in ids \ Mine
      PROVE  j \notin DOMAIN h
  <2>1. j \in DOMAIN tasks => Terminal(tasks[j].state)
    <3>1. Leaves(store, tasks, calls, j) /\ Clears(calls[1], j)
      BY <1>1, <1>4 DEF Fresh, Clean, Clears
    <3> QED
      BY <3>1 DEF Leaves
  <2> QED
    BY <1>5, <2>1
<1>7. \A j \in DOMAIN h : \/ j \in DOMAIN tasks /\ h[j].state = tasks[j].state
                          \/ \E p \in Brought(calls[1]) : p.id = j /\ h[j].state = p.state
  BY <1>5
<1> HIDE DEF h
<1>8. Warns(store, h, snapshotRevision, b) /\ Clean(store, h, b) /\ Agreed(b)
  BY <1>6, <1>7, TakenFresh
<1> HIDE DEF b
<1> QED
  BY <1>1, <1>3, <1>8 DEF Fresh

\* An event is of a job of this window, and makes no row.
LEMMA EventFresh ==
  ASSUME Feed, Fresh, NEW p \in events, EventArrives(p)
  PROVE  Fresh'
<1> DEFINE w == applySnapshots([tasks |-> tasks, ran |-> ran], {p})
           h == w.tasks
<1>0. tasks \in Rows /\ ran \in [Jobs -> Nat]
  BY DEF Feed, WindowOK, Onces
<1>1. {p} \in SUBSET Reports /\ Single({p}) /\ ~p.spec /\ p.id \in Mine
  BY DEF Feed, EventsOK, Single
<1>2. Applied(tasks, ran, {p}, h, w.ran)
  BY <1>0, <1>1, AppliedFacts
<1>3. tasks' = h /\ UNCHANGED <<store, calls, snapshotRevision>>
  BY DEF EventArrives, View, Shows
<1> HIDE DEF w, h
<1>4. DOMAIN h = DOMAIN tasks /\ \A j \in DOMAIN h \ Mine : h[j] = tasks[j]
  BY <1>1, <1>2 DEF Applied, Told
<1>5. \A j : \A k : Held(h, calls, j, k) <=> Held(tasks, calls, j, k)
  BY <1>4 DEF Held
<1>6. Warns(store, h, snapshotRevision, calls)
  BY <1>5 DEF Fresh, Warns, Warned, Drops
<1>7. Clean(store, h, calls)
  <2> SUFFICES ASSUME NEW j \in Jobs \ Mine PROVE Leaves(store, h, calls, j)
    BY DEF Clean
  <2>1. Leaves(store, tasks, calls, j) /\ (j \in DOMAIN h => h[j] = tasks[j])
    BY <1>4 DEF Fresh, Clean
  <2> QED
    BY <1>4, <2>1 DEF Leaves
<1> QED
  BY <1>3, <1>6, <1>7 DEF Fresh

\* A clearing that was refused is not forgotten.
LEMMA RefusedStays == Feed /\ [Next]_vars => refused' = refused \/ refused' = TRUE
<1> SUFFICES ASSUME Feed, [Next]_vars PROVE refused' = refused \/ refused' = TRUE
  OBVIOUS
<1>1. CASE Backend
  BY <1>1, BackendWorks DEF Worked
<1>2. CASE Window
  BY <1>2 DEF Window, Poll, submitJob, requestQueueMove, refreshQuestionTask, clearFinished, Send
<1>3. ASSUME NEW i \in DOMAIN calls, Answer(i) PROVE refused' = refused \/ refused' = TRUE
  BY <1>3 DEF Answer, AnswerSubmit, AnswerSnapshots, AnswerSnapshot, AnswerMove, AnswerDismiss
<1>4. ASSUME NEW i \in DOMAIN calls, Return(i) \/ PollFails(i) PROVE refused' = refused
  BY <1>4 DEF Return, SubmitReturns, PollReturns, PollFails, DeltaReturns, MoveReturns,
              RefreshReturns, ClearReturns, Arrives
<1>5. ASSUME NEW p \in events, EventArrives(p) PROVE refused' = refused
  BY <1>5 DEF EventArrives
<1>6. CASE UNCHANGED vars
  BY <1>6 DEF vars
<1> QED
  BY <1>1, <1>2, <1>3, <1>4, <1>5, <1>6 DEF Next

\* Until a clearing is refused, every step keeps the window informed of what
\* goes.
LEMMA FreshStep == InOrder /\ ~refused' /\ Feed /\ Fresh /\ [Next]_vars => Fresh'
<1> SUFFICES ASSUME InOrder, ~refused', Feed, Fresh, [Next]_vars PROVE Fresh'
  OBVIOUS
<1>1. CASE Backend
  BY <1>1, BackendWorks, WorkedFresh
<1>2. CASE Window
  BY <1>2, WindowFresh
<1>3. ASSUME NEW i \in DOMAIN calls, Answer(i) PROVE Fresh'
  BY <1>3, AnswerFresh
<1>4. ASSUME NEW i \in DOMAIN calls, Return(i) \/ PollFails(i) PROVE Fresh'
  <2>1. i = 1
    BY <1>4 DEF Return, SubmitReturns, PollReturns, PollFails, DeltaReturns, MoveReturns,
                RefreshReturns, ClearReturns, Arrives
  <2> QED
    BY <1>4, <2>1, LookFresh, DeltaFresh, MoveFresh, ClearFresh DEF Return
<1>5. ASSUME NEW p \in events, EventArrives(p) PROVE Fresh'
  BY <1>5, EventFresh
<1>6. CASE UNCHANGED vars
  BY <1>6 DEF vars, Fresh
<1> QED
  BY <1>1, <1>2, <1>3, <1>4, <1>5, <1>6 DEF Next

\* A window that has caught up has been told of all that went.
LEMMA FreshShows == Feed /\ Fresh => NoStaleRows /\ ClearedStaysCleared
<1> SUFFICES ASSUME Feed, Fresh PROVE NoStaleRows /\ ClearedStaysCleared
  OBVIOUS
<1>1. /\ store.revision \in Nat /\ Visible = Shown(store)
      /\ \A q \in store.removals : q.version \in 1..store.revision
  BY StoreFields DEF Feed, StoreOK, Sound, Shown, Visible, Known
<1>2. NoStaleRows
  <2> SUFFICES ASSUME snapshotRevision = store.revision, NEW j \in DOMAIN tasks,
                      j \notin Shown(store)
               PROVE  FALSE
    BY <1>1 DEF NoStaleRows
  <2>1. Warned(store, tasks, calls, store.revision)
    BY <1>1 DEF Fresh, Warns, Unknown
  <2>2. Held(tasks, calls, j, 0) /\ 0 \in Nat
    BY DEF Held
  <2>3. Announced(store, j, store.revision)
    BY <2>1, <2>2 DEF Warned
  <2>4. ~(store.revision + MaxChanges < store.revision)
    BY <1>1, Bounds
  <2>5. \A q \in store.removals : ~(q.version > store.revision)
    BY <1>1
  <2> QED
    BY <2>3, <2>4, <2>5 DEF Announced
<1>3. ClearedStaysCleared
  <2> SUFFICES ASSUME NEW j \in Jobs \ Mine, j \in Known, "main" \in store.jobs[j].dismissed_by,
                      j \in DOMAIN tasks
               PROVE  \E i \in Waiting("dismiss") : j \in calls[i].ids
    BY DEF ClearedStaysCleared
  <2>1. Cleared(store, j) /\ Leaves(store, tasks, calls, j)
    BY DEF Cleared, Shown, Known, Fresh, Clean
  <2> QED
    BY <2>1 DEF Leaves, Clearing, Clears, Waiting
<1> QED
  BY <1>2, <1>3

\* While replies come in order and no clearing has been refused, the window
\* lists nothing the store has dropped, and what was cleared stays away.
\* [jobs.svelte.ts clearFinished, requestQueueMove, applySnapshotDelta]
THEOREM NothingStale == Spec => [](InOrder /\ ~refused => NoStaleRows /\ ClearedStaysCleared)
<1> DEFINE Inv == Feed /\ (InOrder /\ ~refused => Fresh)
<1>1. Init => Inv
  BY FeedInit, FreshInit
<1>2. Inv /\ [Next]_vars => Inv'
  <2> SUFFICES ASSUME Inv, [Next]_vars PROVE Inv'
    OBVIOUS
  <2>1. Feed'
    BY FeedStep
  <2>2. ASSUME InOrder, ~refused' PROVE Fresh'
    <3>1. ~refused
      BY <2>2, RefusedStays
    <3> QED
      BY <2>2, <3>1, FreshStep
  <2> QED
    BY <2>1, <2>2
<1>3. Inv => (InOrder /\ ~refused => NoStaleRows /\ ClearedStaysCleared)
  BY FreshShows
<1> QED
  BY <1>1, <1>2, <1>3, PTL DEF Spec

\* The rows of the window are right: the completion effects whatever the order
\* of replies, the rest while replies come in order.
THEOREM RowsStayRight == Spec => []RowsAreRight
<1>1. EffectsOnce /\ (InOrder => CaughtUp)
        /\ (InOrder /\ ~refused => NoStaleRows /\ ClearedStaysCleared) => RowsAreRight
  BY DEF RowsAreRight
<1> QED
  BY <1>1, EffectsRunOnce, MissesNothing, NothingStale, PTL

=============================================================================
