----------------------- MODULE SplitPublicationProofs -----------------------
(***************************************************************************)
(* Theorems about SplitPublication, for any processes, runs, names and     *)
(* faults.                                                                 *)
(***************************************************************************)
EXTENDS SplitPublication, WellFoundedInduction, TLAPS

Decided == {decided[i] : i \in DOMAIN decided}

\* At name n there is nothing, or a file of run r or of another program.
Only(s, r, n) == s.final[n] = Missing \/ s.final[n].by \in {Stray, r}

\* At name n there is nothing, what the transaction found there, or a file of
\* its run or of another program.
Either(s, t, n) == s.final[n] = t.prev[n] \/ Only(s, t.run, n)

\* Run r has left nothing behind but parts.
Traceless(s, r) ==
  /\ s.backup[r] = Nowhere
  /\ \A n \in Names : s.final[n] = Missing \/ s.final[n].by # r

\* What a transaction says of its run, in the journal and in a process.
Legal(t) ==
  /\ t.run \in Runs
  /\ t.outs = sets[t.run].names
  /\ \A n \in Bound(t) : t.prev[n].by # t.run

Outputs(t) == [n \in Names |-> Output(t, n)]

\* Every name is where recovery admits it.
Orderly(s, t) ==
  \A n \in Names :
    /\ n \in Bound(t) =>
         \/ s.final[n] = t.prev[n] /\ s.backup[t.run][n] = Missing
         \/ /\ s.final[n] \in {Missing, Output(t, n)}
            /\ s.backup[t.run][n] = t.prev[n]
    /\ n \in t.outs => (n \in s.part[t.run]) # (s.final[n] = Part(t.run, n))
    /\ s.final[n] \in {Missing, t.prev[n], Output(t, n)}

\* What holds of every tree that a power loss may leave.
Journalled(s) ==
  LET t == s.journal IN
  /\ Legal(t) /\ t.run \in Decided /\ sets[t.run].whole
  /\ \A n \in Names : Either(s, t, n)
  /\ touched = 0 => t.run \in Since(acked) /\ Orderly(s, t)

Kept(s) ==
  /\ s.journal # NoTx => Journalled(s)
  /\ NeverMixed(s) /\ WholeFamily(s)
  /\ \A r \in Runs \ Decided : Traceless(s, r)
  /\ {f \in kept : f.by # Stray} \subseteq Held(s)

\* Parts of run r that are there will be there after a power loss.
Firm(r) == \A s \in disk : fs.part[r] \subseteq s.part[r]

DiskOK ==
  /\ fs \in disk /\ \A s \in disk : Kept(s)
  /\ kept \subseteq Held(fs)
  /\ fs.journal # NoTx => Firm(fs.journal.run)

LedgerOK ==
  /\ touched \in Nat /\ faults \in Nat
  /\ Decided \subseteq used \cup {First} /\ acked \in Decided
  /\ \A f \in kept : f.by \in Runs => f.by \in Decided

\* Live processes are at work on runs of their own.
Distinct ==
  \A p, q \in Procs : p # q => proc[p].run = 0 \/ proc[p].run # proc[q].run
-----------------------------------------------------------------------------
(***************************************************************************)
(* What a process knows, at each point.                                    *)
(***************************************************************************)
Preparing == {"staged", "open", "snapshot", "source", "journal"}
Backing   == {"backup", "moveBackup", "syncBackup"}
Replaced  == {"install", "moveInstall", "syncInstall", "verify", "clear"}
Driving   == {"journalSync", "rebind"} \cup Backing \cup Replaced
Placing   == {"place", "placeSync"}

Undecided(r) == r \notin Decided

\* Parts that a failure may remove have never been members.
Private(r) == \A n \in fs.part[r] : Part(r, n) \notin kept

Live(p) ==
  LET q == proc[p] IN
  /\ q.run \in used
  /\ sets[q.run].names = q.outs
  /\ sets[q.run].whole <=> q.policy # "NoReplace"
  /\ q.at \in Preparing \/ (q.at \in Driving \cup {"clearSync"} /\ ~Own(p)) =>
       Undecided(q.run) /\ fs.part[q.run] = q.outs
  /\ q.at \in Driving \cup {"clearSync"} /\ Own(p) => q.policy # "NoReplace"

\* Between the snapshot and the decision.
Seen(p) ==
  LET q == proc[p]
      t == q.tx IN
  /\ Legal(t) /\ Own(p)
  /\ q.policy = "NoReplace" => t.prev = Nowhere
  /\ \A n \in Names : \/ fs.final[n] \in {Missing, t.prev[n]}
                      \/ fs.final[n].by = Stray
  /\ touched = 0 => fs.final = t.prev

Knows(p) ==
  LET q  == proc[p]
      t  == q.tx
      at == q.at IN
  /\ at = "idle" => q.run = 0
  /\ at # "idle" => Live(p)
  /\ at \in {"staged", "open", "snapshot"} => t = NoTx
  /\ at \in {"snapshot", "source", "journal", "clearSync", "bind"} \cup Placing
       => fs.journal = NoTx
  /\ at \in {"source", "journal"} => Seen(p)
  /\ at = "journal" => q.policy # "NoReplace" /\ Firm(q.run)
  /\ at \in Driving => fs.journal = t /\ t.run \in Runs
  /\ at \in Backing => /\ q.left \subseteq Bound(t)
                       /\ \A n \in Names \ q.left : Only(fs, t.run, n)
  /\ at \in Replaced \cup {"rebind"} => \A n \in Names : Only(fs, t.run, n)
  /\ at \in Replaced => q.left \subseteq t.outs
  /\ at \in {"moveBackup", "syncBackup", "moveInstall", "syncInstall"} =>
       q.left # {}
  /\ at = "moveInstall" => Next_(p) \in fs.part[t.run]
  /\ at = "clear" => (touched = 0 => fs.final = Outputs(t))
  /\ at = "clearSync" => /\ Legal(t) /\ t.run \in Decided
                         /\ touched = 0 => /\ fs.final = Outputs(t)
                                           /\ t.run \in Since(acked)
  /\ at \in Placing => /\ q.policy = "NoReplace" /\ q.run \in Decided
                       /\ q.run # acked /\ Own(p) /\ t.outs = q.outs
                       /\ Private(q.run)
                       /\ touched = 0 => q.run \in Since(acked)
  /\ at = "place" => /\ Firm(q.run)
                     /\ q.left \subseteq fs.part[q.run] \cap q.outs
                     /\ \A n \in Names : Only(fs, q.run, n)
                     /\ touched = 0 => \A n \in Names :
                          fs.final[n] = IF n \in q.left THEN Missing
                                        ELSE Output(t, n)
  /\ at = "placeSync" => (touched = 0 => fs.final = Outputs(t))
  /\ at = "bind" => /\ q.run \in Decided
                    /\ touched = 0 => \A s \in disk :
                         s.journal = NoTx /\ Members(s) = SetOf(q.run)
  /\ at = "cleanup" => /\ Undecided(q.run) \/ q.policy = "NoReplace"
                       /\ Private(q.run)

IInv ==
  TypeOK /\ DiskOK /\ LedgerOK /\ Distinct /\ \A p \in Procs : Knows(p)

-----------------------------------------------------------------------------
(***************************************************************************)
(* Names, trees and transactions.                                          *)
(***************************************************************************)
\* The loops end: a set of numbers has a least one.  [volumes/publication.rs
\* resume_with visits the names in order]
LEMMA LeastIsIn ==
  ASSUME NEW S \in SUBSET Nat, S # {}
  PROVE  Least(S) \in S
<1> DEFINE R == {ss \in Nat \X Nat : ss[1] < ss[2]}
<1>1. IsWellFoundedOn(R, Nat)
  BY NatLessThanWellFounded DEF OpToRel
<1>2. PICK x \in S : \A y \in S : <<y, x>> \notin R
  BY <1>1, WFMin
<1>3. ASSUME NEW y \in S PROVE x <= y
  <2> DEFINE pair == <<y, x>>
  <2>1. pair \in Nat \X Nat /\ pair[1] = y /\ pair[2] = x
    OBVIOUS
  <2>2. pair \notin R
    BY <1>2
  <2>3. ~(y < x)
    BY <2>1, <2>2
  <2> QED
    BY <2>1, <2>3
<1> QED
  BY <1>3 DEF Least

\* What there is to know about the values of the model.
LEMMA Values ==
  /\ Runs \subseteq Nat \ {0} /\ Names \subseteq Nat
  /\ 0 \notin Runs /\ First \notin Runs /\ Stray \notin Runs
  /\ First # Stray
  /\ \A r \in Runs \cup {First, Stray}, n \in Nat :
       /\ Part(r, n) \in File /\ Part(r, n) # Missing
       /\ Part(r, n).by = r /\ Part(r, n).name = n
  /\ \A f \in File : f # Missing
  /\ Nowhere \in [Names -> Slot] /\ NoTx \in Record
BY SplitAssumption DEF First, Stray, Part, File, Nowhere, Slot, NoTx, Record

\* The part of a run is a file of that run.  [volumes.rs, the private names]
LEMMA PartOf ==
  ASSUME NEW r \in Runs, NEW n \in Names
  PROVE  /\ Part(r, n) \in File /\ Part(r, n) # Missing /\ n \in Nat
         /\ Part(r, n).by = r /\ Part(r, n).by # Stray
BY Values

\* Moving a file, writing a part or a journal makes a directory again.
LEMMA TreeUpdates ==
  ASSUME NEW s \in Tree, NEW r \in Runs, NEW n \in Names
  PROVE  /\ \A f \in Slot : [s EXCEPT !.final[n] = f] \in Tree
         /\ \A f \in Slot : [s EXCEPT !.backup[r][n] = f] \in Tree
         /\ \A f, g \in Slot :
              [s EXCEPT !.final[n] = f, !.backup[r][n] = g] \in Tree
         /\ \A f \in Slot, X \in SUBSET Names :
              [s EXCEPT !.final[n] = f, !.part[r] = X] \in Tree
         /\ \A X \in SUBSET Names : [s EXCEPT !.part[r] = X] \in Tree
         /\ \A t \in Record : [s EXCEPT !.journal = t] \in Tree
BY DEF Tree

\* Where a file may be.
LEMMA WhereItIs ==
  ASSUME NEW s, NEW f
  PROVE  f \in Held(s) <=>
           \/ f # Missing /\ \E n \in Names : f = s.final[n]
           \/ f # Missing /\ \E r \in Runs, n \in Names : f = s.backup[r][n]
           \/ \E r \in Runs : \E n \in s.part[r] : f = Part(r, n)
<1>1. f \in Members(s) <=> f # Missing /\ \E n \in Names : f = s.final[n]
  BY DEF Members
<1>2. f \in Backups(s) <=>
        f # Missing /\ \E r \in Runs, n \in Names : f = s.backup[r][n]
  BY DEF Backups
<1>3. f \in Parts(s) <=> \E r \in Runs : \E n \in s.part[r] : f = Part(r, n)
  <2> DEFINE A(r) == {Part(r, n) : n \in s.part[r]}
             all == {A(r) : r \in Runs}
  <2>1. \A r : f \in A(r) <=> \E n \in s.part[r] : f = Part(r, n)
    OBVIOUS
  <2>2. \A S : S \in all <=> \E r \in Runs : S = A(r)
    OBVIOUS
  <2>3. f \in UNION all <=> \E S \in all : f \in S
    OBVIOUS
  <2> HIDE DEF A, all
  <2>4. f \in UNION all <=> \E r \in Runs : f \in A(r)
    BY <2>2, <2>3
  <2>5. Parts(s) = UNION all
    BY DEF Parts, all, A
  <2> QED
    BY <2>1, <2>4, <2>5
<1> QED
  BY <1>1, <1>2, <1>3 DEF Held

\* Decisions are remembered.
LEMMA SinceGrows ==
  ASSUME NEW r, decided \in Seq(Runs \cup {First}), NEW x \in Runs,
         decided' \in {decided, Append(decided, x)}
  PROVE  /\ Decided \subseteq Decided' /\ Decided' \subseteq Decided \cup {x}
         /\ Since(r) \subseteq Since(r)'
         /\ decided' = Append(decided, x) =>
              x \in Decided' /\ (r \in Decided => x \in Since(r)')
<1>1. CASE decided' = decided
  <2>1. Append(decided, x) # decided
    OBVIOUS
  <2> QED
    BY <1>1, <2>1 DEF Decided, Since
<1>2. CASE decided' = Append(decided, x)
  <2> DEFINE k == Len(decided) + 1
  <2>1. /\ DOMAIN decided' = 1 .. k /\ DOMAIN decided = 1 .. Len(decided)
        /\ k \in DOMAIN decided' /\ decided'[k] = x
        /\ \A i \in DOMAIN decided : i \in DOMAIN decided' /\ i \in 1 .. k
                                       /\ decided'[i] = decided[i]
        /\ \A i \in DOMAIN decided' : i \in DOMAIN decided \/ i = k
    BY <1>2
  <2>2. Decided \subseteq Decided' /\ Decided' \subseteq Decided \cup {x}
        /\ x \in Decided'
    BY <2>1 DEF Decided
  <2>3. ASSUME NEW i \in DOMAIN decided, NEW a \in 1 .. i, decided[a] = r
        PROVE  decided[i] \in Since(r)'
    <3>1. a \in DOMAIN decided
      BY <2>1, <2>3
    <3> QED
      BY <2>1, <2>3, <3>1 DEF Since
  <2>4. Since(r) \subseteq Since(r)'
    BY <2>3 DEF Since
  <2>5. r \in Decided => x \in Since(r)'
    BY <2>1 DEF Decided, Since
  <2> QED
    BY <2>2, <2>4, <2>5
<1> QED
  BY <1>1, <1>2

\* What was decided since a run is decided, and the run among it.
LEMMA SinceDecided ==
  ASSUME NEW r, decided \in Seq(Runs \cup {First})
  PROVE  /\ Since(r) \subseteq Decided
         /\ r \in Decided => r \in Since(r)
<1>1. ASSUME NEW i \in DOMAIN decided PROVE i \in 1 .. i
  OBVIOUS
<1> QED
  BY <1>1 DEF Since, Decided

-----------------------------------------------------------------------------
(***************************************************************************)
(* What a step leaves alone.                                               *)
(***************************************************************************)
LEMMA Types ==
  ASSUME IInv, NEW p \in Procs
  PROVE  /\ fs \in Tree /\ fs \in disk /\ Kept(fs) /\ \A s \in disk : s \in Tree
         /\ proc \in [Procs -> Process] /\ proc[p] \in Process
         /\ decided \in Seq(Runs \cup {First})
         /\ Decided \subseteq used \cup {First}
         /\ used \subseteq Runs /\ kept \subseteq File
         /\ proc[p].at # "idle" => proc[p].run \in Runs
         /\ Knows(p)
BY DEF IInv, DiskOK, LedgerOK, TypeOK, Knows, Live

\* A tree that a power loss may leave stays good while nothing is forgotten
\* and no new success is reported.
LEMMA KeptStays ==
  ASSUME decided \in Seq(Runs \cup {First}), acked' = acked,
         decided' = decided \/ \E x \in Runs : decided' = Append(decided, x),
         \A r \in Decided : sets'[r] = sets[r],
         touched' = 0 => touched = 0,
         NEW s, Kept(s), {f \in kept' : f.by # Stray} \subseteq Held(s)
  PROVE  Kept(s)'
<1>1. Decided \subseteq Decided' /\ Since(acked) \subseteq Since(acked)'
      /\ Since(acked) \subseteq Decided
  <2>1. CASE decided' = decided
    BY <2>1, SinceDecided DEF Decided, Since
  <2>2. CASE \E x \in Runs : decided' = Append(decided, x)
    BY <2>2, SinceGrows, SinceDecided
  <2> QED
    BY <2>1, <2>2
<1>2. s.journal # NoTx => Journalled(s)'
  <2>1. ASSUME s.journal # NoTx PROVE Journalled(s)'
    BY <1>1, <2>1 DEF Kept, Journalled, Legal, Orderly, Either, Only, Output,
       Bound
  <2> QED
    BY <2>1
<1>3. WholeFamily(s)'
  <2>1. \A r \in Since(acked) :
          SetOf(r)' = SetOf(r) /\ sets'[r].whole = sets[r].whole
    BY <1>1 DEF SetOf
  <2>2. Members(s)' = Members(s)
    BY DEF Members
  <2> QED
    BY <1>1, <2>1, <2>2 DEF Kept, WholeFamily
<1>4. NeverMixed(s)'
  BY DEF Kept, NeverMixed, Members
<1>5. \A r \in Runs \ Decided' : Traceless(s, r)'
  BY <1>1 DEF Kept, Traceless
<1> QED
  BY <1>2, <1>3, <1>4, <1>5 DEF Kept, Held, Members

\* Goodness of a tree is about its members, backups and journal, and about the
\* parts of the run in the journal.
LEMMA KeptParts ==
  ASSUME NEW s, NEW t, Kept(s), t.final = s.final, t.backup = s.backup,
         t.journal = s.journal,
         s.journal # NoTx => t.part[s.journal.run] = s.part[s.journal.run],
         {f \in kept : f.by # Stray} \subseteq Held(t)
  PROVE  Kept(t)
<1>1. s.journal # NoTx => Journalled(t)
  <2>1. ASSUME s.journal # NoTx PROVE Journalled(t)
    BY <2>1 DEF Kept, Journalled, Orderly, Either, Only
  <2> QED
    BY <2>1
<1>2. Members(t) = Members(s)
  BY DEF Members
<1> QED
  BY <1>1, <1>2 DEF Kept, NeverMixed, WholeFamily, Traceless

\* Who waits, or removes its own parts, knows little.
LEMMA Waiting ==
  ASSUME IInv, NEW p \in Procs, NEW q \in Procs \ {p},
         proc[q].at \in {"idle", "staged", "cleanup"}, proc'[q] = proc[q],
         used \subseteq used', \A r \in used : sets'[r] = sets[r],
         Decided' \subseteq Decided \cup {proc[p].run},
         proc[q].at # "idle" => fs'.part[proc[q].run] = fs.part[proc[q].run],
         proc[q].at # "idle" => \A n \in Names :
           Part(proc[q].run, n) \in kept' => Part(proc[q].run, n) \in kept
  PROVE  Knows(q)'
<1>1. Knows(q) /\ (proc[q].run # 0 => proc[q].run # proc[p].run)
  BY DEF IInv, Distinct
<1>2. CASE proc[q].at = "idle"
  BY <1>1, <1>2 DEF Knows, Preparing, Backing, Replaced, Driving, Placing
<1>3. CASE proc[q].at \in {"staged", "cleanup"}
  <2>1. /\ Live(q) /\ proc[q].run \in used /\ proc[q].run # proc[p].run
        /\ fs.part[proc[q].run] \subseteq Names
    <3>1. Live(q) /\ proc[q].run \in Runs /\ fs \in Tree
      BY <1>1, <1>3, Types DEF Knows
    <3>2. proc[q].run \in used /\ proc[q].run # proc[p].run
      BY <1>1, <3>1, Values DEF Live
    <3> QED
      BY <3>1, <3>2 DEF Tree
  <2>2. Live(q)'
    BY <1>3, <2>1 DEF Live, Preparing, Backing, Replaced, Driving, Placing,
       Undecided
  <2> QED
    BY <1>1, <1>3, <2>1, <2>2
    DEF Knows, Private, Preparing, Backing, Replaced, Driving, Placing,
        Undecided
<1> QED
  BY <1>2, <1>3

\* What a process knows stays true when members, journal and the parts of its
\* run and of its transaction stay.
LEMMA Elsewhere ==
  ASSUME IInv, NEW q \in Procs, proc'[q] = proc[q],
         fs'.final = fs.final, fs'.journal = fs.journal,
         proc[q].run \in Runs => fs'.part[proc[q].run] = fs.part[proc[q].run],
         proc[q].at \in Driving =>
           fs'.part[proc[q].tx.run] = fs.part[proc[q].tx.run],
         \A s \in disk' : s \in disk \/ s = fs',
         UNCHANGED <<decided, acked, touched, kept>>,
         used \subseteq used', \A r \in used : sets'[r] = sets[r]
  PROVE  Knows(q)'
<1> DEFINE at == proc[q].at
           t  == proc[q].tx
<1>1. Knows(q) /\ fs \in disk /\ at \in Points
  BY Types DEF Process
<1>2. Decided' = Decided /\ Since(acked)' = Since(acked)
  BY DEF Decided, Since
<1>3. CASE at = "idle"
  BY <1>1, <1>3 DEF Knows, Preparing, Backing, Replaced, Driving, Placing
<1>4. CASE at # "idle"
  <2>1. Live(q) /\ proc[q].run \in Runs /\ proc[q].run \in used
        /\ fs'.part[proc[q].run] = fs.part[proc[q].run]
    BY <1>1, <1>4, Types DEF Knows, Live
  <2>2. Live(q)'
    BY <1>2, <2>1 DEF Live, Own, Undecided
  <2>3. Firm(proc[q].run) => Firm(proc[q].run)'
    BY <2>1 DEF Firm
  <2>4. Private(proc[q].run)' <=> Private(proc[q].run)
    BY <2>1 DEF Private
  <2>5. Own(q)' <=> Own(q)
    BY DEF Own
  <2>6. SetOf(proc[q].run)' = SetOf(proc[q].run)
    BY <2>1 DEF SetOf
  <2>7. \A s, r, n : s.final = fs.final => (Only(s, r, n) <=> Only(fs, r, n))
    BY DEF Only
  <2>8. Next_(q)' = Next_(q)
    BY DEF Next_
  <2>9. CASE at \in {"staged", "open", "snapshot", "cleanup"}
    BY <1>1, <1>2, <2>1, <2>2, <2>4, <2>9
    DEF Knows, Preparing, Backing, Replaced, Driving, Placing, Undecided
  <2>10. CASE at \in {"source", "journal"}
    <3>1. proc[q].run = t.run /\ Legal(t) /\ Seen(q)
      BY <1>1, <2>10 DEF Knows, Seen, Own
    <3>2. Legal(t)' /\ Seen(q)'
      BY <2>1, <2>5, <3>1 DEF Legal, Seen
    <3> QED
      BY <1>1, <1>2, <2>1, <2>2, <2>3, <2>10, <3>2
      DEF Knows, Preparing, Backing, Replaced, Driving, Placing
  <2>11. CASE at \in Driving
    BY <1>1, <1>2, <2>2, <2>7, <2>8, <2>11
    DEF Knows, Preparing, Backing, Replaced, Driving, Placing, Only
  <2>12. CASE at = "clearSync"
    <3>1. t.run \in Decided /\ Legal(t) /\ t.run \in used
      BY <1>1, <2>12, Types, Values DEF Knows, Legal
    <3>2. Legal(t)'
      BY <3>1 DEF Legal
    <3> QED
      BY <1>1, <1>2, <2>2, <2>12, <3>1, <3>2
      DEF Knows, Preparing, Backing, Replaced, Driving, Placing
  <2>13. CASE at \in Placing
    BY <1>1, <1>2, <2>1, <2>2, <2>3, <2>4, <2>5, <2>7, <2>13
    DEF Knows, Preparing, Backing, Replaced, Driving, Placing, Only
  <2>14. CASE at = "bind"
    <3>1. Members(fs') = Members(fs)
      BY DEF Members
    <3> QED
      BY <1>1, <1>2, <2>2, <2>6, <2>14, <3>1
      DEF Knows, Preparing, Backing, Replaced, Driving, Placing
  <2> QED
    BY <1>1, <1>4, <2>9, <2>10, <2>11, <2>12, <2>13, <2>14
    DEF Points, Driving, Placing, Backing, Replaced
<1> QED
  BY <1>3, <1>4

\* Another program changes a member or a backup, never a part or the journal.
LEMMA Meddled ==
  ASSUME IInv, NEW q \in Procs, proc'[q] = proc[q], touched' # 0,
         fs'.journal = fs.journal, fs'.part = fs.part,
         \A n \in Names : \/ fs'.final[n] \in {fs.final[n], Missing}
                          \/ fs'.final[n].by = Stray,
         disk' = disk \cup {fs'},
         UNCHANGED <<decided, acked, used, sets>>,
         \A f \in kept' : f \in kept \/ f.by = Stray
  PROVE  Knows(q)'
<1> DEFINE at == proc[q].at
           t  == proc[q].tx
<1>1. Knows(q) /\ fs \in disk /\ at \in Points
  BY Types DEF Process
<1>2. Decided' = Decided /\ Since(acked)' = Since(acked)
  BY DEF Decided, Since
<1>3. CASE at = "idle"
  BY <1>1, <1>3 DEF Knows, Preparing, Backing, Replaced, Driving, Placing
<1>4. CASE at # "idle"
  <2>1. Live(q) /\ proc[q].run \in Runs
        /\ fs.part[proc[q].run] \subseteq Names
    BY <1>1, <1>4, Types DEF Knows, Live, Tree
  <2>2. Live(q)'
    BY <1>2, <2>1 DEF Live, Own, Undecided
  <2>3. \A r : Firm(r) => Firm(r)'
    BY DEF Firm
  <2>4. Private(proc[q].run) => Private(proc[q].run)'
    <3>1. \A n \in fs.part[proc[q].run] :
            Part(proc[q].run, n).by # Stray /\ n \in Nat
      BY <2>1, Values
    <3> QED
      BY <3>1 DEF Private
  <2>5. Own(q)' <=> Own(q)
    BY DEF Own
  <2>6. Legal(t)' <=> Legal(t)
    BY DEF Legal
  <2>7. \A r : \A n \in Names : Only(fs, r, n) => Only(fs', r, n)
    BY DEF Only
  <2>8. Next_(q)' = Next_(q)
    BY DEF Next_
  <2>9. CASE at \in {"staged", "open", "snapshot", "cleanup"}
    BY <1>1, <1>2, <2>1, <2>2, <2>4, <2>9
    DEF Knows, Preparing, Backing, Replaced, Driving, Placing, Undecided
  <2>10. CASE at \in {"source", "journal"}
    <3>1. Seen(q)'
      BY <1>1, <2>5, <2>6, <2>10 DEF Knows, Seen
    <3> QED
      BY <1>1, <1>2, <2>1, <2>2, <2>3, <2>10, <3>1
      DEF Knows, Preparing, Backing, Replaced, Driving, Placing
  <2>11. CASE at \in Driving
    BY <1>1, <1>2, <2>2, <2>7, <2>8, <2>11
    DEF Knows, Preparing, Backing, Replaced, Driving, Placing
  <2>12. CASE at = "clearSync"
    BY <1>1, <1>2, <2>2, <2>6, <2>12
    DEF Knows, Preparing, Backing, Replaced, Driving, Placing
  <2>13. CASE at \in Placing
    BY <1>1, <1>2, <2>1, <2>2, <2>3, <2>4, <2>5, <2>7, <2>13
    DEF Knows, Preparing, Backing, Replaced, Driving, Placing
  <2>14. CASE at = "bind"
    BY <1>1, <1>2, <2>2, <2>14
    DEF Knows, Preparing, Backing, Replaced, Driving, Placing
  <2> QED
    BY <1>1, <1>4, <2>9, <2>10, <2>11, <2>12, <2>13, <2>14
    DEF Points, Driving, Placing, Backing, Replaced
<1> QED
  BY <1>3, <1>4

-----------------------------------------------------------------------------
(***************************************************************************)
(* What all steps of a process have in common.                             *)
(***************************************************************************)
\* Process p is `next` afterwards; lock, disk and ledgers are as they should.
LEMMA Assemble ==
  ASSUME IInv, NEW p \in Procs, NEW next \in Process,
         proc' = [proc EXCEPT ![p] = next],
         next.run \in {0, proc[p].run} \/ next.run \notin used,
         lock' = lock \/ {lock, lock'} \subseteq {p, NoProc},
         lock' = p => next.at \notin {"idle", "staged"},
         lock' # p => next.at \in {"idle", "staged", "cleanup"},
         fs' \in Tree, \A s \in disk' : s \in disk \/ s = fs',
         used' \subseteq Runs, lost' \subseteq Runs,
         decided' \in Seq(Runs \cup {First}),
         sets' \in [Runs \cup {First} -> [names : SUBSET Names,
                                          whole : BOOLEAN]],
         acked' \in Runs \cup {First}, kept' \subseteq File,
         touched' = touched, faults' \in {faults, faults - 1}, faults' \in Nat,
         DiskOK', LedgerOK', Knows(p)', \A q \in Procs \ {p} : Knows(q)'
  PROVE  IInv'
<1>1. /\ proc' \in [Procs -> Process] /\ proc'[p] = next
      /\ \A q \in Procs \ {p} : proc'[q] = proc[q]
  BY DEF IInv, TypeOK
<1>2. touched' + faults' <= MaxFaults
  BY SplitAssumption DEF IInv, TypeOK, LedgerOK
<1>3. /\ lock' \in Procs \cup {NoProc}
      /\ \A q \in Procs :
           /\ lock' = q => proc'[q].at \notin {"idle", "staged"}
           /\ lock' # q => proc'[q].at \in {"idle", "staged", "cleanup"}
  BY <1>1, SplitAssumption DEF IInv, TypeOK
<1>4. TypeOK'
  BY <1>1, <1>2, <1>3 DEF IInv, TypeOK
<1>5. Distinct'
  <2>1. \A q \in Procs : proc[q].run \in used \cup {0}
    BY DEF IInv, Knows, Live
  <2> QED
    BY <1>1, <2>1 DEF IInv, Distinct
<1>6. \A q \in Procs : Knows(q)'
  OBVIOUS
<1> QED
  BY <1>4, <1>5, <1>6 DEF IInv

\* A step that only looks, or makes durable what there is.
LEMMA Quiet ==
  ASSUME IInv, NEW p \in Procs, NEW next \in Process,
         proc' = [proc EXCEPT ![p] = next],
         next.run \in {0, proc[p].run},
         lock' = lock \/ {lock, lock'} \subseteq {p, NoProc},
         lock' = p => next.at \notin {"idle", "staged"},
         lock' # p => next.at \in {"idle", "staged", "cleanup"},
         fs' = fs, fs \in disk', disk' \subseteq disk,
         UNCHANGED <<used, decided, sets, acked, kept, touched>>,
         lost' \subseteq Runs,
         faults' \in {faults, faults - 1}, faults' \in Nat, Knows(p)'
  PROVE  IInv'
<1>1. \A q \in Procs \ {p} : proc'[q] = proc[q]
  BY DEF IInv, TypeOK
<1>2. \A q \in Procs \ {p} : Knows(q)'
  BY <1>1, Elsewhere
<1>3. Decided' = Decided
  BY DEF Decided
<1>4. DiskOK'
  <2>1. \A s \in disk : Kept(s)'
    BY Types, KeptStays DEF IInv, DiskOK, Kept
  <2>2. \A r : Firm(r) => Firm(r)'
    BY DEF Firm
  <2> QED
    BY <2>1, <2>2 DEF IInv, DiskOK
<1>5. LedgerOK'
  BY <1>3 DEF IInv, LedgerOK
<1>6. /\ fs \in Tree /\ used \subseteq Runs
      /\ decided \in Seq(Runs \cup {First})
      /\ sets \in [Runs \cup {First} -> [names : SUBSET Names,
                                         whole : BOOLEAN]]
      /\ acked \in Runs \cup {First} /\ kept \subseteq File
  BY DEF IInv, DiskOK, TypeOK
<1> QED
  BY <1>2, <1>4, <1>5, <1>6, Assemble

\* A process ends, or dies, and its lock with it.
LEMMA Stops ==
  ASSUME IInv, NEW p \in Procs, Stop(p),
         fs' = fs, fs \in disk', disk' \subseteq disk,
         UNCHANGED <<used, decided, sets, acked, kept, touched>>,
         lost' \subseteq Runs,
         faults' \in {faults, faults - 1}, faults' \in Nat
  PROVE  IInv'
<1>1. NoProcess \in Process
  BY Values DEF NoProcess, Process, Points, Policies
<1>2. proc' = [proc EXCEPT ![p] = NoProcess] /\ proc'[p] = NoProcess
  BY Types DEF Stop, Becomes
<1>3. Knows(p)'
  BY <1>2 DEF NoProcess, Knows, Preparing, Backing, Replaced, Driving, Placing
<1>4. NoProcess.run = 0 /\ NoProcess.at = "idle"
  BY DEF NoProcess
<1>5. lock' # p /\ (lock' = lock \/ {lock, lock'} \subseteq {p, NoProc})
  BY SplitAssumption DEF Stop
<1> QED
  BY <1>1, <1>2, <1>3, <1>4, <1>5, Quiet

\* A run gives up: it stops, or removes its own parts that nobody will need.
LEMMA GivesUp ==
  ASSUME IInv, NEW p \in Procs, Refuse(p), proc[p].at # "idle",
         proc[p].at \notin {"bind", "cleanup"},
         fs' = fs, fs \in disk', disk' \subseteq disk,
         UNCHANGED <<history, kept, touched>>,
         faults' \in {faults, faults - 1}, faults' \in Nat
  PROVE  IInv'
<1>1. UNCHANGED <<used, decided, sets, acked, lost>> /\ lost \subseteq Runs
  BY DEF history, IInv, TypeOK
<1>2. CASE Stop(p)
  BY <1>1, <1>2, Stops
<1>3. CASE Goes(p, "cleanup") /\ UNCHANGED lock
           /\ ~(Own(p) /\ proc[p].policy # "NoReplace" /\ proc[p].at \in Published)
  <2> DEFINE next == [proc[p] EXCEPT !.at = "cleanup"]
  <2>1. /\ next \in Process /\ proc' = [proc EXCEPT ![p] = next]
        /\ next.at = "cleanup" /\ next.run = proc[p].run
        /\ next.policy = proc[p].policy /\ next.outs = proc[p].outs
        /\ proc'[p] = next
    BY <1>3, Types DEF Goes, Becomes, Process, Points
  <2> HIDE DEF next
  <2>2. Knows(p) /\ proc[p].run \in Runs /\ proc[p].at \in Points /\ Live(p)
    BY Types DEF Process, Knows
  <2>3. Undecided(proc[p].run) \/ proc[p].policy = "NoReplace"
    <3>1. CASE proc[p].at \in Preparing
      BY <2>2, <3>1 DEF Live
    <3>2. CASE proc[p].at \in Driving \cup {"clearSync"}
      BY <1>3, <2>2, <3>2
      DEF Live, Published, Driving, Backing, Replaced
    <3>3. CASE proc[p].at \in Placing
      BY <2>2, <3>3 DEF Knows
    <3> QED
      BY <2>2, <3>1, <3>2, <3>3
      DEF Points, Preparing, Driving, Backing, Replaced, Placing
  <2>4. Private(proc[p].run)
    <3>1. CASE proc[p].at \in Placing
      BY <2>2, <3>1 DEF Knows
    <3>2. CASE Undecided(proc[p].run)
      <4>1. \A n \in fs.part[proc[p].run] : n \in Nat
        BY <2>2, Types, Values DEF Tree
      <4>2. \A n \in Nat : Part(proc[p].run, n).by = proc[p].run
        BY <2>2, Values
      <4> QED
        BY <2>2, <3>2, <4>1, <4>2 DEF IInv, LedgerOK, Private, Undecided
    <3> QED
      BY <1>3, <2>2, <2>3, <3>1, <3>2
      DEF Live, Points, Preparing, Driving, Backing, Replaced, Placing
  <2>5. Knows(p)'
    <3>1. Undecided(proc[p].run)' <=> Undecided(proc[p].run)
      BY <1>1, <2>1 DEF Undecided, Decided
    <3>2. Private(proc[p].run)' <=> Private(proc[p].run)
      BY <2>1 DEF Private
    <3>3. Live(p)'
      BY <1>1, <2>1, <2>2
      DEF Live, Preparing, Driving, Backing, Replaced
    <3> QED
      BY <2>1, <2>3, <2>4, <3>1, <3>2, <3>3
      DEF Knows, Preparing, Driving, Backing, Replaced, Placing
  <2> QED
    BY <1>1, <1>3, <2>1, <2>5, Quiet
<1> QED
  BY <1>2, <1>3 DEF Refuse

\* The holder of the lock goes on and changes nothing.
LEMMA GoesOn ==
  ASSUME IInv, NEW p \in Procs, NEW next \in Process,
         proc[p].at \notin {"idle", "staged", "cleanup"},
         proc' = [proc EXCEPT ![p] = next], next.run = proc[p].run,
         next.at \notin {"idle", "staged"}, lock' = lock,
         fs' = fs, fs \in disk', disk' \subseteq disk,
         UNCHANGED <<history, kept, touched, faults>>, Knows(p)'
  PROVE  IInv'
<1>1. lock = p /\ faults \in Nat /\ lost \subseteq Runs
  BY DEF IInv, TypeOK, LedgerOK
<1> QED
  BY <1>1, Quiet DEF history

-----------------------------------------------------------------------------
(***************************************************************************)
(* Steps that only look.                                                   *)
(***************************************************************************)
\* volumes.rs commit: the checkpoint
LEMMA CancelledStep ==
  ASSUME IInv, NEW p \in Procs, Cancelled(p)
  PROVE  IInv'
<1>1. /\ Refuse(p) /\ UNCHANGED <<history, kept, touched, faults, fs, disk>>
      /\ proc[p].at = "staged"
  BY DEF Cancelled, At, Look
<1>2. fs \in disk /\ faults \in Nat
  BY DEF IInv, DiskOK, LedgerOK
<1> QED
  BY <1>1, <1>2, GivesUp

\* volumes.rs commit: OutputFamilyLock
LEMMA LockStep ==
  ASSUME IInv, NEW p \in Procs, Lock(p)
  PROVE  IInv'
<1> DEFINE next == [proc[p] EXCEPT !.at = "open"]
<1>1. /\ proc[p].at = "staged" /\ lock = NoProc /\ lock' = p
      /\ proc' = [proc EXCEPT ![p] = next]
      /\ UNCHANGED <<fs, disk, history, kept, touched, faults>>
  BY Types DEF Lock, At, Goes, Becomes, Look
<1>2. /\ next \in Process /\ proc'[p] = next /\ next.at = "open"
      /\ next.run = proc[p].run /\ next.tx = proc[p].tx
      /\ next.outs = proc[p].outs /\ next.policy = proc[p].policy
  BY <1>1, Types DEF Process, Points
<1> HIDE DEF next
<1>3. Knows(p)'
  <2>1. Live(p)'
    BY <1>1, <1>2, Types
    DEF Knows, Live, history, Preparing, Driving, Backing, Replaced, Undecided,
        Decided
  <2> QED
    BY <1>1, <1>2, <2>1, Types
    DEF Knows, Preparing, Driving, Backing, Replaced, Placing
<1>4. fs \in disk /\ faults \in Nat /\ lost \subseteq Runs
  BY DEF IInv, DiskOK, LedgerOK, TypeOK
<1> QED
  BY <1>1, <1>2, <1>3, <1>4, Quiet DEF history

\* publication.rs recover
LEMMA RecoverStep ==
  ASSUME IInv, NEW p \in Procs, Recover(p)
  PROVE  IInv'
<1>1. /\ proc[p].at = "open" /\ UNCHANGED <<lock, fs, disk>>
      /\ UNCHANGED <<history, kept, touched, faults>>
  BY DEF Recover, At, Look
<1>2. /\ Live(p) /\ Knows(p) /\ proc[p].tx = NoTx /\ proc[p].run \in Runs
      /\ proc[p] \in Process /\ fs \in disk /\ fs \in Tree
  BY <1>1, Types DEF Knows
<1>3. PICK next \in Process :
        /\ proc' = [proc EXCEPT ![p] = next]
        /\ next.run = proc[p].run /\ next.outs = proc[p].outs
        /\ next.policy = proc[p].policy
        /\ \/ next.at = "snapshot" /\ next.tx = NoTx /\ fs.journal = NoTx
           \/ /\ next.at = "backup" /\ next.tx = fs.journal
              /\ next.left = Bound(fs.journal) /\ fs.journal # NoTx
  <2>1. CASE fs.journal = NoTx
    <3> DEFINE next == [proc[p] EXCEPT !.at = "snapshot"]
    <3>1. next \in Process /\ proc' = [proc EXCEPT ![p] = next]
      BY <1>2, <2>1 DEF Recover, Goes, Becomes, Process, Points
    <3> QED
      BY <1>2, <2>1, <3>1 DEF Process
  <2>2. CASE fs.journal # NoTx
    <3> DEFINE next == [proc[p] EXCEPT !.at = "backup", !.tx = fs.journal,
                                       !.left = Bound(fs.journal)]
    <3>1. fs.journal \in Record /\ Bound(fs.journal) \in SUBSET Names
      BY <1>2 DEF Tree, Bound
    <3>2. next \in Process /\ proc' = [proc EXCEPT ![p] = next]
      BY <1>2, <2>2, <3>1 DEF Recover, Becomes, Process, Points
    <3> QED
      BY <1>2, <2>2, <3>2 DEF Process
  <2> QED
    BY <2>1, <2>2
<1>4. proc'[p] = next
  BY <1>3, Types
<1>5. Undecided(proc[p].run) /\ fs.part[proc[p].run] = proc[p].outs
  BY <1>1, <1>2 DEF Live, Preparing
<1>6. CASE next.at = "snapshot"
  <2>1. Knows(p)'
    BY <1>1, <1>2, <1>3, <1>4, <1>5, <1>6
    DEF Knows, Live, Undecided, Decided, history,
        Preparing, Driving, Backing, Replaced, Placing
  <2> QED
    BY <1>1, <1>2, <1>3, <1>6, <2>1, GoesOn
<1>7. CASE next.at = "backup"
  <2>1. Journalled(fs)
    BY <1>3, <1>7, Types DEF Kept
  <2>2. fs.journal.run \in Decided /\ fs.journal.run \in Runs
        /\ fs.journal.run # proc[p].run
    BY <1>5, <2>1 DEF Journalled, Undecided, Legal
  <2>3. \A n \in Names \ next.left : Only(fs, fs.journal.run, n)
    BY <1>3, <1>7, <2>1 DEF Journalled, Either, Bound, Only
  <2>4. Live(p)'
    BY <1>1, <1>2, <1>3, <1>4, <1>5, <1>7, <2>2
    DEF Live, Own, Undecided, Decided, history,
        Preparing, Driving, Backing, Replaced
  <2>5. \A r, n : Only(fs, r, n)' <=> Only(fs, r, n)
    BY <1>1 DEF Only
  <2>6. Knows(p)'
    BY <1>1, <1>3, <1>4, <1>7, <2>2, <2>3, <2>4, <2>5
    DEF Knows, Preparing, Driving, Backing, Replaced, Placing, Bound
  <2> QED
    BY <1>1, <1>2, <1>3, <1>7, <2>6, GoesOn
<1> QED
  BY <1>3, <1>6, <1>7

\* volumes.rs commit: the members are bound under the lock
LEMMA SnapshotStep ==
  ASSUME IInv, NEW p \in Procs, Snapshot(p)
  PROVE  IInv'
<1>1. /\ proc[p].at = "snapshot" /\ UNCHANGED <<fs, disk>>
      /\ UNCHANGED <<history, kept, touched, faults>>
  BY DEF Snapshot, At, Look
<1>2. /\ Live(p) /\ Knows(p) /\ proc[p].run \in Runs
      /\ proc[p] \in Process /\ fs \in disk /\ fs \in Tree /\ Kept(fs)
      /\ fs.journal = NoTx
  BY <1>1, Types DEF Knows
<1>3. CASE Refuse(p)
  BY <1>1, <1>2, <1>3, GivesUp DEF IInv, LedgerOK
<1>4. CASE /\ Admits(p) /\ UNCHANGED lock
           /\ Becomes(p, [proc[p] EXCEPT !.at = "source",
                !.tx = [run |-> proc[p].run, prev |-> fs.final,
                        outs |-> proc[p].outs]])
  <2>0. PICK t : t = [run |-> proc[p].run, prev |-> fs.final,
                      outs |-> proc[p].outs]
    OBVIOUS
  <2> DEFINE next == [proc[p] EXCEPT !.at = "source", !.tx = t]
  <2>1. t \in Record /\ t.run = proc[p].run /\ t.prev = fs.final
        /\ t.outs = proc[p].outs
    BY <1>2, <2>0 DEF Process, Record, Tree
  <2>2. /\ next \in Process /\ proc' = [proc EXCEPT ![p] = next]
        /\ next.at = "source" /\ next.run = proc[p].run /\ next.tx = t
        /\ next.outs = proc[p].outs /\ next.policy = proc[p].policy
        /\ proc'[p] = next
    BY <1>2, <1>4, <2>0, <2>1, Types DEF Becomes, Process, Points
  <2> HIDE DEF next
  <2>3. Undecided(proc[p].run) /\ fs.part[proc[p].run] = proc[p].outs
        /\ sets[proc[p].run].names = proc[p].outs
    BY <1>1, <1>2 DEF Live, Preparing
  <2>4. \A n \in Names : fs.final[n] = Missing \/ fs.final[n].by # proc[p].run
    BY <1>2, <2>3 DEF Kept, Traceless, Undecided
  <2>5. Live(p)'
    BY <1>1, <1>2, <2>2, <2>3
    DEF Live, Undecided, Decided, history, Preparing, Driving, Backing, Replaced
  <2>6. Seen(p)'
    <3>1. Legal(t)'
      BY <1>1, <1>2, <2>1, <2>3, <2>4 DEF Legal, Bound, history
    <3>2. proc[p].policy = "NoReplace" => fs.final = Nowhere
      BY <1>4 DEF Admits
    <3>3. \A n \in Names : fs.final[n] \in {Missing, t.prev[n]}
      BY <2>1
    <3> QED
      BY <1>1, <2>1, <2>2, <3>1, <3>2, <3>3 DEF Seen, Own
  <2>7. Knows(p)'
    BY <1>1, <1>2, <2>2, <2>5, <2>6
    DEF Knows, Preparing, Driving, Backing, Replaced, Placing
  <2> QED
    BY <1>1, <1>2, <1>4, <2>2, <2>7, GoesOn
<1> QED
  BY <1>3, <1>4 DEF Snapshot

\* An output is a file of the run.
LEMMA OutputOnly ==
  ASSUME NEW s, NEW t, t.run \in Runs, NEW n \in Names,
         s.final[n] \in {Missing, Output(t, n)}
  PROVE  Only(s, t.run, n)
<1>1. Part(t.run, n).by = t.run
  BY Values
<1> QED
  BY <1>1 DEF Output, Only

\* A driver goes on with the same transaction.
LEMMA Drives ==
  ASSUME IInv, NEW p \in Procs, NEW next \in Process,
         proc[p].at \in Driving, next.at \in Driving,
         proc' = [proc EXCEPT ![p] = next],
         next.run = proc[p].run, next.outs = proc[p].outs,
         next.policy = proc[p].policy, next.tx = proc[p].tx,
         UNCHANGED <<sets, used, decided, fs>>
  PROVE  /\ Live(p)' /\ Live(p) /\ proc'[p] = next
         /\ fs.journal = proc[p].tx /\ proc[p].tx.run \in Runs
         /\ Journalled(fs)
         /\ fs.journal # NoTx
<1>1. proc'[p] = next
  BY Types
<1>2. Knows(p) /\ Live(p)
  BY Types DEF Knows, Driving, Backing, Replaced
<1>3. fs.journal = proc[p].tx /\ proc[p].tx.run \in Runs
  BY <1>2 DEF Knows
<1>4. fs.journal # NoTx
  BY <1>3, Values DEF NoTx
<1>5. Journalled(fs)
  BY <1>4, Types DEF Kept
<1>6. Live(p)'
  BY <1>1, <1>2 DEF Live, Own, Undecided, Decided, Preparing, Driving, Backing,
     Replaced
<1> QED
  BY <1>1, <1>2, <1>3, <1>4, <1>5, <1>6

\* publication.rs write_journal: the directory sync
LEMMA SyncJournalStep ==
  ASSUME IInv, NEW p \in Procs, SyncJournal(p)
  PROVE  IInv'
<1> DEFINE next == [proc[p] EXCEPT !.at = "backup", !.left = Bound(proc[p].tx)]
<1>1. /\ proc[p].at = "journalSync" /\ UNCHANGED <<fs, lock>> /\ disk' = {fs}
      /\ UNCHANGED <<history, kept, touched, faults>>
      /\ proc' = [proc EXCEPT ![p] = next]
  BY DEF SyncJournal, At, Sync, Becomes
<1>2. Bound(proc[p].tx) \in SUBSET Names
  BY DEF Bound
<1>3. /\ next \in Process /\ next.at = "backup" /\ next.run = proc[p].run
      /\ next.outs = proc[p].outs /\ next.policy = proc[p].policy
      /\ next.tx = proc[p].tx /\ next.left = Bound(proc[p].tx)
  BY <1>2, Types DEF Process, Points
<1> HIDE DEF next
<1>4. /\ Live(p)' /\ proc'[p] = next /\ fs.journal = next.tx
      /\ next.tx.run \in Runs /\ Journalled(fs)
  BY <1>1, <1>3, Drives DEF history, Driving, Backing
<1>5. \A n \in Names \ next.left : Only(fs, next.tx.run, n)
  BY <1>3, <1>4 DEF Journalled, Either, Bound, Only
<1>6. Knows(p)'
  BY <1>1, <1>3, <1>4, <1>5
  DEF Knows, Preparing, Driving, Backing, Replaced, Placing, Only, Bound
<1> QED
  BY <1>1, <1>3, <1>6, Types, GoesOn

\* publication.rs resume_with: the loop over the members
LEMMA BackupStep ==
  ASSUME IInv, NEW p \in Procs, Backup(p)
  PROVE  IInv'
<1> DEFINE q == proc[p]
           t == proc[p].tx
           n == Next_(p)
<1>1. /\ q.at = "backup" /\ UNCHANGED <<fs, disk>>
      /\ UNCHANGED <<history, kept, touched, faults>>
  BY DEF Backup, At, Look
<1>2. /\ q \in Process /\ fs \in disk /\ Knows(p) /\ q.left \in SUBSET Names
      /\ q.left \subseteq Bound(t)
      /\ \A m \in Names \ q.left : Only(fs, t.run, m)
  BY <1>1, Types DEF Knows, Backing, Process
<1>3. CASE Refuse(p)
  BY <1>1, <1>2, <1>3, GivesUp DEF IInv, LedgerOK
<1>4. CASE /\ UNCHANGED lock
           /\ \/ q.left = {} /\ Goes(p, "rebind")
              \/ q.left # {} /\ Goes(p, "moveBackup")
  <2> PICK at \in {"rebind", "moveBackup"} :
        /\ Goes(p, at)
        /\ at = "rebind" => q.left = {}
        /\ at = "moveBackup" => q.left # {}
    BY <1>4
  <2> DEFINE next == [q EXCEPT !.at = at]
  <2>1. /\ next \in Process /\ proc' = [proc EXCEPT ![p] = next]
        /\ next.at = at /\ next.run = q.run /\ next.outs = q.outs
        /\ next.policy = q.policy /\ next.tx = t /\ next.left = q.left
    BY <1>2 DEF Goes, Becomes, Process, Points
  <2> HIDE DEF next
  <2>2. /\ Live(p)' /\ proc'[p] = next /\ fs.journal = t /\ t.run \in Runs
    BY <1>1, <2>1, Drives DEF history, Driving, Backing
  <2>3. Knows(p)'
    BY <1>1, <1>2, <2>1, <2>2
    DEF Knows, Preparing, Driving, Backing, Replaced, Placing, Only, Bound
  <2> QED
    BY <1>1, <1>2, <1>4, <2>1, <2>3, GoesOn
<1>5. CASE /\ UNCHANGED lock /\ Visited(p, "backup") /\ q.left # {}
           /\ fs.final[n] \in {Missing, Output(t, n)}
  <2> DEFINE next == [q EXCEPT !.at = "backup", !.left = @ \ {n}]
  <2>1. /\ next \in Process /\ proc' = [proc EXCEPT ![p] = next]
        /\ next.at = "backup" /\ next.run = q.run /\ next.outs = q.outs
        /\ next.policy = q.policy /\ next.tx = t /\ next.left = q.left \ {n}
    BY <1>2, <1>5 DEF Visited, Becomes, Process, Points
  <2> HIDE DEF next
  <2>2. /\ Live(p)' /\ proc'[p] = next /\ fs.journal = t /\ t.run \in Runs
    BY <1>1, <2>1, Drives DEF history, Driving, Backing
  <2>3. n \in Names => Only(fs, t.run, n)
    BY <1>5, <2>2, OutputOnly
  <2>4. \A m \in Names \ next.left : Only(fs, t.run, m)
    BY <1>2, <2>1, <2>3
  <2>5. Knows(p)'
    BY <1>1, <1>2, <2>1, <2>2, <2>4
    DEF Knows, Preparing, Driving, Backing, Replaced, Placing, Only, Bound
  <2> QED
    BY <1>1, <1>2, <1>5, <2>1, <2>5, GoesOn
<1> QED
  BY <1>3, <1>4, <1>5 DEF Backup

\* The loops visit a name of the directory.
LEMMA NextIsIn ==
  ASSUME IInv, NEW p \in Procs, proc[p].left # {}
  PROVE  Next_(p) \in proc[p].left /\ Next_(p) \in Names /\ Next_(p) \in Nat
<1>1. proc[p].left \in SUBSET Names /\ Names \subseteq Nat
  BY Types, Values DEF Process
<1> QED
  BY <1>1, LeastIsIn DEF Next_

\* publication.rs resume_with: after a member has been moved
LEMMA SyncBackupStep ==
  ASSUME IInv, NEW p \in Procs, SyncBackup(p)
  PROVE  IInv'
<1> DEFINE q == proc[p]
           t == proc[p].tx
           n == Next_(p)
           next == [q EXCEPT !.at = "backup", !.left = @ \ {n}]
<1>1. /\ q.at = "syncBackup" /\ fs' = fs /\ disk' = {fs}
      /\ UNCHANGED <<history, kept, touched, faults>>
  BY DEF SyncBackup, At, Sync
<1>2. /\ q \in Process /\ fs \in disk /\ Knows(p) /\ q.left \in SUBSET Names
      /\ q.left \subseteq Bound(t) /\ faults \in Nat
      /\ \A m \in Names \ q.left : Only(fs, t.run, m)
  BY <1>1, Types DEF Knows, Backing, Process, IInv, LedgerOK
<1>3. CASE Refuse(p)
  BY <1>1, <1>2, <1>3, GivesUp
<1>4. CASE /\ fs.final[n] = Missing /\ Visited(p, "backup") /\ lock' = lock
  <2>1. /\ next \in Process /\ proc' = [proc EXCEPT ![p] = next]
        /\ next.at = "backup" /\ next.run = q.run /\ next.outs = q.outs
        /\ next.policy = q.policy /\ next.tx = t /\ next.left = q.left \ {n}
    BY <1>2, <1>4 DEF Visited, Becomes, Process, Points
  <2> HIDE DEF next
  <2>2. /\ Live(p)' /\ proc'[p] = next /\ fs.journal = t /\ t.run \in Runs
    BY <1>1, <2>1, Drives DEF history, Driving, Backing
  <2>3. \A m \in Names \ next.left : Only(fs, t.run, m)
    BY <1>2, <1>4, <2>1 DEF Only
  <2>4. Knows(p)'
    BY <1>1, <1>2, <2>1, <2>2, <2>3
    DEF Knows, Preparing, Driving, Backing, Replaced, Placing, Only, Bound
  <2> QED
    BY <1>1, <1>2, <1>4, <2>1, <2>4, GoesOn
<1> QED
  BY <1>3, <1>4 DEF SyncBackup

\* publication.rs resume_with: all backups once more
LEMMA RebindStep ==
  ASSUME IInv, NEW p \in Procs, Rebind(p)
  PROVE  IInv'
<1> DEFINE q == proc[p]
           t == proc[p].tx
           next == [q EXCEPT !.at = "install", !.left = t.outs]
<1>1. /\ q.at = "rebind" /\ fs' = fs /\ disk' = disk
      /\ UNCHANGED <<history, kept, touched, faults>>
  BY DEF Rebind, At, Look
<1>2. /\ q \in Process /\ fs \in disk /\ Knows(p) /\ faults \in Nat
      /\ \A m \in Names : Only(fs, t.run, m)
      /\ t \in Record
  BY <1>1, Types DEF Knows, Process, IInv, LedgerOK
<1>3. CASE Refuse(p)
  BY <1>1, <1>2, <1>3, GivesUp
<1>4. CASE /\ lock' = lock
           /\ Becomes(p, [proc[p] EXCEPT !.at = "install",
                                         !.left = proc[p].tx.outs])
  <2>1. /\ next \in Process /\ proc' = [proc EXCEPT ![p] = next]
        /\ next.at = "install" /\ next.run = q.run /\ next.outs = q.outs
        /\ next.policy = q.policy /\ next.tx = t /\ next.left = t.outs
    BY <1>2, <1>4 DEF Becomes, Process, Points, Record
  <2> HIDE DEF next
  <2>2. /\ Live(p)' /\ proc'[p] = next /\ fs.journal = t /\ t.run \in Runs
    BY <1>1, <2>1, Drives DEF history, Driving, Replaced
  <2>3. Knows(p)'
    BY <1>1, <1>2, <2>1, <2>2
    DEF Knows, Preparing, Driving, Backing, Replaced, Placing, Only
  <2> QED
    BY <1>1, <1>2, <1>4, <2>1, <2>3, GoesOn
<1> QED
  BY <1>3, <1>4 DEF Rebind

\* publication.rs resume_with: the loop over the outputs
LEMMA InstallStep ==
  ASSUME IInv, NEW p \in Procs, Install(p)
  PROVE  IInv'
<1> DEFINE q == proc[p]
           t == proc[p].tx
           n == Next_(p)
<1>1. /\ q.at = "install" /\ fs' = fs /\ disk' = disk
      /\ UNCHANGED <<history, kept, touched, faults>>
  BY DEF Install, At, Look
<1>2. /\ q \in Process /\ fs \in disk /\ Knows(p) /\ faults \in Nat
      /\ \A m \in Names : Only(fs, t.run, m)
      /\ q.left \subseteq t.outs
  BY <1>1, Types DEF Knows, Process, IInv, LedgerOK, Replaced
<1>3. CASE Refuse(p)
  BY <1>1, <1>2, <1>3, GivesUp
<1>4. CASE /\ lock' = lock
           /\ \/ q.left = {} /\ Goes(p, "verify")
              \/ /\ q.left # {} /\ n \in fs.part[t.run]
                 /\ Goes(p, "moveInstall")
              \/ q.left # {} /\ Visited(p, "install")
  <2>1. PICK next \in Process :
          /\ proc' = [proc EXCEPT ![p] = next]
          /\ next.at \in {"verify", "moveInstall", "install"}
          /\ next.run = q.run /\ next.outs = q.outs
          /\ next.policy = q.policy /\ next.tx = t /\ next.left \subseteq q.left
          /\ next.at = "moveInstall" => /\ q.left # {} /\ next.left = q.left
                                        /\ n \in fs.part[t.run]
    <3>1. CASE q.left = {} /\ Goes(p, "verify")
      <4>1. /\ [q EXCEPT !.at = "verify"] \in Process
            /\ proc' = [proc EXCEPT ![p] = [q EXCEPT !.at = "verify"]]
        BY <1>2, <3>1 DEF Goes, Becomes, Process, Points
      <4> QED
        BY <1>2, <4>1 DEF Process
    <3>2. CASE /\ q.left # {} /\ n \in fs.part[t.run]
               /\ Goes(p, "moveInstall")
      <4>1. /\ [q EXCEPT !.at = "moveInstall"] \in Process
            /\ proc' = [proc EXCEPT ![p] = [q EXCEPT !.at = "moveInstall"]]
        BY <1>2, <3>2 DEF Goes, Becomes, Process, Points
      <4> QED
        BY <1>2, <3>2, <4>1 DEF Process
    <3>3. CASE Visited(p, "install")
      <4>1. /\ [q EXCEPT !.at = "install", !.left = @ \ {n}] \in Process
            /\ proc' = [proc EXCEPT
                          ![p] = [q EXCEPT !.at = "install", !.left = @ \ {n}]]
        BY <1>2, <3>3 DEF Visited, Becomes, Process, Points
      <4> QED
        BY <1>2, <4>1 DEF Process
    <3> QED
      BY <1>4, <3>1, <3>2, <3>3
  <2>2. /\ Live(p)' /\ proc'[p] = next /\ fs.journal = t /\ t.run \in Runs
    BY <1>1, <2>1, Drives DEF history, Driving, Replaced
  <2>3. next.at = "moveInstall" => Next_(p)' = n
    BY <2>1, <2>2 DEF Next_
  <2>4. Knows(p)'
    BY <1>1, <1>2, <2>1, <2>2, <2>3
    DEF Knows, Preparing, Driving, Backing, Replaced, Placing, Only
  <2> QED
    BY <1>1, <1>2, <1>4, <2>1, <2>4, GoesOn
<1> QED
  BY <1>3, <1>4 DEF Install

\* publication.rs resume_with: after an output has been moved
LEMMA SyncInstallStep ==
  ASSUME IInv, NEW p \in Procs, SyncInstall(p)
  PROVE  IInv'
<1> DEFINE q == proc[p]
           t == proc[p].tx
           n == Next_(p)
           next == [q EXCEPT !.at = "install", !.left = @ \ {n}]
<1>1. /\ q.at = "syncInstall" /\ fs' = fs /\ disk' = {fs}
      /\ UNCHANGED <<history, kept, touched, faults>>
  BY DEF SyncInstall, At, Sync
<1>2. /\ q \in Process /\ fs \in disk /\ Knows(p) /\ faults \in Nat
      /\ \A m \in Names : Only(fs, t.run, m)
      /\ q.left \subseteq t.outs
  BY <1>1, Types DEF Knows, Process, IInv, LedgerOK, Replaced
<1>3. CASE Refuse(p)
  BY <1>1, <1>2, <1>3, GivesUp
<1>4. CASE Visited(p, "install") /\ lock' = lock
  <2>1. /\ next \in Process /\ proc' = [proc EXCEPT ![p] = next]
        /\ next.at = "install" /\ next.run = q.run /\ next.outs = q.outs
        /\ next.policy = q.policy /\ next.tx = t /\ next.left \subseteq q.left
    BY <1>2, <1>4 DEF Visited, Becomes, Process, Points
  <2> HIDE DEF next
  <2>2. /\ Live(p)' /\ proc'[p] = next /\ fs.journal = t /\ t.run \in Runs
    BY <1>1, <2>1, Drives DEF history, Driving, Replaced
  <2>3. Knows(p)'
    BY <1>1, <1>2, <2>1, <2>2
    DEF Knows, Preparing, Driving, Backing, Replaced, Placing, Only
  <2> QED
    BY <1>1, <1>2, <1>4, <2>1, <2>3, GoesOn
<1> QED
  BY <1>3, <1>4 DEF SyncInstall

\* publication.rs ensure_completed_family
LEMMA VerifyStep ==
  ASSUME IInv, NEW p \in Procs, Verify(p)
  PROVE  IInv'
<1> DEFINE q == proc[p]
           t == proc[p].tx
           next == [q EXCEPT !.at = "clear"]
<1>1. /\ q.at = "verify" /\ fs' = fs /\ disk' = {fs}
      /\ UNCHANGED <<history, kept, touched, faults>>
  BY DEF Verify, At, Sync
<1>2. /\ q \in Process /\ fs \in disk /\ Knows(p) /\ faults \in Nat
      /\ \A m \in Names : Only(fs, t.run, m)
      /\ q.left \subseteq t.outs /\ fs \in Tree
  BY <1>1, Types DEF Knows, Process, IInv, LedgerOK, Replaced
<1>3. CASE Refuse(p)
  BY <1>1, <1>2, <1>3, GivesUp
<1>4. CASE /\ \A n \in Names : fs.final[n] = Output(t, n)
           /\ Goes(p, "clear") /\ lock' = lock
  <2>1. /\ next \in Process /\ proc' = [proc EXCEPT ![p] = next]
        /\ next.at = "clear" /\ next.run = q.run /\ next.outs = q.outs
        /\ next.policy = q.policy /\ next.tx = t /\ next.left = q.left
    BY <1>2, <1>4 DEF Goes, Becomes, Process, Points
  <2> HIDE DEF next
  <2>2. /\ Live(p)' /\ proc'[p] = next /\ fs.journal = t /\ t.run \in Runs
    BY <1>1, <2>1, Drives DEF history, Driving, Replaced
  <2>3. fs.final = Outputs(t)
    BY <1>2, <1>4 DEF Outputs, Tree
  <2>4. Knows(p)'
    BY <1>1, <1>2, <2>1, <2>2, <2>3
    DEF Knows, Preparing, Driving, Backing, Replaced, Placing, Only
  <2> QED
    BY <1>1, <1>2, <1>4, <2>1, <2>4, GoesOn
<1> QED
  BY <1>3, <1>4 DEF Verify

-----------------------------------------------------------------------------
(***************************************************************************)
(* The end of a run.                                                       *)
(***************************************************************************)
\* A family that is the outputs of a run is its set.
LEMMA OutputsAreSet ==
  ASSUME NEW s, NEW t, s.final = Outputs(t), t.run \in Runs,
         t.outs = sets[t.run].names, t.outs \subseteq Names
  PROVE  Members(s) = SetOf(t.run)
<1>1. \A n \in Names : s.final[n] = Output(t, n)
  BY DEF Outputs
<1>2. \A n \in Names : Part(t.run, n) # Missing
  BY Values
<1>3. \A e : e \in Members(s) <=> \E n \in t.outs : e = Part(t.run, n)
  BY <1>1, <1>2 DEF Members, Output
<1> QED
  BY <1>3 DEF SetOf

\* publication.rs clear_journal: the directory sync
LEMMA SyncClearStep ==
  ASSUME IInv, NEW p \in Procs, SyncClear(p)
  PROVE  IInv'
<1> DEFINE q == proc[p]
           t == proc[p].tx
<1>1. /\ q.at = "clearSync" /\ fs' = fs /\ disk' = {fs} /\ lock' = lock
      /\ UNCHANGED <<history, kept, touched, faults>>
  BY DEF SyncClear, At, Sync
<1>2. /\ q \in Process /\ fs \in disk /\ Knows(p) /\ Live(p)
      /\ fs.journal = NoTx /\ Legal(t) /\ t.run \in Decided
      /\ touched = 0 => fs.final = Outputs(t)
  BY <1>1, Types DEF Knows
<1>3. CASE Own(p) /\ Goes(p, "bind")
  <2> DEFINE next == [q EXCEPT !.at = "bind"]
  <2>1. /\ next \in Process /\ proc' = [proc EXCEPT ![p] = next]
        /\ next.at = "bind" /\ next.run = q.run /\ next.outs = q.outs
        /\ next.policy = q.policy /\ next.tx = t /\ proc'[p] = next
    BY <1>2, <1>3, Types DEF Goes, Becomes, Process, Points
  <2> HIDE DEF next
  <2>2. Live(p)' /\ q.run \in Decided' /\ t.run = q.run
    BY <1>1, <1>2, <1>3, <2>1
    DEF Live, history, Own, Preparing, Driving, Backing, Replaced, Decided
  <2>3. touched = 0 => Members(fs) = SetOf(q.run)
    BY <1>2, <2>2, OutputsAreSet DEF Legal, Process, Record
  <2>5. Knows(p)'
    BY <1>1, <1>2, <2>1, <2>2, <2>3
    DEF Knows, Preparing, Driving, Backing, Replaced, Placing, SetOf, history
  <2> QED
    BY <1>1, <1>2, <2>1, <2>5, GoesOn
<1>4. CASE /\ ~Own(p)
           /\ Becomes(p, [proc[p] EXCEPT !.at = "snapshot", !.tx = NoTx,
                                         !.recovered = proc[p].tx])
  <2> DEFINE next == [proc[p] EXCEPT !.at = "snapshot", !.tx = NoTx,
                                     !.recovered = proc[p].tx]
  <2>1. /\ next \in Process /\ proc' = [proc EXCEPT ![p] = next]
        /\ next.at = "snapshot" /\ next.run = q.run /\ next.outs = q.outs
        /\ next.policy = q.policy /\ next.tx = NoTx /\ proc'[p] = next
    <3>1. NoTx \in Record /\ t \in Record
      BY <1>2, Values DEF Process
    <3>2. next \in Process
      BY <1>2, <3>1 DEF Process, Points
    <3>3. proc' = [proc EXCEPT ![p] = next]
      BY <1>4 DEF Becomes
    <3> QED
      BY <1>2, <3>2, <3>3, Types DEF Process
  <2> HIDE DEF next
  <2>2. Live(p)'
    BY <1>1, <1>2, <1>4, <2>1
    DEF Live, history, Preparing, Driving, Backing, Replaced, Undecided, Decided
  <2>3. Knows(p)'
    BY <1>1, <1>2, <2>1, <2>2
    DEF Knows, Preparing, Driving, Backing, Replaced, Placing
  <2> QED
    BY <1>1, <1>2, <2>1, <2>3, GoesOn
<1> QED
  BY <1>3, <1>4 DEF SyncClear

\* volumes.rs commit: the directory sync after the parts have been placed
LEMMA SyncPlaceStep ==
  ASSUME IInv, NEW p \in Procs, SyncPlace(p)
  PROVE  IInv'
<1> DEFINE q == proc[p]
           t == proc[p].tx
           next == [q EXCEPT !.at = "bind"]
<1>1. /\ q.at = "placeSync" /\ fs' = fs /\ disk' = {fs} /\ lock' = lock
      /\ UNCHANGED <<history, kept, touched, faults>> /\ Goes(p, "bind")
  BY DEF SyncPlace, At, Sync
<1>2. /\ q \in Process /\ fs \in disk /\ Knows(p) /\ Live(p)
      /\ fs.journal = NoTx /\ t.outs = q.outs /\ q.run \in Decided
      /\ t.run = q.run /\ q.run \in Runs
      /\ touched = 0 => fs.final = Outputs(t)
  BY <1>1, Types DEF Knows, Placing, Own
<1>3. /\ next \in Process /\ proc' = [proc EXCEPT ![p] = next]
      /\ next.at = "bind" /\ next.run = q.run /\ next.outs = q.outs
      /\ next.policy = q.policy /\ next.tx = t /\ proc'[p] = next
  BY <1>1, <1>2, Types DEF Goes, Becomes, Process, Points
<1> HIDE DEF next
<1>4. Live(p)' /\ q.run \in Decided'
  BY <1>1, <1>2, <1>3
  DEF Live, history, Preparing, Driving, Backing, Replaced, Decided
<1>5. touched = 0 => Members(fs) = SetOf(q.run)
  BY <1>2, OutputsAreSet DEF Live, Process
<1>6. Knows(p)'
  BY <1>1, <1>2, <1>3, <1>4, <1>5
  DEF Knows, Preparing, Driving, Backing, Replaced, Placing, SetOf, history
<1> QED
  BY <1>1, <1>2, <1>3, <1>6, GoesOn

\* volumes.rs commit: success is reported
LEMMA BindStep ==
  ASSUME IInv, NEW p \in Procs, Bind(p)
  PROVE  IInv'
<1>0. PICK r : r = proc[p].run
  OBVIOUS
<1>1. /\ proc[p].at = "bind" /\ Stop(p) /\ fs' = fs /\ disk' = disk
      /\ UNCHANGED <<used, decided, sets, kept, lost, touched, faults>>
      /\ acked' \in {r, acked}
  BY <1>0 DEF Bind, At, Look
<1>2. /\ Knows(p) /\ r \in Decided /\ r \in Runs
      /\ touched = 0 => \A s \in disk :
           s.journal = NoTx /\ Members(s) = SetOf(r)
  BY <1>0, <1>1, Types DEF Knows
<1>3. CASE acked' = acked
  BY <1>1, <1>3, Stops DEF IInv, DiskOK, LedgerOK, TypeOK
<1>4. CASE acked' = r
  <2>1. /\ NoProcess \in Process /\ proc' = [proc EXCEPT ![p] = NoProcess]
        /\ proc'[p] = NoProcess /\ NoProcess.at = "idle" /\ NoProcess.run = 0
        /\ \A q \in Procs \ {p} : proc'[q] = proc[q]
    BY <1>1, Types, Values
    DEF Stop, Becomes, NoProcess, Process, Points, Policies
  <2>2. Knows(p)'
    BY <2>1 DEF Knows, Preparing, Backing, Replaced, Driving, Placing
  <2>3. lock = p /\ lock' = NoProc
    BY <1>1 DEF Stop, IInv, TypeOK
  <2>4. \A q \in Procs \ {p} : proc[q].at \in {"idle", "staged", "cleanup"}
    BY <2>3 DEF IInv, TypeOK
  <2>5. Decided' = Decided
    BY <1>1 DEF Decided
  <2>6. \A q \in Procs \ {p} : Knows(q)'
    BY <1>0, <1>1, <2>1, <2>4, <2>5, Waiting
  <2>7. ASSUME NEW s \in disk PROVE Kept(s)'
    <3>1. Kept(s)
      BY DEF IInv, DiskOK
    <3>2. r \in Since(r)'
      BY <1>1, <1>2, Types, SinceDecided DEF Since
    <3>3. WholeFamily(s)'
      <4>1. CASE touched = 0
        BY <1>1, <1>2, <1>4, <3>2, <4>1 DEF WholeFamily, Members, SetOf
      <4>2. CASE touched # 0
        BY <1>1, <4>2 DEF WholeFamily
      <4> QED
        BY <4>1, <4>2
    <3>4. s.journal # NoTx => Journalled(s)'
      BY <1>1, <1>2, <2>5, <3>1 DEF Kept, Journalled, Legal, Either, Only
    <3> QED
      BY <1>1, <2>5, <3>1, <3>3, <3>4
      DEF Kept, NeverMixed, Members, Traceless, Held, Backups, Parts
  <2>8. DiskOK'
    BY <1>1, <2>7 DEF IInv, DiskOK, Firm
  <2>9. LedgerOK'
    BY <1>1, <1>2, <1>4, <2>5 DEF IInv, LedgerOK
  <2> QED
    BY <1>0, <1>1, <1>2, <1>4, <2>1, <2>2, <2>3, <2>6, <2>8, <2>9, Assemble,
       SplitAssumption
    DEF IInv, DiskOK, LedgerOK, TypeOK
<1> QED
  BY <1>1, <1>3, <1>4

-----------------------------------------------------------------------------
(***************************************************************************)
(* Steps that decide, or change the directory.                             *)
(***************************************************************************)
\* The holder of the lock leaves the directory s; it may decide its run, and
\* may make a part of run r a member.
LEMMA Changes ==
  ASSUME IInv, NEW p \in Procs, NEW next \in Process,
         proc[p].at \notin {"idle", "staged", "cleanup"},
         proc' = [proc EXCEPT ![p] = next], next.run = proc[p].run,
         next.at \notin {"idle", "staged"}, lock' = lock,
         NEW s \in Tree, fs' = s, s \in disk',
         \A u \in disk' : u \in disk \/ u = s,
         UNCHANGED <<used, sets, acked, lost, touched, faults>>,
         decided' = decided \/ decided' = Append(decided, proc[p].run),
         NEW r \in Runs, \A q \in Procs \ {p} : proc[q].run # r,
         \A i \in Runs : i # r => s.part[i] = fs.part[i],
         kept' \subseteq File,
         \A f \in kept' : f \in kept \/ (f.by = r /\ r \in Decided'),
         \A u \in disk : {f \in kept' : f.by # Stray} \subseteq Held(u),
         kept' \subseteq Held(s), Kept(s)',
         s.journal # NoTx => Firm(s.journal.run)', Knows(p)'
  PROVE  IInv'
<1>1. lock = p /\ faults \in Nat /\ proc[p].run \in Runs
  BY Types DEF IInv, TypeOK, LedgerOK
<1>2. \A q \in Procs \ {p} : proc'[q] = proc[q]
                             /\ proc[q].at \in {"idle", "staged", "cleanup"}
  BY <1>1 DEF IInv, TypeOK
<1>3. Decided \subseteq Decided' /\ Decided' \subseteq Decided \cup {proc[p].run}
  <2>1. CASE decided' = decided
    BY <2>1 DEF Decided
  <2>2. CASE decided' = Append(decided, proc[p].run)
    BY <1>1, <2>2, SinceGrows, Types
  <2> QED
    BY <2>1, <2>2
<1>4. ASSUME NEW q \in Procs \ {p} PROVE Knows(q)'
  <2>1. proc[q].at # "idle" =>
          /\ proc[q].run \in Runs /\ proc[q].run # r
          /\ fs'.part[proc[q].run] = fs.part[proc[q].run]
    BY Types
  <2>2. proc[q].at # "idle" => \A n \in Names :
          Part(proc[q].run, n) \in kept' => Part(proc[q].run, n) \in kept
    <3>1. proc[q].at # "idle" =>
            \A n \in Names : Part(proc[q].run, n).by = proc[q].run
      BY <2>1, PartOf
    <3> QED
      BY <2>1, <3>1
  <2> QED
    BY <1>2, <1>3, <2>1, <2>2, Waiting
<1>5. \A u \in disk' : Kept(u)'
  <2>1. ASSUME NEW u \in disk PROVE Kept(u)'
    <3>1. Kept(u) /\ decided \in Seq(Runs \cup {First})
      BY DEF IInv, DiskOK, TypeOK
    <3> QED
      BY <1>1, <3>1, KeptStays
  <2> QED
    BY <2>1
<1>6. DiskOK'
  BY <1>5 DEF DiskOK
<1>7. LedgerOK'
  BY <1>1, <1>3 DEF IInv, LedgerOK, DiskOK, Knows, Live
<1>8. /\ used \subseteq Runs /\ lost \subseteq Runs
      /\ sets \in [Runs \cup {First} -> [names : SUBSET Names,
                                         whole : BOOLEAN]]
      /\ acked \in Runs \cup {First} /\ decided \in Seq(Runs \cup {First})
  BY DEF IInv, TypeOK
<1>9. decided' \in Seq(Runs \cup {First})
  BY <1>1, <1>8
<1> QED
  BY <1>1, <1>4, <1>6, <1>7, <1>8, <1>9, Assemble

\* A live process that does not hold the lock is not at work on a run that is
\* being published.
LEMMA OthersAreElsewhere ==
  ASSUME IInv, NEW p \in Procs, NEW q \in Procs \ {p},
         proc[p].at \notin {"idle", "staged", "cleanup"}
  PROVE  /\ proc[q].run # proc[p].run
         /\ proc[p].at \in Driving => proc[q].run # proc[p].tx.run
<1>1. lock = p /\ proc[q].at \in {"idle", "staged", "cleanup"}
      /\ Knows(q) /\ proc[p].run \in Runs
  BY Types DEF IInv, TypeOK
<1>2. proc[q].run # proc[p].run
  BY <1>1, Values DEF IInv, Distinct
<1>3. ASSUME proc[p].at \in Driving PROVE proc[q].run # proc[p].tx.run
  <2>1. /\ fs.journal = proc[p].tx /\ proc[p].tx.run \in Runs
    BY <1>3, Types DEF Knows
  <2>2. Journalled(fs)
    BY <2>1, Types, Values DEF Kept, NoTx
  <2>3. proc[p].tx.run \in Decided /\ sets[proc[p].tx.run].whole
    BY <2>1, <2>2 DEF Journalled
  <2>4. CASE proc[q].at = "idle"
    BY <1>1, <2>1, <2>4, Values DEF Knows
  <2>5. CASE proc[q].at \in {"staged", "cleanup"}
    <3>1. Live(q) /\ (Undecided(proc[q].run) \/ proc[q].policy = "NoReplace")
      BY <1>1, <2>5 DEF Knows, Live, Preparing
    <3>2. proc[q].policy = "NoReplace" => ~sets[proc[q].run].whole
      BY <3>1 DEF Live
    <3> QED
      BY <2>3, <3>1, <3>2 DEF Undecided
  <2> QED
    BY <1>1, <2>4, <2>5
<1> QED
  BY <1>2, <1>3

\* volumes.rs commit: the complete archive is removed
LEMMA DropSourceStep ==
  ASSUME IInv, NEW p \in Procs, DropSource(p)
  PROVE  IInv'
<1>0. PICK r, t : r = proc[p].run /\ t = proc[p].tx
  OBVIOUS
<1>1. /\ proc[p].at = "source" /\ fs' = fs /\ disk' = {fs} /\ lock' = lock
      /\ UNCHANGED <<used, sets, acked, kept, lost, touched, faults>>
  BY DEF DropSource, At, Sync, Goes
<1>2. /\ proc[p] \in Process /\ fs \in disk /\ Knows(p) /\ Live(p) /\ Seen(p)
      /\ fs \in Tree /\ fs.journal = NoTx /\ r \in Runs /\ t.run = r
      /\ Undecided(r) /\ fs.part[r] = proc[p].outs /\ Legal(t)
      /\ t.outs = proc[p].outs
  BY <1>0, <1>1, Types DEF Knows, Live, Seen, Own, Legal, Preparing
<1>3. CASE /\ proc[p].policy # "NoReplace" /\ Goes(p, "journal")
           /\ UNCHANGED decided
  <2> DEFINE next == [proc[p] EXCEPT !.at = "journal"]
  <2>1. /\ next \in Process /\ proc' = [proc EXCEPT ![p] = next]
        /\ next.at = "journal" /\ next.run = r /\ next.tx = t
        /\ next.outs = proc[p].outs /\ next.policy = proc[p].policy
        /\ proc'[p] = next
    BY <1>0, <1>2, <1>3, Types DEF Goes, Becomes, Process, Points
  <2> HIDE DEF next
  <2>2. Live(p)'
    BY <1>0, <1>1, <1>2, <1>3, <2>1
    DEF Live, Preparing, Driving, Backing, Replaced, Undecided, Decided
  <2>3. Seen(p)'
    BY <1>0, <1>1, <1>2, <2>1 DEF Seen, Legal, Own
  <2>4. Firm(r)'
    BY <1>1 DEF Firm
  <2>5. Knows(p)'
    BY <1>0, <1>1, <1>2, <1>3, <2>1, <2>2, <2>3, <2>4
    DEF Knows, Preparing, Driving, Backing, Replaced, Placing
  <2> QED
    BY <1>0, <1>1, <1>2, <1>3, <2>1, <2>5, GoesOn DEF history
<1>4. CASE /\ proc[p].policy = "NoReplace" /\ decided' = Append(decided, r)
           /\ Becomes(p, [proc[p] EXCEPT !.at = "place",
                                         !.left = proc[p].outs])
  <2> DEFINE next == [proc[p] EXCEPT !.at = "place", !.left = proc[p].outs]
  <2>1. /\ next \in Process /\ proc' = [proc EXCEPT ![p] = next]
        /\ next.at = "place" /\ next.run = r /\ next.tx = t
        /\ next.outs = proc[p].outs /\ next.policy = proc[p].policy
        /\ proc'[p] = next /\ next.left = proc[p].outs
    BY <1>0, <1>2, <1>4, Types DEF Becomes, Process, Points
  <2> HIDE DEF next
  <2>2. Live(p)'
    BY <1>0, <1>1, <1>2, <2>1
    DEF Live, Preparing, Driving, Backing, Replaced
  <2>3. r \in Decided' /\ r \in Since(acked)'
    <3>1. PICK a : a = acked
      OBVIOUS
    <3>2. a \in Decided /\ decided \in Seq(Runs \cup {First}) /\ acked' = a
      BY <1>1, <3>1, Types DEF IInv, LedgerOK
    <3>3. r \in Decided' /\ r \in Since(a)'
      BY <1>2, <1>4, <3>2, SinceGrows
    <3> QED
      BY <3>2, <3>3 DEF Since
  <2>4. r # acked
    BY <1>2 DEF IInv, LedgerOK, Undecided
  <2>5. Private(r)'
    <3>1. \A n \in fs.part[r] : n \in Nat /\ Part(r, n).by = r
      BY <1>2, Values DEF Tree
    <3> QED
      BY <1>1, <1>2, <3>1 DEF Private, IInv, LedgerOK, Undecided
  <2>6. t.prev = Nowhere /\ (\A n \in Names : t.prev[n] = Missing)
    BY <1>0, <1>2, <1>4 DEF Seen, Nowhere
  <2>7. /\ \A n \in Names : Only(fs, r, n)
        /\ touched = 0 => \A n \in Names : fs.final[n] = Missing
    BY <1>0, <1>2, <2>6 DEF Seen, Only
  <2>8. Firm(r)'
    BY <1>1 DEF Firm
  <2>9. Own(p)'
    BY <1>1, <1>2, <2>1 DEF Own
  <2>10. Knows(p)'
    BY <1>1, <1>2, <1>4, <2>1, <2>2, <2>3, <2>4, <2>5, <2>7, <2>8, <2>9
    DEF Knows, Preparing, Driving, Backing, Replaced, Placing, Only, Output
  <2>11. \A u \in disk : {f \in kept : f.by # Stray} \subseteq Held(u)
    BY DEF IInv, DiskOK, Kept
  <2>12. Kept(fs)'
    BY <1>1, <1>2, <1>4, <2>11, Types, KeptStays
  <2>13. \A q \in Procs \ {p} : proc[q].run # r
    BY <1>0, <1>1, OthersAreElsewhere
  <2>14. kept \subseteq Held(fs) /\ kept \subseteq File
    BY Types DEF IInv, DiskOK
  <2> QED
    BY <1>0, <1>1, <1>2, <1>4, <2>1, <2>10, <2>11, <2>12, <2>13, <2>14, Changes
<1> QED
  BY <1>0, <1>3, <1>4 DEF DropSource

\* publication.rs write_journal
LEMMA WriteJournalStep ==
  ASSUME IInv, NEW p \in Procs, WriteJournal(p)
  PROVE  IInv'
<1>0. PICK r, t : r = proc[p].run /\ t = proc[p].tx
  OBVIOUS
<1>1. /\ proc[p].at = "journal"
      /\ UNCHANGED <<used, sets, acked, kept, lost, touched, faults>>
  BY DEF WriteJournal, At
<1>2. /\ proc[p] \in Process /\ fs \in disk /\ Knows(p) /\ Live(p) /\ Seen(p)
      /\ fs \in Tree /\ fs.journal = NoTx /\ r \in Runs /\ t.run = r
      /\ Undecided(r) /\ fs.part[r] = proc[p].outs /\ Legal(t)
      /\ t.outs = proc[p].outs /\ t \in Record /\ faults \in Nat
      /\ proc[p].policy # "NoReplace" /\ sets[r].whole
      /\ Firm(r) /\ Kept(fs)
  BY <1>0, <1>1, Types
  DEF Knows, Live, Seen, Own, Legal, Preparing, Process, IInv, LedgerOK
<1>3. CASE Refuse(p) /\ Look /\ UNCHANGED decided
  BY <1>1, <1>2, <1>3, GivesUp DEF history, Look
<1>4. CASE /\ Change([fs EXCEPT !.journal = t])
           /\ decided' = Append(decided, r)
           /\ Goes(p, "journalSync") /\ lock' = lock
  <2> DEFINE next == [proc[p] EXCEPT !.at = "journalSync"]
  <2>1. /\ next \in Process /\ proc' = [proc EXCEPT ![p] = next]
        /\ next.at = "journalSync" /\ next.run = r /\ next.tx = t
        /\ next.outs = proc[p].outs /\ next.policy = proc[p].policy
        /\ proc'[p] = next
    BY <1>0, <1>2, <1>4, Types DEF Goes, Becomes, Process, Points
  <2> HIDE DEF next
  <2>2. PICK s \in Tree : s = [fs EXCEPT !.journal = t]
    BY <1>2, TreeUpdates DEF Tree
  <2>3. /\ s.final = fs.final /\ s.part = fs.part /\ s.backup = fs.backup
        /\ s.journal = t /\ fs' = s /\ disk' = disk \cup {s}
    BY <1>2, <1>4, <2>2 DEF Tree, Change
  <2>4. Live(p)'
    BY <1>0, <1>1, <1>2, <2>1, <2>3
    DEF Live, Own, Preparing, Driving, Backing, Replaced
  <2>5. Knows(p)'
    BY <1>2, <2>1, <2>3, <2>4
    DEF Knows, Preparing, Driving, Backing, Replaced, Placing
  <2>6. r \in Decided' /\ r \in Since(acked)' /\ Decided \subseteq Decided'
    <3>1. PICK a : a = acked
      OBVIOUS
    <3>2. a \in Decided /\ decided \in Seq(Runs \cup {First}) /\ acked' = a
      BY <1>1, <3>1, Types DEF IInv, LedgerOK
    <3>3. r \in Decided' /\ r \in Since(a)' /\ Decided \subseteq Decided'
      BY <1>2, <1>4, <3>2, SinceGrows
    <3> QED
      BY <3>2, <3>3 DEF Since
  <2>7. Traceless(fs, r)
    BY <1>2 DEF Kept, Undecided
  <2>8. touched = 0 => Orderly(s, t)
    <3>1. ASSUME touched = 0, NEW n \in Names
          PROVE  /\ s.final[n] = t.prev[n] /\ s.backup[t.run][n] = Missing
                 /\ n \in t.outs => /\ n \in s.part[t.run]
                                    /\ s.final[n] # Part(t.run, n)
      <4>1. s.final[n] = t.prev[n]
        BY <1>0, <1>2, <2>3, <3>1 DEF Seen
      <4>2. s.backup[t.run][n] = Missing
        BY <1>2, <2>3, <2>7 DEF Traceless, Nowhere
      <4>3. s.final[n] # Part(t.run, n)
        BY <1>2, <2>3, <2>7, PartOf DEF Traceless
      <4> QED
        BY <1>2, <2>3, <4>1, <4>2, <4>3
    <3> QED
      BY <3>1 DEF Orderly
  <2>9. \A n \in Names : Either(s, t, n)
    BY <1>0, <1>2, <2>3 DEF Seen, Either, Only
  <2>10. Journalled(s)'
    <3>1. Legal(t)' /\ r \in Decided' /\ sets'[r].whole
      BY <1>1, <1>2, <2>6 DEF Legal
    <3>2. touched' = 0 => Orderly(s, t)'
      BY <1>1, <2>8 DEF Orderly
    <3>3. (\A n \in Names : Either(s, t, n))'
      BY <2>9 DEF Either, Only
    <3> QED
      BY <1>2, <2>3, <2>6, <3>1, <3>2, <3>3 DEF Journalled
  <2>11. Kept(s)' /\ kept \subseteq Held(s)
         /\ \A u \in disk : {f \in kept : f.by # Stray} \subseteq Held(u)
    <3>1. Members(s) = Members(fs) /\ Held(s) = Held(fs)
      BY <2>3 DEF Members, Held, Backups, Parts
    <3>2. t # NoTx
      BY <1>2, Values DEF NoTx
    <3>3. \A x \in Runs \ Decided' : Traceless(s, x)'
      BY <1>2, <2>3, <2>6 DEF Kept, Traceless
    <3> QED
      BY <1>1, <1>2, <2>3, <2>10, <3>1, <3>2, <3>3
      DEF Kept, NeverMixed, WholeFamily, IInv, DiskOK, Members, Held
  <2>12. Firm(r)'
    BY <1>2, <2>3 DEF Firm
  <2>13. \A q \in Procs \ {p} : proc[q].run # r
    BY <1>0, <1>1, OthersAreElsewhere
  <2> QED
    BY <1>0, <1>1, <1>2, <1>4, <2>1, <2>3, <2>5, <2>11, <2>12, <2>13, Types,
       Changes
<1> QED
  BY <1>0, <1>3, <1>4 DEF WriteJournal

\* publication.rs clear_journal
LEMMA ClearStep ==
  ASSUME IInv, NEW p \in Procs, Clear(p)
  PROVE  IInv'
<1>0. PICK t : t = proc[p].tx
  OBVIOUS
<1>1. /\ proc[p].at = "clear" /\ lock' = lock
      /\ UNCHANGED <<used, decided, sets, acked, kept, lost, touched, faults>>
      /\ Change([fs EXCEPT !.journal = NoTx]) /\ Goes(p, "clearSync")
  BY DEF Clear, At, history
<1>2. /\ proc[p] \in Process /\ fs \in disk /\ Knows(p) /\ Live(p)
      /\ fs \in Tree /\ fs.journal = t /\ t.run \in Runs /\ t # NoTx
      /\ Kept(fs)
      /\ touched = 0 => fs.final = Outputs(t)
      /\ t \in Record
  BY <1>0, <1>1, Types, Values
  DEF Knows, Driving, Replaced, Process, NoTx
<1>3. Journalled(fs)
  BY <1>2 DEF Kept
<1> DEFINE next == [proc[p] EXCEPT !.at = "clearSync"]
<1>4. /\ next \in Process /\ proc' = [proc EXCEPT ![p] = next]
      /\ next.at = "clearSync" /\ next.run = proc[p].run /\ next.tx = t
      /\ next.outs = proc[p].outs /\ next.policy = proc[p].policy
      /\ proc'[p] = next
  BY <1>0, <1>1, <1>2, Types DEF Goes, Becomes, Process, Points
<1> HIDE DEF next
<1>5. PICK s \in Tree : s = [fs EXCEPT !.journal = NoTx]
  BY <1>2, Values DEF Tree
<1>6. /\ s.final = fs.final /\ s.part = fs.part /\ s.backup = fs.backup
      /\ s.journal = NoTx /\ fs' = s /\ disk' = disk \cup {s}
  BY <1>1, <1>2, <1>5, Values DEF Tree, Change
<1>7. Live(p)'
  BY <1>0, <1>1, <1>2, <1>4, <1>6
  DEF Live, Own, Preparing, Driving, Backing, Replaced, Undecided, Decided
<1>8. /\ Legal(t) /\ t.run \in Decided
      /\ touched = 0 => t.run \in Since(acked)
  BY <1>2, <1>3 DEF Journalled
<1>9. /\ Legal(t)' /\ t.run \in Decided'
      /\ touched = 0 => t.run \in Since(acked)'
  BY <1>1, <1>8 DEF Legal, Decided, Since
<1>10. Knows(p)'
  BY <1>1, <1>2, <1>4, <1>6, <1>7, <1>9
  DEF Knows, Preparing, Driving, Backing, Replaced, Placing, Outputs
<1>11. Kept(s)
  <2>1. Members(s) = Members(fs) /\ Held(s) = Held(fs)
    BY <1>6 DEF Members, Held, Backups, Parts
  <2>2. touched = 0 => Members(s) = SetOf(t.run)
    BY <1>2, <1>6, <1>8, OutputsAreSet DEF Legal, Record
  <2>3. WholeFamily(s)
    BY <1>8, <2>2 DEF WholeFamily
  <2> QED
    BY <1>2, <1>6, <2>1, <2>3 DEF Kept, NeverMixed, Traceless
<1>12. Kept(s)'
  BY <1>1, <1>11, Types, KeptStays DEF Kept
<1>13. /\ kept \subseteq Held(s)
       /\ \A u \in disk : {f \in kept : f.by # Stray} \subseteq Held(u)
  <2>1. Held(s) = Held(fs)
    BY <1>6 DEF Members, Held, Backups, Parts
  <2> QED
    BY <2>1 DEF IInv, DiskOK, Kept
<1>14. \A q \in Procs \ {p} : proc[q].run # t.run
  BY <1>0, <1>1, OthersAreElsewhere DEF Driving, Replaced
<1> QED
  BY <1>1, <1>2, <1>4, <1>6, <1>10, <1>12, <1>13, <1>14, Types, Changes

\* publication.rs move_member to its backup name
LEMMA MoveBackupStep ==
  ASSUME IInv, NEW p \in Procs, MoveBackup(p)
  PROVE  IInv'
<1>0. PICK t, r, n : t = proc[p].tx /\ r = t.run /\ n = Next_(p)
  OBVIOUS
<1>1. /\ proc[p].at = "moveBackup" /\ UNCHANGED <<history, kept, touched, faults>>
  BY DEF MoveBackup, At
<1>2. /\ proc[p] \in Process /\ fs \in disk /\ Knows(p)
      /\ fs \in Tree /\ fs.journal = t /\ r \in Runs /\ t # NoTx
      /\ Kept(fs) /\ n \in Names /\ n \in Bound(t)
      /\ proc[p].left \subseteq Bound(t) /\ proc[p].left # {}
  <2>1. proc[p].left # {} /\ proc[p].left \subseteq Bound(t)
    BY <1>0, <1>1, Types DEF Knows, Backing
  <2> QED
    BY <1>0, <1>1, <2>1, NextIsIn, Types, Values
    DEF Knows, Driving, Backing, NoTx
<1>3. Journalled(fs)
  BY <1>2 DEF Kept
<1>4. CASE Refuse(p) /\ Look
  BY <1>1, <1>2, <1>4, GivesUp DEF Look, IInv, LedgerOK
<1>5. CASE /\ fs.final[n] # Missing /\ fs.backup[r][n] = Missing
           /\ Change([fs EXCEPT !.final[n] = Missing,
                                !.backup[r][n] = fs.final[n]])
           /\ Goes(p, "syncBackup") /\ lock' = lock
  <2> DEFINE next == [proc[p] EXCEPT !.at = "syncBackup"]
  <2>1. /\ next \in Process /\ proc' = [proc EXCEPT ![p] = next]
        /\ next.at = "syncBackup" /\ next.run = proc[p].run /\ next.tx = t
        /\ next.outs = proc[p].outs /\ next.policy = proc[p].policy
        /\ proc'[p] = next /\ next.left = proc[p].left
    BY <1>0, <1>2, <1>5, Types DEF Goes, Becomes, Process, Points
  <2> HIDE DEF next
  <2>2. PICK s \in Tree : s = [fs EXCEPT !.final[n] = Missing,
                                         !.backup[r][n] = fs.final[n]]
    BY <1>2, TreeUpdates DEF Tree, Slot
  <2>3. /\ s.part = fs.part /\ s.journal = t
        /\ s.final[n] = Missing /\ s.backup[r][n] = fs.final[n]
        /\ \A m \in Names : m # n => /\ s.final[m] = fs.final[m]
                                     /\ s.backup[r][m] = fs.backup[r][m]
        /\ \A x \in Runs : x # r => s.backup[x] = fs.backup[x]
        /\ fs' = s /\ disk' = disk \cup {s}
    BY <1>2, <1>5, <2>2 DEF Tree, Change
  <2>4. Live(p)'
    BY <1>0, <1>1, <1>2, <2>1, <2>3
    DEF Knows, Live, Own, Preparing, Driving, Backing, Replaced, history,
        Undecided, Decided
  <2>5. \A m \in Names \ next.left : Only(s, r, m)
    BY <1>0, <1>1, <1>2, <2>1, <2>3 DEF Knows, Backing, Only
  <2>6. Knows(p)'
    BY <1>0, <1>1, <1>2, <2>1, <2>3, <2>4, <2>5
    DEF Knows, Preparing, Driving, Backing, Replaced, Placing, Bound
  <2>7. touched = 0 => Orderly(s, t)
    <3>1. ASSUME touched = 0, NEW m \in Names
          PROVE  /\ m \in Bound(t) =>
                      \/ s.final[m] = t.prev[m] /\ s.backup[r][m] = Missing
                      \/ /\ s.final[m] \in {Missing, Output(t, m)}
                         /\ s.backup[r][m] = t.prev[m]
                 /\ m \in t.outs =>
                      (m \in s.part[r]) # (s.final[m] = Part(r, m))
                 /\ s.final[m] \in {Missing, t.prev[m], Output(t, m)}
      <4>1. /\ m \in Bound(t) =>
                    \/ fs.final[m] = t.prev[m] /\ fs.backup[r][m] = Missing
                    \/ /\ fs.final[m] \in {Missing, Output(t, m)}
                       /\ fs.backup[r][m] = t.prev[m]
            /\ m \in t.outs =>
                    (m \in fs.part[r]) # (fs.final[m] = Part(r, m))
            /\ fs.final[m] \in {Missing, t.prev[m], Output(t, m)}
        BY <1>0, <1>2, <1>3, <3>1 DEF Journalled, Orderly
      <4>2. CASE m # n
        BY <2>3, <4>1, <4>2
      <4>3. CASE m = n
        <5>1. t.prev[n] # Missing /\ t.prev[n] # Part(r, n)
          BY <1>0, <1>2, <1>3, PartOf DEF Journalled, Legal, Bound
        <5>2. fs.final[n] = t.prev[n]
          BY <1>2, <1>5, <4>1, <4>3, <5>1
        <5> QED
          BY <1>2, <2>3, <4>1, <4>3, <5>1, <5>2, PartOf
      <4> QED
        BY <4>2, <4>3
    <3> QED
      BY <1>0, <3>1 DEF Orderly
  <2>8. Journalled(s)
    <3>1. \A m \in Names : Either(s, t, m)
      BY <1>2, <1>3, <2>3 DEF Journalled, Either, Only
    <3> QED
      BY <1>2, <1>3, <2>3, <2>7, <3>1 DEF Journalled
  <2>9. Held(fs) \ {Missing} \subseteq Held(s)
    <3>1. ASSUME NEW f \in Held(fs), f # Missing PROVE f \in Held(s)
      <4>1. CASE \E m \in Names : f = fs.final[m]
        BY <1>2, <2>3, <3>1, <4>1, WhereItIs
      <4>2. CASE \E x \in Runs, m \in Names : f = fs.backup[x][m]
        <5>1. PICK x \in Runs, m \in Names : f = fs.backup[x][m]
          BY <4>2
        <5>2. s.backup[x][m] = fs.backup[x][m]
          BY <1>5, <2>3, <3>1, <5>1
        <5> QED
          BY <3>1, <5>1, <5>2, WhereItIs
      <4>3. CASE \E x \in Runs : \E m \in fs.part[x] : f = Part(x, m)
        BY <2>3, <4>3, WhereItIs
      <4> QED
        BY <3>1, <4>1, <4>2, <4>3, WhereItIs
    <3> QED
      BY <3>1
  <2>10. kept \subseteq Held(fs) /\ Missing \notin kept
    BY Types, SplitAssumption DEF IInv, DiskOK
  <2>11. Kept(s)
    <3>1. Members(s) \subseteq Members(fs)
      BY <2>3 DEF Members
    <3>2. \A x \in Runs \ Decided : Traceless(s, x)
      BY <1>0, <1>2, <1>3, <2>3 DEF Kept, Traceless, Journalled
    <3> QED
      BY <1>2, <2>3, <2>8, <2>9, <2>10, <3>1, <3>2
      DEF Kept, NeverMixed, WholeFamily
  <2>12. Kept(s)'
    BY <1>1, <2>11, Types, KeptStays DEF Kept, history
  <2>13. Firm(r)'
    BY <1>0, <1>2, <2>3 DEF Firm, IInv, DiskOK
  <2>14. \A q \in Procs \ {p} : proc[q].run # r
    BY <1>0, <1>1, OthersAreElsewhere DEF Driving, Backing
  <2>15. /\ kept \subseteq Held(s)
         /\ \A u \in disk : {f \in kept : f.by # Stray} \subseteq Held(u)
    BY <2>9, <2>10 DEF IInv, DiskOK, Kept
  <2> QED
    BY <1>0, <1>1, <1>2, <1>5, <2>1, <2>3, <2>6, <2>12, <2>13, <2>14, <2>15,
       Types, Changes DEF history
<1> QED
  BY <1>0, <1>1, <1>4, <1>5 DEF MoveBackup, MoveFile

\* A part becomes a member in a directory that has none of another run.
Moved(s, r, n) ==
  /\ s \in Tree /\ s.backup = fs.backup /\ s.journal = fs.journal
  /\ s.final[n] = Part(r, n) /\ s.part[r] = fs.part[r] \ {n}
  /\ \A m \in Names : m # n => s.final[m] = fs.final[m]
  /\ \A x \in Runs : x # r => s.part[x] = fs.part[x]

Grown(s, r, files) ==
  /\ files \subseteq Held(s)
  /\ \A u \in disk : /\ {f \in files : f.by # Stray} \subseteq Held(u)
                     /\ s.part[r] \subseteq u.part[r]
  /\ NeverMixed(s) /\ \A x \in Runs \ Decided : Traceless(s, x)
  /\ \A m \in Names : Only(s, r, m)

\* Moving a part to its free final name leaves such a directory.
\* [publication.rs move_member, volumes.rs commit]
LEMMA PlacedTree ==
  ASSUME IInv, NEW r \in Runs, NEW n \in Names, n \in fs.part[r],
         fs.final[n] = Missing, \A m \in Names : Only(fs, r, m),
         Firm(r), r \in Decided, Placed(r, n)
  PROVE  /\ disk' = disk \cup {fs'} /\ kept' = kept \cup {Part(r, n)}
         /\ kept' \subseteq File /\ Moved(fs', r, n) /\ Grown(fs', r, kept')
<1>0. PICK s, k : /\ s = [fs EXCEPT !.final[n] = Part(r, n), !.part[r] = @ \ {n}]
                  /\ k = kept \cup {Part(r, n)}
  OBVIOUS
<1>1. /\ fs \in Tree /\ fs \in disk /\ Kept(fs) /\ kept \subseteq File
      /\ kept \subseteq Held(fs)
      /\ \A u \in disk : {f \in kept : f.by # Stray} \subseteq Held(u)
  BY DEF IInv, DiskOK, TypeOK, Kept
<1>2. /\ Part(r, n) \in Slot /\ Part(r, n) # Missing /\ Part(r, n).by = r
  BY PartOf DEF Slot
<1>3. s \in Tree
  <2>1. fs.part[r] \ {n} \in SUBSET Names
    BY <1>1 DEF Tree
  <2> QED
    BY <1>0, <1>1, <1>2, <2>1, TreeUpdates
<1>4. /\ s.backup = fs.backup /\ s.journal = fs.journal
      /\ s.final[n] = Part(r, n) /\ s.part[r] = fs.part[r] \ {n}
      /\ \A m \in Names : m # n => s.final[m] = fs.final[m]
      /\ \A x \in Runs : x # r => s.part[x] = fs.part[x]
  BY <1>0, <1>1 DEF Tree
<1>5. Part(r, n) \in Held(s)
  BY <1>2, <1>4, WhereItIs
<1>6. ASSUME NEW f \in Held(fs), f # Missing PROVE f \in Held(s)
  <2>1. CASE \E m \in Names : f = fs.final[m]
    BY <1>4, <1>6, <2>1, WhereItIs
  <2>2. CASE \E x \in Runs, m \in Names : f = fs.backup[x][m]
    BY <1>4, <1>6, <2>2, WhereItIs
  <2>3. CASE \E x \in Runs : \E m \in fs.part[x] : f = Part(x, m)
    <3>1. PICK x \in Runs : \E m \in fs.part[x] : f = Part(x, m)
      BY <2>3
    <3>2. PICK m \in fs.part[x] : f = Part(x, m)
      BY <3>1
    <3>3. CASE x = r /\ m = n
      BY <1>5, <3>2, <3>3
    <3>4. CASE ~(x = r /\ m = n)
      <4>1. m \in s.part[x]
        BY <1>4, <3>2, <3>4
      <4> QED
        BY <3>2, <4>1, WhereItIs
    <3> QED
      BY <3>3, <3>4
  <2> QED
    BY <1>6, <2>1, <2>2, <2>3, WhereItIs
<1>7. k \subseteq Held(s) /\ k \subseteq File
  BY <1>0, <1>1, <1>5, <1>6, SplitAssumption, PartOf
<1>8. ASSUME NEW u \in disk
      PROVE  /\ {f \in k : f.by # Stray} \subseteq Held(u)
             /\ s.part[r] \subseteq u.part[r]
  <2>1. n \in u.part[r] /\ fs.part[r] \subseteq u.part[r]
    BY <1>8 DEF Firm
  <2>2. Part(r, n) \in Held(u)
    BY <2>1, WhereItIs
  <2> QED
    BY <1>0, <1>1, <1>4, <2>1, <2>2
<1>9. \A m \in Names : Only(s, r, m)
  BY <1>2, <1>4 DEF Only
<1>10. NeverMixed(s)
  BY <1>9 DEF NeverMixed, Members, Only
<1>11. \A x \in Runs \ Decided : Traceless(s, x)
  BY <1>1, <1>2, <1>4 DEF Kept, Traceless
<1>12. Moved(s, r, n) /\ Grown(s, r, k)
  BY <1>3, <1>4, <1>7, <1>8, <1>9, <1>10, <1>11 DEF Moved, Grown
<1>13. fs' = s /\ disk' = disk \cup {s} /\ kept' = k
  BY <1>0 DEF Placed, Change
<1> QED
  BY <1>0, <1>7, <1>12, <1>13 DEF Moved, Grown, Held, Members, Backups, Parts, NeverMixed, Traceless, Only

\* publication.rs move_member to its final name
LEMMA MoveInstallStep ==
  ASSUME IInv, NEW p \in Procs, MoveInstall(p)
  PROVE  IInv'
<1>0. PICK t, r, n : t = proc[p].tx /\ r = t.run /\ n = Next_(p)
  OBVIOUS
<1>1. /\ proc[p].at = "moveInstall" /\ UNCHANGED <<history, touched, faults>>
  BY DEF MoveInstall, At
<1>2. /\ proc[p] \in Process /\ fs \in disk /\ Knows(p)
      /\ fs \in Tree /\ fs.journal = t /\ r \in Runs /\ t # NoTx
      /\ Kept(fs) /\ n \in Names /\ n \in t.outs /\ n \in fs.part[r]
      /\ \A m \in Names : Only(fs, r, m)
      /\ proc[p].left \subseteq t.outs /\ proc[p].left # {}
  <2>1. proc[p].left # {} /\ proc[p].left \subseteq t.outs
    BY <1>0, <1>1, Types DEF Knows, Replaced
  <2> QED
    BY <1>0, <1>1, <2>1, NextIsIn, Types, Values
    DEF Knows, Driving, Replaced, NoTx
<1>3. Journalled(fs)
  BY <1>2 DEF Kept
<1>4. CASE Refuse(p) /\ Look /\ UNCHANGED kept
  BY <1>1, <1>2, <1>4, GivesUp DEF Look, IInv, LedgerOK
<1>5. CASE /\ fs.final[n] = Missing /\ Placed(r, n)
           /\ Goes(p, "syncInstall") /\ lock' = lock
  <2> DEFINE next == [proc[p] EXCEPT !.at = "syncInstall"]
  <2>1. /\ next \in Process /\ proc' = [proc EXCEPT ![p] = next]
        /\ next.at = "syncInstall" /\ next.run = proc[p].run /\ next.tx = t
        /\ next.outs = proc[p].outs /\ next.policy = proc[p].policy
        /\ proc'[p] = next /\ next.left = proc[p].left
    BY <1>0, <1>2, <1>5, Types DEF Goes, Becomes, Process, Points
  <2> HIDE DEF next
  <2>2. PICK s, k : s = fs' /\ k = kept'
    OBVIOUS
  <2>3. r \in Decided /\ Firm(r)
    BY <1>0, <1>2, <1>3 DEF Journalled, IInv, DiskOK
  <2>4. /\ fs' = s /\ disk' = disk \cup {s} /\ k = kept \cup {Part(r, n)}
        /\ k \subseteq File /\ Moved(s, r, n) /\ Grown(s, r, k)
    BY <1>2, <1>5, <2>2, <2>3, PlacedTree
  <2>5. /\ s \in Tree /\ s.backup = fs.backup /\ s.journal = t
        /\ s.final[n] = Part(r, n) /\ s.part[r] = fs.part[r] \ {n}
        /\ \A m \in Names : m # n => s.final[m] = fs.final[m]
        /\ \A x \in Runs : x # r => s.part[x] = fs.part[x]
        /\ k \subseteq Held(s)
        /\ \A u \in disk : /\ {f \in k : f.by # Stray} \subseteq Held(u)
                           /\ s.part[r] \subseteq u.part[r]
        /\ NeverMixed(s) /\ \A x \in Runs \ Decided : Traceless(s, x)
        /\ \A m \in Names : Only(s, r, m)
    BY <1>2, <2>4 DEF Moved, Grown
  <2>6. Live(p)'
    <3>1. proc[p].run \in Runs /\ Live(p)
      BY <1>1, <1>2, Types DEF Knows
    <3>2. ~Own(p) => s.part[proc[p].run] = fs.part[proc[p].run]
      BY <1>0, <2>5, <3>1 DEF Own
    <3> QED
      BY <1>0, <1>1, <2>1, <2>4, <3>1, <3>2
      DEF Live, Own, Preparing, Driving, Backing, Replaced, history,
          Undecided, Decided
  <2>7. Knows(p)'
    BY <1>0, <1>1, <1>2, <2>1, <2>4, <2>5, <2>6
    DEF Knows, Preparing, Driving, Backing, Replaced, Placing
  <2>8. touched = 0 => Orderly(s, t)
    <3>1. ASSUME touched = 0, NEW m \in Names
          PROVE  /\ m \in Bound(t) =>
                      \/ s.final[m] = t.prev[m] /\ s.backup[r][m] = Missing
                      \/ /\ s.final[m] \in {Missing, Output(t, m)}
                         /\ s.backup[r][m] = t.prev[m]
                 /\ m \in t.outs =>
                      (m \in s.part[r]) # (s.final[m] = Part(r, m))
                 /\ s.final[m] \in {Missing, t.prev[m], Output(t, m)}
      <4>1. /\ m \in Bound(t) =>
                    \/ fs.final[m] = t.prev[m] /\ fs.backup[r][m] = Missing
                    \/ /\ fs.final[m] \in {Missing, Output(t, m)}
                       /\ fs.backup[r][m] = t.prev[m]
            /\ m \in t.outs =>
                    (m \in fs.part[r]) # (fs.final[m] = Part(r, m))
            /\ fs.final[m] \in {Missing, t.prev[m], Output(t, m)}
        BY <1>0, <1>2, <1>3, <3>1 DEF Journalled, Orderly
      <4>2. CASE m # n
        BY <2>5, <4>1, <4>2
      <4>3. CASE m = n
        <5>1. Output(t, n) = Part(r, n)
          BY <1>0, <1>2 DEF Output
        <5> QED
          BY <1>5, <2>5, <4>1, <4>3, <5>1 DEF Bound
      <4> QED
        BY <4>2, <4>3
    <3> QED
      BY <1>0, <3>1 DEF Orderly
  <2>9. Journalled(s)
    <3>1. \A m \in Names : Either(s, t, m)
      BY <1>0, <2>5 DEF Either
    <3> QED
      BY <1>2, <1>3, <2>5, <2>8, <3>1 DEF Journalled
  <2>10. Kept(s)
    <3>1. {f \in kept : f.by # Stray} \subseteq Held(s)
      BY <2>4, <2>5
    <3> QED
      BY <1>2, <2>5, <2>9, <3>1 DEF Kept, WholeFamily
  <2>11. Kept(s)'
    BY <1>1, <2>2, <2>5, <2>10, Types, KeptStays DEF history
  <2>12. Firm(r)'
    BY <2>4, <2>5 DEF Firm
  <2>13. \A q \in Procs \ {p} : proc[q].run # r
    BY <1>0, <1>1, OthersAreElsewhere DEF Driving, Replaced
  <2>14. k \subseteq File /\ \A f \in k :
            f \in kept \/ (f.by = r /\ r \in Decided')
    BY <1>1, <1>2, <2>3, <2>4, PartOf DEF Decided, history
  <2> QED
    BY <1>0, <1>1, <1>2, <1>5, <2>1, <2>2, <2>4, <2>5, <2>7, <2>11, <2>12, <2>13,
       <2>14, Changes DEF history
<1> QED
  BY <1>0, <1>1, <1>4, <1>5 DEF MoveInstall, MoveFile

\* volumes.rs commit: one part after the other into free names
LEMMA PlaceStep ==
  ASSUME IInv, NEW p \in Procs, Place(p)
  PROVE  IInv'
<1>0. PICK t, r, n : t = proc[p].tx /\ r = proc[p].run /\ n = Next_(p)
  OBVIOUS
<1>1. /\ proc[p].at = "place" /\ UNCHANGED <<history, touched, faults>>
  BY DEF Place, At
<1>2. /\ proc[p] \in Process /\ fs \in disk /\ Knows(p) /\ Live(p)
      /\ fs \in Tree /\ fs.journal = NoTx /\ r \in Runs /\ Kept(fs)
      /\ t.run = r /\ t.outs = proc[p].outs /\ sets[r].names = proc[p].outs
      /\ proc[p].left \subseteq fs.part[r] \cap t.outs
      /\ r \in Decided /\ r # acked /\ Firm(r) /\ Private(r)
      /\ \A m \in Names : Only(fs, r, m)
  BY <1>0, <1>1, Types DEF Knows, Placing, Live, Own
<1>3. ~sets[r].whole
  BY <1>0, <1>1, <1>2 DEF Knows, Placing, Live
<1>4. /\ touched = 0 => r \in Since(acked)
      /\ touched = 0 => \A m \in Names :
           fs.final[m] = IF m \in proc[p].left THEN Missing ELSE Output(t, m)
  BY <1>0, <1>1, <1>2 DEF Knows, Placing
<1>5. CASE Refuse(p) /\ Look /\ UNCHANGED kept
  BY <1>1, <1>2, <1>5, GivesUp DEF Look, IInv, LedgerOK
<1>6. CASE proc[p].left = {} /\ Goes(p, "placeSync") /\ Look
           /\ UNCHANGED <<lock, kept>>
  <2> DEFINE next == [proc[p] EXCEPT !.at = "placeSync"]
  <2>1. /\ next \in Process /\ proc' = [proc EXCEPT ![p] = next]
        /\ next.at = "placeSync" /\ next.run = r /\ next.tx = t
        /\ next.outs = proc[p].outs /\ next.policy = proc[p].policy
        /\ proc'[p] = next
    BY <1>0, <1>2, <1>6, Types DEF Goes, Becomes, Process, Points
  <2> HIDE DEF next
  <2>2. Live(p)'
    BY <1>0, <1>1, <1>2, <2>1
    DEF Live, Preparing, Driving, Backing, Replaced, history
  <2>3. touched = 0 => fs.final = Outputs(t)
    BY <1>2, <1>4, <1>6 DEF Outputs, Tree
  <2>4. Private(r)' /\ Since(acked)' = Since(acked) /\ Decided' = Decided
    BY <1>1, <1>2, <1>6 DEF Private, Look, Since, Decided, history
  <2>5. Knows(p)'
    BY <1>0, <1>1, <1>2, <1>6, <2>1, <2>2, <2>3, <2>4
    DEF Knows, Preparing, Driving, Backing, Replaced, Placing, Own, Look,
        history, Outputs
  <2> QED
    BY <1>0, <1>1, <1>2, <1>6, <2>1, <2>5, GoesOn DEF Look
<1>7. CASE /\ proc[p].left # {} /\ fs.final[n] = Missing /\ Placed(r, n)
           /\ Visited(p, "place") /\ lock' = lock
  <2> DEFINE next == [proc[p] EXCEPT !.at = "place", !.left = @ \ {n}]
  <2>1. /\ next \in Process /\ proc' = [proc EXCEPT ![p] = next]
        /\ next.at = "place" /\ next.run = r /\ next.tx = t
        /\ next.outs = proc[p].outs /\ next.policy = proc[p].policy
        /\ proc'[p] = next /\ next.left = proc[p].left \ {n}
    BY <1>0, <1>2, <1>7, Types DEF Visited, Becomes, Process, Points
  <2> HIDE DEF next
  <2>2. n \in proc[p].left /\ n \in Names /\ n \in fs.part[r] /\ n \in t.outs
    BY <1>0, <1>2, <1>7, NextIsIn
  <2>3. PICK s, k : s = fs' /\ k = kept'
    OBVIOUS
  <2>4. /\ fs' = s /\ disk' = disk \cup {s} /\ k = kept \cup {Part(r, n)}
        /\ k \subseteq File /\ Moved(s, r, n) /\ Grown(s, r, k)
    BY <1>2, <1>7, <2>2, <2>3, PlacedTree
  <2>5. /\ s \in Tree /\ s.backup = fs.backup /\ s.journal = NoTx
        /\ s.final[n] = Part(r, n) /\ s.part[r] = fs.part[r] \ {n}
        /\ \A m \in Names : m # n => s.final[m] = fs.final[m]
        /\ \A x \in Runs : x # r => s.part[x] = fs.part[x]
        /\ k \subseteq Held(s)
        /\ \A u \in disk : /\ {f \in k : f.by # Stray} \subseteq Held(u)
                           /\ s.part[r] \subseteq u.part[r]
        /\ NeverMixed(s) /\ \A x \in Runs \ Decided : Traceless(s, x)
        /\ \A m \in Names : Only(s, r, m)
    BY <1>2, <2>4 DEF Moved, Grown
  <2>6. Live(p)'
    BY <1>0, <1>1, <1>2, <2>1
    DEF Live, Preparing, Driving, Backing, Replaced, history
  <2>7. touched = 0 => \A m \in Names :
          s.final[m] = IF m \in next.left THEN Missing ELSE Output(t, m)
    <3>1. Output(t, n) = Part(r, n)
      BY <1>2, <2>2 DEF Output
    <3> QED
      BY <1>4, <2>1, <2>5, <3>1
  <2>8. \A m \in s.part[r] : Part(r, m) \notin k
    <3>1. ASSUME NEW m \in s.part[r] PROVE Part(r, m) # Part(r, n)
      BY <2>5 DEF Part
    <3> QED
      BY <1>2, <2>4, <2>5, <3>1 DEF Private
  <2>9. Firm(r)'
    BY <2>4, <2>5 DEF Firm
  <2>10. Since(acked)' = Since(acked) /\ Decided' = Decided
    BY <1>1 DEF Since, Decided, history
  <2>11. Knows(p)'
    <3>1. Private(r)' /\ Own(p)' /\ r # acked' /\ proc'[p].policy = "NoReplace"
      BY <1>1, <1>2, <2>1, <2>3, <2>8 DEF Private, Own, history, Knows, Placing
    <3>2. touched' = 0 => r \in Since(acked)'
      BY <1>1, <1>4, <2>10
    <3>3. /\ proc'[p].left \subseteq fs'.part[r] \cap proc'[p].outs
      BY <1>2, <2>1, <2>4, <2>5
    <3>4. (\A m \in Names : Only(s, r, m))'
      BY <2>5 DEF Only
    <3>5. touched' = 0 => \A m \in Names :
            fs'.final[m] = IF m \in proc'[p].left THEN Missing
                           ELSE Output(t, m)
      BY <1>1, <2>1, <2>4, <2>7
    <3>6. fs'.journal = NoTx /\ r \in Decided'
      BY <1>2, <2>4, <2>5, <2>10
    <3> QED
      BY <1>2, <2>1, <2>4, <2>6, <2>9, <3>1, <3>2, <3>3, <3>4, <3>5, <3>6
      DEF Knows, Preparing, Driving, Backing, Replaced, Placing
  <2>12. Kept(s)
    <3>1. ASSUME touched = 0 PROVE Members(s) \subseteq SetOf(r)
      <4>1. \A m \in Names : s.final[m] = Missing
               \/ (m \in t.outs /\ s.final[m] = Part(r, m))
        BY <1>2, <2>7, <3>1 DEF Output
      <4> QED
        BY <1>2, <4>1 DEF Members, SetOf
    <3>2. WholeFamily(s)
      BY <1>2, <1>3, <1>4, <3>1 DEF WholeFamily
    <3>3. {f \in kept : f.by # Stray} \subseteq Held(s)
      BY <2>4, <2>5
    <3> QED
      BY <1>2, <2>5, <3>2, <3>3 DEF Kept
  <2>13. Kept(s)'
    BY <1>1, <2>3, <2>5, <2>12, Types, KeptStays DEF history
  <2>14. \A q \in Procs \ {p} : proc[q].run # r
    BY <1>0, <1>1, OthersAreElsewhere
  <2>15. \A f \in k : f \in kept \/ (f.by = r /\ r \in Decided')
    BY <1>2, <2>2, <2>4, <2>10, PartOf
  <2> QED
    BY <1>0, <1>1, <1>2, <1>7, <2>1, <2>3, <2>4, <2>5, <2>11, <2>13, <2>14,
       <2>15, Changes DEF history
<1> QED
  BY <1>0, <1>1, <1>5, <1>6, <1>7 DEF Place, MoveFile

-----------------------------------------------------------------------------
(***************************************************************************)
(* Parts are written and removed; everything else that may happen.         *)
(***************************************************************************)
\* Parts that have never been members come or go; the members, the backups,
\* the journal, and the parts that the journal speaks of stay.
Parted(s, r, X) ==
  /\ s \in Tree /\ s.final = fs.final /\ s.backup = fs.backup
  /\ s.journal = fs.journal /\ s.part[r] = X
  /\ \A x \in Runs : x # r => s.part[x] = fs.part[x]
  /\ kept \subseteq Held(s) /\ Kept(s)

\* Writing or removing such parts leaves a good directory.
LEMMA PartsTree ==
  ASSUME IInv, NEW r \in Runs, NEW X \in SUBSET Names,
         fs.journal # NoTx => fs.journal.run # r,
         \A n \in fs.part[r] : n \in X \/ Part(r, n) \notin kept
  PROVE  Parted([fs EXCEPT !.part[r] = X], r, X)
<1>0. PICK s : s = [fs EXCEPT !.part[r] = X]
  OBVIOUS
<1>1. /\ fs \in Tree /\ Kept(fs) /\ kept \subseteq Held(fs)
      /\ kept \subseteq File
  BY DEF IInv, DiskOK, TypeOK
<1>2. /\ s \in Tree /\ s.final = fs.final /\ s.backup = fs.backup
      /\ s.journal = fs.journal /\ s.part[r] = X
      /\ \A x \in Runs : x # r => s.part[x] = fs.part[x]
  BY <1>0, <1>1 DEF Tree
<1>3. ASSUME NEW f \in kept PROVE f \in Held(s)
  <2>1. f \in Held(fs) /\ f # Missing
    BY <1>1, <1>3, SplitAssumption
  <2>2. CASE \E x \in Runs : \E m \in fs.part[x] : f = Part(x, m)
    <3>1. PICK x \in Runs : \E m \in fs.part[x] : f = Part(x, m)
      BY <2>2
    <3>2. PICK m \in fs.part[x] : f = Part(x, m)
      BY <3>1
    <3>3. m \in s.part[x]
      BY <1>2, <1>3, <3>2
    <3> QED
      BY <3>2, <3>3, WhereItIs
  <2>3. CASE \E m \in Names : f = fs.final[m]
    BY <1>2, <2>1, <2>3, WhereItIs
  <2>4. CASE \E x \in Runs, m \in Names : f = fs.backup[x][m]
    BY <1>2, <2>1, <2>4, WhereItIs
  <2> QED
    BY <2>1, <2>2, <2>3, <2>4, WhereItIs
<1>4. fs.journal # NoTx => s.part[fs.journal.run] = fs.part[fs.journal.run]
  <2>1. fs.journal # NoTx => fs.journal.run \in Runs
    BY <1>1 DEF Kept, Journalled, Legal
  <2> QED
    BY <1>2, <2>1
<1>5. Kept(s)
  <2>1. {f \in kept : f.by # Stray} \subseteq Held(s)
    BY <1>3
  <2> QED
    BY <1>1, <1>2, <1>4, <2>1, KeptParts
<1>6. Parted(s, r, X)
  BY <1>2, <1>3, <1>5 DEF Parted
<1> QED
  BY <1>0, <1>6

\* A live process whose run is not in the journal.
LEMMA NotJournalled ==
  ASSUME IInv, NEW r \in Runs, fs.journal # NoTx,
         Undecided(r) \/ ~sets[r].whole
  PROVE  fs.journal.run # r
BY Types DEF IInv, DiskOK, Kept, Journalled, Undecided

\* volumes.rs split: the parts are written under private names
LEMMA StageStep ==
  ASSUME IInv, NEW p \in Procs, Stage(p)
  PROVE  IInv'
<1>1. PICK k \in Names, policy \in Policies :
        LET r    == Least(Runs \ used)
            outs == {n \in Names : n <= k}
        IN  /\ Change([fs EXCEPT !.part[r] = outs])
            /\ Becomes(p, [NoProcess EXCEPT !.at = "staged", !.run = r,
                             !.policy = policy, !.outs = outs,
                             !.guard = IF policy = "ReplaceIfUnchanged"
                                       THEN fs.final ELSE Nowhere])
            /\ used' = used \cup {r}
            /\ sets' = [sets EXCEPT ![r] = [names |-> outs,
                                            whole |-> policy # "NoReplace"]]
  BY DEF Stage
<1>2. PICK r, outs : r = Least(Runs \ used) /\ outs = {n \in Names : n <= k}
  OBVIOUS
<1>3. /\ proc[p].at = "idle" /\ used # Runs
      /\ UNCHANGED <<lock, decided, acked, kept, lost, touched, faults>>
  BY DEF Stage, At
<1>4. r \in Runs \ used
  <2>1. Runs \ used \in SUBSET Nat /\ Runs \ used # {}
    BY <1>3, Types, Values
  <2> QED
    BY <1>2, <2>1, LeastIsIn
<1>5. /\ Undecided(r) /\ fs \in Tree /\ outs \in SUBSET Names
      /\ lock # p /\ Decided' = Decided
  BY <1>2, <1>3, <1>4, Types, Values DEF Undecided, IInv, TypeOK, Decided
<1> DEFINE guard == IF policy = "ReplaceIfUnchanged" THEN fs.final ELSE Nowhere
           next == [NoProcess EXCEPT !.at = "staged", !.run = r,
                      !.policy = policy, !.outs = outs, !.guard = guard]
<1>6. /\ next \in Process /\ next.at = "staged" /\ next.run = r
      /\ next.policy = policy /\ next.outs = outs /\ next.tx = NoTx
  <2>1. guard \in [Names -> Slot]
    BY <1>5, Values DEF Tree
  <2>2. NoTx \in Record /\ Nowhere \in [Names -> Slot]
    BY Values
  <2> HIDE DEF guard
  <2> QED
    BY <1>4, <1>5, <2>1, <2>2 DEF NoProcess, Process, Points
<1>7. proc' = [proc EXCEPT ![p] = next]
  BY <1>1, <1>2 DEF Becomes
<1> HIDE DEF next
<1>8. proc'[p] = next /\ \A q \in Procs \ {p} : proc'[q] = proc[q]
  BY <1>7, Types
<1>9. PICK s : s = [fs EXCEPT !.part[r] = outs]
  OBVIOUS
<1>10. /\ s \in Tree /\ s.final = fs.final /\ s.backup = fs.backup
       /\ s.journal = fs.journal /\ s.part[r] = outs
       /\ \A x \in Runs : x # r => s.part[x] = fs.part[x]
       /\ kept \subseteq Held(s) /\ Kept(s)
  <2>1. fs.journal # NoTx => fs.journal.run # r
    BY <1>4, <1>5, NotJournalled
  <2>2. \A n \in fs.part[r] : n \in outs \/ Part(r, n) \notin kept
    <3>1. \A n \in fs.part[r] : Part(r, n).by = r
      BY <1>4, <1>5, PartOf DEF Tree
    <3> QED
      BY <1>4, <1>5, <3>1 DEF IInv, LedgerOK, Undecided
  <2>3. Parted([fs EXCEPT !.part[r] = outs], r, outs)
    BY <1>4, <1>5, <2>1, <2>2, PartsTree
  <2> QED
    BY <1>9, <2>3 DEF Parted
<1>11. fs' = s /\ disk' = disk \cup {s} /\ used' = used \cup {r}
  BY <1>1, <1>2, <1>9 DEF Change
<1>12. /\ sets' \in [Runs \cup {First} -> [names : SUBSET Names,
                                           whole : BOOLEAN]]
       /\ sets'[r].names = outs
       /\ \A x \in Runs \cup {First} : x # r => sets'[x] = sets[x]
  BY <1>1, <1>2, <1>4, <1>5 DEF IInv, TypeOK
<1>13. sets'[r].whole <=> policy # "NoReplace"
  <2>1. CASE policy = "NoReplace"
    <3>1. sets'[r] = [names |-> outs, whole |-> FALSE]
      BY <1>1, <1>2, <1>4, <2>1 DEF IInv, TypeOK
    <3> QED
      BY <2>1, <3>1
  <2>2. CASE policy # "NoReplace"
    <3>1. sets'[r] = [names |-> outs, whole |-> TRUE]
      BY <1>1, <1>2, <1>4, <2>2 DEF IInv, TypeOK
    <3> QED
      BY <2>2, <3>1
  <2> QED
    BY <2>1, <2>2
<1>14. Knows(p)'
  <2>1. Live(p)'
    BY <1>4, <1>5, <1>6, <1>8, <1>10, <1>11, <1>12, <1>13
    DEF Live, Preparing, Driving, Backing, Replaced, Undecided
  <2> QED
    BY <1>6, <1>8, <2>1 DEF Knows, Preparing, Driving, Backing, Replaced, Placing
<1>15. ASSUME NEW q \in Procs \ {p} PROVE Knows(q)'
  <2>1. proc[q].run \in used \cup {0} /\ Knows(q)
    BY DEF IInv, Knows, Live
  <2>2. proc[q].at \in Driving => proc[q].tx.run \in Runs
                                 /\ proc[q].tx.run # r
    BY <1>4, <1>5, <2>1, Values, NotJournalled DEF Knows, NoTx
  <2>3. /\ proc[q].run \in Runs =>
              fs'.part[proc[q].run] = fs.part[proc[q].run]
        /\ proc[q].at \in Driving =>
              fs'.part[proc[q].tx.run] = fs.part[proc[q].tx.run]
    BY <1>4, <1>10, <1>11, <2>1, <2>2, Values
  <2>4. used \subseteq used' /\ \A x \in used : sets'[x] = sets[x]
    BY <1>4, <1>11, <1>12, Types
  <2>5. /\ proc'[q] = proc[q] /\ fs'.final = fs.final
        /\ fs'.journal = fs.journal /\ \A u \in disk' : u \in disk \/ u = fs'
        /\ UNCHANGED <<decided, acked, touched, kept>>
    BY <1>3, <1>8, <1>10, <1>11
  <2> QED
    BY <2>3, <2>4, <2>5, Elsewhere
<1>16. DiskOK'
  <2>1. ASSUME NEW u, Kept(u), kept \subseteq Held(u)
               \/ {f \in kept : f.by # Stray} \subseteq Held(u)
        PROVE  Kept(u)'
    <3>1. \A x \in Decided : sets'[x] = sets[x]
      BY <1>4, <1>5, <1>12, Types DEF Undecided
    <3> QED
      BY <1>3, <2>1, <3>1, Types, KeptStays
  <2>2. \A u \in disk : Kept(u) /\ {f \in kept : f.by # Stray} \subseteq Held(u)
    BY DEF IInv, DiskOK, Kept
  <2>3. fs.journal # NoTx => Firm(fs.journal.run)'
    <3>1. ASSUME fs.journal # NoTx
          PROVE  /\ fs.journal.run \in Runs /\ fs.journal.run # r
                 /\ Firm(fs.journal.run)
      BY <1>4, <1>5, <3>1, NotJournalled, Types
      DEF Kept, Journalled, Legal, IInv, DiskOK
    <3> QED
      BY <1>10, <1>11, <3>1 DEF Firm
  <2> QED
    BY <1>3, <1>10, <1>11, <2>1, <2>2, <2>3 DEF DiskOK
<1>17. LedgerOK'
  BY <1>3, <1>5, <1>11 DEF IInv, LedgerOK
<1>18. /\ used' \subseteq Runs /\ lost \subseteq Runs
       /\ acked \in Runs \cup {First} /\ decided \in Seq(Runs \cup {First})
       /\ kept \subseteq File /\ faults \in Nat
  BY <1>4, <1>11 DEF IInv, TypeOK, LedgerOK
<1> QED
  BY <1>3, <1>4, <1>5, <1>6, <1>7, <1>10, <1>11, <1>12, <1>14, <1>15, <1>16,
     <1>17, <1>18, Assemble

\* volumes.rs cleanup of a failed run: a part is moved aside and removed
LEMMA CleanUpStep ==
  ASSUME IInv, NEW p \in Procs, CleanUp(p)
  PROVE  IInv'
<1>0. PICK r, X : r = proc[p].run /\ X = fs.part[r] \ {Least(fs.part[r])}
  OBVIOUS
<1>1. /\ proc[p].at = "cleanup" /\ UNCHANGED <<touched, faults>>
      /\ UNCHANGED <<used, decided, sets, acked, lost, kept>>
  BY DEF CleanUp, At, history
<1>2. /\ fs \in disk /\ fs \in Tree /\ r \in Runs /\ Knows(p) /\ Live(p)
      /\ faults \in Nat /\ lost \subseteq Runs /\ proc \in [Procs -> Process]
  BY <1>0, <1>1, Types DEF Knows, IInv, LedgerOK, TypeOK
<1>3. CASE Sync /\ Stop(p)
  BY <1>1, <1>2, <1>3, Stops DEF Sync
<1>4. CASE /\ fs' = [fs EXCEPT !.part[r] = X] /\ disk' = {fs'}
           /\ UNCHANGED <<lock, proc>>
  <2>1. X \in SUBSET Names
    BY <1>0, <1>2 DEF Tree
  <2>2. \A n \in fs.part[r] : Part(r, n) \notin kept
    BY <1>0, <1>1, <1>2 DEF Knows, Private
  <2>3. Undecided(r) \/ ~sets[r].whole
    BY <1>0, <1>1, <1>2 DEF Knows, Live
  <2>4. fs.journal # NoTx => fs.journal.run # r
    BY <1>2, <2>3, NotJournalled
  <2>5. Parted([fs EXCEPT !.part[r] = X], r, X)
    BY <1>2, <2>1, <2>2, <2>4, PartsTree
  <2>6. PICK s : s = fs'
    OBVIOUS
  <2>7. /\ s \in Tree /\ s.final = fs.final /\ s.backup = fs.backup
        /\ s.journal = fs.journal /\ s.part[r] = X
        /\ \A x \in Runs : x # r => s.part[x] = fs.part[x]
        /\ kept \subseteq Held(s) /\ Kept(s)
    BY <1>4, <2>5, <2>6 DEF Parted
  <2>8. fs' = s /\ disk' = {s}
    BY <1>4, <2>6
  <2>9. Kept(s)'
    BY <1>1, <2>7, Types, KeptStays
  <2>10. DiskOK'
    BY <1>1, <2>7, <2>8, <2>9 DEF DiskOK, Firm
  <2>11. LedgerOK'
    BY <1>1 DEF IInv, LedgerOK, Decided
  <2>12. Knows(p)'
    <3>1. Live(p)'
      BY <1>1, <1>2, <1>4
      DEF Live, Preparing, Driving, Backing, Replaced, Own, Undecided, Decided
    <3>2. Private(r)'
      BY <1>0, <1>1, <2>2, <2>7, <2>8 DEF Private
    <3>3. Undecided(r)' <=> Undecided(r)
      BY <1>1 DEF Undecided, Decided
    <3> QED
      BY <1>0, <1>1, <1>2, <1>4, <3>1, <3>2, <3>3
      DEF Knows, Preparing, Driving, Backing, Replaced, Placing
  <2>13. ASSUME NEW q \in Procs \ {p} PROVE Knows(q)'
    <3>1. Knows(q) /\ (proc[q].run \in Runs => proc[q].run # r)
      BY <1>0, <1>2, Values DEF IInv, Distinct
    <3>2. proc[q].at \in Driving => proc[q].tx.run \in Runs
                                    /\ proc[q].tx.run # r
      BY <1>2, <2>3, <3>1, Values, NotJournalled DEF Knows, NoTx
    <3> QED
      BY <1>1, <1>4, <2>7, <2>8, <3>1, <3>2, Elsewhere
  <2>14. /\ proc' = [proc EXCEPT ![p] = proc[p]] /\ proc[p] \in Process
    BY <1>2, <1>4
  <2>15. /\ lock' = lock /\ (lock # p => proc[p].at \in {"idle", "staged", "cleanup"})
    BY <1>4 DEF IInv, TypeOK
  <2>16. /\ used \subseteq Runs /\ kept \subseteq File
         /\ sets \in [Runs \cup {First} -> [names : SUBSET Names,
                                            whole : BOOLEAN]]
         /\ acked \in Runs \cup {First} /\ decided \in Seq(Runs \cup {First})
    BY DEF IInv, TypeOK
  <2> QED
    BY <1>0, <1>1, <1>2, <2>7, <2>8, <2>10, <2>11, <2>12, <2>13, <2>14, <2>15,
       <2>16, Assemble
<1> QED
  BY <1>0, <1>3, <1>4 DEF CleanUp

\* A call fails and the run takes its error path.  [publication.rs, volumes.rs]
LEMMA FailStep ==
  ASSUME IInv, NEW p \in Procs, Fail(p)
  PROVE  IInv'
<1>1. /\ fs' = fs /\ disk' = disk /\ faults > 0 /\ faults' = faults - 1
      /\ UNCHANGED <<used, decided, sets, acked, kept, touched>>
  BY DEF Fail, Fault, Look
<1>2. /\ fs \in disk /\ faults' \in Nat /\ lost \subseteq Runs
      /\ (proc[p].at # "idle" => proc[p].run \in Runs)
  BY <1>1, Types DEF IInv, LedgerOK, TypeOK
<1>3. CASE proc[p].at \in Calls /\ Refuse(p) /\ UNCHANGED lost
  BY <1>1, <1>2, <1>3, GivesUp DEF Calls, history
<1>4. CASE /\ proc[p].at = "cleanup" /\ Stop(p)
           /\ lost' = lost \cup {proc[p].run}
  BY <1>1, <1>2, <1>4, Stops
<1> QED
  BY <1>3, <1>4 DEF Fail

\* A process dies; the locks of the family die with it.
LEMMA DieStep ==
  ASSUME IInv, NEW p \in Procs, Die(p)
  PROVE  IInv'
<1>1. /\ fs' = fs /\ disk' = disk /\ faults > 0 /\ faults' = faults - 1
      /\ UNCHANGED <<used, decided, sets, acked, kept, touched>>
      /\ proc[p].at # "idle" /\ Stop(p) /\ lost' = lost \cup {proc[p].run}
  BY DEF Die, Fault, Look
<1>2. /\ fs \in disk /\ faults' \in Nat /\ lost' \subseteq Runs
  BY <1>1, Types DEF IInv, LedgerOK, TypeOK
<1> QED
  BY <1>1, <1>2, Stops

\* Power is lost; any directory that the disk may hold is what is found.
LEMMA PowerLossStep ==
  ASSUME IInv, PowerLoss
  PROVE  IInv'
<1>1. /\ fs' \in disk /\ disk' = {fs'} /\ lock' = NoProc
      /\ proc' = [p \in Procs |-> NoProcess] /\ lost' = lost \cup used
      /\ kept' = {f \in kept : f.by # Stray} /\ faults' = faults - 1
      /\ faults > 0 /\ UNCHANGED <<used, decided, sets, acked, touched>>
  BY DEF PowerLoss, Fault
<1>2. /\ fs' \in Tree /\ Kept(fs') /\ kept \subseteq File /\ faults' \in Nat
      /\ touched \in Nat /\ decided \in Seq(Runs \cup {First})
  BY <1>1 DEF IInv, DiskOK, TypeOK, LedgerOK
<1>3. NoProcess \in Process /\ NoProcess.at = "idle" /\ NoProcess.run = 0
  BY Values DEF NoProcess, Process, Points, Policies
<1>4. proc' \in [Procs -> Process] /\ \A p \in Procs : proc'[p] = NoProcess
  BY <1>1, <1>3
<1>5. TypeOK'
  <2>1. touched' + faults' <= MaxFaults
    BY <1>1, <1>2, SplitAssumption DEF IInv, TypeOK, LedgerOK
  <2> QED
    BY <1>1, <1>2, <1>3, <1>4, <2>1, SplitAssumption DEF IInv, TypeOK
<1>6. DiskOK'
  <2>1. PICK s : s = fs'
    OBVIOUS
  <2>2. {f \in kept' : f.by # Stray} = kept' /\ kept' \subseteq Held(s)
    BY <1>1, <1>2, <2>1 DEF Kept
  <2>3. Kept(s)'
    BY <1>1, <1>2, <2>1, <2>2, KeptStays
  <2> QED
    BY <1>1, <2>1, <2>2, <2>3 DEF DiskOK, Firm
<1>7. LedgerOK'
  BY <1>1, <1>2 DEF IInv, LedgerOK, Decided
<1>8. Distinct'
  BY <1>3, <1>4 DEF Distinct
<1>9. ASSUME NEW p \in Procs PROVE Knows(p)'
  BY <1>3, <1>4 DEF Knows, Preparing, Driving, Backing, Replaced, Placing
<1> QED
  BY <1>5, <1>6, <1>7, <1>8, <1>9 DEF IInv

\* A directory in which one file was exchanged for one of another program, or
\* removed, is still a good one.
Exchanged(s, old, new) ==
  /\ s \in Tree /\ s.part = fs.part /\ s.journal = fs.journal
  /\ new = Missing \/ (new \in File /\ new.by = Stray)
  /\ \A n \in Names : s.final[n] = fs.final[n] \/ s.final[n] = new
  /\ \A r \in Runs \ Decided : s.backup[r] = fs.backup[r]
  /\ \A f \in Held(fs) : f # old => f \in Held(s)
  /\ new # Missing => new \in Held(s)

\* Another program exchanges a member.
LEMMA ExchangedFinal ==
  ASSUME NEW n \in Names, NEW new \in Slot, fs \in Tree,
         new = Missing \/ new.by = Stray
  PROVE  Exchanged([fs EXCEPT !.final[n] = new], fs.final[n], new)
<1>1. PICK s : s = [fs EXCEPT !.final[n] = new]
  OBVIOUS
<1>2. /\ s \in Tree /\ s.part = fs.part /\ s.journal = fs.journal
      /\ s.backup = fs.backup /\ s.final[n] = new
      /\ \A m \in Names : m # n => s.final[m] = fs.final[m]
  BY <1>1 DEF Tree
<1>3. ASSUME NEW f \in Held(fs), f # fs.final[n] PROVE f \in Held(s)
  <2>1. CASE f # Missing /\ \E m \in Names : f = fs.final[m]
    BY <1>2, <1>3, <2>1, WhereItIs
  <2>2. CASE f # Missing /\ \E x \in Runs, m \in Names : f = fs.backup[x][m]
    BY <1>2, <2>2, WhereItIs
  <2>3. CASE \E x \in Runs : \E m \in fs.part[x] : f = Part(x, m)
    BY <1>2, <2>3, WhereItIs
  <2> QED
    BY <1>3, <2>1, <2>2, <2>3, WhereItIs
<1>4. new # Missing => new \in Held(s)
  BY <1>2, WhereItIs
<1>5. Exchanged(s, fs.final[n], new)
  BY <1>2, <1>3, <1>4 DEF Exchanged, Slot
<1> QED
  BY <1>1, <1>5

\* Another program exchanges a backup.
LEMMA ExchangedBackup ==
  ASSUME NEW r \in Runs, NEW n \in Names, NEW new \in Slot, fs \in Tree,
         r \in Decided, new = Missing \/ new.by = Stray
  PROVE  Exchanged([fs EXCEPT !.backup[r][n] = new], fs.backup[r][n], new)
<1>1. PICK s : s = [fs EXCEPT !.backup[r][n] = new]
  OBVIOUS
<1>2. /\ s \in Tree /\ s.part = fs.part /\ s.journal = fs.journal
      /\ s.final = fs.final /\ s.backup[r][n] = new
      /\ \A m \in Names : m # n => s.backup[r][m] = fs.backup[r][m]
      /\ \A x \in Runs : x # r => s.backup[x] = fs.backup[x]
  BY <1>1 DEF Tree
<1>3. ASSUME NEW f \in Held(fs), f # fs.backup[r][n] PROVE f \in Held(s)
  <2>1. CASE f # Missing /\ \E m \in Names : f = fs.final[m]
    BY <1>2, <2>1, WhereItIs
  <2>2. CASE f # Missing /\ \E x \in Runs, m \in Names : f = fs.backup[x][m]
    BY <1>2, <1>3, <2>2, WhereItIs
  <2>3. CASE \E x \in Runs : \E m \in fs.part[x] : f = Part(x, m)
    BY <1>2, <2>3, WhereItIs
  <2> QED
    BY <1>3, <2>1, <2>2, <2>3, WhereItIs
<1>4. new # Missing => new \in Held(s)
  BY <1>2, WhereItIs
<1>5. Exchanged(s, fs.backup[r][n], new)
  BY <1>2, <1>3, <1>4 DEF Exchanged, Slot
<1> QED
  BY <1>1, <1>5

\* Another program removes or replaces a member or a backup.
LEMMA ForeignStep ==
  ASSUME IInv, Foreign
  PROVE  IInv'
<1>1. /\ faults > 0 /\ faults' = faults - 1 /\ touched' = touched + 1
      /\ UNCHANGED <<lock, proc, used, decided, sets, acked, lost>>
  BY DEF Foreign, Fault, history
<1>2. /\ fs \in Tree /\ Kept(fs) /\ kept \subseteq File /\ faults' \in Nat
      /\ touched \in Nat /\ decided \in Seq(Runs \cup {First}) /\ fs \in disk
      /\ kept \subseteq Held(fs) /\ touched' # 0
  BY <1>1 DEF IInv, DiskOK, TypeOK, LedgerOK
<1>3. PICK n \in Names, new \in {Missing, Part(Stray, touched)} :
        \/ /\ fs.final[n] # new
           /\ Change([fs EXCEPT !.final[n] = new])
           /\ kept' = (kept \ {fs.final[n]}) \cup ({new} \ {Missing})
        \/ \E r \in Runs :
             /\ fs.backup[r][n] # Missing
             /\ Change([fs EXCEPT !.backup[r][n] = new])
             /\ kept' = (kept \ {fs.backup[r][n]}) \cup ({new} \ {Missing})
  BY DEF Foreign
<1>4. /\ new \in Slot /\ (new = Missing \/ (new \in File /\ new.by = Stray))
  <2>1. Part(Stray, touched) \in File /\ Part(Stray, touched).by = Stray
    BY <1>2, Values
  <2> QED
    BY <2>1 DEF Slot
<1>5. PICK old : /\ Exchanged(fs', old, new) /\ disk' = disk \cup {fs'}
                 /\ kept' = (kept \ {old}) \cup ({new} \ {Missing})
  <2>1. CASE /\ Change([fs EXCEPT !.final[n] = new])
             /\ kept' = (kept \ {fs.final[n]}) \cup ({new} \ {Missing})
    <3>1. Exchanged([fs EXCEPT !.final[n] = new], fs.final[n], new)
      BY <1>2, <1>4, ExchangedFinal
    <3> QED
      BY <2>1, <3>1 DEF Change
  <2>2. CASE \E r \in Runs :
               /\ fs.backup[r][n] # Missing
               /\ Change([fs EXCEPT !.backup[r][n] = new])
               /\ kept' = (kept \ {fs.backup[r][n]}) \cup ({new} \ {Missing})
    <3>1. PICK r \in Runs :
               /\ fs.backup[r][n] # Missing
               /\ Change([fs EXCEPT !.backup[r][n] = new])
               /\ kept' = (kept \ {fs.backup[r][n]}) \cup ({new} \ {Missing})
      BY <2>2
    <3>2. r \in Decided
      BY <1>2, <3>1 DEF Kept, Traceless, Nowhere
    <3>3. Exchanged([fs EXCEPT !.backup[r][n] = new], fs.backup[r][n], new)
      BY <1>2, <1>4, <3>2, ExchangedBackup
    <3> QED
      BY <3>1, <3>3 DEF Change
  <2> QED
    BY <1>3, <2>1, <2>2
<1>6. PICK s : s = fs'
  OBVIOUS
<1>7. /\ s \in Tree /\ s.part = fs.part /\ s.journal = fs.journal
      /\ \A m \in Names : s.final[m] = fs.final[m] \/ s.final[m] = new
      /\ \A r \in Runs \ Decided : s.backup[r] = fs.backup[r]
      /\ kept' \subseteq Held(s) /\ kept' \subseteq File
      /\ \A f \in kept' : f.by # Stray => f \in kept
  <2>1. Exchanged(s, old, new)
    BY <1>5, <1>6
  <2> QED
    BY <1>2, <1>4, <1>5, <2>1 DEF Exchanged
<1>8. \A m \in Names : \/ s.final[m] \in {fs.final[m], Missing}
                       \/ s.final[m].by = Stray
  BY <1>4, <1>7
<1>9. Journalled(s)' \/ s.journal = NoTx
  <2>1. ASSUME s.journal # NoTx PROVE Journalled(s)'
    <3>1. Journalled(fs)
      BY <1>2, <1>7, <2>1 DEF Kept
    <3>2. \A m \in Names : Either(s, s.journal, m)
      BY <1>7, <1>8, <3>1 DEF Journalled, Either, Only
    <3> QED
      BY <1>1, <1>2, <1>7, <3>1, <3>2 DEF Journalled, Legal, Decided, Either, Only
  <2> QED
    BY <2>1
<1>10. Kept(s)'
  <2>1. NeverMixed(s)
    BY <1>2, <1>7, <1>8 DEF Kept, NeverMixed, Members
  <2>2. \A r \in Runs \ Decided : Traceless(s, r)
    <3>1. ASSUME NEW r \in Runs \ Decided, NEW m \in Names
          PROVE  s.final[m] = Missing \/ s.final[m].by # r
      BY <1>2, <1>8, <3>1, Values DEF Kept, Traceless
    <3> QED
      BY <1>2, <1>7, <3>1 DEF Kept, Traceless
  <2>3. NeverMixed(s)' /\ WholeFamily(s)'
    BY <1>2, <2>1 DEF NeverMixed, Members, WholeFamily
  <2>4. Decided' = Decided
    BY <1>1 DEF Decided
  <2>5. \A r \in Runs \ Decided' : Traceless(s, r)'
    BY <2>2, <2>4 DEF Traceless
  <2>6. ({f \in kept : f.by # Stray} \subseteq Held(s))'
    BY <1>7 DEF Held, Members, Backups, Parts
  <2> QED
    BY <1>9, <2>3, <2>5, <2>6 DEF Kept
<1>11. DiskOK'
  <2>1. ASSUME NEW u \in disk PROVE Kept(u)'
    <3>1. Kept(u) /\ {f \in kept' : f.by # Stray} \subseteq Held(u)
      BY <1>7 DEF IInv, DiskOK, Kept
    <3> QED
      BY <1>1, <1>2, <3>1, KeptStays
  <2>2. (fs.journal # NoTx => Firm(fs.journal.run))'
    BY <1>5, <1>6, <1>7 DEF Firm, IInv, DiskOK
  <2> QED
    BY <1>5, <1>6, <1>7, <1>10, <2>1, <2>2 DEF DiskOK
<1>12. LedgerOK'
  BY <1>1, <1>2, <1>5, <1>4, <1>7, Values DEF IInv, LedgerOK, Decided
<1>13. TypeOK'
  <2>1. touched' + faults' <= MaxFaults
    BY <1>1, <1>2 DEF IInv, TypeOK, LedgerOK
  <2> QED
    BY <1>1, <1>5, <1>6, <1>7, <2>1 DEF IInv, TypeOK
<1>14. Distinct'
  BY <1>1 DEF IInv, Distinct
<1>15. ASSUME NEW q \in Procs PROVE Knows(q)'
  <2>1. \A f \in kept' : f \in kept \/ f.by = Stray
    BY <1>7
  <2> QED
    BY <1>1, <1>2, <1>5, <1>6, <1>7, <1>8, <2>1, Meddled
<1> QED
  BY <1>11, <1>12, <1>13, <1>14, <1>15 DEF IInv

-----------------------------------------------------------------------------
(***************************************************************************)
(* The theorems.                                                           *)
(***************************************************************************)
LEMMA Start ==
  Init => IInv
<1> SUFFICES ASSUME Init PROVE IInv
  OBVIOUS
<1>1. PICK there \in Firsts :
    /\ fs = [final   |-> [n \in Names |-> IF n \in there THEN Part(First, n)
                                          ELSE Missing],
             part    |-> [r \in Runs |-> {}],
             backup  |-> [r \in Runs |-> Nowhere],
             journal |-> NoTx]
    /\ disk = {fs}
    /\ lock = NoProc
    /\ proc = [p \in Procs |-> NoProcess]
    /\ used = {} /\ lost = {}
    /\ decided = <<First>>
    /\ sets = [r \in Runs \cup {First} |->
                 [names |-> IF r = First THEN there ELSE {}, whole |-> TRUE]]
    /\ acked = First
    /\ kept = {Part(First, n) : n \in there}
    /\ touched = 0 /\ faults = MaxFaults
  BY DEF Init
<1>2. there \subseteq Names /\ MaxFaults \in Nat
  BY SplitAssumption
<1>3. \A n \in Names : Part(First, n) \in File /\ Part(First, n) # Missing
                       /\ Part(First, n).by = First
  BY Values
<1>4. NoProcess \in Process /\ NoProcess.at = "idle" /\ NoProcess.run = 0
  BY Values DEF NoProcess, Process, Points, Policies
<1>5. /\ fs \in Tree /\ fs.journal = NoTx
      /\ \A r \in Runs : fs.backup[r] = Nowhere
      /\ \A n \in Names : fs.final[n] = IF n \in there THEN Part(First, n)
                                        ELSE Missing
  BY <1>1, <1>2, <1>3, Values DEF Tree, Slot
<1>6. /\ proc \in [Procs -> Process]
      /\ \A p \in Procs : proc[p] = NoProcess
  BY <1>1, <1>4
<1>7. /\ decided \in Seq(Runs \cup {First}) /\ DOMAIN decided = 1 .. 1
      /\ decided[1] = First
  BY <1>1
<1>8. Decided = {First} /\ Since(First) = {First}
  <2>1. 1 \in DOMAIN decided /\ \A i \in DOMAIN decided : i = 1
    BY <1>7
  <2>2. Decided = {First}
    BY <1>7, <2>1 DEF Decided
  <2>3. First \in Since(First)
    BY <2>2, <1>7, SinceDecided
  <2> QED
    BY <1>7, <2>2, <2>3, SinceDecided
<1>9. sets \in [Runs \cup {First} -> [names : SUBSET Names, whole : BOOLEAN]]
      /\ sets[First].names = there
  BY <1>1, <1>2
<1>10. TypeOK
  BY <1>1, <1>2, <1>3, <1>4, <1>5, <1>6, <1>7, <1>9, SplitAssumption DEF TypeOK
<1>11. kept \subseteq Held(fs)
  BY <1>1, <1>2, <1>3, <1>5, WhereItIs
<1>12. Members(fs) = SetOf(First)
  BY <1>2, <1>3, <1>5, <1>9 DEF Members, SetOf
<1>13. Kept(fs)
  <2>1. NeverMixed(fs)
    BY <1>3, <1>5 DEF NeverMixed, Members
  <2>2. WholeFamily(fs)
    BY <1>1, <1>8, <1>12 DEF WholeFamily
  <2>3. ASSUME NEW r \in Runs PROVE Traceless(fs, r)
    <3>1. First # r
      BY Values
    <3> QED
      BY <1>2, <1>3, <1>5, <3>1 DEF Traceless
  <2> QED
    BY <1>5, <1>11, <2>1, <2>2, <2>3 DEF Kept
<1>14. DiskOK
  BY <1>1, <1>5, <1>11, <1>13 DEF DiskOK
<1>15. LedgerOK
  BY <1>1, <1>2, <1>3, <1>8, Values DEF LedgerOK
<1>16. Distinct /\ \A p \in Procs : Knows(p)
  BY <1>4, <1>6
  DEF Distinct, Knows, Preparing, Driving, Backing, Replaced, Placing
<1> QED
  BY <1>10, <1>14, <1>15, <1>16 DEF IInv

\* Nothing happens.
LEMMA Unchanged ==
  ASSUME IInv, UNCHANGED vars
  PROVE  IInv'
<1>1. UNCHANGED <<fs, disk, lock, proc, used, decided, sets, acked, lost, kept,
                  touched, faults>>
  BY DEF vars, history
<1>2. TypeOK' /\ LedgerOK' /\ Distinct'
  BY <1>1 DEF IInv, TypeOK, LedgerOK, Distinct, Decided
<1>3. \A q \in Procs : Knows(q)'
  BY <1>1, Elsewhere
<1>4. \A s \in disk : Kept(s)'
  BY <1>1, Types, KeptStays DEF IInv, DiskOK, TypeOK, Kept
<1>5. DiskOK'
  BY <1>1, <1>4 DEF IInv, DiskOK, Firm
<1> QED
  BY <1>2, <1>3, <1>5 DEF IInv

\* The invariant is inductive: one lemma for each step of the code.
LEMMA Inductive ==
  IInv /\ [Next]_vars => IInv'
<1> SUFFICES ASSUME IInv, [Next]_vars PROVE IInv'
  OBVIOUS
<1>1. CASE UNCHANGED vars
  BY <1>1, Unchanged
<1>2. CASE PowerLoss
  BY <1>2, PowerLossStep
<1>3. CASE Foreign
  BY <1>3, ForeignStep
<1>4. ASSUME NEW p \in Procs, Stage(p) \/ Fail(p) \/ Die(p) PROVE IInv'
  BY <1>4, StageStep, FailStep, DieStep
<1>5. ASSUME NEW p \in Procs, Step(p) PROVE IInv'
  BY <1>5, CancelledStep, LockStep, RecoverStep, SnapshotStep, DropSourceStep,
     WriteJournalStep, SyncJournalStep, BackupStep, MoveBackupStep,
     SyncBackupStep, RebindStep, InstallStep, MoveInstallStep,
     SyncInstallStep, VerifyStep, ClearStep, SyncClearStep, BindStep,
     PlaceStep, SyncPlaceStep, CleanUpStep DEF Step
<1> QED
  BY <1>1, <1>2, <1>3, <1>4, <1>5 DEF Next

\* Every variable keeps the form the code gives it, and only the holder of the
\* family's lock is past it.  [volumes.rs commit, publication.rs]
THEOREM TypeCorrect ==
  Spec => []TypeOK
<1>1. IInv => TypeOK
  BY DEF IInv
<1> QED
  BY Start, Inductive, <1>1, PTL DEF Spec

\* What a reader finds is one set: members of two generations never stand side
\* by side, and without a journal the family is whole, after any power loss.
\* [publication.rs resume_with, ensure_completed_family, clear]
THEOREM OneSet ==
  Spec => []AlwaysOneSet
<1>1. IInv => AlwaysOneSet
  BY DEF IInv, DiskOK, Kept, AlwaysOneSet
<1> QED
  BY Start, Inductive, <1>1, PTL DEF Spec

\* Whatever a power loss leaves of a transaction, the next run can finish it.
\* [publication.rs resume_with]
THEOREM RecoveryGoesOn ==
  Spec => []RecoveryAdmits
<1>1. IInv => RecoveryAdmits
  <2> SUFFICES ASSUME IInv, touched = 0, NEW s \in disk, s.journal # NoTx
               PROVE  Orderly(s, s.journal)
    BY DEF RecoveryAdmits, Orderly
  <2> QED
    BY DEF IInv, DiskOK, Kept, Journalled
<1> QED
  BY Start, Inductive, <1>1, PTL DEF Spec

\* A file that has been a member is never removed or overwritten by a run,
\* whoever put it there and whatever failed.  [publication.rs: "no competing
\* path was removed or overwritten"]
THEOREM MembersSurvive ==
  Spec => []NothingLost
<1>1. IInv => NothingLost
  BY DEF IInv, DiskOK, Kept, NothingLost
<1> QED
  BY Start, Inductive, <1>1, PTL DEF Spec
=============================================================================
