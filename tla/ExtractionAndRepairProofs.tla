--------------------- MODULE ExtractionAndRepairProofs ---------------------
(***************************************************************************)
(* Theorems about the two operations that write beside the user's files:   *)
(* extraction first, then the private workspace of a repair.               *)
(*                                                                         *)
(* Extraction replaces only what the user agreed to.  The argument is that *)
(* of the code: whether an output may replace is decided once, when the    *)
(* conflict is resolved, and carried with it (ResolvedOutput); a commit    *)
(* without that permission takes only a name that is vacant at that        *)
(* moment; and between a reservation and the rename over it nobody else is *)
(* at the name.  What links are made of and what the report counts follow  *)
(* from what is known of each output between its resolution and its        *)
(* commit.                                                                 *)
(***************************************************************************)
EXTENDS Extraction, RepairWorkspace, WellFoundedInduction, FiniteSetTheorems, TLAPS

Fields == {"what", "out", "replace", "how", "src", "data", "file"}

\* The permission that an output carries comes from the policy or an answer.
Permitted(j) == j.replace => overwrite = "Overwrite" \/ j.out \in agreed

AllAgreed == overwrite = "Overwrite" => Names \subseteq agreed

JobOK == pc \in {"ask", "write", "commit", "rename"} =>
           DOMAIN job = Fields /\ Permitted(job)

\* A reservation holds its name until the rename.
ReservedOK ==
  pc = "rename" /\ job.out \in Names =>
    dir[job.out] # None /\ dir[job.out].kind = "hole"

EntryOK == entry \in Indices

\* The destination is a function on the names.
DirOK == dir = [n \in Names |-> dir[n]]

IInv == DirOK /\ AllAgreed /\ JobOK /\ ReservedOK

\* What a step may do to the destination.
Replaces == \A n \in Names :
  (dir[n] # None /\ dir[n].kind # "hole" /\ dir'[n] # dir[n]) =>
    n \in agreed \/ foreign' # foreign

\* At the start nothing is being made.
LEMMA Start == Init => IInv /\ EntryOK
BY DEF Init, IInv, EntryOK, Indices, DirOK, AllAgreed, JobOK, ReservedOK

\* Resolving a conflict leaves the destination alone, and the output it makes
\* carries a permission only where the policy gives one.  [extract.rs
\* resolve_conflict_path]
LEMMA Resolving ==
  ASSUME IInv, UNCHANGED given, NEW j, DOMAIN j = Fields, j.replace = FALSE,
         Resolve(j)
  PROVE  IInv' /\ dir' = dir
<1>1. dir' = dir /\ agreed' = agreed /\ overwrite' = overwrite
  BY DEF Resolve, Goes, Skips, CountsAs, given
<1>2. JobOK' /\ pc' # "rename"
  <2>1. ASSUME NEW out, NEW replace, NEW how,
               Goes("write", Into(j, out, replace, how)),
               replace => overwrite = "Overwrite"
        PROVE  JobOK' /\ pc' # "rename"
    <3>1. /\ DOMAIN Into(j, out, replace, how) = Fields
          /\ Into(j, out, replace, how).replace = replace
      BY DEF Into, Fields
    <3> QED
      BY <1>1, <2>1, <3>1 DEF Goes, JobOK, Permitted
  <2>2. ASSUME Skips PROVE JobOK' /\ pc' # "rename"
    BY <2>2 DEF Skips, CountsAs, JobOK
  <2>3. ASSUME Goes("ask", j) PROVE JobOK' /\ pc' # "rename"
    BY <2>3, <1>1 DEF Goes, JobOK, Permitted
  <2> QED
    BY <2>1, <2>2, <2>3 DEF Resolve, Replacing
<1> QED
  BY <1>1, <1>2 DEF IInv, DirOK, AllAgreed, ReservedOK

\* Looking at an entry takes nothing away: a directory is made where there is
\* nothing, and everything else is decided later.  [extract.rs
\* write_meta_entry, file_target]
LEMMA Looking ==
  ASSUME IInv, Look
  PROVE  IInv' /\ Replaces
<1> USE DEF At
<1>1. UNCHANGED given /\ pc = "look"
  BY DEF Look
<1>2. ASSUME NEW what, NEW src, NEW data, Resolve(Make(what, src, data))
      PROVE  IInv' /\ Replaces
  <2>1. /\ DOMAIN Make(what, src, data) = Fields
        /\ Make(what, src, data).replace = FALSE
    BY DEF Make, Fields
  <2> QED
    BY <1>1, <1>2, <2>1, Resolving DEF Replaces
<1>3. ASSUME Skips \/ Fails PROVE IInv' /\ Replaces
  BY <1>1, <1>3 DEF Skips, Fails, CountsAs, IInv, DirOK, AllAgreed, JobOK,
     ReservedOK, Replaces, given
<1>4. ASSUME MakeDirectory PROVE IInv' /\ Replaces
  <2>1. CASE Fails
    BY <1>3, <2>1
  <2>2. CASE CountsAs("directories") /\ agreed' = agreed
    <3>1. IInv'
      BY <1>1, <1>4, <2>2 DEF MakeDirectory, Fails, CountsAs, IInv, DirOK,
         AllAgreed, JobOK, ReservedOK, given
    <3>2. Replaces
      BY <1>4, <2>2 DEF MakeDirectory, Fails, CountsAs, IInv, DirOK, Replaces
    <3> QED
      BY <3>1, <3>2
  <2> QED
    BY <1>4, <2>1, <2>2 DEF MakeDirectory
<1>5. ASSUME NEW what, FromDisk(what) PROVE IInv' /\ Replaces
  BY <1>2, <1>3, <1>5 DEF FromDisk
<1>6. ASSUME NEW hard, FromList(hard) PROVE IInv' /\ Replaces
  BY <1>2, <1>3, <1>6 DEF FromList
<1> QED
  BY <1>2, <1>3, <1>4, <1>5, <1>6 DEF Look

\* An answer permits what it is asked about.  [extract.rs
\* resolve_conflict_path, ConflictDecision]
LEMMA Asking ==
  ASSUME IInv, Ask
  PROVE  IInv' /\ Replaces
<1> USE DEF At
<1>1. UNCHANGED given /\ dir' = dir /\ pc = "ask" /\ pc' # "rename"
  BY DEF Ask, Goes, Skips, CountsAs, Fails
<1>2. DOMAIN job = Fields
  BY <1>1 DEF IInv, JobOK
<1>3. ASSUME NEW out, NEW replace, NEW how
      PROVE  /\ DOMAIN Into(job, out, replace, how) = Fields
             /\ Into(job, out, replace, how).out = out
             /\ Into(job, out, replace, how).replace = replace
  BY <1>2 DEF Into, Fields
<1>4. AllAgreed'
  <2>1. CASE agreed' = agreed
    BY <1>1, <2>1 DEF IInv, AllAgreed, given
  <2>2. CASE agreed' = agreed \cup {job.out}
    BY <1>1, <2>2 DEF IInv, AllAgreed, given
  <2>3. agreed' = agreed \/ agreed' = agreed \cup {job.out}
    BY DEF Ask, Skips, Fails
  <2> QED
    BY <2>1, <2>2, <2>3
<1>5. JobOK'
  <2>1. CASE Goes("write", Replacing(job)) /\ agreed' = agreed \cup {job.out}
    <3>1. /\ DOMAIN Into(job, job.out, TRUE, "replaced") = Fields
          /\ Into(job, job.out, TRUE, "replaced").out = job.out
      BY <1>2 DEF Into, Fields
    <3> QED
      BY <2>1, <3>1 DEF Goes, Replacing, JobOK, Permitted
  <2>2. ASSUME NEW n, Goes("write", Into(job, n, FALSE, "renamed"))
        PROVE  JobOK'
    BY <2>2, <1>3 DEF Goes, JobOK, Permitted
  <2>3. CASE Skips \/ Fails
    BY <2>3 DEF Skips, Fails, CountsAs, JobOK
  <2> QED
    BY <2>1, <2>2, <2>3 DEF Ask
<1> QED
  BY <1>1, <1>4, <1>5 DEF IInv, DirOK, ReservedOK, Replaces

\* Staging touches private names only and keeps what the output may do.
\* [extract.rs write_file, write_hard_link; PendingOutput]
LEMMA Writing ==
  ASSUME IInv, Write
  PROVE  IInv' /\ Replaces
<1> USE DEF At
<1>1. UNCHANGED given /\ pc = "write" /\ DOMAIN job = Fields /\ Permitted(job)
  BY DEF Write, IInv, JobOK
<1>2. dir' = dir /\ agreed' = agreed /\ pc' # "rename"
  BY DEF Write, Goes, Fails, Skips, CountsAs
<1>3. JobOK'
  <2>1. ASSUME NEW file, Goes("commit", [job EXCEPT !.file = file])
        PROVE  JobOK'
    <3>1. job' = [job EXCEPT !.file = file]
      BY <2>1 DEF Goes
    <3>2. /\ DOMAIN job' = Fields
          /\ job'.replace = job.replace /\ job'.out = job.out
      BY <1>1, <3>1 DEF Fields
    <3>3. Permitted(job)'
      BY <1>1, <1>2, <3>2 DEF Permitted, given
    <3> QED
      BY <3>2, <3>3 DEF JobOK
  <2>2. CASE pc' \in {"look", "failed"}
    BY <2>2 DEF JobOK
  <2> QED
    BY <2>1, <2>2 DEF Write, Fails, Skips, CountsAs
<1> QED
  BY <1>1, <1>2, <1>3 DEF IInv, DirOK, AllAgreed, ReservedOK, Replaces, given

\* An output that is placed ends the work on its entry.
LEMMA Placing ==
  ASSUME IInv, UNCHANGED given, NEW now, NEW kept, Placed(now, kept),
         now = [n \in Names |-> now[n]],
         \A n \in Names : now[n] # dir[n] /\ dir[n] # None =>
           dir[n].kind = "hole" \/ n \in agreed
  PROVE  IInv' /\ Replaces
<1>1. dir' = now /\ pc' = "look" /\ agreed' = agreed
  BY DEF Placed, CountsAs
<1> QED
  BY <1>1 DEF IInv, DirOK, AllAgreed, JobOK, ReservedOK, Replaces, given

\* Entries are numbered from 1 on.
LEMMA Counting == EntryOK /\ [Next]_vars => EntryOK'
<1> SUFFICES ASSUME EntryOK, [Next]_vars PROVE EntryOK'
  OBVIOUS
<1>1. entry' = entry \/ entry' = entry + 1
  BY DEF Next, Run, Look, Ask, Write, CommitReplacing, CommitNew, RenameOver,
     Refuse, Finish, Change, FromDisk, FromList, MakeDirectory, Resolve, Skips,
     Fails, Goes, Placed, CountsAs, vars
<1> QED
  BY <1>1 DEF EntryOK, Indices

\* A commit replaces under its permission, and otherwise takes a name that is
\* vacant or its own reservation.  [extract.rs commit_using]
LEMMA Committing ==
  ASSUME IInv, EntryOK, CommitReplacing \/ CommitNew \/ RenameOver
  PROVE  IInv' /\ Replaces
<1> USE DEF At
<1>1. UNCHANGED given
  BY DEF CommitReplacing, CommitNew, RenameOver
<1>2. ASSUME NEW file
      PROVE  /\ Filled(file) = [n \in Names |-> Filled(file)[n]]
             /\ \A n \in Names :
                  Filled(file)[n] = IF n = job.out THEN file ELSE dir[n]
  BY DEF Filled, IInv, DirOK
<1>3. ASSUME Fails PROVE IInv' /\ Replaces
  BY <1>1, <1>3 DEF Fails, IInv, DirOK, AllAgreed, JobOK, ReservedOK,
     Replaces, given
<1>4. CASE CommitReplacing
  <2>1. overwrite = "Overwrite" \/ job.out \in agreed
    BY <1>4 DEF CommitReplacing, IInv, JobOK, Permitted
  <2>2. \A n \in Names : n = job.out => n \in agreed
    BY <2>1 DEF IInv, AllAgreed
  <2>3. ASSUME Placed(dir, {job.file}) PROVE IInv' /\ Replaces
    BY <1>1, <2>3, Placing DEF IInv, DirOK
  <2>4. ASSUME Placed(Filled(job.file), {}) PROVE IInv' /\ Replaces
    <3> DEFINE now == Filled(job.file)
    <3>1. /\ now = [n \in Names |-> now[n]]
          /\ \A n \in Names : now[n] # dir[n] => n \in agreed
      BY <1>2, <2>2
    <3> HIDE DEF now
    <3>2. Placed(now, {})
      BY <2>4 DEF now
    <3> QED
      BY <1>1, <3>1, <3>2, Placing
  <2> QED
    BY <1>3, <1>4, <2>3, <2>4 DEF CommitReplacing
<1>5. ASSUME Placed(Filled(job.file), {}),
             job.out \in Names =>
               dir[job.out] = None \/ dir[job.out].kind = "hole"
      PROVE  IInv' /\ Replaces
  <2> DEFINE now == Filled(job.file)
  <2>1. /\ now = [n \in Names |-> now[n]]
        /\ \A n \in Names : now[n] # dir[n] /\ dir[n] # None =>
             dir[n].kind = "hole"
    BY <1>2, <1>5
  <2> HIDE DEF now
  <2>2. Placed(now, {})
    BY <1>5 DEF now
  <2> QED
    BY <1>1, <2>1, <2>2, Placing
<1>6. CASE CommitNew
  <2>1. ASSUME dir[job.out] = None, pc' = "rename", job' = job,
               agreed' = agreed, dir' = Filled(Reservation)
        PROVE  IInv' /\ Replaces
    <3>1. /\ dir' = [n \in Names |-> dir'[n]]
          /\ \A n \in Names :
               dir'[n] = IF n = job.out THEN Reservation ELSE dir[n]
      BY <1>2, <2>1
    <3>2. /\ Reservation.kind = "hole"
          /\ job.out \in Names => Reservation # None
      BY ExtractionAssumption DEF EntryOK, Reservation, Nodes
    <3>3. JobOK'
      BY <1>1, <1>6, <2>1 DEF CommitNew, IInv, JobOK, Permitted, given
    <3> QED
      BY <1>1, <2>1, <3>1, <3>2, <3>3 DEF IInv, DirOK, AllAgreed, ReservedOK,
         Replaces, given
  <2> QED
    BY <1>3, <1>5, <1>6, <2>1 DEF CommitNew, Vacant
<1>7. CASE RenameOver
  BY <1>5, <1>7 DEF RenameOver, IInv, ReservedOK
<1> QED
  BY <1>4, <1>6, <1>7

\* A run that ends takes its reservation with it.  [TargetReservation::drop]
LEMMA Refusing ==
  ASSUME IInv, Refuse
  PROVE  IInv' /\ Replaces
<1>1. \A n \in Names : dir'[n] # dir[n] => dir[n].kind = "hole"
  BY DEF Refuse, Cleared, Filled, IInv, DirOK, ReservedOK
<1>2. dir' = [n \in Names |-> dir'[n]]
  BY DEF Refuse, Cleared, Filled, IInv, DirOK
<1> QED
  BY <1>1, <1>2 DEF Refuse, IInv, DirOK, AllAgreed, JobOK, ReservedOK,
     Replaces, given

\* Another program leaves a reservation alone.
LEMMA Changing ==
  ASSUME IInv, NEW n \in Names, Change(n)
  PROVE  IInv' /\ Replaces
<1>1. /\ dir' = [m \in Names |-> dir'[m]]
      /\ \A m \in Names : m # n => dir'[m] = dir[m]
  BY DEF Change, IInv, DirOK
<1>2. pc = "rename" => job.out # n
  BY DEF Change, IInv, ReservedOK
<1>3. foreign' # foreign
  BY DEF Change
<1> QED
  BY <1>1, <1>2, <1>3 DEF Change, IInv, DirOK, AllAgreed, JobOK, Permitted,
     ReservedOK, Replaces, given

\* Every step keeps the invariant, and replaces what is agreed or nothing.
LEMMA Step ==
  IInv /\ EntryOK /\ [Next]_vars => IInv' /\ (Replaces \/ UNCHANGED vars)
<1> SUFFICES ASSUME IInv, EntryOK, [Next]_vars
             PROVE  IInv' /\ (Replaces \/ UNCHANGED vars)
  OBVIOUS
<1>1. CASE Look
  BY <1>1, Looking
<1>2. CASE Ask
  BY <1>2, Asking
<1>3. CASE Write
  BY <1>3, Writing
<1>4. CASE CommitReplacing \/ CommitNew \/ RenameOver
  BY <1>4, Committing
<1>5. CASE Refuse
  BY <1>5, Refusing
<1>6. CASE Finish
  BY <1>6 DEF Finish, At, IInv, DirOK, AllAgreed, JobOK, ReservedOK, Replaces,
     given
<1>7. ASSUME NEW n \in Names, Change(n) PROVE IInv' /\ Replaces
  BY <1>7, Changing
<1>8. CASE UNCHANGED vars
  BY <1>8 DEF vars, given, IInv, DirOK, AllAgreed, JobOK, Permitted,
     ReservedOK
<1> QED
  BY <1>1, <1>2, <1>3, <1>4, <1>5, <1>6, <1>7, <1>8 DEF Next, Run

\* Extraction replaces a file only where the policy or an answer of the user
\* allows it, whatever archive it extracts and whatever other programs do to
\* the destination.  [extract.rs resolve_conflict_path, commit_using]
THEOREM ReplacesWhatIsAgreed == Spec => OnlyAgreedIsReplaced
<1>1. IInv /\ EntryOK /\ [Next]_vars =>
        [\A n \in Names :
           (dir[n] # None /\ dir[n].kind # "hole" /\ dir'[n] # dir[n]) =>
             n \in agreed \/ foreign' # foreign]_vars
  BY Step DEF Replaces
<1> QED
  BY Start, Counting, Step, <1>1, PTL DEF Spec, OnlyAgreedIsReplaced
-----------------------------------------------------------------------------
(***************************************************************************)
(* What the report says and what links are made of needs more: types, ...  *)
(***************************************************************************)
Busy == {"ask", "write", "commit", "rename"}

HasSource(j) == j.what \in {"hard", "copy"} => j.src \in Names

Typed ==
  /\ TypeOK
  /\ archive \in Seq(Entries) /\ before \subseteq Names
  /\ pc \in Busy => entry <= Len(archive) /\ HasSource(job)
  /\ pc = "done" => entry = Len(archive) + 1
  /\ pc \in {"commit", "rename"} =>
       job.file \in Nodes /\ job.file.kind \in {"file", "link"}
  /\ \A n \in Names : (dir[n] # None /\ dir[n].kind = "hole") =>
       pc = "rename" /\ n = job.out

\* ... what this run has made, for as long as nobody else writes here, ...
Good(f) == f # None => f.data \in Indices

Linked == foreign = {} =>
  /\ \A p \in Paths : made[p] # None => Good(dir[made[p]])
  /\ pc \in Busy /\ job.src # None => Good(dir[job.src])
  /\ pc \in {"commit", "rename"} => Good(job.file)
  /\ \A file \in links : Good(file)

\* ... and how an output fits what is at its name.
Fits(j) ==
  /\ j.how = "created"  => dir[j.out] = None
  /\ j.how = "replaced" => j.replace /\ dir[j.out] # None
  /\ j.how = "renamed"  => ~j.replace

Sum == report["created"] + report["directories"] + report["skipped"] +
       report["replaced"] + report["renamed"] + report["failed"]

New == {n \in Names \ before : dir[n] # None /\ dir[n].kind # "dir"}
NewOnes == report["created"] + report["renamed"] +
           IF pc = "rename" THEN 1 ELSE 0

Numbers == (foreign = {} /\ pc # "failed") =>
  /\ \A n \in before : dir[n] # None
  /\ IsFiniteSet(New) /\ Cardinality(New) = NewOnes
  /\ pc = "ask" => dir[job.out] # None
  /\ pc \in {"write", "commit"} => Fits(job)
  /\ pc = "rename" => job.how # "replaced"

Counted == Sum = entry - 1 /\ (~bestEffort => report["failed"] = 0) /\ Numbers

-----------------------------------------------------------------------------
(***************************************************************************)
(* What the steps come to.                                                 *)
(***************************************************************************)
\* What is known of the values of the model.
LEMMA Values ==
  /\ None \notin Job /\ None \notin Nodes /\ None \notin Names
  /\ NoJob = None
  /\ \A i \in Indices : i # Before /\ i # Foreign /\ i \in Nat
BY ExtractionAssumption DEF Indices, Before, Foreign, NoJob

\* The entry in work, and its names.
LEMMA InWork ==
  ASSUME Typed, entry <= Len(archive)
  PROVE  /\ entry \in 1 .. Len(archive) /\ entry \in Indices
         /\ Entry \in Entries /\ Entry.path \in Paths
         /\ Entry.to \in Paths \cup {None}
         /\ Own(Entry.path) \in Names /\ Copies(Entry.path) \subseteq Names
<1>1. entry \in 1 .. Len(archive) /\ entry \in Indices
  BY DEF Typed, TypeOK, Indices
<1>2. Entry \in Entries
  BY <1>1 DEF Typed, Entry
<1>3. 0 \in 0 .. MaxCopies /\ 1 .. MaxCopies \subseteq 0 .. MaxCopies
  BY ExtractionAssumption
<1>4. Entry.path \in Paths /\ Entry.to \in Paths \cup {None}
  BY <1>2 DEF Entries
<1> QED
  BY <1>1, <1>2, <1>3, <1>4 DEF Own, Copies, Names

\* A chain of links comes to an entry of a file, or to none.
LEMMA Following ==
  ASSUME Typed, NEW e, Follow(e) # 0
  PROVE  Follow(e) \in 1 .. Len(archive) /\ Follow(e) \in Indices
         /\ archive[Follow(e)].path \in Paths
<1>1. Follow(e) \in 1 .. Len(archive)
  BY DEF Follow
<1>2. archive[Follow(e)] \in Entries
  BY <1>1 DEF Typed
<1> QED
  BY <1>1, <1>2 DEF Entries, Indices

\* The first free sibling of a name is one of them.  [extract.rs
\* rename_both_path]
LEMMA FirstIsFree ==
  ASSUME NEW p \in Paths, NEW free, free \subseteq Copies(p), free # {}
  PROVE  (CHOOSE n \in free : \A m \in free : n[2] <= m[2]) \in free
<1> DEFINE R == {ss \in Nat \X Nat : ss[1] < ss[2]}
           numbers == {n[2] : n \in free}
<1>1. \A n \in free : n[2] \in Nat
  BY DEF Copies
<1>2. numbers \subseteq Nat /\ numbers # {}
  BY <1>1
<1>3. IsWellFoundedOn(R, Nat)
  BY NatLessThanWellFounded DEF OpToRel
<1> HIDE DEF numbers
<1>4. PICK i \in numbers : \A k \in numbers : <<k, i>> \notin R
  BY <1>2, <1>3, WFMin
<1>5. ASSUME NEW k \in numbers PROVE i <= k
  <2> DEFINE pair == <<k, i>>
  <2>1. pair \in Nat \X Nat /\ pair[1] = k /\ pair[2] = i
    BY <1>2
  <2>2. pair \notin R
    BY <1>4
  <2>3. ~(k < i)
    BY <2>1, <2>2
  <2> QED
    BY <1>2, <2>3
<1>6. PICK n \in free : n[2] = i
  BY <1>4 DEF numbers
<1>7. \A m \in free : n[2] <= m[2]
  BY <1>5, <1>6 DEF numbers
<1> QED
  BY <1>6, <1>7

\* An output and what becomes of it.
LEMMA Makes ==
  ASSUME Typed, entry <= Len(archive), NEW what \in Whats,
         NEW src \in Names \cup {None}, NEW data \in Indices
  PROVE  /\ Make(what, src, data) \in Job
         /\ Make(what, src, data).out = Own(Entry.path)
         /\ Make(what, src, data).src = src
         /\ Make(what, src, data).what = what
         /\ Make(what, src, data).replace = FALSE
BY InWork DEF Make, Job, Slot

\* The output is still made of the same.
Like(k, j) == k.src = j.src /\ k.what = j.what

\* What may be made of an entry once its conflict is resolved.
Ready(j) == Goes("write", j) /\ UNCHANGED agreed /\ Fits(j)
Asked(j) == Goes("ask", j) /\ UNCHANGED agreed /\ dir[j.out] # None

\* A conflict is resolved as the policy says.  [extract.rs
\* resolve_conflict_path]
LEMMA Resolved ==
  ASSUME Typed, entry <= Len(archive), NEW j \in Job, Resolve(j),
         j.out = Own(Entry.path)
  PROVE  Skips \/ \E k \in Job : Like(k, j) /\ (Ready(k) \/ Asked(k))
<1>1. j.out \in Names /\ Copies(Entry.path) \subseteq Names
      /\ Entry.path \in Paths
  BY InWork
<1>2. CASE /\ dir[j.out] = None
           /\ Goes("write", Into(j, j.out, overwrite = "Overwrite", "created"))
           /\ UNCHANGED agreed
  <2> DEFINE k == Into(j, j.out, overwrite = "Overwrite", "created")
  <2>1. k \in Job /\ Like(k, j) /\ k.out = j.out /\ k.how = "created"
    BY <1>1 DEF Into, Job, Like
  <2>2. Fits(k)
    BY <1>2, <2>1 DEF Fits
  <2> QED
    BY <1>2, <2>1, <2>2 DEF Ready
<1>3. CASE dir[j.out] # None /\ UNCHANGED agreed /\ Goes("write", Replacing(j))
  <2>1. /\ Replacing(j) \in Job /\ Like(Replacing(j), j)
        /\ Replacing(j).out = j.out /\ Replacing(j).how = "replaced"
        /\ Replacing(j).replace = TRUE
    BY <1>1 DEF Replacing, Into, Job, Like
  <2>2. Fits(Replacing(j))
    BY <1>3, <2>1 DEF Fits
  <2> QED
    BY <1>3, <2>1, <2>2 DEF Ready
<1>4. CASE dir[j.out] # None /\ UNCHANGED agreed /\ Goes("ask", j)
  BY <1>4 DEF Asked, Like
<1>5. ASSUME NEW n \in Names, UNCHANGED agreed,
             Goes("write", Into(j, n, FALSE, "renamed"))
      PROVE  \E k \in Job : Like(k, j) /\ (Ready(k) \/ Asked(k))
  <2> DEFINE k == Into(j, n, FALSE, "renamed")
  <2>1. k \in Job /\ Like(k, j) /\ k.how = "renamed" /\ k.replace = FALSE
    BY DEF Into, Job, Like
  <2>2. Fits(k)
    BY <2>1 DEF Fits
  <2> QED
    BY <1>5, <2>1, <2>2 DEF Ready
<1>6. ASSUME NEW free, free = {n \in Copies(Entry.path) : dir[n] = None},
             free # {}
      PROVE  (CHOOSE n \in free : \A m \in free : n[2] <= m[2]) \in Names
  BY <1>1, <1>6, FirstIsFree
<1> QED
  BY <1>2, <1>3, <1>4, <1>5, <1>6 DEF Resolve

\* Where a link's content comes from.
Sourced(j) ==
  /\ HasSource(j)
  /\ j.src = None \/ \E p \in Paths : made[p] # None /\ j.src = made[p]

\* An entry that is looked at is skipped, refused, a directory, or on its way.
\* [extract.rs write_meta_entry, file_target, link_from_disk;
\* links.rs LinkResolver]
LEMMA Looks ==
  ASSUME Typed, Look
  PROVE  \/ Skips
         \/ Fails
         \/ MakeDirectory
         \/ \E j \in Job : Sourced(j) /\ (Ready(j) \/ Asked(j))
<1>1. entry <= Len(archive) /\ made \in [Paths -> Names \cup {None}]
  BY DEF Look, Typed, TypeOK
<1>2. ASSUME NEW what \in Whats, NEW src \in Names \cup {None},
             src = None \/ \E p \in Paths : made[p] # None /\ src = made[p],
             what \in {"hard", "copy"} => src # None,
             NEW data \in Indices, Resolve(Make(what, src, data))
      PROVE  Skips \/ \E j \in Job : Sourced(j) /\ (Ready(j) \/ Asked(j))
  <2>1. Make(what, src, data) \in Job
        /\ Make(what, src, data).out = Own(Entry.path)
        /\ Make(what, src, data).src = src
        /\ Make(what, src, data).what = what
    BY <1>1, Makes
  <2> QED
    BY <1>1, <1>2, <2>1, Resolved DEF Sourced, HasSource, Like
<1>3. entry \in Indices /\ Entry.to \in Paths \cup {None}
  BY <1>1, InWork
<1>4. ASSUME NEW what \in Whats, FromDisk(what)
      PROVE  \/ Skips
             \/ Fails
             \/ \E j \in Job : Sourced(j) /\ (Ready(j) \/ Asked(j))
  <2> DEFINE src == IF Entry.to = None THEN None ELSE Source(Entry.to)
  <2>1. CASE src # None /\ Resolve(Make(what, src, entry))
    <3>1. /\ src \in Names \cup {None}
          /\ src = None \/ \E p \in Paths : made[p] # None /\ src = made[p]
      BY <1>1, <1>3 DEF Source
    <3> QED
      BY <1>2, <1>3, <2>1, <3>1
  <2> QED
    BY <1>4, <2>1 DEF FromDisk
<1>5. ASSUME NEW hard \in BOOLEAN, FromList(hard)
      PROVE  Skips \/ \E j \in Job : Sourced(j) /\ (Ready(j) \/ Asked(j))
  <2> DEFINE target == IF Entry.to = None THEN 0 ELSE Follow(Entry)
             src == made[archive[target].path]
  <2>1. CASE target # 0 /\ src # None /\ Resolve(Make("hard", src, entry))
    <3>1. archive[target].path \in Paths
      BY <2>1, Following
    <3> QED
      BY <1>1, <1>2, <1>3, <2>1, <3>1 DEF Whats
  <2>2. CASE target # 0 /\ Resolve(Make("content", None, target))
    <3>1. target \in Indices
      BY <2>2, Following
    <3> QED
      BY <1>2, <2>2, <3>1 DEF Whats
  <2> QED
    BY <1>5, <2>1, <2>2 DEF FromList
<1> QED
  BY <1>2, <1>3, <1>4, <1>5 DEF Look, Whats

\* An answer lets the output replace what it is about, or gives it another
\* name.
Permits(j) == /\ Goes("write", j) /\ Like(j, job)
              /\ agreed' \in {agreed, agreed \cup {job.out}}
              /\ \/ j.how = "replaced" /\ j.replace /\ j.out = job.out
                 \/ j.how = "renamed" /\ ~j.replace

\* It may also skip the entry or end the run.  [extract.rs ConflictDecision]
LEMMA Answers ==
  ASSUME Typed, Ask
  PROVE  Skips \/ Fails \/ \E j \in Job : Permits(j)
<1>1. job \in Job /\ job.out \in Names
  BY DEF Ask, At, Typed, TypeOK, Job
<1>2. Copies(Entry.path) \subseteq Names
  BY InWork DEF Ask, At, Typed, Busy
<1>3. ASSUME Goes("write", Replacing(job)), agreed' = agreed \cup {job.out}
      PROVE  \E j \in Job : Permits(j)
  <2>1. /\ Replacing(job) \in Job /\ Like(Replacing(job), job)
        /\ Replacing(job).out = job.out /\ Replacing(job).how = "replaced"
        /\ Replacing(job).replace = TRUE
    BY <1>1 DEF Replacing, Into, Job, Like
  <2> QED
    BY <1>3, <2>1 DEF Permits
<1>4. ASSUME NEW n \in Copies(Entry.path), agreed' = agreed,
             Goes("write", Into(job, n, FALSE, "renamed"))
      PROVE  \E j \in Job : Permits(j)
  <2> DEFINE j == Into(job, n, FALSE, "renamed")
  <2>1. j \in Job /\ Like(j, job) /\ j.how = "renamed" /\ j.replace = FALSE
    BY <1>1, <1>2 DEF Into, Job, Like
  <2> QED
    BY <1>4, <2>1 DEF Permits
<1> QED
  BY <1>3, <1>4 DEF Ask

\* What is staged is a file or a link, and what it is made of was made by this
\* run if its source was.  [extract.rs write_file, write_hard_link]
LEMMA Stages ==
  ASSUME Typed, Write
  PROVE  \/ Skips
         \/ Fails
         \/ /\ bestEffort /\ CountsAs("failed")
            /\ UNCHANGED <<dir, made, left, agreed, links>>
         \/ \E file \in Nodes :
              /\ file.kind \in {"file", "link"}
              /\ \/ file.data \in Indices
                 \/ job.src \in Names /\ dir[job.src] # None
                    /\ file.data = dir[job.src].data
              /\ Goes("commit", [job EXCEPT !.file = file])
              /\ UNCHANGED agreed
<1>1. job \in Job /\ entry \in Indices /\ dir \in [Names -> Slot]
  BY InWork DEF Write, At, Typed, TypeOK, Job, Busy
<1>2. /\ job.what \in Whats /\ job.out \in Names /\ job.data \in Indices
      /\ HasSource(job)
  BY <1>1 DEF Job, Write, At, Typed, Busy
<1>3. ASSUME CanStage(job)
      PROVE  /\ Staged(job) \in Nodes
             /\ Staged(job).kind \in {"file", "link"}
             /\ \/ Staged(job).data \in Indices
                \/ job.src \in Names /\ dir[job.src] # None
                   /\ Staged(job).data = dir[job.src].data
  <2>1. CASE job.what = "content"
    BY <1>1, <1>2, <2>1 DEF Staged, Nodes
  <2>2. CASE job.what = "sym"
    BY <1>1, <1>2, <2>2 DEF Staged, Nodes
  <2>3. CASE job.what = "copy"
    <3>1. job.src \in Names /\ dir[job.src] \in Nodes /\ dir[job.src] # None
      BY <1>1, <1>2, <1>3, <2>3 DEF HasSource, CanStage, Slot
    <3> QED
      BY <1>1, <1>2, <2>3, <3>1 DEF Staged, Nodes
  <2>4. CASE job.what = "hard"
    BY <1>1, <1>2, <1>3, <2>4
    DEF Staged, CanStage, Slot, HasSource, Nodes
  <2> QED
    BY <1>2, <2>1, <2>2, <2>3, <2>4 DEF Whats
<1> QED
  BY <1>3 DEF Write

-----------------------------------------------------------------------------
(***************************************************************************)
(* Every step keeps it.                                                    *)
(***************************************************************************)
All == Typed /\ Linked /\ Counted

\* An entry is counted once.
LEMMA CountsUp ==
  ASSUME Typed, Counted, NEW c \in Counts, CountsAs(c)
  PROVE  /\ report' \in [Counts -> Nat] /\ (Sum = entry - 1)'
         /\ \A k \in Counts : report'[k] = report[k] + IF k = c THEN 1 ELSE 0
<1>1. report \in [Counts -> Nat] /\ report' = [report EXCEPT ![c] = @ + 1]
      /\ entry' = entry + 1 /\ entry \in Nat /\ Sum = entry - 1
  BY DEF CountsAs, Typed, TypeOK, Counted
<1>2. \A k \in Counts : report'[k] = report[k] + IF k = c THEN 1 ELSE 0
  BY <1>1
<1>3. \A k \in Counts : report[k] \in Nat
  BY <1>1
<1>4. Sum' = Sum + 1
  BY <1>2, <1>3 DEF Sum, Counts
<1> QED
  BY <1>1, <1>2, <1>4

\* The work on an entry ends without an output, or the run does.
LEMMA Resting ==
  ASSUME All, UNCHANGED given, UNCHANGED foreign, pc \in {"look"} \cup Busy,
         pc # "rename", entry <= Len(archive), agreed' = agreed,
         \/ Fails
         \/ \E c \in {"skipped", "failed"} :
              /\ CountsAs(c) /\ UNCHANGED <<dir, made, left, links>>
              /\ c = "failed" => bestEffort
  PROVE  All'
<1>1. UNCHANGED <<dir, made, left, links>> /\ job' = NoJob
  BY DEF Fails, CountsAs
<1>2. CASE Fails
  <2>1. Typed'
    BY <1>1, <1>2, Values DEF All, Fails, Typed, TypeOK, given, Busy
  <2>2. Linked'
    BY <1>1, <1>2 DEF All, Fails, Linked, Good, Busy
  <2>3. Counted'
    BY <1>1, <1>2 DEF All, Fails, Counted, Sum, Numbers, given
  <2> QED
    BY <2>1, <2>2, <2>3 DEF All
<1>3. ASSUME NEW c \in {"skipped", "failed"}, CountsAs(c),
             c = "failed" => bestEffort
      PROVE  All'
  <2>1. /\ report' \in [Counts -> Nat] /\ (Sum = entry - 1)'
        /\ \A k \in Counts : report'[k] = report[k] + IF k = c THEN 1 ELSE 0
        /\ pc' = "look" /\ entry' = entry + 1
    BY <1>3, CountsUp DEF All, Counts, CountsAs
  <2>2. Typed'
    BY <1>1, <2>1, Values DEF All, Typed, TypeOK, given, Busy
  <2>3. Linked'
    BY <1>1, <2>1 DEF All, Linked, Good, Busy
  <2>4. ~bestEffort' => report'["failed"] = 0
    BY <1>3, <2>1 DEF All, Counted, Counts, given
  <2>5. Numbers'
    <3>0. report["created"] \in Nat /\ report["renamed"] \in Nat
      BY DEF All, Typed, TypeOK, Counts
    <3>1. New' = New /\ NewOnes' = NewOnes
      BY <1>1, <1>3, <2>1, <3>0 DEF New, NewOnes, given, Counts
    <3> QED
      BY <1>1, <2>1, <3>1 DEF All, Counted, Numbers, given, Busy
  <2> QED
    BY <2>1, <2>2, <2>3, <2>4, <2>5 DEF All, Counted
<1> QED
  BY <1>2, <1>3

\* A directory is no file.  [extract.rs make_dir]
LEMMA Directories ==
  ASSUME All, UNCHANGED given, UNCHANGED foreign, pc = "look",
         entry <= Len(archive), MakeDirectory
  PROVE  All'
<1> DEFINE n == Own(Entry.path)
           new == [by |-> entry, name |-> n, kind |-> "dir", data |-> entry]
<1>1. CASE Fails
  BY <1>1, Resting DEF MakeDirectory, Fails, Busy
<1>2. CASE /\ dir' = IF dir[n] = None THEN [dir EXCEPT ![n] = new] ELSE dir
           /\ CountsAs("directories") /\ UNCHANGED <<made, left, agreed, links>>
  <2>1. /\ report' \in [Counts -> Nat] /\ (Sum = entry - 1)'
        /\ \A k \in Counts :
             report'[k] = report[k] + IF k = "directories" THEN 1 ELSE 0
        /\ pc' = "look" /\ entry' = entry + 1 /\ job' = NoJob
    BY <1>2, CountsUp DEF All, Counts, CountsAs
  <2>2. n \in Names /\ new \in Nodes /\ entry \in Indices
    BY InWork DEF All, Nodes
  <2>3. /\ dir' \in [Names -> Slot] /\ dir \in [Names -> Slot]
        /\ \A m \in Names :
             \/ dir'[m] = dir[m]
             \/ m = n /\ dir[m] = None /\ dir'[m] = new
    BY <1>2, <2>2 DEF All, Typed, TypeOK, Slot
  <2>4. new # None /\ new.kind = "dir" /\ new.data = entry
    BY <2>2, Values
  <2> HIDE DEF n, new
  <2>5. Typed'
    BY <1>2, <2>1, <2>3, <2>4, Values DEF All, Typed, TypeOK, given, Busy
  <2>6. Linked'
    BY <1>2, <2>1, <2>2, <2>3, <2>4 DEF All, Typed, TypeOK, Linked, Good, Busy
  <2>7. ~bestEffort' => report'["failed"] = 0
    BY <2>1 DEF All, Counted, Counts, given
  <2>8. New' = New /\ NewOnes' = NewOnes
    <3>1. report["created"] \in Nat /\ report["renamed"] \in Nat
      BY DEF All, Typed, TypeOK, Counts
    <3>2. NewOnes' = NewOnes
      BY <2>1, <3>1 DEF NewOnes, Counts
    <3>3. \A m \in Names : (dir'[m] # None /\ dir'[m].kind # "dir") <=>
                           (dir[m] # None /\ dir[m].kind # "dir")
      BY <2>3, <2>4
    <3> QED
      BY <3>2, <3>3 DEF New, given
  <2>9. Numbers'
    <3>1. (foreign = {} /\ pc # "failed") =>
            /\ \A m \in before : dir[m] # None
            /\ IsFiniteSet(New) /\ Cardinality(New) = NewOnes
      BY DEF All, Counted, Numbers
    <3>2. (foreign = {} /\ pc # "failed") => \A m \in before : dir'[m] # None
      BY <2>3, <2>4, <3>1 DEF All, Typed
    <3> QED
      BY <2>1, <2>8, <3>1, <3>2 DEF Numbers, given, Busy
  <2> QED
    BY <2>1, <2>5, <2>6, <2>7, <2>9 DEF All, Counted
<1> QED
  BY <1>1, <1>2 DEF MakeDirectory

\* An output is decided on.
LEMMA Deciding ==
  ASSUME All, UNCHANGED given, UNCHANGED foreign, pc \in {"look", "ask"},
         entry <= Len(archive), agreed' \subseteq Names,
         NEW point \in {"ask", "write"}, NEW j \in Job, Goes(point, j),
         HasSource(j),
         foreign = {} /\ j.src # None => Good(dir[j.src]),
         foreign = {} => IF point = "ask" THEN dir[j.out] # None ELSE Fits(j)
  PROVE  All'
<1>1. /\ UNCHANGED <<dir, entry, made, report, left, links>>
      /\ pc' = point /\ job' = j
  BY DEF Goes
<1>2. Typed'
  BY <1>1, Values DEF All, Typed, TypeOK, given, Busy, HasSource
<1>3. Linked'
  BY <1>1 DEF All, Linked, Good, Busy
<1>4. Numbers'
  <2>1. New' = New /\ NewOnes' = NewOnes
    BY <1>1 DEF New, NewOnes, given
  <2>2. point = "write" /\ foreign = {} => Fits(job)'
    BY <1>1 DEF Fits
  <2> QED
    BY <1>1, <2>1, <2>2 DEF All, Counted, Numbers, given
<1> QED
  BY <1>1, <1>2, <1>3, <1>4 DEF All, Counted, Sum, given

\* What was made of an entry of the archive stays that.
LEMMA SourcesAreGood ==
  ASSUME Linked, NEW j, Sourced(j), foreign = {}, j.src # None
  PROVE  Good(dir[j.src])
BY DEF Linked, Sourced

\* Looking at an entry.
LEMMA LookKeeps == ASSUME All, Look PROVE All'
<1>1. UNCHANGED given /\ UNCHANGED foreign /\ pc = "look"
      /\ entry <= Len(archive)
  BY DEF Look, At
<1>2. CASE Skips
  BY <1>1, <1>2, Resting DEF Skips, Busy
<1>3. CASE Fails
  <2>1. agreed' = agreed
    BY <1>3 DEF Fails
  <2> QED
    BY <1>1, <1>3, <2>1, Resting DEF Busy
<1>4. CASE MakeDirectory
  BY <1>1, <1>4, Directories
<1>5. ASSUME NEW j \in Job, Sourced(j), Ready(j) \/ Asked(j) PROVE All'
  <2>1. agreed' \subseteq Names /\ HasSource(j)
    BY <1>5 DEF Ready, Asked, All, Typed, TypeOK, Sourced
  <2>2. foreign = {} /\ j.src # None => Good(dir[j.src])
    BY <1>5, SourcesAreGood DEF All
  <2>3. CASE Ready(j)
    BY <1>1, <1>5, <2>1, <2>2, <2>3, Deciding DEF Ready
  <2>4. CASE Asked(j)
    BY <1>1, <1>5, <2>1, <2>2, <2>4, Deciding DEF Asked
  <2> QED
    BY <1>5, <2>3, <2>4
<1> QED
  BY <1>2, <1>3, <1>4, <1>5, Looks DEF All

\* Asking the user.
LEMMA AskKeeps == ASSUME All, Ask PROVE All'
<1>1. UNCHANGED given /\ UNCHANGED foreign /\ pc = "ask"
      /\ entry <= Len(archive) /\ job \in Job /\ HasSource(job)
  BY DEF Ask, At, All, Typed, TypeOK, Busy
<1>2. CASE Skips
  BY <1>1, <1>2, Resting DEF Skips, Busy
<1>3. CASE Fails
  <2>1. agreed' = agreed
    BY <1>3 DEF Fails
  <2> QED
    BY <1>1, <1>3, <2>1, Resting DEF Busy
<1>4. ASSUME NEW j \in Job, Permits(j) PROVE All'
  <2>1. agreed' \subseteq Names /\ HasSource(j) /\ Goes("write", j)
    BY <1>1, <1>4 DEF Permits, All, Typed, TypeOK, HasSource, Like, Job
  <2>2. foreign = {} /\ j.src # None => Good(dir[j.src])
    BY <1>1, <1>4 DEF All, Linked, Permits, Like, Busy
  <2>3. foreign = {} => Fits(j)
    BY <1>1, <1>4 DEF All, Counted, Numbers, Permits, Fits
  <2> QED
    BY <1>1, <2>1, <2>2, <2>3, Deciding
<1> QED
  BY <1>2, <1>3, <1>4, Answers DEF All

\* Writing under a private name.
LEMMA WriteKeeps == ASSUME All, Write PROVE All'
<1>1. UNCHANGED given /\ UNCHANGED foreign /\ pc = "write"
      /\ entry <= Len(archive) /\ job \in Job /\ HasSource(job)
  BY DEF Write, At, All, Typed, TypeOK, Busy
<1>2. CASE Skips
  BY <1>1, <1>2, Resting DEF Skips, Busy
<1>3. CASE Fails
  <2>1. agreed' = agreed
    BY <1>3 DEF Fails
  <2> QED
    BY <1>1, <1>3, <2>1, Resting DEF Busy
<1>4. CASE /\ bestEffort /\ CountsAs("failed")
           /\ UNCHANGED <<dir, made, left, agreed, links>>
  BY <1>1, <1>4, Resting DEF Busy
<1>5. ASSUME NEW file \in Nodes, file.kind \in {"file", "link"},
             \/ file.data \in Indices
             \/ job.src \in Names /\ dir[job.src] # None
                /\ file.data = dir[job.src].data,
             Goes("commit", [job EXCEPT !.file = file]), UNCHANGED agreed
      PROVE  All'
  <2>1. /\ UNCHANGED <<dir, entry, made, report, left, links>>
        /\ pc' = "commit" /\ job' = [job EXCEPT !.file = file]
    BY <1>5 DEF Goes
  <2>2. /\ job' \in Job /\ job'.file = file /\ job'.src = job.src
        /\ job'.what = job.what /\ job'.how = job.how /\ job'.out = job.out
        /\ job'.replace = job.replace
    BY <1>1, <2>1 DEF Job, Slot
  <2>3. Typed'
    BY <1>1, <1>5, <2>1, <2>2, Values DEF All, Typed, TypeOK, given, Busy,
       HasSource
  <2>4. Linked'
    <3>1. foreign = {} => Good(file)
      BY <1>1, <1>5, Values DEF All, Linked, Good, Busy
    <3>2. foreign = {} /\ job.src # None => Good(dir[job.src])
      BY <1>1 DEF All, Linked, Busy
    <3> QED
      BY <1>1, <2>1, <2>2, <3>1, <3>2 DEF All, Linked, Good
  <2>5. Numbers'
    <3>1. New' = New /\ NewOnes' = NewOnes
      BY <1>1, <2>1 DEF New, NewOnes, given
    <3>2. foreign = {} => Fits(job)'
      BY <1>1, <2>1, <2>2 DEF All, Counted, Numbers, Fits
    <3> QED
      BY <1>1, <2>1, <3>1, <3>2 DEF All, Counted, Numbers, given
  <2> QED
    BY <1>1, <2>1, <2>3, <2>4, <2>5 DEF All, Counted, Sum, given
<1> QED
  BY <1>2, <1>3, <1>4, <1>5, Stages DEF All

-----------------------------------------------------------------------------
(***************************************************************************)
(* The commit.                                                             *)
(***************************************************************************)
\* What is at a name now.
LEMMA Fills ==
  ASSUME Typed, job.out \in Names, NEW file, dir' = Filled(file)
  PROVE  \A n \in Names : dir'[n] = IF n = job.out THEN file ELSE dir[n]
BY DEF Typed, TypeOK, Filled

\* A file at a name makes it one of the new ones, unless it was taken before.
LEMMA OneMore ==
  ASSUME Typed, UNCHANGED given, job.out \in Names, NEW file, file # None,
         file.kind # "dir", dir' = Filled(file)
  PROVE  New' = IF job.out \in before THEN New ELSE New \cup {job.out}
<1>1. \A n \in Names : dir'[n] = IF n = job.out THEN file ELSE dir[n]
  BY Fills
<1> QED
  BY <1>1 DEF New, given

\* An output is placed at its name, or was there already.
LEMMA PlacedKeeps ==
  ASSUME All, UNCHANGED given, UNCHANGED foreign, pc \in {"commit", "rename"},
         NEW now, NEW kept \in SUBSET {job.file}, Placed(now, kept),
         now \in {dir, Filled(job.file)}, now = dir => dir[job.out] = job.file,
         foreign = {} => /\ \A n \in before : now[n] # None
                         /\ IsFiniteSet(New') /\ Cardinality(New') = NewOnes'
  PROVE  All'
<1>1. /\ job \in Job /\ HasSource(job) /\ entry <= Len(archive)
      /\ job.file \in Nodes /\ job.file.kind \in {"file", "link"}
      /\ job.file # None
  BY Values DEF All, Typed, TypeOK, Busy
<1>2. /\ job.out \in Names /\ Count(job) \in {"created", "replaced", "renamed"}
      /\ Entry.path \in Paths
  BY <1>1, InWork DEF Job, Count, All
<1>3. /\ dir' = now /\ left' = left \cup kept
      /\ made' \in {made, [made EXCEPT ![Entry.path] = job.out]}
      /\ links' \in {links, links \cup {job.file}} /\ agreed' = agreed
      /\ CountsAs(Count(job))
  BY DEF Placed
<1>4. /\ report' \in [Counts -> Nat] /\ (Sum = entry - 1)'
      /\ \A k \in Counts :
           report'[k] = report[k] + IF k = Count(job) THEN 1 ELSE 0
      /\ pc' = "look" /\ entry' = entry + 1 /\ job' = NoJob
  BY <1>2, <1>3, CountsUp DEF All, Counts, CountsAs
<1>5. /\ dir' \in [Names -> Slot] /\ dir \in [Names -> Slot]
      /\ \A n \in Names : dir'[n] = IF n = job.out THEN job.file ELSE dir[n]
  BY <1>1, <1>2, <1>3 DEF All, Typed, TypeOK, Filled, Slot
<1>6. Typed'
  <2>1. made' \in [Paths -> Names \cup {None}] /\ left' \subseteq Nodes
        /\ links' \subseteq Nodes /\ entry' \in 1 .. Len(archive) + 1
    <3>1. /\ left \subseteq Nodes /\ links \subseteq Nodes
          /\ made \in [Paths -> Names \cup {None}]
          /\ entry \in 1 .. Len(archive) + 1 /\ Len(archive) \in Nat
      BY DEF All, Typed, TypeOK
    <3>2. left' \subseteq Nodes /\ links' \subseteq Nodes
      BY <1>1, <1>3, <3>1
    <3>3. made' \in [Paths -> Names \cup {None}]
      BY <1>2, <1>3, <3>1
    <3> QED
      BY <1>1, <1>4, <3>1, <3>2, <3>3
  <2>2. \A n \in Names : ~(dir'[n] # None /\ dir'[n].kind = "hole")
    BY <1>1, <1>5 DEF All, Typed
  <2> QED
    BY <1>3, <1>4, <1>5, <2>1, <2>2, Values DEF All, Typed, TypeOK, given, Busy
<1>7. Linked'
  <2>1. SUFFICES ASSUME foreign = {} PROVE Linked'
    BY DEF Linked
  <2>2. Good(job.file) /\ \A file \in links : Good(file)
    BY <2>1 DEF All, Linked
  <2>3. \A p \in Paths : made'[p] # None => Good(dir'[made'[p]])
    <3>1. ASSUME NEW p \in Paths, made'[p] # None PROVE Good(dir'[made'[p]])
      <4>1. made \in [Paths -> Names \cup {None}]
        BY DEF All, Typed, TypeOK
      <4>2. CASE made'[p] = job.out
        BY <1>2, <1>5, <2>2, <4>2
      <4>3. CASE made'[p] = made[p]
        <5>1. Good(dir[made[p]]) /\ made[p] \in Names
          BY <2>1, <3>1, <4>1, <4>3 DEF All, Linked
        <5> QED
          BY <1>5, <2>2, <4>3, <5>1
      <4> QED
        BY <1>2, <1>3, <4>1, <4>2, <4>3
    <3> QED
      BY <3>1
  <2> QED
    BY <1>3, <1>4, <2>2, <2>3 DEF Linked, Good, Busy
<1>8. ~bestEffort' => report'["failed"] = 0
  BY <1>2, <1>4 DEF All, Counted, Counts, given
<1>9. Numbers'
  BY <1>3, <1>4 DEF Numbers, given
<1> QED
  BY <1>4, <1>6, <1>7, <1>8, <1>9 DEF All, Counted

\* A rename takes what it replaces; what is new is counted so.  [extract.rs
\* commit_using]
LEMMA ReplacingKeeps == ASSUME All, CommitReplacing PROVE All'
<1>1. /\ UNCHANGED given /\ UNCHANGED foreign /\ pc = "commit" /\ job.replace
      /\ job \in Job /\ entry <= Len(archive)
      /\ job.file \in Nodes /\ job.file.kind \in {"file", "link"}
      /\ job.file # None
  BY Values DEF CommitReplacing, At, All, Typed, TypeOK, Busy
<1>2. /\ job.out \in Names /\ job.how \in {"created", "replaced", "renamed"}
      /\ report \in [Counts -> Nat]
  BY <1>1 DEF Job, All, Typed, TypeOK
<1>3. foreign = {} =>
        /\ \A n \in before : dir[n] # None
        /\ IsFiniteSet(New)
        /\ Cardinality(New) = report["created"] + report["renamed"]
        /\ job.how = "created" => dir[job.out] = None
        /\ job.how = "replaced" => dir[job.out] # None
        /\ job.how # "renamed"
  <2>1. report["created"] \in Nat /\ report["renamed"] \in Nat
    BY <1>2 DEF Counts
  <2> QED
    BY <1>1, <2>1 DEF All, Counted, Numbers, NewOnes, Fits
<1>4. CASE Fails
  <2>1. agreed' = agreed
    BY <1>4 DEF Fails
  <2> QED
    BY <1>1, <1>4, <2>1, Resting DEF Busy
<1>5. ASSUME NEW kept, NEW now, Placed(now, kept)
      PROVE  NewOnes' = IF job.how = "replaced"
                        THEN report["created"] + report["renamed"]
                        ELSE report["created"] + report["renamed"] + 1
  <2>1. CountsAs(job.how)
    BY <1>5 DEF Placed, Count
  <2>2. pc' = "look" /\ \A k \in Counts :
           report'[k] = report[k] + IF k = job.how THEN 1 ELSE 0
    BY <1>2, <2>1, CountsUp DEF All, Counts, CountsAs
  <2>3. report["created"] \in Nat /\ report["renamed"] \in Nat
    BY <1>2 DEF Counts
  <2> QED
    BY <1>2, <2>2, <2>3 DEF NewOnes, Counts
<1>6. CASE dir[job.out] = job.file /\ Placed(dir, {job.file})
  <2>1. foreign = {} => job.how = "replaced"
    BY <1>1, <1>2, <1>3, <1>6
  <2>2. dir' = dir /\ New' = New
    BY <1>1, <1>6 DEF Placed, New, given
  <2>3. foreign = {} => /\ \A n \in before : dir[n] # None
                        /\ IsFiniteSet(New') /\ Cardinality(New') = NewOnes'
    BY <1>3, <1>5, <1>6, <2>1, <2>2
  <2> QED
    BY <1>1, <1>6, <2>3, PlacedKeeps
<1>7. CASE /\ dir[job.out] # None =>
                dir[job.out] # job.file /\ dir[job.out].kind # "dir"
           /\ Placed(Filled(job.file), {})
  <2>1. /\ dir' = Filled(job.file)
        /\ New' = IF job.out \in before THEN New ELSE New \cup {job.out}
    BY <1>1, <1>2, <1>7, OneMore DEF Placed, All
  <2>2. \A n \in Names : dir'[n] = IF n = job.out THEN job.file ELSE dir[n]
    BY <1>2, <2>1, Fills DEF All
  <2>3. ASSUME foreign = {}
        PROVE  /\ \A n \in before : dir'[n] # None
               /\ IsFiniteSet(New') /\ Cardinality(New') = NewOnes'
    <3>1. \A n \in before : dir'[n] # None
      BY <1>1, <1>3, <2>2, <2>3 DEF All, Typed
    <3>2. CASE job.how = "replaced"
      <4>1. job.out \notin before => job.out \in New
        BY <1>2, <1>3, <1>7, <2>3, <3>2 DEF New
      <4>2. New' = New
        BY <2>1, <4>1
      <4> QED
        BY <1>3, <1>5, <1>7, <2>3, <3>1, <3>2, <4>2
    <3>3. CASE job.how = "created"
      <4>1. job.out \notin before /\ job.out \notin New
        BY <1>3, <2>3, <3>3 DEF New
      <4>2. IsFiniteSet(New') /\ Cardinality(New') = Cardinality(New) + 1
        BY <1>3, <2>1, <2>3, <4>1, FS_AddElement
      <4> QED
        BY <1>3, <1>5, <1>7, <2>3, <3>1, <3>3, <4>2
    <3> QED
      BY <1>2, <1>3, <2>3, <3>2, <3>3
  <2>4. Filled(job.file) = dir => dir[job.out] = job.file
    BY <1>2, <2>1, <2>2
  <2> QED
    BY <1>1, <1>7, <2>1, <2>3, <2>4, PlacedKeeps
<1> QED
  BY <1>4, <1>6, <1>7 DEF CommitReplacing

\* A name that is taken is left to its owner; one that is vacant is new.
LEMMA NewKeeps == ASSUME All, CommitNew PROVE All'
<1>1. /\ UNCHANGED given /\ UNCHANGED foreign /\ pc = "commit" /\ ~job.replace
      /\ job \in Job /\ entry <= Len(archive) /\ HasSource(job)
      /\ job.file \in Nodes /\ job.file.kind \in {"file", "link"}
      /\ job.file # None
  BY Values DEF CommitNew, At, All, Typed, TypeOK, Busy
<1>2. /\ job.out \in Names /\ job.how \in {"created", "replaced", "renamed"}
      /\ report \in [Counts -> Nat]
  BY <1>1 DEF Job, All, Typed, TypeOK
<1>3. foreign = {} =>
        /\ \A n \in before : dir[n] # None
        /\ IsFiniteSet(New)
        /\ Cardinality(New) = report["created"] + report["renamed"]
        /\ job.how # "replaced"
  <2>1. report["created"] \in Nat /\ report["renamed"] \in Nat
    BY <1>2 DEF Counts
  <2> QED
    BY <1>1, <2>1 DEF All, Counted, Numbers, NewOnes, Fits
<1>4. CASE Fails
  <2>1. agreed' = agreed
    BY <1>4 DEF Fails
  <2> QED
    BY <1>1, <1>4, <2>1, Resting DEF Busy
<1>5. ASSUME NEW file, file # None, file.kind # "dir", Vacant(job.out),
             dir' = Filled(file), foreign = {}
      PROVE  /\ \A n \in before : dir'[n] # None
             /\ IsFiniteSet(New')
             /\ Cardinality(New') = report["created"] + report["renamed"] + 1
  <2>1. New' = IF job.out \in before THEN New ELSE New \cup {job.out}
    BY <1>1, <1>2, <1>5, OneMore DEF All
  <2>2. \A n \in Names : dir'[n] = IF n = job.out THEN file ELSE dir[n]
    BY <1>2, <1>5, Fills DEF All
  <2>3. job.out \notin before /\ job.out \notin New
    BY <1>3, <1>5 DEF New, Vacant
  <2>4. IsFiniteSet(New') /\ Cardinality(New') = Cardinality(New) + 1
    BY <1>3, <1>5, <2>1, <2>3, FS_AddElement
  <2> QED
    BY <1>3, <1>5, <2>2, <2>4 DEF All, Typed
<1>6. CASE Vacant(job.out) /\ Placed(Filled(job.file), {})
  <2>1. CountsAs(job.how) /\ dir' = Filled(job.file)
    BY <1>6 DEF Placed, Count
  <2>2. pc' = "look" /\ \A k \in Counts :
           report'[k] = report[k] + IF k = job.how THEN 1 ELSE 0
    BY <1>2, <2>1, CountsUp DEF All, Counts, CountsAs
  <2>3. report["created"] \in Nat /\ report["renamed"] \in Nat
    BY <1>2 DEF Counts
  <2>4. foreign = {} => NewOnes' = report["created"] + report["renamed"] + 1
    BY <1>2, <1>3, <2>2, <2>3 DEF NewOnes, Counts
  <2>5. foreign = {} => /\ \A n \in before : dir'[n] # None
                        /\ IsFiniteSet(New') /\ Cardinality(New') = NewOnes'
    BY <1>1, <1>5, <1>6, <2>1, <2>4
  <2>6. Filled(job.file) = dir => dir[job.out] = job.file
    BY <1>2, <2>1, Fills DEF All
  <2> QED
    BY <1>1, <1>6, <2>1, <2>5, <2>6, PlacedKeeps
<1>7. CASE /\ Vacant(job.out) /\ pc' = "rename" /\ dir' = Filled(Reservation)
           /\ UNCHANGED <<job, entry, made, report, left, agreed, links>>
  <2>1. /\ Reservation \in Nodes /\ Reservation # None
        /\ Reservation.kind = "hole" /\ Reservation.data \in Indices
    BY <1>1, <1>2, InWork, Values DEF All, Reservation, Nodes
  <2>2. /\ \A n \in Names :
             dir'[n] = IF n = job.out THEN Reservation ELSE dir[n]
        /\ dir' \in [Names -> Slot]
    BY <1>2, <1>7, <2>1, Fills DEF All, Typed, TypeOK, Filled, Slot
  <2> HIDE DEF Reservation
  <2>3. Typed'
    <3>1. \A n \in Names : (dir'[n] # None /\ dir'[n].kind = "hole") =>
             n = job.out
      BY <1>1, <2>2 DEF All, Typed
    <3> QED
      BY <1>1, <1>7, <2>2, <3>1, Values DEF All, Typed, TypeOK, given, Busy,
         HasSource
  <2>4. Linked'
    <3>1. made \in [Paths -> Names \cup {None}]
          /\ job.src \in Names \cup {None}
      BY <1>1 DEF All, Typed, TypeOK, Job
    <3>2. ASSUME NEW n \in Names, Good(dir[n]) PROVE Good(dir'[n])
      BY <2>1, <2>2, <3>2 DEF Good
    <3> QED
      BY <1>1, <1>7, <3>1, <3>2 DEF All, Linked, Good, Busy
  <2>5. Numbers'
    <3>1. foreign = {} => NewOnes' = report["created"] + report["renamed"] + 1
      BY <1>7 DEF NewOnes
    <3> QED
      BY <1>1, <1>3, <1>5, <1>7, <2>1, <3>1 DEF Numbers, given
  <2> QED
    BY <1>1, <1>7, <2>3, <2>4, <2>5 DEF All, Counted, Sum, given
<1> QED
  BY <1>4, <1>6, <1>7 DEF CommitNew

\* The file takes the place of its reservation.
LEMMA RenameKeeps == ASSUME IInv, All, RenameOver PROVE All'
<1>1. /\ UNCHANGED given /\ UNCHANGED foreign /\ pc = "rename"
      /\ job \in Job /\ Placed(Filled(job.file), {})
      /\ job.file \in Nodes /\ job.file.kind \in {"file", "link"}
      /\ job.file # None
  BY Values DEF RenameOver, At, All, Typed, TypeOK, Busy
<1>2. /\ job.out \in Names /\ job.how \in {"created", "replaced", "renamed"}
      /\ report \in [Counts -> Nat] /\ dir' = Filled(job.file)
      /\ CountsAs(job.how)
  BY <1>1 DEF Job, All, Typed, TypeOK, Placed, Count
<1>3. pc' = "look" /\ \A k \in Counts :
           report'[k] = report[k] + IF k = job.how THEN 1 ELSE 0
  BY <1>2, CountsUp DEF All, Counts, CountsAs
<1>4. report["created"] \in Nat /\ report["renamed"] \in Nat
  BY <1>2 DEF Counts
<1>5. ASSUME foreign = {}
      PROVE  /\ \A n \in before : dir'[n] # None
             /\ IsFiniteSet(New') /\ Cardinality(New') = NewOnes'
  <2>1. /\ \A n \in before : dir[n] # None
        /\ IsFiniteSet(New)
        /\ Cardinality(New) = report["created"] + report["renamed"] + 1
        /\ job.how # "replaced"
    BY <1>1, <1>5 DEF All, Counted, Numbers, NewOnes
  <2>2. NewOnes' = report["created"] + report["renamed"] + 1
    BY <1>2, <1>3, <1>4, <2>1 DEF NewOnes, Counts
  <2>3. \A n \in Names : dir'[n] = IF n = job.out THEN job.file ELSE dir[n]
    BY <1>2, Fills DEF All
  <2>4. New' = IF job.out \in before THEN New ELSE New \cup {job.out}
    BY <1>1, <1>2, OneMore DEF All
  <2>5. dir[job.out] # None /\ dir[job.out].kind # "dir"
    BY <1>1, <1>2 DEF IInv, ReservedOK
  <2>6. New' = New
    BY <1>2, <2>4, <2>5 DEF New
  <2> QED
    BY <1>1, <2>1, <2>2, <2>3, <2>6 DEF All, Typed
<1>6. Filled(job.file) = dir => dir[job.out] = job.file
  BY <1>2, Fills DEF All
<1> QED
  BY <1>1, <1>2, <1>5, <1>6, PlacedKeeps

-----------------------------------------------------------------------------
(***************************************************************************)
(* The end, and other programs.                                            *)
(***************************************************************************)
\* A reservation goes with the run.
LEMMA RefuseKeeps == ASSUME All, Refuse PROVE All'
<1>1. /\ pc' = "failed" /\ job' = NoJob /\ UNCHANGED given /\ dir' = Cleared
      /\ UNCHANGED <<foreign, entry, made, report, left, agreed, links>>
  BY DEF Refuse
<1>2. dir \in [Names -> Slot] /\ (pc = "rename" => job \in Job)
  BY DEF All, Typed, TypeOK
<1>3. /\ dir' \in [Names -> Slot]
      /\ \A n \in Names : dir'[n] = dir[n] \/ dir'[n] = None
      /\ \A n \in Names : pc = "rename" /\ n = job.out => dir'[n] = None
  BY <1>1, <1>2 DEF Cleared, Filled, Slot
<1>4. Typed'
  <2>1. \A n \in Names : ~(dir'[n] # None /\ dir'[n].kind = "hole")
    BY <1>3 DEF All, Typed
  <2> QED
    BY <1>1, <1>3, <2>1, Values DEF All, Typed, TypeOK, given, Busy
<1>5. Linked'
  <2>1. made \in [Paths -> Names \cup {None}]
    BY DEF All, Typed, TypeOK
  <2>2. ASSUME NEW n \in Names, Good(dir[n]) PROVE Good(dir'[n])
    BY <1>3, <2>2 DEF Good
  <2> QED
    BY <1>1, <2>1, <2>2 DEF All, Linked, Good, Busy
<1> QED
  BY <1>1, <1>4, <1>5 DEF All, Counted, Numbers, Sum, given

\* The end of the archive.
LEMMA FinishKeeps == ASSUME All, Finish PROVE All'
<1>1. /\ pc = "look" /\ pc' = "done" /\ entry > Len(archive)
      /\ UNCHANGED given /\ UNCHANGED foreign
      /\ UNCHANGED <<dir, entry, job, made, report, left, agreed, links>>
  BY DEF Finish, At
<1>2. Typed'
  <2>1. entry = Len(archive) + 1
    BY <1>1 DEF All, Typed, TypeOK
  <2> QED
    BY <1>1, <2>1 DEF All, Typed, TypeOK, given, Busy
<1>3. Linked'
  BY <1>1 DEF All, Linked, Good, Busy
<1>4. New' = New /\ NewOnes' = NewOnes
  BY <1>1 DEF New, NewOnes, given
<1> QED
  BY <1>1, <1>2, <1>3, <1>4 DEF All, Counted, Numbers, Sum, given

\* What another program does ends what is known of the destination.
LEMMA ChangeKeeps ==
  ASSUME IInv, All, NEW n \in Names, Change(n)
  PROVE  All'
<1>1. /\ UNCHANGED <<given, pc, entry, job, made, report, left, agreed, links>>
      /\ foreign' = foreign \cup {n}
      /\ dir[n] # None => dir[n].kind # "hole"
      /\ \/ dir' = [dir EXCEPT ![n] = Foreigner(n)]
         \/ dir' = [dir EXCEPT ![n] = None]
  BY DEF Change
<1>2. Foreigner(n) \in Nodes /\ Foreigner(n).kind = "file"
  BY DEF Foreigner, Nodes
<1>3. /\ dir' \in [Names -> Slot]
      /\ \A m \in Names : m # n => dir'[m] = dir[m]
      /\ dir'[n] # None => dir'[n].kind = "file"
  BY <1>1, <1>2 DEF All, Typed, TypeOK, Slot
<1>4. Typed'
  <2>1. \A m \in Names : (dir'[m] # None /\ dir'[m].kind = "hole") =>
             pc = "rename" /\ m = job.out
    BY <1>3 DEF All, Typed
  <2> QED
    BY <1>1, <1>3, <2>1 DEF All, Typed, TypeOK, given, Busy, HasSource
<1>5. foreign' # {}
  BY <1>1
<1> QED
  BY <1>1, <1>4, <1>5 DEF All, Linked, Counted, Numbers, Sum, given

\* At the start nothing is made.
LEMMA InitAll == Init => All
<1> SUFFICES ASSUME Init PROVE All
  OBVIOUS
<1>1. PICK f \in [Paths -> {"nothing", "file", "dir", "link"}] :
        dir = [n \in Names |->
                 IF n[2] # 0 \/ f[n[1]] = "nothing" THEN None
                 ELSE [by |-> Before, name |-> n, kind |-> f[n[1]],
                       data |-> Before]]
  BY DEF Init, There
<1>2. ASSUME NEW n \in Names
      PROVE  /\ dir[n] \in Slot
             /\ dir[n] # None => dir[n].kind # "hole"
  <2>1. CASE n[2] # 0 \/ f[n[1]] = "nothing"
    BY <1>1, <2>1 DEF Slot
  <2>2. CASE ~(n[2] # 0 \/ f[n[1]] = "nothing")
    <3>1. /\ dir[n] = [by |-> Before, name |-> n, kind |-> f[n[1]],
                       data |-> Before]
          /\ n[1] \in Paths /\ f[n[1]] \in {"file", "dir", "link"}
      BY <1>1, <2>2 DEF Names
    <3> QED
      BY <3>1 DEF Slot, Nodes
  <2> QED
    BY <2>1, <2>2
<1>3. /\ dir \in [Names -> Slot] /\ archive \in Seq(Entries)
      /\ entry = 1 /\ pc = "look" /\ job = NoJob /\ foreign = {} /\ links = {}
      /\ left = {} /\ report = [c \in Counts |-> 0]
      /\ made = [p \in Paths |-> None] /\ agreed \subseteq Names
      /\ before = {n \in Names : dir[n] # None}
  BY <1>1, <1>2, ExtractionAssumption DEF Init
<1>4. Typed
  <2>1. Len(archive) \in Nat
    BY <1>3
  <2> QED
    BY <1>2, <1>3, <2>1 DEF Typed, TypeOK, Busy
<1>5. Linked
  BY <1>3 DEF Linked, Busy
<1>6. Counted
  <2>1. New = {}
    BY <1>3 DEF New
  <2>2. IsFiniteSet(New) /\ Cardinality(New) = 0
    BY <2>1, FS_EmptySet
  <2>3. \A c \in Counts : report[c] = 0
    BY <1>3
  <2> QED
    BY <1>3, <2>2, <2>3 DEF Counted, Sum, Numbers, NewOnes, Counts
<1> QED
  BY <1>4, <1>5, <1>6 DEF All

\* Every step keeps it.
LEMMA StepAll == IInv /\ All /\ [Next]_vars => All'
<1> SUFFICES ASSUME IInv, All, [Next]_vars PROVE All'
  OBVIOUS
<1>1. CASE UNCHANGED vars
  <2>1. New' = New /\ NewOnes' = NewOnes
    BY <1>1 DEF vars, given, New, NewOnes
  <2>2. Typed'
    BY <1>1 DEF vars, given, All, Typed, TypeOK, Busy, HasSource
  <2>3. Linked'
    BY <1>1 DEF vars, given, All, Linked, Good, Busy
  <2>4. Fits(job)' <=> Fits(job)
    BY <1>1 DEF vars, Fits
  <2>5. Counted'
    BY <1>1, <2>1, <2>4 DEF vars, given, All, Counted, Sum, Numbers
  <2> QED
    BY <2>2, <2>3, <2>5 DEF All
<1> QED
  BY <1>1, LookKeeps, AskKeeps, WriteKeeps, ReplacingKeeps, NewKeeps,
     RenameKeeps, RefuseKeeps, FinishKeeps, ChangeKeeps DEF Next, Run

\* It holds in every state.
LEMMA Invariant == Spec => []All
BY Start, Counting, Step, InitAll, StepAll, PTL DEF Spec

\* The variables of an extraction keep their types, and a reservation is at a
\* name only while its output is renamed there.  [extract.rs ExtractSink,
\* TargetReservation]
THEOREM TypeCorrect == Spec => []TypeOK
<1>1. All => TypeOK
  BY DEF All, Typed
<1> QED
  BY <1>1, Invariant, PTL

\* What a link becomes is content of the archive, for any archive and any
\* destination, unless another program changes the destination under way.
\* [extract.rs materialized_files]
THEOREM LinksAreOfTheArchive == Spec => []LinksComeFromTheArchive
<1>1. All => LinksComeFromTheArchive
  BY Values DEF All, Typed, TypeOK, Linked, Good, LinksComeFromTheArchive
<1> QED
  BY <1>1, Invariant, PTL

\* The report accounts for every entry once and for every new name, for any
\* archive, policy and destination.  [extract.rs ExtractReport]
THEOREM TheReportAddsUp == Spec => []ReportAddsUp
<1>1. All => ReportAddsUp
  <2> SUFFICES ASSUME All, pc = "done" PROVE ReportAddsUp
    BY DEF ReportAddsUp
  <2>1. Sum = Len(archive) /\ (~bestEffort => report["failed"] = 0)
    BY DEF All, Typed, TypeOK, Counted
  <2>2. foreign = {} => Cardinality(New) = report["created"] + report["renamed"]
    BY DEF All, Typed, TypeOK, Counted, Numbers, NewOnes, Counts
  <2> QED
    BY <2>1, <2>2 DEF ReportAddsUp, Sum, New
<1> QED
  BY <1>1, Invariant, PTL
-----------------------------------------------------------------------------
(***************************************************************************)
(* The private workspace of a repair (RepairWorkspace), for any processes, *)
(* repairs and faults.                                                     *)
(***************************************************************************)
\* What holds of every tree that a power loss may leave: the three parts of
\* NothingForgotten, and what they rest on.
RunsOf(s) == {s.journal.run, s.temp.run}

Kept(s) ==
  /\ s.temp \in Record => \/ s.journal \in {Absent, s.temp}
                          \/ Advances(s.journal, s.temp)
  /\ \A r \in Runs :
       /\ s.work[r] = "own" \/ s.owner[r] \in {"torn", "own"} => r \in RunsOf(s)
       /\ r \notin touched => s.work[r] # "other" /\ s.owner[r] # "other"
       /\ r \notin touched /\ Named(r, "active") \in {s.journal, s.temp} =>
            s.owner[r] # "torn" /\ (s.work[r] = "own" => s.owner[r] = "own")
       /\ r \notin used =>
            s.work[r] = "none" /\ s.owner[r] = "none" /\ r \notin RunsOf(s)
       /\ r \in clean =>
            s.work[r] # "own" /\ s.owner[r] # "own" /\ r \notin RunsOf(s)

DiskOK == fs \in disk /\ touched \subseteq used /\ \A s \in disk : Kept(s)

\* What the holder of the lock knows about the directory, at each point.
Owned(r, work, owner) == fs.work[r] = work /\ fs.owner[r] = owner

Found(p) == /\ fs.temp = Absent
            /\ fs.journal = proc[p].rec /\ proc[p].rec \in Record
            /\ proc[p].run \in {0, proc[p].rec.run}

Making(p) ==
  /\ proc[p].run \in used \ clean
  /\ \/ /\ proc[p].rec = Named(proc[p].run, "reserved")
        /\ fs.journal = Absent /\ Owned(proc[p].run, "none", "none")
     \/ /\ proc[p].rec = Named(proc[p].run, "active")
        /\ fs.journal = Named(proc[p].run, "reserved")
        /\ Owned(proc[p].run, "own", "own")

Made(p, state, work, owner) ==
  /\ proc[p].run \in used
  /\ proc[p].rec = Named(proc[p].run, state)
  /\ fs.journal = proc[p].rec /\ fs.temp = Absent
  /\ Owned(proc[p].run, work, owner)

Knows(p) ==
  LET at == proc[p].at
      r  == proc[p].rec.run
  IN
  /\ at \in {"idle", "recoverTemp"} => proc[p].run = 0 /\ proc[p].rec = Absent
  /\ at = "tempSync" => proc[p].run = 0 /\ fs.temp = Absent
  /\ at = "recover" =>
       fs.temp = Absent /\ (proc[p].run # 0 => Made(p, "active", "own", "own"))
  /\ at = "rmWork" => Found(p) /\ Owned(r, "own", "own")
  /\ at \in {"workSync", "rmOwner"} => Found(p) /\ Owned(r, "none", "own")
  /\ at \in {"ownerSync", "clear"} => Found(p) /\ Owned(r, "none", "none")
  /\ at \in {"clearSync", "begin"} => fs.journal = Absent /\ fs.temp = Absent
  /\ at = "clearSync" => proc[p].run \in used \cup {0}
  /\ at = "begin" => proc[p].run = 0
  /\ at = "createTemp" => Making(p) /\ fs.temp = Absent
  /\ at = "writeTemp" => Making(p) /\ fs.temp = Torn
  /\ at = "moveTemp" => Making(p) /\ fs.temp = proc[p].rec
  /\ at = "recordSync" => \/ Made(p, "reserved", "none", "none")
                          \/ Made(p, "active", "own", "own")
  /\ at = "createOwner" => Made(p, "reserved", "none", "none")
  /\ at = "writeOwner" => Made(p, "reserved", "none", "torn")
  /\ at \in {"lockOwner", "mkdir"} => Made(p, "reserved", "none", "own")
  /\ at \in {"work", "cleanup"} => Made(p, "active", "own", "own")

WorkspaceInv == WorkspaceTypeOK /\ DiskOK /\ \A p \in Procs : Knows(p)
-----------------------------------------------------------------------------
(***************************************************************************)
(* What all steps have in common.                                          *)
(***************************************************************************)
\* Nobody has done anything yet.  [repair_workspace.rs lock]
LEMMA WorkspaceStart == WorkspaceInit => WorkspaceInv
<1> SUFFICES ASSUME WorkspaceInit PROVE WorkspaceInv
  OBVIOUS
<1> USE DEF WorkspaceInit
<1>1. fs \in Tree
  BY DEF Tree
<1>2. WorkspaceTypeOK
  BY <1>1, WorkspaceAssumption
  DEF WorkspaceTypeOK, NoProcess, Process, Points
<1>3. 0 \notin Runs
  BY WorkspaceAssumption
<1>4. Kept(fs)
  BY <1>3 DEF Kept, RunsOf, Absent, Record, Named
<1>5. \A p \in Procs : Knows(p)
  BY DEF Knows, NoProcess
<1> QED
  BY <1>2, <1>4, <1>5 DEF WorkspaceInv, DiskOK

\* The lock of the output: while one process is at work all others are idle.
LEMMA Alone ==
  ASSUME WorkspaceInv, NEW p \in Procs, proc[p].at # "idle"
  PROVE  lock = p /\ \A q \in Procs \ {p} : proc[q].at = "idle"
BY DEF WorkspaceInv, WorkspaceTypeOK

\* The holder of the lock goes on; s is the directory that it leaves.
LEMMA Goes_On ==
  ASSUME WorkspaceInv, NEW p \in Procs, proc[p].at # "idle",
         NEW s \in Tree, fs' = s, s \in disk', disk' \subseteq disk \cup {s},
         \A t \in disk' : Kept(t)',
         NEW next \in Process, next.at # "idle",
         proc' = [proc EXCEPT ![p] = next], Knows(p)',
         lock' = lock, held' \in [Runs -> Procs \cup {NoProc}],
         used' \subseteq Runs, clean' \subseteq used', touched' = touched,
         touched \subseteq used', faults' = faults
  PROVE  WorkspaceInv'
<1>1. WorkspaceTypeOK'
  BY Alone DEF WorkspaceInv, WorkspaceTypeOK
<1>2. DiskOK'
  BY DEF DiskOK
<1>3. ASSUME NEW q \in Procs, q # p PROVE Knows(q)'
  <2>1. proc'[q] = proc[q] /\ proc[q].at = "idle"
    BY <1>3, Alone DEF WorkspaceInv, WorkspaceTypeOK
  <2> QED
    BY <2>1 DEF WorkspaceInv, Knows
<1> QED
  BY <1>1, <1>2, <1>3 DEF WorkspaceInv

\* The holder of the lock stops, for whatever reason.
LEMMA Ends ==
  ASSUME WorkspaceInv, NEW p \in Procs, proc[p].at # "idle", Stop(p),
         NEW s \in Tree, fs' = s, s \in disk', disk' \subseteq disk \cup {s},
         \A t \in disk' : Kept(t)',
         UNCHANGED <<used, touched>>, clean' \subseteq used,
         faults' \in 0 .. MaxFaults
  PROVE  WorkspaceInv'
<1>1. /\ lock = p /\ lock' = NoProc
      /\ \A q \in Procs : proc'[q].at = "idle" /\ proc'[q].run = 0
                            /\ proc'[q].rec = Absent
  BY Alone DEF WorkspaceInv, WorkspaceTypeOK, Stop, NoProcess, Knows
<1>2. WorkspaceTypeOK'
  BY <1>1, WorkspaceAssumption
  DEF WorkspaceInv, WorkspaceTypeOK, Stop, NoProcess, Process, Points
<1>3. DiskOK'
  BY DEF WorkspaceInv, DiskOK
<1>4. \A q \in Procs : Knows(q)'
  BY <1>1 DEF Knows
<1> QED
  BY <1>2, <1>3, <1>4 DEF WorkspaceInv

\* Histories that stay leave the disk as good as it is.
LEMMA Same ==
  ASSUME UNCHANGED <<used, clean, touched>>, NEW t
  PROVE  Kept(t)' <=> Kept(t)
BY DEF Kept, RunsOf

\* The same, for a step that has no effect on the histories.
LEMMA Changes ==
  ASSUME WorkspaceInv, NEW p \in Procs, proc[p].at # "idle",
         UNCHANGED <<used, clean, touched, faults>>,
         NEW s \in Tree, Kept(s),
         fs' = s, s \in disk', disk' \subseteq disk \cup {s},
         NEW next \in Process, next.at # "idle",
         proc' = [proc EXCEPT ![p] = next], Knows(p)',
         lock' = lock, held' \in [Runs -> Procs \cup {NoProc}]
  PROVE  WorkspaceInv'
<1>1. \A t \in disk' : Kept(t)'
  BY Same DEF WorkspaceInv, DiskOK
<1> QED
  BY <1>1, Goes_On DEF WorkspaceInv, WorkspaceTypeOK, DiskOK

\* A run that gives up changes no directory.  [the ? of each call]
LEMMA Gives_Up ==
  ASSUME WorkspaceInv, NEW p \in Procs, proc[p].at # "idle", Stop(p),
         UNCHANGED <<used, clean, touched>>, faults' \in 0 .. MaxFaults,
         NEW s \in Tree, Kept(s),
         fs' = s, s \in disk', disk' \subseteq disk \cup {s}
  PROVE  WorkspaceInv'
<1>1. \A t \in disk' : Kept(t)'
  BY Same DEF WorkspaceInv, DiskOK
<1> QED
  BY <1>1, Ends DEF WorkspaceInv, WorkspaceTypeOK

-----------------------------------------------------------------------------
(***************************************************************************)
(* The steps.                                                              *)
(***************************************************************************)
LEMMA WorkspaceTypes ==
  ASSUME WorkspaceInv, NEW p \in Procs
  PROVE  /\ fs \in Tree /\ Kept(fs) /\ fs \in disk
         /\ proc \in [Procs -> Process] /\ proc[p] \in Process
         /\ held \in [Runs -> Procs \cup {NoProc}]
         /\ faults \in 0 .. MaxFaults /\ Knows(p) /\ 0 \notin Runs
BY WorkspaceAssumption DEF WorkspaceInv, DiskOK, WorkspaceTypeOK

\* repair_workspace.rs lock
LEMMA LockStep ==
  ASSUME WorkspaceInv, NEW p \in Procs, Lock(p)
  PROVE  WorkspaceInv'
<1>1. /\ UNCHANGED <<fs, disk, used, clean, touched, faults, held>>
      /\ lock = NoProc /\ lock' = p
      /\ proc' = [proc EXCEPT ![p].at = "recoverTemp"]
  BY DEF Lock, Unwritten
<1>2. \A q \in Procs : proc[q].at = "idle" /\ Knows(q)
  BY <1>1, WorkspaceAssumption DEF WorkspaceInv, WorkspaceTypeOK
<1>3. /\ proc'[p] = [proc[p] EXCEPT !.at = "recoverTemp"]
      /\ \A q \in Procs \ {p} : proc'[q] = proc[q]
  BY <1>1 DEF WorkspaceInv, WorkspaceTypeOK
<1>4. WorkspaceTypeOK'
  BY <1>1, <1>2, <1>3, WorkspaceAssumption DEF WorkspaceInv, WorkspaceTypeOK, Process, Points
<1>5. DiskOK'
  BY <1>1, Same DEF WorkspaceInv, DiskOK
<1>6. \A q \in Procs : Knows(q)'
  BY <1>1, <1>2, <1>3, WorkspaceTypes DEF Knows, Process
<1> QED
  BY <1>4, <1>5, <1>6 DEF WorkspaceInv

\* repair_workspace.rs recover_interrupted_journal_write
LEMMA RecoverTempStep ==
  ASSUME WorkspaceInv, NEW p \in Procs, RecoverTemp(p)
  PROVE  WorkspaceInv'
<1> USE WorkspaceTypes DEF AtPoint, Proceeds, Unwritten, Becomes
<1>1. /\ proc[p].at = "recoverTemp" /\ UNCHANGED <<used, clean, touched, faults>>
      /\ proc[p].run = 0 /\ proc[p].rec = Absent
  BY DEF RecoverTemp, Knows
<1>2. CASE fs.temp = Absent /\ Proceeds(p, "recover") /\ Unwritten
  <2> DEFINE next == [proc[p] EXCEPT !.at = "recover"]
  <2>1. next \in Process /\ proc' = [proc EXCEPT ![p] = next]
    BY <1>2 DEF Process, Points
  <2>2. Knows(p)'
    BY <1>1, <1>2 DEF Knows, Process
  <2> QED
    BY <1>1, <1>2, <2>1, <2>2, Changes DEF Process
<1>3. CASE /\ fs.temp \in Record
           /\ fs.journal \in {Absent, fs.temp} \/ Advances(fs.journal, fs.temp)
           /\ Becomes([fs EXCEPT !.journal = fs.temp, !.temp = Absent])
           /\ Proceeds(p, "tempSync")
  <2> DEFINE next == [proc[p] EXCEPT !.at = "tempSync"]
             s == [fs EXCEPT !.journal = fs.temp, !.temp = Absent]
  <2>1. next \in Process /\ proc' = [proc EXCEPT ![p] = next]
    BY <1>3 DEF Process, Points
  <2>2. s \in Tree /\ s.journal = fs.temp /\ s.temp = Absent
        /\ s.work = fs.work /\ s.owner = fs.owner
    BY <1>3 DEF Tree
  <2>3. Kept(s)
    BY <1>3, <2>2 DEF Kept, RunsOf, Record, Absent, Named, Advances, Tree
  <2>4. Knows(p)'
    BY <1>1, <1>3, <2>2 DEF Knows, Process
  <2> HIDE DEF next, s
  <2> QED
    BY <1>1, <1>3, <2>1, <2>2, <2>3, <2>4, Changes DEF Process, next, s
<1>4. CASE Stop(p) /\ Unwritten
  BY <1>1, <1>4, Gives_Up
<1> QED
  BY <1>2, <1>3, <1>4 DEF RecoverTemp

\* A directory sync on the way.
LEMMA SyncSteps ==
  ASSUME WorkspaceInv, NEW p \in Procs,
         SyncTemp(p) \/ SyncWork(p) \/ SyncOwner(p) \/ SyncRecord(p)
  PROVE  WorkspaceInv'
<1> USE WorkspaceTypes DEF AtPoint, Proceeds, Sync
<1>1. PICK at \in {"recover", "rmOwner", "clear", "work", "createOwner"} :
        proc' = [proc EXCEPT ![p].at = at]
  BY DEF SyncTemp, SyncWork, SyncOwner, SyncRecord
<1>2. /\ UNCHANGED <<lock, held, used, clean, touched, faults, fs>>
      /\ disk' = {fs} /\ proc[p].at # "idle"
  BY DEF SyncTemp, SyncWork, SyncOwner, SyncRecord
<1> DEFINE next == [proc[p] EXCEPT !.at = at]
<1>3. /\ next \in Process /\ next.at = at /\ next.run = proc[p].run
      /\ next.rec = proc[p].rec
      /\ proc' = [proc EXCEPT ![p] = next] /\ proc'[p] = next
  BY <1>1 DEF Process, Points
<1>4. Knows(p)'
  <2>1. CASE SyncTemp(p)
    BY <2>1, <1>2, <1>3 DEF SyncTemp, Knows, Process
  <2>2. CASE SyncWork(p)
    BY <2>2, <1>2, <1>3 DEF SyncWork, Knows, Found, Owned, Process
  <2>3. CASE SyncOwner(p)
    BY <2>3, <1>2, <1>3 DEF SyncOwner, Knows, Found, Owned, Process
  <2>4. CASE SyncRecord(p)
    BY <2>4, <1>2, <1>3 DEF SyncRecord, Knows, Made, Named, Owned, Process
  <2> QED
    BY <2>1, <2>2, <2>3, <2>4
<1> HIDE DEF next
<1> QED
  BY <1>1, <1>2, <1>3, <1>4, Changes

\* repair_workspace.rs recover_pending
LEMMA RecoverStep ==
  ASSUME WorkspaceInv, NEW p \in Procs, Recover(p)
  PROVE  WorkspaceInv'
<1> USE WorkspaceTypes DEF AtPoint, Unwritten
<1>1. /\ proc[p].at = "recover"
      /\ UNCHANGED <<fs, disk, used, clean, touched, faults>>
  BY DEF Recover
<1>2. CASE Stop(p)
  BY <1>1, <1>2, Gives_Up
<1>3. CASE fs.journal = Absent /\ proc[p].run = 0 /\ Proceeds(p, "begin")
  <2> DEFINE next == [proc[p] EXCEPT !.at = "begin"]
  <2>1. next \in Process /\ proc' = [proc EXCEPT ![p] = next]
    BY <1>3 DEF Process, Points, Proceeds
  <2>2. Knows(p)'
    BY <1>1, <1>3, <2>1 DEF Knows, Process
  <2> QED
    BY <1>1, <1>3, <2>1, <2>2, Changes DEF Process, Proceeds
<1>4. CASE /\ fs.journal # Absent
           /\ proc[p].run # 0 => fs.journal = proc[p].rec
           /\ Cleaning(fs) # "leave"
           /\ proc' = [proc EXCEPT ![p].at = Cleaning(fs),
                                   ![p].rec = fs.journal]
           /\ held' \in {held, [held EXCEPT ![fs.journal.run] = p]}
           /\ lock' = lock
  <2> DEFINE next == [proc[p] EXCEPT !.at = Cleaning(fs), !.rec = fs.journal]
             r == fs.journal.run
  <2>1. fs.journal \in Record /\ fs.temp = Absent /\ r \in Runs
    BY <1>1, <1>4 DEF Tree, Knows, Record
  <2>2. Cleaning(fs) \in {"rmWork", "rmOwner", "clear"}
    BY <1>4 DEF Cleaning
  <2>3. /\ next \in Process /\ proc' = [proc EXCEPT ![p] = next]
        /\ proc'[p] = next /\ next.at = Cleaning(fs)
        /\ next.run = proc[p].run /\ next.rec = fs.journal
    BY <1>4, <2>1, <2>2 DEF Process, Points
  <2>4. /\ Cleaning(fs) = "rmWork" => Owned(r, "own", "own")
        /\ Cleaning(fs) = "rmOwner" => Owned(r, "none", "own")
        /\ Cleaning(fs) = "clear" => Owned(r, "none", "none")
    BY DEF Cleaning, BoundWork, BoundOwner, Owned
  <2>5. proc[p].run \in {0, r}
    <3>1. proc[p].run # 0 => proc[p].rec = Named(proc[p].run, "active")
      BY <1>1 DEF Knows, Made
    <3> QED
      BY <1>4, <3>1 DEF Named
  <2> HIDE DEF next
  <2>6. Knows(p)'
    <3>1. Found(p)'
      BY <1>1, <2>1, <2>3, <2>5 DEF Found
    <3> QED
      BY <1>1, <2>2, <2>3, <2>4, <3>1 DEF Knows, Owned
  <2>7. held' \in [Runs -> Procs \cup {NoProc}]
    BY <1>4, <2>1
  <2> HIDE DEF r
  <2> QED
    BY <1>1, <1>4, <2>2, <2>3, <2>6, <2>7, Changes
<1> QED
  BY <1>2, <1>3, <1>4 DEF Recover

\* repair_workspace.rs cleanup_active_workspace_with: the directory.
LEMMA RemoveWorkStep ==
  ASSUME WorkspaceInv, NEW p \in Procs, RemoveWork(p)
  PROVE  WorkspaceInv'
<1> USE WorkspaceTypes DEF AtPoint, Proceeds, Becomes
<1> DEFINE r == proc[p].rec.run
           s == [fs EXCEPT !.work[r] = "none"]
           next == [proc[p] EXCEPT !.at = "workSync"]
<1>1. /\ proc[p].at = "rmWork" /\ fs' = s /\ disk' = disk \cup {s}
      /\ UNCHANGED <<used, clean, touched, faults, lock, held>>
  BY DEF RemoveWork
<1>2. /\ next \in Process /\ proc' = [proc EXCEPT ![p] = next]
      /\ proc'[p] = next /\ next.run = proc[p].run /\ next.rec = proc[p].rec
      /\ next.at = "workSync"
  BY DEF RemoveWork, Process, Points
<1>3. Found(p) /\ Owned(r, "own", "own") /\ r \in Runs
  BY <1>1 DEF Knows, Found, Record
<1>4. /\ s \in Tree /\ s.journal = fs.journal /\ s.temp = fs.temp
      /\ s.owner = fs.owner /\ s.work[r] = "none"
      /\ \A k \in Runs \ {r} : s.work[k] = fs.work[k]
  BY <1>3 DEF Tree
<1> HIDE DEF s, next
<1>5. Kept(s)
  BY <1>3, <1>4 DEF Kept, RunsOf, Owned, Found
<1>6. Knows(p)'
  BY <1>1, <1>2, <1>3, <1>4 DEF Knows, Found, Owned
<1> QED
  BY <1>1, <1>2, <1>4, <1>5, <1>6, Changes

\* The same for the owner file; one that is not bound ends the recovery.
LEMMA RemoveOwnerStep ==
  ASSUME WorkspaceInv, NEW p \in Procs, RemoveOwner(p)
  PROVE  WorkspaceInv'
<1> USE WorkspaceTypes DEF AtPoint, Proceeds, Becomes, Unwritten
<1> DEFINE r == proc[p].rec.run
           s == [fs EXCEPT !.owner[r] = "none"]
           next == [proc[p] EXCEPT !.at = "ownerSync"]
<1>1. proc[p].at = "rmOwner" /\ UNCHANGED <<used, clean, touched, faults>>
  BY DEF RemoveOwner
<1>2. CASE UNCHANGED <<fs, disk>> /\ Stop(p)
  BY <1>1, <1>2, Gives_Up
<1>3. CASE /\ fs' = s /\ disk' = disk \cup {s}
           /\ proc' = [proc EXCEPT ![p].at = "ownerSync"]
           /\ UNCHANGED <<lock, held>>
  <2>1. /\ next \in Process /\ proc' = [proc EXCEPT ![p] = next]
        /\ proc'[p] = next /\ next.run = proc[p].run /\ next.rec = proc[p].rec
        /\ next.at = "ownerSync"
    BY <1>3 DEF Process, Points
  <2>2. Found(p) /\ Owned(r, "none", "own") /\ r \in Runs
    BY <1>1 DEF Knows, Found, Record
  <2>3. /\ s \in Tree /\ s.journal = fs.journal /\ s.temp = fs.temp
        /\ s.work = fs.work /\ s.owner[r] = "none"
        /\ \A k \in Runs \ {r} : s.owner[k] = fs.owner[k]
    BY <2>2 DEF Tree
  <2> HIDE DEF s, next
  <2>4. Kept(s)
    BY <2>2, <2>3 DEF Kept, RunsOf, Owned, Found
  <2>5. Knows(p)'
    BY <1>3, <2>1, <2>2, <2>3 DEF Knows, Found, Owned
  <2> QED
    BY <1>1, <1>3, <2>1, <2>3, <2>4, <2>5, Changes
<1> QED
  BY <1>2, <1>3 DEF RemoveOwner

\* repair_workspace.rs clear_journal
LEMMA ClearStep ==
  ASSUME WorkspaceInv, NEW p \in Procs, Clear(p)
  PROVE  WorkspaceInv'
<1> USE WorkspaceTypes DEF AtPoint, Proceeds, Becomes, Unwritten
<1> DEFINE s == [fs EXCEPT !.journal = Absent]
           next == [proc[p] EXCEPT !.at = "clearSync"]
<1>1. /\ proc[p].at = "clear" /\ UNCHANGED <<used, clean, touched, faults>>
      /\ Found(p) /\ Owned(proc[p].rec.run, "none", "none")
  BY DEF Clear, Knows
<1>2. /\ fs' = s /\ disk' = disk \cup {s} /\ UNCHANGED <<lock, held>>
      /\ proc' = [proc EXCEPT ![p].at = "clearSync"]
  BY <1>1 DEF Clear, Found
<1>3. /\ next \in Process /\ proc' = [proc EXCEPT ![p] = next]
      /\ proc'[p] = next /\ next.run = proc[p].run /\ next.rec = proc[p].rec
      /\ next.at = "clearSync"
  BY <1>2 DEF Process, Points
<1>4. /\ s \in Tree /\ s.journal = Absent /\ s.temp = Absent
      /\ s.work = fs.work /\ s.owner = fs.owner
  BY <1>1 DEF Tree, Found
<1>5. \A r \in Runs : r \in RunsOf(fs) => r = proc[p].rec.run
  BY <1>1 DEF Found, RunsOf, Absent
<1> HIDE DEF s, next
<1>6. Kept(s)
  <2>1. \A r \in Runs : r \notin RunsOf(s) /\ Named(r, "active") # Absent
    BY <1>4 DEF RunsOf, Absent, Named
  <2>2. Absent \notin Record
    BY DEF Absent, Record
  <2> QED
    BY <1>1, <1>4, <1>5, <2>1, <2>2 DEF Kept, Owned
<1>7. proc[p].run \in used \cup {0}
  BY <1>1 DEF Found, Kept, RunsOf, Record
<1>8. Knows(p)'
  BY <1>2, <1>3, <1>4, <1>7, <1>1 DEF Knows
<1> QED
  BY <1>1, <1>2, <1>3, <1>4, <1>6, <1>8, Changes

\* clear_journal has returned: the end of a recovery, or of a repair, which now
\* reports that nothing is left.  [repair_workspace.rs cleanup]
LEMMA SyncClearStep ==
  ASSUME WorkspaceInv, NEW p \in Procs, SyncClear(p)
  PROVE  WorkspaceInv'
<1> USE WorkspaceTypes DEF Sync
<1>1. /\ proc[p].at = "clearSync" /\ fs' = fs /\ disk' = {fs}
      /\ UNCHANGED <<used, touched, faults>>
      /\ fs.journal = Absent /\ fs.temp = Absent
      /\ proc[p].run \in used \cup {0}
  BY DEF SyncClear, Knows
<1>2. CASE /\ proc[p].run = 0
           /\ proc' = [proc EXCEPT ![p] = [NoProcess EXCEPT !.at = "begin"]]
           /\ held' = [held EXCEPT ![proc[p].rec.run] = NoProc]
           /\ UNCHANGED <<lock, clean>>
  <2> DEFINE next == [NoProcess EXCEPT !.at = "begin"]
  <2>1. next \in Process /\ next.at = "begin" /\ next.run = 0
        /\ proc' = [proc EXCEPT ![p] = next] /\ proc'[p] = next
    BY <1>2 DEF Process, Points, NoProcess
  <2>2. Knows(p)'
    BY <1>1, <2>1 DEF Knows
  <2> HIDE DEF next
  <2> QED
    BY <1>1, <1>2, <2>1, <2>2, Changes
<1>3. CASE proc[p].run # 0 /\ Stop(p) /\ clean' = clean \cup {proc[p].run}
  <2>1. \A r \in Runs : r \notin RunsOf(fs)
    BY <1>1 DEF RunsOf, Absent
  <2>2. Kept(fs)'
    BY <1>1, <1>3, <2>1 DEF Kept, RunsOf
  <2>3. clean' \subseteq used
    BY <1>1, <1>3 DEF WorkspaceInv, WorkspaceTypeOK
  <2> QED
    BY <1>1, <1>3, <2>2, <2>3, Ends
<1> QED
  BY <1>2, <1>3 DEF SyncClear

\* A repair begins with a name nobody has used, or its source is refused.
\* [repair_workspace.rs begin]
LEMMA BeginStep ==
  ASSUME WorkspaceInv, NEW p \in Procs, Begin(p)
  PROVE  WorkspaceInv'
<1> USE WorkspaceTypes DEF Unwritten
<1>1. /\ proc[p].at = "begin" /\ UNCHANGED <<fs, disk, clean, touched, faults>>
      /\ fs.temp = Absent
  BY DEF Begin, Knows
<1>2. CASE Stop(p) /\ used' = used
  BY <1>1, <1>2, Gives_Up
<1>3. ASSUME NEW r \in Runs \ used, fs.journal = Absent,
             proc' = [proc EXCEPT ![p] = [at |-> "createTemp", run |-> r,
                                          rec |-> Named(r, "reserved")]],
             used' = used \cup {r}, UNCHANGED <<lock, held>>
      PROVE  WorkspaceInv'
  <2> DEFINE next == [at |-> "createTemp", run |-> r,
                      rec |-> Named(r, "reserved")]
  <2>1. next \in Process /\ next.at = "createTemp" /\ next.run = r
        /\ next.rec = Named(r, "reserved")
        /\ proc' = [proc EXCEPT ![p] = next] /\ proc'[p] = next
    BY <1>3 DEF Process, Points, Named, Record
  <2> HIDE DEF next
  <2>2. \A t \in disk : Kept(t)'
    BY <1>1, <1>3 DEF WorkspaceInv, DiskOK, Kept, RunsOf
  <2>3. Owned(r, "none", "none")'
    BY <1>1, <1>3 DEF Kept, Owned
  <2>4. Knows(p)'
    BY <1>1, <1>3, <2>1, <2>3 DEF Knows, Making, Owned, WorkspaceInv, WorkspaceTypeOK
  <2>5. used' \subseteq Runs /\ clean' \subseteq used' /\ touched \subseteq used'
    BY <1>1, <1>3 DEF WorkspaceInv, WorkspaceTypeOK, DiskOK
  <2> QED
    BY <1>1, <1>3, <2>1, <2>2, <2>4, <2>5, Goes_On
<1> QED
  BY <1>2, <1>3 DEF Begin

\* repair_workspace.rs write_new_journal, replace_journal: the temporary name.
LEMMA CreateTempStep ==
  ASSUME WorkspaceInv, NEW p \in Procs, CreateTemp(p)
  PROVE  WorkspaceInv'
<1> USE WorkspaceTypes DEF AtPoint, Proceeds, Becomes, Unwritten
<1> DEFINE s == [fs EXCEPT !.temp = Torn]
           next == [proc[p] EXCEPT !.at = "writeTemp"]
<1>1. /\ proc[p].at = "createTemp" /\ UNCHANGED <<used, clean, touched, faults>>
      /\ Making(p) /\ fs.temp = Absent
  BY DEF CreateTemp, Knows
<1>2. CASE UNCHANGED <<fs, disk>> /\ Stop(p)
  BY <1>1, <1>2, Gives_Up
<1>3. CASE /\ fs' = s /\ disk' = disk \cup {s}
           /\ proc' = [proc EXCEPT ![p].at = "writeTemp"]
           /\ UNCHANGED <<lock, held>>
  <2>1. /\ next \in Process /\ proc' = [proc EXCEPT ![p] = next]
        /\ proc'[p] = next /\ next.run = proc[p].run /\ next.rec = proc[p].rec
        /\ next.at = "writeTemp"
    BY <1>3 DEF Process, Points
  <2>2. /\ s \in Tree /\ s.journal = fs.journal /\ s.temp = Torn
        /\ s.work = fs.work /\ s.owner = fs.owner
    BY DEF Tree
  <2> HIDE DEF s, next
  <2>3. Torn \notin Record /\ Torn.run = 0 /\ \A r \in Runs : Named(r, "active") # Torn
    BY DEF Torn, Record, Named
  <2>4. Kept(s)
    BY <1>1, <2>2, <2>3 DEF Kept, RunsOf, Absent
  <2>5. Knows(p)'
    BY <1>1, <1>3, <2>1, <2>2 DEF Knows, Making, Owned
  <2> QED
    BY <1>1, <1>3, <2>1, <2>2, <2>4, <2>5, Changes
<1> QED
  BY <1>2, <1>3 DEF CreateTemp

\* What a repair makes its record of.
LEMMA RecordMade ==
  ASSUME WorkspaceInv, NEW p \in Procs, Making(p)
  PROVE  /\ proc[p].rec \in Record /\ proc[p].rec # Absent
         /\ proc[p].rec.run = proc[p].run /\ proc[p].run \in Runs
         /\ fs.journal = Absent \/ Advances(fs.journal, proc[p].rec)
         /\ fs.journal # proc[p].rec
         /\ \A k \in Runs : k # proc[p].run => Named(k, "active") # proc[p].rec
         /\ Named(proc[p].run, "active") = proc[p].rec =>
              Owned(proc[p].run, "own", "own")
BY WorkspaceTypes DEF Making, Record, Named, Absent, Advances, WorkspaceInv, WorkspaceTypeOK

\* repair_workspace.rs write_new_journal, replace_journal: the record.
LEMMA WriteTempStep ==
  ASSUME WorkspaceInv, NEW p \in Procs, WriteTemp(p)
  PROVE  WorkspaceInv'
<1> USE WorkspaceTypes DEF AtPoint, Proceeds, Becomes
<1> DEFINE s == [fs EXCEPT !.temp = proc[p].rec]
           next == [proc[p] EXCEPT !.at = "moveTemp"]
<1>1. /\ proc[p].at = "writeTemp" /\ UNCHANGED <<used, clean, touched, faults>>
      /\ Making(p) /\ fs.temp = Torn
      /\ fs' = s /\ disk' = disk \cup {s} /\ UNCHANGED <<lock, held>>
  BY DEF WriteTemp, Knows
<1>2. /\ next \in Process /\ proc' = [proc EXCEPT ![p] = next]
      /\ proc'[p] = next /\ next.run = proc[p].run /\ next.rec = proc[p].rec
      /\ next.at = "moveTemp"
  BY DEF WriteTemp, Process, Points
<1>3. /\ s \in Tree /\ s.journal = fs.journal /\ s.temp = proc[p].rec
      /\ s.work = fs.work /\ s.owner = fs.owner
  BY <1>1, RecordMade DEF Tree
<1> HIDE DEF s, next
<1>4. Kept(s)
  <2>1. proc[p].run \in used \ clean
    BY <1>1 DEF Making
  <2>2. s.journal \in {Absent, s.temp} \/ Advances(s.journal, s.temp)
    BY <1>1, <1>3, RecordMade
  <2>3. \A r \in Runs : r \in RunsOf(s) <=> r \in RunsOf(fs) \/ r = proc[p].run
    BY <1>1, <1>3, RecordMade DEF RunsOf, Torn
  <2>4. \A r \in Runs : Named(r, "active") \in {s.journal, s.temp} =>
          Named(r, "active") \in {fs.journal, fs.temp} \/ Owned(r, "own", "own")
    BY <1>1, <1>3, RecordMade
  <2> QED
    BY <1>3, <2>1, <2>2, <2>3, <2>4, Zenon DEF Kept, Owned
<1>5. Knows(p)'
  BY <1>1, <1>2, <1>3 DEF Knows, Making, Owned
<1> QED
  BY <1>1, <1>2, <1>3, <1>4, <1>5, Changes

\* repair_workspace.rs write_new_journal, replace_journal: the rename.
LEMMA MoveTempStep ==
  ASSUME WorkspaceInv, NEW p \in Procs, MoveTemp(p)
  PROVE  WorkspaceInv'
<1> USE WorkspaceTypes DEF AtPoint, Proceeds, Becomes
<1> DEFINE s == [fs EXCEPT !.journal = fs.temp, !.temp = Absent]
           next == [proc[p] EXCEPT !.at = "recordSync"]
<1>1. /\ proc[p].at = "moveTemp" /\ UNCHANGED <<used, clean, touched, faults>>
      /\ Making(p) /\ fs.temp = proc[p].rec
  BY DEF MoveTemp, Knows
<1>2. /\ fs' = s /\ disk' = disk \cup {s} /\ UNCHANGED <<lock, held>>
      /\ proc' = [proc EXCEPT ![p].at = "recordSync"]
  <2>1. proc[p].rec.state = "active" \/ fs.journal = Absent
    BY <1>1 DEF Making, Named
  <2> QED
    BY <2>1 DEF MoveTemp
<1>3. /\ next \in Process /\ proc' = [proc EXCEPT ![p] = next]
      /\ proc'[p] = next /\ next.run = proc[p].run /\ next.rec = proc[p].rec
      /\ next.at = "recordSync"
  BY <1>2 DEF Process, Points
<1>4. /\ s \in Tree /\ s.journal = proc[p].rec /\ s.temp = Absent
      /\ s.work = fs.work /\ s.owner = fs.owner
  BY <1>1, RecordMade DEF Tree
<1> HIDE DEF s, next
<1>5. Kept(s)
  <2>1. Absent \notin Record /\ \A r \in Runs : Named(r, "active") # Absent
    BY DEF Absent, Record, Named
  <2>2. \A r \in Runs : r \in RunsOf(s) <=> r \in RunsOf(fs)
    BY <1>1, <1>4, RecordMade DEF RunsOf, Absent, Advances
  <2> QED
    BY <1>1, <1>4, <2>1, <2>2 DEF Kept
<1>6. Knows(p)'
  BY <1>1, <1>2, <1>3, <1>4 DEF Knows, Making, Made, Owned
<1> QED
  BY <1>1, <1>2, <1>3, <1>4, <1>5, <1>6, Changes

\* repair_workspace.rs create_owner: the file, and its token.
LEMMA OwnerSteps ==
  ASSUME WorkspaceInv, NEW p \in Procs, CreateOwner(p) \/ WriteOwner(p)
  PROVE  WorkspaceInv'
<1> USE WorkspaceTypes DEF AtPoint, Proceeds, Becomes
<1> DEFINE r == proc[p].run
<1>1. PICK owner \in {"torn", "own"}, at \in {"writeOwner", "lockOwner"} :
        /\ fs' = [fs EXCEPT !.owner[r] = owner]
        /\ disk' = disk \cup {fs'}
        /\ proc' = [proc EXCEPT ![p].at = at]
        /\ at = "writeOwner" <=> owner = "torn"
  BY DEF CreateOwner, WriteOwner
<1>2. /\ UNCHANGED <<used, clean, touched, faults, lock, held>>
      /\ proc[p].at \in {"createOwner", "writeOwner"}
      /\ \E old \in {"none", "torn"} : Made(p, "reserved", "none", old)
  BY DEF CreateOwner, WriteOwner, Knows
<1> DEFINE s == [fs EXCEPT !.owner[r] = owner]
           next == [proc[p] EXCEPT !.at = at]
<1>3. /\ next \in Process /\ proc' = [proc EXCEPT ![p] = next]
      /\ proc'[p] = next /\ next.run = r /\ next.rec = proc[p].rec
      /\ next.at = at
  BY <1>1 DEF Process, Points
<1>4. r \in used /\ r \in Runs
  BY <1>2 DEF Made, WorkspaceInv, WorkspaceTypeOK
<1>5. /\ s \in Tree /\ s.journal = fs.journal /\ s.temp = fs.temp
      /\ s.work = fs.work /\ s.owner[r] = owner
      /\ \A k \in Runs \ {r} : s.owner[k] = fs.owner[k]
  BY <1>1, <1>4 DEF Tree
<1>6. fs' = s /\ disk' = disk \cup {s}
  BY <1>1
<1> HIDE DEF s, next
<1>7. Kept(s)
  <2>1. /\ r \in RunsOf(fs) /\ s.work[r] = "none"
        /\ Named(r, "active") \notin {s.journal, s.temp}
    BY <1>2, <1>5 DEF Made, Named, RunsOf, Absent, Owned
  <2>2. RunsOf(s) = RunsOf(fs)
    BY <1>5 DEF RunsOf
  <2>3. r \notin clean
    BY <2>1, <1>4 DEF Kept
  <2> QED
    BY <1>1, <1>4, <1>5, <2>1, <2>2, <2>3 DEF Kept
<1>8. Knows(p)'
  <2>1. Made(p, "reserved", "none", owner)'
    BY <1>2, <1>3, <1>5, <1>6 DEF Made, Owned
  <2> QED
    BY <1>1, <1>3, <2>1 DEF Knows
<1> HIDE DEF r
<1> QED
  BY <1>1, <1>2, <1>3, <1>5, <1>6, <1>7, <1>8, Changes

\* repair_workspace.rs begin, work and cleanup: steps that take or drop a
\* handle.
LEMMA HandleSteps ==
  ASSUME WorkspaceInv, NEW p \in Procs, LockOwner(p) \/ Work(p) \/ CleanUp(p)
  PROVE  WorkspaceInv'
<1> USE WorkspaceTypes DEF AtPoint, Proceeds, Unwritten
<1>1. PICK at \in {"mkdir", "cleanup", "recover"} :
        /\ proc' = [proc EXCEPT ![p].at = at]
        /\ at = "mkdir" <=> LockOwner(p)
        /\ at = "cleanup" <=> Work(p)
  BY DEF LockOwner, Work, CleanUp
<1>2. /\ UNCHANGED <<fs, disk, used, clean, touched, faults, lock>>
      /\ proc[p].at \in {"lockOwner", "work", "cleanup"}
      /\ at = "mkdir" <=> proc[p].at = "lockOwner"
  BY <1>1 DEF LockOwner, Work, CleanUp
<1>3. proc[p].run \in Runs /\ held' \in [Runs -> Procs \cup {NoProc}]
  BY <1>2 DEF Knows, Made, WorkspaceInv, WorkspaceTypeOK, LockOwner, Work, CleanUp
<1> DEFINE next == [proc[p] EXCEPT !.at = at]
<1>4. /\ next \in Process /\ proc' = [proc EXCEPT ![p] = next]
      /\ proc'[p] = next /\ next.run = proc[p].run /\ next.rec = proc[p].rec
      /\ next.at = at
  BY <1>1 DEF Process, Points
<1> HIDE DEF next
<1>5. Knows(p)'
  BY <1>1, <1>2, <1>4 DEF Knows, Made, Owned
<1> QED
  BY <1>1, <1>2, <1>3, <1>4, <1>5, Changes

\* repair_workspace.rs create_workspace_directory: the workspace; its record is
\* next.
LEMMA MakeWorkStep ==
  ASSUME WorkspaceInv, NEW p \in Procs, MakeWork(p)
  PROVE  WorkspaceInv'
<1> USE WorkspaceTypes DEF AtPoint, Becomes
<1> DEFINE r == proc[p].run
           s == [fs EXCEPT !.work[r] = "own"]
           next == [proc[p] EXCEPT !.at = "createTemp",
                                   !.rec = Named(r, "active")]
<1>1. /\ proc[p].at = "mkdir" /\ UNCHANGED <<used, clean, touched, faults>>
      /\ fs' = s /\ disk' = disk \cup {s} /\ UNCHANGED <<lock, held>>
      /\ Made(p, "reserved", "none", "own")
  BY DEF MakeWork, Knows
<1>2. r \in used /\ r \in Runs /\ r \in RunsOf(fs) /\ r \notin clean
  <2>1. r \in used /\ r \in Runs
    BY <1>1 DEF Made, WorkspaceInv, WorkspaceTypeOK
  <2>2. r \in RunsOf(fs)
    BY <1>1 DEF Made, RunsOf, Named
  <2> QED
    BY <2>1, <2>2 DEF Kept
<1>3. /\ next \in Process /\ proc' = [proc EXCEPT ![p] = next]
      /\ proc'[p] = next /\ next.run = r /\ next.rec = Named(r, "active")
      /\ next.at = "createTemp"
  BY <1>2 DEF MakeWork, Process, Points, Named, Record
<1>4. /\ s \in Tree /\ s.journal = fs.journal /\ s.temp = fs.temp
      /\ s.owner = fs.owner /\ s.work[r] = "own"
      /\ \A k \in Runs \ {r} : s.work[k] = fs.work[k]
  BY <1>2 DEF Tree
<1> HIDE DEF s, next
<1>5. Kept(s)
  BY <1>1, <1>2, <1>4 DEF Kept, RunsOf, Made, Owned
<1>6. Knows(p)'
  BY <1>1, <1>2, <1>3, <1>4 DEF Knows, Making, Made, Owned
<1> HIDE DEF r
<1> QED
  BY <1>1, <1>3, <1>4, <1>5, <1>6, Changes

\* A call fails, or the process dies: what it has begun is left as it is, or
\* without the temporary record.
LEMMA FailStep ==
  ASSUME WorkspaceInv, NEW p \in Procs, Fail(p) \/ Die(p)
  PROVE  WorkspaceInv'
<1> USE WorkspaceTypes DEF Fault, Unwritten, Becomes
<1>1. /\ proc[p].at # "idle" /\ Stop(p) /\ UNCHANGED <<used, clean, touched>>
      /\ faults' \in 0 .. MaxFaults
  BY WorkspaceAssumption DEF Fail, Die
<1>2. CASE UNCHANGED <<fs, disk>>
  BY <1>1, <1>2, Gives_Up
<1>3. CASE /\ proc[p].at \in {"writeTemp", "moveTemp"}
           /\ proc[p].at = "moveTemp" => proc[p].rec.state = "reserved"
           /\ fs' = [fs EXCEPT !.temp = Absent]
           /\ disk' = disk \cup {fs'}
  <2> DEFINE s == [fs EXCEPT !.temp = Absent]
  <2>1. /\ s \in Tree /\ s.journal = fs.journal /\ s.temp = Absent
        /\ s.work = fs.work /\ s.owner = fs.owner
    BY DEF Tree
  <2> HIDE DEF s
  <2>2. Making(p) /\ (fs.temp = Torn \/ (fs.temp = proc[p].rec
                                          /\ proc[p].rec.state = "reserved"))
    BY <1>3 DEF Knows
  <2>3. Absent \notin Record /\ \A r \in Runs : Named(r, "active") # Absent
    BY DEF Absent, Record, Named
  <2>4. \A r \in Runs \ {proc[p].run} : r \in RunsOf(s) <=> r \in RunsOf(fs)
    BY <2>1, <2>2, RecordMade DEF RunsOf, Torn, Absent
  <2>5. \/ proc[p].run \in RunsOf(s)
        \/ Owned(proc[p].run, "none", "none")
    BY <2>1, <2>2 DEF RunsOf, Making, Named
  <2>6. proc[p].run \in used \ clean
    BY <2>2 DEF Making
  <2>7. Kept(s)
    BY <2>1, <2>3, <2>4, <2>5, <2>6 DEF Kept, Owned
  <2> QED
    BY <1>1, <1>3, <2>1, <2>7, Gives_Up DEF s
<1> QED
  BY <1>1, <1>2, <1>3 DEF Fail, Die

\* All processes are gone, and the directory is one of those the disk may hold.
LEMMA PowerLossStep ==
  ASSUME WorkspaceInv, PowerLoss
  PROVE  WorkspaceInv'
<1>1. /\ fs' \in disk /\ disk' = {fs'} /\ UNCHANGED <<used, clean, touched>>
      /\ proc' = [p \in Procs |-> NoProcess] /\ lock' = NoProc
      /\ held' = [r \in Runs |-> NoProc] /\ faults' \in 0 .. MaxFaults
  BY WorkspaceAssumption DEF PowerLoss, Fault, WorkspaceInv, WorkspaceTypeOK
<1>2. WorkspaceTypeOK'
  BY <1>1, WorkspaceAssumption
  DEF WorkspaceInv, WorkspaceTypeOK, NoProcess, Process, Points
<1>3. DiskOK'
  BY <1>1, Same DEF WorkspaceInv, DiskOK
<1>4. \A p \in Procs : Knows(p)'
  BY <1>1 DEF Knows, NoProcess
<1> QED
  BY <1>2, <1>3, <1>4 DEF WorkspaceInv

\* Somebody changes what is left behind, while no repair runs.
LEMMA ForeignStep ==
  ASSUME WorkspaceInv, Interference
  PROVE  WorkspaceInv'
<1> USE DEF Becomes
<1>1. PICK r \in Runs, new \in {"none", "other"} :
        /\ touched' = touched \cup {r}
        /\ \/ fs.work[r] # "none" /\ fs' = [fs EXCEPT !.work[r] = new]
           \/ fs.owner[r] # "none" /\ fs' = [fs EXCEPT !.owner[r] = new]
        /\ disk' = disk \cup {fs'}
  BY DEF Interference
<1>2. /\ UNCHANGED <<lock, held, proc, used, clean>> /\ lock = NoProc
      /\ faults' \in 0 .. MaxFaults
      /\ fs \in Tree /\ fs \in disk /\ Kept(fs)
  BY WorkspaceAssumption DEF Interference, Fault, WorkspaceInv, WorkspaceTypeOK, DiskOK
<1>3. /\ fs' \in Tree /\ fs'.journal = fs.journal /\ fs'.temp = fs.temp
      /\ fs'.work[r] \in {fs.work[r], "none", "other"}
      /\ fs'.owner[r] \in {fs.owner[r], "none", "other"}
      /\ \A k \in Runs \ {r} : fs'.work[k] = fs.work[k]
                               /\ fs'.owner[k] = fs.owner[k]
  <2>1. CASE fs' = [fs EXCEPT !.work[r] = new]
    BY <1>2, <2>1 DEF Tree
  <2>2. CASE fs' = [fs EXCEPT !.owner[r] = new]
    BY <1>2, <2>2 DEF Tree
  <2> QED
    BY <1>1, <2>1, <2>2
<1>4. r \in used /\ touched \subseteq touched'
  BY <1>1, <1>2 DEF Kept
<1>5. \A t \in disk : Kept(t)'
  <2> SUFFICES ASSUME NEW t \in disk PROVE Kept(t)'
    OBVIOUS
  <2>1. Kept(t)
    BY DEF WorkspaceInv, DiskOK
  <2> QED
    BY <1>2, <1>4, <2>1 DEF Kept, RunsOf
<1>6. Kept(fs)'
  BY <1>1, <1>2, <1>3, <1>4 DEF Kept, RunsOf
<1>7. DiskOK'
  BY <1>1, <1>2, <1>4, <1>5, <1>6 DEF WorkspaceInv, DiskOK
<1>8. WorkspaceTypeOK'
  BY <1>1, <1>2, <1>3, <1>7 DEF WorkspaceInv, WorkspaceTypeOK
<1>9. \A p \in Procs : Knows(p)'
  <2>1. \A p \in Procs : proc[p].at = "idle" /\ Knows(p)
    BY <1>2, WorkspaceAssumption DEF WorkspaceInv, WorkspaceTypeOK
  <2> QED
    BY <1>2, <2>1 DEF Knows
<1> QED
  BY <1>7, <1>8, <1>9 DEF WorkspaceInv

-----------------------------------------------------------------------------
(***************************************************************************)
(* The theorems.                                                           *)
(***************************************************************************)
LEMMA Inductive == WorkspaceInv /\ [WorkspaceNext]_workspaceVars => WorkspaceInv'
<1> SUFFICES ASSUME WorkspaceInv, [WorkspaceNext]_workspaceVars PROVE WorkspaceInv'
  OBVIOUS
<1>1. ASSUME NEW p \in Procs, StepOf(p) PROVE WorkspaceInv'
  BY <1>1, LockStep, RecoverTempStep, SyncSteps, RecoverStep, RemoveWorkStep,
     RemoveOwnerStep, ClearStep, SyncClearStep, BeginStep, CreateTempStep,
     WriteTempStep, MoveTempStep, OwnerSteps, HandleSteps, MakeWorkStep
  DEF StepOf
<1>2. CASE UNCHANGED workspaceVars
  <2>1. WorkspaceTypeOK'
    BY <1>2 DEF WorkspaceInv, WorkspaceTypeOK, workspaceVars
  <2>2. DiskOK'
    BY <1>2, Same DEF WorkspaceInv, DiskOK, workspaceVars
  <2>3. ASSUME NEW p \in Procs PROVE Knows(p)'
    BY <1>2 DEF WorkspaceInv, Knows, Found, Making, Made, Owned, workspaceVars
  <2> QED
    BY <2>1, <2>2, <2>3 DEF WorkspaceInv
<1> QED
  BY <1>1, <1>2, FailStep, PowerLossStep, ForeignStep DEF WorkspaceNext

\* Every variable keeps its type, and the lock of the output excludes: whoever
\* is at work holds it.  [repair_workspace.rs lock]
THEOREM WorkspaceTypeCorrect == WorkspaceSpec => []WorkspaceTypeOK
<1>1. WorkspaceInv => WorkspaceTypeOK
  BY DEF WorkspaceInv
<1> QED
  BY <1>1, WorkspaceStart, Inductive, PTL DEF WorkspaceSpec

\* What is true of every tree makes that of the disk finishable.
LEMMA Finishes ==
  ASSUME NEW s \in Tree, Kept(s), \A r \in Runs : r \in touched => r \in used
  PROVE  Finishable(s)
<1> DEFINE t == IF s.temp \in Record THEN s.temp ELSE s.journal
           at == [s EXCEPT !.journal = t]
           r == t.run
<1>1. s.temp \in Record => \/ s.journal \in {Absent, s.temp}
                           \/ Advances(s.journal, s.temp)
  BY DEF Kept
<1>2. ASSUME t # Absent, r \notin touched, Cleaning(at) = "leave"
      PROVE  t.state = "reserved" /\ (s.work[r] = "own" \/ s.owner[r] = "torn")
  <2>1. t \in Record /\ r \in Runs /\ t \in {s.journal, s.temp}
    BY <1>2 DEF Tree, Record
  <2>2. at.journal = t /\ at.work = s.work /\ at.owner = s.owner
    BY DEF Tree
  <2>3. s.work[r] \in {"none", "own"} /\ s.owner[r] \in {"none", "torn", "own"}
    BY <1>2, <2>1 DEF Kept, Tree
  <2> HIDE DEF at, t
  <2>4. \/ s.work[r] = "own" /\ ~(t.state = "active" /\ s.owner[r] = "own")
        \/ s.work[r] = "none" /\ s.owner[r] = "torn"
    BY <1>2, <2>2, <2>3 DEF Cleaning, BoundWork, BoundOwner
  <2>5. CASE t.state = "active"
    <3>1. t = Named(r, "active")
      BY <2>1, <2>5 DEF Record, Named
    <3>2. s.owner[r] # "torn" /\ (s.work[r] = "own" => s.owner[r] = "own")
      <4> HIDE DEF r
      <4> QED
        BY <1>2, <2>1, <3>1 DEF Kept
    <3> QED
      BY <2>4, <2>5, <3>2
  <2>6. CASE t.state = "reserved"
    BY <2>4, <2>6
  <2>7. t.state \in {"reserved", "active"}
    BY <2>1 DEF Record
  <2> QED
    BY <2>5, <2>6, <2>7
<1> HIDE DEF t
<1> QED
  BY <1>1, <1>2 DEF Finishable, t

\* No copy of an archive is forgotten: whatever directory a crash leaves, at
\* any moment of any repair, every private copy in it is named by a record, the
\* next repair finishes what the records name unless it is one of the two known
\* cases, and nothing remains of what was reported clean.
\* [repair_workspace.rs begin, cleanup_active_workspace_with]
THEOREM CopiesAreRemembered == WorkspaceSpec => []NothingForgotten
<1>1. ASSUME WorkspaceInv PROVE NothingForgotten
  <2> SUFFICES ASSUME NEW s \in disk
               PROVE  Recorded(s) /\ Finishable(s) /\ Gone(s)
    BY DEF NothingForgotten
  <2>1. s \in Tree /\ Kept(s) /\ clean \subseteq Runs
    BY <1>1 DEF WorkspaceInv, WorkspaceTypeOK, DiskOK
  <2>2. Finishable(s)
    BY <1>1, <2>1, Finishes DEF WorkspaceInv, DiskOK
  <2>3. Recorded(s) /\ Gone(s)
    BY <2>1 DEF Kept, Recorded, Gone, RunsOf
  <2> QED
    BY <2>2, <2>3
<1> QED
  BY <1>1, WorkspaceStart, Inductive, PTL DEF WorkspaceSpec

\* A step of the program leaves alone what somebody has put in the place of a
\* workspace or of its owner file, whatever the records say.
\* [repair_workspace.rs open_bound_workspace, cleanup_owner_and_journal]
LEMMA Leaves ==
  ASSUME WorkspaceInv, NEW p \in Procs, StepOf(p), NEW r \in Runs
  PROVE  /\ fs.work[r] = "other" => fs'.work[r] = "other"
         /\ fs.owner[r] = "other" => fs'.owner[r] = "other"
<1> USE WorkspaceTypes DEF AtPoint, Becomes, Sync, Unwritten
<1>1. CASE UNCHANGED fs
  BY <1>1
<1>2. CASE RecoverTemp(p) \/ Clear(p) \/ CreateTemp(p) \/ WriteTemp(p)
           \/ MoveTemp(p)
  <2>1. fs'.work = fs.work /\ fs'.owner = fs.owner
    BY <1>2 DEF RecoverTemp, Clear, CreateTemp, WriteTemp, MoveTemp, Tree
  <2> QED
    BY <2>1
<1>3. CASE RemoveWork(p)
  <2>1. fs.work[proc[p].rec.run] = "own" /\ proc[p].rec.run \in Runs
    BY <1>3 DEF RemoveWork, Knows, Found, Record, Owned
  <2> QED
    BY <1>3, <2>1 DEF RemoveWork, Tree
<1>4. CASE RemoveOwner(p)
  <2>1. fs.owner[proc[p].rec.run] = "own" \/ UNCHANGED fs
    BY <1>4 DEF RemoveOwner, BoundOwner
  <2> QED
    BY <1>4, <2>1 DEF RemoveOwner, Tree
<1>5. CASE CreateOwner(p) \/ WriteOwner(p) \/ MakeWork(p)
  <2>1. /\ fs.work[proc[p].run] = "none"
        /\ fs.owner[proc[p].run] \in {"none", "torn"} \/ MakeWork(p)
    BY <1>5 DEF CreateOwner, WriteOwner, MakeWork, Knows, Made, Owned
  <2> QED
    BY <1>5, <2>1 DEF CreateOwner, WriteOwner, MakeWork, Tree
<1> QED
  BY <1>1, <1>2, <1>3, <1>4, <1>5
  DEF StepOf, Lock, SyncTemp, Recover, SyncWork, SyncOwner, SyncClear, Begin,
      SyncRecord, LockOwner, Work, CleanUp

\* A path that somebody has put in the place of a workspace or of its owner is
\* never removed or overwritten by a repair.
\* [repair_workspace.rs: "no unbound path was removed"]
THEOREM ForeignStays == WorkspaceSpec => LeftUntouched
<1>1. ASSUME WorkspaceInv, [WorkspaceNext]_workspaceVars, NEW r \in Runs
      PROVE  /\ fs.work[r] = "other" /\ fs'.work[r] # "other" => faults' # faults
             /\ fs.owner[r] = "other" /\ fs'.owner[r] # "other" => faults' # faults
  <2>1. CASE \E p \in Procs : StepOf(p)
    BY <1>1, <2>1, Leaves
  <2>2. CASE Fault
    BY <1>1, <2>2 DEF Fault, WorkspaceInv, WorkspaceTypeOK
  <2>3. CASE UNCHANGED workspaceVars
    BY <2>3 DEF workspaceVars
  <2> QED
    BY <1>1, <2>1, <2>2, <2>3 DEF WorkspaceNext, Fail, Die, PowerLoss, Interference
<1>2. WorkspaceInv /\ [WorkspaceNext]_workspaceVars =>
        [\A r \in Runs :
           /\ fs.work[r] = "other" /\ fs'.work[r] # "other" => faults' # faults
           /\ fs.owner[r] = "other" /\ fs'.owner[r] # "other" => faults' # faults
        ]_workspaceVars
  BY <1>1
<1> QED
  BY <1>2, WorkspaceStart, Inductive, PTL DEF WorkspaceSpec, LeftUntouched
=============================================================================
