----------------------------- MODULE Extraction -----------------------------
(***************************************************************************)
(* The shared extraction engine: crates/squallz-format-api, src/extract.rs *)
(* and src/links.rs.                                                       *)
(*                                                                         *)
(* Two drivers feed an ExtractSink.  extract_entries looks at the list of  *)
(* entries first and can read any of them again; the readers of streams    *)
(* (tar, solid 7z) see every entry once, in order.  For each entry the     *)
(* sink looks at the destination, may ask the user, writes the content     *)
(* under a private name beside the destination and commits it there, by a  *)
(* rename when it may replace and otherwise by a call that fails when the  *)
(* name is taken.  Other programs may change the destination between any   *)
(* two of these steps.                                                     *)
(*                                                                         *)
(* The entries are in one directory; sanitizing paths, directories on the  *)
(* way, limits and cancellation appear as refusals, which may come at any  *)
(* step.                                                                   *)
(***************************************************************************)
EXTENDS Integers, FiniteSets, Sequences

CONSTANTS Paths,          \* paths of entries
          Archives,       \* archives: sequences of entries
          Overwrites,     \* the values of OverwritePolicy that are tried
          Symlinks,       \* the values of SymlinkPolicy that are tried
          None,           \* no file, and no name
          MaxCopies,      \* bound: numbered siblings of a name
          MaxForeign      \* bound: changes by other programs

(***************************************************************************)
(* An entry: EntryMeta, with the path a link points to.                    *)
(***************************************************************************)
Types   == {"File", "Dir", "Symlink", "Hardlink", "Other"}
Entries == [path : Paths, type : Types, to : Paths \cup {None}]

\* A path, and its numbered siblings.
Names   == Paths \X (0 .. MaxCopies)
Own(p)  == <<p, 0>>
Copies(p) == {p} \X (1 .. MaxCopies)

\* A file is told from others by what made it: an entry, by its number, or the
\* user before (0), or another program (-1); `data` is whose content it has.
Before  == 0
Foreign == -1
Indices == Nat \ {0}
Nodes == [by : Indices \cup {Before, Foreign}, name : Names,
          kind : {"file", "link", "dir", "hole"},
          data : Indices \cup {Before, Foreign}]
Slot == Nodes \cup {None}
Foreigner(n) == [by |-> Foreign, name |-> n, kind |-> "file", data |-> Foreign]

\* What is made of an entry: a file of its content, a hard link, a copy of
\* what was extracted before, a symbolic link.
Whats == {"content", "hard", "copy", "sym"}
Job == [what : Whats, out : Names, replace : BOOLEAN,
        how : {"created", "replaced", "renamed"},
        src : Names \cup {None}, data : Indices, file : Slot]
NoJob == None

ASSUME ExtractionAssumption ==
  /\ Archives \subseteq Seq(Entries)
  /\ Overwrites \subseteq {"Overwrite", "Skip", "RenameBoth", "Ask"}
  /\ Symlinks \subseteq {"Preserve", "Follow", "Skip"}
  /\ None \notin Paths \cup Names \cup Nodes \cup Job
  /\ {MaxCopies, MaxForeign} \subseteq Nat

VARIABLES
  archive, driver, overwrite, symlinks, bestEffort, hasLinks,  \* what is given
  before,      \* names that were taken when the run began
  dir,         \* the destination: name -> file
  pc,          \* where the driver is
  entry,       \* number of the entry in work
  job,         \* what is being made of it
  made,        \* path -> name of the file made of it (materialized_files,
               \* and `extracted` of extract_entries)
  report,      \* ExtractReport
  left,        \* files that stay under private names
  agreed,      \* history: names the user lets be replaced
  foreign,     \* history: names other programs have changed
  links        \* history: files that links were made from, with their data

given == <<archive, driver, overwrite, symlinks, bestEffort, hasLinks,
           before>>
vars == <<given, dir, pc, entry, job, made, report, left, agreed, foreign,
          links>>

Counts == {"created", "directories", "skipped", "replaced", "renamed",
           "failed"}

TypeOK ==
  /\ dir \in [Names -> Slot]
  /\ pc \in {"look", "ask", "write", "commit", "rename", "done", "failed"}
  /\ entry \in 1 .. Len(archive) + 1
  /\ job = NoJob \/ job \in Job
  /\ (job = NoJob) <=> (pc \in {"look", "done", "failed"})
  /\ made \in [Paths -> Names \cup {None}]
  /\ report \in [Counts -> Nat]
  /\ left \subseteq Nodes /\ links \subseteq Nodes
  /\ agreed \subseteq Names /\ foreign \subseteq Names
  /\ \A n \in Names :
       (dir[n] # None /\ dir[n].kind = "hole") => pc = "rename"

There == {f \in [Paths -> {"nothing", "file", "dir", "link"}] :
            Cardinality({p \in Paths : f[p] # "nothing"}) <= 1}

Init ==
  /\ archive \in Archives
  /\ driver \in {"stream", "listed"}
  /\ overwrite \in Overwrites /\ symlinks \in Symlinks
  /\ bestEffort \in BOOLEAN /\ hasLinks \in BOOLEAN
  /\ \E f \in There :
       dir = [n \in Names |->
                IF n[2] # 0 \/ f[n[1]] = "nothing" THEN None
                ELSE [by |-> Before, name |-> n, kind |-> f[n[1]],
                      data |-> Before]]
  /\ before = {n \in Names : dir[n] # None}
  /\ pc = "look" /\ entry = 1 /\ job = NoJob
  /\ made = [p \in Paths |-> None]
  /\ report = [c \in Counts |-> 0]
  /\ left = {} /\ links = {}
  /\ agreed = IF overwrite = "Overwrite" THEN Names ELSE {}
  /\ foreign = {}

-----------------------------------------------------------------------------
(***************************************************************************)
(* LinkResolver: the entry a link comes to, or none.  Of entries with one  *)
(* path the last one counts.                                               *)
(***************************************************************************)
Entry == archive[entry]
LastAt(p) ==
  LET at == {i \in 1 .. Len(archive) : archive[i].path = p}
  IN  IF at = {} THEN 0 ELSE CHOOSE i \in at : \A k \in at : k <= i

\* A chain has no more links than there are paths; a longer one is a cycle.
Follow(e) ==
  LET hop[k \in 0 .. Cardinality(Paths)] ==
        IF k = 0 THEN LastAt(e.to)
        ELSE LET i == hop[k - 1]
             IN  IF i # 0 /\ archive[i].type \in {"Symlink", "Hardlink"}
                   THEN LastAt(archive[i].to) ELSE i
      end == hop[Cardinality(Paths)]
  IN  IF end \in 1 .. Len(archive) /\ archive[end].type = "File" THEN end
      ELSE 0

-----------------------------------------------------------------------------
(***************************************************************************)
(* Building blocks.                                                        *)
(***************************************************************************)
At(point) == pc = point /\ UNCHANGED <<given, foreign>>

CountsAs(count) ==
  /\ report' = [report EXCEPT ![count] = @ + 1]
  /\ entry' = entry + 1 /\ pc' = "look" /\ job' = NoJob

Skips == CountsAs("skipped") /\ UNCHANGED <<dir, made, left, agreed, links>>

\* An error ends the run; what is staged is dropped.
Fails ==
  /\ pc' = "failed" /\ job' = NoJob
  /\ UNCHANGED <<dir, entry, made, report, left, agreed, links>>

Goes(point, j) ==
  /\ pc' = point /\ job' = j
  /\ UNCHANGED <<dir, entry, made, report, left, links>>

-----------------------------------------------------------------------------
(***************************************************************************)
(* What is to be made of an entry: admission, and file_target,             *)
(* write_meta_entry or the links of extract_entries.                       *)
(***************************************************************************)
Make(what, src, data) ==
  [what |-> what, out |-> Own(Entry.path), replace |-> FALSE,
   how |-> "created", src |-> src, data |-> data, file |-> None]
Into(j, out, replace, how) ==
  [j EXCEPT !.out = out, !.replace = replace, !.how = how]
Replacing(j) == Into(j, j.out, TRUE, "replaced")

\* resolve_conflict_path up to the question.
Resolve(j) ==
  LET free == {n \in Copies(Entry.path) : dir[n] = None}
  IN  \/ /\ dir[j.out] = None
         /\ Goes("write", Into(j, j.out, overwrite = "Overwrite", "created"))
         /\ UNCHANGED agreed
      \/ /\ dir[j.out] # None /\ UNCHANGED agreed
         /\ \/ overwrite = "Overwrite" /\ Goes("write", Replacing(j))
            \/ overwrite = "Ask" /\ Goes("ask", j)
            \/ /\ overwrite = "RenameBoth" /\ free # {}
               /\ LET first == CHOOSE n \in free : \A m \in free : n[2] <= m[2]
                  IN  Goes("write", Into(j, first, FALSE, "renamed"))
      \/ dir[j.out] # None /\ overwrite = "Skip" /\ Skips

\* Mutant: a link is made from what is at its target's path.
Source_AnyFile(p) == Own(p)

\* What this run has made of the path; a file that was there does not count.
Source(p) == made[p]

\* link_from_disk: a source that is gone or no file any more is skipped, and
\* one that has become a symbolic link ends the run.
FromDisk(what) ==
  LET src == IF Entry.to = None THEN None ELSE Source(Entry.to)
      at  == IF src = None THEN None ELSE dir[src]
  IN  \/ (at # None => at.kind = "dir") /\ Skips
      \/ at # None /\ at.kind = "link" /\ Fails
      \/ at # None /\ at.kind = "file" /\ Resolve(Make(what, src, entry))

FromList(hard) ==
  LET target == IF Entry.to = None THEN 0 ELSE Follow(Entry)
      src    == made[archive[target].path]
  IN  \/ target = 0 /\ Skips
      \/ /\ target # 0
         /\ IF hard /\ src # None THEN Resolve(Make("hard", src, entry))
            ELSE Resolve(Make("content", None, target))

MakeDirectory ==
  LET n == Own(Entry.path)
      new == [by |-> entry, name |-> n, kind |-> "dir", data |-> entry]
  IN  \/ /\ dir[n] # None => dir[n].kind = "dir"
         /\ dir' = IF dir[n] = None THEN [dir EXCEPT ![n] = new] ELSE dir
         /\ CountsAs("directories") /\ UNCHANGED <<made, left, agreed, links>>
      \/ dir[n] # None /\ dir[n].kind # "dir" /\ Fails

Look ==
  /\ At("look") /\ entry <= Len(archive)
  /\ \/ Entry.type = "File" /\ Resolve(Make("content", None, entry))
     \/ Entry.type = "Dir" /\ MakeDirectory
     \/ /\ Entry.type = "Hardlink"
        /\ IF driver = "stream" THEN FromDisk("hard") ELSE FromList(TRUE)
     \/ /\ Entry.type = "Symlink" /\ symlinks = "Preserve"
        /\ Resolve(Make("sym", None, entry))
     \/ /\ Entry.type = "Symlink" /\ symlinks = "Follow"
        /\ IF driver = "stream" THEN FromDisk("copy") ELSE FromList(FALSE)
     \/ Entry.type = "Symlink" /\ symlinks = "Skip" /\ Skips
     \/ Entry.type = "Other" /\ Skips

\* The answer of a ConflictResolver; without one the answer is to skip.
Ask ==
  /\ At("ask")
  /\ \/ Goes("write", Replacing(job)) /\ agreed' = agreed \cup {job.out}
     \/ \E n \in Copies(Entry.path) :
          Goes("write", Into(job, n, FALSE, "renamed")) /\ UNCHANGED agreed
     \/ Skips
     \/ Fails

-----------------------------------------------------------------------------
(***************************************************************************)
(* Writing under a private name, and the commit.                           *)
(***************************************************************************)
Staged(j) ==
  LET new(kind, data) == [by |-> entry, name |-> j.out, kind |-> kind,
                          data |-> data]
  IN  CASE j.what = "content" -> new("file", j.data)
        [] j.what = "sym"     -> new("link", j.data)
        [] j.what = "copy"    -> new("file", dir[j.src].data)
        [] j.what = "hard"    -> dir[j.src]

\* A hard link needs a file to link to, and a file system that has them.
CanStage(j) ==
  j.what \in {"hard", "copy"} =>
    /\ dir[j.src] # None /\ dir[j.src].kind = "file"
    /\ j.what = "hard" => hasLinks

Write ==
  /\ At("write")
  /\ \/ /\ CanStage(job)
        /\ Goes("commit", [job EXCEPT !.file = Staged(job)])
        /\ UNCHANGED agreed
     \/ ~CanStage(job) /\ Fails
     \/ /\ job.what = "content" /\ bestEffort
        /\ CountsAs("failed") /\ UNCHANGED <<dir, made, left, agreed, links>>
     \/ job.what = "sym" /\ Skips    \* Windows, without the privilege

\* Which later links may be made from this output.
Remembers(j) ==
  IF driver = "stream" THEN j.what # "sym"
  ELSE j.what = "content" /\ Entry.type = "File"

\* Mutant: what replaced a file is counted as new.
Count_Created(j) == "created"

Count(j) == j.how

Placed(now, kept) ==
  /\ dir' = now /\ left' = left \cup kept
  /\ made' = IF Remembers(job) THEN [made EXCEPT ![Entry.path] = job.out]
             ELSE made
  /\ links' = links \cup IF job.what \in {"hard", "copy"} THEN {job.file}
                         ELSE {}
  /\ CountsAs(Count(job))
  /\ UNCHANGED agreed

Filled(file) == [dir EXCEPT ![job.out] = file]

\* rename replaces a file, not a directory; when both names are the same file
\* it does nothing, and the private name stays.
CommitReplacing ==
  /\ At("commit") /\ job.replace
  /\ LET at == dir[job.out] IN
       \/ at # None /\ at.kind = "dir" /\ Fails
       \/ at = job.file /\ Placed(dir, {job.file})
       \/ /\ at # None => (at # job.file /\ at.kind # "dir")
          /\ Placed(Filled(job.file), {})

\* Mutant: a rename is used when nothing may be replaced.
Vacant_Anyway(n) == n \in Names

\* hard_link, create_new and move_path_no_replace fail when the name is taken.
Vacant(n) == dir[n] = None

\* TargetReservation: an empty file that only the run may replace.
Reservation == [by |-> entry, name |-> job.out, kind |-> "hole",
                data |-> entry]

CommitNew ==
  /\ At("commit") /\ ~job.replace
  /\ \/ /\ Vacant(job.out) /\ (hasLinks \/ job.what = "sym")
        /\ Placed(Filled(job.file), {})
     \/ /\ Vacant(job.out) /\ ~hasLinks /\ job.what # "sym"
        /\ pc' = "rename" /\ dir' = Filled(Reservation)
        /\ UNCHANGED <<job, entry, made, report, left, agreed, links>>
     \/ ~Vacant(job.out) /\ Fails

\* The reservation is replaced by the file.
RenameOver == At("rename") /\ Placed(Filled(job.file), {})

\* Mutant: a reservation that is not used stays.
Cleared_Not == dir

\* TargetReservation is dropped.
Cleared == IF pc = "rename" THEN Filled(None) ELSE dir

\* Anything may be refused: a path, a limit, a cancelled run, a failing call.
Refuse ==
  /\ pc \notin {"done", "failed"}
  /\ pc' = "failed" /\ job' = NoJob /\ dir' = Cleared
  /\ UNCHANGED <<given, foreign, entry, made, report, left, agreed, links>>

Finish ==
  /\ At("look") /\ entry > Len(archive) /\ pc' = "done"
  /\ UNCHANGED <<dir, entry, job, made, report, left, agreed, links>>

\* Another program writes, replaces or removes a file of the destination; it
\* leaves the empty reservation alone.
Change(n) ==
  /\ pc \notin {"done", "failed"}
  /\ Cardinality(foreign) < MaxForeign /\ n \notin foreign
  /\ dir[n] # None => dir[n].kind \in {"file", "link"}
  /\ \/ dir' = [dir EXCEPT ![n] = Foreigner(n)]
     \/ dir[n] # None /\ dir' = [dir EXCEPT ![n] = None]
  /\ foreign' = foreign \cup {n}
  /\ UNCHANGED <<given, pc, entry, job, made, report, left, agreed, links>>

Run == Look \/ Ask \/ Write \/ CommitReplacing \/ CommitNew \/ RenameOver
       \/ Refuse \/ Finish
Next == Run \/ \E n \in Names : Change(n)

Spec == Init /\ [][Next]_vars

-----------------------------------------------------------------------------
(***************************************************************************)
(* Properties.                                                             *)
(***************************************************************************)
\* Extraction replaces a file only where the policy or an answer of the user
\* allows it: not one that another program has put there after the engine
\* looked, and not what it has made of an earlier entry with the same path.
\* [extract.rs resolve_conflict_path, commit_using]
OnlyAgreedIsReplaced ==
  [][\A n \in Names :
       (dir[n] # None /\ dir[n].kind # "hole" /\ dir'[n] # dir[n]) =>
         n \in agreed \/ foreign' # foreign]_vars

\* What a link becomes is content of the archive and never that of a file
\* which happened to be at the path of its target, unless another program
\* changes the destination under way.  [extract.rs materialized_files]
LinksComeFromTheArchive ==
  \A file \in links : file.data \notin {Before, Foreign} \/ foreign # {}

\* The report accounts for every entry once, and for the destination: the
\* names that are new hold what is counted as created or renamed; only a
\* best-effort run has failures.  [extract.rs ExtractReport]
ReportAddsUp ==
  pc = "done" =>
    LET files == {n \in Names \ before : dir[n] # None /\ dir[n].kind # "dir"}
    IN  /\ report["created"] + report["directories"] + report["skipped"] +
           report["replaced"] + report["renamed"] + report["failed"] =
           Len(archive)
        /\ foreign = {} =>
             Cardinality(files) = report["created"] + report["renamed"]
        /\ ~bestEffort => report["failed"] = 0
=============================================================================
