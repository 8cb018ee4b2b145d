---------------------------- MODULE OpenArchives ----------------------------
(***************************************************************************)
(* What the windows of the GUI hold open: crates/squallz-gui, state.rs     *)
(* (archive handles), preview_sessions.rs (temporary plaintext and its     *)
(* budget), password_cache.rs (session passwords), create_preflight.rs     *)
(* (requests) and the commands and window events that tie them together.   *)
(*                                                                         *)
(* A request runs on a worker thread: it opens an archive or a nested one, *)
(* prepares a preview, or saves a password.  Meanwhile its window may be   *)
(* destroyed, the user may cancel it, close the archive it reads from or   *)
(* forget a password, and the program may exit.  Each of the four parts    *)
(* has a lock of its own, so every step below takes one of them.           *)
(*                                                                         *)
(* An id of a request is used once.  The handle, the temporary file and    *)
(* the preview that come of a request are named after it.  There is one    *)
(* archive on disk; a nested archive is a temporary file.  Whether a       *)
(* source changes is not modelled: an attempt may fail instead.            *)
(***************************************************************************)
EXTENDS Integers, FiniteSets

CONSTANTS Requests, Windows,
          Work,          \* what the requests may be: Requests -> WorkItem
          Disk, None,
          MaxActive,     \* MAX_ACTIVE_PREVIEW_RESOURCES
          MaxBytes,      \* MAX_PREVIEW_RESOURCE_BYTES
          EntryBytes,    \* MAX_PREVIEW_ENTRY_BYTES, kept for a file on its way
          FileBytes,     \* the size of a file
          MaxExternal,   \* MAX_RETAINED_EXTERNAL_SESSIONS
          MaxForgets     \* bound: passwords the user forgets

WorkItem == [owner : Windows, kind : {"open", "nested", "preview", "save"}]
Session  == [seq : Nat, sticky : BOOLEAN, uses : Nat, release : BOOLEAN]

ASSUME OpenArchivesAssumption ==
  /\ Work \subseteq [Requests -> WorkItem]
  /\ Disk \notin Requests
  /\ None \notin Requests \cup Nat \cup Session \cup {"fresh", "stale"}
  /\ {MaxActive, MaxBytes, EntryBytes, FileBytes, MaxExternal, MaxForgets}
       \subseteq Nat
  /\ FileBytes <= EntryBytes

Paths == Requests \cup {Disk}

VARIABLES
  work,        \* request -> owner and kind
  pc,          \* request -> the step it is at
  active, inflight, cancelled, pending, released, quitting,  \* requests
  pin,         \* request -> handle its source is, kept open by it
  own,         \* request -> temporary file it builds a handle on
  registry, gone, shutting,                                  \* archives
  temp,        \* handle -> its temporary file
  job, search, \* handles kept open by a job and by a reader
  leased,      \* temporary files of nested archives
  reserved,    \* request -> generation of its reservation
  counts,      \* in_flight_count, lease_count and next_sequence
  sessions,    \* previews
  ownerGen, closing,                                         \* previews
  cached, closed,                                            \* passwords
  inner, outer,\* request -> its attempt at a password
  saved,       \* requests whose password is in the keychain
  main,        \* where the main thread is
  asked,       \* the program is to exit
  forgets, void, told   \* history

preflight == <<active, inflight, cancelled, pending, released, quitting>>
archives  == <<registry, gone, shutting, temp>>
previews  == <<reserved, counts, sessions, ownerGen, closing>>
passwords == <<leased, cached, closed, void>>
attempts  == <<inner, outer, saved>>
others    == <<job, search, main, asked, forgets, told>>
vars == <<work, pc, pin, own, preflight, archives, previews, passwords,
          attempts, others>>

Owner(r) == work[r].owner
Kind(r)  == work[r].kind

TypeOK ==
  /\ sessions \in [Requests -> Session \cup {None}]
  /\ pin \in [Requests -> Requests \cup {None}]
  /\ own \in [Requests -> Requests \cup {None}]
  /\ temp \in [Requests -> Requests \cup {None}]
  /\ active \subseteq inflight
  /\ inflight = {r \in Requests : pc[r] \notin {"idle", "done"}}
  /\ registry \subseteq Requests
  /\ {job, search} \subseteq Requests \cup {None}
  /\ counts \in [{"inflight", "lease", "sequence"} -> Nat]
  /\ cached \subseteq [path : Paths, by : Requests]
  /\ \A r \in Requests : {inner[r], outer[r]} \subseteq {None, "fresh", "stale"}

Init ==
  /\ work \in Work
  /\ pc = [r \in Requests |-> "idle"]
  /\ active = {} /\ inflight = {} /\ cancelled = {} /\ pending = {}
  /\ released = {} /\ quitting = FALSE
  /\ pin = [r \in Requests |-> None] /\ own = pin /\ temp = pin
  /\ registry = {} /\ gone = {} /\ shutting = FALSE
  /\ job = None /\ search = None
  /\ leased = {} /\ reserved = pin /\ sessions = pin
  /\ counts = [inflight |-> 0, lease |-> 0, sequence |-> 1]
  /\ ownerGen = [w \in Windows |-> 0] /\ closing = FALSE
  /\ cached = {} /\ closed = FALSE
  /\ inner = pin /\ outer = pin /\ saved = {}
  /\ main = [at |-> "run", window |-> None] /\ asked = FALSE
  /\ forgets = 0 /\ void = {} /\ told = {}

-----------------------------------------------------------------------------
(***************************************************************************)
(* Temporary files and passwords.  A file goes with the last Arc on it;    *)
(* then its password is forgotten and its lease returned.                  *)
(***************************************************************************)
Open(h) == h \in registry \/ h \in {job, search} \cup {pin[r] : r \in Requests}
Held(t) == \/ \E h \in Requests : Open(h) /\ temp[h] = t
           \/ \E r \in Requests : own[r] = t

\* The archive a request opens, and the one it reads an entry of.
Outer(r) == IF pin[r] = None THEN Disk ELSE temp[pin[r]]
Inner(r) == IF Kind(r) = "nested" THEN r ELSE Outer(r)

Trying(p) == {r \in Requests : \/ inner[r] # None /\ Inner(r) = p
                               \/ outer[r] # None /\ Outer(r) = p}

\* An attempt is fresh as long as the generation is the one it began with.
After(attempt, moved, ended) ==
  [r \in Requests |-> IF attempt[r] = None \/ r \in ended THEN None
                      ELSE IF moved THEN "stale" ELSE attempt[r]]

\* `moved` is whether the step itself moves the generation, `revoked` the
\* attempts it is meant for, `ended` whose attempts end with it, `base` the
\* counts it leaves.  It stands last in a step.
SettleWith(moved, revoked, ended, base) ==
  LET dead == {t \in leased : ~Held(t)'}
  IN  /\ leased' = leased \ dead
      /\ cached' = {c \in cached : c.path \notin dead}
      /\ inner' = After(inner, moved \/ dead # {}, ended)
      /\ outer' = After(outer, moved \/ dead # {}, ended)
      /\ void' = void \cup revoked
                      \cup UNION {(Trying(t) \ ended) \X {t} : t \in dead}
      /\ counts' = [base EXCEPT !["lease"] = @ - Cardinality(dead)]

Settle == SettleWith(FALSE, {}, {}, counts)

Alive(w) == ~shutting /\ w \notin gone

-----------------------------------------------------------------------------
(***************************************************************************)
(* The steps of a request.                                                 *)
(***************************************************************************)
Running == main.at # "exited"
At(r, point) == Running /\ pc[r] = point /\ UNCHANGED <<work, others>>
Goto(r, point) == pc' = [pc EXCEPT ![r] = point]

\* begin_request: in a window that is gone the token is cancelled, and the
\* worker ends at its first checkpoint.
Begin(r) ==
  /\ At(r, "idle")
  /\ IF quitting \/ Owner(r) \in released
       THEN Goto(r, "done") /\ UNCHANGED <<active, inflight, cancelled, pending>>
       ELSE /\ Goto(r, IF Kind(r) = "save" THEN "inner" ELSE "resolve")
            /\ active' = active \cup {r} /\ inflight' = inflight \cup {r}
            /\ cancelled' = cancelled \cup ({r} \cap pending)
            /\ pending' = pending \ {r}
  /\ UNCHANGED <<released, quitting, pin, own, archives, previews, passwords,
                 attempts>>

\* An error, or a checkpoint of a cancelled token.
Fail(r) ==
  /\ pc[r] \in {"resolve", "outer", "read", "inner", "list"}
  /\ At(r, pc[r]) /\ Goto(r, "drop")
  /\ UNCHANGED <<pin, own, preflight, archives, previews, passwords, attempts>>

Goes(r) == r \notin cancelled

\* resolve_archive_source.
Resolve(r) ==
  /\ At(r, "resolve") /\ Goes(r) /\ Alive(Owner(r))
  /\ \E h \in {None} \cup {g \in registry : Owner(g) = Owner(r)} :
       /\ h # None => temp[h] # None
       /\ pin' = [pin EXCEPT ![r] = h]
  /\ Goto(r, IF Kind(r) = "open" THEN "inner" ELSE "reserve")
  /\ UNCHANGED <<own, preflight, archives, previews, passwords, attempts>>

Pinned(s) == s.sticky \/ s.uses > 0
Retained(all) == {s \in Requests : all[s] # None /\ Pinned(all[s])}
ActiveCount(all) ==
  Cardinality({s \in Requests : all[s] # None /\ ~all[s].sticky})
    + counts["inflight"] + counts["lease"]
Bytes(all) ==
  FileBytes * (Cardinality({s \in Requests : all[s] # None}) + counts["lease"])
    + EntryBytes * counts["inflight"]

\* Mutant: a file on its way is counted by what it has.
Fits_Barely(all) ==
  ActiveCount(all) < MaxActive /\ Bytes(all) + FileBytes <= MaxBytes

Fits(all) ==
  ActiveCount(all) < MaxActive /\ Bytes(all) + EntryBytes <= MaxBytes

\* The sessions without the k oldest ones that may be closed.
Evicted(k) ==
  LET free == {s \in Requests : sessions[s] # None /\ ~Pinned(sessions[s])}
      old == {s \in free :
                Cardinality({t \in free : sessions[t].seq < sessions[s].seq}) < k}
  IN  [s \in Requests |-> IF s \in old THEN None ELSE sessions[s]]

\* reserve: sessions are closed until there is room; when there is none, or
\* one cannot be closed, those before it are gone all the same.
Reserve(r) ==
  /\ At(r, "reserve")
  /\ \/ closing /\ Goto(r, "drop") /\ UNCHANGED <<reserved, counts, sessions>>
     \/ \E k \in 0 .. Cardinality(Requests) :
          /\ ~closing /\ \A j \in 0 .. k - 1 : ~Fits(Evicted(j))
          /\ k > 0 => Evicted(k) # Evicted(k - 1)
          /\ sessions' = Evicted(k)
          /\ \/ /\ Fits(Evicted(k))
                /\ reserved' = [reserved EXCEPT ![r] = ownerGen[Owner(r)]]
                /\ counts' = [counts EXCEPT !["inflight"] = @ + 1]
                /\ Goto(r, "outer")
             \/ /\ Evicted(k + 1) = Evicted(k) => (~Fits(Evicted(k)) \/ k > 0)
                /\ k > 0 \/ Evicted(1) = Evicted(0)
                /\ Goto(r, "drop") /\ UNCHANGED <<reserved, counts>>
  /\ UNCHANGED <<pin, own, preflight, archives, ownerGen, closing, passwords,
                 attempts>>

\* SessionPasswords::begin; without a password there is no attempt.
Try(old, r) ==
  \/ old' = [old EXCEPT ![r] = IF closed THEN None ELSE "fresh"]
  \/ UNCHANGED old

\* write_archive_entry_limited, up to and from the reading.
TryOuter(r) ==
  /\ At(r, "outer") /\ Try(outer, r) /\ Goto(r, "read")
  /\ UNCHANGED <<pin, own, preflight, archives, previews, passwords, inner,
                 saved>>

Read(r) ==
  /\ At(r, "read") /\ Goes(r)
  /\ Goto(r, IF Kind(r) = "preview" THEN "keep" ELSE "inner")
  /\ UNCHANGED <<pin, own, preflight, archives, previews, passwords, attempts>>

\* open_archive_inner, and the verification of a password to be saved.
TryInner(r) ==
  /\ At(r, "inner") /\ Goes(r) /\ (Kind(r) # "save" => Alive(Owner(r)))
  /\ Try(inner, r) /\ Goto(r, "list")
  /\ UNCHANGED <<pin, own, preflight, archives, previews, passwords, outer,
                 saved>>

\* The check of into_session and into_lease.
Current(r) == ~closing /\ reserved[r] = ownerGen[Owner(r)]

List(r) ==
  /\ At(r, "list") /\ Goes(r)
  /\ \/ /\ Kind(r) = "save" /\ Goto(r, "commit")
        /\ UNCHANGED <<own, previews, passwords>>
     \/ /\ Kind(r) = "open" /\ Goto(r, "publish")
        /\ own' = [own EXCEPT ![r] = IF pin[r] = None THEN None
                                     ELSE temp[pin[r]]]
        /\ UNCHANGED <<previews, passwords>>
     \/ /\ Kind(r) = "nested" /\ Current(r) /\ Goto(r, "publish")
        /\ own' = [own EXCEPT ![r] = r]
        /\ leased' = leased \cup {r}
        /\ counts' = [counts EXCEPT !["inflight"] = @ - 1, !["lease"] = @ + 1]
        /\ reserved' = [reserved EXCEPT ![r] = None]
        /\ UNCHANGED <<sessions, ownerGen, closing, cached, closed, void>>
  /\ UNCHANGED <<pin, preflight, archives, attempts>>

Publish(r) ==
  /\ At(r, "publish")
  /\ IF Goes(r) /\ Alive(Owner(r))
       THEN /\ registry' = registry \cup {r}
            /\ temp' = [temp EXCEPT ![r] = own[r]]
            /\ own' = [own EXCEPT ![r] = None] /\ Goto(r, "remember")
       ELSE Goto(r, "drop") /\ UNCHANGED <<own, registry, temp>>
  /\ UNCHANGED <<pin, preflight, gone, shutting, previews, passwords, attempts>>

\* into_session.
Keep(r) ==
  /\ At(r, "keep")
  /\ \/ /\ Goes(r) /\ Current(r) /\ Goto(r, "again")
        /\ sessions' = [sessions EXCEPT ![r] =
             [seq |-> counts["sequence"], sticky |-> FALSE, uses |-> 0,
              release |-> FALSE]]
        /\ counts' = [counts EXCEPT !["inflight"] = @ - 1, !["sequence"] = @ + 1]
        /\ reserved' = [reserved EXCEPT ![r] = None]
     \/ ~Current(r) /\ Goto(r, "drop") /\ UNCHANGED <<sessions, counts, reserved>>
  /\ UNCHANGED <<pin, own, preflight, archives, ownerGen, closing, passwords,
                 attempts>>
\* Mutant: what became of the path in the meantime is not asked.
MayRemember_Always(r, attempt) == attempt[r] # None /\ ~closed /\ Goes(r)

\* SessionPasswords::remember, when the password was right.
MayRemember(r, attempt) ==
  ~closed /\ attempt[r] = "fresh" /\ Goes(r)

Learn(r, attempt, p) ==
  \/ /\ MayRemember(r, attempt)
     /\ cached' = {c \in cached : c.path # p} \cup {[path |-> p, by |-> r]}
  \/ UNCHANGED cached

Remember(r) ==
  /\ At(r, "remember") /\ Learn(r, inner, Inner(r))
  /\ Goto(r, IF Kind(r) = "nested" THEN "again" ELSE "drop")
  /\ UNCHANGED <<pin, own, preflight, archives, previews, leased, closed, void,
                 attempts>>

\* PreparedEntry::remember_password, for the archive the entry is in.
RememberOuter(r) ==
  /\ At(r, "again") /\ Learn(r, outer, Outer(r)) /\ Goto(r, "drop")
  /\ UNCHANGED <<pin, own, preflight, archives, previews, leased, closed, void,
                 attempts>>

\* Mutant: the cancellation is looked at before, and not with the lock.
MayCommit_Unlocked(r) == ~quitting /\ Owner(r) \notin released

MayCommit(r) ==
  ~quitting /\ Owner(r) \notin released /\ r \in active \ cancelled

\* Mutant: the request ends with its commit, and the exit need not wait for it.
Commit_Ends(r) ==
  /\ At(r, "commit") /\ MayCommit(r) /\ Goto(r, "set")
  /\ active' = active \ {r} /\ inflight' = inflight \ {r}
  /\ UNCHANGED <<cancelled, pending, released, quitting, pin, own,
                 archives, previews, passwords, attempts>>

\* begin_commit: from here on the request can no longer be cancelled.
Commit(r) ==
  /\ At(r, "commit")
  /\ \/ MayCommit(r) /\ active' = active \ {r} /\ Goto(r, "set")
     \/ ~MayCommit(r) /\ Goto(r, "drop") /\ UNCHANGED active
  /\ UNCHANGED <<inflight, cancelled, pending, released, quitting, pin, own,
                 archives, previews, passwords, attempts>>

\* set_archive_password, which the keychain may refuse.
SetPassword(r) ==
  /\ At(r, "set")
  /\ \/ saved' = saved \cup {r} /\ Goto(r, "remember")
     \/ Goto(r, "drop") /\ UNCHANGED saved
  /\ UNCHANGED <<pin, own, preflight, archives, previews, passwords, inner,
                 outer>>

\* A reservation that was not used is given back.
Unreserved(r) ==
  IF reserved[r] = None THEN counts
  ELSE [counts EXCEPT !["inflight"] = @ - 1]

\* What the worker holds is dropped, and then its lease.
DropRequest(r) ==
  /\ At(r, "drop") /\ Goto(r, "finish")
  /\ pin' = [pin EXCEPT ![r] = None] /\ own' = [own EXCEPT ![r] = None]
  /\ reserved' = [reserved EXCEPT ![r] = None]
  /\ UNCHANGED <<preflight, archives, sessions, ownerGen, closing, closed,
                 saved>>
  /\ SettleWith(FALSE, {}, {r}, Unreserved(r))

Complete(r) ==
  /\ At(r, "finish") /\ Goto(r, "done")
  /\ active' = active \ {r} /\ inflight' = inflight \ {r}
  /\ cancelled' = cancelled \ {r}
  /\ UNCHANGED <<pending, released, quitting, pin, own, archives,
                 previews, passwords, attempts>>

Worker(r) ==
  \/ Begin(r) \/ Fail(r) \/ Resolve(r) \/ Reserve(r) \/ TryOuter(r) \/ Read(r)
  \/ TryInner(r) \/ List(r) \/ Publish(r) \/ Keep(r) \/ Remember(r)
  \/ RememberOuter(r) \/ Commit(r) \/ SetPassword(r) \/ DropRequest(r)
  \/ Complete(r)

-----------------------------------------------------------------------------
(***************************************************************************)
(* Commands.                                                               *)
(***************************************************************************)
Quiet == Running /\ UNCHANGED <<work, pc, pin, own, saved>>

Saves == {r \in Requests : Kind(r) = "save"}

\* A cancellation may come before its request; an id that is in neither place
\* has completed.
Cancel(r) ==
  /\ \/ /\ r \in active \ cancelled /\ cancelled' = cancelled \cup {r}
        /\ told' = told \cup ({r} \cap Saves) /\ UNCHANGED pending
     \/ /\ pc[r] = "idle" /\ r \notin pending /\ ~quitting /\ Owner(r) \notin released
        /\ pending' = pending \cup {r} /\ UNCHANGED <<cancelled, told>>
  /\ Quiet
  /\ UNCHANGED <<active, inflight, released, quitting, archives, previews,
                 passwords, attempts, job, search, main, asked, forgets>>

Close(h) ==
  /\ h \in registry /\ registry' = registry \ {h} /\ Quiet
  /\ UNCHANGED <<preflight, gone, shutting, temp, reserved, sessions, ownerGen,
                 closing, closed, others>>
  /\ Settle

\* A job keeps a nested source open until it ends; at the exit there are no new
\* ones.  A command that reads the index on a thread of its own, as a search,
\* inspect_archive_target and plan_archive_move do, keeps it open as well, but
\* nobody waits for it: `search` is such a command, one at a time.
Use(h) ==
  /\ h \in registry /\ temp[h] # None /\ Alive(Owner(h)) /\ Quiet
  /\ \/ job = None /\ ~quitting /\ job' = h /\ UNCHANGED search
     \/ search = None /\ search' = h /\ UNCHANGED job
  /\ UNCHANGED <<preflight, archives, previews, passwords, attempts, main, asked,
                 forgets, told>>

EndUse ==
  /\ Quiet
  /\ \/ job # None /\ job' = None /\ UNCHANGED search
     \/ search # None /\ search' = None /\ UNCHANGED job
  /\ UNCHANGED <<preflight, archives, reserved, sessions, ownerGen, closing,
                 closed, main, asked, forgets, told>>
  /\ Settle

\* The user knows the path of the archive on disk only.
Forget ==
  /\ forgets < MaxForgets /\ forgets' = forgets + 1 /\ Quiet
  /\ cached' = {c \in cached : c.path # Disk}
  /\ inner' = After(inner, TRUE, {}) /\ outer' = After(outer, TRUE, {})
  /\ void' = void \cup (Trying(Disk) \X {Disk})
  /\ UNCHANGED <<preflight, archives, previews, leased, closed, job, search,
                 main, asked, told>>

Sessions(s) ==
  /\ sessions[s] # None /\ Quiet
  /\ UNCHANGED <<preflight, archives, reserved, counts, ownerGen, closing,
                 passwords, attempts, others>>
Becomes(s, session) == sessions' = [sessions EXCEPT ![s] = session]

\* A preview is handed to another program.
BeginExternalUse(s) ==
  /\ Sessions(s) /\ ~closing
  /\ Pinned(sessions[s]) \/ Cardinality(Retained(sessions)) < MaxExternal
  /\ sessions[s].uses = 0
  /\ Becomes(s, [sessions[s] EXCEPT !.uses = @ + 1])

\* Mutant: that the session was to be released is forgotten.
Left_Kept(session) == session

\* A session that is to be released goes when nobody uses it any more.
Left(session) ==
  IF session.release /\ ~Pinned(session) THEN None ELSE session

EndExternalUse(s) ==
  /\ Sessions(s) /\ sessions[s].uses > 0
  /\ \E succeeded \in BOOLEAN :
       Becomes(s, Left([sessions[s] EXCEPT !.uses = @ - 1,
                                           !.sticky = @ \/ succeeded]))

Release(s) ==
  /\ Sessions(s) /\ Owner(s) \notin gone
  /\ Becomes(s, Left([sessions[s] EXCEPT !.release = TRUE]))

Command == \/ \E r \in Requests : \/ Cancel(r) \/ Close(r) \/ Use(r)
                                 \/ BeginExternalUse(r) \/ EndExternalUse(r)
                                 \/ Release(r)
           \/ EndUse \/ Forget

-----------------------------------------------------------------------------
(***************************************************************************)
(* Events of the main thread: a window is destroyed; the program exits.    *)
(***************************************************************************)
From(point, next) ==
  /\ main.at = point /\ main' = [main EXCEPT !.at = next]
  /\ Quiet /\ UNCHANGED <<job, search, forgets, told>>

\* A window that no request is of has nothing to release.
Destroyed(w) ==
  /\ main.at = "run" /\ w \notin released /\ \E r \in Requests : Owner(r) = w
  /\ main' = [at |-> "archives", window |-> w]
  /\ LET its == {r \in Requests : Owner(r) = w}
     IN  /\ cancelled' = cancelled \cup (active \cap its)
         /\ active' = active \ its /\ pending' = pending \ its
  /\ released' = released \cup {w}
  /\ Quiet
  /\ UNCHANGED <<inflight, quitting, archives, previews, passwords, attempts, job,
                 search, asked, forgets, told>>

\* Attempts of every window are revoked.
ReleaseArchives ==
  LET w   == main.window
      its == {r \in Requests : Owner(r) = w}
  IN  /\ From("archives", "previews")
      /\ gone' = gone \cup {w} /\ registry' = registry \ its
      /\ UNCHANGED <<preflight, shutting, temp, reserved, sessions, ownerGen,
                     closing, closed, asked>>
      /\ SettleWith(TRUE, {a \in its \X Paths :
                            /\ a[1] \in Trying(a[2])
                            /\ [path |-> a[2], by |-> a[1]] \notin cached},
                    {}, counts)

ReleasePreviews ==
  LET w == main.window
  IN  /\ From("previews", "run")
      /\ ownerGen' = [ownerGen EXCEPT ![w] = @ + 1]
      /\ sessions' = [s \in Requests |->
           IF sessions[s] # None /\ Owner(s) = w
             THEN Left([sessions[s] EXCEPT !.release = TRUE]) ELSE sessions[s]]
      /\ UNCHANGED <<preflight, archives, reserved, counts, closing, passwords,
                     attempts, asked>>

\* RunEvent::ExitRequested.
ClosePreviews ==
  /\ From("run", "cancel") /\ ~asked /\ closing' = TRUE
  /\ UNCHANGED <<preflight, archives, reserved, counts, sessions, ownerGen,
                 passwords, attempts, asked>>

CancelAll ==
  /\ From("cancel", "begin")
  /\ quitting' = TRUE /\ cancelled' = cancelled \cup active
  /\ active' = {} /\ pending' = {}
  /\ UNCHANGED <<inflight, released, archives, previews, passwords, attempts,
                 asked>>

BeginShutdown ==
  /\ From("begin", "run") /\ asked' = TRUE
  /\ shutting' = TRUE /\ closed' = TRUE
  /\ cached' = {}
  /\ inner' = After(inner, TRUE, {}) /\ outer' = After(outer, TRUE, {})
  /\ UNCHANGED <<preflight, registry, gone, temp, previews, leased, void>>

\* What RunEvent::Exit waits for.
Idle == inflight = {} /\ job = None

Shutdown ==
  /\ From("run", "cleanup") /\ asked /\ Idle
  /\ registry' = {}
  /\ UNCHANGED <<preflight, gone, shutting, temp, reserved, sessions, ownerGen,
                 closing, closed, asked>>
  /\ Settle

Cleanup ==
  /\ From("cleanup", "exited")
  /\ sessions' = [s \in Requests |-> None]
  /\ UNCHANGED <<preflight, archives, reserved, counts, ownerGen, closing,
                 passwords, attempts, asked>>

Main == \/ \E w \in Windows : Destroyed(w)
        \/ ReleaseArchives \/ ReleasePreviews \/ ClosePreviews \/ CancelAll
        \/ BeginShutdown \/ Shutdown \/ Cleanup

Next == Main \/ Command \/ \E r \in Requests : Worker(r)

Spec == Init /\ [][Next]_vars

-----------------------------------------------------------------------------
(***************************************************************************)
(* Properties.                                                             *)
(***************************************************************************)
\* When the release of a window is done, nothing is open for it but what it
\* has handed to another program, however late its requests come through; and
\* when the program exits, no plaintext is left but that
\* which a command such as a search still reads.
\* [lib.rs 172-239; state.rs release_window; preview_sessions.rs into_session]
Released(w) == w \in gone /\ ~(main.window = w /\ main.at = "previews")

NothingOutlives ==
  /\ \A r \in Requests :
       Released(Owner(r)) =>
         r \notin registry /\ (sessions[r] # None => Pinned(sessions[r]))
  /\ main.at = "exited" =>
       /\ \A r \in Requests : sessions[r] = None /\ reserved[r] = None
       /\ registry = {}
       /\ \A t \in leased : search # None /\ temp[search] = t

\* The budget of previews is that of what there is, and is kept.
\* [preview_sessions.rs reserve, into_session, into_lease and their drops]
BudgetHolds ==
  /\ counts["inflight"] = Cardinality({r \in Requests : reserved[r] # None})
  /\ counts["lease"] = Cardinality(leased)
  /\ \A t \in Requests : Held(t) => t \in leased
  /\ ActiveCount(sessions) <= MaxActive /\ Bytes(sessions) <= MaxBytes
  /\ Cardinality(Retained(sessions)) <= MaxExternal

\* A password is not cached again by work that was under way when it was
\* forgotten or when the window of the work was closed; one of a temporary
\* file goes with the file, and none is left at the exit.
\* [password_cache.rs remember; state.rs OwnedArchiveTemp]
PasswordsStayForgotten ==
  \A c \in cached :
    /\ <<c.by, c.path>> \notin void
    /\ c.path # Disk => Held(c.path)
    /\ ~closed

\* A user who was told that the saving of a password is cancelled does not
\* find it in the keychain.  [create_preflight.rs cancel, begin_commit]
CancelledSavesNothing == saved \cap told = {}
=============================================================================
