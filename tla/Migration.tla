------------------------------ MODULE Migration ------------------------------
(***************************************************************************)
(* Opening the database (store.Open): five migrations, statement by        *)
(* statement, from whatever release wrote the file, with a crash between   *)
(* any two statements and a start from the top after it.                   *)
(*                                                                         *)
(* `db` is what the connection sees and `disk` what a crash leaves: they   *)
(* differ while a transaction is open.  Legacy rows are reduced to what    *)
(* the migrations look at: which columns hold data, a blank profile, the   *)
(* missing key of an address, the trimmed identity and the timeline.       *)
(***************************************************************************)
EXTENDS Naturals, Sequences, SequencesExt

CONSTANTS
  Leads,       \* the ids of the leads in the old file
  Identities,  \* (profile, trimmed key) of a lead in the tracker
  MaxCrashes   \* bound on crashes

ASSUME MigrationAssumption ==
  Leads \subseteq Nat \ {0} /\ MaxCrashes \in Nat

\* The columns that were added to jobs, in the order of the releases.
Releases == <<"url_key", "applied_at", "rejected_at", "duplicate_of", "profile",
              "pipeline", "monitoring", "verdict">>
Columns == ToSet(Releases)
Copied == {"url_key", "applied_at", "rejected_at", "duplicate_of", "profile"}

\* migrate: what runs, in this order.
PlanPipelineFirst ==
  <<"jobs", "url_key", "applied_at", "rejected_at", "duplicate_of", "profile", "blank profiles",
    "pipeline", "monitoring", "verdict", "new table", "copy", "drop", "rename",
    "url keys", "profiles", "profile rows", "owner links", "events",
    "import jobs", "import events", "marker", "sessions">>
Plan ==
  <<"jobs", "url_key", "applied_at", "rejected_at", "duplicate_of", "profile", "blank profiles",
    "new table", "copy", "drop", "rename", "pipeline", "monitoring", "verdict",
    "url keys", "profiles", "profile rows", "owner links", "events",
    "import jobs", "import events", "marker", "sessions">>

Ready == Len(Plan) + 1

VARIABLES
  db, disk,
  pc,       \* the next statement of the plan; Ready when the server serves
  file,     \* what is fixed of the leads: [identity, timeline]
  held,     \* history: the columns that held data in the old file
  crashes

vars == <<db, disk, pc, file, held, crashes>>

\* jobs: the leads in the table; new: those in its replacement, or "none";
\* columns: those the table has and their data is kept of; scoped: the identity
\* is (profile, key); events: the leads that job_events has rows of; linked: those
\* that job_profiles has.
Db == [jobs : SUBSET Leads, new : (SUBSET Leads) \cup {{0}}, columns : SUBSET Columns,
       data : SUBSET Columns, scoped : BOOLEAN, blank : SUBSET Leads, unkeyed : SUBSET Leads,
       profiles : BOOLEAN, linked : SUBSET Leads, events : SUBSET Leads,
       imported : SUBSET Leads, timelines : SUBSET Leads, marker : BOOLEAN, sessions : BOOLEAN]
NoTable == {0}

TypeOK ==
  /\ db \in Db /\ disk \in Db
  /\ pc \in 1..Ready
  /\ file \in [Leads -> [identity : Identities, timeline : BOOLEAN]]
  /\ held \subseteq Columns
  /\ crashes \in 0..MaxCrashes

\* The leads that had a timeline in the old file.
WithTimeline == {l \in Leads : file[l].timeline}

\* The file of a release: its first n columns, rows written before the profile or
\* the address key existed, and the old identity until the release that scoped
\* it.  Timelines came with the monitoring columns.
WrittenBy(n, scoped, profiles) ==
  /\ scoped => n >= 5
  /\ n > 5 => scoped
  /\ profiles => n = Len(Releases)
  /\ held = {Releases[i] : i \in 1..n}
  /\ "monitoring" \notin held => WithTimeline = {}
  /\ db = [jobs |-> Leads, new |-> NoTable, columns |-> held, data |-> held, scoped |-> scoped,
           blank |-> IF n >= 5 THEN {} ELSE Leads,
           unkeyed |-> IF n >= 1 THEN {} ELSE Leads,
           profiles |-> profiles, linked |-> IF profiles THEN Leads ELSE {},
           events |-> WithTimeline,
           imported |-> {}, timelines |-> {}, marker |-> FALSE, sessions |-> FALSE]

Init ==
  /\ file \in [Leads -> [identity : Identities, timeline : BOOLEAN]]
  /\ \E n \in 0..Len(Releases), scoped, profiles \in BOOLEAN : WrittenBy(n, scoped, profiles)
  /\ disk = db
  /\ pc = 1 /\ crashes = 0

-----------------------------------------------------------------------------
(* The statements.                                                         *)

Rebuild == {"new table", "copy", "drop", "rename"}

\* INSERT OR IGNORE: of the leads that share an identity the first is imported.
Imports == {l \in db.jobs : \A m \in db.jobs : file[m].identity = file[l].identity => l <= m}
Timelines == db.events

\* The statement can run: jobs_new must not exist yet, and the foreign key
\* refuses the timeline of a lead that was not imported.
Runs(s) ==
  CASE s = "new table"     -> db.new = NoTable
    [] s = "import events" -> db.marker \/ Timelines \subseteq db.imported
    [] OTHER               -> TRUE

\* The table still has the old identity: it is rebuilt, once.
hasLegacyDedupeUnique == ~db.scoped

WithColumn(c) == [db EXCEPT !.columns = @ \cup {c}]

\* Foreign keys are on: dropping jobs deletes what refers to its rows.
DuringRebuild(s) ==
  CASE s = "new table" -> [db EXCEPT !.new = {}]
    [] s = "copy"      -> [db EXCEPT !.new = db.jobs]
    [] s = "drop"      -> [db EXCEPT !.jobs = {}, !.linked = {}, !.events = {}]
    [] s = "rename"    -> [db EXCEPT !.jobs = db.new, !.new = NoTable, !.scoped = TRUE,
                                     !.columns = Copied, !.data = @ \cap Copied]

backfillJobProfiles(s) ==
  CASE s = "profile rows" -> [db EXCEPT !.profiles = TRUE]
    [] s = "owner links"  -> [db EXCEPT !.linked = db.jobs]

DuringImport(s) ==
  CASE s = "import jobs"   -> [db EXCEPT !.imported = Imports]
    [] s = "import events" -> [db EXCEPT !.timelines = Timelines]
    [] s = "marker"        -> [db EXCEPT !.marker = TRUE]

After(s) ==
  CASE s \in Columns -> WithColumn(s)
    [] s = "blank profiles" -> [db EXCEPT !.blank = {}]
    [] s \in Rebuild -> IF hasLegacyDedupeUnique THEN DuringRebuild(s) ELSE db
    [] s = "url keys" -> [db EXCEPT !.unkeyed = {l \in @ : \E m \in @ : m < l}]
    [] s \in {"profile rows", "owner links"} -> backfillJobProfiles(s)
    [] s \in {"import jobs", "import events", "marker"} -> IF db.marker THEN db ELSE DuringImport(s)
    [] s = "sessions" -> [db EXCEPT !.sessions = TRUE]
    [] OTHER -> db

\* backfillJobURLKeys updates one lead after the other.
Repeats(s) == s = "url keys" /\ \E l, m \in db.unkeyed : l < m

\* Inside a transaction only its last statement reaches the disk.
CommitsAlways(s) == TRUE
Commits(s) == s \notin {"new table", "copy", "drop", "import jobs", "import events"}

Statement ==
  /\ pc < Ready /\ Runs(Plan[pc])
  /\ db' = After(Plan[pc])
  /\ disk' = IF Commits(Plan[pc]) THEN db' ELSE disk
  /\ pc' = IF Repeats(Plan[pc]) THEN pc ELSE pc + 1
  /\ UNCHANGED <<file, held, crashes>>

\* Open returns the error, main gives up, and somebody starts it again.
Refused ==
  /\ pc < Ready /\ ~Runs(Plan[pc])
  /\ db' = disk /\ pc' = 1
  /\ UNCHANGED <<disk, file, held, crashes>>

Crash ==
  /\ crashes < MaxCrashes
  /\ crashes' = crashes + 1
  /\ db' = disk /\ pc' = 1
  /\ UNCHANGED <<disk, file, held>>

Next == Statement \/ Refused \/ Crash

Spec == Init /\ [][Next]_vars

\* A start runs to its end; it may crash, a bounded number of times.
FairSpec == Spec /\ WF_vars(Statement \/ Refused)

-----------------------------------------------------------------------------

\* The leads the import leaves out, because an older one has their identity.
Shadowed == {l \in Leads : \E m \in Leads : m < l /\ file[m].identity = file[l].identity}

\* Whatever release wrote the file and wherever earlier starts crashed, the
\* server never serves an incomplete database: every column is there, every lead
\* has a profile, an address key and its owner link, and the tracker has one job
\* per identity, with its timeline.
ReadyIsComplete ==
  pc = Ready =>
    /\ db.columns = Columns /\ db.scoped /\ db.sessions
    /\ db.blank = {} /\ db.unkeyed = {}
    /\ db.linked = Leads /\ db.imported = Leads \ Shadowed /\ db.timelines = WithTimeline

\* No crash leaves a half-built table on the disk, nor the disk without a lead, a
\* value or a timeline that the old file held: what the drop of the old table
\* cascades to is not there yet where it runs.
NothingIsLost ==
  /\ disk.new = NoTable /\ disk.jobs = Leads
  /\ held \subseteq disk.data /\ disk.events = WithTimeline

\* The server opens in the end, however often it crashed on the way, unless a
\* lead that the import leaves out has a timeline.
OpensInTheEnd == (\A l \in Shadowed : ~file[l].timeline) ~> pc = Ready

\* tracker.go:349: the import is bypassing validation because "rejecting an old
\* row would lose a person's board": every file of an earlier release opens.
EveryFileOpens == <>(pc = Ready)
===============================================================================
