--------------------------- MODULE WorkspaceProofs ---------------------------
(***************************************************************************)
(* What a start of the server does to the file of an earlier release, for  *)
(* any set of leads, any release and any number of crashes; and what its   *)
(* pages show of the tracker, for any jobs, filters, readers and pages.    *)
(*                                                                         *)
(* The rebuild of jobs is the one statement sequence that could lose rows. *)
(* Until it is done the file holds no column that it does not copy, and no *)
(* timeline for the drop to cascade to; and while it runs the disk still   *)
(* has the table it started from.                                          *)
(*                                                                         *)
(* A reader has been shown what was listed above its cursor, and a list    *)
(* can only lose what was not shown.  A tile counts the jobs its filter    *)
(* lists, and the tiles of a funnel are disjoint parts of the total.       *)
(***************************************************************************)
EXTENDS Workspace, RowIds, TLAPS

\* The place of the rebuild's statements in the plan.
NewTable == 8
Copy == 9
Drop == 10
Rename == 11

\* A database that holds what the old file held.
Whole(d) ==
  /\ d.new = NoTable /\ d.jobs = Leads /\ held \subseteq d.data /\ d.events = WithTimeline
  /\ ~d.scoped => held \subseteq Copied /\ WithTimeline = {}

\* The database between two statements of the rebuild.
Rebuilding ==
  /\ held \subseteq db.data /\ held \subseteq Copied
  /\ WithTimeline = {} /\ db.events = {}
  /\ pc = Copy   => db.new = {} /\ db.jobs = Leads
  /\ pc = Drop   => db.new = Leads /\ db.jobs = Leads
  /\ pc = Rename => db.new = Leads /\ db.jobs = {}

MigrationInv ==
  /\ TypeOK
  /\ Whole(disk)
  /\ IF pc \in Copy..Rename /\ ~db.scoped THEN Rebuilding ELSE Whole(db)

-----------------------------------------------------------------------------

\* The plan, statement by statement.
LEMMA PlanAt ==
  /\ Plan[1] = "jobs" /\ Plan[2] = "url_key" /\ Plan[3] = "applied_at" /\ Plan[4] = "rejected_at"
  /\ Plan[5] = "duplicate_of" /\ Plan[6] = "profile" /\ Plan[7] = "blank profiles"
  /\ Plan[NewTable] = "new table" /\ Plan[Copy] = "copy" /\ Plan[Drop] = "drop"
  /\ Plan[Rename] = "rename" /\ Plan[12] = "pipeline" /\ Plan[13] = "monitoring"
  /\ Plan[14] = "verdict" /\ Plan[15] = "url keys" /\ Plan[16] = "profiles"
  /\ Plan[17] = "profile rows" /\ Plan[18] = "owner links" /\ Plan[19] = "events"
  /\ Plan[20] = "import jobs" /\ Plan[21] = "import events" /\ Plan[22] = "marker"
  /\ Plan[23] = "sessions" /\ Ready = 24
  BY DEF Plan, Ready, NewTable, Copy, Drop, Rename

\* The rebuild is in its place, and nowhere else.
LEMMA RebuildAt ==
  /\ Plan[NewTable] = "new table" /\ Plan[Copy] = "copy"
  /\ Plan[Drop] = "drop" /\ Plan[Rename] = "rename"
  BY PlanAt

\* No other statement belongs to the rebuild.
LEMMA RebuildOnlyAt == \A i \in 1..23 : i \notin NewTable..Rename => Plan[i] \notin Rebuild
<1> SUFFICES ASSUME NEW i \in 1..23, i \notin NewTable..Rename
             PROVE  Plan[i] \notin Rebuild
  OBVIOUS
<1>1. i \in 1..7 \/ i \in 12..23
  BY DEF NewTable, Rename
<1>2. CASE i \in 1..7
  <2>1. i = 1 \/ i = 2 \/ i = 3 \/ i = 4 \/ i = 5 \/ i = 6 \/ i = 7
    BY <1>2
  <2> QED
    BY <2>1, PlanAt DEF Rebuild
<1>3. CASE i \in 12..23
  <2>1. \/ i = 12 \/ i = 13 \/ i = 14 \/ i = 15 \/ i = 16 \/ i = 17
        \/ i = 18 \/ i = 19 \/ i = 20 \/ i = 21 \/ i = 22 \/ i = 23
    BY <1>3
  <2> QED
    BY <2>1, PlanAt DEF Rebuild
<1> QED
  BY <1>1, <1>2, <1>3

\* The plan has 23 statements.
LEMMA ReadyAt == Ready = 24
  BY DEF Ready, Plan

\* The types of a step that changes the database and the place in the plan.
LEMMA TypesStay ==
  ASSUME TypeOK, db' \in Db, disk' \in Db, pc' \in 1..24, UNCHANGED <<file, held, crashes>>
  PROVE  TypeOK'
  BY ReadyAt DEF TypeOK

\* A column is added, or is there already.
LEMMA ColumnNames ==
  Columns = {"url_key", "applied_at", "rejected_at", "duplicate_of", "profile",
             "pipeline", "monitoring", "verdict"}
<1>1. ToSet(Releases) = {Releases[i] : i \in 1..8}
  BY DEF ToSet, Releases
<1> QED
  BY <1>1 DEF Columns, Releases

\* What the rebuild's statements do to a database that still has the old identity.
LEMMA AfterRebuild ==
  ASSUME ~db.scoped
  PROVE  /\ After("new table") = [db EXCEPT !.new = {}]
         /\ After("copy") = [db EXCEPT !.new = db.jobs]
         /\ After("drop") = [db EXCEPT !.jobs = {}, !.linked = {}, !.events = {}]
         /\ After("rename") = [db EXCEPT !.jobs = db.new, !.new = NoTable, !.scoped = TRUE,
                                        !.columns = Copied, !.data = @ \cap Copied]
<1>1. After("new table") = [db EXCEPT !.new = {}]
  BY ColumnNames DEF After, Rebuild, DuringRebuild, hasLegacyDedupeUnique
<1>2. After("copy") = [db EXCEPT !.new = db.jobs]
  BY ColumnNames DEF After, Rebuild, DuringRebuild, hasLegacyDedupeUnique
<1>3. After("drop") = [db EXCEPT !.jobs = {}, !.linked = {}, !.events = {}]
  BY ColumnNames DEF After, Rebuild, DuringRebuild, hasLegacyDedupeUnique
<1>4. After("rename") = [db EXCEPT !.jobs = db.new, !.new = NoTable, !.scoped = TRUE,
                                 !.columns = Copied, !.data = @ \cap Copied]
  BY ColumnNames DEF After, Rebuild, DuringRebuild, hasLegacyDedupeUnique
<1> QED
  BY <1>1, <1>2, <1>3, <1>4

\* They do nothing to one that has the new identity.
LEMMA AfterScoped == ASSUME db.scoped, NEW s \in Rebuild PROVE After(s) = db
  BY ColumnNames DEF After, Rebuild, hasLegacyDedupeUnique

\* What every other statement keeps.
LEMMA AfterOther ==
  ASSUME db \in Db, NEW s, s \notin Rebuild
  PROVE  /\ After(s) \in Db
         /\ After(s).new = db.new /\ After(s).jobs = db.jobs /\ After(s).events = db.events
         /\ After(s).data = db.data /\ After(s).scoped = db.scoped
<1> DEFINE Keeps(d) == /\ d \in Db
                       /\ d.new = db.new /\ d.jobs = db.jobs /\ d.events = db.events
                       /\ d.data = db.data /\ d.scoped = db.scoped
<1>1. Keeps(db)
  OBVIOUS
<1>2. ASSUME NEW c \in Columns PROVE Keeps(WithColumn(c))
  BY DEF WithColumn, Db
<1>3. Keeps([db EXCEPT !.blank = {}])
  BY DEF Db
<1>4. Keeps([db EXCEPT !.unkeyed = {l \in @ : \E m \in @ : m < l}])
  BY DEF Db
<1>5. Keeps([db EXCEPT !.profiles = TRUE]) /\ Keeps([db EXCEPT !.sessions = TRUE])
  BY DEF Db
<1>6. Keeps([db EXCEPT !.linked = db.jobs])
  BY DEF Db, NoTable
<1>7. /\ Keeps([db EXCEPT !.imported = Imports]) /\ Keeps([db EXCEPT !.timelines = Timelines])
      /\ Keeps([db EXCEPT !.marker = TRUE])
  <2>1. Imports \subseteq Leads /\ Timelines \subseteq Leads
    BY DEF Imports, Timelines, Db
  <2> QED
    BY <2>1 DEF Db
<1>8. s \in {"import jobs", "import events", "marker"} => Keeps(DuringImport(s))
  BY <1>7 DEF DuringImport
<1> SUFFICES Keeps(After(s))
  BY DEF Keeps
<1> HIDE DEF Keeps
<1>9. CASE s \in Columns
  BY <1>2, <1>9, ColumnNames DEF After, Rebuild
<1>10. CASE s \in {"import jobs", "import events", "marker"}
  BY <1>1, <1>8, <1>10, ColumnNames DEF After
<1>11. CASE s \notin Columns /\ s \notin {"import jobs", "import events", "marker"}
  BY <1>1, <1>3, <1>4, <1>5, <1>6, <1>11 DEF After, backfillJobProfiles
<1> QED
  BY <1>9, <1>10, <1>11

-----------------------------------------------------------------------------

\* The file of any release is whole.
LEMMA MigrationInit == Init => MigrationInv
<1> SUFFICES ASSUME Init PROVE MigrationInv
  OBVIOUS
<1>1. PICK n \in 0..Len(Releases), scoped, profiles \in BOOLEAN : WrittenBy(n, scoped, profiles)
  BY DEF Init
<1>2. n \in 0..8 /\ held = {Releases[i] : i \in 1..n} /\ (n > 5 => scoped)
  BY <1>1 DEF WrittenBy, Releases
<1>3. held \subseteq Columns
  BY <1>2 DEF Columns, Releases, ToSet
<1>4. n <= 5 => held \subseteq Copied /\ "monitoring" \notin held
  BY <1>2 DEF Copied, Releases
<1>5. ~scoped => held \subseteq Copied /\ WithTimeline = {}
  BY <1>1, <1>2, <1>4 DEF WrittenBy
<1>6. /\ db \in Db /\ db.new = NoTable /\ db.jobs = Leads /\ db.data = held
      /\ db.events = WithTimeline /\ db.scoped = scoped
  <2>1. NoTable \in (SUBSET Leads) \cup {{0}}
    BY DEF NoTable
  <2>2. /\ (IF n >= 5 THEN {} ELSE Leads) \in SUBSET Leads
        /\ (IF n >= 1 THEN {} ELSE Leads) \in SUBSET Leads
        /\ (IF profiles THEN Leads ELSE {}) \in SUBSET Leads
    OBVIOUS
  <2>3. WithTimeline \in SUBSET Leads
    BY DEF WithTimeline
  <2> QED
    BY <1>1, <1>3, <2>1, <2>2, <2>3 DEF WrittenBy, Db
<1>7. Whole(db)
  BY <1>5, <1>6 DEF Whole
<1>8. disk = db /\ pc = 1 /\ crashes = 0 /\ file \in [Leads -> [identity : Identities, timeline : BOOLEAN]]
  BY DEF Init
<1>9. TypeOK
  BY <1>3, <1>6, <1>8, ReadyAt, MigrationAssumption DEF TypeOK
<1>10. Whole(disk)
  BY <1>7, <1>8 DEF Whole
<1> QED
  BY <1>7, <1>8, <1>9, <1>10 DEF MigrationInv, Copy, Rename

\* A statement of the rebuild: it is done at once, or not committed before its end.
LEMMA RebuildKeeps ==
  ASSUME MigrationInv, Statement, pc \in NewTable..Rename
  PROVE  MigrationInv'
<1>1. /\ db \in Db /\ disk \in Db /\ Whole(disk)
      /\ UNCHANGED <<file, held, crashes>>
  BY DEF MigrationInv, TypeOK, Statement
<1>2. pc \in {NewTable, Copy, Drop, Rename} /\ pc \in Nat
  BY DEF NewTable, Copy, Drop, Rename
<1>3. Plan[pc] \in Rebuild
  BY <1>2, RebuildAt DEF Rebuild
<1>4. pc' = pc + 1 /\ db' = After(Plan[pc])
  BY <1>3 DEF Statement, Repeats, Rebuild
<1>5. disk' = (IF pc = Rename THEN db' ELSE disk)
  BY <1>2, RebuildAt DEF Statement, Commits, NewTable, Copy, Drop, Rename
<1>6. CASE db.scoped
  <2>1. db' = db /\ Whole(db)
    BY <1>3, <1>4, <1>6, AfterScoped DEF MigrationInv
  <2>2. Whole(db)' /\ Whole(disk)'
    BY <1>1, <1>5, <2>1 DEF Whole, WithTimeline
  <2>3. TypeOK'
    BY <1>1, <1>2, <1>4, <1>5, <2>1, TypesStay DEF MigrationInv, NewTable, Copy, Drop, Rename
  <2> QED
    BY <1>6, <2>1, <2>2, <2>3 DEF MigrationInv
<1>7. CASE ~db.scoped /\ pc = NewTable
  <2>0. Whole(db)
    BY <1>7 DEF MigrationInv, NewTable, Copy, Rename
  <2>1. db' = [db EXCEPT !.new = {}] /\ Whole(db)
    BY <1>4, <1>7, <2>0, AfterRebuild, RebuildAt
  <2>2. /\ db' \in Db /\ db'.new = {} /\ db'.jobs = Leads
        /\ db'.data = db.data /\ db'.events = db.events /\ ~db'.scoped
    BY <1>1, <1>7, <2>1 DEF Db, Whole
  <2>3. pc' = Copy /\ disk' = disk
    BY <1>4, <1>5, <1>7 DEF NewTable, Copy, Rename
  <2>4. Rebuilding' /\ Whole(disk)'
    BY <1>1, <1>7, <2>1, <2>2, <2>3 DEF Rebuilding, Whole, Copy, Drop, Rename, WithTimeline
  <2>5. TypeOK'
    BY <1>1, <2>2, <2>3, TypesStay DEF MigrationInv, Copy
  <2> QED
    BY <2>2, <2>3, <2>4, <2>5 DEF MigrationInv, Copy, Rename
<1>8. CASE ~db.scoped /\ pc = Copy
  <2>0. Rebuilding
    BY <1>8 DEF MigrationInv, Copy, Rename
  <2>1. db' = [db EXCEPT !.new = db.jobs] /\ Rebuilding
    BY <1>4, <1>8, <2>0, AfterRebuild, RebuildAt
  <2>2. /\ db' \in Db /\ db'.new = Leads /\ db'.jobs = Leads
        /\ db'.data = db.data /\ db'.events = db.events /\ ~db'.scoped
    BY <1>1, <1>8, <2>1 DEF Db, Rebuilding
  <2>3. pc' = Drop /\ disk' = disk
    BY <1>4, <1>5, <1>8 DEF Drop, Copy, Rename
  <2>4. Rebuilding' /\ Whole(disk)'
    BY <1>1, <1>8, <2>1, <2>2, <2>3 DEF Rebuilding, Whole, Copy, Drop, Rename, WithTimeline
  <2>5. TypeOK'
    BY <1>1, <2>2, <2>3, TypesStay DEF MigrationInv, Drop
  <2> QED
    BY <2>2, <2>3, <2>4, <2>5 DEF MigrationInv, Drop, Copy, Rename
<1>9. CASE ~db.scoped /\ pc = Drop
  <2>0. Rebuilding
    BY <1>9 DEF MigrationInv, Copy, Drop, Rename
  <2>1. db' = [db EXCEPT !.jobs = {}, !.linked = {}, !.events = {}] /\ Rebuilding
    BY <1>4, <1>9, <2>0, AfterRebuild, RebuildAt
  <2>2. /\ db' \in Db /\ db'.new = Leads /\ db'.jobs = {}
        /\ db'.data = db.data /\ db'.events = {} /\ ~db'.scoped
    BY <1>1, <1>9, <2>1 DEF Db, Rebuilding
  <2>3. pc' = Rename /\ disk' = disk
    BY <1>4, <1>5, <1>9 DEF Drop, Copy, Rename
  <2>4. Rebuilding' /\ Whole(disk)'
    BY <1>1, <1>9, <2>1, <2>2, <2>3 DEF Rebuilding, Whole, Copy, Drop, Rename, WithTimeline
  <2>5. TypeOK'
    BY <1>1, <2>2, <2>3, TypesStay DEF MigrationInv, Rename
  <2> QED
    BY <2>2, <2>3, <2>4, <2>5 DEF MigrationInv, Drop, Copy, Rename
<1>10. CASE ~db.scoped /\ pc = Rename
  <2>0. Rebuilding /\ db.new = Leads
    BY <1>10 DEF MigrationInv, Rebuilding, Copy, Drop, Rename
  <2>1. Rebuilding /\ db' = [db EXCEPT !.jobs = db.new, !.new = NoTable, !.scoped = TRUE,
                                      !.columns = Copied, !.data = @ \cap Copied]
    BY <1>4, <1>10, <2>0, AfterRebuild, RebuildAt
  <2>2. Copied \subseteq Columns
    BY ColumnNames DEF Copied
  <2>3. /\ db' \in Db /\ db'.new = NoTable /\ db'.jobs = Leads
        /\ db'.data = db.data \cap Copied /\ db'.events = db.events /\ db'.scoped
    <3> DEFINE data == db.data \cap Copied
    <3>1. NoTable \in (SUBSET Leads) \cup {{0}} /\ data \in SUBSET Columns
      BY <2>2 DEF NoTable
    <3>2. db' = [db EXCEPT !.jobs = Leads, !.new = NoTable, !.scoped = TRUE,
                           !.columns = Copied, !.data = data]
      BY <2>0, <2>1
    <3> HIDE DEF data
    <3> QED
      BY <1>1, <2>2, <3>1, <3>2 DEF Db, data
  <2>4. pc' = 12 /\ disk' = db'
    BY <1>4, <1>5, <1>10 DEF Rename
  <2>5. Whole(db)' /\ Whole(disk)'
    BY <1>1, <2>1, <2>3, <2>4 DEF Rebuilding, Whole, WithTimeline
  <2>6. TypeOK'
    BY <1>1, <2>3, <2>4, TypesStay DEF MigrationInv
  <2> QED
    BY <2>3, <2>4, <2>5, <2>6 DEF MigrationInv
<1> QED
  BY <1>2, <1>6, <1>7, <1>8, <1>9, <1>10

\* Every other statement adds to a whole database; it may wait for its transaction.
LEMMA OtherKeeps ==
  ASSUME MigrationInv, Statement, pc \notin NewTable..Rename
  PROVE  MigrationInv'
<1>1. /\ db \in Db /\ disk \in Db /\ Whole(disk) /\ Whole(db)
      /\ pc \in 1..23 /\ UNCHANGED <<file, held, crashes>>
  <2>1. db \in Db /\ disk \in Db /\ pc \in 1..23 /\ UNCHANGED <<file, held, crashes>>
    BY ReadyAt DEF MigrationInv, TypeOK, Statement
  <2>2. pc \notin Copy..Rename
    BY <2>1 DEF NewTable, Copy, Rename
  <2> QED
    BY <2>1, <2>2 DEF MigrationInv
<1>2. Plan[pc] \notin Rebuild
  BY <1>1, RebuildOnlyAt
<1>3. db' = After(Plan[pc]) /\ disk' \in {disk, db'} /\ pc' \in {pc, pc + 1}
  BY DEF Statement
<1>4. /\ db' \in Db /\ db'.new = db.new /\ db'.jobs = db.jobs /\ db'.events = db.events
      /\ db'.data = db.data /\ db'.scoped = db.scoped
  BY <1>1, <1>2, <1>3, AfterOther
<1>5. Whole(db)' /\ Whole(disk)'
  BY <1>1, <1>3, <1>4 DEF Whole, WithTimeline
<1>6. TypeOK'
  BY <1>1, <1>3, <1>4, TypesStay DEF MigrationInv
<1>7. pc' \notin Copy..Rename
  BY <1>1, <1>3 DEF NewTable, Copy, Rename
<1> QED
  BY <1>5, <1>6, <1>7 DEF MigrationInv

\* A start from the top sees what is on the disk.
LEMMA StartOverKeeps ==
  ASSUME MigrationInv, db' = disk, pc' = 1, crashes' \in 0..MaxCrashes,
         UNCHANGED <<disk, file, held>>
  PROVE  MigrationInv'
<1>1. TypeOK'
  BY ReadyAt DEF MigrationInv, TypeOK
<1>2. Whole(db)' /\ Whole(disk)'
  BY DEF MigrationInv, Whole, WithTimeline
<1> QED
  BY <1>1, <1>2 DEF MigrationInv, Copy, Rename

\* No statement, refusal or crash loses what the old file held.
LEMMA MigrationNextKeeps == ASSUME MigrationInv, [Next]_vars PROVE MigrationInv'
<1>1. CASE Statement
  BY <1>1, RebuildKeeps, OtherKeeps
<1>2. CASE Refused
  BY <1>2, StartOverKeeps DEF Refused, MigrationInv, TypeOK
<1>3. CASE Crash
  <2>1. crashes' \in 0..MaxCrashes
    BY <1>3, MigrationAssumption DEF Crash, MigrationInv, TypeOK
  <2> QED
    BY <1>3, <2>1, StartOverKeeps DEF Crash
<1>4. CASE UNCHANGED vars
  BY <1>4 DEF MigrationInv, TypeOK, Whole, Rebuilding, vars, WithTimeline
<1> QED
  BY <1>1, <1>2, <1>3, <1>4 DEF Next

-----------------------------------------------------------------------------

-----------------------------------------------------------------------------
(* What each statement has done, once the plan is past it.                 *)

Complete(d) == d.imported = Leads \ Shadowed
Dated(d) == d.timelines = WithTimeline

\* The marker stands for a finished import.
MarkerIsTrue(d) == d.marker => Complete(d) /\ Dated(d)

Done ==
  /\ \A i \in 1..23 : (i < pc /\ Plan[i] \in Columns) => Plan[i] \in db.columns
  /\ pc > 7  => db.blank = {}
  /\ pc > Rename => db.scoped
  /\ pc > 15 => db.unkeyed = {}
  /\ pc > 18 => db.linked = Leads
  /\ pc > 20 => Complete(db)
  /\ pc > 21 => Dated(db)
  /\ pc > 22 => db.marker
  /\ pc > 23 => db.sessions

DoneInv == MigrationInv /\ MarkerIsTrue(disk) /\ MarkerIsTrue(db) /\ Done

\* What a statement outside of the rebuild never takes back.
Grows(d) ==
  /\ db.columns \subseteq d.columns
  /\ d.blank \subseteq db.blank /\ d.unkeyed \subseteq db.unkeyed
  /\ (db.sessions => d.sessions) /\ (db.marker => d.marker)
  /\ d.linked \in {db.linked, db.jobs}
  /\ d.imported \in {db.imported, Imports} /\ d.timelines \in {db.timelines, Timelines}

\* Statement by statement.
LEMMA AfterGrows ==
  ASSUME db \in Db, NEW s, s \notin Rebuild
  PROVE  Grows(After(s))
<1>1. Grows(db)
  BY DEF Grows
<1>2. ASSUME NEW c \in Columns PROVE Grows(WithColumn(c))
  BY DEF WithColumn, Db, Grows
<1>3. Grows([db EXCEPT !.blank = {}])
  BY DEF Db, Grows
<1>4. Grows([db EXCEPT !.unkeyed = {l \in @ : \E m \in @ : m < l}])
  BY DEF Db, Grows
<1>5. Grows([db EXCEPT !.profiles = TRUE]) /\ Grows([db EXCEPT !.sessions = TRUE])
  BY DEF Db, Grows
<1>6. Grows([db EXCEPT !.linked = db.jobs])
  BY DEF Db, Grows
<1>7. /\ Grows([db EXCEPT !.imported = Imports]) /\ Grows([db EXCEPT !.timelines = Timelines])
      /\ Grows([db EXCEPT !.marker = TRUE])
  BY DEF Db, Grows
<1>8. s \in {"import jobs", "import events", "marker"} => Grows(DuringImport(s))
  BY <1>7 DEF DuringImport
<1>9. CASE s \in Columns
  BY <1>2, <1>9, ColumnNames DEF After, Rebuild
<1>10. CASE s \in {"import jobs", "import events", "marker"}
  BY <1>1, <1>8, <1>10, ColumnNames DEF After
<1>11. CASE s \notin Columns /\ s \notin {"import jobs", "import events", "marker"}
  BY <1>1, <1>3, <1>4, <1>5, <1>6, <1>11 DEF After, backfillJobProfiles
<1> QED
  BY <1>9, <1>10, <1>11

\* What each statement achieves.
LEMMA AfterReaches ==
  ASSUME db \in Db
  PROVE  /\ \A c \in Columns : c \in After(c).columns
         /\ After("blank profiles").blank = {}
         /\ After("url keys").unkeyed = {l \in db.unkeyed : \E m \in db.unkeyed : m < l}
         /\ After("owner links").linked = db.jobs
         /\ After("sessions").sessions
         /\ db.marker => After("import jobs") = db /\ After("import events") = db
         /\ ~db.marker => /\ After("import jobs").imported = Imports
                          /\ After("import events").timelines = Timelines
         /\ After("marker").marker
         /\ After("marker").imported = db.imported /\ After("marker").timelines = db.timelines
<1>1. \A c \in Columns : c \in After(c).columns
  BY ColumnNames DEF After, Rebuild, WithColumn, Db
<1>2. /\ After("blank profiles").blank = {}
      /\ After("url keys").unkeyed = {l \in db.unkeyed : \E m \in db.unkeyed : m < l}
  BY ColumnNames DEF After, Rebuild, Db
<1>3. After("owner links").linked = db.jobs /\ After("sessions").sessions
  BY ColumnNames DEF After, Rebuild, Db, backfillJobProfiles
<1>4. db.marker => After("import jobs") = db /\ After("import events") = db
  BY ColumnNames DEF After, Rebuild
<1>5. ~db.marker => /\ After("import jobs").imported = Imports
                   /\ After("import events").timelines = Timelines
  BY ColumnNames DEF After, Rebuild, DuringImport, Db
<1>6. /\ After("marker").marker
      /\ After("marker").imported = db.imported /\ After("marker").timelines = db.timelines
  BY ColumnNames DEF After, Rebuild, DuringImport, Db
<1> QED
  BY <1>1, <1>2, <1>3, <1>4, <1>5, <1>6

\* Only the statement of the marker sets it.
LEMMA MarkerOnlyThere ==
  ASSUME db \in Db, NEW s, s \notin Rebuild, s # "marker"
  PROVE  After(s).marker = db.marker
<1>1. CASE s \in Columns
  BY <1>1, ColumnNames DEF After, Rebuild, WithColumn, Db
<1>2. CASE s \in {"import jobs", "import events"}
  BY <1>2, ColumnNames DEF After, Rebuild, DuringImport, Db
<1>3. CASE s \notin Columns /\ s \notin {"import jobs", "import events"}
  BY <1>3 DEF After, Db, backfillJobProfiles
<1> QED
  BY <1>1, <1>2, <1>3

-----------------------------------------------------------------------------

\* Nothing is done in a file of an earlier release.
LEMMA DoneInit == Init => DoneInv
<1> SUFFICES ASSUME Init PROVE DoneInv
  OBVIOUS
<1>0. ~db.marker
  BY DEF Init, WrittenBy
<1>1. MigrationInv /\ pc = 1 /\ disk = db /\ ~db.marker
  BY <1>0, MigrationInit DEF Init
<1>2. Done
  BY <1>1 DEF Done, Rename
<1> QED
  BY <1>1, <1>2 DEF DoneInv, MarkerIsTrue

\* The rebuild drops only columns that are added after it.
LEMMA DoneRebuild ==
  ASSUME DoneInv, Statement, pc \in NewTable..Rename
  PROVE  DoneInv'
<1>1. /\ db \in Db /\ disk \in Db /\ UNCHANGED <<file, held>> /\ MigrationInv'
      /\ MarkerIsTrue(db) /\ MarkerIsTrue(disk) /\ Done
  BY RebuildKeeps DEF DoneInv, MigrationInv, TypeOK, Statement
<1>2. pc \in {NewTable, Copy, Drop, Rename}
  BY DEF NewTable, Copy, Drop, Rename
<1>3. Plan[pc] \in Rebuild
  BY <1>2, RebuildAt DEF Rebuild
<1>4. pc' = pc + 1 /\ db' = After(Plan[pc]) /\ disk' \in {disk, db'}
  BY <1>3 DEF Statement, Repeats, Rebuild
<1>5. /\ db'.blank = db.blank /\ db'.imported = db.imported
      /\ db'.timelines = db.timelines /\ db'.marker = db.marker
      /\ db'.columns = db.columns \/ (pc = Rename /\ db'.columns = Copied)
      /\ pc = Rename => db'.scoped
  <2>1. CASE db.scoped
    BY <1>3, <1>4, <2>1, AfterScoped
  <2>2. CASE ~db.scoped /\ pc = NewTable
    <3>1. db' = [db EXCEPT !.new = {}]
      BY <1>4, <2>2, AfterRebuild, RebuildAt
    <3>2. pc # Rename
      BY <2>2 DEF NewTable, Copy, Drop, Rename
    <3> QED
      BY <1>1, <3>1, <3>2 DEF Db
  <2>3. CASE ~db.scoped /\ pc = Copy
    <3>1. db' = [db EXCEPT !.new = db.jobs]
      BY <1>4, <2>3, AfterRebuild, RebuildAt
    <3>2. pc # Rename
      BY <2>3 DEF NewTable, Copy, Drop, Rename
    <3> QED
      BY <1>1, <3>1, <3>2 DEF Db
  <2>4. CASE ~db.scoped /\ pc = Drop
    <3>1. db' = [db EXCEPT !.jobs = {}, !.linked = {}, !.events = {}]
      BY <1>4, <2>4, AfterRebuild, RebuildAt
    <3>2. pc # Rename
      BY <2>4 DEF NewTable, Copy, Drop, Rename
    <3> QED
      BY <1>1, <3>1, <3>2 DEF Db
  <2>5. CASE ~db.scoped /\ pc = Rename
    <3>1. db' = [db EXCEPT !.jobs = db.new, !.new = NoTable, !.scoped = TRUE,
                           !.columns = Copied, !.data = @ \cap Copied]
      BY <1>4, <2>5, AfterRebuild, RebuildAt
    <3> QED
      BY <1>1, <2>5, <3>1 DEF Db
  <2> QED
    BY <1>2, <2>1, <2>2, <2>3, <2>4, <2>5
<1>6. MarkerIsTrue(db)' /\ MarkerIsTrue(disk)'
  BY <1>1, <1>4, <1>5 DEF MarkerIsTrue, Complete, Dated, Shadowed, WithTimeline
<1>7. ASSUME NEW i \in 1..23, i < pc', Plan[i] \in Columns PROVE Plan[i] \in db'.columns
  <2>1. CASE i = pc
    BY <1>3, <1>7, <2>1, ColumnNames DEF Rebuild
  <2>2. CASE i < pc /\ db'.columns = db.columns
    <3>1. Plan[i] \in db.columns
      BY <1>1, <1>7, <2>2 DEF Done
    <3> QED
      BY <2>2, <3>1
  <2>3. CASE i < pc /\ pc = Rename /\ db'.columns = Copied
    <3>1. \/ i = 1 \/ i = 2 \/ i = 3 \/ i = 4 \/ i = 5 \/ i = 6 \/ i = 7
          \/ i = NewTable \/ i = Copy \/ i = Drop
      BY <2>3 DEF NewTable, Copy, Drop, Rename
    <3>2. Plan[i] \in {"jobs", "blank profiles", "new table", "copy", "drop"} \cup Copied
      BY <3>1, PlanAt DEF Copied
    <3>3. Plan[i] \notin {"jobs", "blank profiles", "new table", "copy", "drop"}
      BY <1>7, ColumnNames
    <3> QED
      BY <2>3, <3>2, <3>3
  <2>4. i = pc \/ i < pc
    BY <1>2, <1>4, <1>7 DEF NewTable, Copy, Drop, Rename
  <2> QED
    BY <1>5, <2>1, <2>2, <2>3, <2>4
<1>8. pc' \in 9..12 /\ (pc' > Rename => pc = Rename) /\ pc > 7
  BY <1>2, <1>4 DEF NewTable, Copy, Drop, Rename
<1>9. db'.blank = {} /\ (pc' > Rename => db'.scoped)
  BY <1>1, <1>5, <1>8 DEF Done
<1>10. Done'
  BY <1>7, <1>8, <1>9 DEF Done
<1> QED
  BY <1>1, <1>6, <1>10 DEF DoneInv

\* The import takes the oldest lead of each identity, with its timeline.
LEMMA ImportsAre ==
  ASSUME Whole(db)
  PROVE  Imports = Leads \ Shadowed /\ Timelines = WithTimeline
<1>1. Leads \subseteq Nat /\ db.jobs = Leads
  BY MigrationAssumption DEF Whole
<1>2. ASSUME NEW l \in Leads, NEW m \in Leads PROVE (l <= m) <=> ~(m < l)
  BY <1>1
<1>3. ASSUME NEW l \in Leads PROVE l \in Imports <=> l \notin Shadowed
  BY <1>1, <1>2 DEF Imports, Shadowed
<1>4. Imports \subseteq Leads
  BY <1>1 DEF Imports
<1>5. Imports = Leads \ Shadowed
  BY <1>3, <1>4
<1>6. Timelines = WithTimeline
  BY DEF Whole, Timelines
<1> QED
  BY <1>5, <1>6

\* Every other statement does its part, and takes back none of the others'.
LEMMA DoneOther ==
  ASSUME DoneInv, Statement, pc \notin NewTable..Rename
  PROVE  DoneInv'
<1> DEFINE s == Plan[pc]
<1>1. /\ db \in Db /\ pc \in 1..23 /\ UNCHANGED <<file, held>>
      /\ MarkerIsTrue(db) /\ MarkerIsTrue(disk) /\ Done
  BY ReadyAt DEF DoneInv, MigrationInv, TypeOK, Statement
<1>2. Whole(db) /\ MigrationInv'
  <2>1. pc \notin Copy..Rename
    BY <1>1 DEF NewTable, Copy, Rename
  <2> QED
    BY <2>1, OtherKeeps DEF DoneInv, MigrationInv
<1>3. s \notin Rebuild
  BY <1>1, RebuildOnlyAt
<1>4. /\ db' = After(s) /\ disk' \in {disk, db'}
      /\ pc' = IF Repeats(s) THEN pc ELSE pc + 1
  BY DEF Statement
<1>5. Grows(db') /\ db'.scoped = db.scoped
  BY <1>1, <1>3, <1>4, AfterGrows, AfterOther
<1>6. /\ Imports = Leads \ Shadowed /\ Timelines = WithTimeline
      /\ db.jobs = Leads /\ Shadowed' = Shadowed /\ file' = file
  BY <1>1, <1>2, ImportsAre DEF Whole, Shadowed
<1>7. pc' = pc \/ pc' = pc + 1
  BY <1>4
<1>8. /\ Complete(db) => Complete(db)'
      /\ Dated(db) => Dated(db)'
  BY <1>5, <1>6 DEF Grows, Complete, Dated, WithTimeline
<1>9. \A i \in 1..23 : (i < pc' /\ Plan[i] \in Columns) => Plan[i] \in db'.columns
  <2> SUFFICES ASSUME NEW i \in 1..23, i < pc', Plan[i] \in Columns
               PROVE  Plan[i] \in db'.columns
    OBVIOUS
  <2>1. CASE i < pc
    BY <1>1, <1>5, <2>1 DEF Done, Grows
  <2>2. CASE i = pc
    BY <1>1, <1>4, <2>2, AfterReaches
  <2> QED
    BY <1>1, <1>7, <2>1, <2>2
<1>10. pc' > 7 => db'.blank = {}
  <2>1. CASE pc > 7
    BY <1>1, <1>5, <2>1 DEF Done, Grows
  <2>2. CASE pc = 7
    BY <1>1, <1>4, <2>2, AfterReaches, PlanAt
  <2> QED
    BY <1>1, <1>7, <2>1, <2>2
<1>11. pc' > Rename => db'.scoped
  BY <1>1, <1>5, <1>7 DEF Done, NewTable, Rename
<1>12. pc' > 15 => db'.unkeyed = {}
  <2>1. CASE pc > 15
    BY <1>1, <1>5, <2>1 DEF Done, Grows
  <2>2. CASE pc = 15
    <3>1. s = "url keys"
      BY <2>2, PlanAt
    <3>2. db'.unkeyed = {l \in db.unkeyed : \E m \in db.unkeyed : m < l}
      BY <1>1, <1>4, <3>1, AfterReaches
    <3>3. (\E l, m \in db.unkeyed : l < m) => Repeats(s)
      BY <3>1 DEF Repeats
    <3>4. Repeats(s) => pc' = 15
      BY <1>4, <2>2
    <3> QED
      BY <3>2, <3>3, <3>4
  <2> QED
    BY <1>1, <1>7, <2>1, <2>2
<1>13. pc' > 18 => db'.linked = Leads
  <2>1. CASE pc > 18
    BY <1>1, <1>5, <1>6, <2>1 DEF Done, Grows
  <2>2. CASE pc = 18
    BY <1>1, <1>4, <1>6, <2>2, AfterReaches, PlanAt
  <2> QED
    BY <1>1, <1>7, <2>1, <2>2
<1>14. pc' > 20 => Complete(db)'
  <2>1. CASE pc > 20
    BY <1>1, <1>8, <2>1 DEF Done
  <2>2. CASE pc = 20
    <3>1. s = "import jobs"
      BY <2>2, PlanAt
    <3>2. CASE db.marker
      BY <1>1, <1>8, <3>2 DEF MarkerIsTrue
    <3>3. CASE ~db.marker
      BY <1>1, <1>4, <1>6, <3>1, <3>3, AfterReaches DEF Complete
    <3> QED
      BY <3>2, <3>3
  <2> QED
    BY <1>1, <1>7, <2>1, <2>2
<1>15. pc' > 21 => Dated(db)'
  <2>1. CASE pc > 21
    BY <1>1, <1>8, <2>1 DEF Done
  <2>2. CASE pc = 21
    <3>1. s = "import events"
      BY <2>2, PlanAt
    <3>2. CASE db.marker
      BY <1>1, <1>8, <3>2 DEF MarkerIsTrue
    <3>3. CASE ~db.marker
      BY <1>1, <1>4, <1>6, <3>1, <3>3, AfterReaches DEF Dated, WithTimeline
    <3> QED
      BY <3>2, <3>3
  <2> QED
    BY <1>1, <1>7, <2>1, <2>2
<1>16. pc' > 22 => db'.marker
  <2>1. CASE pc > 22
    BY <1>1, <1>5, <2>1 DEF Done, Grows
  <2>2. CASE pc = 22
    BY <1>1, <1>4, <2>2, AfterReaches, PlanAt
  <2> QED
    BY <1>1, <1>7, <2>1, <2>2
<1>17. pc' > 23 => db'.sessions
  <2>1. CASE pc = 23
    BY <1>1, <1>4, <2>1, AfterReaches, PlanAt
  <2> QED
    BY <1>1, <1>7, <2>1
<1>18. MarkerIsTrue(db)'
  <2>1. CASE db.marker
    BY <1>1, <1>8, <2>1 DEF MarkerIsTrue
  <2>2. CASE s # "marker" /\ ~db.marker
    BY <1>1, <1>3, <1>4, <2>2, MarkerOnlyThere DEF MarkerIsTrue
  <2>3. CASE s = "marker"
    <3>1. pc > 21
      <4> SUFFICES ASSUME pc \in 1..21 PROVE FALSE
        BY <1>1
      <4>1. \/ pc = 1 \/ pc = 2 \/ pc = 3 \/ pc = 4 \/ pc = 5 \/ pc = 6 \/ pc = 7
            \/ pc = NewTable \/ pc = Copy \/ pc = Drop \/ pc = Rename
            \/ pc = 12 \/ pc = 13 \/ pc = 14 \/ pc = 15 \/ pc = 16
            \/ pc = 17 \/ pc = 18 \/ pc = 19 \/ pc = 20 \/ pc = 21
        BY DEF NewTable, Copy, Drop, Rename
      <4> QED
        BY <2>3, <4>1, PlanAt
    <3>2. Complete(db) /\ Dated(db)
      BY <1>1, <3>1 DEF Done
    <3> QED
      BY <1>8, <3>2 DEF MarkerIsTrue
  <2> QED
    BY <2>1, <2>2, <2>3
<1>19. MarkerIsTrue(disk)'
  BY <1>1, <1>4, <1>6, <1>18 DEF MarkerIsTrue, Complete, Dated, WithTimeline
<1> HIDE DEF s
<1>20. Done'
  BY <1>9, <1>10, <1>11, <1>12, <1>13, <1>14, <1>15, <1>16, <1>17 DEF Done
<1> QED
  BY <1>2, <1>18, <1>19, <1>20 DEF DoneInv

\* A start from the top has done nothing yet, and finds the marker on the disk.
LEMMA DoneStartsOver ==
  ASSUME DoneInv, MigrationInv', db' = disk, pc' = 1, UNCHANGED <<disk, file, held>>
  PROVE  DoneInv'
<1>1. Done'
  BY DEF Done, Rename
<1>2. MarkerIsTrue(disk)' /\ MarkerIsTrue(db)'
  BY DEF DoneInv, MarkerIsTrue, Complete, Dated, Shadowed, WithTimeline
<1> QED
  BY <1>1, <1>2 DEF DoneInv

\* No step undoes what the plan is past.
LEMMA DoneNextKeeps == ASSUME DoneInv, [Next]_vars PROVE DoneInv'
<1>1. MigrationInv'
  BY MigrationNextKeeps DEF DoneInv
<1>2. CASE Statement
  BY <1>2, DoneRebuild, DoneOther
<1>3. CASE Refused \/ Crash
  BY <1>1, <1>3, DoneStartsOver DEF Refused, Crash
<1>4. CASE UNCHANGED vars
  BY <1>1, <1>4 DEF DoneInv, Done, MarkerIsTrue, Complete, Dated, Shadowed, vars, WithTimeline
<1> QED
  BY <1>2, <1>3, <1>4 DEF Next

\* A plan that is done has completed the database.
LEMMA DoneIsComplete == ASSUME DoneInv PROVE ReadyIsComplete
<1> SUFFICES ASSUME pc = Ready PROVE ReadyIsComplete
  BY DEF ReadyIsComplete
<1>1. /\ pc = 24 /\ db \in Db /\ Done /\ Whole(db)
  BY ReadyAt DEF DoneInv, MigrationInv, TypeOK, Copy, Rename
<1>2. /\ \A i \in 1..23 : Plan[i] \in Columns => Plan[i] \in db.columns
      /\ db.blank = {} /\ db.scoped /\ db.unkeyed = {} /\ db.linked = Leads
      /\ Complete(db) /\ Dated(db) /\ db.sessions
  BY <1>1 DEF Done, Rename
<1>3. Columns \subseteq {Plan[2], Plan[3], Plan[4], Plan[5], Plan[6], Plan[12], Plan[13], Plan[14]}
  BY PlanAt, ColumnNames
<1>4. db.columns = Columns
  <2>1. \A c \in Columns : c \in db.columns
    BY <1>2, <1>3
  <2>2. db.columns \subseteq Columns
    BY <1>1 DEF Db
  <2> QED
    BY <2>1, <2>2
<1>5. db.timelines = WithTimeline
  BY <1>2 DEF Dated
<1> QED
  BY <1>2, <1>4, <1>5 DEF ReadyIsComplete, Complete

-----------------------------------------------------------------------------
(* The pages.                                                              *)

Sets == SUBSET Pages!Ids

\* Overview counts with its own instance of FiniteSets; the two count alike.
LEMMA SizesAgree == \A S : Pages!Cardinality(S) = Cardinality(S)
BY DEF Pages!Cardinality, Cardinality

LEMMA NewestIs ==
  \A ids, n : Pages!Newest(ids, n) = {i \in ids : Cardinality({j \in ids : j > i}) < n}
BY DEF Pages!Newest, Pages!Cardinality, Cardinality

LEMMA PagesBounds ==
  /\ MaxId \in Nat /\ PageSize \in Nat \ {0} /\ Pages!Ids \subseteq Nat \ {0}
  /\ IsFiniteSet(Pages!Ids)
BY WorkspaceAssumption, FS_Interval DEF Pages!OverviewAssumption, Pages!Ids

\* Sets of ids are finite, and so are their parts.
LEMMA IdsAreFinite ==
  ASSUME NEW ids \in Sets
  PROVE  IsFiniteSet(ids) /\ Cardinality(ids) \in Nat /\ ids \subseteq Nat \ {0}
BY PagesBounds, FewerIds DEF Sets

\* Above an id of the newest there are only newest.
LEMMA NewestUpwards ==
  ASSUME NEW ids \in Sets, NEW n \in Nat,
         NEW i \in Pages!Newest(ids, n), NEW j \in ids, i <= j
  PROVE  j \in Pages!Newest(ids, n)
<1> DEFINE Above(k) == {m \in ids : m > k}
<1>1. i \in ids /\ Cardinality(Above(i)) < n
  BY NewestIs
<1>2. Above(j) \subseteq Above(i) /\ Above(i) \subseteq ids
  BY <1>1, IdsAreFinite
<1>3. Cardinality(Above(j)) <= Cardinality(Above(i)) /\ Cardinality(Above(i)) \in Nat
      /\ Cardinality(Above(j)) \in Nat
  BY <1>2, IdsAreFinite, FewerIds
<1>4. Cardinality(Above(j)) < n
  BY <1>1, <1>3
<1> QED
  BY <1>4, NewestIs

\* Of some ids one is the newest.
LEMMA NewestSome ==
  ASSUME NEW ids \in Sets, ids # {}, NEW n \in Nat \ {0}
  PROVE  Pages!Newest(ids, n) # {}
<1>1. PICK i \in ids : \A j \in ids : j <= i
  BY LargestId, PagesBounds DEF Sets, Pages!Ids
<1>2. {j \in ids : j > i} = {}
  BY <1>1, IdsAreFinite
<1>3. Cardinality({j \in ids : j > i}) < n
  BY <1>2, FS_EmptySet
<1> QED
  BY <1>3, NewestIs

\* As many ids as fit are all of them ...
LEMMA NewestFew ==
  ASSUME NEW ids \in Sets, NEW n \in Nat, Cardinality(ids) <= n
  PROVE  Pages!Newest(ids, n) = ids
<1>1. ASSUME NEW i \in ids PROVE Cardinality({j \in ids : j > i}) < n
  <2> DEFINE A == {j \in ids : j > i}
  <2>1. A \subseteq ids /\ A # ids
    BY IdsAreFinite
  <2> HIDE DEF A
  <2>2. Cardinality(A) < Cardinality(ids) /\ Cardinality(A) \in Nat /\ Cardinality(ids) \in Nat
    BY <2>1, IdsAreFinite, FewerIds
  <2> QED
    BY <2>2 DEF A
<1> QED
  BY <1>1, NewestIs

\* ... and if less than asked for are there, there are no more.
LEMMA NewestAll ==
  ASSUME NEW ids \in Sets, NEW n \in Nat, Cardinality(Pages!Newest(ids, n + 1)) <= n
  PROVE  Pages!Newest(ids, n + 1) = ids
<1> DEFINE N == Pages!Newest(ids, n + 1)
<1>1. N \subseteq ids
  BY NewestIs
<1> SUFFICES ASSUME ids \ N # {} PROVE FALSE
  BY <1>1
<1>2. PICK i \in ids \ N : \A j \in ids \ N : j <= i
  BY LargestId, PagesBounds DEF Sets, Pages!Ids
<1> DEFINE A == {j \in ids : j > i}
<1>3. A \subseteq N
  BY <1>2, IdsAreFinite
<1>4. N \in Sets
  BY <1>1 DEF Sets
<1>5. Cardinality(A) <= Cardinality(N) /\ Cardinality(A) \in Nat /\ Cardinality(N) \in Nat
  BY <1>3, <1>4, IdsAreFinite, FewerIds
<1>6. Cardinality(A) < n + 1
  BY <1>5
<1> QED
  BY <1>2, <1>6, NewestIs

\* Where more are than a number, some are.
LEMMA SomeAre == ASSUME NEW S, NEW n \in Nat, Cardinality(S) > n PROVE S # {}
<1> SUFFICES ASSUME S = {} PROVE FALSE
  OBVIOUS
<1>1. Cardinality(S) = 0
  BY FS_EmptySet
<1> QED
  BY <1>1

\* What is left of a list below a cursor.
Below(of, before) == {i \in Pages!Listed(of) : before > 0 => i < before}

\* A page without a next one ends the list; the cursor of the next one parts the
\* list between the rows of this page and those below.
LEMMA PageIs ==
  ASSUME NEW of, Pages!Listed(of) \in Sets, NEW before \in Pages!Ids \cup {0}
  PROVE  LET page == Pages!Page(of, before)  next == Pages!NextCursor(of, before)  L == Below(of, before)
         IN  /\ page \subseteq L /\ next \in Pages!Ids \cup {0}
             /\ next = 0 => page = L
             /\ next # 0 => /\ next \in page /\ \A i \in page : next <= i
                            /\ \A i \in L : next <= i => i \in page
<1> DEFINE page == Pages!Page(of, before)
           F == Pages!Fetched(of, before)
           L == Below(of, before)
<1>1. L \in Sets /\ F = Pages!Newest(L, PageSize + 1) /\ page = Pages!Newest(F, PageSize)
  BY DEF Sets, Below, Pages!Fetched, Pages!Page
<1>2. Pages!NextCursor(of, before) = IF Cardinality(F) > PageSize THEN Pages!Min(page) ELSE 0
  BY SizesAgree DEF Pages!NextCursor
<1> HIDE DEF page, F, L
<1>3. F \subseteq L /\ page \subseteq F /\ F \in Sets /\ page \in Sets
  BY <1>1, NewestIs DEF Sets
<1>4. PageSize \in Nat \ {0} /\ PageSize + 1 \in Nat /\ Cardinality(F) \in Nat
  BY <1>3, PagesBounds, IdsAreFinite
<1>5. CASE ~(Cardinality(F) > PageSize)
  <2>1. Cardinality(F) <= PageSize
    BY <1>4, <1>5
  <2>2. F = L
    BY <1>1, <1>4, <2>1, NewestAll
  <2>3. page = F
    BY <1>1, <1>3, <1>4, <2>1, NewestFew
  <2> QED
    BY <1>2, <1>5, <2>2, <2>3 DEF page, L
<1>6. CASE Cardinality(F) > PageSize
  <2> DEFINE next == Pages!Min(page)
  <2>1. F # {}
    BY <1>4, <1>6, SomeAre
  <2>2. page # {}
    BY <1>1, <1>3, <1>4, <2>1, NewestSome
  <2>3. \E i \in page : \A j \in page : i <= j
    BY <1>3, <2>2, SmallestId, IdsAreFinite
  <2>4. next \in page /\ \A j \in page : next <= j
    BY <2>3 DEF Pages!Min
  <2> HIDE DEF next
  <2>5. next \in F /\ next \in Pages!Ids /\ next # 0
    BY <1>3, <2>4, PagesBounds DEF Sets
  <2>6. ASSUME NEW i \in L, next <= i PROVE i \in page
    <3>1. i \in F
      BY <1>1, <1>4, <2>5, <2>6, NewestUpwards
    <3> QED
      BY <1>1, <1>3, <1>4, <2>4, <2>6, <3>1, NewestUpwards
  <2>7. Pages!NextCursor(of, before) = next
    BY <1>2, <1>6 DEF next
  <2>8. page \subseteq L
    BY <1>3
  <2> QED
    BY <2>4, <2>5, <2>6, <2>7, <2>8 DEF page, L
<1> QED
  BY <1>5, <1>6

Asked == Filters \cup {Timeline}
Walk == [of : Asked, cursor : Pages!Ids \cup {0}, seen : Sets, owed : Sets,
         twice : BOOLEAN, done : BOOLEAN]

\* How far a walk has come: what it was owed at its cursor and above it has seen,
\* and below it has seen nothing.
Walked(w) ==
  /\ ~w.twice
  /\ w.done => w.owed \subseteq w.seen
  /\ ~w.done /\ w.cursor = 0 => w.seen = {}
  /\ ~w.done /\ w.cursor # 0 => /\ \A i \in w.seen : w.cursor <= i
                                /\ \A i \in w.owed : w.cursor <= i => i \in w.seen

\* The jobs are numbered from one; readers are owed rows that are in their list.
PagesInv ==
  /\ jobs \in [Pages!Ids -> Pages!Row \cup {NoRow}]
  /\ \E n \in 0..MaxId : Pages!Made = 1..n
  /\ events \in Sets /\ lastEvent \in 0..MaxId
  /\ walks \in [Readers -> Walk \cup {Idle}]
  /\ \A r \in Readers : walks[r] # Idle =>
       Walked(walks[r]) /\ walks[r].owed \subseteq Pages!Listed(walks[r].of)

\* An empty tracker without readers.
LEMMA PagesInit == Pages!Init => PagesInv
<1> SUFFICES ASSUME Pages!Init PROVE PagesInv
  OBVIOUS
<1>1. Pages!Made = {} /\ 1..0 = {} /\ 0 \in 0..MaxId
  BY PagesBounds DEF Pages!Init, Pages!Made
<1> QED
  BY <1>1 DEF Pages!Init, PagesInv, Sets

\* Every list is one of ids.
LEMMA ListedIds == ASSUME PagesInv, NEW of PROVE Pages!Listed(of) \in Sets
  BY DEF PagesInv, Pages!Listed, Pages!Made, Sets

\* A page changes its own walk alone.
LEMMA WalkStands ==
  ASSUME PagesInv, NEW r \in Readers, NEW v \in Walk, Walked(v),
         v.owed \subseteq Pages!Listed(v.of),
         walks' = [walks EXCEPT ![r] = v], UNCHANGED <<jobs, events, lastEvent>>
  PROVE  PagesInv'
<1>1. \A of : Pages!Listed(of)' = Pages!Listed(of)
  BY DEF Pages!Listed, Pages!Made
<1>2. Pages!Made' = Pages!Made
  BY DEF Pages!Made
<1> QED
  BY <1>1, <1>2 DEF PagesInv

\* A walk starts with nothing seen and everything owed.
LEMMA BeginWalks ==
  ASSUME PagesInv, NEW r \in Readers, NEW of \in Asked, Pages!Begin(r, of)
  PROVE  PagesInv'
<1> DEFINE w == [of |-> of, cursor |-> 0, seen |-> {}, owed |-> Pages!Listed(of),
                 twice |-> FALSE, done |-> FALSE]
<1>1. walks' = [walks EXCEPT ![r] = w] /\ UNCHANGED <<jobs, events, lastEvent>>
  BY DEF Pages!Begin
<1>2. w \in Walk /\ Walked(w) /\ w.owed = Pages!Listed(w.of)
  BY ListedIds DEF Walk, Sets, Walked
<1> HIDE DEF w
<1> QED
  BY <1>1, <1>2, WalkStands

\* What a page does for a walk, in ids: it lies below what was seen, reaches down
\* to the next cursor, or to the end, and leaves out nothing on the way.
LEMMA PageGoesOn ==
  ASSUME NEW cursor \in Nat, NEW next \in Nat, NEW list \in SUBSET Nat,
         NEW page \in SUBSET Nat, NEW seen \in SUBSET Nat, NEW owed \in SUBSET Nat,
         owed \subseteq list,
         \A i \in page : i \in list /\ (cursor = 0 \/ i < cursor),
         cursor = 0 => seen = {},
         cursor # 0 => /\ \A i \in seen : cursor <= i
                       /\ \A i \in owed : cursor <= i => i \in seen,
         next = 0 => \A i \in list : cursor = 0 \/ i < cursor => i \in page,
         next # 0 => /\ next \in page /\ \A i \in page : next <= i
                     /\ \A i \in list : (cursor = 0 \/ i < cursor) /\ next <= i => i \in page
  PROVE  /\ page \cap seen = {}
         /\ next = 0 => owed \subseteq seen \cup page
         /\ next # 0 => /\ \A i \in seen \cup page : next <= i
                        /\ \A i \in owed : next <= i => i \in seen \cup page
<1>1. \A i \in page : i \notin seen
  OBVIOUS
<1>2. ASSUME NEW i \in owed, next = 0 \/ next <= i PROVE i \in seen \cup page
  <2>1. CASE cursor # 0 /\ cursor <= i
    BY <2>1
  <2>2. CASE cursor = 0 \/ i < cursor
    BY <1>2, <2>2
  <2> QED
    BY <2>1, <2>2
<1>3. ASSUME NEW i \in seen, next # 0 PROVE next <= i
  <2>1. cursor # 0 /\ cursor <= i /\ next < cursor
    BY <1>3
  <2> QED
    BY <2>1
<1> QED
  BY <1>1, <1>2, <1>3

\* A page goes on below what was seen, down to the next cursor.
LEMMA ReadWalks == ASSUME PagesInv, NEW r \in Readers, Pages!Read(r) PROVE PagesInv'
<1> DEFINE w == walks[r]
           page == Pages!Page(w.of, w.cursor)
           next == Pages!NextCursor(w.of, w.cursor)
           v == [w EXCEPT !.cursor = next, !.seen = @ \cup page,
                          !.twice = @ \/ page \cap w.seen # {}, !.done = next = 0]
           L == Below(w.of, w.cursor)
           list == Pages!Listed(w.of)
<1>1. /\ walks[r] # Idle /\ ~walks[r].done /\ w \in Walk /\ Walked(w)
      /\ w.owed \subseteq list
      /\ walks' = [walks EXCEPT ![r] = v] /\ UNCHANGED <<jobs, events, lastEvent>>
  BY DEF Pages!Read, PagesInv
<1>2. w.cursor \in Pages!Ids \cup {0} /\ list \in Sets
  BY <1>1, ListedIds DEF Walk
<1>3. /\ page \subseteq L /\ next \in Pages!Ids \cup {0}
      /\ next = 0 => page = L
      /\ next # 0 => /\ next \in page /\ \A i \in page : next <= i
                     /\ \A i \in L : next <= i => i \in page
  BY <1>2, PageIs
<1>4. L = {i \in list : w.cursor > 0 => i < w.cursor}
  BY DEF Below
<1> HIDE DEF page, next, L
<1>5. /\ v.of = w.of /\ v.cursor = next /\ v.seen = w.seen \cup page /\ v.owed = w.owed
      /\ v.done = (next = 0) /\ v.twice = (w.twice \/ page \cap w.seen # {})
  BY <1>1 DEF Walk
<1>6. w.seen \in Sets /\ w.owed \in Sets /\ L \in Sets /\ Pages!Ids \subseteq Nat \ {0}
  BY <1>1, <1>2, <1>4, PagesBounds DEF Walk, Sets
<1>7. v \in Walk
  BY <1>1, <1>3, <1>6 DEF Walk, Sets
<1>8. /\ w.cursor = 0 => w.seen = {}
      /\ w.cursor # 0 => /\ \A i \in w.seen : w.cursor <= i
                         /\ \A i \in w.owed : w.cursor <= i => i \in w.seen
  BY <1>1 DEF Walked
<1> DEFINE cursor == w.cursor  seen == w.seen  owed == w.owed
<1> HIDE DEF v, w, list
<1>9. /\ cursor \in Nat /\ next \in Nat /\ list \in SUBSET Nat /\ page \in SUBSET Nat
      /\ seen \in SUBSET Nat /\ owed \in SUBSET Nat
  <2>1. cursor \in Nat /\ next \in Nat
    <3>1. \A i \in Pages!Ids \cup {0} : i \in Nat
      BY PagesBounds
    <3>2. cursor \in Pages!Ids \cup {0} /\ next \in Pages!Ids \cup {0}
      BY <1>2, <1>3
    <3> QED
      BY <3>1, <3>2
  <2>2. list \in SUBSET Nat /\ L \in SUBSET Nat
    BY <1>2, <1>6 DEF Sets
  <2>3. page \in SUBSET Nat
    BY <1>3, <2>2
  <2>4. seen \in SUBSET Nat /\ owed \in SUBSET Nat
    BY <1>6 DEF Sets
  <2> QED
    BY <2>1, <2>2, <2>3, <2>4
<1>10. \A i : i \in L <=> i \in list /\ (cursor = 0 \/ i < cursor)
  <2>1. cursor > 0 <=> cursor # 0
    BY <1>9
  <2> QED
    BY <1>4, <2>1
<1>11. /\ \A i \in page : i \in list /\ (cursor = 0 \/ i < cursor)
       /\ next = 0 => \A i \in list : cursor = 0 \/ i < cursor => i \in page
       /\ next # 0 => /\ next \in page /\ \A i \in page : next <= i
                      /\ \A i \in list : (cursor = 0 \/ i < cursor) /\ next <= i => i \in page
  BY <1>3, <1>10
<1>12. /\ owed \subseteq list
       /\ cursor = 0 => seen = {}
       /\ cursor # 0 => /\ \A i \in seen : cursor <= i
                        /\ \A i \in owed : cursor <= i => i \in seen
  BY <1>1, <1>8
<1> HIDE DEF cursor, seen, owed
<1>13. /\ page \cap seen = {}
       /\ next = 0 => owed \subseteq seen \cup page
       /\ next # 0 => /\ \A i \in seen \cup page : next <= i
                      /\ \A i \in owed : next <= i => i \in seen \cup page
  BY <1>9, <1>11, <1>12, PageGoesOn
<1>14. Walked(v)
  <2>1. v.seen = seen \cup page /\ v.owed = owed /\ v.cursor = next /\ v.done = (next = 0)
    BY <1>5 DEF seen, owed
  <2>2. ~v.twice
    BY <1>1, <1>5, <1>13 DEF Walked, seen
  <2> QED
    BY <1>13, <2>1, <2>2 DEF Walked
<1>15. v.owed \subseteq Pages!Listed(v.of)
  BY <1>1, <1>5 DEF list
<1>16. walks' = [walks EXCEPT ![r] = v] /\ UNCHANGED <<jobs, events, lastEvent>>
  BY <1>1
<1> QED
  BY <1>7, <1>14, <1>15, <1>16, WalkStands

\* A write leaves the readers their walks, and owes them what is still listed.
LEMMA WritesStand ==
  ASSUME PagesInv,
         jobs' \in [Pages!Ids -> Pages!Row \cup {NoRow}],
         \E n \in 0..MaxId : Pages!Made' = 1..n,
         events' \in Sets, lastEvent' \in 0..MaxId,
         \A r \in Readers : walks[r] = Idle => walks'[r] = Idle,
         NEW owed, \A r \in Readers : walks[r] # Idle =>
           walks'[r] = [walks[r] EXCEPT !.owed = owed[r]],
         walks' = [r \in Readers |-> walks'[r]],
         \A r \in Readers : walks[r] # Idle =>
           /\ owed[r] \subseteq walks[r].owed
           /\ \A of : of = walks[r].of => owed[r] \subseteq Pages!Listed(of)'
  PROVE  PagesInv'
<1>1. ASSUME NEW r \in Readers, walks[r] # Idle
      PROVE  /\ walks'[r] \in Walk /\ Walked(walks'[r])
             /\ \A of : of = walks'[r].of => walks'[r].owed \subseteq Pages!Listed(of)'
  <2>1. walks[r] \in Walk /\ Walked(walks[r])
    BY <1>1 DEF PagesInv
  <2>2. /\ walks'[r].of = walks[r].of /\ walks'[r].cursor = walks[r].cursor
        /\ walks'[r].seen = walks[r].seen /\ walks'[r].owed = owed[r]
        /\ walks'[r].twice = walks[r].twice /\ walks'[r].done = walks[r].done
    BY <1>1, <2>1 DEF Walk
  <2>3. owed[r] \subseteq walks[r].owed
    BY <1>1
  <2>4. walks'[r] \in Walk
    BY <1>1, <2>1, <2>3 DEF Walk, Sets
  <2>5. Walked(walks'[r])
    BY <2>1, <2>2, <2>3 DEF Walked
  <2> QED
    BY <1>1, <2>2, <2>4, <2>5
<1>2. walks' \in [Readers -> Walk \cup {Idle}]
  BY <1>1
<1>3. ASSUME NEW r \in Readers, walks'[r] # Idle
      PROVE  Walked(walks'[r]) /\ walks'[r].owed \subseteq Pages!Listed(walks[r].of)'
  <2>1. walks[r] # Idle
    BY <1>3
  <2>2. \A of : of = walks'[r].of => walks'[r].owed \subseteq Pages!Listed(of)'
    BY <1>1, <2>1
  <2>3. walks'[r].owed \subseteq Pages!Listed(walks[r].of)'
    BY <2>2 DEF Pages!Listed
  <2> QED
    BY <1>1, <2>1, <2>3
<1> QED
  BY <1>2, <1>3 DEF PagesInv

\* A write that takes nothing off a list.
LEMMA GrowthStands ==
  ASSUME PagesInv,
         jobs' \in [Pages!Ids -> Pages!Row \cup {NoRow}],
         \E n \in 0..MaxId : Pages!Made' = 1..n,
         events' \in Sets, lastEvent' \in 0..MaxId, walks' = walks,
         \A of : Pages!Listed(of) \subseteq Pages!Listed(of)'
  PROVE  PagesInv'
<1> DEFINE owed == [r \in Readers |-> walks[r].owed]
<1>1. ASSUME NEW r \in Readers, walks[r] # Idle
      PROVE  /\ walks'[r] = [walks[r] EXCEPT !.owed = owed[r]]
             /\ owed[r] \subseteq walks[r].owed
             /\ \A of : of = walks[r].of => owed[r] \subseteq Pages!Listed(of)'
  <2>1. walks[r] \in Walk /\ walks[r].owed \subseteq Pages!Listed(walks[r].of)
    BY <1>1 DEF PagesInv
  <2>2. walks[r] = [walks[r] EXCEPT !.owed = walks[r].owed]
    BY <2>1 DEF Walk
  <2> QED
    BY <2>1, <2>2
<1> HIDE DEF owed
<1>2. walks' = [r \in Readers |-> walks'[r]]
  BY DEF PagesInv
<1> QED
  BY <1>1, <1>2, WritesStand

\* A new job takes the number after the last one.
LEMMA CreateStands ==
  ASSUME PagesInv, NEW row \in Pages!Row, Pages!CreateTrackedJob(row)
  PROVE  PagesInv'
<1>1. PICK n \in 0..MaxId : Pages!Made = 1..n
  BY DEF PagesInv
<1>2. MaxId \in Nat /\ n \in Nat
  BY PagesBounds
<1>3. Cardinality(Pages!Made) = n
  <2>1. 1 \in Int /\ n \in Int
    BY <1>2
  <2>2. Cardinality(1..n) = IF 1 > n THEN 0 ELSE n - 1 + 1
    BY <2>1, FS_Interval
  <2> QED
    BY <1>1, <1>2, <2>2
<1>4. /\ n < MaxId /\ jobs' = [jobs EXCEPT ![n + 1] = row]
      /\ UNCHANGED <<events, lastEvent, walks>>
  BY SizesAgree, <1>3 DEF Pages!CreateTrackedJob
<1>5. n + 1 \in Pages!Ids /\ n + 1 \notin Pages!Made /\ n + 1 \in 0..MaxId
  BY <1>1, <1>2, <1>4 DEF Pages!Ids
<1>6. row # NoRow
  BY WorkspaceAssumption DEF Pages!OverviewAssumption
<1>7. Pages!Made' = Pages!Made \cup {n + 1}
  BY <1>4, <1>5, <1>6 DEF PagesInv, Pages!Made
<1>8. Pages!Made' = 1..(n + 1)
  BY <1>1, <1>2, <1>7
<1>9. \A of : Pages!Listed(of) \subseteq Pages!Listed(of)'
  BY <1>4, <1>5, <1>7 DEF PagesInv, Pages!Listed, Pages!Made
<1>10. jobs' \in [Pages!Ids -> Pages!Row \cup {NoRow}]
  BY <1>4 DEF PagesInv
<1> QED
  BY <1>4, <1>5, <1>8, <1>9, <1>10, GrowthStands DEF PagesInv

\* An edit may take a job off a list, and readers are not owed it any more.
LEMMA UpdateStands ==
  ASSUME PagesInv, NEW k \in Pages!Ids, NEW stage \in Stages, NEW needs \in BOOLEAN,
         Pages!UpdateTrackedJob(k, stage, needs)
  PROVE  PagesInv'
<1> DEFINE row == [[jobs[k] EXCEPT !.stage = stage] EXCEPT !.needs = needs]
           owed == [r \in Readers |->
                      {i \in walks[r].owed : walks[r].of = Timeline \/ Pages!Matches(walks[r].of, jobs'[i])}]
<1>1. k \in Pages!Made /\ walks' = Pages!Owing(jobs') /\ UNCHANGED <<events, lastEvent>>
  BY DEF Pages!UpdateTrackedJob
<1>2. jobs[k] \in Pages!Row
  BY <1>1 DEF PagesInv, Pages!Made
<1>3. jobs' = [jobs EXCEPT ![k] = row]
  BY <1>2 DEF Pages!UpdateTrackedJob, PagesInv, Pages!Row
<1>4. row \in Pages!Row /\ row # NoRow
  BY <1>2, WorkspaceAssumption DEF Pages!OverviewAssumption, Pages!Row
<1> HIDE DEF row
<1>5. jobs' \in [Pages!Ids -> Pages!Row \cup {NoRow}] /\ Pages!Made' = Pages!Made
  BY <1>1, <1>3, <1>4 DEF PagesInv, Pages!Made
<1>6. /\ \A r \in Readers : walks[r] = Idle => walks'[r] = Idle
      /\ \A r \in Readers : walks[r] # Idle => walks'[r] = [walks[r] EXCEPT !.owed = owed[r]]
      /\ walks' = [r \in Readers |-> walks'[r]]
  <2>1. walks' = [r \in Readers |->
          IF walks[r] = Idle THEN Idle
          ELSE [walks[r] EXCEPT !.owed = {i \in @ : walks[r].of = Timeline \/ Pages!Matches(walks[r].of, jobs'[i])}]]
    BY <1>1 DEF Pages!Owing
  <2> QED
    BY <2>1
<1>7. ASSUME NEW r \in Readers, walks[r] # Idle
      PROVE  /\ owed[r] \subseteq walks[r].owed
             /\ \A of : of = walks[r].of => owed[r] \subseteq Pages!Listed(of)'
  <2>1. walks[r].owed \subseteq Pages!Listed(walks[r].of)
    BY <1>7 DEF PagesInv
  <2>2. owed[r] = {i \in walks[r].owed : walks[r].of = Timeline \/ Pages!Matches(walks[r].of, jobs'[i])}
    OBVIOUS
  <2> QED
    BY <1>1, <1>5, <2>1, <2>2 DEF Pages!Listed
<1> HIDE DEF owed
<1> QED
  BY <1>1, <1>5, <1>6, <1>7, WritesStand DEF PagesInv

\* An event takes the next id.
LEMMA EventStands == ASSUME PagesInv, NEW mine \in BOOLEAN, Pages!AddTimelineEvent(mine) PROVE PagesInv'
<1>1. /\ lastEvent < MaxId /\ lastEvent' = lastEvent + 1 /\ UNCHANGED <<jobs, walks>>
      /\ events' = events \/ events' = events \cup {lastEvent + 1}
  BY DEF Pages!AddTimelineEvent
<1>2. MaxId \in Nat /\ lastEvent \in 0..MaxId
  BY PagesBounds DEF PagesInv
<1>3. lastEvent' \in 0..MaxId /\ lastEvent + 1 \in Pages!Ids
  BY <1>1, <1>2 DEF Pages!Ids
<1>4. events' \in Sets /\ events \subseteq events'
  BY <1>1, <1>3 DEF PagesInv, Sets
<1>5. \A of : Pages!Listed(of) \subseteq Pages!Listed(of)'
  BY <1>1, <1>4 DEF Pages!Listed, Pages!Made
<1>6. Pages!Made' = Pages!Made
  BY <1>1 DEF Pages!Made
<1> QED
  BY <1>1, <1>3, <1>4, <1>5, <1>6, GrowthStands DEF PagesInv

LEMMA PagesNextKeep == ASSUME PagesInv, [Pages!Next]_(Pages!vars) PROVE PagesInv'
<1>1. CASE \E r \in Readers, of \in Asked : Pages!Begin(r, of)
  BY <1>1, BeginWalks
<1>2. CASE \E r \in Readers : Pages!Read(r)
  BY <1>2, ReadWalks
<1>3. CASE \E r \in Readers : Pages!Leave(r)
  <2>1. PICK r \in Readers : walks' = [walks EXCEPT ![r] = Idle] /\ UNCHANGED <<jobs, events, lastEvent>>
    BY <1>3 DEF Pages!Leave
  <2>2. (\A of : Pages!Listed(of)' = Pages!Listed(of)) /\ Pages!Made' = Pages!Made
    BY <2>1 DEF Pages!Listed, Pages!Made
  <2> QED
    BY <2>1, <2>2 DEF PagesInv
<1>4. CASE \E row \in Pages!Row : Pages!CreateTrackedJob(row)
  BY <1>4, CreateStands
<1>5. CASE \E i \in Pages!Ids, stage \in Stages, needs \in BOOLEAN :
             Pages!UpdateTrackedJob(i, stage, needs)
  BY <1>5, UpdateStands
<1>6. CASE \E mine \in BOOLEAN : Pages!AddTimelineEvent(mine)
  BY <1>6, EventStands
<1>7. CASE UNCHANGED Pages!vars
  <2>1. UNCHANGED <<jobs, events, lastEvent, walks>>
    BY <1>7 DEF Pages!vars
  <2>2. (\A of : Pages!Listed(of)' = Pages!Listed(of)) /\ Pages!Made' = Pages!Made
    BY <2>1 DEF Pages!Listed, Pages!Made
  <2> QED
    BY <2>1, <2>2 DEF PagesInv
<1> QED
  BY <1>1, <1>2, <1>3, <1>4, <1>5, <1>6, <1>7 DEF Pages!Next, Asked

\* No walk sees a row twice or ends without one that was there all the while.
LEMMA WalksFollow == ASSUME PagesInv PROVE Pages!WalksAreExact
  BY DEF PagesInv, Walked, Pages!WalksAreExact

-----------------------------------------------------------------------------
(* The statistics.                                                         *)

\* The stages are parted into the six numbers of the funnel, and the jobs of a
\* scope with them.
InStages(scope, stages) == {i \in Pages!JobsOf(scope) : jobs[i].stage \in stages}

LEMMA JobsAreFinite ==
  ASSUME PagesInv, NEW scope
  PROVE  /\ Pages!JobsOf(scope) \in Sets
         /\ \A i \in Pages!JobsOf(scope) : jobs[i].stage \in Pages!AllStages
BY WorkspaceAssumption
   DEF Pages!OverviewAssumption, PagesInv, Pages!JobsOf, Pages!Made, Pages!Row, Sets

\* A split of the stages splits the jobs.
LEMMA StagesSplit ==
  ASSUME PagesInv, NEW scope, NEW S, NEW T, S \cap T = {}
  PROVE  /\ Pages!Count(scope, S \cup T) = Pages!Count(scope, S) + Pages!Count(scope, T)
         /\ Pages!Count(scope, S) \in Nat /\ Pages!Count(scope, T) \in Nat
<1> DEFINE A == InStages(scope, S)
           B == InStages(scope, T)
           U == InStages(scope, S \cup T)
<1>1. U = A \cup B /\ A \cap B = {}
  BY DEF InStages
<1>2. U \in Sets
  BY JobsAreFinite DEF InStages, Sets
<1> HIDE DEF A, B, U
<1>3. /\ Cardinality(U) = Cardinality(A) + Cardinality(B)
      /\ Cardinality(A) \in Nat /\ Cardinality(B) \in Nat
  BY <1>1, <1>2, IdsAreFinite, PartsAddUp
<1> QED
  BY SizesAgree, <1>3 DEF A, B, U, InStages, Pages!Count

\* The jobs of a scope, as a count.
LEMMA TotalIs ==
  ASSUME PagesInv, NEW scope
  PROVE  Cardinality(Pages!JobsOf(scope)) = Pages!Count(scope, Pages!AllStages)
<1>1. {i \in Pages!JobsOf(scope) : jobs[i].stage \in Pages!AllStages} = Pages!JobsOf(scope)
  BY JobsAreFinite
<1> QED
  BY SizesAgree, <1>1 DEF Pages!Count

\* Every job is counted in one of the six, and on one board.
LEMMA FunnelIsExact == ASSUME PagesInv PROVE Pages!FunnelAddsUp
<1> DEFINE N(stages) == Pages!Count(Pages!Active, stages)
<1>1. /\ Pages!AllStages = {"saved"} \cup (Pages!InProgress \cup ({"offer"} \cup ({"hired"} \cup ({"rejected"} \cup {"archived"}))))
      /\ {"saved"} \cap (Pages!InProgress \cup ({"offer"} \cup ({"hired"} \cup ({"rejected"} \cup {"archived"})))) = {}
      /\ Pages!InProgress \cap ({"offer"} \cup ({"hired"} \cup ({"rejected"} \cup {"archived"}))) = {}
      /\ {"offer"} \cap ({"hired"} \cup ({"rejected"} \cup {"archived"})) = {}
      /\ {"hired"} \cap ({"rejected"} \cup {"archived"}) = {}
      /\ {"rejected"} \cap {"archived"} = {}
  BY DEF Pages!AllStages, Pages!InProgress
<1> HIDE DEF N
<1>2. \A S, T : S \cap T = {} => N(S \cup T) = N(S) + N(T) /\ N(S) \in Nat /\ N(T) \in Nat
  BY StagesSplit DEF N
<1>3. N({"rejected"} \cup {"archived"}) = N({"rejected"}) + N({"archived"})
  BY <1>1, <1>2
<1>4. N({"hired"} \cup ({"rejected"} \cup {"archived"})) = N({"hired"}) + N({"rejected"} \cup {"archived"})
  BY <1>1, <1>2
<1>5. N({"offer"} \cup ({"hired"} \cup ({"rejected"} \cup {"archived"})))
        = N({"offer"}) + N({"hired"} \cup ({"rejected"} \cup {"archived"}))
  BY <1>1, <1>2
<1>6. N(Pages!InProgress \cup ({"offer"} \cup ({"hired"} \cup ({"rejected"} \cup {"archived"}))))
        = N(Pages!InProgress) + N({"offer"} \cup ({"hired"} \cup ({"rejected"} \cup {"archived"})))
  BY <1>1, <1>2
<1>7. N(Pages!AllStages)
        = N({"saved"}) + N(Pages!InProgress \cup ({"offer"} \cup ({"hired"} \cup ({"rejected"} \cup {"archived"}))))
  BY <1>1, <1>2
<1>8. /\ N({"saved"}) \in Nat /\ N(Pages!InProgress) \in Nat /\ N({"offer"}) \in Nat
      /\ N({"hired"}) \in Nat /\ N({"rejected"}) \in Nat /\ N({"archived"}) \in Nat
  BY <1>2, <1>1
<1>9. N(Pages!AllStages) = N({"saved"}) + N(Pages!InProgress) + N({"offer"}) + N({"hired"})
                             + N({"rejected"}) + N({"archived"})
  BY <1>3, <1>4, <1>5, <1>6, <1>7, <1>8
<1>10. Cardinality(Pages!JobsOf(Pages!Active))
         = Cardinality(Pages!JobsOf({"sergey"})) + Cardinality(Pages!JobsOf({"polina"}))
  <2> DEFINE A == Pages!JobsOf({"sergey"})
             B == Pages!JobsOf({"polina"})
             U == Pages!JobsOf(Pages!Active)
  <2>1. U = A \cup B /\ A \cap B = {}
    BY DEF Pages!JobsOf, Pages!Active
  <2>2. U \in Sets
    BY JobsAreFinite
  <2> HIDE DEF A, B, U
  <2>3. Cardinality(U) = Cardinality(A) + Cardinality(B)
    BY <2>1, <2>2, IdsAreFinite, PartsAddUp
  <2> QED
    BY <2>3 DEF A, B, U
<1>11. Cardinality(Pages!JobsOf(Pages!Active)) = N(Pages!AllStages)
  BY TotalIs DEF N
<1>12. /\ Pages!TrackedStats(Pages!Active).Total = Cardinality(Pages!JobsOf(Pages!Active))
       /\ Pages!TrackedStats(Pages!Active).Saved = N({"saved"})
       /\ Pages!TrackedStats(Pages!Active).Active = N(Pages!InProgress)
       /\ Pages!TrackedStats(Pages!Active).Offers = N({"offer"})
       /\ Pages!TrackedStats(Pages!Active).Hired = N({"hired"})
       /\ Pages!TrackedStats(Pages!Active).Rejected = N({"rejected"})
       /\ Pages!TrackedStats(Pages!Active).Archived = N({"archived"})
       /\ Pages!TrackedStats(Pages!Active).Profiles["sergey"] = Cardinality(Pages!JobsOf({"sergey"}))
       /\ Pages!TrackedStats(Pages!Active).Profiles["polina"] = Cardinality(Pages!JobsOf({"polina"}))
  BY SizesAgree DEF Pages!TrackedStats, Pages!Active, N
<1> QED
  BY <1>9, <1>10, <1>11, <1>12 DEF Pages!FunnelAddsUp

\* The list that the link of a tile opens.
LinkedTo(scope, stage, needsYou) ==
  {i \in Pages!JobsOf(scope) :
     /\ stage # "archived" => jobs[i].stage # "archived"
     /\ stage = "active" => jobs[i].stage \in Pages!InProgress
     /\ stage \notin {"", "active"} => jobs[i].stage = stage
     /\ needsYou => jobs[i].needs /\ jobs[i].stage \notin Pages!Closed}

LEMMA LinkOpens ==
  ASSUME NEW profile \in Pages!Active \cup {""},
         NEW stage \in Pages!AllStages \cup {"", "active"}, NEW needsYou \in BOOLEAN
  PROVE  Pages!Listed(Pages!BoardFilter(profile, stage, needsYou))
           = LinkedTo(IF profile = "" THEN Pages!Active ELSE {profile}, stage, needsYou)
<1> DEFINE of == Pages!BoardFilter(profile, stage, needsYou)
<1>1. of \in Pages!Filter
  BY DEF Pages!BoardFilter, Pages!Filter
<1>2. of # Timeline
  BY <1>1, WorkspaceAssumption DEF Pages!OverviewAssumption
<1>3. \A i \in Pages!Made :
        Pages!Matches(of, jobs[i]) <=>
          /\ stage # "archived" => jobs[i].stage # "archived"
          /\ jobs[i].profile \in Pages!Active /\ (profile # "" => jobs[i].profile = profile)
          /\ stage = "active" => jobs[i].stage \in Pages!InProgress
          /\ stage \notin {"", "active"} => jobs[i].stage = stage
          /\ needsYou => jobs[i].needs /\ jobs[i].stage \notin Pages!Closed
  BY DEF Pages!Matches, Pages!BoardFilter
<1>4. "" \notin Pages!Active
  BY DEF Pages!Active
<1> HIDE DEF of
<1>5. Pages!Listed(of) = {i \in Pages!Made : Pages!Matches(of, jobs[i])}
  BY <1>2 DEF Pages!Listed
<1> QED
  BY <1>3, <1>4, <1>5 DEF of, LinkedTo, Pages!JobsOf

LEMMA LessAgain == ASSUME NEW a \in Nat, NEW b \in Nat PROVE (a + b) - b = a
  OBVIOUS

\* The number on every tile is the length of its list.
LEMMA TilesAreTrue == ASSUME PagesInv PROVE Pages!TilesCountTheirLists
<1> SUFFICES ASSUME NEW profile \in Pages!Active \cup {""},
                    NEW t \in Pages!Tiles(Pages!TrackedStats(IF profile = "" THEN Pages!Active ELSE {profile}))
             PROVE  t.count = Cardinality(Pages!Listed(Pages!BoardFilter(profile, t.stage, t.needsYou)))
  BY SizesAgree DEF Pages!TilesCountTheirLists
<1> DEFINE scope == IF profile = "" THEN Pages!Active ELSE {profile}
           s == Pages!TrackedStats(scope)
<1>1. t \in {
        [count |-> s.Total - s.Archived, stage |-> "", needsYou |-> FALSE],
        [count |-> s.NeedsYou, stage |-> "", needsYou |-> TRUE],
        [count |-> s.Active, stage |-> "active", needsYou |-> FALSE],
        [count |-> s.Offers, stage |-> "offer", needsYou |-> FALSE],
        [count |-> s.Rejected, stage |-> "rejected", needsYou |-> FALSE],
        [count |-> s.Hired, stage |-> "hired", needsYou |-> FALSE]}
  BY DEF Pages!Tiles
<1>2. /\ s.Total = Cardinality(Pages!JobsOf(scope))
      /\ s.NeedsYou = Pages!NeedsYou(scope)
      /\ s.Active = Pages!Count(scope, Pages!InProgress)
      /\ s.Offers = Pages!Count(scope, {"offer"})
      /\ s.Hired = Pages!Count(scope, {"hired"})
      /\ s.Rejected = Pages!Count(scope, {"rejected"})
      /\ s.Archived = Pages!Count(scope, {"archived"})
  BY SizesAgree DEF Pages!TrackedStats
<1> HIDE DEF s, scope
<1>3. \A stage \in Pages!AllStages \cup {"", "active"}, needsYou \in BOOLEAN :
        Pages!Listed(Pages!BoardFilter(profile, stage, needsYou)) = LinkedTo(scope, stage, needsYou)
  BY LinkOpens DEF scope
<1>4. s.Total - s.Archived = Cardinality(LinkedTo(scope, "", FALSE))
  <2> DEFINE rest == Pages!AllStages \ {"archived"}
  <2>1. Pages!AllStages = rest \cup {"archived"} /\ rest \cap {"archived"} = {}
    BY DEF Pages!AllStages
  <2>2. LinkedTo(scope, "", FALSE) = {i \in Pages!JobsOf(scope) : jobs[i].stage \in rest}
    BY JobsAreFinite DEF LinkedTo
  <2> HIDE DEF rest
  <2>3. /\ Pages!Count(scope, Pages!AllStages) = Pages!Count(scope, rest) + Pages!Count(scope, {"archived"})
        /\ Pages!Count(scope, rest) \in Nat /\ Pages!Count(scope, {"archived"}) \in Nat
    BY <2>1, StagesSplit
  <2>4. s.Total = Pages!Count(scope, Pages!AllStages)
    BY <1>2, TotalIs
  <2>5. s.Total - s.Archived = Pages!Count(scope, rest)
    BY <1>2, <2>3, <2>4, LessAgain
  <2>6. Pages!Count(scope, rest) = Cardinality(LinkedTo(scope, "", FALSE))
    BY SizesAgree, <2>2 DEF Pages!Count
  <2> QED
    BY <2>5, <2>6
<1>5. s.NeedsYou = Cardinality(LinkedTo(scope, "", TRUE))
  <2>1. LinkedTo(scope, "", TRUE)
          = {i \in Pages!JobsOf(scope) : jobs[i].needs /\ jobs[i].stage \notin Pages!Closed}
    BY DEF LinkedTo, Pages!Closed
  <2> QED
    BY SizesAgree, <1>2, <2>1 DEF Pages!NeedsYou
<1>6. s.Active = Cardinality(LinkedTo(scope, "active", FALSE))
  <2>1. LinkedTo(scope, "active", FALSE) = {i \in Pages!JobsOf(scope) : jobs[i].stage \in Pages!InProgress}
    BY DEF LinkedTo, Pages!InProgress
  <2> QED
    BY SizesAgree, <1>2, <2>1 DEF Pages!Count
<1>7. ASSUME NEW stage \in {"offer", "rejected", "hired"}
      PROVE  Pages!Count(scope, {stage}) = Cardinality(LinkedTo(scope, stage, FALSE))
  <2>1. LinkedTo(scope, stage, FALSE) = {i \in Pages!JobsOf(scope) : jobs[i].stage \in {stage}}
    BY DEF LinkedTo
  <2> QED
    BY SizesAgree, <2>1 DEF Pages!Count
<1>8. t.count = Cardinality(LinkedTo(scope, t.stage, t.needsYou))
  <2>1. CASE t = [count |-> s.Total - s.Archived, stage |-> "", needsYou |-> FALSE]
    BY <1>4, <2>1
  <2>2. CASE t = [count |-> s.NeedsYou, stage |-> "", needsYou |-> TRUE]
    BY <1>5, <2>2
  <2>3. CASE t = [count |-> s.Active, stage |-> "active", needsYou |-> FALSE]
    BY <1>6, <2>3
  <2>4. CASE t = [count |-> s.Offers, stage |-> "offer", needsYou |-> FALSE]
    BY <1>2, <1>7, <2>4
  <2>5. CASE t = [count |-> s.Rejected, stage |-> "rejected", needsYou |-> FALSE]
    BY <1>2, <1>7, <2>5
  <2>6. CASE t = [count |-> s.Hired, stage |-> "hired", needsYou |-> FALSE]
    BY <1>2, <1>7, <2>6
  <2> QED
    BY <1>1, <2>1, <2>2, <2>3, <2>4, <2>5, <2>6
<1>9. t.stage \in Pages!AllStages \cup {"", "active"} /\ t.needsYou \in BOOLEAN
  <2> DEFINE Asks == t.stage \in {"", "active", "offer", "rejected", "hired"} /\ t.needsYou \in BOOLEAN
  <2>1. ASSUME t = [count |-> s.Total - s.Archived, stage |-> "", needsYou |-> FALSE] PROVE Asks
    BY <2>1
  <2>2. ASSUME t = [count |-> s.NeedsYou, stage |-> "", needsYou |-> TRUE] PROVE Asks
    BY <2>2
  <2>3. ASSUME t = [count |-> s.Active, stage |-> "active", needsYou |-> FALSE] PROVE Asks
    BY <2>3
  <2>4. ASSUME t = [count |-> s.Offers, stage |-> "offer", needsYou |-> FALSE] PROVE Asks
    BY <2>4
  <2>5. ASSUME t = [count |-> s.Rejected, stage |-> "rejected", needsYou |-> FALSE] PROVE Asks
    BY <2>5
  <2>6. ASSUME t = [count |-> s.Hired, stage |-> "hired", needsYou |-> FALSE] PROVE Asks
    BY <2>6
  <2>7. Asks
    BY <1>1, <2>1, <2>2, <2>3, <2>4, <2>5, <2>6
  <2> QED
    BY <2>7 DEF Pages!AllStages
<1> QED
  BY <1>3, <1>8, <1>9

-----------------------------------------------------------------------------
(* The start and the pages.                                                *)

WorkspaceInv == DoneInv /\ PagesInv

LEMMA WorkspaceSteps ==
  ASSUME [StartNext \/ PagesNext]_workspaceVars
  PROVE  [Next]_vars /\ [Pages!Next]_(Pages!vars)
BY DEF StartNext, PagesNext, workspaceVars, shown, Pages!vars

\* What the plan is past is done, on the disk as well, and every walk has seen
\* what its cursor is past.
THEOREM WorkspaceInvariance == WorkspaceSpec => []WorkspaceInv
<1>1. WorkspaceInit => WorkspaceInv
  BY DoneInit, PagesInit DEF WorkspaceInit, WorkspaceInv
<1>2. WorkspaceInv /\ [StartNext \/ PagesNext]_workspaceVars => WorkspaceInv'
  BY WorkspaceSteps, DoneNextKeeps, PagesNextKeep DEF WorkspaceInv
<1> QED
  BY <1>1, <1>2, PTL DEF WorkspaceSpec

\* No crash leaves a half-built table on the disk, nor the disk without a lead or
\* a value that the old file held.
THEOREM NothingIsEverLost == WorkspaceSpec => []NothingIsLost
<1>1. WorkspaceInv => NothingIsLost
  BY DEF WorkspaceInv, DoneInv, MigrationInv, Whole, NothingIsLost
<1> QED
  BY WorkspaceInvariance, <1>1, PTL

\* The server is only ever ready on a complete database: every column, the new
\* identity, a profile, an address key and an owner link for every lead, and the
\* oldest lead of each identity in the tracker, with its timeline.
THEOREM ServesOnlyComplete == WorkspaceSpec => []ReadyIsComplete
<1>1. WorkspaceInv => ReadyIsComplete
  BY DoneIsComplete DEF WorkspaceInv
<1> QED
  BY WorkspaceInvariance, <1>1, PTL

\* A reader that follows the cursors misses nothing and sees nothing twice.
THEOREM ReadersMissNothing == WorkspaceSpec => []WalksAreExact
<1>1. WorkspaceInv => WalksAreExact
  BY WalksFollow DEF WorkspaceInv, WalksAreExact
<1> QED
  BY WorkspaceInvariance, <1>1, PTL

\* The number on a tile is the length of the list its link opens, every job is
\* counted in one stage, and the boards add up to the whole.
THEOREM StatisticsAreTrue == WorkspaceSpec => []StatisticsAddUp
<1>1. WorkspaceInv => StatisticsAddUp
  BY TilesAreTrue, FunnelIsExact DEF WorkspaceInv, StatisticsAddUp
<1> QED
  BY WorkspaceInvariance, <1>1, PTL
==============================================================================
