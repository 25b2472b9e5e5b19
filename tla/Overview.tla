------------------------------- MODULE Overview -------------------------------
(***************************************************************************)
(* What the workspace shows of the tracker: the list of jobs and the       *)
(* timeline of a job, both page by page with a cursor, and the statistics  *)
(* with the tiles that link to filtered lists.                             *)
(*                                                                         *)
(* A page is one query and the statistics are one transaction.  Between    *)
(* two pages jobs are created and edited and events are added: a reader    *)
(* that follows the cursors walks through a table that changes.            *)
(***************************************************************************)
EXTENDS Naturals, FiniteSets, FiniteSetsExt

CONSTANTS
  MaxId,     \* bound on the ids of jobs and of events
  PageSize,  \* the limit of a page, within the caps of the code
  Stages,    \* the stages that jobs take
  Profiles,  \* the profiles that jobs carry; active or retired
  Filters,   \* the filters that readers use
  Timeline,  \* what a reader of the timeline asks for
  Readers, NoRow, Idle

Active == {"sergey", "polina"}
AllStages == {"saved", "applied", "talking", "interview", "offer", "hired", "rejected", "archived"}
Closed == {"hired", "rejected", "archived"}
InProgress == {"applied", "talking", "interview"}

\* TrackerFilter; a blank stage or profile is every one.
Filter == [profile : Active \cup {""}, activeOnly : BOOLEAN, noArchived : BOOLEAN,
           stage : AllStages \cup {"", "active"}, needsYou : BOOLEAN]

Row == [stage : Stages, needs : BOOLEAN, profile : Profiles]

OverviewAssumption ==
  /\ MaxId \in Nat /\ PageSize \in Nat \ {0}
  /\ Stages \subseteq AllStages
  /\ Filters \subseteq Filter /\ Timeline \notin Filter
  /\ NoRow \notin Row

Ids == 1..MaxId

VARIABLES
  jobs,     \* id -> the job, NoRow when there is none
  events,   \* the ids of the events of one job
  lastEvent,
  walks     \* the readers: what they asked for, their cursor, what they saw,
            \* and `owed`, the ids that were in the list all the while

vars == <<jobs, events, lastEvent, walks>>

Init ==
  /\ jobs = [i \in Ids |-> NoRow]
  /\ events = {} /\ lastEvent = 0
  /\ walks = [r \in Readers |-> Idle]

-----------------------------------------------------------------------------
(* The reads.                                                              *)

Made == {i \in Ids : jobs[i] # NoRow}

\* The conditions of ListTrackedJobs.
Matches(f, row) ==
  /\ f.noArchived => row.stage # "archived"
  /\ f.activeOnly => row.profile \in Active
  /\ f.profile # "" => row.profile = f.profile
  /\ f.stage = "active" => row.stage \in InProgress
  /\ f.stage \notin {"", "active"} => row.stage = f.stage
  /\ f.needsYou => row.needs /\ row.stage \notin Closed
Listed(of) ==
  IF of = Timeline THEN events ELSE {i \in Made : Matches(of, jobs[i])}

\* Newest id first, those below the cursor; one row more than the limit tells
\* that there is a next page, which starts below the last row of this one.
Newest(ids, n) == {i \in ids : Cardinality({j \in ids : j > i}) < n}
Fetched(of, before) == Newest({i \in Listed(of) : before > 0 => i < before}, PageSize + 1)
Page(of, before) == Newest(Fetched(of, before), PageSize)
CursorPastPage(of, before) ==
  IF Cardinality(Fetched(of, before)) > PageSize THEN Min(Fetched(of, before)) ELSE 0
NextCursor(of, before) ==
  IF Cardinality(Fetched(of, before)) > PageSize THEN Min(Page(of, before)) ELSE 0

Begin(r, of) ==
  /\ walks[r] = Idle
  /\ walks' = [walks EXCEPT ![r] =
       [of |-> of, cursor |-> 0, seen |-> {}, owed |-> Listed(of), twice |-> FALSE, done |-> FALSE]]
  /\ UNCHANGED <<jobs, events, lastEvent>>

Read(r) ==
  /\ walks[r] # Idle /\ ~walks[r].done
  /\ LET w == walks[r]  page == Page(w.of, w.cursor)  next == NextCursor(w.of, w.cursor) IN
     walks' = [walks EXCEPT ![r] =
       [w EXCEPT !.cursor = next, !.seen = @ \cup page,
                 !.twice = @ \/ page \cap w.seen # {}, !.done = next = 0]]
  /\ UNCHANGED <<jobs, events, lastEvent>>

Leave(r) ==
  /\ walks[r] # Idle /\ walks[r].done
  /\ walks' = [walks EXCEPT ![r] = Idle]
  /\ UNCHANGED <<jobs, events, lastEvent>>

\* The statistics of a scope of profiles.
JobsOf(scope) == {i \in Made : jobs[i].profile \in scope}
Count(scope, stages) == Cardinality({i \in JobsOf(scope) : jobs[i].stage \in stages})
FlaggedNeedsYou(scope) == Cardinality({i \in JobsOf(scope) : jobs[i].needs})
NeedsYou(scope) == Cardinality({i \in JobsOf(scope) : jobs[i].needs /\ jobs[i].stage \notin Closed})

TrackedStats(scope) == [
  Total |-> Cardinality(JobsOf(scope)), NeedsYou |-> NeedsYou(scope),
  Saved |-> Count(scope, {"saved"}), Active |-> Count(scope, InProgress),
  Offers |-> Count(scope, {"offer"}), Hired |-> Count(scope, {"hired"}),
  Rejected |-> Count(scope, {"rejected"}), Archived |-> Count(scope, {"archived"}),
  Profiles |-> [p \in Active |-> Cardinality(JobsOf({p}))]]

\* The tiles of the dashboard: a number, and the stage its link asks for.
Tiles(s) == {
  [count |-> s.Total - s.Archived, stage |-> "", needsYou |-> FALSE],
  [count |-> s.NeedsYou, stage |-> "", needsYou |-> TRUE],
  [count |-> s.Active, stage |-> "active", needsYou |-> FALSE],
  [count |-> s.Offers, stage |-> "offer", needsYou |-> FALSE],
  [count |-> s.Rejected, stage |-> "rejected", needsYou |-> FALSE],
  [count |-> s.Hired, stage |-> "hired", needsYou |-> FALSE]}

\* handleBoard: the filter of a link, for one profile or for "all".
BoardFilter(profile, stage, needsYou) ==
  [profile |-> profile, activeOnly |-> TRUE, noArchived |-> stage # "archived",
   stage |-> stage, needsYou |-> needsYou]

-----------------------------------------------------------------------------
(* The writes.                                                             *)

\* What a write leaves of what the readers are owed.
Owing(now) ==
  [r \in Readers |->
     IF walks[r] = Idle THEN Idle
     ELSE [walks[r] EXCEPT !.owed = {i \in @ : walks[r].of = Timeline \/ Matches(walks[r].of, now[i])}]]

CreateTrackedJob(row) ==
  /\ Cardinality(Made) < MaxId
  /\ jobs' = [jobs EXCEPT ![Cardinality(Made) + 1] = row]
  /\ UNCHANGED <<events, lastEvent, walks>>

UpdateTrackedJob(i, stage, needs) ==
  /\ i \in Made
  /\ jobs' = [jobs EXCEPT ![i].stage = stage, ![i].needs = needs]
  /\ walks' = Owing(jobs')
  /\ UNCHANGED <<events, lastEvent>>

\* An event of this job or of another one takes the next id.
AddTimelineEvent(mine) ==
  /\ lastEvent < MaxId
  /\ lastEvent' = lastEvent + 1
  /\ events' = IF mine THEN events \cup {lastEvent'} ELSE events
  /\ UNCHANGED <<jobs, walks>>

Next ==
  \/ \E r \in Readers : (\E of \in Filters \cup {Timeline} : Begin(r, of)) \/ Read(r) \/ Leave(r)
  \/ \E row \in Row : CreateTrackedJob(row)
  \/ \E i \in Ids, stage \in Stages, needs \in BOOLEAN : UpdateTrackedJob(i, stage, needs)
  \/ \E mine \in BOOLEAN : AddTimelineEvent(mine)

Spec == Init /\ [][Next]_vars

-----------------------------------------------------------------------------

\* A reader that follows the cursors to the end sees every job, or event, that
\* was in its list all the while, and nothing twice, whatever is created or
\* edited between the pages.
WalksAreExact ==
  \A r \in Readers : walks[r] # Idle =>
    /\ ~walks[r].twice
    /\ walks[r].done => walks[r].owed \subseteq walks[r].seen

\* The number on a tile is the length of the list its link opens.
TilesCountTheirLists ==
  \A profile \in Active \cup {""} :
    LET scope == IF profile = "" THEN Active ELSE {profile} IN
    \A t \in Tiles(TrackedStats(scope)) :
      t.count = Cardinality(Listed(BoardFilter(profile, t.stage, t.needsYou)))

\* The funnel is exact: every job of the scope is counted in one stage, and the
\* boards add up to the whole.
FunnelAddsUp ==
  LET s == TrackedStats(Active) IN
  /\ s.Total = s.Saved + s.Active + s.Offers + s.Hired + s.Rejected + s.Archived
  /\ s.Total = s.Profiles["sergey"] + s.Profiles["polina"]
==============================================================================
