------------------------------- MODULE Tracker -------------------------------
(***************************************************************************)
(* The job tracker: the tables tracker_jobs and tracker_events, and the    *)
(* API handlers that write them.                                           *)
(*                                                                         *)
(* The store has one database connection, so a transaction is one step:    *)
(* creating a job and appending an event are single actions.  A PATCH is   *)
(* not one step.  The handler reads the job (ReadBase), merges the body of *)
(* the request into what it read, and hands the merged job to a            *)
(* transaction (CommitPatch, RefusePatch); other handlers run in between,  *)
(* and the process may die in between.                                     *)
(*                                                                         *)
(* A client may send any POST at any time and any number of times, which   *)
(* covers delayed, duplicated and retried requests; a client that has not  *)
(* seen the answer to a PATCH sends it again with the version it still     *)
(* holds.  A client takes its If-Match from a response: it never guesses a *)
(* version that has not been written yet.                                  *)
(***************************************************************************)
EXTENDS Naturals, Sequences

CONSTANTS
  Jobs,        \* row ids of tracker_jobs
  Keys,        \* job identities, the pairs (profile, source_key)
  Clients,     \* agents and browser tabs
  Handlers,    \* PATCH requests that may be in flight at once
  Stages,      \* the values of the stage column
  Saved,       \* the stage a job gets when the request names none
  Blank,       \* the empty string
  Null,        \* SQL NULL
  Absent,      \* a field the JSON body of a request does not name
  Spaces,      \* a happened_at of nothing but white space
  Imported,    \* the empty create_payload of a row imported by the migration
  NoRow, NoView, Idle, NotRead,
  Salaries,    \* the numbers salary_min and salary_max range over
  Times,       \* instants, as positive numbers; 0 is the empty string
  ClientKeys,  \* event source_keys outside the reserved prefix
  Bodies,      \* bodies of POST /jobs
  Patches,     \* bodies of PATCH /jobs/{id}
  Posts,       \* bodies of POST /jobs/{id}/events
  LegacyJobs,  \* jobs, with their timelines, the migration may have left in the tables
  MaxVersion   \* bound on the version of a job, so that TLC terminates

-----------------------------------------------------------------------------

Kinds == {"check", "note", "status"}

Salary == Salaries \cup {Null}

\* The fields of a job that a PATCH may edit.  The real row has two dozen;
\* these three have the behaviours the properties tell apart: the stage, which
\* the timeline repeats, and two fields with a constraint between them.
Content == [stage : Stages, min : Salary, max : Salary]

Row == [key : Keys, version : Nat \ {0}, content : Content,
        checked : Times \cup {0}, payload : Content \cup {Imported}]

\* The key of the event a stage change writes, "__system:stage-change-v<n>".
SystemKey(v) == <<"stage-change", v>>

SystemKeys == {SystemKey(v) : v \in 1..MaxVersion}

Event == [key : ClientKeys \cup SystemKeys, kind : Kinds,
          stage : Stages \cup {Blank}, happened : Times \cup {0}]

Body  == [stage : Stages \cup {Blank}, min : Salary, max : Salary]
Patch == [stage : Stages \cup {Blank, Absent},
          min : Salary \cup {Absent}, max : Salary \cup {Absent}]
Post  == [kind : Kinds, stage : Stages \cup {Blank},
          happened : Times \cup {0, Spaces}]

Snapshot == [job : Jobs, row : Row]
Request  == [client : Clients, job : Jobs, ifMatch : Nat \ {0},
             patch : Patch, base : Row \cup {NotRead}]

\* The marks for what is absent are no values, and the inputs are of their types.
ASSUME SentinelsAssumption ==
  /\ Saved \in Stages
  /\ Blank \notin Stages /\ Absent \notin Stages /\ Absent # Blank
  /\ Salaries \subseteq Nat /\ Null \notin Nat
  /\ Absent \notin Nat /\ Absent # Null
  /\ Spaces \notin Nat
  /\ Imported \notin Content
  /\ NoRow \notin Row \cup [version : Nat, content : Content]
  /\ NotRead \notin Row
  /\ NoView \notin Snapshot
  /\ Idle \notin Request \cup [job : Jobs, ifMatch : Nat, patch : Patch]

ASSUME InputsAssumption ==
  /\ Times \subseteq Nat \ {0}
  /\ MaxVersion \in Nat
  /\ ClientKeys \cap SystemKeys = {}
  /\ Bodies \subseteq Body
  /\ Patches \subseteq Patch
  /\ Posts \subseteq Post
  /\ LegacyJobs \subseteq [row : Row, log : Seq(Event)]
  /\ \A l \in LegacyJobs :
        /\ l.row.version = 1 /\ l.row.payload = Imported
        /\ l.row.content.min = Null /\ l.row.content.max = Null
        /\ \A n \in DOMAIN l.log : l.log[n].key \in ClientKeys
        /\ \A m, n \in DOMAIN l.log : l.log[m].key = l.log[n].key => m = n
  /\ NoRow \notin LegacyJobs

-----------------------------------------------------------------------------

VARIABLES
  rows,     \* tracker_jobs: id -> row
  events,   \* tracker_events: id of the job -> its events, oldest id first
  views,    \* what each client holds of the last job it was sent (row, ETag)
  pending,  \* the PATCH requests in flight
  \* History variables: no handler reads them.
  births,   \* the stage and the number of events each row was inserted with
  created,  \* the creates that were answered 200 or 201
  posted    \* the event posts that were answered 200 or 201

vars == <<rows, events, views, pending, births, created, posted>>

-----------------------------------------------------------------------------
(* The decisions of the handlers.                                          *)

\* normalizeTrackedJob with createDefaults: an omitted stage is Saved.
NormalizedLate(b) == b
Normalized(b) == [b EXCEPT !.stage = IF b.stage = Blank THEN Saved ELSE b.stage]

\* validateTrackedJobDomain: the one rule that relates two fields.
Valid(c) == (c.min # Null /\ c.max # Null) => c.min <= c.max

JobsMadeWithKey(k) ==
  {i \in Jobs : rows[i] # NoRow /\ rows[i].key = k /\ rows[i].payload # Imported}
JobsWithKey(k) == {i \in Jobs : rows[i] # NoRow /\ rows[i].key = k}

\* A create with a known identity is a replay when it repeats the request that
\* inserted the row; an imported row has no such request, and its present
\* content stands in for it.
SameCreateAsRow(row, n) == row.content = n
SameCreate(row, n) ==
  IF row.payload # Imported THEN row.payload = n ELSE row.content = n

NewRow(k, n) ==
  [key |-> k, version |-> 1, content |-> n, checked |-> 0, payload |-> n]

\* applyJobFields over the base the handler read, then the rule that a blank
\* stage keeps the one in the table.
Merged(base, p, current) ==
  [stage |-> CASE p.stage = Absent -> base.stage
               [] p.stage = Blank  -> current.stage
               [] OTHER            -> p.stage,
   min   |-> IF p.min = Absent THEN base.min ELSE p.min,
   max   |-> IF p.max = Absent THEN base.max ELSE p.max]

VersionMatchesBase(row, q) == q.base.version = q.ifMatch
VersionUnchecked(row, q) == TRUE
VersionMatches(row, q) == row.version = q.ifMatch

StatusEvent(v, stage, t) ==
  [key |-> SystemKey(v), kind |-> "status", stage |-> stage, happened |-> t]

Has(log, k) == \E n \in DOMAIN log : log[n].key = k

\* The rows of tracker_events after a PATCH: a changed stage adds one.
LogPatchSilently(log, old, new, v, t) == log
LogPatch(log, old, new, v, t) ==
  IF new.stage # old.stage THEN Append(log, StatusEvent(v, new.stage, t)) ELSE log

\* The UNIQUE (job_id, source_key) constraint lets the status event in.
StatusEventFits(log, old, new, v) ==
  new.stage # old.stage => ~Has(log, SystemKey(v))

\* validateTimelineEventDomain: the reserved prefix is refused.
AcceptAnyKey(k) == TRUE
AcceptKey(k) == k \notin SystemKeys

\* An empty happened_at becomes the server's now; one of white space is not
\* empty until it is trimmed, and is stored as the empty string.
StoredTime(time, t) == CASE time = 0      -> t
                         [] time = Spaces -> 0
                         [] OTHER         -> time

Stored(k, e, t) ==
  [key |-> k, kind |-> e.kind, stage |-> e.stage, happened |-> StoredTime(e.happened, t)]

\* eventsEquivalent, where an empty happened_at matches whatever was stored.
SameEventToTheSecond(old, x, e) == old = x
SameEvent(old, x, e) ==
  old = IF e.happened = 0 THEN [x EXCEPT !.happened = old.happened] ELSE x

\* The row after a new event.
RowAfterUnversioned(row, x) ==
  [row EXCEPT !.version = IF x.kind = "check" THEN @ ELSE @ + 1,
              !.checked = IF x.kind = "check" /\ @ < x.happened THEN x.happened ELSE @,
              !.content.stage = IF x.stage # Blank THEN x.stage ELSE @]
RowAfterLatestPost(row, x) ==
  [row EXCEPT !.version = @ + 1,
              !.checked = IF x.kind = "check" THEN x.happened ELSE @,
              !.content.stage = IF x.stage # Blank THEN x.stage ELSE @]
RowAfter(row, x) ==
  [row EXCEPT !.version = @ + 1,
              !.checked = IF x.kind = "check" /\ @ < x.happened THEN x.happened ELSE @,
              !.content.stage = IF x.stage # Blank THEN x.stage ELSE @]

-----------------------------------------------------------------------------

Init ==
  /\ \E legacy \in [Jobs -> LegacyJobs \cup {NoRow}] :
        /\ rows = [i \in Jobs |->
                     IF legacy[i] = NoRow THEN NoRow ELSE legacy[i].row]
        /\ events = [i \in Jobs |->
                       IF legacy[i] = NoRow THEN <<>> ELSE legacy[i].log]
        /\ births = [i \in Jobs |->
                       IF legacy[i] = NoRow THEN [stage |-> Saved, events |-> 0]
                       ELSE [stage |-> legacy[i].row.content.stage,
                             events |-> Len(legacy[i].log)]]
  /\ \A i, j \in Jobs :
        rows[i] # NoRow /\ rows[j] # NoRow /\ rows[i].key = rows[j].key => i = j
  /\ views = [c \in Clients |-> NoView]
  /\ pending = [h \in Handlers |-> Idle]
  /\ created = {}
  /\ posted = {}

Answered(i, k, n) == created' = created \cup {[job |-> i, key |-> k, content |-> n]}

\* POST /jobs for an identity the table already has, with the same request.
\* With another request the answer is 409 and nothing changes.
ReplayCreate(k, b) ==
  LET n == Normalized(b) IN
  /\ Valid(n)
  /\ \E i \in JobsWithKey(k) : SameCreate(rows[i], n) /\ Answered(i, k, n)
  /\ UNCHANGED <<rows, events, views, pending, births, posted>>

\* POST /jobs for a new identity.
InsertJob(k, b, i) ==
  LET n == Normalized(b) IN
  /\ Valid(n)
  /\ JobsWithKey(k) = {}
  /\ rows[i] = NoRow
  /\ rows' = [rows EXCEPT ![i] = NewRow(k, n)]
  /\ births' = [births EXCEPT ![i] = [stage |-> n.stage, events |-> 0]]
  /\ Answered(i, k, n)
  /\ UNCHANGED <<events, views, pending, posted>>

\* GET /jobs/{id}, or the body and the ETag of another response about the job.
GetJob(c, i) ==
  /\ rows[i] # NoRow
  /\ views' = [views EXCEPT ![c] = [job |-> i, row |-> rows[i]]]
  /\ UNCHANGED <<rows, events, pending, births, created, posted>>

\* A PATCH arrives with the version the client holds.
SendPatch(c, h, p) ==
  /\ views[c] # NoView
  /\ pending[h] = Idle
  /\ pending' = [pending EXCEPT ![h] =
       [client |-> c, job |-> views[c].job, ifMatch |-> views[c].row.version,
        patch |-> p, base |-> NotRead]]
  /\ UNCHANGED <<rows, events, views, births, created, posted>>

\* handlePatchJob reads the job, outside the transaction that will write it.
ReadBase(h) ==
  /\ pending[h] # Idle
  /\ pending[h].base = NotRead
  /\ pending' = [pending EXCEPT ![h].base = rows[pending[h].job]]
  /\ UNCHANGED <<rows, events, views, births, created, posted>>

Ready(h) == pending[h] # Idle /\ pending[h].base # NotRead

\* What the handler is about to write, given the row as the transaction sees it.
Update(h) ==
  LET q == pending[h] IN Merged(q.base.content, q.patch, rows[q.job].content)

Acceptable(h) ==
  LET q == pending[h] IN
  /\ VersionMatches(rows[q.job], q)
  /\ Valid(Update(h))
  /\ StatusEventFits(events[q.job], rows[q.job].content, Update(h), q.ifMatch + 1)

\* UpdateTrackedJob commits.  The client may or may not get the answer.
CommitPatch(h, t, answered) ==
  /\ Ready(h)
  /\ Acceptable(h)
  /\ pending[h].ifMatch < MaxVersion
  /\ LET q == pending[h]
         i == q.job
         v == q.ifMatch + 1
         new == [rows[i] EXCEPT !.version = v, !.content = Update(h)]
     IN  /\ rows' = [rows EXCEPT ![i] = new]
         /\ events' = [events EXCEPT ![i] =
                         LogPatch(@, rows[i].content, Update(h), v, t)]
         /\ views' = IF answered
                     THEN [views EXCEPT ![q.client] = [job |-> i, row |-> new]]
                     ELSE views
  /\ pending' = [pending EXCEPT ![h] = Idle]
  /\ UNCHANGED <<births, created, posted>>

\* UpdateTrackedJob refuses: 409 for the version, 400 for the merged job, 500
\* for the constraint.  The transaction is rolled back.
RefusePatch(h) ==
  /\ Ready(h)
  /\ ~Acceptable(h)
  /\ pending' = [pending EXCEPT ![h] = Idle]
  /\ UNCHANGED <<rows, events, views, births, created, posted>>

Received(i, k, e) == posted' = posted \cup {[job |-> i, key |-> k, post |-> e]}

\* POST /jobs/{id}/events with a key the job already has and the same event.
\* With another event the answer is 409 and nothing changes.
ReplayEvent(i, k, e, t) ==
  /\ rows[i] # NoRow
  /\ AcceptKey(k)
  /\ \E n \in DOMAIN events[i] :
        events[i][n].key = k /\ SameEvent(events[i][n], Stored(k, e, t), e)
  /\ Received(i, k, e)
  /\ UNCHANGED <<rows, events, views, pending, births, created>>

\* POST /jobs/{id}/events with a new key.
AppendEvent(i, k, e, t) ==
  /\ rows[i] # NoRow
  /\ AcceptKey(k)
  /\ ~Has(events[i], k)
  /\ rows[i].version < MaxVersion
  /\ events' = [events EXCEPT ![i] = Append(@, Stored(k, e, t))]
  /\ rows' = [rows EXCEPT ![i] = RowAfter(@, Stored(k, e, t))]
  /\ Received(i, k, e)
  /\ UNCHANGED <<views, pending, births, created>>

\* The process dies and is started again: the tables are what was committed,
\* the requests in flight are gone, the clients keep what they hold.
Restart ==
  /\ \E h \in Handlers : pending[h] # Idle
  /\ pending' = [h \in Handlers |-> Idle]
  /\ UNCHANGED <<rows, events, views, births, created, posted>>

Create == \E k \in Keys, b \in Bodies :
            ReplayCreate(k, b) \/ \E i \in Jobs : InsertJob(k, b, i)

PatchJob == \E h \in Handlers :
  \/ \E c \in Clients, p \in Patches : SendPatch(c, h, p)
  \/ ReadBase(h)
  \/ \E t \in Times, answered \in BOOLEAN : CommitPatch(h, t, answered)
  \/ RefusePatch(h)

PostEvent == \E i \in Jobs, k \in ClientKeys \cup SystemKeys, e \in Posts, t \in Times :
               ReplayEvent(i, k, e, t) \/ AppendEvent(i, k, e, t)

Next ==
  \/ Create
  \/ \E c \in Clients, i \in Jobs : GetJob(c, i)
  \/ PatchJob
  \/ PostEvent
  \/ Restart

Spec == Init /\ [][Next]_vars

-----------------------------------------------------------------------------
(* Properties.                                                             *)

\* Each variable has its type (the columns and the request state of the code).
TypeOK ==
  /\ rows \in [Jobs -> Row \cup {NoRow}]
  /\ events \in [Jobs -> Seq(Event)]
  /\ views \in [Clients -> Snapshot \cup {NoView}]
  /\ pending \in [Handlers -> Request \cup {Idle}]
  /\ births \in [Jobs -> [stage : Stages, events : Nat]]
  /\ created \subseteq [job : Jobs, key : Keys, content : Content]
  /\ posted \subseteq [job : Jobs, key : ClientKeys \cup SystemKeys, post : Post]

Native(i) == rows[i] # NoRow /\ rows[i].payload # Imported

\* Job identity is (profile, source_key) and event identity (job_id,
\* source_key): however requests interleave and are repeated, the job that
\* answered a create is the only one of its identity for ever, and a post that
\* was answered is on the timeline of its job once.
AnswersNameOneRow ==
  /\ \A a \in created : \A j \in Jobs :
        (rows[j] # NoRow /\ rows[j].key = a.key) <=> j = a.job
  /\ \A p \in posted : \E n \in DOMAIN events[p.job] :
        \A m \in DOMAIN events[p.job] : events[p.job][m].key = p.key <=> m = n

\* A copy of a job is never ahead of the table, and a copy that carries the
\* table's version is the table's row: the ETag is a strong validator for what
\* clients hold and for the base a PATCH merges into, whatever wrote the job in
\* between.  The base is never older than the If-Match of its request.
Fresh(i, row) ==
  /\ rows[i] # NoRow
  /\ row.version <= rows[i].version
  /\ row.version = rows[i].version => row = rows[i]

RequestFresh(q) ==
  /\ rows[q.job] # NoRow
  /\ q.ifMatch <= rows[q.job].version
  /\ q.base # NotRead => Fresh(q.job, q.base) /\ q.ifMatch <= q.base.version

VersionNamesContent ==
  /\ \A c \in Clients : views[c] # NoView => Fresh(views[c].job, views[c].row)
  /\ \A h \in Handlers : pending[h] # Idle => RequestFresh(pending[h])

\* A PATCH that changes the stage can always record it: no event, and above
\* all none a client posted, holds the key its status event will need.
StatusEventAlwaysFits ==
  \A i \in Jobs : rows[i] # NoRow /\ rows[i].version < MaxVersion =>
    ~Has(events[i], SystemKey(rows[i].version + 1))

\* "The timeline can never disagree with the row": the stage of a job is the one
\* its newest stage-bearing event gives, and with no such event the one it was
\* inserted with.  The events an imported job came with are history: the import
\* takes the stage from elsewhere.
TimelineAgreesWithRow ==
  \A i \in Jobs : rows[i] # NoRow =>
    LET Bearing == {n \in DOMAIN events[i] :
                      n > births[i].events /\ events[i][n].stage # Blank} IN
    \/ /\ Bearing = {}
       /\ rows[i].content.stage = births[i].stage
    \/ \E n \in Bearing : /\ \A m \in Bearing : m <= n
                          /\ rows[i].content.stage = events[i][n].stage

\* last_checked_at is the latest check on the timeline: never behind one that
\* arrived, in whatever order they arrive, and for a job made by the tracker
\* never the time of anything else.
CheckedIsLatestCheck ==
  \A i \in Jobs : rows[i] # NoRow =>
    LET Checks == {n \in DOMAIN events[i] :
                     n > births[i].events /\ events[i][n].kind = "check"} IN
    /\ \A n \in Checks : events[i][n].happened <= rows[i].checked
    /\ Native(i) /\ rows[i].checked # 0 =>
          \E n \in Checks : events[i][n].happened = rows[i].checked

\* "A blank happened_at becomes the server's now": every event says when it
\* happened.
EventsAreDated == \A i \in Jobs : \A n \in DOMAIN events[i] : events[i][n].happened # 0

\* A create that was answered can be sent again at any later time and is
\* answered with the same job, whatever has happened to the job since; and only
\* the request that made the job is answered so.
CreateReplays(a) ==
  /\ a.job \in JobsWithKey(a.key)
  /\ SameCreate(rows[a.job], a.content)

CreateRetryReplays == \A a \in created : Native(a.job) => CreateReplays(a)

\* The same without the exception of imported rows, as the README states it.
EveryCreateRetryReplays == \A a \in created : CreateReplays(a)

\* An event post that was answered can be sent again at any later time, at
\* whatever time of day, and is answered with the event it wrote.
EventRetryReplays ==
  \A a \in posted : \A t \in Times :
    \E n \in DOMAIN events[a.job] :
      /\ events[a.job][n].key = a.key
      /\ SameEvent(events[a.job][n], Stored(a.key, a.post, t), a.post)

\* No lost update: a PATCH that commits changes the row the table holds at that
\* moment by exactly the fields its body names, although the handler merged
\* them into a copy it had read before the transaction.
Commits(h) == pending[h] # Idle /\ pending'[h] = Idle /\ rows' # rows

CommitMergesIntoCurrentRow ==
  \A h \in Handlers : Commits(h) =>
    LET q == pending[h]
        current == rows[q.job].content
    IN  /\ rows'[q.job].content = Merged(current, q.patch, current)
        /\ rows'[q.job].version = rows[q.job].version + 1
        /\ \A i \in Jobs \ {q.job} : rows'[i] = rows[i]

NoLostUpdate == [][CommitMergesIntoCurrentRow]_vars

-----------------------------------------------------------------------------
(* The tracker implements the specification in which a PATCH is one step.  *)

Board == [i \in Jobs |->
  IF rows[i] = NoRow THEN NoRow
  ELSE [version |-> rows[i].version, content |-> rows[i].content]]

Requests == [h \in Handlers |->
  IF pending[h] = Idle THEN Idle
  ELSE [job |-> pending[h].job, ifMatch |-> pending[h].ifMatch,
        patch |-> pending[h].patch]]

Atomic == INSTANCE AtomicTracker WITH board <- Board, requests <- Requests

ImplementsAtomicTracker == Atomic!Spec
==============================================================================
