# JobHub: verification project

TLA+ specifications of JobHub (Go and SQLite, `src/`), the TLC runs that check
them on small instances, and theorems proved with TLAPS for every instance.
`PROJECT.json` lists every part of the system with its status, every hazard at
its line with the properties about it, and, definition by definition, the lines
of source each definition stands for.

## The system

JobHub is one process with one SQLite database. `store.Open` limits the pool to
one connection, so a statement or a transaction is one indivisible step; a
handler that makes several store calls is several steps, and other handlers run
between them. HTTP handlers run concurrently; the process may be killed at any
point and started again on what was committed. What is kept in memory only (the
login throttle, the key guard, the scorer's queue) is lost at a restart.

| Part | State | Operations | Hard behaviour | Modules |
| --- | --- | --- | --- | --- |
| Job tracker (`store/tracker.go`, `workspace/api.go`) | `tracker_jobs`, `tracker_events` | create, read, PATCH, append event | PATCH reads outside its transaction; retries, late events, restarts | `Tracker`, `AtomicTracker`, `GuessingClients` |
| Lists, pages, statistics (`tracker.go`, `tracker_stats.go`, `pages.go`, `dashboard.go`) | none | pages with a cursor, tiles, totals | the table changes between two pages; one meaning told three times | `Overview` |
| Opening the store, import (`store/store.go`, `jobs.go`, `tracker.go`) | the schema | five migrations in order | a crash between any two statements, files of every release | `Migration` |
| Login throttle (`workspace/auth.go`) | failures per address | login | check and record are separate; bounded table | `Login` |
| Sessions (`auth.go`, `store/browser_sessions.go`) | `browser_sessions` | sign-in, look-up, logout, expiry, eviction | look-up and delete are separate; keys change at a restart | `Sessions` |
| Legacy board, rows (`store/jobs.go`, `httpapi/jobs.go`) | `jobs` | batches of pushes, views, deletes | two identities of a lead, batches that fail in the middle | `LeadIdentity` |
| Legacy board, status (`store/jobs.go`, `events.go`, `httpapi`) | stamps and texts of `jobs`, `job_events` | toggles, statuses, notes, checks | toggles read, then write; status told in Go, in SQL and by the tiles | `Ladder` |
| Duplicate links (`store/jobs.go`) | `jobs.duplicate_of` | link, unlink, delete, purge | reads outside the transaction, ids that come back | `DuplicateLinks` |
| Profiles and owners (`store/profiles.go`, `seed`) | `profiles`, `job_profiles` | share, unshare, describe, seed | every statement on its own | `ProfileLinks` |
| Jev scorer (`jev/`) | a queue in memory, verdicts in `jobs` | enqueue, evaluate, write | workers, slow calls, a full queue, retries | `Scorer`, `Scorecard` |
| Short keys (`httpapi/keys.go`) | failures per address | guard of a page view | views in flight; a table that is dropped when it is full | `KeyGuard` |

How they interact: the migrations end before anything else runs, and leave the
tracker's initial rows (`LegacyJobs` of `Tracker`). A login that `Login` lets
through ends in `Sessions!SignIn`. An ingest is a batch of `LeadIdentity`, whose
rows carry a status (`Ladder`), a duplicate link, an owner link, and whose ids go
to the scorer. All of them meet in the row of `jobs`, but each reads and writes
columns of its own; only its id, and that the row may be gone, is shared, and each
module has both. `cmd/jobhub/main.go` opens the whole database and serves the
workspace; the legacy board's handlers, the scorer and the seed of profiles are
packages of the repository that this program does not mount, and are modelled as
they are written.

## Modules

Where a module names a handler or a function of the source, its action has the
same name. Time is a clock with a bound, or, where only differences matter,
ages. Histories are marked as such and no action reads them.

### Tracker, AtomicTracker, GuessingClients

- `rows`: `tracker_jobs` by id. Of the row the model keeps the identity (profile
  and source_key, one value of `Keys`), `version`, `last_checked_at`,
  `create_payload`, and of the editable fields the stage and the two salaries:
  the stage because the timeline repeats it, the salaries because they are
  related by a rule and are edited one at a time. The other fields are
  replaced and compared exactly like a salary. Formatting, lengths and URL rules
  are left out; a request that breaks them is answered 400 and changes nothing.
- `events`: `tracker_events`, per job in the order of their ids.
- `views`: the job and ETag each client holds, from any response about it.
- `pending`: the PATCHes between their arrival and their answer, with the base
  the handler has read.
- `births`, `created`, `posted` are history: how a job came into the table, and
  which creates and posts were answered.

`InsertJob` and `ReplayCreate` are `POST /jobs` (`CreateTrackedJob`); a conflict,
409, changes nothing and is no step. `SendPatch`, `ReadBase`, then `CommitPatch`
or `RefusePatch` are `PATCH /jobs/{id}`: `handlePatchJob` checks If-Match, reads
the row in a statement of its own, merges, and calls `UpdateTrackedJob`, which is
one transaction. `AppendEvent` and `ReplayEvent` are `POST /jobs/{id}/events`.
`Restart` forgets what is in flight. The clock is a free choice of `Times`, since
it is sampled before the transaction and may even go back. A POST is not kept as a
message: any client may send any of them at any time and again, which covers lost
answers, duplicates and delays.

The tracker starts empty or with what the migration left: rows of version 1 with
an empty `create_payload`, and imported timelines, whose newest stage need not be
the row's. `AtomicTracker` is the promise: a PATCH is one step on the row as it
is. In `Tracker` a client takes If-Match from a response, as the API documentation
asks; `GuessingClients` drops this.

### Overview

The list of jobs and the timeline of a job, page by page, and the statistics.
`Matches` is the WHERE clause of `ListTrackedJobs`, `TrackedStats` the counts of
`tracker_stats.go`, `Tiles` the tiles of `dashboard.go` and `BoardFilter` what
`handleBoard` makes of a link. `walks` are readers that follow cursors, each with
what it has seen and, as history, the ids that were in its list all the while.

### Migration

`Plan` is the statements of `store.Open` in order; `After` says what each does.
`db` is what the connection sees, `disk` what a crash leaves: they differ while a
transaction is open. `Init` is the file of any release (`WrittenBy`): its columns,
its identity of leads, rows from before the profile or the address key, timelines
from the monitoring columns on. Foreign keys are on, so that the drop in the
rebuild takes along the timelines and links of its rows, if there were any. A start that a
statement refuses (`Refused`) rolls back, and somebody starts it again.

### Login, Sessions, KeyGuard

`Login`: `Admit` is `allowLogin` at the start of `POST /login`, `AnswerWrong` and
`AnswerRight` its end, after the key was judged without the mutex; `Record` with
`Kept` is `recordLoginFailure` with its pruning and eviction. `Sessions`: `SignIn`
is `SaveBrowserSession`, one transaction that prunes, inserts and evicts; `Lookup`
and what follows it are two statements. The scope of a session is the key the
server ran with. `KeyGuard`: a view of a short link passes `guard`, and ends in
`fail` or `pass`. Cookies, hashes, CSRF tokens and HMACs are their outcome.

### LeadIdentity, Ladder, DuplicateLinks, ProfileLinks

`LeadIdentity` is the transaction of `UpsertJobs`: `Begin`, one `Upsert` per push
into a copy of the table, `Commit`, or `Refuse` and `Crash`, which drop the copy.
`Matches` finds the row a push lands on, by key first and by address second.
`Ladder` has a request per handler that moves a lead: `Start` samples the clock
and reads what the handler reads, the action named for the handler writes. `Chip`
and `Tile` are the SQL of the filters and of the counts, `jobStatus` the Go
function. `DuplicateLinks` splits `LinkDuplicate` where its transaction begins.
`ProfileLinks` runs share, unshare, describe and seed statement by statement, with
ids that cascade away and come back, and the backfill at a start.

### Scorer, Scorecard

`Scorer`: an ingest that commits, then hands ids to a queue that drops what does
not fit; workers that read a lead, evaluate it, once more after a failure, and
write under its id. `Scorecard` is `compute`: the gates in their order, the axes
with their weights, the score in tenths.

### Sums of components

`Access` (sessions, login throttle, short keys), `Board` (rows, ladder, links,
owners), `Scoring` (scorer, scorecard) and `Workspace` (start, pages) put several
components together, so that one theorem or one run speaks of all of them. The
components of a sum share no variable, and each property is about one of them, so
that a behaviour of their free composition, seen by one component, is a behaviour
of that component alone, with stutters. The variable `part`, chosen in the initial
state, says which one moves; the constant `Parts` says which may be chosen. Every
bound of a component is a constant of its sum, and the `Assumption`s of instances
are restated by an ASSUME of the sum, so that TLC evaluates them.

`MCBoard` and `MCWorkspace` add the inputs and filters that a .cfg cannot write
down, and `MCTracker` has the instances of `Tracker`. A product of everything that
requests ask for at once would be too large, so the two also have a variable
`scene`: each part is explored in one or two scenes, which keep to some of the
requests, ids and instants (`InScene`). A scene only leaves steps out; what it
reaches is reachable in the sum. The ladder has a scene for crossing requests on
the stamps and one for the status, the owners one for shares and one for texts,
the pages one for walks and one for the statistics.

## Runs

| Run | What it shows | Bounds, distinct states |
| --- | --- | --- |
| `TrackerEdits` | Concurrent PATCHes, events and restarts behave as single steps: `VersionNamesContent`, `NoLostUpdate`, `ImplementsAtomicTracker` | 1 job, 2 clients, 2 PATCHes in flight, 4 patches, versions to 3; 165 thousand |
| `TrackerTimeline` | Stage, last check and event retries follow from the timeline: `StatusEventAlwaysFits`, `TimelineAgreesWithRow`, `CheckedIsLatestCheck`, `EventRetryReplays` | 1 job native or imported, 2 event keys, reserved keys, 2 instants, versions to 4; 125 thousand |
| `TrackerCreates` | An identity names one row, a create is recognised later: `AnswersNameOneRow`, `CreateRetryReplays` | 2 jobs, 2 identities, native and imported; 164 thousand |
| `Access` | Nobody gets in for longer or is kept out for longer than the code promises, and having an address forgotten has its price: `GuessesAreBounded`, `ForgettingCosts`, `LockoutEnds`, `RecentSessionsSurvive`, `OnlyOwnSessionsLetIn`, `BlockHolds`, `BlockEnds`, `TablesAreBounded` | 2 logins racing from 3 addresses, a limit of 2, a table of 2; 4 sign-ins under 2 keys, 2 requests, 2 rows; 3 visitors, 2 views, a table of 1; 461 thousand |
| `Board` | Rows stay what and whose they are, all readers agree on them, the timeline tells their status, and no seed overwrites a person: `KeysAreUnique`, `PushesStayHome`, `AddedIsWhatIsThere`, `ReadersAgree`, `RejectionHasReason`, `TimelineTellsStatus`, `StampsAreSticky`, `OneHop`, `OneOwner`, `HumanTextStays` | 2 boards, 2 keys, 1 address, 3 ids, batches of 2; 1 lead with 2 requests crossing on its stamps, or with 1 at a time on its status over 3 seconds; 4 ids for links; 2 ids for owners, 1 with texts; 1.16 million |
| `Scoring` | Every added lead is scored or spared for a named reason, and a verdict is no better than its posting and its answers: `AddedIsScored`, `YesIsResolved`, `YesIsEarned`, `FitReadsAsTen` | 3 leads, a queue of 1, 2 workers, 1 restart, 1 id that comes back; every answer to gates and axes; 175 thousand |
| `Workspace` | No file is damaged by a crash, the server opens complete, walks are exact and tiles count what their links list: `NothingIsLost`, `ReadyIsComplete`, `StartOpens`, `WalksAreExact`, `StatisticsAddUp` | 2 leads, every release, 2 crashes; 3 ids, pages of 1; 2 jobs in 8 stages and 3 profiles; 110 thousand |
| `TrackerImportedRetry`, `TrackerDates`, `TrackerGuesses`, `MigrationStuck`, `DuplicatesRace` | violations, below | |

Every component has one type invariant; those of the parts of a sum are in its
`TypesOK`.

Why the bounds suffice:

- Tracker: a stale base needs a read, a write by another and a commit, hence
  versions 1 to 3 with two PATCHes in flight. Clients and handlers are
  interchangeable (symmetry). The patches contain two that are each valid alone
  and invalid together. An event that competes with a stage change for its key
  needs a post under the reserved key of the next version and a PATCH after it.
  Jobs interact only by identity, so two of each show what a third would.
- Login: the worst case needs a window that ends, one that starts, and requests in
  flight over the limit at both; two requests and a limit of two give it, and TLC
  finds the bound of `GuessesAreBounded` reached. An eviction needs one address
  more than the table holds.
- Sessions: to evict a row that is not the oldest takes one sign-in over the
  bound, under another key; four tokens leave room for it before and after.
- Board: a batch of two has a push that fits before one that does not, and one
  that lands on the row the first has just made. Two requests cross at every
  statement; a third would only repeat one of them. A chain of links needs three
  leads, and the fourth is the id that comes back.
- Scoring: a queue of one drops with two adds. Two workers hold the same id only
  if it is queued twice, with the id that comes back.
- Migration: two leads may share an identity; the second crash may come in the
  start after the first.
- Overview: three ids on pages of one give a first, a middle and a last page.

Deadlock is checked where the system never has to stop. The runs with
CHECK_DEADLOCK FALSE come to rest at a bound of the model: all tokens issued, the
horizon of the clock, every lead pushed, a database that is open.

### Fairness

No handler has to be called: clients, pushes, deletes, restarts and crashes carry
no fairness. Assumed is only what the program or time itself goes on with:

- `Login`, `KeyGuard`: time passes (`WF(Tick)`). Lockouts end because windows do.
- `Scorer`: the handler that added leads goes on to hand them over
  (`WF(Enqueue)`), each worker of the pool takes the next id (`WF(Take(w))`), and
  an evaluation ends, because the client gives up after a timeout (`WF(Ends(w))`).
- `Migration`: a start runs to its end, or is refused and started again
  (`WF(Statement \/ Refused)`); crashes are bounded in number.

The tracker has no liveness claim: a client may always be overtaken and get 409.

## What the violations show

- `TrackerImportedRetry`: for a row without `create_payload` the create is
  compared with the row as it is now. A create answered 200 is answered 409 after
  an event has moved the stage, against README.md:74.
- `TrackerDates`: whether `happened_at` is blank is decided before trimming, so
  white space is stored as an empty time, against tracker.go:1151.
- `TrackerGuesses`: the version check compares the table with If-Match, not with
  the version of the row the handler read. Only for clients that keep to the
  documented use are the two the same (the lemma `CommitFindsItsBase`).
- `MigrationStuck`: of two old leads whose identities are equal once trimmed, the
  import ignores the second; if that one has events, they break the foreign key,
  the import is rolled back, and every start fails, against tracker.go:349.
- `DuplicatesRace`: two links at a time build a chain, or a loop, each from reads
  made before the other's write, against jobs.go:1313.

Met while modelling, and kept out of the runs by a bound or by the statement of a
property, each of which says so:

- Requests in flight when an address reaches its limit are judged all the same
  (auth.go:201), so a window holds more failures than auth.go:22 says.
  `GuessesAreBounded` counts them.
- Two crossing changes of a status may lose the event of one (events.go:152);
  `TimelineTellsStatus` is checked with one request at a time on the status, and
  proved from `[]OneMoves`, that requests do not cross on the ladder.
- Two checks written in the other order move `checked_at` back (events.go:132),
  though events.go:129 says it always moves forward. The toggle of an approval
  writes back the note it has read, over one stored in between (httpapi/jobs.go:317).
  No property is about these two.
- The chips `to-review`, `approved` and `to-prep` look at the stamps alone: a
  lead rejected by its application status that was never applied to is shown as
  rejected and listed as undecided (jobs.go:894). `ReadersAgree` speaks of these
  chips only where a tile links to them.
- Deleting a canonical leaves its mirrors linked to it (jobs.go:1076), and
  deleted ids come back. An unshare in flight may then take the owner link of
  another lead (profiles.go:404), the backfill does not restore it where a share
  is (profiles.go:144), and a verdict may land on a lead it was not made for
  (jobs.go:1293). `OneOwner` and `YesIsResolved` are stated for ids that are never
  given out again.
- An id queued twice may be scored twice (scorer.go:75).
- A push by key gives its row the address of another row of its board
  (jobs.go:731); only keys are unique.

## Proofs

All theorems hold for every value of the constants, from the named assumptions of
the modules: sentinels are no values, bounds are natural numbers, requests have
their types.

| Theorem | States |
| --- | --- |
| `Invariance`, `TypeCorrect`, `StrongETags` | `IInv`, `TypeOK`, `VersionNamesContent` of `Tracker` always |
| `UpdatesAreNotLost`, `TrackerImplementsAtomic` | `NoLostUpdate`, `ImplementsAtomicTracker` |
| `StatusEventsFit`, `TimelineAgrees`, `LastCheckIsLatest` | `StatusEventAlwaysFits`, `TimelineAgreesWithRow`, `CheckedIsLatestCheck` always |
| `CreatesReplay`, `EventPostsReplay`, `AnswersStayUnique` | `CreateRetryReplays`, `EventRetryReplays`, `AnswersNameOneRow` always |
| `AccessInvariance`, `AccessIsTyped` | `AccessInv`, `TypesOK` of `Access` always |
| `TablesStayBounded`, `RecentSessionsLast`, `GuessesStayBounded`, `ForgettingIsCostly` | `TablesAreBounded`, `RecentSessionsSurvive`, `GuessesAreBounded`, `ForgettingCosts` always |
| `OnlyOwnLetIn`, `BlocksHold` | `OnlyOwnSessionsLetIn`, `BlockHolds` |
| `RowsInvariance`, `BoardIsTyped` | `RowsInv`, `TypesOK` of `Board` always |
| `KeysStayUnique`, `BatchesCountRows`, `NoSweepHijacks` | `KeysAreUnique`, `AddedIsWhatIsThere` always; `PushesStayHome` |
| `LadderInvariance`, `LadderReadersAgree`, `RejectionsKeepReasons`, `DatesAreKept` | `LadderInv`, `ReadersAgree`, `RejectionHasReason` always; `StampsAreSticky` |
| `NewestEventTells` | `TimelineTellsStatus` always, if requests never cross (`[]OneMoves`) |
| `ReadsAreOneHop` | `OneHop` always, with one link request at a time |
| `LeadsHaveOneOwner`, `HumanWordsAreKept` | `OneOwner` always; `HumanTextStays` |
| `ScoringInvariance`, `ScorerIsTyped`, `NoYesWithoutPosting` | `CardInv`, `TypeOK`, `YesIsResolved` always |
| `FitIsOutOfTen`, `VerdictsAreEarned` | `FitReadsAsTen` always; `YesIsEarned` |
| `WorkspaceInvariance`, `NothingIsEverLost`, `ServesOnlyComplete` | `WorkspaceInv`, `NothingIsLost`, `ReadyIsComplete` always |
| `ReadersMissNothing`, `StatisticsAreTrue` | `WalksAreExact`, `StatisticsAddUp` always |

With these every invariant and every action property of a passing run is a theorem.

The arguments:

- Tracker (`TrackerProofs`, `TrackerRetryProofs`). The
  invariant is `TypeOK /\ VersionNamesContent`; types alone are not inductive,
  because that a handler finds a row needs that the job of a request exists. No
  step deletes a job, and every write raises its version (`Growth`), so copies are
  never ahead of the table, and one of the same version is the row. When the
  version check passes, If-Match, base and row have one version and the base is
  the row (`CommitFindsItsBase`). Reserved keys on a timeline belong to versions
  the job has had, because posts cannot use them (`TimelineInv`). What answered a
  create or a post is the only row or event that can, and is found again.
- Sessions (`AccessProofs`). A row agrees with what was issued and was never
  logged out; a request in flight holds a token whose row is the running server's
  or is gone. Without the second part the DELETE of a logout might miss its row
  after a restart under another key. An eviction takes the rows nearest to their
  expiry, so the rows that stay, with the new one, are a full table of sessions
  issued after the evicted one (`EvictionFits`); a request that found its session
  expired holds one that stays expired, so that its DELETE costs nobody else a row
  (`ExpiredStay`).
- Short keys (`AccessProofs`). An entry has its date and blocks exactly when its
  count has reached the limit (`Fits`); so only a step that replaces the entry,
  or time, lifts a block (`BlockStands`).
- Login (`AccessProofs`). An entry is as old as the last wrong key and has left
  what is due of its window (`EntriesAreDue`). Pruning gives up a running window
  only when every window runs and the table is full, and then the one that failed
  least recently (`PruningFits`): those kept and the newcomer have failed after it.
  The bound on guesses is kept in books (`Booked`). The wrong keys no older than
  the running window are no more than its count; a window's count and the requests
  in flight together stay within `Book`, the limit and the overshoot, because a
  request is let in only below the limit; and what is older than the window is at
  most `Book - 1`. When a window ends, its first failure is exactly as old as
  a quarter hour and no longer counts: this is what makes the bound
  `2 * Book - 1`, and it needs that the window did start with a failure (the last
  part of `Booked`). A tick maps marks one to one to older ones (`ShiftFits`).
- Board (`BoardProofs`, `RowIds`). Every row of the table stays in the batch's
  copy where it was (`Stays`), which no statement about the table alone implies,
  and the copy has as many rows more as the batch has counted (`CountInv`). A
  new row takes no row's id: that a finite table has a largest id
  (`LargestId`) is proved from well-foundedness. A canonical that a link request
  has read is not a mirror and, with one request at a time, does not become one.
  A share that is being taken back is not the owner's: it was read as a share,
  and a lead whose id is not given out again never changes its owner. Every link,
  and every link about to be written, has its lead and its profile (`Backed`):
  this is what the foreign keys, and with them the types, rest on.
- Ladder (`LadderProofs`). A handler writes what it was sent, on what it has
  read, into a row that others have written since. All the invariant needs of a
  write is `SoundWrite`: the new row has a reason if it is rejected, and moves no
  stamp that is set. That holds on any row, because a request that could spoil it
  was refused at its start; that it was not refused is the invariant's part about
  requests in flight (`InFlight`). Only `TimelineTellsStatus` needs that nothing
  was written in between. Chips and tiles agree with the shown status because the
  chips that a tile links to are parts of one partition of the well-typed rows.
- Scorer and scorecard (`ScoringProofs`). What a worker read of a row is still
  true of it when it writes (`WorkIsCurrent`): ids stay with their leads, postings
  stay resolved. While gates are asked the counted verdicts are those of the
  answers so far (`GatesInv`); after each axis the points are at most the weights
  so far (`PointsInv`), and all the weights are ten.
- Migration (`WorkspaceProofs`). Until the rebuild is done the file holds no
  column the rebuild does not copy and no timeline its drop would cascade to, and
  between its statements the new table has what the old one had. `Done` says, for
  each place in the plan, what is finished; the rebuild drops only columns, and
  cascades only to tables, that come after it, and the marker on the disk stands
  for a finished import.
- Pages and statistics (`WorkspaceProofs`). Ids only grow, and a walk has seen all
  it is owed above its cursor and nothing below (`Walked`). A page is a prefix of
  what is below the cursor, and the next cursor parts the list right behind it
  (`PageIs`). A tile and its link have one set of jobs (`LinkOpens`), and the
  numbers of the funnel are sizes of disjoint sets that are the scope together
  (`StagesSplit`).

Assumptions that a theorem names, and why: `ReadsAreOneHop` and `NewestEventTells`
need one request at a time, because with two the properties are false
(`DuplicatesRace`, and "Met while modelling" above). `OneOwner`, `YesIsResolved`
speak of ids that are not given out again. `GuessesAreBounded` counts anew for an
address that the table has evicted; what an eviction costs is `ForgettingCosts`.
Addresses and requests in flight are finite in number, since they are counted.

Only model-checked: liveness (`LockoutEnds`, `BlockEnds`, `AddedIsScored`,
`StartOpens`), which needs fairness and ENABLED. Violations need one instance
only.

## Not modelled

- Hazards without a property: the two of `Ladder` named above. The import also
  bypasses validation (tracker.go:413), so that a field may be over-long and a
  later PATCH of another field is refused until it is shortened; the board reads
  its page and its totals in two transactions (pages.go:170) and may show a total
  of a moment later; a crash may leave part of the demo data (seed.go:18), which is
  inserted job by job when there is no job, and nothing states otherwise.
- Demo data otherwise: inserts through operations that `Tracker` models.
- Rendering, routing, headers, icons, the proxied voice call, text helpers, the
  prompt of the scorer and its HTTP exchange: they keep no state. Charts of days
  and breakdowns by source: one calendar query each.
- Field by field conversion and cutting of the import; the descriptive columns of
  a lead, which a push fills where it is not empty.

## Left to do

An abstract board, which the four modules of the legacy board refine together, and
an abstract session (in or out, and since when), which `Sessions` refines. Charts
and breakdowns as operators, compared with the lists.
