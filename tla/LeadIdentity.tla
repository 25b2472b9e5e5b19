----------------------------- MODULE LeadIdentity -----------------------------
(***************************************************************************)
(* Which row of the legacy board a pushed lead lands on (UpsertJobs).      *)
(*                                                                         *)
(* A lead has two identities on the board of its profile: the key its      *)
(* sweep gave it and its normalized address.  A push that matches either   *)
(* updates that row, any other inserts one; a batch is one transaction     *)
(* that a single bad push rolls back.  The one database connection keeps   *)
(* everything else out of a batch; a crash may fall between its pushes.    *)
(***************************************************************************)
EXTENDS Naturals, FiniteSets, Sequences

CONSTANTS
  Boards,    \* profiles
  Default,   \* DefaultJobProfile
  Keys,      \* dedupe keys
  Urls,      \* normalized addresses
  Blank,     \* the empty string
  MaxId,     \* bound on the row ids
  MaxBatch,  \* bound on the pushes of a batch
  MaxTime,   \* bound on the clock
  MaxGone,   \* bound on the rows that are deleted
  NoRow, Idle

ASSUME LeadIdentityAssumption ==
  /\ Default \in Boards
  /\ Blank \notin Boards \cup Keys \cup Urls
  /\ NoRow \notin [board : Boards, key : Keys, url : Urls \cup {Blank}, created : Nat, viewed : Nat]
  /\ MaxId \in Nat /\ MaxBatch \in Nat \ {0} /\ MaxTime \in Nat \ {0} /\ MaxGone \in Nat

Ids == 1..MaxId
Time == 1..MaxTime

\* `fits`: a score has its reason, a rejection too, and the status is a known one.
Push == [board : Boards \cup {Blank}, key : Keys, url : Urls \cup {Blank}, fits : BOOLEAN]

Row == [board : Boards, key : Keys, url : Urls \cup {Blank},
        created : Time, viewed : Time \cup {0}]

VARIABLES
  now,
  jobs,     \* the table jobs: id -> its row, NoRow when absent
  tx,       \* the batch that is being written: its rows and what it counted
  added,    \* history: the rows that answered batches reported as added
  deleted   \* history: the rows that were deleted

vars == <<now, jobs, tx, added, deleted>>

Used(of) == {i \in Ids : of[i] # NoRow}

TypeOK ==
  /\ now \in Time
  /\ jobs \in [Ids -> Row \cup {NoRow}]
  /\ tx = Idle \/ /\ tx.rows \in [Ids -> Row \cup {NoRow}]
                  /\ tx.done \in 0..MaxBatch /\ tx.added \in 0..tx.done
                  /\ tx.boards \subseteq Boards
  /\ added \in 0..(MaxId + MaxGone) /\ deleted \in 0..MaxGone

Init ==
  /\ now = 1
  /\ jobs = [i \in Ids |-> NoRow]
  /\ tx = Idle
  /\ added = 0 /\ deleted = 0

-----------------------------------------------------------------------------

NormalizeProfile(board) == IF board = Blank THEN Default ELSE board
Filled(old, new) == IF new = Blank THEN old ELSE new

\* The rows a push may land on: the one with its key before those with its
\* address, of which the database may take any.
MatchesEverywhere(p) ==
  LET byKey == {i \in Used(tx.rows) : tx.rows[i].key = p.key}
      byUrl == {i \in Used(tx.rows) : p.url # Blank /\ tx.rows[i].url = p.url}
  IN  IF byKey # {} THEN byKey ELSE byUrl
MatchesByUrl(p) ==
  LET home == {i \in Used(tx.rows) : tx.rows[i].board = NormalizeProfile(p.board)}
  IN  {i \in home : IF p.url = Blank THEN tx.rows[i].key = p.key ELSE tx.rows[i].url = p.url}
Matches(p) ==
  LET home  == {i \in Used(tx.rows) : tx.rows[i].board = NormalizeProfile(p.board)}
      byKey == {i \in home : tx.rows[i].key = p.key}
      byUrl == {i \in home : p.url # Blank /\ tx.rows[i].url = p.url}
  IN  IF byKey # {} THEN byKey ELSE byUrl

NextId == IF Used(tx.rows) = {} THEN 1
          ELSE 1 + CHOOSE i \in Used(tx.rows) : \A j \in Used(tx.rows) : j <= i

NewRow(p) == [board |-> NormalizeProfile(p.board), key |-> p.key, url |-> p.url,
              created |-> now, viewed |-> 0]

\* Non-empty fields only; the key, the date and the view stay as they are.
Updated(row, p) ==
  [row EXCEPT !.board = Filled(@, p.board), !.url = Filled(@, p.url)]

Begin ==
  /\ tx = Idle
  /\ tx' = [rows |-> jobs, done |-> 0, added |-> 0, boards |-> {}]
  /\ UNCHANGED <<now, jobs, added, deleted>>

\* One push of the batch.
Write(p, rows, new) ==
  tx' = [rows |-> rows, done |-> tx.done + 1, added |-> tx.added + new,
         boards |-> tx.boards \cup {NormalizeProfile(p.board)}]

Upsert(p) ==
  /\ tx # Idle /\ tx.done < MaxBatch /\ p.fits
  /\ \/ /\ Matches(p) = {} /\ NextId <= MaxId
        /\ Write(p, [tx.rows EXCEPT ![NextId] = NewRow(p)], 1)
     \/ \E i \in Matches(p) : Write(p, [tx.rows EXCEPT ![i] = Updated(@, p)], 0)
  /\ UNCHANGED <<now, jobs, added, deleted>>

\* The first push that does not fit takes the whole batch with it.
KeepsGood(p) == jobs' = tx.rows
KeepsNothing(p) == UNCHANGED jobs

Refuse(p) ==
  /\ tx # Idle /\ tx.done < MaxBatch /\ ~p.fits
  /\ KeepsNothing(p)
  /\ tx' = Idle
  /\ UNCHANGED <<now, added, deleted>>

Commit ==
  /\ tx # Idle /\ tx.done > 0
  /\ jobs' = tx.rows
  /\ added' = added + tx.added
  /\ tx' = Idle
  /\ UNCHANGED <<now, deleted>>

Crash ==
  /\ tx # Idle
  /\ tx' = Idle
  /\ UNCHANGED <<now, jobs, added, deleted>>

-----------------------------------------------------------------------------
(* What happens to the rows between batches.                               *)

MarkJobViewed(i) ==
  /\ tx = Idle /\ i \in Used(jobs) /\ jobs[i].viewed = 0
  /\ jobs' = [jobs EXCEPT ![i].viewed = now]
  /\ UNCHANGED <<now, tx, added, deleted>>

\* By its key, a lead goes from every board.
DeleteJobs(gone) ==
  /\ tx = Idle /\ gone # {} /\ gone \subseteq Used(jobs)
  /\ deleted + Cardinality(gone) <= MaxGone
  /\ jobs' = [i \in Ids |-> IF i \in gone THEN NoRow ELSE jobs[i]]
  /\ deleted' = deleted + Cardinality(gone)
  /\ UNCHANGED <<now, tx, added>>
DeleteJob(i) == DeleteJobs({i})
DeleteJobByKey(k) == DeleteJobs({i \in Used(jobs) : jobs[i].key = k})

Tick == tx = Idle /\ now < MaxTime /\ now' = now + 1 /\ UNCHANGED <<jobs, tx, added, deleted>>

Next ==
  \/ Begin
  \/ \E p \in Push : Upsert(p) \/ Refuse(p)
  \/ Commit
  \/ Crash
  \/ \E i \in Ids : MarkJobViewed(i) \/ DeleteJob(i)
  \/ \E k \in Keys : DeleteJobByKey(k)
  \/ Tick

Spec == Init /\ [][Next]_vars

-----------------------------------------------------------------------------

\* A board has one row per key: the unique index never fails a batch, and a key
\* that an agent holds names one lead of the board.
KeysAreUnique ==
  tx # Idle =>
    \A i, j \in Used(tx.rows) :
      (tx.rows[i].board = tx.rows[j].board /\ tx.rows[i].key = tx.rows[j].key) => i = j

\* jobs.go:680: no sweep hijacks the row of another board: a committed batch
\* leaves the rows of the boards it did not name as they were, and even on its
\* own boards moves no row, forgets no view and changes no date.
PushesStayHome ==
  [][Commit => \A i \in Used(jobs) :
       /\ jobs[i].board \notin tx.boards => jobs'[i] = jobs[i]
       /\ \A f \in {"board", "key", "created", "viewed"} : jobs'[i][f] = jobs[i][f]]_vars

\* The rows that answered batches reported as added are the rows there are, and
\* those that were deleted: a batch that failed left nothing behind.
AddedIsWhatIsThere == added = Cardinality(Used(jobs)) + deleted
=============================================================================
