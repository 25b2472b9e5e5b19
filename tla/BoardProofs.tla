----------------------------- MODULE BoardProofs -----------------------------
(***************************************************************************)
(* The rows of the legacy board, their links and their owners, for any     *)
(* number of boards, keys, addresses, leads and profiles.                  *)
(*                                                                         *)
(* A batch, of any length, is written into a copy of the table.  Every row *)
(* of the table stays in the copy, with its board, key, date and view, and *)
(* unchanged when its board is not named by the batch; and the copy has    *)
(* one row per board and key, because a push is inserted only when it      *)
(* matched nothing.  Duplicate links (DuplicateLinks) and the owner links  *)
(* of the leads (ProfileLinks) follow as instances of their modules.       *)
(***************************************************************************)
EXTENDS Board, RowIds, FiniteSetTheorems

Table == [Ids -> Row \cup {NoRow}]

Unique(of) ==
  \A i, j \in Used(of) : (of[i].board = of[j].board /\ of[i].key = of[j].key) => i = j

TableIsSound == now \in Time /\ jobs \in Table /\ Unique(jobs)

\* Row i of the table, in the copy.
Stays(i) ==
  /\ tx.rows[i] # NoRow
  /\ tx.rows[i].board = jobs[i].board /\ tx.rows[i].key = jobs[i].key
  /\ tx.rows[i].created = jobs[i].created /\ tx.rows[i].viewed = jobs[i].viewed
  /\ jobs[i].board \notin tx.boards => tx.rows[i] = jobs[i]

BatchIsSound ==
  tx # Idle =>
    /\ tx.rows \in Table /\ tx.boards \subseteq Boards
    /\ Unique(tx.rows)
    /\ \A i \in Used(jobs) : Stays(i)

BoardInv == TableIsSound /\ BatchIsSound

-----------------------------------------------------------------------------

\* The value that stands for no row is none.
LEMMA NoRowIsNone == NoRow \notin Row
<1>1. Row \subseteq [board : Boards, key : Keys, url : Urls \cup {Blank}, created : Nat, viewed : Nat]
  BY LeadIdentityAssumption DEF Row, Time
<1> QED
  BY <1>1, LeadIdentityAssumption

\* Outside of a batch the table changes row by row.
LEMMA InitBoard == Init => BoardInv
  BY LeadIdentityAssumption DEF Init, BoardInv, TableIsSound, BatchIsSound, Table, Unique, Used, Time

\* A batch starts on a copy of the table.
LEMMA BeginKeeps == ASSUME BoardInv, Begin PROVE BoardInv'
<1>1. tx'.rows = jobs /\ tx'.boards = {} /\ UNCHANGED <<now, jobs>>
  BY DEF Begin
<1>2. ASSUME NEW i \in Used(jobs) PROVE Stays(i)'
  BY <1>1 DEF Stays, Used
<1> QED
  BY <1>1, <1>2 DEF BoardInv, TableIsSound, BatchIsSound, Unique, Used

\* A new row takes no row's place.
LEMMA NextIdIsFree ==
  ASSUME NextId <= MaxId PROVE NextId \in Ids /\ NextId \notin Used(tx.rows)
<1> DEFINE S == Used(tx.rows)
<1>1. S \subseteq 1..MaxId /\ MaxId \in Nat /\ NextId = NewId(S)
  BY LeadIdentityAssumption DEF Used, Ids, NextId, NewId
<1> HIDE DEF S
<1>2. NextId \in Nat \ {0} /\ NextId \notin S
  BY <1>1, NewIdIsFree
<1> QED
  BY <1>1, <1>2 DEF Ids, S

\* A push that matches nothing takes the place of no row and has a key of its own.
LEMMA InsertKeeps ==
  ASSUME BoardInv, NEW p \in Push, tx # Idle, Matches(p) = {}, NextId <= MaxId,
         tx'.rows = [tx.rows EXCEPT ![NextId] = NewRow(p)],
         tx'.boards = tx.boards \cup {NormalizeProfile(p.board)}, UNCHANGED <<now, jobs>>
  PROVE  BoardInv'
<1> DEFINE new == NextId
           home == NormalizeProfile(p.board)
<1>1. /\ tx.rows \in Table /\ tx.boards \subseteq Boards /\ Unique(tx.rows)
      /\ \A i \in Used(jobs) : Stays(i)
  BY DEF BoardInv, BatchIsSound
<1>2. new \in Ids /\ new \notin Used(tx.rows)
  BY NextIdIsFree
<1>3. home \in Boards
  BY LeadIdentityAssumption DEF NormalizeProfile, Push
<1>4. NewRow(p) \in Row /\ NewRow(p).board = home /\ NewRow(p).key = p.key
  BY <1>3 DEF NewRow, Row, Push, BoardInv, TableIsSound
<1>5. \A i \in Used(tx.rows) : ~(tx.rows[i].board = home /\ tx.rows[i].key = p.key)
  BY DEF Matches
<1> HIDE DEF new, home
<1>6. tx'.rows = [tx.rows EXCEPT ![new] = NewRow(p)] /\ tx'.boards = tx.boards \cup {home}
  BY DEF new, home
<1>7. tx'.rows \in Table /\ tx'.boards \subseteq Boards
  BY <1>1, <1>2, <1>3, <1>4, <1>6 DEF Table
<1>8. Unique(tx'.rows)
  <2>1. \A i \in Used(tx'.rows) : i = new \/ (i \in Used(tx.rows) /\ tx'.rows[i] = tx.rows[i])
    BY <1>1, <1>2, <1>6 DEF Used, Table
  <2>2. tx'.rows[new] = NewRow(p)
    BY <1>1, <1>2, <1>6 DEF Table
  <2> QED
    BY <1>1, <1>4, <1>5, <2>1, <2>2 DEF Unique
<1>9. ASSUME NEW i \in Used(jobs) PROVE Stays(i)'
  <2>1. Stays(i) /\ i \in Ids
    BY <1>1 DEF Used
  <2>2. i # new
    BY <2>1, <1>2 DEF Stays, Used
  <2>3. tx'.rows[i] = tx.rows[i]
    BY <1>1, <1>6, <2>1, <2>2 DEF Table
  <2> QED
    BY <1>6, <2>1, <2>3 DEF Stays
<1> QED
  BY <1>7, <1>8, <1>9 DEF BoardInv, TableIsSound, BatchIsSound, Used

\* A push updates a row of its own board, and neither moves nor renames it.
LEMMA UpdateKeeps ==
  ASSUME BoardInv, NEW p \in Push, tx # Idle, NEW k \in Matches(p),
         tx'.rows = [tx.rows EXCEPT ![k] = Updated(@, p)],
         tx'.boards = tx.boards \cup {NormalizeProfile(p.board)}, UNCHANGED <<now, jobs>>
  PROVE  BoardInv'
<1> DEFINE home == NormalizeProfile(p.board)
           row == Updated(tx.rows[k], p)
<1>1. /\ tx.rows \in Table /\ tx.boards \subseteq Boards /\ Unique(tx.rows)
      /\ \A i \in Used(jobs) : Stays(i)
  BY DEF BoardInv, BatchIsSound
<1>2. k \in Ids /\ tx.rows[k] # NoRow /\ tx.rows[k].board = home /\ tx.rows[k] \in Row
  <2>1. k \in Used(tx.rows) /\ tx.rows[k].board = home
    BY DEF Matches
  <2> QED
    BY <1>1, <2>1 DEF Used, Table
<1>3. home \in Boards /\ (p.board = Blank \/ p.board = home)
  BY LeadIdentityAssumption DEF NormalizeProfile, Push
<1>4. /\ row \in Row /\ row.board = tx.rows[k].board /\ row.key = tx.rows[k].key
      /\ row.created = tx.rows[k].created /\ row.viewed = tx.rows[k].viewed
  BY <1>2, <1>3 DEF Updated, Filled, Row, Push
<1> HIDE DEF row, home
<1>5. tx'.rows = [tx.rows EXCEPT ![k] = row] /\ tx'.boards = tx.boards \cup {home}
  BY <1>1, <1>2 DEF row, home, Table
<1>6. tx'.rows \in Table /\ tx'.boards \subseteq Boards
  BY <1>1, <1>2, <1>3, <1>4, <1>5 DEF Table
<1>7. ASSUME NEW i \in Ids
      PROVE  /\ i # k => tx'.rows[i] = tx.rows[i]
             /\ i = k => tx'.rows[i] = row
  BY <1>1, <1>5 DEF Table
<1>8. Unique(tx'.rows)
  <2>1. \A i \in Used(tx'.rows) : i \in Used(tx.rows) /\ tx'.rows[i].board = tx.rows[i].board
                                  /\ tx'.rows[i].key = tx.rows[i].key
    BY <1>2, <1>4, <1>7 DEF Used
  <2> QED
    BY <1>1, <2>1 DEF Unique
<1>9. ASSUME NEW i \in Used(jobs) PROVE Stays(i)'
  <2>1. Stays(i) /\ i \in Ids
    BY <1>1 DEF Used
  <2>2. CASE i = k
    <3>1. tx'.rows[i] # NoRow
      BY <2>1, <2>2, <1>4, <1>7, NoRowIsNone
    <3>2. jobs[i].board = home
      BY <2>1, <2>2, <1>2 DEF Stays
    <3> QED
      BY <2>1, <2>2, <3>1, <3>2, <1>4, <1>5, <1>7 DEF Stays
  <2>3. CASE i # k
    BY <2>1, <2>3, <1>5, <1>7 DEF Stays
  <2> QED
    BY <2>2, <2>3
<1> QED
  BY <1>6, <1>8, <1>9 DEF BoardInv, TableIsSound, BatchIsSound, Used

\* A push inserts or updates.
LEMMA UpsertKeeps == ASSUME BoardInv, NEW p \in Push, Upsert(p) PROVE BoardInv'
<1>1. tx # Idle /\ UNCHANGED <<now, jobs>>
  BY DEF Upsert
<1>2. CASE /\ Matches(p) = {} /\ NextId <= MaxId
           /\ Write(p, [tx.rows EXCEPT ![NextId] = NewRow(p)], 1)
  <2>1. /\ tx'.rows = [tx.rows EXCEPT ![NextId] = NewRow(p)]
        /\ tx'.boards = tx.boards \cup {NormalizeProfile(p.board)}
    BY <1>2 DEF Write
  <2> QED
    BY <1>1, <1>2, <2>1, InsertKeeps
<1>3. CASE \E k \in Matches(p) : Write(p, [tx.rows EXCEPT ![k] = Updated(@, p)], 0)
  <2>1. PICK k \in Matches(p) : Write(p, [tx.rows EXCEPT ![k] = Updated(@, p)], 0)
    BY <1>3
  <2>2. /\ tx'.rows = [tx.rows EXCEPT ![k] = Updated(@, p)]
        /\ tx'.boards = tx.boards \cup {NormalizeProfile(p.board)}
    BY <2>1 DEF Write
  <2> QED
    BY <1>1, <2>2, UpdateKeeps
<1> QED
  BY <1>2, <1>3 DEF Upsert

\* Every other step leaves no batch behind.
LEMMA EndKeeps ==
  ASSUME BoardInv, tx' = Idle, UNCHANGED now, jobs' = jobs \/ (tx # Idle /\ jobs' = tx.rows)
  PROVE  BoardInv'
  BY DEF BoardInv, TableIsSound, BatchIsSound, Unique, Used

\* A view dates a row, and neither moves nor renames it.
LEMMA ViewKeeps == ASSUME BoardInv, NEW k \in Ids, MarkJobViewed(k) PROVE BoardInv'
<1> DEFINE row == [jobs[k] EXCEPT !.viewed = now]
<1>1. /\ tx' = Idle /\ jobs \in Table /\ Unique(jobs) /\ now \in Time /\ now' = now
      /\ jobs[k] # NoRow /\ jobs[k] \in Row /\ jobs' = [jobs EXCEPT ![k] = row]
  BY DEF MarkJobViewed, BoardInv, TableIsSound, Table, Used
<1>2. row \in Row /\ row.board = jobs[k].board /\ row.key = jobs[k].key
  BY <1>1 DEF Row
<1> HIDE DEF row
<1>3. jobs' \in Table
  BY <1>1, <1>2 DEF Table
<1>4. \A i \in Used(jobs') : /\ i \in Used(jobs) /\ jobs'[i].board = jobs[i].board
                             /\ jobs'[i].key = jobs[i].key
  BY <1>1, <1>2 DEF Used, Table
<1>5. Unique(jobs')
  BY <1>1, <1>4 DEF Unique
<1> QED
  BY <1>1, <1>3, <1>5 DEF BoardInv, TableIsSound, BatchIsSound, Unique, Used

\* A delete leaves the other rows alone.
LEMMA DeleteKeeps == ASSUME BoardInv, NEW gone, DeleteJobs(gone) PROVE BoardInv'
<1>1. /\ tx' = Idle /\ jobs \in Table /\ Unique(jobs) /\ now \in Time /\ now' = now
      /\ jobs' = [i \in Ids |-> IF i \in gone THEN NoRow ELSE jobs[i]]
  BY DEF DeleteJobs, BoardInv, TableIsSound
<1>2. jobs' \in Table
  BY <1>1 DEF Table
<1>3. \A i \in Used(jobs') : i \in Used(jobs) /\ jobs'[i] = jobs[i]
  BY <1>1 DEF Used
<1>4. Unique(jobs')
  BY <1>1, <1>3 DEF Unique
<1> QED
  BY <1>1, <1>2, <1>4 DEF BoardInv, TableIsSound, BatchIsSound, Unique, Used

\* Time touches no row.
LEMMA TickKeeps == ASSUME BoardInv, Tick PROVE BoardInv'
  BY LeadIdentityAssumption DEF BoardInv, TableIsSound, BatchIsSound, Unique, Used, Tick, Time

\* No step breaks table or batch.
LEMMA BoardNextKeeps == ASSUME BoardInv, [Next]_vars PROVE BoardInv'
<1>1. CASE Begin
  BY <1>1, BeginKeeps
<1>2. CASE \E p \in Push : Upsert(p)
  BY <1>2, UpsertKeeps
<1>3. CASE \E p \in Push : Refuse(p)
  BY <1>3, EndKeeps DEF Refuse, KeepsNothing
<1>4. CASE Commit
  BY <1>4, EndKeeps DEF Commit
<1>5. CASE Crash
  BY <1>5, EndKeeps DEF Crash
<1>6. CASE \E i \in Ids : MarkJobViewed(i)
  BY <1>6, ViewKeeps
<1>7. CASE (\E i \in Ids : DeleteJob(i)) \/ (\E k \in Keys : DeleteJobByKey(k))
  BY <1>7, DeleteKeeps DEF DeleteJob, DeleteJobByKey
<1>8. CASE Tick
  BY <1>8, TickKeeps
<1>9. CASE UNCHANGED vars
  BY <1>9 DEF BoardInv, TableIsSound, BatchIsSound, Unique, Used, Stays, vars
<1> QED
  BY <1>1, <1>2, <1>3, <1>4, <1>5, <1>6, <1>7, <1>8, <1>9 DEF Next

-----------------------------------------------------------------------------
(* What a batch counts.                                                    *)

\* What a batch has counted so far are the rows its copy has more than the table.
CountInv ==
  /\ deleted \in 0..MaxGone
  /\ added = Cardinality(Used(jobs)) + deleted
  /\ tx # Idle => /\ tx.done \in 0..MaxBatch /\ tx.added \in 0..tx.done
                  /\ Cardinality(Used(tx.rows)) = Cardinality(Used(jobs)) + tx.added

\* The rows of a table can be counted.
LEMMA UsedIsFinite ==
  ASSUME NEW of
  PROVE  IsFiniteSet(Used(of)) /\ Cardinality(Used(of)) \in 0..MaxId
<1>1. MaxId \in Nat /\ IsFiniteSet(1..MaxId) /\ Cardinality(1..MaxId) = MaxId
  BY LeadIdentityAssumption, FS_Interval, FS_EmptySet
<1>2. Used(of) \in SUBSET (1..MaxId)
  BY DEF Used, Ids
<1>3. IsFiniteSet(Used(of)) /\ Cardinality(Used(of)) <= MaxId
  BY <1>1, <1>2, FS_Subset
<1> QED
  BY <1>1, <1>3, FS_CardinalityType

\* No rows, nothing counted.
LEMMA CountInit == Init => CountInv
<1>1. Init => Used(jobs) = {} /\ tx = Idle /\ added = 0 /\ deleted = 0
  BY DEF Init, Used
<1> QED
  BY <1>1, LeadIdentityAssumption, FS_EmptySet DEF CountInv

\* A push counts one row if it inserts it, and none if it updates one.
LEMMA UpsertCounts == ASSUME BoardInv, CountInv, NEW p \in Push, Upsert(p) PROVE CountInv'
<1>1. /\ tx # Idle /\ tx.done < MaxBatch /\ UNCHANGED <<jobs, added, deleted>>
      /\ tx.rows \in Table /\ MaxBatch \in Nat
  BY LeadIdentityAssumption DEF Upsert, BoardInv, BatchIsSound
<1>2. ASSUME NEW more \in {0, 1}, NEW of, Write(p, of, more),
             Cardinality(Used(of)) = Cardinality(Used(tx.rows)) + more
      PROVE  CountInv'
  <2>1. tx'.rows = of /\ tx'.done = tx.done + 1 /\ tx'.added = tx.added + more
    BY <1>2 DEF Write
  <2>2. tx.done \in 0..MaxBatch /\ tx.added \in 0..tx.done
    BY <1>1 DEF CountInv
  <2>3. tx'.done \in 0..MaxBatch /\ tx'.added \in 0..tx'.done
    BY <1>1, <2>1, <2>2
  <2>4. Used(jobs)' = Used(jobs) /\ Used(tx.rows)' = Used(of)
    BY <1>1, <2>1 DEF Used
  <2>5. Cardinality(Used(tx.rows)) \in Nat /\ Cardinality(Used(jobs)) \in Nat
    BY UsedIsFinite
  <2>6. Cardinality(Used(of)) = Cardinality(Used(jobs)) + tx'.added
    BY <1>1, <1>2, <2>1, <2>2, <2>5 DEF CountInv
  <2> QED
    BY <1>1, <2>3, <2>4, <2>6 DEF CountInv
<1>3. CASE /\ Matches(p) = {} /\ NextId <= MaxId
           /\ Write(p, [tx.rows EXCEPT ![NextId] = NewRow(p)], 1)
  <2> DEFINE of == [tx.rows EXCEPT ![NextId] = NewRow(p)]
  <2>1. NextId \in Ids /\ NextId \notin Used(tx.rows)
    BY <1>3, NextIdIsFree
  <2>2. NormalizeProfile(p.board) \in Boards
    BY LeadIdentityAssumption DEF NormalizeProfile, Push
  <2>3. NewRow(p) \in Row
    BY <2>2 DEF NewRow, Row, Push, BoardInv, TableIsSound
  <2>4. Used(of) = Used(tx.rows) \cup {NextId}
    BY <1>1, <2>1, <2>3, NoRowIsNone DEF Used, Table
  <2>5. Cardinality(Used(of)) = Cardinality(Used(tx.rows)) + 1
    BY <2>1, <2>4, UsedIsFinite, FS_AddElement
  <2> QED
    BY <1>2, <1>3, <2>5
<1>4. CASE \E k \in Matches(p) : Write(p, [tx.rows EXCEPT ![k] = Updated(@, p)], 0)
  <2>1. PICK k \in Matches(p) : Write(p, [tx.rows EXCEPT ![k] = Updated(@, p)], 0)
    BY <1>4
  <2> DEFINE row == Updated(tx.rows[k], p)
             of == [tx.rows EXCEPT ![k] = row]
  <2>2. k \in Ids /\ tx.rows[k] # NoRow /\ tx.rows[k] \in Row
    BY <1>1 DEF Matches, Used, Table
  <2>3. row \in Row
    BY <2>2 DEF Updated, Filled, Row, Push
  <2>4. Write(p, of, 0)
    BY <2>1
  <2> HIDE DEF row
  <2>5. Used(of) = Used(tx.rows)
    BY <1>1, <2>2, <2>3, NoRowIsNone DEF Used, Table
  <2> HIDE DEF of
  <2>6. Cardinality(Used(tx.rows)) \in Nat
    BY UsedIsFinite
  <2> QED
    BY <1>2, <2>4, <2>5, <2>6
<1> QED
  BY <1>3, <1>4 DEF Upsert

\* What is deleted is no longer there.
LEMMA DeleteCounts == ASSUME BoardInv, CountInv, NEW gone, DeleteJobs(gone) PROVE CountInv'
<1>1. /\ tx' = Idle /\ added' = added /\ gone \subseteq Used(jobs)
      /\ deleted' = deleted + Cardinality(gone) /\ deleted + Cardinality(gone) <= MaxGone
      /\ jobs' = [i \in Ids |-> IF i \in gone THEN NoRow ELSE jobs[i]]
      /\ deleted \in 0..MaxGone /\ MaxGone \in Nat
  BY LeadIdentityAssumption DEF DeleteJobs, CountInv
<1>2. Used(jobs)' = Used(jobs) \ gone
  BY <1>1 DEF Used
<1>3. IsFiniteSet(Used(jobs)) /\ Cardinality(Used(jobs)) \in Nat
  BY UsedIsFinite
<1>4. Used(jobs) \cap gone = gone
  BY <1>1
<1>5. Cardinality(Used(jobs) \ gone) = Cardinality(Used(jobs)) - Cardinality(gone)
  BY <1>3, <1>4, FS_Difference
<1>6. IsFiniteSet(gone) /\ Cardinality(gone) \in Nat
  BY <1>1, <1>3, FS_Subset, FS_CardinalityType
<1>7. added = Cardinality(Used(jobs)) + deleted
  BY DEF CountInv
<1> QED
  BY <1>1, <1>2, <1>3, <1>5, <1>6, <1>7 DEF CountInv

\* No step counts a row that is not there, and none loses one uncounted.
LEMMA CountNextKeeps == ASSUME BoardInv, CountInv, [Next]_vars PROVE CountInv'
<1>1. CASE Begin
  <2>1. /\ UNCHANGED <<jobs, added, deleted>> /\ tx'.rows = jobs
        /\ tx'.done = 0 /\ tx'.added = 0
    BY <1>1 DEF Begin
  <2>2. Used(jobs)' = Used(jobs) /\ Used(tx.rows)' = Used(jobs)
    BY <2>1 DEF Used
  <2>3. Cardinality(Used(jobs)) \in Nat /\ MaxBatch \in Nat
    BY UsedIsFinite, LeadIdentityAssumption
  <2> QED
    BY <2>1, <2>2, <2>3 DEF CountInv
<1>2. CASE \E p \in Push : Upsert(p)
  BY <1>2, UpsertCounts
<1>3. CASE \/ \E p \in Push : Refuse(p)
           \/ Crash
  BY <1>3 DEF Refuse, KeepsNothing, Crash, CountInv, Used
<1>4. CASE Commit
  <2>1. /\ tx # Idle /\ jobs' = tx.rows /\ added' = added + tx.added /\ tx' = Idle
        /\ deleted' = deleted
    BY <1>4 DEF Commit
  <2>2. Used(jobs)' = Used(tx.rows)
    BY <2>1 DEF Used
  <2>3. Cardinality(Used(jobs)) \in Nat /\ tx.added \in Nat /\ deleted \in Nat
    BY <2>1, UsedIsFinite DEF CountInv
  <2> QED
    BY <2>1, <2>2, <2>3 DEF CountInv
<1>5. CASE \E i \in Ids : MarkJobViewed(i)
  <2>1. PICK k \in Ids : MarkJobViewed(k)
    BY <1>5
  <2>2. /\ jobs \in Table /\ jobs[k] # NoRow /\ tx' = tx /\ tx = Idle
        /\ jobs' = [jobs EXCEPT ![k].viewed = now] /\ UNCHANGED <<added, deleted>>
        /\ now \in Time
    BY <2>1 DEF MarkJobViewed, BoardInv, TableIsSound, Used
  <2>3. [jobs[k] EXCEPT !.viewed = now] \in Row
    BY <2>2 DEF Table, Row
  <2>4. Used(jobs)' = Used(jobs)
    BY <2>2, <2>3, NoRowIsNone DEF Used, Table
  <2> QED
    BY <2>2, <2>4 DEF CountInv
<1>6. CASE (\E i \in Ids : DeleteJob(i)) \/ (\E k \in Keys : DeleteJobByKey(k))
  BY <1>6, DeleteCounts DEF DeleteJob, DeleteJobByKey
<1>7. CASE Tick
  BY <1>7 DEF Tick, CountInv, Used
<1>8. CASE UNCHANGED vars
  BY <1>8 DEF vars, CountInv, Used
<1> QED
  BY <1>1, <1>2, <1>3, <1>4, <1>5, <1>6, <1>7, <1>8 DEF Next

\* The invariants are well typed.
LEMMA IdentityTypes == ASSUME BoardInv, CountInv PROVE TypeOK
<1>1. Cardinality(Used(jobs)) \in 0..MaxId /\ MaxId \in Nat /\ MaxGone \in Nat
  BY UsedIsFinite, LeadIdentityAssumption
<1>2. added \in 0..(MaxId + MaxGone)
  BY <1>1 DEF CountInv
<1> QED
  BY <1>2 DEF BoardInv, TableIsSound, BatchIsSound, CountInv, TypeOK, Table

-----------------------------------------------------------------------------
(* Duplicate links, when link requests do not cross.                       *)

OneLinkAtATime == \A r, s \in Linkers : r = s

\* The canonical a request has read is not a mirror, and will not be one before
\* the request writes: nothing but a link makes a mirror.
LinkInv ==
  /\ Links!TypeOK
  /\ Links!OneHop
  /\ \A r \in Linkers : linking[r] # Idle =>
       linking[r].dup # linking[r].to /\ linking[r].to \notin Links!Mirrors

\* No mirrors, no requests.
LEMMA InitLinks == ASSUME Links!DuplicateLinksAssumption, Links!Init PROVE LinkInv
  BY DEF Links!DuplicateLinksAssumption, Links!Init, LinkInv, Links!TypeOK, Links!OneHop,
         Links!Mirrors, Links!Rows

\* A row that is inserted, unlinked or deleted is a mirror no more.
LEMMA FewerMirrors ==
  ASSUME LinkInv, linking' = linking, duplicateOf' \in [Links!Ids -> Links!Ids \cup {0, NoRow}],
         \A i \in Links!Ids : duplicateOf'[i] \in {duplicateOf[i], 0, NoRow}
  PROVE  LinkInv'
<1>1. Links!Mirrors' \subseteq Links!Mirrors
  BY DEF LinkInv, Links!TypeOK, Links!Mirrors, Links!Rows
<1>2. \A i \in Links!Mirrors' : duplicateOf'[i] = duplicateOf[i]
  BY DEF Links!Mirrors, Links!Rows
<1>3. Links!OneHop'
  BY <1>1, <1>2 DEF LinkInv, Links!OneHop
<1> QED
  BY <1>1, <1>3 DEF LinkInv, Links!TypeOK

\* What a request reads as its canonical is not a mirror: one hop was followed.
LEMMA StartKeeps ==
  ASSUME Links!DuplicateLinksAssumption, LinkInv, NEW r \in Linkers,
         NEW dup \in Links!Ids, NEW to \in Links!Ids, Links!StartLink(r, dup, to)
  PROVE  LinkInv'
<1> DEFINE canonical == Links!Collapsed(to)
<1>1. /\ linking' = [linking EXCEPT ![r] = [dup |-> dup, to |-> canonical]]
      /\ duplicateOf' = duplicateOf /\ dup # canonical /\ to \in Links!Rows
  BY DEF Links!StartLink, Links!Exists
<1>2. canonical \in Links!Ids /\ canonical \notin Links!Mirrors
  <2>1. CASE duplicateOf[to] \in {0, NoRow}
    BY <2>1 DEF Links!Collapsed, Links!Mirrors, Links!Rows
  <2>2. CASE duplicateOf[to] \notin {0, NoRow}
    BY <2>2, <1>1 DEF LinkInv, Links!TypeOK, Links!OneHop, Links!Collapsed, Links!Mirrors
  <2> QED
    BY <2>1, <2>2
<1> HIDE DEF canonical
<1>3. Links!TypeOK'
  BY <1>1, <1>2 DEF LinkInv, Links!TypeOK
<1>4. Links!OneHop' /\ Links!Mirrors' = Links!Mirrors
  BY <1>1 DEF LinkInv, Links!OneHop, Links!Mirrors, Links!Rows
<1> QED
  BY <1>1, <1>2, <1>3, <1>4 DEF LinkInv, Links!TypeOK

\* The write makes a mirror of its lead alone, and takes the mirrors of it along.
LEMMA WriteKeeps ==
  ASSUME Links!DuplicateLinksAssumption, OneLinkAtATime, LinkInv,
         NEW r \in Linkers, Links!LinkDuplicate(r)
  PROVE  LinkInv'
<1> DEFINE dup == linking[r].dup
           to == linking[r].to
<1>1. /\ dup \in Links!Ids /\ to \in Links!Ids /\ dup # to /\ to \notin Links!Mirrors
      /\ duplicateOf' = Links!Linked(dup, to) /\ linking' = [linking EXCEPT ![r] = Idle]
  BY DEF Links!LinkDuplicate, LinkInv, Links!TypeOK
<1> HIDE DEF dup, to
<1>2. ASSUME NEW i \in Links!Ids
      PROVE  duplicateOf'[i] = IF (i = dup /\ i \in Links!Rows) \/ duplicateOf[i] = dup
                               THEN to ELSE duplicateOf[i]
  BY <1>1 DEF Links!Linked
<1>3. Links!TypeOK'
  BY <1>1, <1>2 DEF LinkInv, Links!TypeOK, Links!Linked
<1>4. Links!Mirrors' \subseteq Links!Mirrors \cup {dup}
  BY <1>1, <1>2 DEF Links!DuplicateLinksAssumption, Links!Mirrors, Links!Rows, Links!Ids
<1>5. ASSUME NEW i \in Links!Mirrors' PROVE duplicateOf'[i] \notin Links!Mirrors'
  <2>1. i \in Links!Ids
    BY DEF Links!Mirrors, Links!Rows
  <2>2. CASE duplicateOf'[i] = to
    BY <2>2, <1>1, <1>4
  <2>3. CASE duplicateOf'[i] # to
    <3>1. duplicateOf'[i] = duplicateOf[i] /\ duplicateOf[i] # dup
      BY <2>1, <2>3, <1>2
    <3>2. i \in Links!Mirrors
      BY <2>1, <3>1 DEF Links!Mirrors, Links!Rows
    <3> QED
      BY <3>1, <3>2, <1>4 DEF LinkInv, Links!OneHop
  <2> QED
    BY <2>2, <2>3
<1>6. linking'[r] = Idle
  BY <1>1 DEF LinkInv, Links!TypeOK
<1>7. \A s \in Linkers : linking'[s] = Idle
  BY <1>6 DEF OneLinkAtATime
<1> QED
  BY <1>3, <1>5, <1>7 DEF LinkInv, Links!OneHop

\* No step builds a chain.
LEMMA LinksNextKeep ==
  ASSUME Links!DuplicateLinksAssumption, OneLinkAtATime, LinkInv,
         [Links!Next]_(Links!vars)
  PROVE  LinkInv'
<1>1. CASE Links!Insert
  <2>1. duplicateOf' = [duplicateOf EXCEPT ![Links!NextId] = 0] /\ linking' = linking
    BY <1>1 DEF Links!Insert
  <2> QED
    BY <2>1, FewerMirrors DEF LinkInv, Links!TypeOK
<1>2. CASE \E r \in Linkers, dup, to \in Links!Ids : Links!StartLink(r, dup, to)
  BY <1>2, StartKeeps
<1>3. CASE \E r \in Linkers : Links!LinkDuplicate(r)
  BY <1>3, WriteKeeps
<1>4. CASE \E r \in Linkers : Links!RefuseLink(r)
  BY <1>4 DEF Links!RefuseLink, LinkInv, Links!TypeOK, Links!OneHop, Links!Mirrors, Links!Rows
<1>5. CASE \E i \in Links!Ids : Links!UnlinkDuplicate(i)
  <2>1. PICK k \in Links!Ids : Links!UnlinkDuplicate(k)
    BY <1>5
  <2>2. duplicateOf' = [duplicateOf EXCEPT ![k] = 0] /\ linking' = linking
    BY <2>1 DEF Links!UnlinkDuplicate
  <2> QED
    BY <2>2, FewerMirrors DEF LinkInv, Links!TypeOK
<1>6. CASE \E i \in Links!Ids : Links!DeleteJob(i)
  <2>1. PICK k \in Links!Ids : Links!DeleteJob(k)
    BY <1>6
  <2>2. duplicateOf' = [duplicateOf EXCEPT ![k] = NoRow] /\ linking' = linking
    BY <2>1 DEF Links!DeleteJob
  <2> QED
    BY <2>2, FewerMirrors DEF LinkInv, Links!TypeOK
<1>7. CASE Links!PurgeJobs
  <2>1. duplicateOf' = [i \in Links!Ids |-> NoRow] /\ linking' = linking
    BY <1>7 DEF Links!PurgeJobs
  <2> QED
    BY <2>1, FewerMirrors DEF LinkInv, Links!TypeOK
<1>8. CASE UNCHANGED Links!vars
  BY <1>8 DEF LinkInv, Links!TypeOK, Links!OneHop, Links!Mirrors, Links!Rows, Links!vars
<1> QED
  BY <1>1, <1>2, <1>3, <1>4, <1>5, <1>6, <1>7, <1>8 DEF Links!Next

\* The types of the links, whatever requests cross.
LEMMA LinksStayTyped ==
  ASSUME Links!DuplicateLinksAssumption, Links!TypeOK, [Links!Next]_(Links!vars)
  PROVE  Links!TypeOK'
<1>1. CASE Links!Insert
  BY <1>1 DEF Links!TypeOK, Links!Insert
<1>2. CASE \E r \in Linkers, dup, to \in Links!Ids : Links!StartLink(r, dup, to)
  BY <1>2 DEF Links!TypeOK, Links!StartLink, Links!Collapsed
<1>3. CASE \E r \in Linkers : Links!LinkDuplicate(r) \/ Links!RefuseLink(r)
  BY <1>3 DEF Links!TypeOK, Links!LinkDuplicate, Links!RefuseLink, Links!Linked
<1>4. CASE (\E i \in Links!Ids : Links!UnlinkDuplicate(i) \/ Links!DeleteJob(i)) \/ Links!PurgeJobs
  BY <1>4 DEF Links!TypeOK, Links!UnlinkDuplicate, Links!DeleteJob, Links!PurgeJobs
<1>5. CASE UNCHANGED Links!vars
  BY <1>5 DEF Links!TypeOK, Links!vars
<1> QED
  BY <1>1, <1>2, <1>3, <1>4, <1>5 DEF Links!Next

-----------------------------------------------------------------------------
(* Whose leads they are.                                                   *)

OwnersAreTyped ==
  /\ lead \in [Owners!Ids -> Boards \cup {NoRow}]
  /\ link \in [Owners!Ids -> [Boards -> {"none", "share", "owner"}]]
  /\ asking \in [Requests -> Owners!Request \cup {Idle}]

\* The owner link of a lead is its profile's, and no other link is.
Owned ==
  \A i \in Owners!Leads \ Deletable : \A p \in Boards : link[i][p] = "owner" <=> p = lead[i]

\* A share that is being taken back was not the owner's link, and will not be.
TakesBackShares ==
  \A r \in Requests :
    (asking[r] # Idle /\ asking[r].op = "unshare" /\ asking[r].id \notin Deletable) =>
      asking[r].id \in Owners!Leads /\ asking[r].slug # lead[asking[r].id]

OwnersInv == OwnersAreTyped /\ Owned /\ TakesBackShares

\* A board without leads.
LEMMA InitOwners == Owners!Init => OwnersInv
  BY DEF Owners!Init, OwnersInv, OwnersAreTyped, Owned, TakesBackShares, Owners!Leads

\* The leads whose ids are not given out again stay with their profiles.
LeadsLast == \A i \in Owners!Leads \ Deletable : lead'[i] = lead[i]

\* Who asks for a share back stays right while the leads last.
LEMMA AskersStayRight ==
  ASSUME OwnersInv, LeadsLast,
         \A r \in Requests : asking'[r] # Idle =>
           asking[r] # Idle /\ asking'[r].op = asking[r].op
           /\ asking'[r].id = asking[r].id /\ asking'[r].slug = asking[r].slug
  PROVE  TakesBackShares'
<1> SUFFICES ASSUME NEW r \in Requests, asking'[r] # Idle, asking'[r].op = "unshare",
                    asking'[r].id \notin Deletable
             PROVE  asking'[r].id \in Owners!Leads' /\ asking'[r].slug # lead'[asking'[r].id]
  BY DEF TakesBackShares
<1>1. /\ asking[r] # Idle /\ asking[r].op = "unshare" /\ asking'[r].id = asking[r].id
      /\ asking'[r].slug = asking[r].slug
  OBVIOUS
<1>2. asking[r].id \in Owners!Leads \ Deletable /\ asking[r].slug # lead[asking[r].id]
  BY <1>1 DEF OwnersInv, TakesBackShares
<1>3. lead'[asking[r].id] = lead[asking[r].id]
  BY <1>2 DEF LeadsLast
<1> QED
  BY <1>1, <1>2, <1>3 DEF Owners!Leads

\* Restating the owner link leaves one owner, the profile it names.
LEMMA OwnerLinkIs ==
  ASSUME NEW of \in [Boards -> {"none", "share", "owner"}], NEW slug \in Boards
  PROVE  /\ Owners!OwnerLink(of, slug) \in [Boards -> {"none", "share", "owner"}]
         /\ \A p \in Boards : Owners!OwnerLink(of, slug)[p] = "owner" <=> p = slug
  BY DEF Owners!OwnerLink

\* A new lead has the owner it was found by.
LEMMA PushNewKeeps ==
  ASSUME Owners!ProfileLinksAssumption, OwnersInv, NEW slug \in Boards, Owners!PushNew(slug)
  PROVE  OwnersInv'
<1> DEFINE new == Owners!NextId
           of == Owners!OwnerLink(link[new], slug)
<1>1. new \in Owners!Ids /\ new \notin Owners!Leads
  <2> DEFINE S == Owners!Leads
  <2>1. new = NewId(S)
    BY DEF Owners!NextId, NewId
  <2>2. S \subseteq 1..MaxOwned /\ MaxOwned \in Nat /\ new <= MaxOwned
    BY DEF Owners!ProfileLinksAssumption, Owners!Leads, Owners!Ids, Owners!PushNew
  <2> HIDE DEF S, new
  <2>3. new \in Nat \ {0} /\ new \notin S
    BY <2>1, <2>2, NewIdIsFree
  <2> QED
    BY <2>2, <2>3 DEF Owners!Ids, S
<1>2. lead' = [lead EXCEPT ![new] = slug] /\ link' = [link EXCEPT ![new] = of] /\ asking' = asking
  BY <1>1 DEF Owners!PushNew, OwnersInv, OwnersAreTyped
<1>3. /\ of \in [Boards -> {"none", "share", "owner"}]
      /\ \A p \in Boards : of[p] = "owner" <=> p = slug
  BY <1>1, OwnerLinkIs DEF OwnersInv, OwnersAreTyped
<1> HIDE DEF new, of
<1>4. OwnersAreTyped'
  BY <1>1, <1>2, <1>3 DEF OwnersInv, OwnersAreTyped
<1>5. /\ lead'[new] = slug /\ link'[new] = of
      /\ \A i \in Owners!Ids : i # new => lead'[i] = lead[i] /\ link'[i] = link[i]
  BY <1>1, <1>2 DEF OwnersInv, OwnersAreTyped
<1>6. Owned'
  BY <1>3, <1>5 DEF OwnersInv, Owned, Owners!Leads
<1>7. LeadsLast
  BY <1>1, <1>5 DEF LeadsLast, Owners!Leads
<1> QED
  BY <1>2, <1>4, <1>6, <1>7, AskersStayRight DEF OwnersInv

\* A lead that is pushed again keeps its owner.
LEMMA PushAgainKeeps ==
  ASSUME OwnersInv, NEW k \in Owners!Ids, Owners!PushAgain(k)
  PROVE  OwnersInv'
<1> DEFINE of == Owners!OwnerLink(link[k], lead[k])
<1>1. /\ lead[k] \in Boards /\ link[k] \in [Boards -> {"none", "share", "owner"}]
      /\ link' = [link EXCEPT ![k] = of] /\ UNCHANGED <<lead, asking>>
  BY DEF Owners!PushAgain, Owners!Leads, OwnersInv, OwnersAreTyped
<1>2. /\ of \in [Boards -> {"none", "share", "owner"}]
      /\ \A p \in Boards : of[p] = "owner" <=> p = lead[k]
  BY <1>1, OwnerLinkIs
<1> HIDE DEF of
<1>3. OwnersAreTyped'
  BY <1>1, <1>2 DEF OwnersInv, OwnersAreTyped
<1>4. link'[k] = of /\ \A i \in Owners!Ids : i # k => link'[i] = link[i]
  BY <1>1 DEF OwnersInv, OwnersAreTyped
<1>5. Owned'
  BY <1>1, <1>2, <1>4 DEF OwnersInv, Owned, Owners!Leads
<1>6. LeadsLast
  BY <1>1 DEF LeadsLast
<1> QED
  BY <1>1, <1>3, <1>5, <1>6, AskersStayRight DEF OwnersInv

\* Only leads whose ids may be given out again are deleted.
LEMMA RemoveKeeps ==
  ASSUME OwnersInv, NEW gone, Owners!Remove(gone)
  PROVE  OwnersInv'
<1>1. /\ gone \subseteq Deletable /\ asking' = asking
      /\ lead' = [i \in Owners!Ids |-> IF i \in gone THEN NoRow ELSE lead[i]]
      /\ link' = [i \in Owners!Ids |-> IF i \in gone THEN [p \in Boards |-> "none"] ELSE link[i]]
  BY DEF Owners!Remove
<1>2. OwnersAreTyped'
  BY <1>1 DEF OwnersInv, OwnersAreTyped
<1>3. \A i \in Owners!Ids : i \notin Deletable => lead'[i] = lead[i] /\ link'[i] = link[i]
  BY <1>1
<1>4. Owned' /\ LeadsLast
  BY <1>3 DEF OwnersInv, Owned, LeadsLast, Owners!Leads
<1> QED
  BY <1>1, <1>2, <1>4, AskersStayRight DEF OwnersInv

\* A request is well-formed and, when it takes a share back, found one.
LEMMA BeginKeepsOwners ==
  ASSUME OwnersInv, NEW r \in Requests, NEW q \in Owners!Request, Owners!Begin(r, q),
         (q.op = "unshare" /\ q.id \notin Deletable) => q.id \in Owners!Leads /\ q.slug # lead[q.id]
  PROVE  OwnersInv'
<1>1. asking' = [asking EXCEPT ![r] = q] /\ UNCHANGED <<lead, link>>
  BY DEF Owners!Begin
<1>2. OwnersAreTyped'
  BY <1>1 DEF OwnersInv, OwnersAreTyped
<1>3. asking'[r] = q /\ \A s \in Requests : s # r => asking'[s] = asking[s]
  BY <1>1 DEF OwnersInv, OwnersAreTyped
<1>4. TakesBackShares'
  BY <1>1, <1>3 DEF OwnersInv, TakesBackShares, Owners!Leads
<1>5. Owned'
  BY <1>1 DEF OwnersInv, Owned, Owners!Leads
<1> QED
  BY <1>2, <1>4, <1>5 DEF OwnersInv

\* A request to share a lead, or to take a share back.
LEMMA SharesKeep ==
  ASSUME OwnersInv, NEW r \in Requests, NEW i \in Owners!Ids, NEW p \in Boards,
         Owners!Share(r, i, p) \/ Owners!Unshare(r, i, p)
  PROVE  OwnersInv'
<1>1. CASE Owners!Share(r, i, p)
  <2> DEFINE q == [op |-> "share", id |-> i, slug |-> p, named |-> {}, at |-> "ensure"]
  <2>1. q \in Owners!Request /\ q.op # "unshare" /\ Owners!Begin(r, q)
    BY <1>1 DEF Owners!Request, Owners!Kinds, Owners!Share
  <2> HIDE DEF q
  <2> QED
    BY <2>1, BeginKeepsOwners
<1>2. CASE Owners!Unshare(r, i, p)
  <2> DEFINE q == [op |-> "unshare", id |-> i, slug |-> p, named |-> {}, at |-> "write"]
  <2>1. q \in Owners!Request /\ q.id = i /\ q.slug = p /\ Owners!Begin(r, q)
    BY <1>2 DEF Owners!Request, Owners!Kinds, Owners!Unshare
  <2>2. i \in Owners!Leads /\ link[i][p] \notin {"none", "owner"}
    BY <1>2 DEF Owners!Unshare, Owners!RefusesOwner
  <2>3. i \notin Deletable => p # lead[i]
    BY <2>2 DEF OwnersInv, Owned
  <2> HIDE DEF q
  <2> QED
    BY <2>1, <2>2, <2>3, BeginKeepsOwners
<1> QED
  BY <1>1, <1>2

\* A request to describe or to seed a profile.
LEMMA DescribesKeep ==
  ASSUME OwnersInv, NEW r \in Requests, NEW p \in Boards, NEW op \in {"seed", "describe"},
         NEW named \in SUBSET Fields,
         Owners!Begin(r, [op |-> op, id |-> 0, slug |-> p, named |-> named, at |-> "ensure"])
  PROVE  OwnersInv'
<1> DEFINE q == [op |-> op, id |-> 0, slug |-> p, named |-> named, at |-> "ensure"]
<1>1. q \in Owners!Request /\ q.op # "unshare" /\ Owners!Begin(r, q)
  BY DEF Owners!Request, Owners!Kinds
<1> HIDE DEF q
<1> QED
  BY <1>1, BeginKeepsOwners

\* A step of a request that writes no link.
LEMMA StepKeepsOwners ==
  ASSUME OwnersInv, NEW r \in Requests, UNCHANGED <<lead, link>>, asking[r] # Idle,
         Owners!Ends(r) \/ \E at \in {"insert", "write"} : Owners!Goes(r, at)
  PROVE  OwnersInv'
<1>1. asking[r] \in Owners!Request /\ asking \in [Requests -> Owners!Request \cup {Idle}]
  BY DEF OwnersInv, OwnersAreTyped
<1>2. CASE Owners!Ends(r)
  <2>1. asking' = [asking EXCEPT ![r] = Idle]
    BY <1>2 DEF Owners!Ends
  <2>2. OwnersAreTyped' /\ \A s \in Requests : asking'[s] # Idle => asking'[s] = asking[s]
    BY <1>1, <2>1 DEF OwnersInv, OwnersAreTyped
  <2> QED
    BY <2>2, AskersStayRight DEF OwnersInv, LeadsLast, Owned, Owners!Leads
<1>3. ASSUME NEW at \in {"insert", "write"}, Owners!Goes(r, at) PROVE OwnersInv'
  <2> DEFINE q == [asking[r] EXCEPT !.at = at]
  <2>1. asking' = [asking EXCEPT ![r] = q]
    BY <1>3 DEF Owners!Goes
  <2>2. /\ q \in Owners!Request /\ q.op = asking[r].op
        /\ q.id = asking[r].id /\ q.slug = asking[r].slug
    BY <1>1 DEF Owners!Request
  <2> HIDE DEF q
  <2>3. asking'[r] = q /\ \A s \in Requests : s # r => asking'[s] = asking[s]
    BY <1>1, <2>1
  <2>4. OwnersAreTyped'
    BY <1>1, <2>1, <2>2 DEF OwnersInv, OwnersAreTyped
  <2>5. TakesBackShares'
    BY <2>2, <2>3, AskersStayRight DEF LeadsLast
  <2>6. Owned'
    BY DEF OwnersInv, Owned, Owners!Leads
  <2> QED
    BY <2>4, <2>5, <2>6 DEF OwnersInv
<1> QED
  BY <1>2, <1>3

\* A share is written where there is no link, and taken from no owner.
LEMMA LinkWritesKeep ==
  ASSUME OwnersInv, NEW r \in Requests,
         Owners!LinkJobProfile(r) \/ Owners!UnlinkJobProfile(r)
  PROVE  OwnersInv'
<1> DEFINE q == asking[r]
<1>1. /\ q # Idle /\ q \in Owners!Request /\ UNCHANGED lead /\ asking' = [asking EXCEPT ![r] = Idle]
  BY DEF Owners!LinkJobProfile, Owners!UnlinkJobProfile, Owners!Writes, Owners!Ends,
         OwnersInv, OwnersAreTyped
<1>2. PICK how \in {"none", "share"} :
        /\ \/ link' = link
           \/ q.id \in Owners!Ids /\ link' = [link EXCEPT ![q.id][q.slug] = how]
        /\ q.id \in Owners!Leads \ Deletable => (link' = link \/ q.slug # lead[q.id])
  <2>1. CASE Owners!LinkJobProfile(r)
    <3>1. \/ link' = link
          \/ /\ q.id \in Owners!Leads /\ link[q.id][q.slug] = "none"
             /\ link' = [link EXCEPT ![q.id][q.slug] = "share"]
      BY <2>1 DEF Owners!LinkJobProfile, Owners!References
    <3>2. q.slug \in Boards
      BY <1>1 DEF Owners!Request
    <3> QED
      BY <3>1, <3>2 DEF OwnersInv, Owned, Owners!Leads
  <2>2. CASE Owners!UnlinkJobProfile(r)
    <3>1. /\ link' = [link EXCEPT ![q.id][q.slug] = "none"] /\ q.op = "unshare"
      BY <2>2 DEF Owners!UnlinkJobProfile, Owners!Writes
    <3>2. q.id \notin Deletable => q.slug # lead[q.id]
      BY <1>1, <3>1 DEF OwnersInv, TakesBackShares
    <3>3. q.id \notin Owners!Ids => link' = link
      BY <3>1 DEF OwnersInv, OwnersAreTyped
    <3> QED
      BY <3>1, <3>2, <3>3
  <2> QED
    BY <2>1, <2>2
<1>3. /\ q.slug \in Boards
      /\ link \in [Owners!Ids -> [Boards -> {"none", "share", "owner"}]]
      /\ asking \in [Requests -> Owners!Request \cup {Idle}]
  BY <1>1 DEF Owners!Request, OwnersInv, OwnersAreTyped
<1> HIDE DEF q
<1>4. link' \in [Owners!Ids -> [Boards -> {"none", "share", "owner"}]]
  BY <1>2, <1>3
<1>5. OwnersAreTyped' /\ \A s \in Requests : asking'[s] # Idle => asking'[s] = asking[s]
  BY <1>1, <1>3, <1>4 DEF OwnersInv, OwnersAreTyped
<1>6. ASSUME NEW i \in Owners!Leads \ Deletable, NEW p \in Boards
      PROVE  link'[i][p] = "owner" <=> p = lead[i]
  <2>1. link[i][p] = "owner" <=> p = lead[i]
    BY DEF OwnersInv, Owned
  <2>2. CASE link'[i][p] = link[i][p]
    BY <2>1, <2>2
  <2>3. CASE link'[i][p] # link[i][p]
    <3>1. i \in Owners!Ids
      BY DEF Owners!Leads
    <3>2. i = q.id /\ p = q.slug /\ link'[i][p] = how
      BY <1>2, <1>3, <2>3, <3>1
    <3> QED
      BY <1>2, <2>3, <3>2
  <2> QED
    BY <2>2, <2>3
<1>7. Owned' /\ LeadsLast
  BY <1>1, <1>6 DEF Owned, LeadsLast, Owners!Leads
<1> QED
  BY <1>5, <1>7, AskersStayRight DEF OwnersInv

\* The backfill at a start adds an owner link only for the profile of the lead.
LEMMA RestartKeepsOwners == ASSUME OwnersInv, Owners!Restart PROVE OwnersInv'
<1>1. /\ asking' = [r \in Requests |-> Idle] /\ UNCHANGED lead
      /\ link' = [i \in Owners!Ids |-> [p \in Boards |-> Owners!Backfill(i, p)]]
  BY DEF Owners!Restart
<1>2. ASSUME NEW i \in Owners!Ids, NEW p \in Boards
      PROVE  /\ Owners!Backfill(i, p) \in {"none", "share", "owner"}
             /\ Owners!Backfill(i, p) \in {link[i][p]} \cup (IF lead[i] = p THEN {"owner"} ELSE {})
  BY DEF Owners!Backfill, OwnersInv, OwnersAreTyped
<1>3. OwnersAreTyped'
  BY <1>1, <1>2 DEF OwnersInv, OwnersAreTyped
<1>4. ASSUME NEW i \in Owners!Leads \ Deletable, NEW p \in Boards
      PROVE  link'[i][p] = "owner" <=> p = lead[i]
  <2>1. i \in Owners!Ids /\ (link[i][p] = "owner" <=> p = lead[i])
    BY DEF OwnersInv, Owned, Owners!Leads
  <2>2. link'[i][p] = Owners!Backfill(i, p)
    BY <1>1, <2>1
  <2> QED
    BY <1>2, <2>1, <2>2
<1>5. Owned'
  BY <1>1, <1>4 DEF Owned, Owners!Leads
<1>6. TakesBackShares'
  BY <1>1 DEF TakesBackShares
<1> QED
  BY <1>3, <1>5, <1>6 DEF OwnersInv

\* No step gives a lead another owner, or none.
LEMMA OwnersNextKeep ==
  ASSUME Owners!ProfileLinksAssumption, OwnersInv, [Owners!Next]_(Owners!vars)
  PROVE  OwnersInv'
<1>1. CASE \E p \in Boards : Owners!PushNew(p)
  BY <1>1, PushNewKeeps
<1>2. CASE \E i \in Owners!Ids : Owners!PushAgain(i) \/ Owners!DeleteJob(i)
  BY <1>2, PushAgainKeeps, RemoveKeeps DEF Owners!DeleteJob
<1>3. CASE Owners!PurgeJobs
  BY <1>3, RemoveKeeps DEF Owners!PurgeJobs
<1>4. CASE \E r \in Requests, i \in Owners!Ids, p \in Boards :
             Owners!Share(r, i, p) \/ Owners!Unshare(r, i, p)
  BY <1>4, SharesKeep
<1>5. CASE \E r \in Requests, p \in Boards :
             Owners!Seed(r, p) \/ \E named \in SUBSET Fields : Owners!Describe(r, p, named)
  <2>1. PICK r \in Requests, p \in Boards :
          Owners!Seed(r, p) \/ \E named \in SUBSET Fields : Owners!Describe(r, p, named)
    BY <1>5
  <2>2. CASE Owners!Seed(r, p)
    BY <2>2, DescribesKeep DEF Owners!Seed
  <2>3. CASE \E named \in SUBSET Fields : Owners!Describe(r, p, named)
    BY <2>3, DescribesKeep DEF Owners!Describe
  <2> QED
    BY <2>1, <2>2, <2>3
<1>6. CASE \E r \in Requests :
             \/ Owners!EnsureSelect(r) \/ Owners!EnsureInsert(r)
             \/ Owners!UpsertProfile(r) \/ Owners!SeedProfile(r)
  BY <1>6, StepKeepsOwners DEF Owners!EnsureSelect, Owners!EnsureInsert, Owners!UpsertProfile,
     Owners!SeedProfile, Owners!Writes
<1>7. CASE \E r \in Requests : Owners!LinkJobProfile(r) \/ Owners!UnlinkJobProfile(r)
  BY <1>7, LinkWritesKeep
<1>8. CASE Owners!Restart
  BY <1>8, RestartKeepsOwners
<1>9. CASE UNCHANGED Owners!vars
  BY <1>9 DEF OwnersInv, OwnersAreTyped, Owned, TakesBackShares, Owners!Leads, Owners!vars
<1> QED
  BY <1>1, <1>2, <1>3, <1>4, <1>5, <1>6, <1>7, <1>8, <1>9 DEF Owners!Next

(* What the links point at.                                                *)

\* Every link has its lead and its profile, and so has every write to come: the
\* row of a profile is never deleted.
Backed ==
  /\ text \in [Boards -> Owners!Texts \cup {NoRow}]
  /\ \A i \in Owners!Leads : text[lead[i]] # NoRow
  /\ \A i \in Owners!Ids, p \in Boards :
       link[i][p] # "none" => i \in Owners!Leads /\ text[p] # NoRow
  /\ \A r \in Requests :
       asking[r] # Idle /\ asking[r].at = "write" => text[asking[r].slug] # NoRow

\* No leads, no links.
LEMMA InitBacked == Owners!Init => Backed
BY DEF Owners!Init, Backed, Owners!Leads

\* What a step must not do to the profiles, leads, links and requests.
LEMMA StaysBacked ==
  ASSUME OwnersAreTyped, OwnersAreTyped', Backed,
         text' \in [Boards -> Owners!Texts \cup {NoRow}],
         \A p \in Boards : text[p] # NoRow => text'[p] # NoRow,
         \A i \in Owners!Ids : lead'[i] # NoRow => lead'[i] = lead[i] \/ text'[lead'[i]] # NoRow,
         \A i \in Owners!Ids, p \in Boards : link'[i][p] # "none" =>
           lead'[i] # NoRow /\ (link[i][p] # "none" \/ text'[p] # NoRow),
         \A r \in Requests : asking'[r] # Idle /\ asking'[r].at = "write" =>
           \/ asking[r] # Idle /\ asking[r].at = "write" /\ asking'[r].slug = asking[r].slug
           \/ text'[asking'[r].slug] # NoRow
  PROVE  Backed'
<1>1. ASSUME NEW i \in Owners!Leads' PROVE text'[lead'[i]] # NoRow
  <2>1. i \in Owners!Ids /\ lead'[i] # NoRow
    BY DEF Owners!Leads
  <2>2. CASE lead'[i] = lead[i]
    <3>1. i \in Owners!Leads /\ lead[i] \in Boards
      BY <2>1, <2>2 DEF Owners!Leads, OwnersAreTyped
    <3> QED
      BY <2>2, <3>1 DEF Backed
  <2> QED
    BY <2>1, <2>2
<1>2. ASSUME NEW i \in Owners!Ids, NEW p \in Boards, link'[i][p] # "none"
      PROVE  i \in Owners!Leads' /\ text'[p] # NoRow
  BY <1>2 DEF Backed, Owners!Leads
<1>3. ASSUME NEW r \in Requests, asking'[r] # Idle, asking'[r].at = "write"
      PROVE  text'[asking'[r].slug] # NoRow
  <2>1. CASE asking[r] # Idle /\ asking[r].at = "write" /\ asking'[r].slug = asking[r].slug
    <3>1. asking[r].slug \in Boards /\ text[asking[r].slug] # NoRow
      BY <2>1 DEF Backed, OwnersAreTyped, Owners!Request
    <3> QED
      BY <2>1, <3>1
  <2> QED
    BY <1>3, <2>1
<1> QED
  BY <1>1, <1>2, <1>3 DEF Backed

\* The row of a profile is added when there is none.
LEMMA EnsuredIs ==
  ASSUME Backed, NEW slug \in Boards
  PROVE  /\ Owners!Ensured(slug) \in [Boards -> Owners!Texts \cup {NoRow}]
         /\ Owners!Ensured(slug)[slug] # NoRow
         /\ \A p \in Boards : text[p] # NoRow => Owners!Ensured(slug)[p] # NoRow
<1>1. Owners!Bare \in Owners!Texts /\ Owners!Bare # NoRow
  BY BoardAssumption DEF Owners!ProfileLinksAssumption, Owners!Bare, Owners!Texts
<1>2. text \in [Boards -> Owners!Texts \cup {NoRow}]
  BY DEF Backed
<1> QED
  BY <1>1, <1>2 DEF Owners!Ensured

\* Pushes name a profile that is ensured, or the one the lead has.
LEMMA PushesStayBacked ==
  ASSUME OwnersInv, OwnersInv', Backed,
         (\E p \in Boards : Owners!PushNew(p)) \/ (\E i \in Owners!Ids : Owners!PushAgain(i))
  PROVE  Backed'
<1> USE DEF OwnersInv
<1>1. ASSUME NEW slug \in Boards, Owners!PushNew(slug) PROVE Backed'
  <2> DEFINE new == Owners!NextId
  <2>1. /\ lead' = [lead EXCEPT ![new] = slug] /\ text' = Owners!Ensured(slug)
        /\ link' = [link EXCEPT ![new] = Owners!OwnerLink(@, slug)] /\ asking' = asking
    BY <1>1 DEF Owners!PushNew
  <2> HIDE DEF new
  <2>2. ASSUME NEW i \in Owners!Ids
        PROVE  lead'[i] = IF i = new THEN slug ELSE lead[i]
    BY <2>1 DEF OwnersAreTyped
  <2>3. ASSUME NEW i \in Owners!Ids, NEW p \in Boards
        PROVE  link'[i][p] = IF i = new THEN Owners!OwnerLink(link[i], slug)[p] ELSE link[i][p]
    BY <2>1 DEF OwnersAreTyped
  <2>4. ASSUME NEW i \in Owners!Ids, NEW p \in Boards, link'[i][p] # "none"
        PROVE  lead'[i] # NoRow /\ (link[i][p] # "none" \/ text'[p] # NoRow)
    <3>1. slug # NoRow
      BY BoardAssumption DEF Owners!ProfileLinksAssumption
    <3>2. CASE i = new
      <4>1. p = slug \/ link[i][p] # "none"
        BY <2>3, <2>4, <3>2 DEF Owners!OwnerLink, OwnersAreTyped
      <4> QED
        BY <2>1, <2>2, <3>1, <3>2, <4>1, EnsuredIs
    <3>3. CASE i # new
      BY <2>2, <2>3, <2>4, <3>3 DEF Backed, Owners!Leads
    <3> QED
      BY <3>2, <3>3
  <2>5. /\ text' \in [Boards -> Owners!Texts \cup {NoRow}]
        /\ text'[slug] # NoRow
        /\ \A p \in Boards : text[p] # NoRow => text'[p] # NoRow
    BY <2>1, EnsuredIs
  <2> QED
    BY <2>1, <2>2, <2>4, <2>5, StaysBacked
<1>2. ASSUME NEW k \in Owners!Ids, Owners!PushAgain(k) PROVE Backed'
  <2>1. /\ k \in Owners!Leads /\ UNCHANGED <<lead, text, asking>>
        /\ link' = [link EXCEPT ![k] = Owners!OwnerLink(@, lead[k])]
    BY <1>2 DEF Owners!PushAgain
  <2>2. ASSUME NEW i \in Owners!Ids, NEW p \in Boards, link'[i][p] # "none"
        PROVE  lead'[i] # NoRow /\ (link[i][p] # "none" \/ text'[p] # NoRow)
    <3>1. CASE i = k
      <4>1. p = lead[k] \/ link[i][p] # "none"
        BY <2>1, <2>2, <3>1 DEF Owners!OwnerLink, OwnersAreTyped
      <4> QED
        BY <2>1, <3>1, <4>1 DEF Backed, Owners!Leads
    <3>2. CASE i # k
      BY <2>1, <2>2, <3>2 DEF Backed, Owners!Leads, OwnersAreTyped
    <3> QED
      BY <3>1, <3>2
  <2>3. text' \in [Boards -> Owners!Texts \cup {NoRow}]
    BY <2>1 DEF Backed
  <2> QED
    BY <2>1, <2>2, <2>3, StaysBacked
<1> QED
  BY <1>1, <1>2

\* A link goes with its lead.
LEMMA RemoveStaysBacked ==
  ASSUME OwnersInv, OwnersInv', Backed, NEW gone, Owners!Remove(gone)
  PROVE  Backed'
<1> USE DEF OwnersInv
<1>1. /\ lead' = [i \in Owners!Ids |-> IF i \in gone THEN NoRow ELSE lead[i]]
      /\ link' = [i \in Owners!Ids |-> IF i \in gone THEN [p \in Boards |-> "none"] ELSE link[i]]
      /\ UNCHANGED <<text, asking>>
  BY DEF Owners!Remove
<1>2. ASSUME NEW i \in Owners!Ids, NEW p \in Boards, link'[i][p] # "none"
      PROVE  lead'[i] # NoRow /\ link[i][p] # "none"
  BY <1>1, <1>2 DEF Backed, Owners!Leads
<1>3. \A i \in Owners!Ids : lead'[i] # NoRow => lead'[i] = lead[i]
  BY <1>1
<1>4. text' \in [Boards -> Owners!Texts \cup {NoRow}]
  BY <1>1 DEF Backed
<1> QED
  BY <1>1, <1>2, <1>3, <1>4, StaysBacked

\* Only a request to take back a link that is there starts at its write.
LEMMA BeginStaysBacked ==
  ASSUME OwnersInv, OwnersInv', Backed, NEW r \in Requests, NEW q, Owners!Begin(r, q),
         q.at = "write" => text[q.slug] # NoRow
  PROVE  Backed'
<1> USE DEF OwnersInv
<1>1. asking' = [asking EXCEPT ![r] = q] /\ UNCHANGED <<lead, link, text>>
  BY DEF Owners!Begin
<1>2. asking'[r] = q /\ \A s \in Requests : s # r => asking'[s] = asking[s]
  BY <1>1 DEF OwnersAreTyped
<1>3. text' \in [Boards -> Owners!Texts \cup {NoRow}]
  BY <1>1 DEF Backed
<1>4. \A i \in Owners!Ids, p \in Boards :
        link'[i][p] # "none" => lead'[i] # NoRow /\ link[i][p] # "none"
  BY <1>1 DEF Backed, Owners!Leads
<1> QED
  BY <1>1, <1>2, <1>3, <1>4, StaysBacked

\* A request ends, or goes on once its profile is there.
LEMMA AskersStayBacked ==
  ASSUME OwnersInv, OwnersInv', Backed, NEW r \in Requests, asking[r] # Idle,
         UNCHANGED lead, text' \in [Boards -> Owners!Texts \cup {NoRow}],
         \A p \in Boards : text[p] # NoRow => text'[p] # NoRow,
         \A i \in Owners!Ids, p \in Boards : link'[i][p] # "none" =>
           lead[i] # NoRow /\ (link[i][p] # "none" \/ text'[p] # NoRow),
         \/ Owners!Ends(r)
         \/ Owners!Goes(r, "insert")
         \/ Owners!Goes(r, "write") /\ text'[asking[r].slug] # NoRow
  PROVE  Backed'
<1> USE DEF OwnersInv
<1>1. asking[r] \in Owners!Request /\ asking \in [Requests -> Owners!Request \cup {Idle}]
  BY DEF OwnersAreTyped
<1>2. ASSUME NEW s \in Requests, asking'[s] # Idle, asking'[s].at = "write"
      PROVE  \/ asking[s] # Idle /\ asking[s].at = "write" /\ asking'[s].slug = asking[s].slug
             \/ text'[asking'[s].slug] # NoRow
  <2>1. CASE Owners!Ends(r)
    BY <1>1, <1>2, <2>1 DEF Owners!Ends
  <2>2. ASSUME NEW at \in {"insert", "write"}, Owners!Goes(r, at),
               at = "write" => text'[asking[r].slug] # NoRow
        PROVE  \/ asking[s] # Idle /\ asking[s].at = "write" /\ asking'[s].slug = asking[s].slug
               \/ text'[asking'[s].slug] # NoRow
    <3> DEFINE q == [asking[r] EXCEPT !.at = at]
    <3>1. q.at = at /\ q.slug = asking[r].slug
      BY <1>1 DEF Owners!Request
    <3>2. asking' = [asking EXCEPT ![r] = q]
      BY <2>2 DEF Owners!Goes
    <3> HIDE DEF q
    <3>3. asking'[s] = IF s = r THEN q ELSE asking[s]
      BY <1>1, <3>2
    <3> QED
      BY <1>2, <2>2, <3>1, <3>3
  <2> QED
    BY <2>1, <2>2
<1>3. \A i \in Owners!Ids : lead'[i] = lead[i]
  OBVIOUS
<1> QED
  BY <1>2, <1>3, StaysBacked

\* The statements of the requests.
LEMMA StatementsStayBacked ==
  ASSUME OwnersInv, OwnersInv', Backed, NEW r \in Requests,
         \/ Owners!EnsureSelect(r) \/ Owners!EnsureInsert(r)
         \/ Owners!LinkJobProfile(r) \/ Owners!UnlinkJobProfile(r)
         \/ Owners!UpsertProfile(r) \/ Owners!SeedProfile(r)
  PROVE  Backed'
<1> DEFINE q == asking[r]
<1> USE DEF OwnersInv
<1>1. /\ UNCHANGED lead /\ q # Idle /\ q \in Owners!Request /\ q.slug \in Boards
  BY DEF Owners!EnsureSelect, Owners!EnsureInsert, Owners!LinkJobProfile, Owners!UnlinkJobProfile,
         Owners!UpsertProfile, Owners!SeedProfile, Owners!Writes, OwnersAreTyped, Owners!Request
<1>2. /\ text \in [Boards -> Owners!Texts \cup {NoRow}]
      /\ \A i \in Owners!Ids, p \in Boards : link[i][p] # "none" => lead[i] # NoRow
  BY DEF Backed, Owners!Leads
<1>3. CASE Owners!EnsureSelect(r)
  <2>1. /\ UNCHANGED <<link, text>>
        /\ \/ Owners!Goes(r, "insert")
           \/ Owners!Goes(r, "write") /\ text[q.slug] # NoRow
    BY <1>3 DEF Owners!EnsureSelect
  <2> QED
    BY <1>1, <1>2, <2>1, AskersStayBacked
<1>4. CASE Owners!EnsureInsert(r)
  <2>1. UNCHANGED link
    BY <1>4 DEF Owners!EnsureInsert
  <2>2. CASE text' = Owners!Ensured(q.slug) /\ Owners!Goes(r, "write")
    BY <1>1, <1>2, <2>1, <2>2, EnsuredIs, AskersStayBacked
  <2>3. CASE UNCHANGED text /\ Owners!Ends(r)
    BY <1>1, <1>2, <2>1, <2>3, AskersStayBacked
  <2> QED
    BY <1>4, <2>2, <2>3 DEF Owners!EnsureInsert
<1>5. CASE Owners!LinkJobProfile(r) \/ Owners!UnlinkJobProfile(r)
  <2>1. /\ UNCHANGED text /\ Owners!Ends(r) /\ text[q.slug] # NoRow
    BY <1>1, <1>5 DEF Owners!LinkJobProfile, Owners!UnlinkJobProfile, Owners!Writes, Backed
  <2>2. \/ link' = link
        \/ q.id \in Owners!Leads /\ link' = [link EXCEPT ![q.id][q.slug] = "share"]
        \/ link' = [link EXCEPT ![q.id][q.slug] = "none"]
    BY <1>5 DEF Owners!LinkJobProfile, Owners!UnlinkJobProfile, Owners!References
  <2>3. ASSUME NEW i \in Owners!Ids, NEW p \in Boards, link'[i][p] # "none"
        PROVE  lead[i] # NoRow /\ (link[i][p] # "none" \/ text'[p] # NoRow)
    <3>1. CASE link'[i][p] = link[i][p]
      BY <1>2, <2>3, <3>1
    <3>2. CASE link'[i][p] # link[i][p]
      <4>1. i = q.id /\ p = q.slug /\ q.id \in Owners!Leads
        BY <2>2, <2>3, <3>2 DEF OwnersAreTyped
      <4> QED
        BY <2>1, <4>1 DEF Owners!Leads
    <3> QED
      BY <3>1, <3>2
  <2> HIDE DEF q
  <2> QED
    BY <1>1, <1>2, <2>1, <2>3, AskersStayBacked DEF q
<1>6. CASE Owners!UpsertProfile(r) \/ Owners!SeedProfile(r)
  <2>1. UNCHANGED link /\ Owners!Ends(r) /\ text[q.slug] # NoRow /\ text[q.slug] \in Owners!Texts
    BY <1>1, <1>2, <1>6 DEF Owners!UpsertProfile, Owners!SeedProfile, Owners!Writes, Backed
  <2>2. PICK row \in Owners!Texts : text' = [text EXCEPT ![q.slug] = row]
    <3>1. CASE Owners!UpsertProfile(r)
      <4>1. text' = [text EXCEPT ![q.slug] = Owners!Described(text[q.slug], q.named)]
        BY <1>2, <3>1 DEF Owners!UpsertProfile
      <4>2. Owners!Described(text[q.slug], q.named) \in Owners!Texts
        BY <2>1 DEF Owners!Described, Owners!Texts
      <4> QED
        BY <4>1, <4>2
    <3>2. CASE Owners!SeedProfile(r)
      <4>1. text' = [text EXCEPT ![q.slug] = Owners!Seeded(text[q.slug])]
        BY <1>2, <3>2 DEF Owners!SeedProfile
      <4>2. Owners!Seeded(text[q.slug]) \in Owners!Texts
        BY <2>1 DEF Owners!Seeded, Owners!Texts
      <4> QED
        BY <4>1, <4>2
    <3> QED
      BY <1>6, <3>1, <3>2
  <2>3. row # NoRow
    BY BoardAssumption DEF Owners!ProfileLinksAssumption
  <2> HIDE DEF q
  <2>4. /\ text' \in [Boards -> Owners!Texts \cup {NoRow}]
        /\ \A p \in Boards : text[p] # NoRow => text'[p] # NoRow
    BY <1>1, <1>2, <2>2, <2>3
  <2> QED
    BY <1>1, <1>2, <2>1, <2>4, AskersStayBacked DEF q
<1> QED
  BY <1>3, <1>4, <1>5, <1>6

\* No step leaves a link without its lead or its profile.
LEMMA BackedNextKeeps ==
  ASSUME OwnersInv, Backed, [Owners!Next]_(Owners!vars)
  PROVE  Backed'
<1>1. OwnersInv'
  BY OwnersNextKeep, BoardAssumption
<1>2. CASE (\E p \in Boards : Owners!PushNew(p)) \/ (\E i \in Owners!Ids : Owners!PushAgain(i))
  BY <1>1, <1>2, PushesStayBacked
<1>3. CASE (\E i \in Owners!Ids : Owners!DeleteJob(i)) \/ Owners!PurgeJobs
  BY <1>1, <1>3, RemoveStaysBacked DEF Owners!DeleteJob, Owners!PurgeJobs
<1>4. ASSUME NEW r \in Requests, NEW i \in Owners!Ids, NEW p \in Boards,
             Owners!Share(r, i, p) \/ Owners!Unshare(r, i, p)
      PROVE  Backed'
  <2>1. CASE Owners!Share(r, i, p)
    <3> DEFINE q == [op |-> "share", id |-> i, slug |-> p, named |-> {}, at |-> "ensure"]
    <3>1. Owners!Begin(r, q) /\ q.at = "ensure"
      BY <2>1 DEF Owners!Share
    <3> HIDE DEF q
    <3> QED
      BY <1>1, <3>1, BeginStaysBacked
  <2>2. CASE Owners!Unshare(r, i, p)
    <3> DEFINE q == [op |-> "unshare", id |-> i, slug |-> p, named |-> {}, at |-> "write"]
    <3>1. Owners!Begin(r, q) /\ q.slug = p /\ text[p] # NoRow
      BY <2>2 DEF Owners!Unshare, Owners!RefusesOwner, Backed
    <3> HIDE DEF q
    <3> QED
      BY <1>1, <3>1, BeginStaysBacked
  <2> QED
    BY <1>4, <2>1, <2>2
<1>5. ASSUME NEW r \in Requests, NEW p \in Boards,
             Owners!Seed(r, p) \/ \E named \in SUBSET Fields : Owners!Describe(r, p, named)
      PROVE  Backed'
  <2>1. CASE Owners!Seed(r, p)
    <3> DEFINE q == [op |-> "seed", id |-> 0, slug |-> p, named |-> Fields, at |-> "ensure"]
    <3>1. Owners!Begin(r, q) /\ q.at = "ensure"
      BY <2>1 DEF Owners!Seed
    <3> HIDE DEF q
    <3> QED
      BY <1>1, <3>1, BeginStaysBacked
  <2>2. ASSUME NEW named \in SUBSET Fields, Owners!Describe(r, p, named) PROVE Backed'
    <3> DEFINE q == [op |-> "describe", id |-> 0, slug |-> p, named |-> named, at |-> "ensure"]
    <3>1. Owners!Begin(r, q) /\ q.at = "ensure"
      BY <2>2 DEF Owners!Describe
    <3> HIDE DEF q
    <3> QED
      BY <1>1, <3>1, BeginStaysBacked
  <2> QED
    BY <1>5, <2>1, <2>2
<1>6. CASE \E r \in Requests :
             \/ Owners!EnsureSelect(r) \/ Owners!EnsureInsert(r)
             \/ Owners!LinkJobProfile(r) \/ Owners!UnlinkJobProfile(r)
             \/ Owners!UpsertProfile(r) \/ Owners!SeedProfile(r)
  BY <1>1, <1>6, StatementsStayBacked
<1>7. CASE Owners!Restart
  <2>1. /\ UNCHANGED <<lead, text>> /\ \A r \in Requests : asking'[r] = Idle
        /\ \A i \in Owners!Ids, p \in Boards :
             link'[i][p] # "none" => link[i][p] # "none" \/ lead[i] = p
    BY <1>7 DEF Owners!Restart, Owners!Backfill
  <2>2. \A i \in Owners!Ids, p \in Boards :
          lead[i] = p => i \in Owners!Leads /\ text[p] # NoRow
    BY BoardAssumption DEF Owners!ProfileLinksAssumption, Backed, Owners!Leads
  <2> QED
    BY <2>1, <2>2 DEF Backed, Owners!Leads
<1>8. CASE UNCHANGED Owners!vars
  BY <1>8 DEF Backed, Owners!Leads, Owners!vars
<1> QED
  BY <1>2, <1>3, <1>4, <1>5, <1>6, <1>7, <1>8 DEF Owners!Next

\* The owner link of a lead is one.
LEMMA OwnedIsOneOwner == ASSUME OwnersInv PROVE Owners!OneOwner
<1>1. ASSUME NEW i \in Owners!Leads \ Deletable
      PROVE  {p \in Boards : link[i][p] = "owner"} = {lead[i]}
  <2>1. lead[i] \in Boards
    BY DEF OwnersInv, OwnersAreTyped, Owners!Leads
  <2>2. \A p \in Boards : link[i][p] = "owner" <=> p = lead[i]
    BY DEF OwnersInv, Owned
  <2> QED
    BY <2>1, <2>2
<1> QED
  BY <1>1 DEF Owners!OneOwner

\* The types of the profiles and their links.
LEMMA OwnersTypes == ASSUME OwnersInv, Backed PROVE Owners!TypeOK
  BY DEF OwnersInv, OwnersAreTyped, Backed, Owners!TypeOK, Owners!Leads

\* The table of profiles; what stands in a row is decided step by step.
TextIsTable == text = [p \in Boards |-> text[p]]

\* Who writes the text of a profile.
LEMMA TextWrites ==
  ASSUME OwnersInv, TextIsTable, [Owners!Next]_(Owners!vars)
  PROVE  \/ text' = text
         \/ \E slug \in Boards : \E row :
              /\ text' = [text EXCEPT ![slug] = row]
              /\ \A f \in Fields : (text[slug] # NoRow /\ text[slug][f] = "human") => row[f] = "human"
<1> DEFINE Keeps(slug, row) ==
             /\ text' = [text EXCEPT ![slug] = row]
             /\ \A f \in Fields : (text[slug] # NoRow /\ text[slug][f] = "human") => row[f] = "human"
<1>1. ASSUME NEW slug \in Boards, text' = Owners!Ensured(slug)
      PROVE  text' = text \/ Keeps(slug, Owners!Bare)
  BY <1>1 DEF Owners!Ensured
<1>2. \A r \in Requests : asking[r] # Idle => asking[r].slug \in Boards
  BY DEF OwnersInv, OwnersAreTyped, Owners!Request
<1>3. CASE \E p \in Boards : Owners!PushNew(p)
  BY <1>1, <1>3 DEF Owners!PushNew
<1>4. CASE \E r \in Requests : Owners!EnsureInsert(r)
  BY <1>1, <1>2, <1>4 DEF Owners!EnsureInsert
<1>5. CASE \E r \in Requests : Owners!UpsertProfile(r)
  <2>1. PICK r \in Requests : Owners!UpsertProfile(r)
    BY <1>5
  <2> DEFINE slug == asking[r].slug
             row == Owners!Described(text[slug], asking[r].named)
  <2>2. slug \in Boards /\ text' = [text EXCEPT ![slug] = row]
    BY <1>2, <2>1 DEF Owners!UpsertProfile, Owners!Writes, TextIsTable
  <2>3. \A f \in Fields : text[slug][f] = "human" => row[f] = "human"
    BY DEF Owners!Described
  <2> HIDE DEF slug, row
  <2> QED
    BY <2>2, <2>3
<1>6. CASE \E r \in Requests : Owners!SeedProfile(r)
  <2>1. PICK r \in Requests : Owners!SeedProfile(r)
    BY <1>6
  <2> DEFINE slug == asking[r].slug
             row == Owners!Seeded(text[slug])
  <2>2. slug \in Boards /\ text' = [text EXCEPT ![slug] = row]
    BY <1>2, <2>1 DEF Owners!SeedProfile, Owners!Writes, TextIsTable
  <2>3. \A f \in Fields : text[slug][f] = "human" => row[f] = "human"
    BY DEF Owners!Seeded
  <2> HIDE DEF slug, row
  <2> QED
    BY <2>2, <2>3
<1>7. CASE \/ \E i \in Owners!Ids : Owners!PushAgain(i) \/ Owners!DeleteJob(i)
           \/ Owners!PurgeJobs \/ Owners!Restart
  BY <1>7 DEF Owners!PushAgain, Owners!DeleteJob, Owners!PurgeJobs, Owners!Remove, Owners!Restart
<1>8. CASE \E r \in Requests, i \in Owners!Ids, p \in Boards :
             Owners!Share(r, i, p) \/ Owners!Unshare(r, i, p)
  BY <1>8 DEF Owners!Share, Owners!Unshare, Owners!Begin
<1>9. CASE \E r \in Requests, p \in Boards :
             Owners!Seed(r, p) \/ \E named \in SUBSET Fields : Owners!Describe(r, p, named)
  BY <1>9 DEF Owners!Seed, Owners!Describe, Owners!Begin
<1>10. CASE \E r \in Requests :
              Owners!EnsureSelect(r) \/ Owners!LinkJobProfile(r) \/ Owners!UnlinkJobProfile(r)
  BY <1>10 DEF Owners!EnsureSelect, Owners!LinkJobProfile, Owners!UnlinkJobProfile
<1>11. CASE UNCHANGED Owners!vars
  BY <1>11 DEF Owners!vars
<1> QED
  BY <1>3, <1>4, <1>5, <1>6, <1>7, <1>8, <1>9, <1>10, <1>11 DEF Owners!Next

\* No write takes a word of a person away.
LEMMA HumanWordsLast ==
  ASSUME OwnersInv, TextIsTable, [Owners!Next]_(Owners!vars)
  PROVE  TextIsTable' /\ Owners!HumanWordsStay
<1>1. CASE text' = text
  BY <1>1 DEF TextIsTable, Owners!HumanWordsStay
<1>2. ASSUME NEW slug \in Boards, NEW row,
             text' = [text EXCEPT ![slug] = row],
             \A f \in Fields : (text[slug] # NoRow /\ text[slug][f] = "human") => row[f] = "human"
      PROVE  TextIsTable' /\ Owners!HumanWordsStay
  BY <1>2 DEF TextIsTable, Owners!HumanWordsStay
<1> QED
  BY <1>1, <1>2, TextWrites

-----------------------------------------------------------------------------
(* The ladder, whose proofs are in a module of their own.                  *)

Rungs == INSTANCE LadderProofs WITH
  Leads <- Climbers, Texts <- Remarks, now <- clock, requests <- moving

\* The ladder of the board is the ladder of those proofs.
LEMMA SameLadder ==
  /\ Steps!LadderAssumption <=> Rungs!LadderAssumption
  /\ Steps!Init <=> Rungs!Init
  /\ Steps!vars = Rungs!vars
  /\ Steps!OnBoard = Rungs!OnBoard
BY DEF Steps!LadderAssumption, Rungs!LadderAssumption, Steps!Init, Rungs!Init, Steps!vars,
       Rungs!vars, Steps!OnBoard, Rungs!OnBoard, Steps!Input, Rungs!Input, Steps!Push,
       Rungs!Push, Steps!Flag, Rungs!Flag, Steps!AppStatuses, Rungs!AppStatuses, Steps!Row,
       Rungs!Row, Steps!Stamp, Rungs!Stamp, Steps!Pending, Rungs!Pending, Steps!Seen,
       Rungs!Seen

LEMMA SameSteps == Steps!Next <=> Rungs!Next
BY DEF Steps!Next, Rungs!Next, Steps!Start, Rungs!Start, Steps!Refused, Rungs!Refused,
       Steps!Pushable, Rungs!Pushable, Steps!Read, Rungs!Read, Steps!handleJobAppStatus,
       Rungs!handleJobAppStatus, Steps!Writes, Rungs!Writes, Steps!AfterStatus,
       Rungs!AfterStatus, Steps!Sticky, Rungs!Sticky, Steps!Told, Rungs!Told,
       Steps!Toggles, Rungs!Toggles, Steps!UpsertJobs, Rungs!UpsertJobs, Steps!AfterPush,
       Rungs!AfterPush, Steps!NewLead, Rungs!NewLead, Steps!Mode, Rungs!Mode, Steps!Filled,
       Rungs!Filled, Steps!Tick, Rungs!Tick, Steps!Restart, Rungs!Restart,
       Steps!handleJobApplied, Rungs!handleJobApplied, Steps!handleJobAppliedToggle,
       Rungs!handleJobAppliedToggle, Steps!handleJobRejected, Rungs!handleJobRejected,
       Steps!handleJobRejectToggle, Rungs!handleJobRejectToggle, Steps!handleJobApproved,
       Rungs!handleJobApproved, Steps!handleJobApproveToggle, Rungs!handleJobApproveToggle,
       Steps!handleJobNotes, Rungs!handleJobNotes, Steps!handleJobPrep,
       Rungs!handleJobPrep, Steps!handleJobShow, Rungs!handleJobShow,
       Steps!handleJobChecked, Rungs!handleJobChecked, Steps!handleJobEventAdd,
       Rungs!handleJobEventAdd, Steps!AfterApplied, Rungs!AfterApplied,
       Steps!AfterRejected, Rungs!AfterRejected, Steps!AfterApproved, Rungs!AfterApproved,
       Steps!AfterNotes, Rungs!AfterNotes, Steps!AfterPrep, Rungs!AfterPrep,
       Steps!AfterViewed, Rungs!AfterViewed, Steps!AfterChecked, Rungs!AfterChecked,
       Steps!AfterEvent, Rungs!AfterEvent, Steps!NoteOfToggle, Rungs!NoteOfToggle

LEMMA SameReadings ==
  /\ Steps!TypeOK <=> Rungs!TypeOK
  /\ Steps!ReadersAgree <=> Rungs!ReadersAgree
  /\ Steps!RejectionHasReason <=> Rungs!RejectionHasReason
  /\ Steps!TimelineTellsStatus <=> Rungs!TimelineTellsStatus
  /\ \A old, new : Steps!Sticks(old, new) <=> Rungs!Sticks(old, new)
BY DEF Steps!TypeOK, Rungs!TypeOK, Steps!Row, Rungs!Row, Steps!Stamp, Rungs!Stamp,
       Steps!Pending, Rungs!Pending, Steps!Seen, Rungs!Seen, Steps!AppStatuses,
       Rungs!AppStatuses, Steps!ReadersAgree, Rungs!ReadersAgree, Steps!OnBoard,
       Rungs!OnBoard, Steps!Chip, Rungs!Chip, Steps!jobStatus, Rungs!jobStatus, Steps!Tile,
       Rungs!Tile, Steps!ChipOfTile, Rungs!ChipOfTile, Steps!Undecided, Rungs!Undecided,
       Steps!InProcess, Rungs!InProcess, Steps!RejectionHasReason,
       Rungs!RejectionHasReason, Steps!TimelineTellsStatus, Rungs!TimelineTellsStatus,
       Steps!Sticks, Rungs!Sticks

-----------------------------------------------------------------------------
(* The board.                                                              *)

\* A step of the board is a step of one part, or of none.
LEMMA BoardSteps ==
  ASSUME [BoardNext]_boardVars
  PROVE  /\ [Next]_vars /\ [Rungs!Next]_(Rungs!vars)
         /\ [Links!Next]_(Links!vars) /\ [Owners!Next]_(Owners!vars)
<1>1. [Next]_vars /\ [Steps!Next]_ladder /\ [Links!Next]_links /\ [Owners!Next]_owners
  BY DEF BoardNext, IdentityNext, LadderNext, LinksNext, OwnersNext, boardVars
<1>2. ladder = Rungs!vars /\ links = Links!vars /\ owners = Owners!vars
  BY DEF ladder, links, owners, Rungs!vars, Links!vars, Owners!vars
<1>3. ladder' = (Rungs!vars)' /\ links' = (Links!vars)' /\ owners' = (Owners!vars)'
  BY DEF ladder, links, owners, Rungs!vars, Links!vars, Owners!vars
<1> QED
  BY <1>1, <1>2, <1>3, SameSteps

\* What holds of the parts together.
RowsInv ==
  /\ BoardInv /\ CountInv
  /\ Rungs!LadderInv
  /\ Links!TypeOK
  /\ OwnersInv /\ Backed /\ TextIsTable

LEMMA RowsStart == BoardInit => RowsInv
<1>1. ASSUME BoardInit PROVE Rungs!LadderInv
  BY <1>1, BoardAssumption, SameLadder, Rungs!LadderStarts DEF BoardInit
<1>2. ASSUME BoardInit PROVE Links!TypeOK
  BY <1>2, BoardAssumption, InitLinks DEF BoardInit, LinkInv
<1>3. ASSUME BoardInit PROVE TextIsTable
  BY <1>3 DEF BoardInit, Owners!Init, TextIsTable
<1> QED
  BY <1>1, <1>2, <1>3, InitBoard, CountInit, InitOwners, InitBacked DEF BoardInit, RowsInv

LEMMA RowsKeep == ASSUME RowsInv, [BoardNext]_boardVars PROVE RowsInv'
<1>1. BoardInv' /\ CountInv'
  BY BoardSteps, BoardNextKeeps, CountNextKeeps DEF RowsInv
<1>2. Rungs!LadderInv'
  BY BoardSteps, BoardAssumption, SameLadder, Rungs!LadderStep DEF RowsInv
<1>3. Links!TypeOK'
  BY BoardSteps, BoardAssumption, LinksStayTyped DEF RowsInv
<1>4. OwnersInv' /\ Backed' /\ TextIsTable'
  BY BoardSteps, BoardAssumption, OwnersNextKeep, BackedNextKeeps, HumanWordsLast DEF RowsInv
<1> QED
  BY <1>1, <1>2, <1>3, <1>4 DEF RowsInv

\* One row per board and key in the table and in the copy a batch works on, what
\* the batch has counted, and the invariants of the ladder, links and owners.
THEOREM RowsInvariance == BoardSpec => []RowsInv
  BY RowsStart, RowsKeep, PTL DEF BoardSpec

\* The types of every part.
THEOREM BoardIsTyped == BoardSpec => []TypesOK
<1>1. RowsInv => TypesOK
  <2>1. ASSUME RowsInv PROVE Steps!TypeOK
    BY <2>1, SameReadings DEF RowsInv, Rungs!LadderInv
  <2> QED
    BY <2>1, IdentityTypes, OwnersTypes DEF RowsInv, TypesOK
<1> QED
  BY <1>1, RowsInvariance, PTL

\* A board has one row per key, at every push of every batch.
THEOREM KeysStayUnique == BoardSpec => []KeysAreUnique
<1>1. RowsInv => KeysAreUnique
  BY DEF RowsInv, BoardInv, BatchIsSound, Unique, KeysAreUnique
<1> QED
  BY <1>1, RowsInvariance, PTL

\* What answered batches reported as added is what is there, or was deleted.
THEOREM BatchesCountRows == BoardSpec => []AddedIsWhatIsThere
<1>1. RowsInv => AddedIsWhatIsThere
  BY DEF RowsInv, CountInv, AddedIsWhatIsThere
<1> QED
  BY <1>1, RowsInvariance, PTL

\* No sweep hijacks the row of another board, moves a row or forgets a view.
THEOREM NoSweepHijacks == BoardSpec => PushesStayHome
<1> DEFINE Kept == \A i \in Used(jobs) :
             /\ jobs[i].board \notin tx.boards => jobs'[i] = jobs[i]
             /\ \A f \in {"board", "key", "created", "viewed"} : jobs'[i][f] = jobs[i][f]
<1>1. ASSUME RowsInv, Commit, NEW i \in Used(jobs)
      PROVE  /\ jobs[i].board \notin tx.boards => jobs'[i] = jobs[i]
             /\ \A f \in {"board", "key", "created", "viewed"} : jobs'[i][f] = jobs[i][f]
  BY <1>1 DEF Commit, RowsInv, BoardInv, BatchIsSound, Stays
<1>2. RowsInv => [Commit => Kept]_vars
  BY <1>1
<1> QED
  BY <1>2, RowsInvariance, PTL DEF PushesStayHome

\* The status that is shown, the chips that filter and the tiles that count agree
\* on every row that requests can leave behind.
THEOREM LadderReadersAgree == BoardSpec => []ReadersAgree
<1>1. RowsInv => ReadersAgree
  BY BoardAssumption, SameLadder, SameReadings, Rungs!LadderImplies DEF RowsInv, ReadersAgree
<1> QED
  BY <1>1, RowsInvariance, PTL

\* The board never shows a rejection whose cause nobody recorded.
THEOREM RejectionsKeepReasons == BoardSpec => []RejectionHasReason
<1>1. RowsInv => RejectionHasReason
  BY BoardAssumption, SameLadder, SameReadings, Rungs!LadderImplies
     DEF RowsInv, RejectionHasReason
<1> QED
  BY <1>1, RowsInvariance, PTL

\* A date that was set stays until it is cleared, whatever requests cross.
THEOREM DatesAreKept == BoardSpec => StampsAreSticky
<1>1. ASSUME RowsInv, [BoardNext]_boardVars
      PROVE  \A l \in Steps!OnBoard : Steps!Sticks(rows[l], rows'[l])
  BY <1>1, BoardSteps, BoardAssumption, SameLadder, SameReadings, Rungs!LadderStep DEF RowsInv
<1>2. RowsInv /\ [BoardNext]_boardVars
        => [\A l \in Steps!OnBoard : Steps!Sticks(rows[l], rows'[l])]_(Steps!vars)
  BY <1>1
<1> QED
  BY <1>2, RowsInvariance, PTL DEF BoardSpec, StampsAreSticky, Steps!StampsAreSticky

\* The newest status event tells the status as long as requests do not cross.
THEOREM NewestEventTells == BoardSpec /\ []OneMoves => []TimelineTellsStatus
<1>1. BoardInit => Rungs!TellsInv
  BY SameLadder, Rungs!TellsStarts DEF BoardInit
<1>2. RowsInv /\ Rungs!TellsInv /\ OneMoves /\ [BoardNext]_boardVars
        => Rungs!TellsInv'
  BY BoardSteps, BoardAssumption, SameLadder, Rungs!TellsStep
     DEF RowsInv, OneMoves, Rungs!OneAtATime
<1>3. Rungs!TellsInv => TimelineTellsStatus
  BY SameReadings DEF Rungs!TellsInv, TimelineTellsStatus
<1> QED
  BY <1>1, <1>2, <1>3, RowsInvariance, PTL DEF BoardSpec

\* With one link request at a time, and inserts, unlinks, deletes and purges
\* between its reads and its write, no mirror ever points at a mirror.
THEOREM ReadsAreOneHop == ASSUME OneLinkAtATime PROVE BoardSpec => []OneHop
<1>1. BoardInit => LinkInv
  BY InitLinks, BoardAssumption DEF BoardInit
<1>2. LinkInv /\ [BoardNext]_boardVars => LinkInv'
  BY BoardSteps, BoardAssumption, LinksNextKeep
<1>3. LinkInv => OneHop
  BY DEF LinkInv, OneHop
<1> QED
  BY <1>1, <1>2, <1>3, PTL DEF BoardSpec

\* Where ids are not given out again a lead always has one owner link, the one
\* of its profile, whatever is shared, taken back and pushed meanwhile.
THEOREM LeadsHaveOneOwner == BoardSpec => []OneOwner
<1>1. RowsInv => OneOwner
  BY OwnedIsOneOwner DEF RowsInv, OneOwner
<1> QED
  BY <1>1, RowsInvariance, PTL

\* A seed never overwrites what a person wrote, field by field, whoever writes
\* between its statements.
THEOREM HumanWordsAreKept == BoardSpec => HumanTextStays
<1>1. RowsInv /\ [BoardNext]_boardVars => [Owners!HumanWordsStay]_(Owners!vars)
  BY BoardSteps, HumanWordsLast DEF RowsInv
<1> QED
  BY <1>1, RowsInvariance, PTL DEF BoardSpec, HumanTextStays, Owners!HumanTextStays
==============================================================================
