------------------------- MODULE TrackerRetryProofs -------------------------
(* Retries are recognised for ever, and the last check follows from the     *)
(* timeline: theorems about Tracker for every value of its constants.       *)
EXTENDS TrackerProofs

-----------------------------------------------------------------------------
(* What a step leaves as it was.                                           *)

\* A job keeps its identity and the request that made it.
RowsKeepIdentity ==
  \A i \in Jobs : rows[i] # NoRow =>
    /\ rows'[i] # NoRow
    /\ rows'[i].key = rows[i].key
    /\ rows'[i].payload = rows[i].payload

\* A timeline keeps its events and their places.
TimelinesKeepEvents ==
  \A i \in Jobs : \A n \in DOMAIN events[i] :
    n \in DOMAIN events'[i] /\ events'[i][n] = events[i][n]

\* No operation changes the identity of a job or forgets how it was made.
LEMMA IdentityStep == ASSUME IInv, [Next]_vars PROVE RowsKeepIdentity
<1>. USE DEF RowsKeepIdentity
<1>1. ASSUME NEW k \in Keys, NEW b \in Bodies, NEW i \in Jobs, InsertJob(k, b, i)
      PROVE  RowsKeepIdentity
  BY <1>1 DEF InsertJob, IInv, TypeOK
<1>2. ASSUME NEW h \in Handlers, NEW t \in Times, NEW answered \in BOOLEAN,
             CommitPatch(h, t, answered)
      PROVE  RowsKeepIdentity
  <2>. DEFINE i == pending[h].job
  <2>1. /\ i \in Jobs
        /\ rows'[i] \in Row
        /\ rows' = [rows EXCEPT ![i] = rows'[i]]
        /\ rows'[i].key = rows[i].key
        /\ rows'[i].payload = rows[i].payload
    BY <1>2, CommitWrites
  <2>. HIDE DEF i
  <2>2. rows'[i] # NoRow
    BY <2>1, SentinelsAssumption
  <2>. QED BY <2>1, <2>2 DEF IInv, TypeOK
<1>3. ASSUME NEW i \in Jobs, NEW k \in ClientKeys \cup SystemKeys,
             NEW e \in Posts, NEW t \in Times, AppendEvent(i, k, e, t)
      PROVE  RowsKeepIdentity
  <2>1. /\ rows'[i] \in Row
        /\ rows' = [rows EXCEPT ![i] = rows'[i]]
        /\ rows'[i].key = rows[i].key
        /\ rows'[i].payload = rows[i].payload
    BY <1>3, AppendWrites
  <2>2. rows'[i] # NoRow
    BY <2>1, SentinelsAssumption
  <2>. QED BY <2>1, <2>2 DEF IInv, TypeOK
<1>4. CASE UNCHANGED rows
  BY <1>4
<1>. QED
  BY <1>1, <1>2, <1>3, <1>4
  DEF Next, Create, PatchJob, PostEvent, ReplayCreate, GetJob, SendPatch, ReadBase,
      RefusePatch, ReplayEvent, Restart, vars

\* Appending to one timeline moves no event.
LEMMA AppendKeepsEvents ==
  ASSUME TypeOK, NEW i \in Jobs, NEW x \in Event,
         events' = [events EXCEPT ![i] = events'[i]],
         events'[i] = Append(events[i], x) \/ events'[i] = events[i]
  PROVE  TimelinesKeepEvents
<1>1. events[i] \in Seq(Event) /\ \A j \in Jobs \ {i} : events'[j] = events[j]
  BY DEF TypeOK
<1>2. \A n \in DOMAIN events[i] : n \in DOMAIN events'[i] /\ events'[i][n] = events[i][n]
  <2>1. CASE events'[i] = events[i]
    BY <2>1
  <2>2. CASE events'[i] = Append(events[i], x)
    BY <1>1, <2>2, Appended
  <2>. QED BY <2>1, <2>2
<1>. QED BY <1>1, <1>2 DEF TimelinesKeepEvents

\* Events are never edited, removed or reordered.
LEMMA EventsStep == ASSUME IInv, [Next]_vars PROVE TimelinesKeepEvents
<1>1. ASSUME NEW h \in Handlers, NEW t \in Times, NEW answered \in BOOLEAN,
             CommitPatch(h, t, answered)
      PROVE  TimelinesKeepEvents
  <2>. DEFINE i == pending[h].job
              x == StatusEvent(rows'[i].version, Update(h).stage, t)
  <2>1. /\ i \in Jobs
        /\ x \in Event
        /\ events' = [events EXCEPT ![i] = events'[i]]
        /\ events'[i] = Append(events[i], x) \/ events'[i] = events[i]
    BY <1>1, CommitWrites, PatchEvents
  <2>. HIDE DEF i, x
  <2>. QED BY <2>1, AppendKeepsEvents DEF IInv
<1>2. ASSUME NEW i \in Jobs, NEW k \in ClientKeys \cup SystemKeys,
             NEW e \in Posts, NEW t \in Times, AppendEvent(i, k, e, t)
      PROVE  TimelinesKeepEvents
  <2>1. Stored(k, e, t) \in Event
    BY StoredType
  <2>2. events' = [events EXCEPT ![i] = Append(events[i], Stored(k, e, t))]
    BY <1>2 DEF AppendEvent
  <2>3. events'[i] = Append(events[i], Stored(k, e, t))
    BY <2>2 DEF IInv, TypeOK
  <2>4. events' = [events EXCEPT ![i] = events'[i]]
    BY <2>2, <2>3
  <2>. QED BY <2>1, <2>3, <2>4, AppendKeepsEvents DEF IInv
<1>3. CASE UNCHANGED events
  BY <1>3 DEF TimelinesKeepEvents
<1>. QED
  BY <1>1, <1>2, <1>3
  DEF Next, Create, PatchJob, PostEvent, ReplayCreate, InsertJob, GetJob, SendPatch,
      ReadBase, RefusePatch, ReplayEvent, Restart, vars

-----------------------------------------------------------------------------
(* Creates.                                                                *)

\* One row has an identity.
KeysUnique ==
  \A i, j \in Jobs :
    rows[i] # NoRow /\ rows[j] # NoRow /\ rows[i].key = rows[j].key => i = j

\* The job that answered a create has its identity, and, unless it was
\* imported, the create was the one that made it.
CreatedByRequest ==
  \A a \in created :
    /\ rows[a.job] # NoRow
    /\ rows[a.job].key = a.key
    /\ Native(a.job) => rows[a.job].payload = a.content

CreatesInv == KeysUnique /\ CreatedByRequest

\* Creates answer with the row of their identity or make it.
LEMMA CreatesStep == ASSUME IInv, CreatesInv, [Next]_vars PROVE CreatesInv'
<1>1. RowsKeepIdentity
  BY IdentityStep
<1>2. ASSUME NEW a \in created
      PROVE  /\ rows'[a.job] # NoRow
             /\ rows'[a.job].key = a.key
             /\ Native(a.job)' => rows'[a.job].payload = a.content
  <2>1. a.job \in Jobs
    BY DEF IInv, TypeOK
  <2>. QED BY <1>1, <2>1 DEF CreatesInv, CreatedByRequest, RowsKeepIdentity, Native
<1>3. ASSUME NEW k \in Keys, NEW b \in Bodies, ReplayCreate(k, b)
      PROVE  CreatesInv'
  <2>. DEFINE n == Normalized(b)
  <2>1. PICK i \in JobsWithKey(k) : SameCreate(rows[i], n) /\ Answered(i, k, n)
    BY <1>3 DEF ReplayCreate
  <2>2. rows' = rows
    BY <1>3 DEF ReplayCreate
  <2>3. KeysUnique'
    BY <2>2 DEF CreatesInv, KeysUnique
  <2>. DEFINE a == [job |-> i, key |-> k, content |-> n]
  <2>4. created' = created \cup {a}
    BY <2>1 DEF Answered
  <2>5. rows[i] # NoRow /\ rows[i].key = k
    BY <2>1 DEF JobsWithKey
  <2>6. Native(i)' => rows'[i].payload = n
    BY <2>1, <2>2 DEF SameCreate, Native
  <2>. HIDE DEF n
  <2>7. a.job = i /\ a.key = k /\ a.content = n
    OBVIOUS
  <2>. HIDE DEF a
  <2>. QED BY <1>2, <2>2, <2>3, <2>4, <2>5, <2>6, <2>7 DEF CreatesInv, CreatedByRequest
<1>4. ASSUME NEW k \in Keys, NEW b \in Bodies, NEW i \in Jobs, InsertJob(k, b, i)
      PROVE  CreatesInv'
  <2>. DEFINE n == Normalized(b)
              a == [job |-> i, key |-> k, content |-> n]
  <2>1. /\ JobsWithKey(k) = {}
        /\ rows' = [rows EXCEPT ![i] = NewRow(k, n)]
        /\ created' = created \cup {a}
    BY <1>4 DEF InsertJob, Answered
  <2>2. NewRow(k, n) \in Row /\ NewRow(k, n).key = k /\ NewRow(k, n).payload = n
    BY NormalizedType DEF NewRow, Row
  <2>3. /\ rows'[i] # NoRow /\ rows'[i].key = k /\ rows'[i].payload = n
        /\ \A j \in Jobs \ {i} : rows'[j] = rows[j]
    BY <2>1, <2>2, SentinelsAssumption DEF IInv, TypeOK
  <2>4. KeysUnique'
    <3>1. \A j \in Jobs \ {i} : rows'[j] # NoRow => rows'[j].key # k
      BY <2>1, <2>3 DEF JobsWithKey
    <3>2. \A j, m \in Jobs \ {i} :
            rows'[j] # NoRow /\ rows'[m] # NoRow /\ rows'[j].key = rows'[m].key => j = m
      BY <2>3 DEF CreatesInv, KeysUnique
    <3>. HIDE DEF n, a
    <3>. QED BY <2>3, <3>1, <3>2 DEF KeysUnique
  <2>. HIDE DEF n
  <2>5. a.job = i /\ a.key = k /\ a.content = n
    OBVIOUS
  <2>. HIDE DEF a
  <2>. QED BY <1>2, <2>1, <2>3, <2>4, <2>5 DEF CreatesInv, CreatedByRequest
<1>5. ASSUME created' = created, \A i \in Jobs : rows'[i] # NoRow => rows[i] # NoRow
      PROVE  CreatesInv'
  <2>1. KeysUnique'
    BY <1>1, <1>5 DEF CreatesInv, KeysUnique, RowsKeepIdentity
  <2>. QED BY <1>2, <1>5, <2>1 DEF CreatesInv, CreatedByRequest
<1>6. ASSUME NEW h \in Handlers, NEW t \in Times, NEW answered \in BOOLEAN,
             CommitPatch(h, t, answered)
      PROVE  CreatesInv'
  <2>. DEFINE i == pending[h].job
  <2>1. i \in Jobs /\ rows[i] \in Row /\ rows' = [rows EXCEPT ![i] = rows'[i]]
    BY <1>6, CommitWrites
  <2>. HIDE DEF i
  <2>2. \A j \in Jobs : rows'[j] # NoRow => rows[j] # NoRow
    BY <2>1, SentinelsAssumption DEF IInv, TypeOK
  <2>. QED BY <1>5, <1>6, <2>2 DEF CommitPatch
<1>7. ASSUME NEW i \in Jobs, NEW k \in ClientKeys \cup SystemKeys,
             NEW e \in Posts, NEW t \in Times, AppendEvent(i, k, e, t)
      PROVE  CreatesInv'
  <2>1. rows[i] \in Row /\ rows' = [rows EXCEPT ![i] = rows'[i]]
    BY <1>7, AppendWrites
  <2>2. \A j \in Jobs : rows'[j] # NoRow => rows[j] # NoRow
    BY <2>1, SentinelsAssumption DEF IInv, TypeOK
  <2>. QED BY <1>5, <1>7, <2>2 DEF AppendEvent
<1>8. CASE UNCHANGED <<rows, created>>
  BY <1>5, <1>8
<1>. QED
  BY <1>3, <1>4, <1>6, <1>7, <1>8
  DEF Next, Create, PatchJob, PostEvent, GetJob, SendPatch, ReadBase, RefusePatch,
      ReplayEvent, Restart, vars

\* Before any request no create was answered.
LEMMA CreatesInit == ASSUME Init PROVE CreatesInv
BY DEF Init, CreatesInv, KeysUnique, CreatedByRequest

\* An answered create of a job that was made by the tracker is a replay for ever,
\* whatever events and PATCHes do to the job.
THEOREM CreatesReplay == Spec => []CreateRetryReplays
<1>1. IInv /\ CreatesInv => CreateRetryReplays
  BY DEF IInv, TypeOK, CreatesInv, CreatedByRequest, CreateRetryReplays, CreateReplays,
         JobsWithKey, SameCreate, Native
<1>2. IInv /\ CreatesInv /\ [Next]_vars => CreatesInv'
  BY CreatesStep
<1>. QED BY <1>1, <1>2, CreatesInit, Invariance, PTL DEF Spec

-----------------------------------------------------------------------------
(* Event posts.                                                            *)

\* One event of a job has a source_key.
EventKeysUnique ==
  \A i \in Jobs : \A m, n \in DOMAIN events[i] :
    events[i][m].key = events[i][n].key => m = n

\* The event at place n of a timeline is the one the post p asks for, at
\* whatever time the server evaluates it.
Answers(n, p) ==
  /\ n \in DOMAIN events[p.job]
  /\ events[p.job][n].key = p.key
  /\ \A t \in Times : SameEvent(events[p.job][n], Stored(p.key, p.post, t), p.post)

PostsOnTimeline == \A p \in posted : \E n \in Nat : Answers(n, p)

EventsInv == EventKeysUnique /\ PostsOnTimeline

\* Whether a stored event answers a post does not depend on the time of day:
\* the clock is only used for a post without happened_at, which matches any.
LEMMA SameAtAnyTime ==
  ASSUME NEW old \in Event, NEW k \in ClientKeys \cup SystemKeys, NEW e \in Posts,
         NEW s \in Times, NEW t \in Times, SameEvent(old, Stored(k, e, s), e)
  PROVE  SameEvent(old, Stored(k, e, t), e)
<1>1. CASE e.happened = 0
  BY <1>1 DEF SameEvent, Stored
<1>2. CASE e.happened # 0
  BY <1>2 DEF SameEvent, Stored, StoredTime
<1>. QED BY <1>1, <1>2

\* A post is answered with the event it stores.
LEMMA SameAsStored ==
  ASSUME NEW k \in ClientKeys \cup SystemKeys, NEW e \in Posts, NEW t \in Times
  PROVE  SameEvent(Stored(k, e, t), Stored(k, e, t), e)
BY DEF SameEvent, Stored

\* An event with a new key leaves the keys of a timeline distinct.
LEMMA AppendKeepsKeysUnique ==
  ASSUME TypeOK, EventKeysUnique, NEW i \in Jobs, NEW x \in Event,
         events' = [events EXCEPT ![i] = events'[i]],
         \/ events'[i] = Append(events[i], x) /\ ~Has(events[i], x.key)
         \/ events'[i] = events[i]
  PROVE  EventKeysUnique'
<1>1. events[i] \in Seq(Event) /\ \A j \in Jobs \ {i} : events'[j] = events[j]
  BY DEF TypeOK
<1>2. ASSUME NEW m \in DOMAIN events'[i], NEW n \in DOMAIN events'[i],
             events'[i][m].key = events'[i][n].key
      PROVE  m = n
  <2>1. CASE events'[i] = events[i]
    BY <1>2, <2>1 DEF EventKeysUnique
  <2>2. CASE events'[i] = Append(events[i], x) /\ ~Has(events[i], x.key)
    <3>. DEFINE last == Len(events[i]) + 1
    <3>1. /\ \A k \in DOMAIN events'[i] : k \in DOMAIN events[i] \/ k = last
          /\ \A k \in DOMAIN events[i] : events'[i][k] = events[i][k]
          /\ events'[i][last] = x
      BY <1>1, <2>2, Appended
    <3>2. \A k \in DOMAIN events[i] : events[i][k].key # x.key
      BY <2>2 DEF Has
    <3>. HIDE DEF last
    <3>3. CASE m \in DOMAIN events[i] /\ n \in DOMAIN events[i]
      BY <1>2, <3>1, <3>3 DEF EventKeysUnique
    <3>4. CASE m = last \/ n = last
      BY <1>2, <3>1, <3>2, <3>4
    <3>. QED BY <3>1, <3>3, <3>4
  <2>. QED BY <2>1, <2>2
<1>. QED BY <1>1, <1>2 DEF EventKeysUnique

\* Status events use a free key, posts are refused one that is taken.
LEMMA EventKeysStep == ASSUME IInv, EventKeysUnique, [Next]_vars PROVE EventKeysUnique'
<1>1. ASSUME NEW h \in Handlers, NEW t \in Times, NEW answered \in BOOLEAN,
             CommitPatch(h, t, answered)
      PROVE  EventKeysUnique'
  <2>. DEFINE i == pending[h].job
              x == StatusEvent(rows'[i].version, Update(h).stage, t)
  <2>1. /\ i \in Jobs
        /\ rows[i].version = pending[h].ifMatch
        /\ rows'[i].version = rows[i].version + 1
    BY <1>1, CommitWrites
  <2>2. /\ x \in Event
        /\ events' = [events EXCEPT ![i] = events'[i]]
        /\ \/ Update(h).stage # rows[i].content.stage /\ events'[i] = Append(events[i], x)
           \/ Update(h).stage = rows[i].content.stage /\ events'[i] = events[i]
    BY <1>1, PatchEvents
  <2>3. Update(h).stage # rows[i].content.stage => ~Has(events[i], SystemKey(pending[h].ifMatch + 1))
    BY <1>1 DEF CommitPatch, Acceptable, StatusEventFits
  <2>4. x.key = SystemKey(pending[h].ifMatch + 1)
    BY <2>1 DEF StatusEvent
  <2>. HIDE DEF i, x
  <2>5. \/ events'[i] = Append(events[i], x) /\ ~Has(events[i], x.key)
        \/ events'[i] = events[i]
    BY <2>2, <2>3, <2>4
  <2>. QED BY <2>1, <2>2, <2>5, AppendKeepsKeysUnique DEF IInv
<1>2. ASSUME NEW i \in Jobs, NEW k \in ClientKeys \cup SystemKeys,
             NEW e \in Posts, NEW t \in Times, AppendEvent(i, k, e, t)
      PROVE  EventKeysUnique'
  <2>. DEFINE x == Stored(k, e, t)
  <2>1. x \in Event /\ x.key = k
    BY StoredType DEF Stored
  <2>2. events' = [events EXCEPT ![i] = Append(events[i], x)] /\ ~Has(events[i], k)
    BY <1>2 DEF AppendEvent
  <2>. HIDE DEF x
  <2>3. events'[i] = Append(events[i], x)
    BY <2>2 DEF IInv, TypeOK
  <2>4. events' = [events EXCEPT ![i] = events'[i]]
    BY <2>2, <2>3
  <2>. QED BY <2>1, <2>2, <2>3, <2>4, AppendKeepsKeysUnique DEF IInv
<1>3. CASE UNCHANGED events
  BY <1>3 DEF EventKeysUnique
<1>. QED
  BY <1>1, <1>2, <1>3
  DEF Next, Create, PatchJob, PostEvent, ReplayCreate, InsertJob, GetJob, SendPatch,
      ReadBase, RefusePatch, ReplayEvent, Restart, vars

\* A post is answered with an event of the timeline, and events stay.
LEMMA PostsStep == ASSUME IInv, PostsOnTimeline, [Next]_vars PROVE PostsOnTimeline'
<1>1. TimelinesKeepEvents
  BY EventsStep
<1>2. ASSUME NEW n \in Nat, NEW p, p.job \in Jobs, Answers(n, p)
      PROVE  Answers(n, p)'
  BY <1>1, <1>2 DEF Answers, TimelinesKeepEvents
<1>3. \A p \in posted : p.job \in Jobs
  BY DEF IInv, TypeOK
<1>4. ASSUME NEW i \in Jobs, NEW k \in ClientKeys \cup SystemKeys,
             NEW e \in Posts, NEW t \in Times, ReplayEvent(i, k, e, t)
      PROVE  PostsOnTimeline'
  <2>. DEFINE p == [job |-> i, key |-> k, post |-> e]
  <2>1. PICK n \in DOMAIN events[i] :
          events[i][n].key = k /\ SameEvent(events[i][n], Stored(k, e, t), e)
    BY <1>4 DEF ReplayEvent
  <2>2. events[i][n] \in Event /\ n \in Nat
    BY DEF IInv, TypeOK
  <2>3. Answers(n, p)
    BY <2>1, <2>2, SameAtAnyTime DEF Answers
  <2>4. posted' = posted \cup {p} /\ p.job \in Jobs
    BY <1>4 DEF ReplayEvent, Received
  <2>. HIDE DEF p
  <2>. QED BY <1>2, <1>3, <2>2, <2>3, <2>4 DEF PostsOnTimeline
<1>5. ASSUME NEW i \in Jobs, NEW k \in ClientKeys \cup SystemKeys,
             NEW e \in Posts, NEW t \in Times, AppendEvent(i, k, e, t)
      PROVE  PostsOnTimeline'
  <2>. DEFINE p == [job |-> i, key |-> k, post |-> e]
              x == Stored(k, e, t)
  <2>1. x \in Event /\ x.key = k
    BY StoredType DEF Stored
  <2>2. \A s \in Times : SameEvent(x, Stored(k, e, s), e)
    BY <2>1, SameAsStored, SameAtAnyTime
  <2>3. /\ events' = [events EXCEPT ![i] = Append(events[i], x)]
        /\ posted' = posted \cup {p}
    BY <1>5 DEF AppendEvent, Received
  <2>4. p.job = i /\ p.key = k /\ p.post = e
    OBVIOUS
  <2>. HIDE DEF x, p
  <2>5. events[i] \in Seq(Event) /\ events'[i] = Append(events[i], x)
    BY <2>3 DEF IInv, TypeOK
  <2>6. PICK n \in Nat : n \in DOMAIN events'[i] /\ events'[i][n] = x
    <3>1. /\ Len(events[i]) + 1 \in Nat
          /\ Len(events[i]) + 1 \in DOMAIN events'[i]
          /\ events'[i][Len(events[i]) + 1] = x
      BY <2>1, <2>5, Appended
    <3>. QED BY <3>1
  <2>7. Answers(n, p)'
    BY <2>1, <2>2, <2>4, <2>6 DEF Answers
  <2>. QED BY <1>2, <1>3, <2>3, <2>6, <2>7 DEF PostsOnTimeline
<1>6. CASE posted' = posted
  BY <1>2, <1>3, <1>6 DEF PostsOnTimeline
<1>. QED
  BY <1>4, <1>5, <1>6
  DEF Next, Create, PatchJob, PostEvent, ReplayCreate, InsertJob, GetJob, SendPatch,
      ReadBase, CommitPatch, RefusePatch, Restart, vars

\* Imported timelines have distinct keys, and at first nothing was posted.
LEMMA EventsInit == ASSUME Init PROVE EventsInv
<1>. PICK legacy \in [Jobs -> LegacyJobs \cup {NoRow}] :
        events = [i \in Jobs |-> IF legacy[i] = NoRow THEN <<>> ELSE legacy[i].log]
  BY DEF Init
<1>1. EventKeysUnique
  <2>1. ASSUME NEW i \in Jobs, NEW m \in DOMAIN events[i], NEW n \in DOMAIN events[i],
               events[i][m].key = events[i][n].key
        PROVE  m = n
    <3>1. CASE legacy[i] = NoRow
      BY <2>1, <3>1
    <3>2. CASE legacy[i] # NoRow
      BY <2>1, <3>2, InputsAssumption
    <3>. QED BY <3>1, <3>2
  <2>. QED BY <2>1 DEF EventKeysUnique
<1>. QED BY <1>1 DEF Init, EventsInv, PostsOnTimeline

\* The two parts together.
LEMMA EventsInvariance == Spec => []EventsInv
<1>1. Init => EventsInv
  BY EventsInit
<1>2. IInv /\ EventsInv /\ [Next]_vars => EventsInv'
  BY EventKeysStep, PostsStep DEF EventsInv
<1>. QED BY <1>1, <1>2, Invariance, PTL DEF Spec

\* An answered event post is a replay for ever, at whatever time it is sent again.
THEOREM EventPostsReplay == Spec => []EventRetryReplays
<1>1. EventsInv => EventRetryReplays
  BY DEF EventsInv, PostsOnTimeline, Answers, EventRetryReplays
<1>. QED BY <1>1, EventsInvariance, PTL

\* However creates and posts interleave and are repeated, every answer names
\* the one job, or the one event, of the identity it was asked for.
THEOREM AnswersStayUnique == Spec => []AnswersNameOneRow
<1>1. ASSUME IInv, CreatesInv, EventsInv PROVE AnswersNameOneRow
  <2>1. ASSUME NEW a \in created, NEW j \in Jobs
        PROVE  (rows[j] # NoRow /\ rows[j].key = a.key) <=> j = a.job
    BY <1>1 DEF IInv, TypeOK, CreatesInv, KeysUnique, CreatedByRequest
  <2>2. ASSUME NEW p \in posted
        PROVE  \E n \in DOMAIN events[p.job] :
                 \A m \in DOMAIN events[p.job] : events[p.job][m].key = p.key <=> m = n
    <3>1. p.job \in Jobs
      BY <1>1 DEF IInv, TypeOK
    <3>2. PICK n \in Nat : Answers(n, p)
      BY <1>1 DEF EventsInv, PostsOnTimeline
    <3>. QED BY <1>1, <3>1, <3>2 DEF Answers, EventsInv, EventKeysUnique
  <2>. QED BY <2>1, <2>2 DEF AnswersNameOneRow
<1>2. IInv /\ CreatesInv /\ [Next]_vars => CreatesInv'
  BY CreatesStep
<1>. QED BY <1>1, <1>2, CreatesInit, EventsInvariance, Invariance, PTL DEF Spec

-----------------------------------------------------------------------------
(* The last check.                                                         *)

\* The agreement of last_checked_at with the timeline, for one job.
Latest(checked, native, log, birth) ==
  LET Checks == {n \in DOMAIN log : n > birth.events /\ log[n].kind = "check"} IN
  /\ \A n \in Checks : log[n].happened <= checked
  /\ native /\ checked # 0 => \E n \in Checks : log[n].happened = checked

\* A check that is later than the last one becomes the last one.
LEMMA LatestAppended ==
  ASSUME NEW log \in Seq(Event), NEW x \in Event, NEW checked \in Times \cup {0},
         NEW native \in BOOLEAN, NEW birth, birth.events \in Nat, birth.events <= Len(log),
         Latest(checked, native, log, birth)
  PROVE  Latest(IF x.kind = "check" /\ checked < x.happened THEN x.happened ELSE checked,
                native, Append(log, x), birth)
<1>. DEFINE new == Append(log, x)
            later == IF x.kind = "check" /\ checked < x.happened THEN x.happened ELSE checked
            Checks == {n \in DOMAIN log : n > birth.events /\ log[n].kind = "check"}
            ChecksNew == {n \in DOMAIN new : n > birth.events /\ new[n].kind = "check"}
<1>1. /\ DOMAIN log = 1..Len(log) /\ Len(log) \in Nat
      /\ DOMAIN new = 1..(Len(log) + 1)
      /\ new[Len(log) + 1] = x
      /\ \A n \in DOMAIN log : new[n] = log[n]
  BY Appended
<1>2. /\ checked \in Nat /\ x.happened \in Nat /\ later \in Nat /\ checked <= later
      /\ \A n \in DOMAIN log : log[n].happened \in Nat
  <2>1. Times \cup {0} \subseteq Nat /\ \A y \in Event : y.happened \in Times \cup {0}
    BY InputsAssumption DEF Event
  <2>2. \A n \in DOMAIN log : log[n] \in Event
    OBVIOUS
  <2>3. checked \in Nat /\ x.happened \in Nat
    BY <2>1
  <2>4. later \in Nat /\ checked <= later
    BY <2>3
  <2>5. \A n \in DOMAIN log : log[n].happened \in Nat
    BY <2>1, <2>2
  <2>. HIDE DEF later
  <2>. QED BY <2>3, <2>4, <2>5
<1>3. /\ \A n \in Checks : log[n].happened <= checked
      /\ native /\ checked # 0 => \E n \in Checks : log[n].happened = checked
  BY DEF Latest
<1>. HIDE DEF new
<1>4. \A n \in Checks : n \in ChecksNew /\ new[n].happened = log[n].happened
  BY <1>1
<1>5. \A n \in ChecksNew : n \in Checks \/ (n = Len(log) + 1 /\ x.kind = "check")
  BY <1>1
<1>6. ASSUME NEW n \in ChecksNew PROVE new[n].happened <= later
  <2>1. CASE n \in Checks
    BY <1>2, <1>3, <1>4, <2>1
  <2>2. CASE n = Len(log) + 1 /\ x.kind = "check"
    BY <1>1, <1>2, <2>2
  <2>. QED BY <1>5, <2>1, <2>2
<1>7. ASSUME native, later # 0 PROVE \E n \in ChecksNew : new[n].happened = later
  <2>1. CASE later = checked
    BY <1>3, <1>4, <1>7, <2>1
  <2>2. CASE x.kind = "check" /\ later = x.happened
    BY <1>1, <2>2
  <2>. QED BY <2>1, <2>2
<1>. QED BY <1>6, <1>7 DEF Latest, new

\* An event of another kind leaves the last check as it was, and so does a PATCH.
LEMMA LatestStep ==
  ASSUME IInv, TimelineInv, CheckedIsLatestCheck, [Next]_vars
  PROVE  CheckedIsLatestCheck'
<1>. DEFINE L(i) == rows[i] # NoRow => Latest(rows[i].checked, Native(i), events[i], births[i])
<1>0. CheckedIsLatestCheck <=> \A i \in Jobs : L(i)
  BY DEF CheckedIsLatestCheck, Latest
<1>1. ASSUME NEW k \in Keys, NEW b \in Bodies, NEW i \in Jobs, InsertJob(k, b, i)
      PROVE  \A j \in Jobs : L(j)'
  <2>1. /\ rows' = [rows EXCEPT ![i] = NewRow(k, Normalized(b))]
        /\ births' = [births EXCEPT ![i] = [stage |-> Normalized(b).stage, events |-> 0]]
        /\ events' = events /\ events[i] = <<>>
    BY <1>1 DEF InsertJob, TimelineInv, NoEventsWithoutJob
  <2>2. rows'[i].checked = 0
    BY <2>1 DEF NewRow, IInv, TypeOK
  <2>3. L(i)'
    BY <2>1, <2>2 DEF Latest
  <2>4. \A j \in Jobs \ {i} : rows'[j] = rows[j] /\ births'[j] = births[j]
    BY <2>1 DEF IInv, TypeOK
  <2>. QED BY <1>0, <2>1, <2>3, <2>4 DEF Native
<1>2. ASSUME NEW i \in Jobs, NEW x \in Event, births' = births,
             rows[i] \in Row, rows'[i] \in Row, rows'[i].payload = rows[i].payload,
             rows' = [rows EXCEPT ![i] = rows'[i]],
             events' = [events EXCEPT ![i] = events'[i]],
             \/ /\ events'[i] = Append(events[i], x)
                /\ rows'[i].checked = IF x.kind = "check" /\ rows[i].checked < x.happened
                                      THEN x.happened ELSE rows[i].checked
             \/ events'[i] = events[i] /\ rows'[i].checked = rows[i].checked
      PROVE  \A j \in Jobs : L(j)'
  <2>1. NoRow \notin Row
    BY SentinelsAssumption
  <2>2. rows[i] # NoRow /\ rows'[i] # NoRow
    BY <1>2, <2>1
  <2>3. Native(i)' <=> Native(i)
    BY <1>2, <2>2 DEF Native
  <2>4. /\ events[i] \in Seq(Event) /\ rows[i].checked \in Times \cup {0}
        /\ births[i].events \in Nat /\ births[i].events <= Len(events[i])
    BY <1>2 DEF IInv, TypeOK, TimelineInv, BirthEventsStay, Row
  <2>5. Latest(rows[i].checked, Native(i), events[i], births[i])
    BY <1>0, <2>2
  <2>6. Native(i) \in BOOLEAN
    BY DEF Native
  <2>7. Latest(rows'[i].checked, Native(i), events'[i], births[i])
    <3>. DEFINE later == IF x.kind = "check" /\ rows[i].checked < x.happened
                         THEN x.happened ELSE rows[i].checked
    <3>1. Latest(later, Native(i), Append(events[i], x), births[i])
      BY <2>4, <2>5, <2>6, LatestAppended
    <3>2. CASE events'[i] = Append(events[i], x) /\ rows'[i].checked = later
      BY <3>1, <3>2
    <3>3. CASE events'[i] = events[i] /\ rows'[i].checked = rows[i].checked
      BY <2>5, <3>3
    <3>. QED BY <1>2, <3>2, <3>3
  <2>8. L(i)'
    BY <1>2, <2>3, <2>7 DEF Latest
  <2>9. \A j \in Jobs \ {i} : rows'[j] = rows[j] /\ events'[j] = events[j]
    BY <1>2 DEF IInv, TypeOK
  <2>10. \A j \in Jobs \ {i} : L(j)'
    BY <1>0, <1>2, <2>9 DEF Native
  <2>. QED BY <2>8, <2>10
<1>3. ASSUME NEW h \in Handlers, NEW t \in Times, NEW answered \in BOOLEAN,
             CommitPatch(h, t, answered)
      PROVE  \A j \in Jobs : L(j)'
  <2>. DEFINE i == pending[h].job
              x == StatusEvent(rows'[i].version, Update(h).stage, t)
  <2>1. /\ i \in Jobs
        /\ rows[i] \in Row
        /\ rows'[i] \in Row
        /\ rows' = [rows EXCEPT ![i] = rows'[i]]
        /\ rows'[i].checked = rows[i].checked
        /\ rows'[i].payload = rows[i].payload
    BY <1>3, CommitWrites
  <2>2. /\ x \in Event
        /\ events' = [events EXCEPT ![i] = events'[i]]
        /\ events'[i] = Append(events[i], x) \/ events'[i] = events[i]
    BY <1>3, PatchEvents
  <2>3. x.kind # "check" /\ births' = births
    BY <1>3 DEF StatusEvent, CommitPatch
  <2>. HIDE DEF i, x
  <2>. QED BY <1>2, <2>1, <2>2, <2>3
<1>4. ASSUME NEW i \in Jobs, NEW k \in ClientKeys \cup SystemKeys,
             NEW e \in Posts, NEW t \in Times, AppendEvent(i, k, e, t)
      PROVE  \A j \in Jobs : L(j)'
  <2>. DEFINE x == Stored(k, e, t)
  <2>1. /\ rows[i] \in Row
        /\ rows'[i] \in Row
        /\ rows' = [rows EXCEPT ![i] = rows'[i]]
        /\ rows'[i] = RowAfter(rows[i], x)
        /\ rows'[i].payload = rows[i].payload
    BY <1>4, AppendWrites
  <2>2. births' = births /\ events' = [events EXCEPT ![i] = Append(events[i], x)]
    BY <1>4 DEF AppendEvent
  <2>3. x \in Event
    BY StoredType
  <2>. HIDE DEF x
  <2>4. events'[i] = Append(events[i], x)
    BY <2>2 DEF IInv, TypeOK
  <2>5. events' = [events EXCEPT ![i] = events'[i]]
    BY <2>2, <2>4
  <2>6. rows'[i].checked = IF x.kind = "check" /\ rows[i].checked < x.happened
                           THEN x.happened ELSE rows[i].checked
    BY <2>1, <2>3, RowAfterType
  <2>. QED BY <1>2, <2>1, <2>2, <2>3, <2>4, <2>5, <2>6
<1>5. ASSUME UNCHANGED <<rows, events, births>>
      PROVE  \A j \in Jobs : L(j)'
  BY <1>0, <1>5 DEF Native
<1>6. \A j \in Jobs : L(j)'
  BY <1>1, <1>3, <1>4, <1>5
  DEF Next, Create, PatchJob, PostEvent, ReplayCreate, GetJob, SendPatch, ReadBase,
      RefusePatch, ReplayEvent, Restart, vars
<1>. QED BY <1>6 DEF CheckedIsLatestCheck, Latest

\* A job the tables start with was imported, and its events came with it.
LEMMA LatestInit == ASSUME Init PROVE CheckedIsLatestCheck
<1>. PICK legacy \in [Jobs -> LegacyJobs \cup {NoRow}] :
        /\ rows = [i \in Jobs |-> IF legacy[i] = NoRow THEN NoRow ELSE legacy[i].row]
        /\ events = [i \in Jobs |-> IF legacy[i] = NoRow THEN <<>> ELSE legacy[i].log]
        /\ births = [i \in Jobs |->
                       IF legacy[i] = NoRow THEN [stage |-> Saved, events |-> 0]
                       ELSE [stage |-> legacy[i].row.content.stage,
                             events |-> Len(legacy[i].log)]]
  BY DEF Init
<1>. SUFFICES ASSUME NEW i \in Jobs, rows[i] # NoRow
              PROVE  /\ {n \in DOMAIN events[i] :
                            n > births[i].events /\ events[i][n].kind = "check"} = {}
                     /\ ~Native(i)
  BY DEF CheckedIsLatestCheck
<1>1. legacy[i] \in LegacyJobs /\ rows[i] = legacy[i].row
  OBVIOUS
<1>2. events[i] = legacy[i].log /\ births[i].events = Len(events[i])
  OBVIOUS
<1>3. DOMAIN events[i] = 1..Len(events[i]) /\ Len(events[i]) \in Nat
  BY <1>1, <1>2, InputsAssumption
<1>4. ~Native(i)
  BY <1>1, InputsAssumption DEF Native
<1>. QED BY <1>2, <1>3, <1>4

\* In whatever order checks arrive, and whatever PATCHes run in between,
\* last_checked_at is the latest of them.
THEOREM LastCheckIsLatest == Spec => []CheckedIsLatestCheck
<1>1. IInv /\ TimelineInv /\ [Next]_vars => TimelineInv'
  BY TimelineStep
<1>2. IInv /\ TimelineInv /\ CheckedIsLatestCheck /\ [Next]_vars => CheckedIsLatestCheck'
  BY LatestStep
<1>. QED BY <1>1, <1>2, TimelineInit, LatestInit, Invariance, PTL DEF Spec

==============================================================================
