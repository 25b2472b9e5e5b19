---------------------------- MODULE TrackerProofs ----------------------------
(* Theorems about Tracker, for every value of its constants.               *)
EXTENDS Tracker, TLAPS

-----------------------------------------------------------------------------
(* The operators of the handlers return values of the right type.          *)

\* A create request becomes the content of a row.
LEMMA NormalizedType ==
  ASSUME NEW b \in Bodies PROVE Normalized(b) \in Content
BY SentinelsAssumption, InputsAssumption DEF Normalized, Body, Content

\* A PATCH merged into a job is the content of a row.
LEMMA MergedType ==
  ASSUME NEW base \in Content, NEW current \in Content, NEW p \in Patch
  PROVE  Merged(base, p, current) \in Content
BY SentinelsAssumption DEF Merged, Patch, Content

\* What an event post stores is an event.
LEMMA StoredType ==
  ASSUME NEW k \in ClientKeys \cup SystemKeys, NEW e \in Posts, NEW t \in Times
  PROVE  Stored(k, e, t) \in Event
<1>1. e \in Post
  BY InputsAssumption
<1>2. StoredTime(e.happened, t) \in Times \cup {0}
  BY <1>1, SentinelsAssumption DEF StoredTime, Post
<1>. QED BY <1>1, <1>2 DEF Stored, Post, Event

\* An event gives the row its next version, its stage and its check, and keeps who it is.
LEMMA RowAfterType ==
  ASSUME NEW r \in Row, NEW x \in Event
  PROVE  /\ RowAfter(r, x) \in Row
         /\ RowAfter(r, x).version = r.version + 1
         /\ RowAfter(r, x).content.stage = IF x.stage # Blank THEN x.stage ELSE r.content.stage
         /\ RowAfter(r, x).checked = IF x.kind = "check" /\ r.checked < x.happened
                                     THEN x.happened ELSE r.checked
         /\ RowAfter(r, x).key = r.key
         /\ RowAfter(r, x).payload = r.payload
<1>. DEFINE stage == IF x.stage # Blank THEN x.stage ELSE r.content.stage
            content == [r.content EXCEPT !.stage = stage]
            checked == IF x.kind = "check" /\ r.checked < x.happened
                       THEN x.happened ELSE r.checked
<1>1. content \in Content /\ content.stage = stage
  BY DEF Row, Event, Content
<1>2. checked \in Times \cup {0}
  BY DEF Row, Event
<1>3. RowAfter(r, x) =
        [r EXCEPT !.version = @ + 1, !.checked = checked, !.content = content]
  BY DEF RowAfter, Row
<1>. HIDE DEF stage, content, checked
<1>4. RowAfter(r, x) =
        [key |-> r.key, version |-> r.version + 1, content |-> content,
         checked |-> checked, payload |-> r.payload]
  BY <1>3 DEF Row
<1>5. RowAfter(r, x) \in Row
  BY <1>1, <1>2, <1>4 DEF Row
<1>. QED BY <1>1, <1>4, <1>5 DEF stage, checked

\* The row a PATCH writes, field by field.
LEMMA RowUpdated ==
  ASSUME NEW r \in Row, NEW v \in Nat, NEW c \in Content,
         NEW new, new = [r EXCEPT !.version = v + 1, !.content = c]
  PROVE  /\ new \in Row
         /\ new.version = v + 1
         /\ new.content = c
         /\ new.key = r.key
         /\ new.checked = r.checked
         /\ new.payload = r.payload
<1>1. new = [key |-> r.key, version |-> v + 1, content |-> c,
             checked |-> r.checked, payload |-> r.payload]
  BY DEF Row
<1>2. new \in Row
  BY <1>1 DEF Row
<1>3. QED BY <1>1, <1>2

\* The timeline after a PATCH is a timeline.
LEMMA LogPatchType ==
  ASSUME NEW log \in Seq(Event), NEW old \in Content, NEW new \in Content,
         NEW v \in 1..MaxVersion, NEW t \in Times
  PROVE  LogPatch(log, old, new, v, t) \in Seq(Event)
<1>1. StatusEvent(v, new.stage, t) \in Event
  BY DEF StatusEvent, Event, Content, SystemKeys, Kinds
<1>. QED BY <1>1 DEF LogPatch

\* The events of a timeline after one more.
LEMMA Appended ==
  ASSUME NEW log \in Seq(Event), NEW x \in Event
  PROVE  /\ Append(log, x) \in Seq(Event)
         /\ DOMAIN log = 1..Len(log) /\ Len(log) \in Nat
         /\ DOMAIN Append(log, x) = 1..(Len(log) + 1)
         /\ Append(log, x)[Len(log) + 1] = x
         /\ \A n \in DOMAIN log : Append(log, x)[n] = log[n]
OBVIOUS

-----------------------------------------------------------------------------
(* Type correctness.                                                       *)

\* Type correctness is not inductive by itself: that the base of a PATCH is a
\* row needs that the job of a request exists, which VersionNamesContent says.
IInv == TypeOK /\ VersionNamesContent

\* The tables the tracker starts with, empty or imported, are well typed.
LEMMA TypeInit == ASSUME Init PROVE TypeOK
<1>1. rows \in [Jobs -> Row \cup {NoRow}]
  BY InputsAssumption DEF Init
<1>2. events \in [Jobs -> Seq(Event)]
  BY InputsAssumption DEF Init
<1>3. births \in [Jobs -> [stage : Stages, events : Nat]]
  <2>1. \A l \in LegacyJobs : l.row.content.stage \in Stages /\ Len(l.log) \in Nat
    BY InputsAssumption DEF Row, Content
  <2>. QED BY <2>1, SentinelsAssumption DEF Init
<1>. QED BY <1>1, <1>2, <1>3 DEF Init, TypeOK

\* Every operation of the handlers keeps the types of the tables and of the
\* requests in flight.
LEMMA TypeStep == ASSUME IInv, [Next]_vars PROVE TypeOK'
<1>. USE DEF TypeOK, IInv
<1>1. ASSUME NEW k \in Keys, NEW b \in Bodies, ReplayCreate(k, b)
      PROVE  TypeOK'
  <2>. Normalized(b) \in Content
    BY NormalizedType
  <2>. QED BY <1>1 DEF ReplayCreate, Answered, JobsWithKey
<1>2. ASSUME NEW k \in Keys, NEW b \in Bodies, NEW i \in Jobs, InsertJob(k, b, i)
      PROVE  TypeOK'
  <2>1. Normalized(b) \in Content
    BY NormalizedType
  <2>2. NewRow(k, Normalized(b)) \in Row
    BY <2>1 DEF NewRow, Row
  <2>3. Normalized(b).stage \in Stages
    BY <2>1 DEF Content
  <2>. QED BY <1>2, <2>1, <2>2, <2>3 DEF InsertJob, Answered
<1>3. ASSUME NEW c \in Clients, NEW i \in Jobs, GetJob(c, i)
      PROVE  TypeOK'
  BY <1>3 DEF GetJob, Snapshot
<1>4. ASSUME NEW h \in Handlers, NEW c \in Clients, NEW p \in Patches,
             SendPatch(c, h, p)
      PROVE  TypeOK'
  <2>1. views[c] \in Snapshot
    BY <1>4 DEF SendPatch
  <2>2. [client |-> c, job |-> views[c].job, ifMatch |-> views[c].row.version,
         patch |-> p, base |-> NotRead] \in Request
    BY <2>1, InputsAssumption DEF Snapshot, Row, Request
  <2>. QED BY <1>4, <2>2 DEF SendPatch
<1>5. ASSUME NEW h \in Handlers, ReadBase(h)
      PROVE  TypeOK'
  <2>1. rows[pending[h].job] \in Row
    BY <1>5 DEF ReadBase, VersionNamesContent, RequestFresh, Request
  <2>. QED BY <1>5, <2>1 DEF ReadBase, Request
<1>6. ASSUME NEW h \in Handlers, NEW t \in Times, NEW answered \in BOOLEAN,
             CommitPatch(h, t, answered)
      PROVE  TypeOK'
  <2>. DEFINE q == pending[h]
              i == q.job
              new == [rows[i] EXCEPT !.version = q.ifMatch + 1, !.content = Update(h)]
  <2>1. q \in Request /\ q.base \in Row /\ rows[i] \in Row /\ i \in Jobs
    BY <1>6 DEF CommitPatch, Ready, VersionNamesContent, RequestFresh, Request
  <2>2. Update(h) \in Content
    BY <2>1, <1>6, MergedType DEF Update, Row, Request
  <2>3. new \in Row
    BY <2>1, <2>2, RowUpdated DEF Request
  <2>4. q.ifMatch + 1 \in 1..MaxVersion
    BY <2>1, <1>6, InputsAssumption DEF CommitPatch, Request
  <2>5. LogPatch(events[i], rows[i].content, Update(h), q.ifMatch + 1, t) \in Seq(Event)
    BY <2>1, <2>2, <2>4, LogPatchType DEF Row
  <2>6. [job |-> i, row |-> new] \in Snapshot
    BY <2>1, <2>3 DEF Snapshot
  <2>. QED BY <1>6, <2>1, <2>3, <2>5, <2>6 DEF CommitPatch, Request
<1>7. ASSUME NEW h \in Handlers, RefusePatch(h)
      PROVE  TypeOK'
  BY <1>7 DEF RefusePatch
<1>8. ASSUME NEW i \in Jobs, NEW k \in ClientKeys \cup SystemKeys,
             NEW e \in Posts, NEW t \in Times, ReplayEvent(i, k, e, t)
      PROVE  TypeOK'
  BY <1>8, InputsAssumption DEF ReplayEvent, Received
<1>9. ASSUME NEW i \in Jobs, NEW k \in ClientKeys \cup SystemKeys,
             NEW e \in Posts, NEW t \in Times, AppendEvent(i, k, e, t)
      PROVE  TypeOK'
  <2>1. Stored(k, e, t) \in Event
    BY StoredType
  <2>2. rows[i] \in Row
    BY <1>9 DEF AppendEvent
  <2>3. RowAfter(rows[i], Stored(k, e, t)) \in Row
    BY <2>1, <2>2, RowAfterType
  <2>4. rows' = [rows EXCEPT ![i] = RowAfter(rows[i], Stored(k, e, t))]
    BY <1>9 DEF AppendEvent
  <2>5. events' = [events EXCEPT ![i] = Append(events[i], Stored(k, e, t))]
    BY <1>9 DEF AppendEvent
  <2>. QED BY <1>9, <2>1, <2>3, <2>4, <2>5, InputsAssumption
           DEF AppendEvent, Received
<1>10. CASE Restart
  BY <1>10 DEF Restart
<1>11. CASE UNCHANGED vars
  BY <1>11 DEF vars
<1>. QED BY <1>1, <1>2, <1>3, <1>4, <1>5, <1>6, <1>7, <1>8, <1>9, <1>10, <1>11
         DEF Next, Create, PatchJob, PostEvent

-----------------------------------------------------------------------------
(* Versions name contents.                                                 *)

\* A job never goes away, and every write to it gives it a higher version.
RowsGrow ==
  \A i \in Jobs : rows[i] # NoRow =>
    \/ rows'[i] = rows[i]
    \/ rows'[i] \in Row /\ rows'[i].version > rows[i].version

\* What a PATCH and an event make of a row.
LEMMA CommitWrites ==
  ASSUME IInv, NEW h \in Handlers, NEW t \in Times, NEW answered \in BOOLEAN,
         CommitPatch(h, t, answered)
  PROVE  LET i == pending[h].job IN
         /\ i \in Jobs
         /\ rows[i] \in Row
         /\ rows'[i] \in Row
         /\ rows' = [rows EXCEPT ![i] = rows'[i]]
         /\ rows[i].version = pending[h].ifMatch
         /\ rows'[i].version = rows[i].version + 1
         /\ rows'[i].content = Update(h)
         /\ rows'[i].key = rows[i].key
         /\ rows'[i].checked = rows[i].checked
         /\ rows'[i].payload = rows[i].payload
<1>. DEFINE q == pending[h]
            i == q.job
<1>1. q \in Request /\ q.base \in Row /\ i \in Jobs /\ rows[i] \in Row
  BY DEF IInv, TypeOK, CommitPatch, Ready, VersionNamesContent, RequestFresh, Request
<1>2. Update(h) \in Content
  BY <1>1, MergedType DEF Update, Row, Request
<1>3. rows[i].version = q.ifMatch
  BY DEF CommitPatch, Acceptable, VersionMatches
<1>4. rows' = [rows EXCEPT ![i] =
        [rows[i] EXCEPT !.version = q.ifMatch + 1, !.content = Update(h)]]
  BY DEF CommitPatch
<1>5. rows'[i] = [rows[i] EXCEPT !.version = q.ifMatch + 1, !.content = Update(h)]
  BY <1>1, <1>4 DEF IInv, TypeOK
<1>6. rows' = [rows EXCEPT ![i] = rows'[i]]
  BY <1>4, <1>5
<1>7. q.ifMatch \in Nat
  BY <1>1 DEF Request
<1>. HIDE DEF q, i
<1>8. /\ rows'[i] \in Row
      /\ rows'[i].version = q.ifMatch + 1
      /\ rows'[i].content = Update(h)
      /\ rows'[i].key = rows[i].key
      /\ rows'[i].checked = rows[i].checked
      /\ rows'[i].payload = rows[i].payload
  <2>1. rows'[i] = [key |-> rows[i].key, version |-> q.ifMatch + 1,
                    content |-> Update(h), checked |-> rows[i].checked,
                    payload |-> rows[i].payload]
    BY <1>1, <1>5 DEF Row
  <2>. QED BY <1>1, <1>2, <1>7, <2>1 DEF Row
<1>. QED BY <1>1, <1>3, <1>6, <1>8 DEF q, i

\* An event writes the one row it is about and gives it its next version.
LEMMA AppendWrites ==
  ASSUME IInv, NEW i \in Jobs, NEW k \in ClientKeys \cup SystemKeys,
         NEW e \in Posts, NEW t \in Times, AppendEvent(i, k, e, t)
  PROVE  /\ rows[i] \in Row
         /\ rows'[i] \in Row
         /\ rows' = [rows EXCEPT ![i] = rows'[i]]
         /\ rows'[i] = RowAfter(rows[i], Stored(k, e, t))
         /\ rows'[i].version = rows[i].version + 1
         /\ rows'[i].key = rows[i].key
         /\ rows'[i].payload = rows[i].payload
<1>1. rows[i] \in Row /\ Stored(k, e, t) \in Event
  BY StoredType DEF IInv, TypeOK, AppendEvent
<1>2. rows' = [rows EXCEPT ![i] = RowAfter(rows[i], Stored(k, e, t))]
  BY DEF AppendEvent
<1>3. rows'[i] = RowAfter(rows[i], Stored(k, e, t))
  BY <1>2 DEF IInv, TypeOK
<1>4. rows' = [rows EXCEPT ![i] = rows'[i]]
  BY <1>2, <1>3
<1>5. /\ RowAfter(rows[i], Stored(k, e, t)) \in Row
      /\ RowAfter(rows[i], Stored(k, e, t)).version = rows[i].version + 1
      /\ RowAfter(rows[i], Stored(k, e, t)).key = rows[i].key
      /\ RowAfter(rows[i], Stored(k, e, t)).payload = rows[i].payload
  BY <1>1, RowAfterType
<1>. QED BY <1>1, <1>3, <1>4, <1>5

\* No operation deletes a job or writes it without raising its version.
LEMMA Growth == ASSUME IInv, [Next]_vars PROVE RowsGrow
<1>. USE DEF RowsGrow
<1>1. ASSUME NEW k \in Keys, NEW b \in Bodies, NEW i \in Jobs, InsertJob(k, b, i)
      PROVE  RowsGrow
  BY <1>1 DEF InsertJob, IInv, TypeOK
<1>2. ASSUME NEW h \in Handlers, NEW t \in Times, NEW answered \in BOOLEAN,
             CommitPatch(h, t, answered)
      PROVE  RowsGrow
  <2>. DEFINE i == pending[h].job
  <2>1. /\ i \in Jobs
        /\ rows[i] \in Row
        /\ rows'[i] \in Row
        /\ rows' = [rows EXCEPT ![i] = rows'[i]]
        /\ rows'[i].version = rows[i].version + 1
    BY <1>2, CommitWrites
  <2>. HIDE DEF i
  <2>. QED BY <2>1 DEF IInv, TypeOK, Row
<1>3. ASSUME NEW i \in Jobs, NEW k \in ClientKeys \cup SystemKeys,
             NEW e \in Posts, NEW t \in Times, AppendEvent(i, k, e, t)
      PROVE  RowsGrow
  <2>1. /\ rows[i] \in Row
        /\ rows'[i] \in Row
        /\ rows' = [rows EXCEPT ![i] = rows'[i]]
        /\ rows'[i].version = rows[i].version + 1
    BY <1>3, AppendWrites
  <2>. QED BY <2>1 DEF IInv, TypeOK, Row
<1>4. CASE UNCHANGED rows
  BY <1>4
<1>. QED
  BY <1>1, <1>2, <1>3, <1>4
  DEF Next, Create, PatchJob, PostEvent, ReplayCreate, GetJob, SendPatch, ReadBase,
      RefusePatch, ReplayEvent, Restart, vars

\* A copy of a job that was fresh stays fresh when rows only grow.
LEMMA GrowthKeepsCopies ==
  ASSUME TypeOK, RowsGrow, NEW i \in Jobs, NEW row \in Row, Fresh(i, row)
  PROVE  Fresh(i, row)'
BY SentinelsAssumption DEF Fresh, RowsGrow, TypeOK, Row

\* So does the base of a PATCH, and its If-Match stays behind the table.
LEMMA GrowthKeepsRequests ==
  ASSUME TypeOK, RowsGrow, NEW q \in Request, RequestFresh(q)
  PROVE  RequestFresh(q)'
<1>1. rows'[q.job] # NoRow /\ q.ifMatch <= rows'[q.job].version
  <2>. DEFINE old == rows[q.job]
              new == rows'[q.job]
  <2>1. q.job \in Jobs /\ q.ifMatch \in Nat
    BY DEF Request
  <2>7. old # NoRow /\ q.ifMatch <= old.version
    BY DEF RequestFresh
  <2>2. new = old \/ (new \in Row /\ new.version > old.version)
    BY <2>1, <2>7 DEF RowsGrow
  <2>3. old \in Row
    BY <2>1, <2>7 DEF TypeOK
  <2>4. NoRow \notin Row
    BY SentinelsAssumption
  <2>. HIDE DEF old, new
  <2>5. old.version \in Nat /\ (new \in Row => new.version \in Nat)
    BY <2>3 DEF Row
  <2>6. new # NoRow /\ q.ifMatch <= new.version
    BY <2>1, <2>7, <2>2, <2>3, <2>4, <2>5
  <2>. QED BY <2>6 DEF new
<1>2. q.base # NotRead => Fresh(q.job, q.base)' /\ q.ifMatch <= q.base.version
  BY GrowthKeepsCopies DEF RequestFresh, Request
<1>. QED BY <1>1, <1>2 DEF RequestFresh

\* Copies and requests of the state before a step stay fresh; the step that
\* makes a new one makes it of the table's row.
LEMMA FreshStep == ASSUME IInv, [Next]_vars PROVE VersionNamesContent'
<1>1. RowsGrow
  BY Growth
<1>2. ASSUME NEW c \in Clients, views[c] # NoView
      PROVE  Fresh(views[c].job, views[c].row)'
             \/ views'[c] # views[c]
  <2>1. views[c] \in Snapshot /\ Fresh(views[c].job, views[c].row)
    BY <1>2 DEF IInv, TypeOK, VersionNamesContent
  <2>2. \A i \in Jobs, row \in Row : Fresh(i, row) => Fresh(i, row)'
    BY <1>1, GrowthKeepsCopies DEF IInv
  <2>. QED BY <2>1, <2>2 DEF Snapshot, Fresh
<1>3. ASSUME NEW h \in Handlers, pending[h] # Idle, pending'[h] = pending[h]
      PROVE  RequestFresh(pending[h])'
  <2>1. pending[h] \in Request /\ RequestFresh(pending[h])
    BY <1>3 DEF IInv, TypeOK, VersionNamesContent
  <2>2. \A q \in Request : RequestFresh(q) => RequestFresh(q)'
    BY <1>1, GrowthKeepsRequests DEF IInv
  <2>. QED BY <1>3, <2>1, <2>2 DEF RequestFresh, Fresh
<1>4. ASSUME views' = views, pending' = pending
      PROVE  VersionNamesContent'
  BY <1>2, <1>3, <1>4 DEF VersionNamesContent
<1>5. ASSUME NEW c \in Clients, NEW i \in Jobs, GetJob(c, i)
      PROVE  VersionNamesContent'
  <2>1. Fresh(i, rows[i])'
    BY <1>5 DEF GetJob, Fresh, IInv, TypeOK, Row
  <2>2. \A d \in Clients \ {c} : views'[d] = views[d]
    BY <1>5 DEF GetJob, IInv, TypeOK
  <2>3. views'[c] = [job |-> i, row |-> rows[i]] /\ pending' = pending /\ rows' = rows
    BY <1>5 DEF GetJob, IInv, TypeOK
  <2>. QED BY <1>2, <1>3, <2>1, <2>2, <2>3 DEF VersionNamesContent, Fresh
<1>6. ASSUME NEW h \in Handlers, NEW c \in Clients, NEW p \in Patches,
             SendPatch(c, h, p)
      PROVE  VersionNamesContent'
  <2>. DEFINE q == [client |-> c, job |-> views[c].job,
                    ifMatch |-> views[c].row.version, patch |-> p, base |-> NotRead]
  <2>1. Fresh(views[c].job, views[c].row)
    BY <1>6 DEF SendPatch, IInv, VersionNamesContent
  <2>2. pending'[h] = q /\ rows' = rows /\ views' = views
    BY <1>6 DEF SendPatch, IInv, TypeOK
  <2>3. \A g \in Handlers \ {h} : pending'[g] = pending[g]
    BY <1>6 DEF SendPatch, IInv, TypeOK
  <2>4. RequestFresh(pending[h])'
    BY <2>1, <2>2 DEF RequestFresh, Fresh
  <2>. HIDE DEF q
  <2>. QED BY <1>2, <1>3, <2>2, <2>3, <2>4 DEF VersionNamesContent
<1>7. ASSUME NEW h \in Handlers, ReadBase(h)
      PROVE  VersionNamesContent'
  <2>. DEFINE q == pending[h]
  <2>1. q \in Request /\ RequestFresh(q) /\ rows' = rows /\ views' = views
    BY <1>7 DEF ReadBase, IInv, TypeOK, VersionNamesContent
  <2>2. pending' = [pending EXCEPT ![h] = [q EXCEPT !.base = rows[q.job]]]
    BY <1>7 DEF ReadBase
  <2>3. /\ pending'[h].job = q.job
        /\ pending'[h].ifMatch = q.ifMatch
        /\ pending'[h].base = rows[q.job]
        /\ \A g \in Handlers \ {h} : pending'[g] = pending[g]
    BY <2>1, <2>2 DEF IInv, TypeOK, Request
  <2>4. rows[q.job] \in Row
    BY <2>1 DEF RequestFresh, Request, IInv, TypeOK
  <2>5. RequestFresh(pending[h])'
    BY <2>1, <2>3, <2>4 DEF RequestFresh, Fresh, Row
  <2>. HIDE DEF q
  <2>. QED BY <1>2, <1>3, <2>1, <2>3, <2>5 DEF VersionNamesContent
<1>8. ASSUME NEW h \in Handlers, NEW t \in Times, NEW answered \in BOOLEAN,
             CommitPatch(h, t, answered)
      PROVE  VersionNamesContent'
  <2>. DEFINE i == pending[h].job
              d == pending[h].client
  <2>1. i \in Jobs /\ rows'[i] \in Row
    BY <1>8, CommitWrites
  <2>2. d \in Clients /\ pending'[h] = Idle
    BY <1>8 DEF CommitPatch, Ready, IInv, TypeOK, Request
  <2>3. rows'[i] = [rows[i] EXCEPT !.version = pending[h].ifMatch + 1,
                                   !.content = Update(h)]
    BY <1>8, <2>1 DEF CommitPatch, IInv, TypeOK
  <2>4. views' = views \/ views' = [views EXCEPT ![d] = [job |-> i, row |-> rows'[i]]]
    BY <1>8, <2>3 DEF CommitPatch
  <2>5. rows'[i] # NoRow /\ rows'[i].version \in Nat
    BY <2>1, SentinelsAssumption DEF Row
  <2>6. \A g \in Handlers \ {h} : pending'[g] = pending[g]
    BY <1>8 DEF CommitPatch, IInv, TypeOK
  <2>. HIDE DEF i, d
  <2>7. ASSUME NEW c \in Clients, views'[c] # NoView
        PROVE  Fresh(views[c].job, views[c].row)'
    <3>1. CASE views'[c] = views[c]
      BY <1>2, <2>7, <3>1 DEF Fresh
    <3>2. CASE views'[c] # views[c]
      <4>1. views'[c] = [job |-> i, row |-> rows'[i]]
        BY <2>2, <2>4, <3>2 DEF IInv, TypeOK
      <4>. QED BY <2>5, <4>1 DEF Fresh
    <3>. QED BY <3>1, <3>2
  <2>. QED BY <1>3, <2>2, <2>6, <2>7 DEF VersionNamesContent
<1>9. ASSUME NEW h \in Handlers, RefusePatch(h)
      PROVE  VersionNamesContent'
  BY <1>2, <1>3, <1>9 DEF RefusePatch, VersionNamesContent, IInv, TypeOK
<1>10. CASE Restart
  BY <1>2, <1>10 DEF Restart, VersionNamesContent
<1>. QED
  BY <1>4, <1>5, <1>6, <1>7, <1>8, <1>9, <1>10
  DEF Next, Create, PatchJob, PostEvent, ReplayCreate, InsertJob, ReplayEvent,
      AppendEvent, vars

\* Every reachable state satisfies the inductive invariant.
THEOREM Invariance == Spec => []IInv
<1>1. Init => IInv
  BY TypeInit DEF Init, IInv, VersionNamesContent
<1>2. IInv /\ [Next]_vars => IInv'
  BY TypeStep, FreshStep DEF IInv
<1>. QED BY <1>1, <1>2, PTL DEF Spec

\* Every reachable state has its types: in particular a merged PATCH body is a
\* complete job and a status event is an event the table can hold.
THEOREM TypeCorrect == Spec => []TypeOK
<1>1. IInv => TypeOK
  BY DEF IInv
<1>. QED BY <1>1, Invariance, PTL

\* The ETag is a strong validator: a copy of a job, held by a client or by a
\* PATCH handler, that has the version of the table is the row of the table.
THEOREM StrongETags == Spec => []VersionNamesContent
<1>1. IInv => VersionNamesContent
  BY DEF IInv
<1>. QED BY <1>1, Invariance, PTL

-----------------------------------------------------------------------------
(* No update is lost.                                                      *)

\* When a PATCH commits, the copy it merged into is the row: its version lies
\* between the If-Match and the version of the row, which are equal.
LEMMA CommitFindsItsBase ==
  ASSUME IInv, NEW h \in Handlers, Ready(h),
         VersionMatches(rows[pending[h].job], pending[h])
  PROVE  pending[h].base = rows[pending[h].job]
<1>1. pending[h] \in Request /\ RequestFresh(pending[h]) /\ pending[h].base \in Row
  BY DEF IInv, TypeOK, VersionNamesContent, Ready, Request
<1>2. rows[pending[h].job] \in Row
  BY <1>1 DEF IInv, TypeOK, Request, RequestFresh
<1>. QED BY <1>1, <1>2 DEF RequestFresh, Fresh, Ready, VersionMatches, Request, Row

\* The step that commits a PATCH merges its fields into the current row.
LEMMA NoLostUpdateStep ==
  ASSUME IInv, [Next]_vars PROVE CommitMergesIntoCurrentRow
<1>. SUFFICES ASSUME NEW h \in Handlers, Commits(h)
              PROVE  LET q == pending[h]
                         current == rows[q.job].content
                     IN  /\ rows'[q.job].content = Merged(current, q.patch, current)
                         /\ rows'[q.job].version = rows[q.job].version + 1
                         /\ \A i \in Jobs \ {q.job} : rows'[i] = rows[i]
  BY DEF CommitMergesIntoCurrentRow
<1>1. PICK t \in Times, answered \in BOOLEAN : CommitPatch(h, t, answered)
  <2>1. ASSUME NEW g \in Handlers, NEW t \in Times, NEW answered \in BOOLEAN,
               CommitPatch(g, t, answered)
        PROVE  g = h
    BY <2>1 DEF Commits, CommitPatch, IInv, TypeOK
  <2>. QED
    BY <2>1
    DEF Commits, Next, Create, PatchJob, PostEvent, ReplayCreate, InsertJob, GetJob,
        SendPatch, ReadBase, RefusePatch, ReplayEvent, AppendEvent, Restart, vars
<1>. DEFINE i == pending[h].job
<1>2. /\ i \in Jobs
      /\ rows' = [rows EXCEPT ![i] = rows'[i]]
      /\ rows'[i].version = rows[i].version + 1
      /\ rows'[i].content = Update(h)
  BY <1>1, CommitWrites
<1>3. pending[h].base = rows[i]
  BY <1>1, CommitFindsItsBase DEF CommitPatch, Acceptable
<1>4. Update(h) = Merged(rows[i].content, pending[h].patch, rows[i].content)
  BY <1>3 DEF Update
<1>. HIDE DEF i
<1>5. \A j \in Jobs \ {i} : rows'[j] = rows[j]
  BY <1>2 DEF IInv, TypeOK
<1>. QED BY <1>2, <1>4, <1>5 DEF i

\* A committed PATCH changes exactly the fields it names of the row as it is at
\* the commit, whatever was written since the handler read its base.
THEOREM UpdatesAreNotLost == Spec => NoLostUpdate
<1>1. IInv /\ [Next]_vars => [CommitMergesIntoCurrentRow]_vars
  BY NoLostUpdateStep
<1>. QED BY <1>1, Invariance, PTL DEF Spec, NoLostUpdate

-----------------------------------------------------------------------------
(* A stage change can always be recorded.                                  *)

\* The reserved keys on a timeline are those of versions the job has had.
SystemKeysOfThePast ==
  \A i \in Jobs : rows[i] # NoRow =>
    \A n \in DOMAIN events[i] : \A v \in 1..MaxVersion :
      events[i][n].key = SystemKey(v) => v <= rows[i].version

NoEventsWithoutJob == \A i \in Jobs : rows[i] = NoRow => events[i] = <<>>

\* A timeline keeps the events its job came with.
BirthEventsStay == \A i \in Jobs : births[i].events <= Len(events[i])

TimelineInv == SystemKeysOfThePast /\ NoEventsWithoutJob /\ BirthEventsStay

\* Imported events have no reserved key, and a job that is not there has none.
LEMMA TimelineInit == ASSUME Init PROVE TimelineInv
<1>. PICK legacy \in [Jobs -> LegacyJobs \cup {NoRow}] :
        /\ rows = [i \in Jobs |-> IF legacy[i] = NoRow THEN NoRow ELSE legacy[i].row]
        /\ events = [i \in Jobs |-> IF legacy[i] = NoRow THEN <<>> ELSE legacy[i].log]
        /\ births = [i \in Jobs |->
                       IF legacy[i] = NoRow THEN [stage |-> Saved, events |-> 0]
                       ELSE [stage |-> legacy[i].row.content.stage,
                             events |-> Len(legacy[i].log)]]
  BY DEF Init
<1>1. \A l \in LegacyJobs : /\ l.row # NoRow /\ Len(l.log) \in Nat
                            /\ \A n \in DOMAIN l.log : l.log[n].key \notin SystemKeys
  BY InputsAssumption, SentinelsAssumption
<1>2. SystemKeysOfThePast
  <2>1. \A v \in 1..MaxVersion : SystemKey(v) \in SystemKeys
    BY DEF SystemKeys
  <2>2. ASSUME NEW i \in Jobs, rows[i] # NoRow, NEW n \in DOMAIN events[i]
        PROVE  events[i][n].key \notin SystemKeys
    <3>1. legacy[i] \in LegacyJobs /\ events[i] = legacy[i].log
      BY <2>2
    <3>. QED BY <1>1, <2>2, <3>1
  <2>. QED BY <2>1, <2>2 DEF SystemKeysOfThePast
<1>3. NoEventsWithoutJob
  <2>1. ASSUME NEW i \in Jobs, rows[i] = NoRow
        PROVE  legacy[i] = NoRow
    BY <1>1, <2>1
  <2>. QED BY <2>1 DEF NoEventsWithoutJob
<1>4. BirthEventsStay
  <2>1. ASSUME NEW i \in Jobs
        PROVE  births[i].events <= Len(events[i])
    <3>1. CASE legacy[i] = NoRow
      BY <3>1
    <3>2. CASE legacy[i] # NoRow
      BY <1>1, <3>2
    <3>. QED BY <3>1, <3>2
  <2>. QED BY <2>1, Zenon DEF BirthEventsStay
<1>. QED BY <1>2, <1>3, <1>4 DEF TimelineInv

\* A timeline that keeps or appends to its events keeps those it came with.
LEMMA BirthEventsStep ==
  ASSUME TypeOK, BirthEventsStay, births' = births, NEW i \in Jobs, NEW x \in Event,
         events' = [events EXCEPT ![i] = events'[i]],
         events'[i] = Append(events[i], x) \/ events'[i] = events[i]
  PROVE  BirthEventsStay'
<1>1. \A j \in Jobs \ {i} : events'[j] = events[j]
  BY DEF TypeOK
<1>2. /\ births[i].events \in Nat /\ events[i] \in Seq(Event)
      /\ Len(events[i]) \in Nat /\ births[i].events <= Len(events[i])
  BY DEF TypeOK, BirthEventsStay
<1>3. births[i].events <= Len(events'[i])
  BY <1>2
<1>. QED BY <1>1, <1>3 DEF BirthEventsStay

\* The only steps that touch a timeline append one event and write the row.
LEMMA PatchEvents ==
  ASSUME IInv, NEW h \in Handlers, NEW t \in Times, NEW answered \in BOOLEAN,
         CommitPatch(h, t, answered)
  PROVE  LET i == pending[h].job
             x == StatusEvent(rows'[i].version, Update(h).stage, t)
         IN  /\ x \in Event
             /\ events' = [events EXCEPT ![i] = events'[i]]
             /\ \/ Update(h).stage # rows[i].content.stage /\ events'[i] = Append(events[i], x)
                \/ Update(h).stage = rows[i].content.stage /\ events'[i] = events[i]
<1>. DEFINE i == pending[h].job
<1>1. /\ i \in Jobs
      /\ rows[i] \in Row
      /\ rows'[i] \in Row
      /\ rows[i].version = pending[h].ifMatch
      /\ rows'[i].version = rows[i].version + 1
      /\ rows'[i].content = Update(h)
  BY CommitWrites
<1>2. events' = [events EXCEPT ![i] =
        LogPatch(events[i], rows[i].content, Update(h), rows'[i].version, t)]
  BY <1>1 DEF CommitPatch
<1>3. events'[i] = LogPatch(events[i], rows[i].content, Update(h), rows'[i].version, t)
  BY <1>1, <1>2 DEF IInv, TypeOK
<1>4. events' = [events EXCEPT ![i] = events'[i]]
  BY <1>2, <1>3
<1>5. rows'[i].version \in 1..MaxVersion
  BY <1>1, InputsAssumption DEF CommitPatch, Row
<1>6. Update(h).stage \in Stages
  BY <1>1 DEF Row, Content
<1>7. StatusEvent(rows'[i].version, Update(h).stage, t) \in Event
  BY <1>5, <1>6 DEF StatusEvent, Event, SystemKeys, Kinds
<1>. QED BY <1>3, <1>4, <1>7 DEF LogPatch

\* Stage changes use the key of the version they write, posts use none of those,
\* and events are only ever appended to the timeline of a job that exists.
LEMMA TimelineStep == ASSUME IInv, TimelineInv, [Next]_vars PROVE TimelineInv'
<1>. USE DEF TimelineInv, SystemKeysOfThePast, NoEventsWithoutJob
<1>1. ASSUME NEW k \in Keys, NEW b \in Bodies, NEW i \in Jobs, InsertJob(k, b, i)
      PROVE  TimelineInv'
  <2>1. BirthEventsStay'
    <3>1. births'[i].events = 0 /\ \A j \in Jobs \ {i} : births'[j] = births[j]
      BY <1>1 DEF InsertJob, IInv, TypeOK
    <3>2. events' = events /\ Len(events[i]) \in Nat
      BY <1>1 DEF InsertJob, IInv, TypeOK
    <3>. QED BY <3>1, <3>2 DEF BirthEventsStay
  <2>. QED BY <1>1, <2>1 DEF InsertJob, IInv, TypeOK
<1>2. ASSUME NEW h \in Handlers, NEW t \in Times, NEW answered \in BOOLEAN,
             CommitPatch(h, t, answered)
      PROVE  TimelineInv'
  <2>. DEFINE i == pending[h].job
              x == StatusEvent(rows'[i].version, Update(h).stage, t)
  <2>1. /\ i \in Jobs
        /\ rows[i] \in Row
        /\ rows'[i] \in Row
        /\ rows' = [rows EXCEPT ![i] = rows'[i]]
        /\ rows'[i].version = rows[i].version + 1
    BY <1>2, CommitWrites
  <2>2. /\ events' = [events EXCEPT ![i] = events'[i]]
        /\ events'[i] = Append(events[i], x) \/ events'[i] = events[i]
        /\ x \in Event
    BY <1>2, PatchEvents
  <2>3. \A v \in 1..MaxVersion : x.key = SystemKey(v) => v = rows'[i].version
    BY DEF StatusEvent, SystemKey
  <2>4. rows[i] # NoRow
    BY <2>1, SentinelsAssumption
  <2>. HIDE DEF i, x
  <2>5. events[i] \in Seq(Event)
    BY <2>1 DEF IInv, TypeOK
  <2>6. \A n \in DOMAIN events'[i] : \A v \in 1..MaxVersion :
          events'[i][n].key = SystemKey(v) => v <= rows'[i].version
    <3>1. CASE events'[i] = events[i]
      BY <2>1, <2>4, <3>1 DEF Row
    <3>2. CASE events'[i] = Append(events[i], x)
      <4>1. ASSUME NEW n \in DOMAIN events'[i], NEW v \in 1..MaxVersion,
                   events'[i][n].key = SystemKey(v)
            PROVE  v <= rows'[i].version
        <5>1. n \in DOMAIN events[i] \/ events'[i][n] = x
          BY <2>2, <2>5, <3>2, Appended
        <5>2. CASE n \in DOMAIN events[i]
          BY <2>1, <2>2, <2>4, <2>5, <3>2, <4>1, <5>2, Appended DEF Row
        <5>3. CASE events'[i][n] = x
          BY <2>1, <2>3, <4>1, <5>3, InputsAssumption DEF Row
        <5>. QED BY <5>1, <5>2, <5>3
      <4>. QED BY <4>1
    <3>. QED BY <2>2, <3>1, <3>2
  <2>7. \A j \in Jobs \ {i} : rows'[j] = rows[j] /\ events'[j] = events[j]
    BY <2>1, <2>2 DEF IInv, TypeOK
  <2>8. BirthEventsStay'
    BY <1>2, <2>1, <2>2, BirthEventsStep DEF CommitPatch, IInv
  <2>. QED BY <2>1, <2>6, <2>7, <2>8, SentinelsAssumption
<1>3. ASSUME NEW i \in Jobs, NEW k \in ClientKeys \cup SystemKeys,
             NEW e \in Posts, NEW t \in Times, AppendEvent(i, k, e, t)
      PROVE  TimelineInv'
  <2>. DEFINE x == Stored(k, e, t)
  <2>1. /\ rows[i] \in Row
        /\ rows'[i] \in Row
        /\ rows' = [rows EXCEPT ![i] = rows'[i]]
        /\ rows'[i].version = rows[i].version + 1
    BY <1>3, AppendWrites
  <2>2. events' = [events EXCEPT ![i] = Append(events[i], x)] /\ rows[i] # NoRow
    BY <1>3 DEF AppendEvent
  <2>3. x \in Event /\ x.key = k
    BY StoredType DEF Stored
  <2>4. \A n \in DOMAIN events[i] : \A v \in 1..MaxVersion :
          events[i][n].key = SystemKey(v) => v <= rows[i].version
    BY <2>2
  <2>5. k \notin SystemKeys
    BY <1>3 DEF AppendEvent, AcceptKey
  <2>6. \A v \in 1..MaxVersion : x.key = SystemKey(v) => v <= rows'[i].version
    BY <2>3, <2>5 DEF SystemKeys
  <2>. HIDE DEF x
  <2>7. events[i] \in Seq(Event) /\ events'[i] = Append(events[i], x)
    BY <2>2 DEF IInv, TypeOK
  <2>8. ASSUME NEW n \in DOMAIN events'[i], NEW v \in 1..MaxVersion,
               events'[i][n].key = SystemKey(v)
        PROVE  v <= rows'[i].version
    <3>1. n \in DOMAIN events[i] \/ events'[i][n] = x
      BY <2>3, <2>7, Appended
    <3>2. CASE n \in DOMAIN events[i]
      BY <2>1, <2>3, <2>4, <2>7, <2>8, <3>2, Appended DEF Row
    <3>3. CASE events'[i][n] = x
      BY <2>6, <2>8, <3>3
    <3>. QED BY <3>1, <3>2, <3>3
  <2>9. \A j \in Jobs \ {i} : rows'[j] = rows[j] /\ events'[j] = events[j]
    BY <2>1, <2>2 DEF IInv, TypeOK
  <2>10. BirthEventsStay'
    <3>1. events' = [events EXCEPT ![i] = events'[i]] /\ births' = births
      BY <1>3, <2>2, <2>7 DEF AppendEvent
    <3>. QED BY <2>3, <2>7, <3>1, BirthEventsStep DEF IInv
  <2>. QED BY <2>1, <2>8, <2>9, <2>10, SentinelsAssumption
<1>4. CASE UNCHANGED <<rows, events, births>>
  BY <1>4 DEF BirthEventsStay
<1>. QED
  BY <1>1, <1>2, <1>3, <1>4
  DEF Next, Create, PatchJob, PostEvent, ReplayCreate, GetJob, SendPatch, ReadBase,
      RefusePatch, ReplayEvent, Restart, vars

\* The key the next stage change needs is free on the timeline of every job.
THEOREM StatusEventsFit == Spec => []StatusEventAlwaysFits
<1>1. Init => TimelineInv
  BY TimelineInit
<1>2. IInv /\ TimelineInv /\ [Next]_vars => TimelineInv'
  BY TimelineStep
<1>3. IInv /\ TimelineInv => StatusEventAlwaysFits
  <2>. SUFFICES ASSUME IInv, TimelineInv, NEW i \in Jobs, rows[i] # NoRow,
                       rows[i].version < MaxVersion,
                       NEW n \in DOMAIN events[i],
                       events[i][n].key = SystemKey(rows[i].version + 1)
                PROVE  FALSE
    BY DEF StatusEventAlwaysFits, Has
  <2>1. rows[i].version \in Nat /\ rows[i].version + 1 \in 1..MaxVersion
    BY InputsAssumption DEF IInv, TypeOK, Row
  <2>. QED BY <2>1 DEF TimelineInv, SystemKeysOfThePast
<1>. QED BY <1>1, <1>2, <1>3, Invariance, PTL DEF Spec

-----------------------------------------------------------------------------
(* The timeline agrees with the row.                                       *)

\* The agreement for one job, of its stage, its timeline and what it came with.
Agree(stage, log, birth) ==
  LET Bearing == {n \in DOMAIN log : n > birth.events /\ log[n].stage # Blank} IN
  \/ /\ Bearing = {}
     /\ stage = birth.stage
  \/ \E n \in Bearing : /\ \A m \in Bearing : m <= n
                        /\ stage = log[n].stage

\* An event that carries a stage settles it, one that does not leaves it.
LEMMA AgreeAppended ==
  ASSUME NEW log \in Seq(Event), NEW x \in Event, NEW stage, NEW birth,
         birth.events \in Nat, birth.events <= Len(log),
         x.stage = Blank => Agree(stage, log, birth)
  PROVE  Agree(IF x.stage # Blank THEN x.stage ELSE stage, Append(log, x), birth)
<1>. DEFINE new == Append(log, x)
            Bearing == {n \in DOMAIN log : n > birth.events /\ log[n].stage # Blank}
            BearingNew == {n \in DOMAIN new : n > birth.events /\ new[n].stage # Blank}
<1>1. /\ DOMAIN log = 1..Len(log) /\ Len(log) \in Nat
      /\ DOMAIN new = 1..(Len(log) + 1)
      /\ new[Len(log) + 1] = x
      /\ \A n \in DOMAIN log : new[n] = log[n]
  BY Appended
<1>. HIDE DEF new
<1>2. CASE x.stage = Blank
  <2>1. BearingNew = Bearing
    BY <1>1, <1>2
  <2>2. Agree(stage, log, birth)
    BY <1>2
  <2>3. CASE Bearing = {} /\ stage = birth.stage
    BY <1>2, <2>1, <2>3 DEF Agree, new
  <2>4. CASE \E n \in Bearing : (\A m \in Bearing : m <= n) /\ stage = log[n].stage
    <3>1. PICK n \in Bearing : (\A m \in Bearing : m <= n) /\ stage = log[n].stage
      BY <2>4
    <3>2. n \in BearingNew /\ (\A m \in BearingNew : m <= n) /\ stage = new[n].stage
      BY <1>1, <2>1, <3>1
    <3>. QED BY <1>2, <3>2 DEF Agree, new
  <2>. QED BY <2>2, <2>3, <2>4 DEF Agree
<1>3. CASE x.stage # Blank
  <2>1. Len(log) + 1 \in BearingNew
    BY <1>1, <1>3
  <2>2. \A m \in BearingNew : m <= Len(log) + 1
    BY <1>1
  <2>3. x.stage = new[Len(log) + 1].stage
    BY <1>1
  <2>. QED BY <1>3, <2>1, <2>2, <2>3 DEF Agree, new
<1>. QED BY <1>2, <1>3

\* A PATCH or an event that moves the stage says so on the timeline.
LEMMA AgreeStep ==
  ASSUME IInv, TimelineInv, TimelineAgreesWithRow, [Next]_vars
  PROVE  TimelineAgreesWithRow'
<1>. DEFINE A(i) == rows[i] # NoRow => Agree(rows[i].content.stage, events[i], births[i])
<1>0. TimelineAgreesWithRow <=> \A i \in Jobs : A(i)
  BY DEF TimelineAgreesWithRow, Agree
<1>1. ASSUME NEW k \in Keys, NEW b \in Bodies, NEW i \in Jobs, InsertJob(k, b, i)
      PROVE  \A j \in Jobs : A(j)'
  <2>1. Normalized(b) \in Content
    BY NormalizedType
  <2>2. /\ rows' = [rows EXCEPT ![i] = NewRow(k, Normalized(b))]
        /\ births' = [births EXCEPT ![i] = [stage |-> Normalized(b).stage, events |-> 0]]
        /\ events' = events /\ events[i] = <<>>
    BY <1>1 DEF InsertJob, TimelineInv, NoEventsWithoutJob
  <2>3. Agree(Normalized(b).stage, events'[i], births'[i])
    BY <2>2 DEF Agree, IInv, TypeOK
  <2>4. rows'[i].content.stage = Normalized(b).stage
    BY <2>2 DEF NewRow, IInv, TypeOK
  <2>5. \A j \in Jobs \ {i} : rows'[j] = rows[j] /\ births'[j] = births[j]
    BY <2>2 DEF IInv, TypeOK
  <2>. QED BY <1>0, <2>2, <2>3, <2>4, <2>5
<1>2. ASSUME NEW h \in Handlers, NEW t \in Times, NEW answered \in BOOLEAN,
             CommitPatch(h, t, answered)
      PROVE  \A j \in Jobs : A(j)'
  <2>. DEFINE i == pending[h].job
              x == StatusEvent(rows'[i].version, Update(h).stage, t)
  <2>1. /\ i \in Jobs
        /\ rows[i] \in Row
        /\ rows'[i] \in Row
        /\ rows' = [rows EXCEPT ![i] = rows'[i]]
        /\ rows'[i].content = Update(h)
    BY <1>2, CommitWrites
  <2>2. /\ events' = [events EXCEPT ![i] = events'[i]]
        /\ \/ Update(h).stage # rows[i].content.stage /\ events'[i] = Append(events[i], x)
           \/ Update(h).stage = rows[i].content.stage /\ events'[i] = events[i]
        /\ x \in Event
    BY <1>2, PatchEvents
  <2>3. births' = births
    BY <1>2 DEF CommitPatch
  <2>4. x.stage = Update(h).stage /\ x.stage # Blank
    <3>1. Update(h) \in Content
      BY <2>1 DEF Row
    <3>. QED BY <3>1, SentinelsAssumption DEF StatusEvent, Content
  <2>5. /\ rows[i] # NoRow /\ events[i] \in Seq(Event)
        /\ births[i].events \in Nat /\ births[i].events <= Len(events[i])
    BY <2>1, SentinelsAssumption DEF IInv, TypeOK, TimelineInv, BirthEventsStay
  <2>. HIDE DEF i, x
  <2>6. Agree(rows'[i].content.stage, events'[i], births[i])
    <3>1. CASE events'[i] = Append(events[i], x)
      BY <2>1, <2>2, <2>4, <2>5, <3>1, AgreeAppended
    <3>2. CASE rows'[i].content.stage = rows[i].content.stage /\ events'[i] = events[i]
      BY <1>0, <2>1, <2>5, <3>2
    <3>. QED BY <2>1, <2>2, <3>1, <3>2
  <2>7. \A j \in Jobs \ {i} : rows'[j] = rows[j] /\ events'[j] = events[j]
    BY <2>1, <2>2 DEF IInv, TypeOK
  <2>. QED BY <1>0, <2>3, <2>6, <2>7
<1>3. ASSUME NEW i \in Jobs, NEW k \in ClientKeys \cup SystemKeys,
             NEW e \in Posts, NEW t \in Times, AppendEvent(i, k, e, t)
      PROVE  \A j \in Jobs : A(j)'
  <2>. DEFINE x == Stored(k, e, t)
  <2>1. /\ rows[i] \in Row
        /\ rows' = [rows EXCEPT ![i] = rows'[i]]
        /\ rows'[i] = RowAfter(rows[i], x)
    BY <1>3, AppendWrites
  <2>2. /\ rows[i] # NoRow /\ births' = births
        /\ events' = [events EXCEPT ![i] = Append(events[i], x)]
    BY <1>3 DEF AppendEvent
  <2>3. x \in Event
    BY StoredType
  <2>. HIDE DEF x
  <2>4. events[i] \in Seq(Event) /\ events'[i] = Append(events[i], x)
    BY <2>2 DEF IInv, TypeOK
  <2>5. rows'[i].content.stage = IF x.stage # Blank THEN x.stage ELSE rows[i].content.stage
    BY <2>1, <2>3, RowAfterType
  <2>6. Agree(rows[i].content.stage, events[i], births[i])
    BY <1>0, <2>2
  <2>7. Agree(rows'[i].content.stage, events'[i], births[i])
    <3>1. births[i].events \in Nat /\ births[i].events <= Len(events[i])
      BY DEF IInv, TypeOK, TimelineInv, BirthEventsStay
    <3>. QED BY <2>3, <2>4, <2>5, <2>6, <3>1, AgreeAppended
  <2>8. \A j \in Jobs \ {i} : rows'[j] = rows[j] /\ events'[j] = events[j]
    BY <2>1, <2>2 DEF IInv, TypeOK
  <2>. QED BY <1>0, <2>2, <2>7, <2>8
<1>4. ASSUME UNCHANGED <<rows, events, births>>
      PROVE  \A j \in Jobs : A(j)'
  BY <1>0, <1>4
<1>5. \A j \in Jobs : A(j)'
  BY <1>1, <1>2, <1>3, <1>4
  DEF Next, Create, PatchJob, PostEvent, ReplayCreate, GetJob, SendPatch, ReadBase,
      RefusePatch, ReplayEvent, Restart, vars
<1>. QED BY <1>5 DEF TimelineAgreesWithRow, Agree

\* At first every timeline is the one its job came with.
LEMMA AgreeInit == ASSUME Init PROVE TimelineAgreesWithRow
<1>. PICK legacy \in [Jobs -> LegacyJobs \cup {NoRow}] :
        /\ rows = [i \in Jobs |-> IF legacy[i] = NoRow THEN NoRow ELSE legacy[i].row]
        /\ events = [i \in Jobs |-> IF legacy[i] = NoRow THEN <<>> ELSE legacy[i].log]
        /\ births = [i \in Jobs |->
                       IF legacy[i] = NoRow THEN [stage |-> Saved, events |-> 0]
                       ELSE [stage |-> legacy[i].row.content.stage,
                             events |-> Len(legacy[i].log)]]
  BY DEF Init
<1>. SUFFICES ASSUME NEW i \in Jobs, rows[i] # NoRow
              PROVE  /\ {n \in DOMAIN events[i] :
                            n > births[i].events /\ events[i][n].stage # Blank} = {}
                     /\ rows[i].content.stage = births[i].stage
  BY DEF TimelineAgreesWithRow
<1>1. legacy[i] \in LegacyJobs /\ rows[i] = legacy[i].row
  OBVIOUS
<1>2. /\ events[i] = legacy[i].log /\ births[i].events = Len(events[i])
      /\ births[i].stage = rows[i].content.stage
  OBVIOUS
<1>3. DOMAIN events[i] = 1..Len(events[i]) /\ Len(events[i]) \in Nat
  BY <1>1, <1>2, InputsAssumption
<1>. QED BY <1>2, <1>3

\* However PATCHes and events interleave, the stage of a job is the one its
\* newest stage-bearing event gives.
THEOREM TimelineAgrees == Spec => []TimelineAgreesWithRow
<1>1. Init => TimelineInv
  BY TimelineInit
<1>2. IInv /\ TimelineInv /\ [Next]_vars => TimelineInv'
  BY TimelineStep
<1>3. Init => TimelineAgreesWithRow
  BY AgreeInit
<1>4. IInv /\ TimelineInv /\ TimelineAgreesWithRow /\ [Next]_vars => TimelineAgreesWithRow'
  BY AgreeStep
<1>. QED BY <1>1, <1>2, <1>3, <1>4, Invariance, PTL DEF Spec

-----------------------------------------------------------------------------
(* Tracker implements AtomicTracker: a PATCH handler that reads, merges and *)
(* writes in separate steps behaves as one that does it in a single step.   *)

\* The board of AtomicTracker after a write to one row.
LEMMA BoardWrite ==
  ASSUME TypeOK, NEW i \in Jobs, rows' = [rows EXCEPT ![i] = rows'[i]], rows'[i] \in Row
  PROVE  Board' = [Board EXCEPT ![i] = [version |-> rows'[i].version,
                                        content |-> rows'[i].content]]
<1>1. rows'[i] # NoRow /\ \A j \in Jobs \ {i} : rows'[j] = rows[j]
  BY SentinelsAssumption DEF TypeOK
<1>. QED BY <1>1 DEF Board

\* The board depends on the rows only,
LEMMA BoardSame == ASSUME rows' = rows PROVE Board' = Board
BY DEF Board

\* and the abstract requests on the requests in flight only.
LEMMA RequestsSame == ASSUME pending' = pending PROVE Requests' = Requests
BY DEF Requests

\* The rule on the salary fields, and the merge onto the current row.
LEMMA SoundIsValid ==
  ASSUME NEW c \in Content PROVE Valid(c) <=> Atomic!Sound(c)
BY DEF Valid, Atomic!Sound

\* Merging into the current row is applying the patch to it.
LEMMA MergedIsApply ==
  ASSUME NEW c \in Content, NEW p \in Patch
  PROVE  Merged(c, p, c) = Atomic!Apply(c, p)
BY SentinelsAssumption DEF Merged, Atomic!Apply, Patch, Content

\* Both modules speak of the same fields.
LEMMA SameContent == Content = Atomic!Content
BY DEF Content, Salary, Atomic!Content, Atomic!Salary

\* POST /jobs is the abstract Insert.
LEMMA InsertRefines ==
  ASSUME IInv, NEW k \in Keys, NEW b \in Bodies, NEW i \in Jobs, InsertJob(k, b, i)
  PROVE  Atomic!Insert(i)
<1>. DEFINE n == Normalized(b)
<1>1. n \in Content
  BY NormalizedType
<1>2. Valid(n) /\ rows[i] = NoRow /\ rows' = [rows EXCEPT ![i] = NewRow(k, n)]
  BY DEF InsertJob
<1>3. rows'[i] = NewRow(k, n) /\ NewRow(k, n) \in Row
  BY <1>1, <1>2 DEF IInv, TypeOK, NewRow, Row
<1>4. Board' = [Board EXCEPT ![i] = [version |-> 1, content |-> n]]
  <2>1. rows' = [rows EXCEPT ![i] = rows'[i]] /\ rows'[i] \in Row
    BY <1>2, <1>3
  <2>2. rows'[i].version = 1 /\ rows'[i].content = n
    BY <1>3 DEF NewRow
  <2>. QED BY <2>1, <2>2, BoardWrite DEF IInv
<1>5. Board[i] = NoRow
  BY <1>2 DEF Board
<1>6. Requests' = Requests
  BY RequestsSame DEF InsertJob
<1>7. n \in Atomic!Content /\ Atomic!Sound(n)
  BY <1>1, <1>2, SameContent, SoundIsValid
<1>. HIDE DEF n
<1>. QED BY <1>4, <1>5, <1>6, <1>7 DEF Atomic!Insert

\* The arrival of a PATCH is the abstract Ask.
LEMMA SendRefines ==
  ASSUME IInv, NEW h \in Handlers, NEW c \in Clients, NEW p \in Patches,
         SendPatch(c, h, p)
  PROVE  Atomic!Ask(h)
<1>. DEFINE i == views[c].job
            v == views[c].row.version
            q == [client |-> c, job |-> i, ifMatch |-> v, patch |-> p, base |-> NotRead]
<1>1. views[c] \in Snapshot /\ Fresh(i, views[c].row)
  BY DEF SendPatch, IInv, TypeOK, VersionNamesContent
<1>2. i \in Jobs /\ rows[i] # NoRow /\ rows[i] \in Row /\ v \in 1..rows[i].version
  BY <1>1 DEF Snapshot, Fresh, IInv, TypeOK, Row
<1>3. pending[h] = Idle /\ pending' = [pending EXCEPT ![h] = q]
  BY DEF SendPatch
<1>4. q \in Request
  BY <1>1, InputsAssumption DEF Snapshot, Row, Request
<1>5. q # Idle
  BY <1>4, SentinelsAssumption
<1>6. q.job = i /\ q.ifMatch = v /\ q.patch = p
  OBVIOUS
<1>. HIDE DEF q
<1>7. Requests' = [Requests EXCEPT ![h] = [job |-> i, ifMatch |-> v, patch |-> p]]
  <2>1. pending'[h] = q /\ \A g \in Handlers \ {h} : pending'[g] = pending[g]
    BY <1>3 DEF IInv, TypeOK
  <2>. QED BY <1>5, <1>6, <2>1 DEF Requests
<1>8. Requests[h] = Idle
  BY <1>3 DEF Requests
<1>9. Board' = Board
  BY BoardSame DEF SendPatch
<1>10. Board[i] # NoRow /\ Board[i].version = rows[i].version
  BY <1>2, SentinelsAssumption DEF Board, Row
<1>. HIDE DEF i, v
<1>. QED BY <1>2, <1>7, <1>8, <1>9, <1>10 DEF Atomic!Ask

\* The commit of a PATCH is the abstract Patch: its base is the current row.
LEMMA CommitRefines ==
  ASSUME IInv, NEW h \in Handlers, NEW t \in Times, NEW answered \in BOOLEAN,
         CommitPatch(h, t, answered)
  PROVE  Atomic!Patch(h)
<1>. DEFINE i == pending[h].job
            v == pending[h].ifMatch
            p == pending[h].patch
            c == rows[i].content
<1>1. /\ i \in Jobs
      /\ rows[i] \in Row
      /\ rows'[i] \in Row
      /\ rows' = [rows EXCEPT ![i] = rows'[i]]
      /\ rows[i].version = v
      /\ rows'[i].version = rows[i].version + 1
      /\ rows'[i].content = Update(h)
  BY CommitWrites
<1>2. Ready(h) /\ Valid(Update(h)) /\ VersionMatches(rows[i], pending[h])
  BY DEF CommitPatch, Acceptable
<1>3. pending[h].base = rows[i]
  BY <1>2, CommitFindsItsBase
<1>4. p \in Patch /\ c \in Content
  BY <1>1, <1>2 DEF Ready, IInv, TypeOK, Request, Row
<1>5. Update(h) = Atomic!Apply(c, p)
  BY <1>3, <1>4, MergedIsApply DEF Update
<1>6. Atomic!Sound(Update(h))
  BY <1>1, <1>2, SoundIsValid DEF Row
<1>7. Board' = [Board EXCEPT ![i] = [version |-> v + 1, content |-> Atomic!Apply(c, p)]]
  <2>. HIDE DEF i, v, p, c
  <2>. QED BY <1>1, <1>5, BoardWrite DEF IInv
<1>8. Board[i].version = v /\ Board[i].content = c
  BY <1>1, SentinelsAssumption DEF Board
<1>9. pending[h] # Idle /\ pending' = [pending EXCEPT ![h] = Idle]
  BY <1>2 DEF CommitPatch, Ready
<1>10. /\ Requests[h] = [job |-> i, ifMatch |-> v, patch |-> p]
       /\ Requests[h] # Idle
  <2>1. pending[h] \in Request
    BY <1>9 DEF IInv, TypeOK
  <2>2. [job |-> i, ifMatch |-> v, patch |-> p] \in [job : Jobs, ifMatch : Nat, patch : Patch]
    BY <2>1 DEF Request
  <2>. QED BY <1>9, <2>2, SentinelsAssumption DEF Requests
<1>11. Requests' = [Requests EXCEPT ![h] = Idle]
  <2>1. pending'[h] = Idle /\ \A g \in Handlers \ {h} : pending'[g] = pending[g]
    BY <1>9 DEF IInv, TypeOK
  <2>. QED BY <2>1 DEF Requests
<1>12. /\ Requests[h].job = i
       /\ Requests[h].ifMatch = v
       /\ Requests[h].patch = p
  BY <1>10
<1>13. Atomic!Sound(Atomic!Apply(c, p))
  BY <1>5, <1>6
<1>. HIDE DEF i, v, p, c
<1>. QED BY <1>7, <1>8, <1>10, <1>11, <1>12, <1>13 DEF Atomic!Patch

\* POST /jobs/{id}/events is the abstract Record.
LEMMA AppendRefines ==
  ASSUME IInv, NEW i \in Jobs, NEW k \in ClientKeys \cup SystemKeys,
         NEW e \in Posts, NEW t \in Times, AppendEvent(i, k, e, t)
  PROVE  Atomic!Record(i)
<1>. DEFINE x == Stored(k, e, t)
            c == rows[i].content
            s == rows'[i].content.stage
<1>1. /\ rows[i] \in Row
      /\ rows'[i] \in Row
      /\ rows' = [rows EXCEPT ![i] = rows'[i]]
      /\ rows'[i] = RowAfter(rows[i], x)
      /\ rows'[i].version = rows[i].version + 1
  BY AppendWrites
<1>2. s \in Stages
  BY <1>1 DEF Row, Content
<1>3. rows'[i].content = [c EXCEPT !.stage = s]
  BY <1>1 DEF RowAfter, Row, Content
<1>4. Board[i] # NoRow /\ Board[i].version = rows[i].version /\ Board[i].content = c
  BY <1>1, SentinelsAssumption DEF Board, Row
<1>5. Board' = [Board EXCEPT ![i] = [version |-> rows[i].version + 1,
                                     content |-> [c EXCEPT !.stage = s]]]
  <2>1. Board' = [Board EXCEPT ![i] = [version |-> rows'[i].version,
                                       content |-> rows'[i].content]]
    BY <1>1, BoardWrite DEF IInv
  <2>. QED BY <1>1, <1>3, <2>1
<1>6. Requests' = Requests
  BY RequestsSame DEF AppendEvent
<1>. HIDE DEF s, c
<1>. QED BY <1>2, <1>4, <1>5, <1>6 DEF Atomic!Record

\* A refused PATCH and a restart forget requests and write nothing.
LEMMA ForgetRefines ==
  ASSUME IInv, rows' = rows,
         NEW lost \in SUBSET Handlers,
         pending' = [h \in Handlers |-> IF h \in lost THEN Idle ELSE pending[h]]
  PROVE  Atomic!Forget
<1>1. Requests' = [h \in Handlers |-> IF h \in lost THEN Idle ELSE Requests[h]]
  BY DEF Requests
<1>2. Board' = Board
  BY BoardSame
<1>. QED BY <1>1, <1>2 DEF Atomic!Forget

\* Every step of the tracker is a step of AtomicTracker or a stutter.
LEMMA StepRefines ==
  ASSUME IInv, [Next]_vars
  PROVE  [Atomic!Next]_(Atomic!vars)
<1>. USE DEF Atomic!Next, Atomic!vars
<1>1. ASSUME NEW k \in Keys, NEW b \in Bodies, NEW i \in Jobs, InsertJob(k, b, i)
      PROVE  Atomic!Next
  BY <1>1, InsertRefines
<1>2. ASSUME NEW h \in Handlers, NEW c \in Clients, NEW p \in Patches,
             SendPatch(c, h, p)
      PROVE  Atomic!Next
  BY <1>2, SendRefines
<1>3. ASSUME NEW h \in Handlers, ReadBase(h)
      PROVE  UNCHANGED Atomic!vars
  <2>1. Board' = Board
    BY <1>3, BoardSame DEF ReadBase
  <2>2. pending[h] \in Request /\ pending[h] # Idle
    BY <1>3 DEF ReadBase, IInv, TypeOK
  <2>3. RequestFresh(pending[h])
    BY <1>3, <2>2 DEF IInv, VersionNamesContent
  <2>4. rows[pending[h].job] \in Row
    BY <2>2, <2>3 DEF RequestFresh, Request, IInv, TypeOK
  <2>5. pending' = [pending EXCEPT ![h] = [pending[h] EXCEPT !.base = rows[pending[h].job]]]
    BY <1>3 DEF ReadBase
  <2>6. /\ pending'[h] \in Request
        /\ pending'[h].job = pending[h].job
        /\ pending'[h].ifMatch = pending[h].ifMatch
        /\ pending'[h].patch = pending[h].patch
        /\ \A g \in Handlers \ {h} : pending'[g] = pending[g]
    BY <2>2, <2>4, <2>5 DEF IInv, TypeOK, Request
  <2>7. pending'[h] # Idle
    BY <2>6, SentinelsAssumption
  <2>8. Requests' = Requests
    BY <2>2, <2>6, <2>7 DEF Requests
  <2>. QED BY <2>1, <2>8
<1>4. ASSUME NEW h \in Handlers, NEW t \in Times, NEW answered \in BOOLEAN,
             CommitPatch(h, t, answered)
      PROVE  Atomic!Next
  BY <1>4, CommitRefines
<1>5. ASSUME NEW h \in Handlers, RefusePatch(h)
      PROVE  Atomic!Next
  <2>1. rows' = rows /\ {h} \in SUBSET Handlers
    BY <1>5 DEF RefusePatch
  <2>2. pending' = [g \in Handlers |-> IF g \in {h} THEN Idle ELSE pending[g]]
    BY <1>5 DEF RefusePatch, IInv, TypeOK
  <2>. QED BY <2>1, <2>2, ForgetRefines
<1>6. ASSUME NEW i \in Jobs, NEW k \in ClientKeys \cup SystemKeys,
             NEW e \in Posts, NEW t \in Times, AppendEvent(i, k, e, t)
      PROVE  Atomic!Next
  BY <1>6, AppendRefines
<1>7. CASE Restart
  <2>1. rows' = rows /\ Handlers \in SUBSET Handlers
    BY <1>7 DEF Restart
  <2>2. pending' = [g \in Handlers |-> IF g \in Handlers THEN Idle ELSE pending[g]]
    BY <1>7 DEF Restart
  <2>. QED BY <2>1, <2>2, ForgetRefines
<1>8. ASSUME UNCHANGED <<rows, pending>>
      PROVE  UNCHANGED Atomic!vars
  BY <1>8, BoardSame, RequestsSame
<1>. QED
  BY <1>1, <1>2, <1>3, <1>4, <1>5, <1>6, <1>7, <1>8
  DEF Next, Create, PatchJob, PostEvent, ReplayCreate, GetJob, ReplayEvent, vars

\* The tracker starts where AtomicTracker may start.
LEMMA InitRefines == ASSUME Init PROVE Atomic!Init
<1>1. \A i \in Jobs : rows[i] # NoRow => rows[i].version = 1 /\ rows[i].content \in Content
  BY InputsAssumption DEF Init, Row
<1>2. \A i \in Jobs : Board[i] = NoRow \/ (Board[i].version = 1 /\ Board[i].content \in Content)
  <2>1. ASSUME NEW i \in Jobs, rows[i] = NoRow
        PROVE  Board[i] = NoRow
    BY <2>1 DEF Board
  <2>2. ASSUME NEW i \in Jobs, rows[i] # NoRow
        PROVE  Board[i].version = 1 /\ Board[i].content \in Content
    <3>1. Board[i] = [version |-> rows[i].version, content |-> rows[i].content]
      BY <2>2 DEF Board
    <3>. QED BY <1>1, <2>2, <3>1
  <2>. QED BY <2>1, <2>2
<1>3. Requests = [h \in Handlers |-> Idle]
  BY DEF Requests, Init
<1>. QED BY <1>2, <1>3, SameContent DEF Atomic!Init

\* Concurrent PATCHes, events, retries and restarts have the effect of a
\* sequence of indivisible writes, each applied to the job as it then is and
\* only under the version its request named.
THEOREM TrackerImplementsAtomic == Spec => ImplementsAtomicTracker
<1>1. Init => Atomic!Init
  BY InitRefines
<1>2. IInv /\ [Next]_vars => [Atomic!Next]_(Atomic!vars)
  BY StepRefines
<1>. QED BY <1>1, <1>2, Invariance, PTL DEF Spec, ImplementsAtomicTracker, Atomic!Spec

==============================================================================
