-------------------------------- MODULE Scorer --------------------------------
(***************************************************************************)
(* The background scorer between ingest and the legacy board.              *)
(*                                                                         *)
(* An ingest adds leads in one transaction and then hands their row ids to *)
(* a bounded queue that drops what does not fit.  Workers take an id, read *)
(* its lead, evaluate it for seconds, once more after a failure, and write *)
(* the verdict under the id.  Meanwhile leads are pushed again, deleted,   *)
(* and their ids given out anew; a restart empties queue and workers.      *)
(***************************************************************************)
EXTENDS Naturals, Sequences, SequencesExt

CONSTANTS
  MaxId,      \* bound on the row ids
  Deletable,  \* the ids that may be deleted
  Leads,      \* the leads that are pushed, each of them new at most once
  Seekers,    \* the leads whose profile has a scorecard
  QueueSize,  \* capacity of the queue
  Workers,    \* Concurrency
  MaxStarts,  \* bound on restarts
  NoRow, Idle

ASSUME ScorerAssumption ==
  /\ MaxId \in Nat /\ Deletable \subseteq 1..MaxId /\ Seekers \subseteq Leads
  /\ QueueSize \in Nat \ {0} /\ Workers # {} /\ MaxStarts \in Nat
  /\ NoRow \notin [lead : Leads, posting : BOOLEAN, workable : {"", "yes", "blocked", "unknown"}]
  /\ Idle \notin [id : Nat, lead : Leads, posting : BOOLEAN, again : BOOLEAN]

Ids == 1..MaxId
Verdicts == {"yes", "blocked", "unknown"}

VARIABLES
  rows,     \* id -> the lead, whether its posting is resolved, its verdict
  added,    \* ids an ingest committed and has not handed to the queue yet
  queue,
  workers,  \* what each worker evaluates: the lead as it read it
  starts,
  pushed,   \* history: the leads that were added
  writes,   \* history: how many verdicts each lead received (at most 2)
  spared    \* history: the leads that need not be scored, for a stated reason

vars == <<rows, added, queue, workers, starts, pushed, writes, spared>>

Row == [lead : Leads, posting : BOOLEAN, workable : Verdicts \cup {""}]
Work == [id : Ids, lead : Leads, posting : BOOLEAN, again : BOOLEAN]

TypeOK ==
  /\ rows \in [Ids -> Row \cup {NoRow}]
  /\ added \in Seq(Ids)
  /\ queue \in Seq(Ids) /\ Len(queue) <= QueueSize
  /\ workers \in [Workers -> Work \cup {Idle}]
  /\ starts \in 0..MaxStarts
  /\ pushed \subseteq Leads /\ spared \subseteq Leads
  /\ writes \in [Leads -> 0..2]

Init ==
  /\ rows = [i \in Ids |-> NoRow]
  /\ added = <<>> /\ queue = <<>>
  /\ workers = [w \in Workers |-> Idle]
  /\ starts = 0
  /\ pushed = {} /\ spared = {} /\ writes = [l \in Leads |-> 0]

-----------------------------------------------------------------------------

Used == {i \in Ids : rows[i] # NoRow}
NextId == IF Used = {} THEN 1 ELSE 1 + CHOOSE i \in Used : \A j \in Used : j <= i

\* handleJobsIngest, its transaction: the new row joins AddedIDs.
UpsertJobs(l, posting) ==
  /\ l \notin pushed /\ NextId <= MaxId
  /\ rows' = [rows EXCEPT ![NextId] = [lead |-> l, posting |-> posting, workable |-> ""]]
  /\ added' = Append(added, NextId)
  /\ pushed' = pushed \cup {l}
  /\ UNCHANGED <<queue, workers, starts, writes, spared>>

\* A push that resolves the posting of a stored lead; the verdict stays.
PushAgain(i) ==
  /\ i \in Used /\ ~rows[i].posting
  /\ rows' = [rows EXCEPT ![i].posting = TRUE]
  /\ UNCHANGED <<added, queue, workers, starts, pushed, writes, spared>>

Fits == Len(queue) < QueueSize
EnqueuedAlways(i) == Append(queue, i)
EnqueuedDroppingOldest(i) == Append(IF Fits THEN queue ELSE Tail(queue), i)
Enqueued(i) == IF Fits THEN Append(queue, i) ELSE queue

\* The lead a row holds, as a set.
At(i) == IF rows[i] = NoRow THEN {} ELSE {rows[i].lead}

Enqueue ==
  /\ added # <<>>
  /\ queue' = Enqueued(Head(added))
  /\ added' = Tail(added)
  /\ spared' = IF Fits THEN spared ELSE spared \cup At(Head(added))
  /\ UNCHANGED <<rows, workers, starts, pushed, writes>>

DeleteJob(i) ==
  /\ i \in Used \cap Deletable
  /\ rows' = [rows EXCEPT ![i] = NoRow]
  /\ spared' = spared \cup At(i)
  /\ UNCHANGED <<added, queue, workers, starts, pushed, writes>>

-----------------------------------------------------------------------------
(* The workers.                                                            *)

\* scoreOne returns early: no such lead, scored already, no scorecard.
Scoreable(i) == i \in Used /\ rows[i].workable = "" /\ rows[i].lead \in Seekers

Take(w) ==
  /\ workers[w] = Idle /\ queue # <<>>
  /\ LET i == Head(queue) IN
     /\ workers' = [workers EXCEPT ![w] =
          IF Scoreable(i)
          THEN [id |-> i, lead |-> rows[i].lead, posting |-> rows[i].posting, again |-> FALSE]
          ELSE Idle]
     /\ spared' = IF Scoreable(i) THEN spared ELSE spared \cup (At(i) \ Seekers)
  /\ queue' = Tail(queue)
  /\ UNCHANGED <<rows, added, starts, pushed, writes>>

Busy(w) == workers[w] # Idle

\* compute: a lead without a resolved posting is never workable.
AnyVerdict(posting) == Verdicts
VerdictsOn(posting) == IF posting THEN Verdicts ELSE Verdicts \ {"yes"}

\* SetJobFit writes under the id; a lead that is gone is an error in the log.
SetJobFit(w, v) ==
  /\ Busy(w) /\ v \in VerdictsOn(workers[w].posting)
  /\ LET i == workers[w].id IN
     IF i \in Used
     THEN /\ rows' = [rows EXCEPT ![i].workable = v]
          /\ writes' = [writes EXCEPT ![rows[i].lead] = IF @ = 2 THEN 2 ELSE @ + 1]
     ELSE UNCHANGED <<rows, writes>>
  /\ workers' = [workers EXCEPT ![w] = Idle]
  /\ UNCHANGED <<added, queue, starts, pushed, spared>>

\* evaluateWithRetry: one more chance after a failure, then the lead is left.
Retried(work) == ~work.again

Fail(w) ==
  /\ Busy(w)
  /\ IF Retried(workers[w])
     THEN /\ workers' = [workers EXCEPT ![w].again = TRUE]
          /\ UNCHANGED spared
     ELSE /\ workers' = [workers EXCEPT ![w] = Idle]
          /\ spared' = spared \cup {workers[w].lead}
  /\ UNCHANGED <<rows, added, queue, starts, pushed, writes>>

Restart ==
  /\ starts < MaxStarts
  /\ starts' = starts + 1
  /\ added' = <<>> /\ queue' = <<>>
  /\ workers' = [w \in Workers |-> Idle]
  /\ spared' = spared \cup pushed
  /\ UNCHANGED <<rows, pushed, writes>>

Ends(w) == Fail(w) \/ \E v \in Verdicts : SetJobFit(w, v)

Next ==
  \/ \E l \in Leads, posting \in BOOLEAN : UpsertJobs(l, posting)
  \/ \E i \in Ids : PushAgain(i) \/ DeleteJob(i)
  \/ Enqueue
  \/ \E w \in Workers : Take(w) \/ Ends(w)
  \/ Restart

Spec == Init /\ [][Next]_vars

\* The handler and the workers keep running, and an evaluation ends: the client
\* gives up after 30 seconds.  Nothing else has to happen.
FairSpec ==
  /\ Spec
  /\ WF_vars(Enqueue)
  /\ \A w \in Workers : WF_vars(Take(w)) /\ WF_vars(Ends(w))

-----------------------------------------------------------------------------

\* scorecard.go:26: "a lead with no resolved posting can never be `workable:
\* yes`", though postings are resolved, and leads taken twice, while they are
\* being judged.  Stated for the ids that are never given out again.
YesIsResolved ==
  \A i \in Used \ Deletable : rows[i].workable = "yes" => rows[i].posting

\* Every lead that was added is scored in the end, unless its profile has no
\* scorecard, two evaluations failed, the queue was full, or it was deleted or
\* the process restarted before.
AddedIsScored == \A l \in Leads : l \in pushed ~> writes[l] > 0 \/ l \in spared
==============================================================================
