---------------------------- MODULE ScoringProofs ----------------------------
(***************************************************************************)
(* Verdicts of the background scorer, for any number of ids, leads and     *)
(* workers, a queue of any size and any number of restarts; and the card   *)
(* that a verdict is read from, for any answers.                           *)
(*                                                                         *)
(* A worker writes its verdict under an id, on what it read of the row     *)
(* under that id a while ago.  Where ids are not given out again the row   *)
(* is still the same lead, and a posting that was resolved stays so.       *)
(*                                                                         *)
(* The card adds up axes whose weights are ten together, and leaves the    *)
(* gates only when each was judged; what blocks it was a sure knockout.    *)
(***************************************************************************)
EXTENDS Scoring, RowIds

\* What a worker read of a row is still true of it.
WorkIsCurrent ==
  \A w \in Workers : (workers[w] # Idle /\ workers[w].id \notin Deletable) =>
    LET i == workers[w].id
    IN  /\ rows[i] # NoRow /\ rows[i].lead = workers[w].lead
        /\ workers[w].posting => rows[i].posting

ScorerInv == TypeOK /\ YesIsResolved /\ WorkIsCurrent

-----------------------------------------------------------------------------

\* Ids are numbers, and the bounds are too.
LEMMA ScorerBounds == QueueSize \in Nat \ {0} /\ MaxStarts \in Nat /\ Ids \subseteq Nat
<1>1. QueueSize \in Nat \ {0} /\ MaxStarts \in Nat /\ MaxId \in Nat
  BY ScorerAssumption
<1> QED
  BY <1>1 DEF Ids

\* The values that stand for no row and for no work are none.
LEMMA ScorerSentinels == NoRow \notin Row /\ Idle \notin Work
<1>1. Row \subseteq [lead : Leads, posting : BOOLEAN, workable : {"", "yes", "blocked", "unknown"}]
  BY DEF Row, Verdicts
<1>2. Work \subseteq [id : Nat, lead : Leads, posting : BOOLEAN, again : BOOLEAN]
  BY ScorerBounds DEF Work
<1>3. NoRow \notin Row
  BY <1>1, ScorerAssumption
<1>4. Idle \notin Work
  BY <1>2, ScorerAssumption
<1> QED
  BY <1>3, <1>4

\* The parts of TypeOK, for the leaves that need few of them.
LEMMA ScorerTypes ==
  ASSUME TypeOK
  PROVE  /\ rows \in [Ids -> Row \cup {NoRow}]
         /\ added \in Seq(Ids) /\ queue \in Seq(Ids) /\ Len(queue) <= QueueSize
         /\ workers \in [Workers -> Work \cup {Idle}]
         /\ \A i \in Ids : rows[i] # NoRow => rows[i] \in Row
         /\ \A w \in Workers : workers[w] # Idle => workers[w] \in Work
         /\ \A i \in Ids : At(i) \subseteq Leads
<1>1. rows \in [Ids -> Row \cup {NoRow}] /\ workers \in [Workers -> Work \cup {Idle}]
  BY DEF TypeOK
<1>2. \A i \in Ids : At(i) \subseteq Leads
  BY <1>1 DEF At, Row
<1>3. added \in Seq(Ids) /\ queue \in Seq(Ids) /\ Len(queue) <= QueueSize
  BY DEF TypeOK
<1>4. \A i \in Ids : rows[i] # NoRow => rows[i] \in Row
  BY <1>1
<1>5. \A w \in Workers : workers[w] # Idle => workers[w] \in Work
  BY <1>1
<1> QED
  BY <1>1, <1>2, <1>3, <1>4, <1>5

\* An empty board is judged soundly.
LEMMA ScorerInit == Init => ScorerInv
<1> SUFFICES ASSUME Init PROVE ScorerInv
  OBVIOUS
<1>1. /\ added \in Seq(Ids) /\ queue \in Seq(Ids) /\ Len(queue) <= QueueSize
      /\ starts \in 0..MaxStarts
  BY ScorerBounds DEF Init
<1>2. TypeOK
  BY <1>1 DEF Init, TypeOK
<1>3. YesIsResolved /\ WorkIsCurrent
  BY DEF Init, YesIsResolved, WorkIsCurrent, Used
<1> QED
  BY <1>2, <1>3 DEF ScorerInv

\* What a step has to keep of the rows, when it changes no worker's reading: a
\* row whose id is not given out again stays, with its lead and its posting.
RowsLast ==
  \A i \in Used \ Deletable :
    /\ rows'[i] # NoRow /\ rows'[i].lead = rows[i].lead
    /\ rows[i].posting => rows'[i].posting

\* What a worker read stays true as long as the rows last.
LEMMA CurrentStays ==
  ASSUME ScorerInv, RowsLast,
         \A w \in Workers : workers'[w] # Idle =>
           /\ workers[w] # Idle /\ workers'[w].id = workers[w].id
           /\ workers'[w].lead = workers[w].lead /\ workers'[w].posting = workers[w].posting
  PROVE  WorkIsCurrent'
<1> SUFFICES ASSUME NEW w \in Workers, workers'[w] # Idle, workers'[w].id \notin Deletable
             PROVE  LET i == workers'[w].id
                    IN  /\ rows'[i] # NoRow /\ rows'[i].lead = workers'[w].lead
                        /\ workers'[w].posting => rows'[i].posting
  BY DEF WorkIsCurrent
<1> DEFINE i == workers[w].id
<1>1. /\ rows[i] # NoRow /\ rows[i].lead = workers[w].lead
      /\ workers[w].posting => rows[i].posting
  BY DEF ScorerInv, WorkIsCurrent
<1>2. i \in Used \ Deletable
  BY <1>1, ScorerTypes DEF ScorerInv, Used, Work
<1> HIDE DEF i
<1>3. rows'[i] # NoRow /\ rows'[i].lead = rows[i].lead /\ (rows[i].posting => rows'[i].posting)
  BY <1>2 DEF RowsLast
<1> QED
  BY <1>1, <1>3 DEF i

-----------------------------------------------------------------------------

\* A new lead takes the place of no row and has no verdict.
LEMMA UpsertJobsKeeps ==
  ASSUME ScorerInv, NEW l \in Leads, NEW posting \in BOOLEAN, UpsertJobs(l, posting)
  PROVE  ScorerInv'
<1> DEFINE new == NextId
           row == [lead |-> l, posting |-> posting, workable |-> ""]
<1>1. new \in Ids /\ new \notin Used
  <2> DEFINE S == Used
  <2>1. new = NewId(S)
    BY DEF NextId, NewId
  <2>2. S \subseteq 1..MaxId /\ MaxId \in Nat /\ new <= MaxId
    BY ScorerAssumption DEF Used, Ids, UpsertJobs
  <2> HIDE DEF S, new
  <2>3. new \in Nat \ {0} /\ new \notin S
    BY <2>1, <2>2, NewIdIsFree
  <2> QED
    BY <2>2, <2>3 DEF Ids, S
<1>2. /\ rows' = [rows EXCEPT ![new] = row] /\ added' = Append(added, new)
      /\ pushed' = pushed \cup {l} /\ UNCHANGED <<queue, workers, starts, writes, spared>>
  BY DEF UpsertJobs
<1>3. row \in Row /\ row.workable # "yes"
  BY DEF Row
<1> HIDE DEF new, row
<1>4. rows \in [Ids -> Row \cup {NoRow}] /\ added \in Seq(Ids)
  BY DEF ScorerInv, TypeOK
<1>5. TypeOK'
  <2>1. rows' \in [Ids -> Row \cup {NoRow}] /\ added' \in Seq(Ids) /\ pushed' \subseteq Leads
    BY <1>1, <1>2, <1>3, <1>4 DEF ScorerInv, TypeOK
  <2> QED
    BY <1>2, <2>1 DEF ScorerInv, TypeOK
<1>6. rows'[new] = row /\ \A i \in Ids : i # new => rows'[i] = rows[i]
  BY <1>1, <1>2, <1>4
<1>7. YesIsResolved'
  BY <1>3, <1>6 DEF ScorerInv, YesIsResolved, Used
<1>8. RowsLast
  BY <1>1, <1>6 DEF RowsLast, Used
<1>9. WorkIsCurrent'
  BY <1>2, <1>8, CurrentStays
<1> QED
  BY <1>5, <1>7, <1>9 DEF ScorerInv

\* A later push only resolves the posting.
LEMMA PushAgainKeeps == ASSUME ScorerInv, NEW k \in Ids, PushAgain(k) PROVE ScorerInv'
<1> DEFINE row == [rows[k] EXCEPT !.posting = TRUE]
<1>1. /\ rows[k] # NoRow /\ rows[k] \in Row /\ rows' = [rows EXCEPT ![k] = row]
      /\ rows \in [Ids -> Row \cup {NoRow}]
      /\ UNCHANGED <<added, queue, workers, starts, pushed, writes, spared>>
  BY ScorerTypes DEF PushAgain, Used, ScorerInv
<1>2. row \in Row /\ row.posting /\ row.lead = rows[k].lead
  BY <1>1 DEF Row
<1> HIDE DEF row
<1>3. rows'[k] = row /\ \A i \in Ids : i # k => rows'[i] = rows[i]
  BY <1>1
<1>4. TypeOK'
  BY <1>1, <1>2 DEF ScorerInv, TypeOK
<1>5. YesIsResolved'
  BY <1>2, <1>3 DEF ScorerInv, YesIsResolved, Used
<1>6. RowsLast
  BY <1>2, <1>3, ScorerSentinels DEF RowsLast, Used
<1> QED
  BY <1>1, <1>4, <1>5, <1>6, CurrentStays DEF ScorerInv

\* A row goes only when its id may be given out again.
LEMMA DeleteJobKeeps == ASSUME ScorerInv, NEW k \in Ids, DeleteJob(k) PROVE ScorerInv'
<1>1. /\ k \in Deletable /\ rows' = [rows EXCEPT ![k] = NoRow]
      /\ rows \in [Ids -> Row \cup {NoRow}] /\ spared' = spared \cup At(k)
      /\ UNCHANGED <<added, queue, workers, starts, pushed, writes>>
  BY DEF DeleteJob, ScorerInv, TypeOK
<1>2. At(k) \subseteq Leads
  BY ScorerTypes DEF ScorerInv
<1>3. rows'[k] = NoRow /\ \A i \in Ids : i # k => rows'[i] = rows[i]
  BY <1>1
<1>4. TypeOK'
  BY <1>1, <1>2 DEF ScorerInv, TypeOK
<1>5. YesIsResolved'
  BY <1>3 DEF ScorerInv, YesIsResolved, Used
<1>6. RowsLast
  BY <1>1, <1>3 DEF RowsLast, Used
<1> QED
  BY <1>1, <1>4, <1>5, <1>6, CurrentStays DEF ScorerInv

\* A step of the queue reads and writes no row.
LEMMA EnqueueKeeps == ASSUME ScorerInv, Enqueue PROVE ScorerInv'
<1>1. /\ added \in Seq(Ids) /\ added # <<>> /\ queue \in Seq(Ids) /\ Len(queue) <= QueueSize
      /\ QueueSize \in Nat
  BY ScorerBounds DEF Enqueue, ScorerInv, TypeOK
<1>2. Head(added) \in Ids /\ Tail(added) \in Seq(Ids)
  BY <1>1
<1>3. Enqueued(Head(added)) \in Seq(Ids) /\ Len(Enqueued(Head(added))) <= QueueSize
  BY <1>1, <1>2 DEF Enqueued, Fits
<1>4. spared' \subseteq Leads
  BY <1>2, ScorerTypes DEF Enqueue, ScorerInv, TypeOK
<1>5. TypeOK'
  BY <1>2, <1>3, <1>4 DEF Enqueue, ScorerInv, TypeOK
<1> QED
  BY <1>5 DEF Enqueue, ScorerInv, YesIsResolved, WorkIsCurrent, Used

\* What a worker has just read is true of the row.
LEMMA TakeKeeps == ASSUME ScorerInv, NEW w \in Workers, Take(w) PROVE ScorerInv'
<1> DEFINE i == Head(queue)
           work == IF Scoreable(i)
                   THEN [id |-> i, lead |-> rows[i].lead, posting |-> rows[i].posting, again |-> FALSE]
                   ELSE Idle
<1>1. /\ queue # <<>> /\ queue \in Seq(Ids) /\ Len(queue) <= QueueSize /\ QueueSize \in Nat
      /\ workers \in [Workers -> Work \cup {Idle}]
  BY ScorerBounds DEF Take, ScorerInv, TypeOK
<1>2. i \in Ids /\ Tail(queue) \in Seq(Ids) /\ Len(Tail(queue)) <= QueueSize
  BY <1>1
<1>3. /\ workers' = [workers EXCEPT ![w] = work] /\ queue' = Tail(queue)
      /\ spared' = (IF Scoreable(i) THEN spared ELSE spared \cup (At(i) \ Seekers))
      /\ UNCHANGED <<rows, added, starts, pushed, writes>>
  BY DEF Take
<1>4. /\ work \in Work \cup {Idle}
      /\ work # Idle => /\ rows[work.id] # NoRow /\ work.lead = rows[work.id].lead
                        /\ work.posting = rows[work.id].posting
  <2>1. CASE Scoreable(i)
    <3>1. i \in Used /\ rows[i] \in Row
      BY <1>2, <2>1, ScorerTypes DEF Scoreable, ScorerInv, Used
    <3> QED
      BY <1>2, <2>1, <3>1 DEF Work, Row, Used
  <2>2. CASE ~Scoreable(i)
    BY <2>2
  <2> QED
    BY <2>1, <2>2
<1>5. At(i) \subseteq Leads
  BY <1>2, ScorerTypes DEF ScorerInv
<1> HIDE DEF work, i
<1>6. TypeOK'
  BY <1>1, <1>2, <1>3, <1>4, <1>5 DEF ScorerInv, TypeOK, i
<1>7. workers'[w] = work /\ \A v \in Workers : v # w => workers'[v] = workers[v]
  BY <1>1, <1>3
<1>8. WorkIsCurrent'
  BY <1>3, <1>4, <1>7 DEF ScorerInv, WorkIsCurrent
<1> QED
  BY <1>3, <1>6, <1>8 DEF ScorerInv, YesIsResolved, Used

\* A verdict is written on what was read, and what was read is still true.
LEMMA SetJobFitKeeps ==
  ASSUME ScorerInv, NEW w \in Workers, NEW v \in Verdicts, SetJobFit(w, v)
  PROVE  ScorerInv'
<1> DEFINE k == workers[w].id
           row == [rows[k] EXCEPT !.workable = v]
<1>1. /\ workers[w] # Idle /\ workers[w] \in Work /\ k \in Ids
      /\ workers \in [Workers -> Work \cup {Idle}] /\ rows \in [Ids -> Row \cup {NoRow}]
  BY ScorerTypes DEF SetJobFit, Busy, ScorerInv, Work
<1>2. workers' = [workers EXCEPT ![w] = Idle] /\ UNCHANGED <<added, queue, starts, pushed, spared>>
  BY DEF SetJobFit
<1>3. \A u \in Workers : workers'[u] # Idle => workers'[u] = workers[u]
  BY <1>1, <1>2
<1>4. v = "yes" => workers[w].posting
  BY DEF SetJobFit, VerdictsOn
<1>5. CASE k \in Used
  <2>1. /\ rows' = [rows EXCEPT ![k] = row] /\ rows[k] \in Row
        /\ writes' = [writes EXCEPT ![rows[k].lead] = IF @ = 2 THEN 2 ELSE @ + 1]
    BY <1>5, ScorerTypes DEF SetJobFit, ScorerInv, Used
  <2>2. /\ row \in Row /\ row.workable = v
        /\ row.posting = rows[k].posting /\ row.lead = rows[k].lead
    BY <2>1 DEF Row
  <2>3. k \notin Deletable => (workers[w].posting => rows[k].posting)
    BY <1>1 DEF ScorerInv, WorkIsCurrent
  <2> HIDE DEF row, k
  <2>4. rows'[k] = row /\ \A i \in Ids : i # k => rows'[i] = rows[i]
    BY <1>1, <2>1
  <2>5. writes' \in [Leads -> 0..2]
    <3> DEFINE l == rows[k].lead
    <3>1. l \in Leads /\ writes \in [Leads -> 0..2]
      BY <2>1 DEF ScorerInv, TypeOK, Row
    <3>2. writes' = [writes EXCEPT ![l] = IF @ = 2 THEN 2 ELSE @ + 1]
      BY <2>1
    <3> HIDE DEF l
    <3> QED
      BY <3>1, <3>2
  <2>6. rows' \in [Ids -> Row \cup {NoRow}] /\ workers' \in [Workers -> Work \cup {Idle}]
    BY <1>1, <1>2, <2>1, <2>2
  <2>7. TypeOK'
    BY <1>2, <2>5, <2>6 DEF ScorerInv, TypeOK
  <2>8. YesIsResolved'
    BY <1>4, <2>2, <2>3, <2>4 DEF ScorerInv, YesIsResolved, Used
  <2>9. RowsLast
    BY <2>2, <2>4, ScorerSentinels DEF RowsLast, Used
  <2> QED
    BY <1>3, <2>7, <2>8, <2>9, CurrentStays DEF ScorerInv
<1>6. CASE k \notin Used
  <2>1. UNCHANGED <<rows, writes>>
    BY <1>6 DEF SetJobFit
  <2>2. TypeOK'
    BY <1>1, <1>2, <2>1 DEF ScorerInv, TypeOK
  <2>3. YesIsResolved' /\ RowsLast
    BY <2>1 DEF ScorerInv, YesIsResolved, RowsLast, Used
  <2> QED
    BY <1>3, <2>2, <2>3, CurrentStays DEF ScorerInv
<1> QED
  BY <1>5, <1>6

\* A failed evaluation is tried again on the same reading, or ends.
LEMMA FailKeeps == ASSUME ScorerInv, NEW w \in Workers, Fail(w) PROVE ScorerInv'
<1>1. /\ workers[w] \in Work /\ workers \in [Workers -> Work \cup {Idle}]
      /\ UNCHANGED <<rows, added, queue, starts, pushed, writes>>
  BY ScorerTypes DEF Fail, Busy, ScorerInv
<1>2. YesIsResolved' /\ RowsLast
  BY <1>1 DEF ScorerInv, YesIsResolved, RowsLast, Used
<1>3. CASE Retried(workers[w])
  <2> DEFINE work == [workers[w] EXCEPT !.again = TRUE]
  <2>1. workers' = [workers EXCEPT ![w] = work] /\ spared' = spared
    BY <1>3 DEF Fail
  <2>2. /\ work \in Work /\ work.id = workers[w].id
        /\ work.lead = workers[w].lead /\ work.posting = workers[w].posting
    BY <1>1 DEF Work
  <2> HIDE DEF work
  <2>3. TypeOK'
    BY <1>1, <2>1, <2>2 DEF ScorerInv, TypeOK
  <2>4. workers'[w] = work /\ \A u \in Workers : u # w => workers'[u] = workers[u]
    BY <1>1, <2>1
  <2>5. workers[w] # Idle
    BY DEF Fail, Busy
  <2> QED
    BY <1>2, <2>2, <2>3, <2>4, <2>5, CurrentStays DEF ScorerInv
<1>4. CASE ~Retried(workers[w])
  <2>1. workers' = [workers EXCEPT ![w] = Idle] /\ spared' = spared \cup {workers[w].lead}
    BY <1>4 DEF Fail
  <2>2. TypeOK'
    BY <1>1, <2>1 DEF ScorerInv, TypeOK, Work
  <2>3. \A u \in Workers : workers'[u] # Idle => workers'[u] = workers[u]
    BY <1>1, <2>1
  <2> QED
    BY <1>2, <2>2, <2>3, CurrentStays DEF ScorerInv
<1> QED
  BY <1>3, <1>4

\* A restart forgets what was read, and keeps the rows.
LEMMA RestartKeeps == ASSUME ScorerInv, Restart PROVE ScorerInv'
<1>1. starts' \in 0..MaxStarts /\ spared' \subseteq Leads
  BY ScorerBounds DEF Restart, ScorerInv, TypeOK
<1>2. workers' \in [Workers -> Work \cup {Idle}]
  BY DEF Restart
<1>3. added' \in Seq(Ids) /\ queue' \in Seq(Ids) /\ Len(queue') <= QueueSize
  BY ScorerBounds DEF Restart
<1>4. TypeOK'
  BY <1>1, <1>2, <1>3 DEF Restart, ScorerInv, TypeOK
<1> QED
  BY <1>4 DEF Restart, ScorerInv, YesIsResolved, WorkIsCurrent, Used

\* No step judges a lead wrongly.
LEMMA ScorerNextKeeps == ASSUME ScorerInv, [Next]_vars PROVE ScorerInv'
<1>1. CASE \E l \in Leads, posting \in BOOLEAN : UpsertJobs(l, posting)
  BY <1>1, UpsertJobsKeeps
<1>2. CASE \E i \in Ids : PushAgain(i) \/ DeleteJob(i)
  BY <1>2, PushAgainKeeps, DeleteJobKeeps
<1>3. CASE Enqueue
  BY <1>3, EnqueueKeeps
<1>4. CASE \E w \in Workers : Take(w) \/ Ends(w)
  BY <1>4, TakeKeeps, SetJobFitKeeps, FailKeeps DEF Ends
<1>5. CASE Restart
  BY <1>5, RestartKeeps
<1>6. CASE UNCHANGED vars
  BY <1>6 DEF ScorerInv, TypeOK, YesIsResolved, WorkIsCurrent, Used, vars
<1> QED
  BY <1>1, <1>2, <1>3, <1>4, <1>5, <1>6 DEF Next

-----------------------------------------------------------------------------

-----------------------------------------------------------------------------
(* The scorecard.                                                          *)

Gated == {"is_it_a_job", "pay_model", "location_rule", "apply_route"}

\* Every gate in the order has a name, every axis as well.
LEMMA Orders ==
  /\ Len(Card!GateOrder) = 4 /\ DOMAIN Card!GateOrder = 1..4
  /\ \A i \in 1..4 : Card!GateOrder[i] \in Gated
  /\ DOMAIN Card!AxisOrder = 1..5
BY DEF Card!GateOrder, Card!AxisOrder, Gated

\* The options of a gate are told apart.
LEMMA OptionsDiffer ==
  ASSUME NEW gate \in Gated
  PROVE  /\ Card!Gates[gate].blocking \cap Card!Gates[gate].unknown = {}
         /\ Card!Gates[gate].blocking \cap Card!Gates[gate].pass = {}
         /\ Card!Gates[gate].unknown \cap Card!Gates[gate].pass = {}
         /\ "" \notin Card!Gates[gate].blocking \cup Card!Gates[gate].pass
<1>1. CASE gate = "is_it_a_job"
  BY <1>1 DEF Card!Gates
<1>2. CASE gate = "pay_model"
  BY <1>2 DEF Card!Gates
<1>3. CASE gate = "location_rule"
  BY <1>3 DEF Card!Gates
<1>4. CASE gate = "apply_route"
  BY <1>4 DEF Card!Gates
<1> QED
  BY <1>1, <1>2, <1>3, <1>4 DEF Gated

\* A sure answer of the options that block is a knockout, one of those that pass
\* is a pass, and every other answer is unknown.
LEMMA JudgedIs ==
  ASSUME NEW gate \in Gated, NEW a \in Card!GateAnswers(gate)
  PROVE  /\ Card!Judged(gate, a) \in {"blocked", "unknown", "pass"}
         /\ Card!Judged(gate, a) = "blocked" <=> a.sure /\ a.choice \in Card!Gates[gate].blocking
         /\ Card!Judged(gate, a) = "pass" <=> a.sure /\ a.choice \in Card!Gates[gate].pass
<1> DEFINE B == Card!Gates[gate].blocking
           U == Card!Gates[gate].unknown
           P == Card!Gates[gate].pass
<1>1. /\ \A x \in B : x \notin U /\ x \notin P
      /\ \A x \in P : x \notin B /\ x \notin U
  BY OptionsDiffer
<1>2. ~a.sure \/ a.choice \in B \cup U \cup P
  <2>1. CASE a = Card!NoAnswer
    BY <2>1 DEF Card!NoAnswer
  <2>2. CASE a \in [choice : B \cup U \cup P, sure : BOOLEAN]
    BY <2>2
  <2> QED
    BY <2>1, <2>2 DEF Card!GateAnswers
<1>3. Card!Judged(gate, a) =
        IF a.choice \in B /\ a.sure THEN "blocked"
        ELSE IF a.choice \in B \cup U \/ ~a.sure THEN "unknown" ELSE "pass"
  BY DEF Card!Judged
<1> HIDE DEF B, U, P
<1>4. CASE a.sure
  <2>1. a.choice \in B \cup U \cup P
    BY <1>2, <1>4
  <2>2. CASE a.choice \in B
    <3>1. Card!Judged(gate, a) = "blocked" /\ a.choice \notin P
      BY <1>1, <1>3, <1>4, <2>2
    <3> QED
      BY <1>4, <2>2, <3>1 DEF B, U, P
  <2>3. CASE a.choice \in U
    <3>1. a.choice \notin B /\ a.choice \notin P
      BY <1>1, <2>3
    <3>2. Card!Judged(gate, a) = "unknown"
      BY <1>3, <1>4, <2>3, <3>1
    <3> QED
      BY <3>1, <3>2 DEF B, U, P
  <2>4. CASE a.choice \in P
    <3>1. a.choice \notin B /\ a.choice \notin U
      BY <1>1, <2>4
    <3>2. Card!Judged(gate, a) = "pass"
      BY <1>3, <1>4, <2>4, <3>1
    <3> QED
      BY <1>4, <2>4, <3>1, <3>2 DEF B, U, P
  <2> QED
    BY <2>1, <2>2, <2>3, <2>4
<1>5. CASE ~a.sure
  <2>1. Card!Judged(gate, a) = "unknown"
    BY <1>3, <1>5
  <2> QED
    BY <1>5, <2>1
<1> QED
  BY <1>4, <1>5

\* How the answer to gate i was judged.
Verdict(i, a) == Card!Judged(Card!GateOrder[i], a)

AnyAnswer == UNION {Card!GateAnswers(gate) : gate \in Gated}

\* While the gates are asked, what has been counted is what was answered.
GatesInv ==
  axis = 0 =>
    /\ answers \in Seq(AnyAnswer)
    /\ Len(answers) \in 0..4
    /\ \A i \in 1..Len(answers) : answers[i] \in Card!GateAnswers(Card!GateOrder[i])
    /\ blockedBy \in Nat
    /\ blockedBy > 0 <=> \E i \in 1..Len(answers) : Verdict(i, answers[i]) = "blocked"
    /\ workable = IF resolved /\ \A i \in 1..Len(answers) : Verdict(i, answers[i]) # "unknown"
                  THEN "yes" ELSE "unknown"

\* No gates were asked.
LEMMA GatesInit == Card!Init => GatesInv
  BY DEF Card!Init, GatesInv

\* One more answer.
LEMMA GateCounts ==
  ASSUME GatesInv, axis = 0, Len(answers) < 4,
         NEW a \in Card!GateAnswers(Card!GateOrder[Len(answers) + 1]), Card!Gate(a)
  PROVE  GatesInv'
<1> DEFINE n == Len(answers) + 1
           verdict == Card!Judged(Card!GateOrder[n], a)
<1>1. /\ answers \in Seq(AnyAnswer) /\ n \in 1..4
      /\ Card!GateOrder[n] \in Gated
  BY Orders DEF GatesInv
<1>2. /\ answers' = Append(answers, a) /\ axis' = axis /\ resolved' = resolved
      /\ workable' = IF verdict = "unknown" THEN "unknown" ELSE workable
      /\ blockedBy' = IF verdict = "blocked" THEN blockedBy + 1 ELSE blockedBy
  BY DEF Card!Gate
<1>3. a \in AnyAnswer
  BY <1>1 DEF AnyAnswer
<1>4. /\ answers' \in Seq(AnyAnswer) /\ Len(answers') = n
      /\ answers'[n] = a /\ \A i \in 1..Len(answers) : answers'[i] = answers[i]
  BY <1>1, <1>2, <1>3
<1>5. /\ Verdict(n, answers'[n]) = verdict
      /\ \A i \in 1..Len(answers) : Verdict(i, answers'[i]) = Verdict(i, answers[i])
  BY <1>4 DEF Verdict
<1>6. \A i \in 1..Len(answers') : answers'[i] \in Card!GateAnswers(Card!GateOrder[i])
  BY <1>1, <1>4 DEF GatesInv
<1> HIDE DEF verdict, n
<1>7. 1..Len(answers') = 1..Len(answers) \cup {n}
  BY <1>1, <1>4 DEF n
<1>8. blockedBy' \in Nat /\ (blockedBy' > 0 <=> \E i \in 1..Len(answers') : Verdict(i, answers'[i]) = "blocked")
  BY <1>2, <1>5, <1>7 DEF GatesInv
<1>9. workable' = IF resolved' /\ \A i \in 1..Len(answers') : Verdict(i, answers'[i]) # "unknown"
                  THEN "yes" ELSE "unknown"
  BY <1>2, <1>5, <1>7 DEF GatesInv
<1> QED
  BY <1>1, <1>4, <1>6, <1>8, <1>9 DEF GatesInv

LEMMA GatesNextKeep == ASSUME GatesInv, [Card!Next]_(Card!vars) PROVE GatesInv'
<1>1. CASE axis = 0 /\ \E a \in Card!GateAnswers(Card!GateOrder[Len(answers) + 1]) :
                          Len(answers) < Len(Card!GateOrder) /\ Card!Gate(a)
  BY <1>1, GateCounts, Orders
<1>2. CASE axis' # 0
  BY <1>2 DEF GatesInv
<1>3. CASE UNCHANGED Card!vars
  BY <1>3 DEF Card!vars, GatesInv, Verdict
<1>4. Card!EndGates => axis' # 0
  BY DEF Card!EndGates
<1>5. axis \in DOMAIN Card!AxisOrder => axis \in 1..5
  BY Orders
<1>6. axis \in 1..5 => axis + 1 # 0
  OBVIOUS
<1>7. Card!Skipped => axis' # 0
  BY <1>5, <1>6 DEF Card!Skipped
<1>8. axis \in DOMAIN Card!AxisOrder /\ (\E p \in Card!AxisAnswers(Card!AxisOrder[axis]) : Card!Axis(p))
        => axis' # 0
  BY <1>5, <1>6 DEF Card!Axis
<1> QED
  BY <1>1, <1>2, <1>3, <1>4, <1>7, <1>8 DEF Card!Next

\* The verdict of answered gates.
LEMMA VerdictIsEarned ==
  ASSUME GatesInv, Card!EndGates
  PROVE  workable' =
    IF \E i \in DOMAIN Card!GateOrder : Card!Surely(i, Card!Gates[Card!GateOrder[i]].blocking)
    THEN "blocked"
    ELSE IF resolved /\ \A i \in DOMAIN Card!GateOrder :
                             Card!Surely(i, Card!Gates[Card!GateOrder[i]].pass)
    THEN "yes" ELSE "unknown"
<1>1. /\ Len(answers) = 4 /\ axis = 0
      /\ workable' = IF blockedBy > 0 THEN "blocked" ELSE workable
  BY Orders DEF Card!EndGates
<1>2. ASSUME NEW i \in 1..4
      PROVE  /\ Verdict(i, answers[i]) \in {"blocked", "unknown", "pass"}
             /\ Verdict(i, answers[i]) = "blocked" <=> Card!Surely(i, Card!Gates[Card!GateOrder[i]].blocking)
             /\ Verdict(i, answers[i]) = "pass" <=> Card!Surely(i, Card!Gates[Card!GateOrder[i]].pass)
  <2>1. answers[i] \in Card!GateAnswers(Card!GateOrder[i]) /\ Card!GateOrder[i] \in Gated
    BY <1>1, Orders DEF GatesInv
  <2> QED
    BY <2>1, JudgedIs DEF Verdict, Card!Surely
<1>3. blockedBy > 0 <=> \E i \in 1..4 : Verdict(i, answers[i]) = "blocked"
  BY <1>1 DEF GatesInv
<1>4. workable = IF resolved /\ \A i \in 1..4 : Verdict(i, answers[i]) # "unknown" THEN "yes" ELSE "unknown"
  BY <1>1 DEF GatesInv
<1> QED
  BY <1>1, <1>2, <1>3, <1>4, Orders

\* What the axes before the next one can have added, in 4000ths.
AtMost == <<0, 10000, 20000, 28000, 34000, 40000>>

PointsInv ==
  /\ axis \in 0..6
  /\ IF axis = 0 THEN points = 0 ELSE points \in 0..AtMost[axis]

LEMMA Weighted ==
  \A x, y \in Nat : x <= 100 /\ y <= 100 => x + 3 * y \in Nat /\ x + 3 * y <= 400
  OBVIOUS

\* An axis adds its weight at most.
LEMMA AxisAdds ==
  ASSUME NEW next \in 1..5, NEW p \in Card!AxisAnswers(Card!AxisOrder[next])
  PROVE  Card!Expected(Card!AxisOrder[next], p) * Card!Weights[Card!AxisOrder[next]]
           \in 0..(AtMost[next + 1] - AtMost[next])
<1>1. CASE next = 1
  <2>1. Card!AxisOrder[next] = "go_depth" /\ AtMost[next + 1] - AtMost[next] = 10000
    BY <1>1 DEF Card!AxisOrder, AtMost
  <2>2. p[1] \in 1..4 /\ p[2] \in 1..4
    BY <2>1 DEF Card!AxisAnswers, Card!Values
  <2>3. \A i \in 1..4 : Card!Values["go_depth"][i] \in Nat /\ Card!Values["go_depth"][i] <= 100
    BY DEF Card!Values
  <2>4. Card!Expected("go_depth", p) \in Nat /\ Card!Expected("go_depth", p) <= 400
    BY <2>2, <2>3, Weighted DEF Card!Expected
  <2>5. Card!Weights["go_depth"] = 25
    BY DEF Card!Weights
  <2> QED
    BY <2>1, <2>4, <2>5
<1>2. CASE next = 2
  <2>1. Card!AxisOrder[next] = "stack_overlap" /\ AtMost[next + 1] - AtMost[next] = 10000
    BY <1>2 DEF Card!AxisOrder, AtMost
  <2>2. p[1] \in 1..4 /\ p[2] \in 1..4
    BY <2>1 DEF Card!AxisAnswers, Card!Values
  <2>3. \A i \in 1..4 : Card!Values["stack_overlap"][i] \in Nat /\ Card!Values["stack_overlap"][i] <= 100
    BY DEF Card!Values
  <2>4. Card!Expected("stack_overlap", p) \in Nat /\ Card!Expected("stack_overlap", p) <= 400
    BY <2>2, <2>3, Weighted DEF Card!Expected
  <2>5. Card!Weights["stack_overlap"] = 25
    BY DEF Card!Weights
  <2> QED
    BY <2>1, <2>4, <2>5
<1>3. CASE next = 3
  <2>1. Card!AxisOrder[next] = "domain" /\ AtMost[next + 1] - AtMost[next] = 8000
    BY <1>3 DEF Card!AxisOrder, AtMost
  <2>2. p[1] \in 1..6 /\ p[2] \in 1..6
    BY <2>1 DEF Card!AxisAnswers, Card!Values
  <2>3. \A i \in 1..6 : Card!Values["domain"][i] \in Nat /\ Card!Values["domain"][i] <= 100
    BY DEF Card!Values
  <2>4. Card!Expected("domain", p) \in Nat /\ Card!Expected("domain", p) <= 400
    BY <2>2, <2>3, Weighted DEF Card!Expected
  <2>5. Card!Weights["domain"] = 20
    BY DEF Card!Weights
  <2> QED
    BY <2>1, <2>4, <2>5
<1>4. CASE next = 4
  <2>1. Card!AxisOrder[next] = "seniority" /\ AtMost[next + 1] - AtMost[next] = 6000
    BY <1>4 DEF Card!AxisOrder, AtMost
  <2>2. p[1] \in 1..5 /\ p[2] \in 1..5
    BY <2>1 DEF Card!AxisAnswers, Card!Values
  <2>3. \A i \in 1..5 : Card!Values["seniority"][i] \in Nat /\ Card!Values["seniority"][i] <= 100
    BY DEF Card!Values
  <2>4. Card!Expected("seniority", p) \in Nat /\ Card!Expected("seniority", p) <= 400
    BY <2>2, <2>3, Weighted DEF Card!Expected
  <2>5. Card!Weights["seniority"] = 15
    BY DEF Card!Weights
  <2> QED
    BY <2>1, <2>4, <2>5
<1>5. CASE next = 5
  <2>1. Card!AxisOrder[next] = "frontend_load" /\ AtMost[next + 1] - AtMost[next] = 6000
    BY <1>5 DEF Card!AxisOrder, AtMost
  <2>2. p[1] \in 1..4 /\ p[2] \in 1..4
    BY <2>1 DEF Card!AxisAnswers, Card!Values
  <2>3. \A i \in 1..4 : Card!Values["frontend_load"][i] \in Nat /\ Card!Values["frontend_load"][i] <= 100
    BY DEF Card!Values
  <2>4. Card!Expected("frontend_load", p) \in Nat /\ Card!Expected("frontend_load", p) <= 400
    BY <2>2, <2>3, Weighted DEF Card!Expected
  <2>5. Card!Weights["frontend_load"] = 15
    BY DEF Card!Weights
  <2> QED
    BY <2>1, <2>4, <2>5
<1> QED
  BY <1>1, <1>2, <1>3, <1>4, <1>5

LEMMA PointsNextKeep == ASSUME PointsInv, [Card!Next]_(Card!vars) PROVE PointsInv'
<1>1. \A next \in 1..5 : AtMost[next] \in Nat /\ AtMost[next + 1] \in Nat /\ AtMost[next] <= AtMost[next + 1]
  BY DEF AtMost
<1>2. CASE axis = 0 /\ \E a \in Card!GateAnswers(Card!GateOrder[Len(answers) + 1]) : Card!Gate(a)
  BY <1>2 DEF Card!Gate, PointsInv
<1>3. CASE Card!EndGates
  BY <1>3 DEF Card!EndGates, PointsInv, AtMost
<1>4. CASE Card!Skipped
  BY <1>4, <1>1, Orders DEF Card!Skipped, PointsInv
<1>5. ASSUME axis \in DOMAIN Card!AxisOrder,
             NEW p \in Card!AxisAnswers(Card!AxisOrder[axis]), Card!Axis(p)
      PROVE  PointsInv'
  <2> DEFINE new == Card!Expected(Card!AxisOrder[axis], p) * Card!Weights[Card!AxisOrder[axis]]
  <2>1. axis \in 1..5 /\ new \in 0..(AtMost[axis + 1] - AtMost[axis])
    BY <1>5, AxisAdds, Orders
  <2>2. points' = points + new /\ axis' = axis + 1
    BY <1>5 DEF Card!Axis
  <2> HIDE DEF new
  <2> QED
    BY <1>1, <2>1, <2>2 DEF PointsInv
<1>6. CASE UNCHANGED Card!vars
  BY <1>6 DEF Card!vars, PointsInv
<1> QED
  BY <1>2, <1>3, <1>4, <1>5, <1>6 DEF Card!Next

LEMMA FitIsBounded == ASSUME PointsInv PROVE Card!Fit \in 0..100
<1>1. \A next \in 1..6 : AtMost[next] \in Nat /\ AtMost[next] <= 40000
  BY DEF AtMost
<1>2. points \in Int /\ points >= 0 /\ points <= 40000
  BY <1>1 DEF PointsInv
<1>3. ASSUME NEW n \in Int, n >= 0, n <= 40000 PROVE (n + 200) \div 400 \in 0..100
  BY <1>3
<1> QED
  BY <1>2, <1>3 DEF Card!Fit

-----------------------------------------------------------------------------
(* Queue and scorecard.                                                    *)

CardInv == ScorerInv /\ GatesInv /\ PointsInv

LEMMA ScoringSteps ==
  ASSUME [QueueNext \/ CardNext]_scoringVars
  PROVE  [Next]_vars /\ [Card!Next]_(Card!vars)
BY DEF QueueNext, CardNext, scoringVars, card, Card!vars

LEMMA CardStarts == ScoringInit => CardInv
<1>1. Card!Init => PointsInv
  BY DEF Card!Init, PointsInv
<1> QED
  BY <1>1, ScorerInit, GatesInit DEF ScoringInit, CardInv

LEMMA CardKeeps == CardInv /\ [QueueNext \/ CardNext]_scoringVars => CardInv'
  BY ScoringSteps, ScorerNextKeeps, GatesNextKeep, PointsNextKeep DEF CardInv

\* The invariants of the queue, of the gates and of the points.
THEOREM ScoringInvariance == ScoringSpec => []CardInv
  BY CardStarts, CardKeeps, PTL DEF ScoringSpec

\* The types of the scorer: the queue is never longer than its size.
THEOREM ScorerIsTyped == ScoringSpec => []TypeOK
<1>1. CardInv => TypeOK
  BY DEF CardInv, ScorerInv
<1> QED
  BY ScoringInvariance, <1>1, PTL

\* No row is workable whose posting was never resolved, whatever is pushed, taken
\* twice or restarted while it is judged.
THEOREM NoYesWithoutPosting == ScoringSpec => []YesIsResolved
<1>1. CardInv => YesIsResolved
  BY DEF CardInv, ScorerInv
<1> QED
  BY ScoringInvariance, <1>1, PTL

\* The fit reads as 0-10 whatever distributions the answers carry.
THEOREM FitIsOutOfTen == ScoringSpec => []FitReadsAsTen
<1>1. CardInv => FitReadsAsTen
  BY FitIsBounded DEF CardInv, FitReadsAsTen, Card!FitReadsAsTen
<1> QED
  BY ScoringInvariance, <1>1, PTL

\* A sure knockout blocks, `yes` takes four sure passes on a resolved posting.
THEOREM VerdictsAreEarned == ScoringSpec => YesIsEarned
<1>1. CardInv /\ [QueueNext \/ CardNext]_scoringVars =>
        [Card!EndGates => workable' =
           IF \E i \in DOMAIN Card!GateOrder : Card!Surely(i, Card!Gates[Card!GateOrder[i]].blocking)
           THEN "blocked"
           ELSE IF resolved /\ \A i \in DOMAIN Card!GateOrder :
                                    Card!Surely(i, Card!Gates[Card!GateOrder[i]].pass)
           THEN "yes" ELSE "unknown"]_(Card!vars)
  BY VerdictIsEarned DEF CardInv
<1> QED
  BY <1>1, ScoringInvariance, PTL DEF ScoringSpec, YesIsEarned, Card!YesIsEarned
==============================================================================
