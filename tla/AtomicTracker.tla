---------------------------- MODULE AtomicTracker ----------------------------
(***************************************************************************)
(* What the tracker promises to those who edit one job at the same time: a *)
(* PATCH is one indivisible step that applies its fields to the job as it  *)
(* is, and only if the job still has the version the request names.  Every *)
(* write gives the job its next version.                                   *)
(***************************************************************************)
EXTENDS Naturals

CONSTANTS Jobs, Handlers, Stages, Blank, Null, Absent, Salaries, Patches, NoRow, Idle

VARIABLES
  board,    \* id -> the version and the content of the job
  requests  \* the PATCH requests that wait for their step

vars == <<board, requests>>

Salary == Salaries \cup {Null}

Content == [stage : Stages, min : Salary, max : Salary]

Sound(c) == c.min = Null \/ c.max = Null \/ c.min <= c.max

\* The content with the fields of the patch replaced.
Apply(c, p) ==
  [stage |-> IF p.stage \in {Absent, Blank} THEN c.stage ELSE p.stage,
   min   |-> IF p.min = Absent THEN c.min ELSE p.min,
   max   |-> IF p.max = Absent THEN c.max ELSE p.max]

Init ==
  /\ \A i \in Jobs : \/ board[i] = NoRow
                     \/ board[i].version = 1 /\ board[i].content \in Content
  /\ requests = [h \in Handlers |-> Idle]

Insert(i) ==
  /\ board[i] = NoRow
  /\ \E c \in Content : /\ Sound(c)
                        /\ board' = [board EXCEPT ![i] = [version |-> 1, content |-> c]]
  /\ UNCHANGED requests

\* A request names a version the job has or had.
Ask(h) ==
  /\ requests[h] = Idle
  /\ \E i \in Jobs, p \in Patches :
        /\ board[i] # NoRow
        /\ \E v \in 1..board[i].version :
              requests' = [requests EXCEPT ![h] = [job |-> i, ifMatch |-> v, patch |-> p]]
  /\ UNCHANGED board

Patch(h) ==
  /\ requests[h] # Idle
  /\ LET q == requests[h]
         new == Apply(board[q.job].content, q.patch)
     IN  /\ board[q.job].version = q.ifMatch
         /\ Sound(new)
         /\ board' = [board EXCEPT ![q.job] = [version |-> q.ifMatch + 1, content |-> new]]
  /\ requests' = [requests EXCEPT ![h] = Idle]

\* An event is appended to the timeline and may carry a stage.
Record(i) ==
  /\ board[i] # NoRow
  /\ \E s \in Stages \cup {board[i].content.stage} :
        board' = [board EXCEPT ![i] = [version |-> board[i].version + 1,
                                       content |-> [board[i].content EXCEPT !.stage = s]]]
  /\ UNCHANGED requests

\* Requests are refused, or lost in a restart.
Forget ==
  /\ \E lost \in SUBSET Handlers :
        requests' = [h \in Handlers |-> IF h \in lost THEN Idle ELSE requests[h]]
  /\ UNCHANGED board

Next ==
  \/ \E i \in Jobs : Insert(i) \/ Record(i)
  \/ \E h \in Handlers : Ask(h) \/ Patch(h)
  \/ Forget

Spec == Init /\ [][Next]_vars
==============================================================================
