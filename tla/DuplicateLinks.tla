---------------------------- MODULE DuplicateLinks ----------------------------
(***************************************************************************)
(* Duplicate links between the leads of the legacy board: the column       *)
(* duplicate_of, and the requests that link, unlink, delete and insert.    *)
(*                                                                         *)
(* LinkDuplicate reads the parent of its target and whether its own lead   *)
(* exists in statements of their own, and only then writes, in one         *)
(* transaction; other requests run in between.  A row id is the largest    *)
(* id in the table plus one: the id of a deleted lead may come back.       *)
(***************************************************************************)
EXTENDS Naturals, FiniteSets

CONSTANTS
  MaxId,      \* bound on the row ids
  Requests,   \* link requests that may be in flight at once
  Deletable,  \* the ids that may be deleted
  NoRow, Idle

DuplicateLinksAssumption ==
  /\ MaxId \in Nat \ {0} /\ Deletable \subseteq 1..MaxId
  /\ NoRow \notin Nat
  /\ Idle \notin [dup : Nat, to : Nat]

Ids == 1..MaxId

VARIABLES
  duplicateOf,  \* id -> the id it is a mirror of, 0 when canonical, NoRow when absent
  requests      \* the link requests past their reads

vars == <<duplicateOf, requests>>

TypeOK ==
  /\ duplicateOf \in [Ids -> Ids \cup {0, NoRow}]
  /\ requests \in [Requests -> [dup : Ids, to : Ids] \cup {Idle}]

Init ==
  /\ duplicateOf = [i \in Ids |-> NoRow]
  /\ requests = [r \in Requests |-> Idle]

-----------------------------------------------------------------------------

Rows == {i \in Ids : duplicateOf[i] # NoRow}
NextId == IF Rows = {} THEN 1 ELSE 1 + CHOOSE i \in Rows : \A j \in Rows : j <= i

Insert ==
  /\ NextId <= MaxId
  /\ duplicateOf' = [duplicateOf EXCEPT ![NextId] = 0]
  /\ UNCHANGED requests

\* The canonical a link to `to` means: a mirror stands for its own canonical.
Collapsed(to) == IF duplicateOf[to] \in {0, NoRow} THEN to ELSE duplicateOf[to]

Exists(to) == to \in Rows

\* LinkDuplicate up to its transaction: 404 and 400 change nothing.
StartLink(r, dup, to) ==
  /\ requests[r] = Idle
  /\ dup \in Rows /\ Exists(to)
  /\ dup # to /\ dup # Collapsed(to)
  /\ requests' = [requests EXCEPT ![r] = [dup |-> dup, to |-> Collapsed(to)]]
  /\ UNCHANGED duplicateOf

\* The transaction: whatever pointed at the new mirror follows it.
LinkOnly(dup, to) == [i \in Ids |-> IF i = dup /\ i \in Rows THEN to ELSE duplicateOf[i]]
Linked(dup, to) ==
  [i \in Ids |-> IF (i = dup /\ i \in Rows) \/ duplicateOf[i] = dup THEN to ELSE duplicateOf[i]]

LinkDuplicate(r) ==
  /\ requests[r] # Idle
  /\ duplicateOf' = Linked(requests[r].dup, requests[r].to)
  /\ requests' = [requests EXCEPT ![r] = Idle]

\* The lead to link is gone when the handler looks for it: 404.
RefuseLink(r) ==
  /\ requests[r] # Idle /\ requests[r].dup \notin Rows
  /\ requests' = [requests EXCEPT ![r] = Idle]
  /\ UNCHANGED duplicateOf

UnlinkDuplicate(i) ==
  /\ i \in Rows /\ duplicateOf[i] # 0
  /\ duplicateOf' = [duplicateOf EXCEPT ![i] = 0]
  /\ UNCHANGED requests

\* DeleteJob removes the row and leaves the links to it alone.
DeleteJob(i) ==
  /\ i \in Rows \cap Deletable
  /\ duplicateOf' = [duplicateOf EXCEPT ![i] = NoRow]
  /\ UNCHANGED requests

PurgeJobs ==
  /\ Rows # {} /\ Rows \subseteq Deletable
  /\ duplicateOf' = [i \in Ids |-> NoRow]
  /\ UNCHANGED requests

Next ==
  \/ Insert
  \/ \E r \in Requests, dup, to \in Ids : StartLink(r, dup, to)
  \/ \E r \in Requests : LinkDuplicate(r) \/ RefuseLink(r)
  \/ \E i \in Ids : UnlinkDuplicate(i) \/ DeleteJob(i)
  \/ PurgeJobs

Spec == Init /\ [][Next]_vars

-----------------------------------------------------------------------------

Mirrors == {i \in Rows : duplicateOf[i] # 0}

\* jobs.go:1313, "reads are always one hop": no mirror points at a mirror, and
\* none at itself, so that no role disappears behind a loop.
OneHop == \A i \in Mirrors : duplicateOf[i] \notin Mirrors
==============================================================================
