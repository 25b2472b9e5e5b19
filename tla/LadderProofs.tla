---------------------------- MODULE LadderProofs ----------------------------
(***************************************************************************)
(* The status ladder of the legacy board, for any leads, requests, texts   *)
(* and inputs.                                                             *)
(*                                                                         *)
(* A handler writes what it was sent, on what it has read, into a row that *)
(* others have written since.  What the row must satisfy follows from the  *)
(* write alone (SoundWrite), because a request that could spoil it was     *)
(* refused when it started: that it was not refused is the part of the     *)
(* invariant about requests in flight.  Only the timeline's agreement with *)
(* the status needs that nothing was written in between.                   *)
(***************************************************************************)
EXTENDS Ladder, TLAPS

\* A rejection has its reason.
Reasoned(row) == row.rejected # 0 => row.reason # Blank

\* What a request keeps until it writes: its lead is there, and it was not one
\* that the handler refuses.
InFlight(q) ==
  /\ q.at <= now
  /\ q.in.op # "push" => rows[q.lead] # NoLead
  /\ q.in.op = "push" => Pushable(q.in)
  /\ q.in.op = "rejected" => (q.in.on => q.in.reason # Blank)
  /\ q.in.op = "rejectToggle" => (q.seen.on \/ q.in.reason # Blank)

LadderInv ==
  /\ TypeOK
  /\ RejectionHasReason
  /\ \A r \in Requests : requests[r] # Idle => InFlight(requests[r])

\* What a write may do to a row.
SoundWrite(old, new) ==
  /\ new \in Row
  /\ Reasoned(new)
  /\ old # NoLead => Sticks(old, new)

\* The write of request r.
Written(r) ==
  /\ requests[r] # Idle
  /\ \E new : /\ SoundWrite(rows[requests[r].lead], new)
              /\ rows' = [rows EXCEPT ![requests[r].lead] = new]
  /\ requests' = [requests EXCEPT ![r] = Idle]
  /\ pushed' \in SUBSET Leads
  /\ UNCHANGED now

-----------------------------------------------------------------------------
(* The rows the handlers write.                                            *)

\* A sticky stamp is a stamp, and keeps its date when it is set.
LEMMA StickyStamp ==
  ASSUME LadderAssumption, NEW old \in Stamp, NEW on \in BOOLEAN, NEW t \in 1..MaxTime
  PROVE  /\ Sticky(old, on, t) \in Stamp
         /\ old = 0 \/ Sticky(old, on, t) \in {0, old}
         /\ ~on => Sticky(old, on, t) = 0
         /\ (on /\ old # 0) => Sticky(old, on, t) = old
BY DEF LadderAssumption, Stamp, Sticky

\* So does a flag of a push, which leaves the stamp alone when it is absent.
LEMMA ModeStamp ==
  ASSUME LadderAssumption, NEW old \in Stamp, NEW flag \in Flag, NEW t \in 1..MaxTime
  PROVE  /\ Mode(old, flag, t) \in Stamp
         /\ old = 0 \/ Mode(old, flag, t) \in {0, old}
         /\ flag = FALSE => Mode(old, flag, t) = 0
         /\ flag = Absent => Mode(old, flag, t) = old
<1>1. Absent \notin BOOLEAN
  BY DEF LadderAssumption
<1>2. CASE flag = Absent
  BY <1>1, <1>2 DEF Mode
<1>3. CASE flag \in BOOLEAN
  BY <1>1, <1>3, StickyStamp DEF Mode
<1> QED
  BY <1>2, <1>3 DEF Flag

\* A field that updates when it is not empty.
LEMMA FilledText ==
  ASSUME NEW S, NEW old \in S \cup {Blank}, NEW new \in S \cup {Blank}
  PROVE  Filled(old, new) \in S \cup {Blank}
BY DEF Filled

\* The row of a lead that a push creates.
LEMMA NewLeadType == ASSUME LadderAssumption PROVE NewLead \in Row
BY DEF LadderAssumption, NewLead, Row, Stamp

\* A push.
LEMMA PushWrites ==
  ASSUME LadderAssumption, NEW row \in Row \cup {NoLead}, row # NoLead => Reasoned(row),
         NEW p \in Push, Pushable(p), NEW t \in 1..MaxTime
  PROVE  SoundWrite(row, AfterPush(row, p, t))
<1> DEFINE old == IF row = NoLead THEN NewLead ELSE row
           reason == IF p.rejected = FALSE THEN Blank
                     ELSE IF p.rejected = TRUE \/ row = NoLead THEN p.reason ELSE old.reason
           new == AfterPush(row, p, t)
<1>1. old \in Row /\ (row # NoLead => old = row) /\ (row = NoLead => old.rejected = 0)
  BY NewLeadType DEF NewLead
<1>2. /\ p.applied \in Flag /\ p.rejected \in Flag /\ p.approved \in Flag /\ p.prep \in BOOLEAN
      /\ p.reason \in Texts \cup {Blank} /\ p.notes \in Texts \cup {Blank}
      /\ p.app \in AppStatuses \cup {Blank}
  BY DEF Push
<1>3. /\ old.applied \in Stamp /\ old.rejected \in Stamp /\ old.approved \in Stamp
      /\ old.viewed \in Stamp /\ old.checked \in Stamp
      /\ old.reason \in Texts \cup {Blank} /\ old.notes \in Texts \cup {Blank}
      /\ old.prep \in BOOLEAN /\ old.app \in AppStatuses \cup {Blank}
      /\ old.told \in AppStatuses \cup {Blank}
  BY <1>1 DEF Row
<1>4. reason \in Texts \cup {Blank}
  BY <1>2, <1>3
<1>5. new = [old EXCEPT !.applied = Mode(@, p.applied, t), !.rejected = Mode(@, p.rejected, t),
                        !.reason = reason, !.approved = Mode(@, p.approved, t),
                        !.notes = Filled(@, p.notes), !.prep = @ \/ p.prep,
                        !.app = Filled(@, p.app)]
  BY <1>1 DEF AfterPush, Row
<1>6. /\ Mode(old.applied, p.applied, t) \in Stamp
      /\ old.applied = 0 \/ Mode(old.applied, p.applied, t) \in {0, old.applied}
  BY <1>2, <1>3, ModeStamp
<1>7. /\ Mode(old.rejected, p.rejected, t) \in Stamp
      /\ old.rejected = 0 \/ Mode(old.rejected, p.rejected, t) \in {0, old.rejected}
      /\ p.rejected = FALSE => Mode(old.rejected, p.rejected, t) = 0
      /\ p.rejected = Absent => Mode(old.rejected, p.rejected, t) = old.rejected
  <2> DEFINE stamp == old.rejected
             flag == p.rejected
  <2>1. stamp \in Stamp /\ flag \in Flag
    BY <1>2, <1>3
  <2> HIDE DEF stamp, flag
  <2>2. /\ Mode(stamp, flag, t) \in Stamp
        /\ stamp = 0 \/ Mode(stamp, flag, t) \in {0, stamp}
        /\ flag = FALSE => Mode(stamp, flag, t) = 0
        /\ flag = Absent => Mode(stamp, flag, t) = stamp
    BY <2>1, ModeStamp
  <2> QED
    BY <2>2 DEF stamp, flag
<1>8. /\ Mode(old.approved, p.approved, t) \in Stamp
      /\ old.approved = 0 \/ Mode(old.approved, p.approved, t) \in {0, old.approved}
  BY <1>2, <1>3, ModeStamp
<1>9. /\ Filled(old.notes, p.notes) \in Texts \cup {Blank}
      /\ Filled(old.app, p.app) \in AppStatuses \cup {Blank}
  BY <1>2, <1>3 DEF Filled
<1>10. Mode(old.rejected, p.rejected, t) # 0 => reason # Blank
  <2>1. CASE p.rejected = FALSE
    BY <1>7, <2>1
  <2>2. CASE p.rejected = TRUE
    BY <2>2 DEF Pushable
  <2>3. CASE p.rejected = Absent
    <3>1. p.rejected # FALSE /\ p.rejected # TRUE
      BY <2>3 DEF LadderAssumption
    <3>2. CASE row = NoLead
      BY <1>1, <1>7, <2>3, <3>2
    <3>3. CASE row # NoLead
      BY <1>1, <1>7, <2>3, <3>1, <3>3 DEF Reasoned
    <3> QED
      BY <3>2, <3>3
  <2> QED
    BY <1>2, <2>1, <2>2, <2>3 DEF Flag
<1> HIDE DEF old, reason, new
<1>11. /\ new \in Row
       /\ new.applied = Mode(old.applied, p.applied, t)
       /\ new.rejected = Mode(old.rejected, p.rejected, t)
       /\ new.approved = Mode(old.approved, p.approved, t)
       /\ new.reason = reason /\ new.viewed = old.viewed
  <2>1. (old.prep \/ p.prep) \in BOOLEAN
    OBVIOUS
  <2> QED
    BY <1>1, <1>4, <1>5, <1>6, <1>7, <1>8, <1>9, <2>1 DEF Row
<1>12. Reasoned(new)
  BY <1>10, <1>11 DEF Reasoned
<1>13. row # NoLead => Sticks(row, new)
  BY <1>1, <1>6, <1>7, <1>8, <1>11 DEF Sticks
<1> QED
  BY <1>11, <1>12, <1>13 DEF SoundWrite, new

\* Setting and clearing the application date.
LEMMA AppliedWrites ==
  ASSUME LadderAssumption, NEW row \in Row, Reasoned(row), NEW on \in BOOLEAN, NEW t \in 1..MaxTime
  PROVE  SoundWrite(row, AfterApplied(row, on, t))
<1>1. Sticky(row.applied, on, t) \in Stamp
      /\ (row.applied = 0 \/ Sticky(row.applied, on, t) \in {0, row.applied})
  BY StickyStamp DEF Row
<1> QED
  BY <1>1 DEF SoundWrite, AfterApplied, Reasoned, Sticks, Row

\* Setting a rejection with its reason, and clearing both.
LEMMA RejectedWrites ==
  ASSUME LadderAssumption, NEW row \in Row, NEW on \in BOOLEAN, NEW reason \in Texts \cup {Blank},
         on => reason # Blank, NEW t \in 1..MaxTime
  PROVE  SoundWrite(row, AfterRejected(row, on, reason, t))
<1>1. Sticky(row.rejected, on, t) \in Stamp
      /\ (row.rejected = 0 \/ Sticky(row.rejected, on, t) \in {0, row.rejected})
      /\ (~on => Sticky(row.rejected, on, t) = 0)
  BY StickyStamp DEF Row
<1> QED
  BY <1>1 DEF SoundWrite, AfterRejected, Reasoned, Sticks, Row

\* Approving and taking it back, perhaps with a note.
LEMMA ApprovedWrites ==
  ASSUME LadderAssumption, NEW row \in Row, Reasoned(row), NEW on \in BOOLEAN,
         NEW notes \in Texts \cup {Blank}, NEW t \in 1..MaxTime
  PROVE  SoundWrite(row, AfterApproved(row, on, notes, t))
<1>1. Sticky(row.approved, on, t) \in Stamp
      /\ (row.approved = 0 \/ Sticky(row.approved, on, t) \in {0, row.approved})
  BY StickyStamp DEF Row
<1>2. Filled(row.notes, notes) \in Texts \cup {Blank}
  BY DEF Filled, Row
<1> QED
  BY <1>1, <1>2 DEF SoundWrite, AfterApproved, Reasoned, Sticks, Row

\* Notes, preparation, views and checks.
LEMMA PlainWrites ==
  ASSUME LadderAssumption, NEW row \in Row, Reasoned(row), NEW notes \in Texts \cup {Blank},
         NEW on \in BOOLEAN, NEW t \in 1..MaxTime
  PROVE  /\ SoundWrite(row, AfterNotes(row, notes))
         /\ SoundWrite(row, AfterPrep(row, on))
         /\ SoundWrite(row, AfterViewed(row, t))
         /\ SoundWrite(row, AfterChecked(row, t))
<1> USE DEF SoundWrite, Reasoned, Sticks
<1>1. SoundWrite(row, AfterNotes(row, notes))
  BY DEF AfterNotes, Row
<1>2. SoundWrite(row, AfterPrep(row, on))
  BY DEF AfterPrep, Row
<1>3. SoundWrite(row, AfterViewed(row, t))
  <2>1. Sticky(row.viewed, TRUE, t) \in Stamp
        /\ (row.viewed # 0 => Sticky(row.viewed, TRUE, t) = row.viewed)
    BY StickyStamp DEF Row
  <2> QED
    BY <2>1 DEF AfterViewed, Row
<1>4. SoundWrite(row, AfterChecked(row, t))
  <2>1. t \in Stamp
    BY DEF Stamp
  <2> QED
    BY <2>1 DEF AfterChecked, Row
<1> QED
  BY <1>1, <1>2, <1>3, <1>4

\* The status of an application, which dates it, and its event.
LEMMA StatusWrites ==
  ASSUME LadderAssumption, NEW row \in Row, Reasoned(row), NEW seen \in Seen,
         NEW app \in AppStatuses \cup {Blank}, NEW t \in 1..MaxTime
  PROVE  SoundWrite(row, AfterStatus(row, seen, app, t))
<1>1. Sticky(row.applied, TRUE, t) \in Stamp
      /\ (row.applied = 0 \/ Sticky(row.applied, TRUE, t) \in {0, row.applied})
  BY StickyStamp DEF Row
<1>2. Told(row, seen, app) \in AppStatuses \cup {Blank}
  BY DEF Told, Row
<1>3. t \in Stamp
  BY DEF Stamp
<1> QED
  BY <1>1, <1>2, <1>3 DEF SoundWrite, AfterStatus, Reasoned, Sticks, Row

-----------------------------------------------------------------------------
(* The handlers.                                                           *)

\* What requests ask for.
LEMMA InputTypes ==
  ASSUME LadderAssumption, NEW in \in Inputs
  PROVE  /\ in.op = "push" => in \in Push
         /\ in.op = "applied" => in.on \in BOOLEAN
         /\ in.op = "rejected" => in.on \in BOOLEAN /\ in.reason \in Texts \cup {Blank}
         /\ in.op = "approved" => in.on \in BOOLEAN /\ in.notes \in Texts \cup {Blank}
         /\ in.op = "rejectToggle" => in.reason \in Texts \cup {Blank}
         /\ in.op = "approveToggle" => in.notes \in Texts \cup {Blank, Absent}
         /\ in.op = "notes" => in.notes \in Texts \cup {Blank}
         /\ in.op = "prep" => in.on \in BOOLEAN
         /\ in.op = "status" => in.app \in AppStatuses \cup {Blank}
BY DEF LadderAssumption, Input, Push

\* A request in flight, its lead and the instants it may write.
LEMMA PendingTypes ==
  ASSUME LadderAssumption, LadderInv, NEW r \in Requests, requests[r] # Idle
  PROVE  /\ requests[r].lead \in Leads /\ requests[r].in \in Inputs
         /\ requests[r].seen \in Seen
         /\ \A t \in requests[r].at..(IF requests[r].in.op \in Toggles THEN now
                                      ELSE requests[r].at) : t \in 1..MaxTime
         /\ rows[requests[r].lead] \in Row \cup {NoLead}
         /\ rows[requests[r].lead] # NoLead => Reasoned(rows[requests[r].lead])
         /\ requests[r].in.op # "push" =>
              rows[requests[r].lead] \in Row /\ Reasoned(rows[requests[r].lead])
         /\ InFlight(requests[r])
<1>1. requests[r] \in Pending /\ InFlight(requests[r])
  BY DEF LadderInv, TypeOK
<1>2. rows[requests[r].lead] \in Row \cup {NoLead} /\ now \in 1..MaxTime /\ MaxTime \in Nat
  BY <1>1 DEF LadderInv, TypeOK, Pending, LadderAssumption
<1>3. requests[r].lead \in Leads /\ requests[r].at \in 1..MaxTime
  BY <1>1 DEF Pending
<1>4. rows[requests[r].lead] # NoLead => Reasoned(rows[requests[r].lead])
  BY <1>3 DEF LadderInv, RejectionHasReason, OnBoard, Reasoned
<1>5. \A t \in requests[r].at..(IF requests[r].in.op \in Toggles THEN now
                                ELSE requests[r].at) : t \in 1..MaxTime
  BY <1>2, <1>3
<1> QED
  BY <1>1, <1>2, <1>3, <1>4, <1>5 DEF Pending, InFlight

\* Every handler's write is sound.
LEMMA HandlersWrite ==
  ASSUME LadderAssumption, LadderInv, NEW r \in Requests,
         \/ UpsertJobs(r)
         \/ handleJobApplied(r) \/ handleJobAppliedToggle(r)
         \/ handleJobRejected(r) \/ handleJobRejectToggle(r)
         \/ handleJobApproved(r) \/ handleJobApproveToggle(r)
         \/ handleJobNotes(r) \/ handleJobPrep(r) \/ handleJobShow(r)
         \/ handleJobChecked(r) \/ handleJobEventAdd(r) \/ handleJobAppStatus(r)
  PROVE  Written(r)
<1> DEFINE q == requests[r]
           row == rows[q.lead]
           Instants == q.at..(IF q.in.op \in Toggles THEN now ELSE q.at)
           Stored(new) == rows' = [rows EXCEPT ![q.lead] = new]
<1>1. CASE UpsertJobs(r)
  <2>1. /\ q # Idle /\ q.in.op = "push" /\ UNCHANGED now
        /\ requests' = [requests EXCEPT ![r] = Idle]
    BY <1>1 DEF UpsertJobs, Writes
  <2>2. PICK t \in Instants : Stored(AfterPush(row, q.in, t))
    BY <1>1 DEF UpsertJobs, Writes
  <2>3. SoundWrite(row, AfterPush(row, q.in, t))
    BY <2>1, PendingTypes, InputTypes, PushWrites DEF InFlight
  <2>4. pushed' \in SUBSET Leads
    BY <1>1, <2>1, PendingTypes DEF UpsertJobs, LadderInv, TypeOK
  <2> QED
    BY <2>1, <2>2, <2>3, <2>4 DEF Written
<1>2. CASE handleJobApplied(r)
  <2>1. /\ q # Idle /\ q.in.op = "applied" /\ UNCHANGED <<now, pushed>>
        /\ requests' = [requests EXCEPT ![r] = Idle]
    BY <1>2 DEF handleJobApplied, Writes
  <2>2. PICK t \in Instants : Stored(AfterApplied(row, q.in.on, t))
    BY <1>2 DEF handleJobApplied, Writes
  <2>3. SoundWrite(row, AfterApplied(row, q.in.on, t))
    BY <2>1, PendingTypes, InputTypes, AppliedWrites
  <2> QED
    BY <2>1, <2>2, <2>3 DEF Written, LadderInv, TypeOK
<1>3. CASE handleJobAppliedToggle(r)
  <2>1. /\ q # Idle /\ q.in.op = "appliedToggle" /\ UNCHANGED <<now, pushed>>
        /\ requests' = [requests EXCEPT ![r] = Idle]
    BY <1>3 DEF handleJobAppliedToggle, Writes
  <2>2. PICK t \in Instants : Stored(AfterApplied(row, ~q.seen.on, t))
    BY <1>3 DEF handleJobAppliedToggle, Writes
  <2>3. SoundWrite(row, AfterApplied(row, ~q.seen.on, t))
    BY <2>1, PendingTypes, InputTypes, AppliedWrites DEF Seen
  <2> QED
    BY <2>1, <2>2, <2>3 DEF Written, LadderInv, TypeOK
<1>4. CASE handleJobRejected(r)
  <2>1. /\ q # Idle /\ q.in.op = "rejected" /\ UNCHANGED <<now, pushed>>
        /\ requests' = [requests EXCEPT ![r] = Idle]
    BY <1>4 DEF handleJobRejected, Writes
  <2>2. PICK t \in Instants : Stored(AfterRejected(row, q.in.on, q.in.reason, t))
    BY <1>4 DEF handleJobRejected, Writes
  <2>3. SoundWrite(row, AfterRejected(row, q.in.on, q.in.reason, t))
    BY <2>1, PendingTypes, InputTypes, RejectedWrites DEF InFlight
  <2> QED
    BY <2>1, <2>2, <2>3 DEF Written, LadderInv, TypeOK
<1>5. CASE handleJobRejectToggle(r)
  <2>1. /\ q # Idle /\ q.in.op = "rejectToggle" /\ UNCHANGED <<now, pushed>>
        /\ requests' = [requests EXCEPT ![r] = Idle]
    BY <1>5 DEF handleJobRejectToggle, Writes
  <2>2. PICK t \in Instants : Stored(AfterRejected(row, ~q.seen.on, q.in.reason, t))
    BY <1>5 DEF handleJobRejectToggle, Writes
  <2>3. SoundWrite(row, AfterRejected(row, ~q.seen.on, q.in.reason, t))
    BY <2>1, PendingTypes, InputTypes, RejectedWrites DEF InFlight, Seen
  <2> QED
    BY <2>1, <2>2, <2>3 DEF Written, LadderInv, TypeOK
<1>6. CASE handleJobApproved(r)
  <2>1. /\ q # Idle /\ q.in.op = "approved" /\ UNCHANGED <<now, pushed>>
        /\ requests' = [requests EXCEPT ![r] = Idle]
    BY <1>6 DEF handleJobApproved, Writes
  <2>2. PICK t \in Instants : Stored(AfterApproved(row, q.in.on, q.in.notes, t))
    BY <1>6 DEF handleJobApproved, Writes
  <2>3. SoundWrite(row, AfterApproved(row, q.in.on, q.in.notes, t))
    BY <2>1, PendingTypes, InputTypes, ApprovedWrites
  <2> QED
    BY <2>1, <2>2, <2>3 DEF Written, LadderInv, TypeOK
<1>7. CASE handleJobApproveToggle(r)
  <2>1. /\ q # Idle /\ q.in.op = "approveToggle" /\ UNCHANGED <<now, pushed>>
        /\ requests' = [requests EXCEPT ![r] = Idle]
    BY <1>7 DEF handleJobApproveToggle, Writes
  <2>2. PICK t \in Instants : Stored(AfterApproved(row, ~q.seen.on, NoteOfToggle(q), t))
    BY <1>7 DEF handleJobApproveToggle, Writes
  <2>3. SoundWrite(row, AfterApproved(row, ~q.seen.on, NoteOfToggle(q), t))
    BY <2>1, PendingTypes, InputTypes, ApprovedWrites DEF NoteOfToggle, Seen
  <2> QED
    BY <2>1, <2>2, <2>3 DEF Written, LadderInv, TypeOK
<1>8. CASE handleJobNotes(r)
  <2>1. /\ q # Idle /\ q.in.op = "notes" /\ UNCHANGED <<now, pushed>>
        /\ requests' = [requests EXCEPT ![r] = Idle]
    BY <1>8 DEF handleJobNotes, Writes
  <2>2. PICK t \in Instants : Stored(AfterNotes(row, q.in.notes))
    BY <1>8 DEF handleJobNotes, Writes
  <2>3. SoundWrite(row, AfterNotes(row, q.in.notes))
    BY <2>1, PendingTypes, InputTypes, PlainWrites
  <2> QED
    BY <2>1, <2>2, <2>3 DEF Written, LadderInv, TypeOK
<1>9. CASE handleJobPrep(r)
  <2>1. /\ q # Idle /\ q.in.op = "prep" /\ UNCHANGED <<now, pushed>>
        /\ requests' = [requests EXCEPT ![r] = Idle]
    BY <1>9 DEF handleJobPrep, Writes
  <2>2. PICK t \in Instants : Stored(AfterPrep(row, q.in.on))
    BY <1>9 DEF handleJobPrep, Writes
  <2>3. SoundWrite(row, AfterPrep(row, q.in.on))
    BY <2>1, PendingTypes, InputTypes, PlainWrites
  <2> QED
    BY <2>1, <2>2, <2>3 DEF Written, LadderInv, TypeOK
<1>10. CASE handleJobShow(r)
  <2>1. /\ q # Idle /\ q.in.op = "view" /\ UNCHANGED <<now, pushed>>
        /\ requests' = [requests EXCEPT ![r] = Idle]
    BY <1>10 DEF handleJobShow, Writes
  <2>2. PICK t \in Instants : Stored(AfterViewed(row, t))
    BY <1>10 DEF handleJobShow, Writes
  <2>3. SoundWrite(row, AfterViewed(row, t))
    BY <2>1, PendingTypes, InputTypes, PlainWrites
  <2> QED
    BY <2>1, <2>2, <2>3 DEF Written, LadderInv, TypeOK
<1>11. CASE handleJobChecked(r)
  <2>1. /\ q # Idle /\ q.in.op = "touch" /\ UNCHANGED <<now, pushed>>
        /\ requests' = [requests EXCEPT ![r] = Idle]
    BY <1>11 DEF handleJobChecked, Writes
  <2>2. PICK t \in Instants : Stored(AfterChecked(row, t))
    BY <1>11 DEF handleJobChecked, Writes
  <2>3. SoundWrite(row, AfterChecked(row, t))
    BY <2>1, PendingTypes, InputTypes, PlainWrites
  <2> QED
    BY <2>1, <2>2, <2>3 DEF Written, LadderInv, TypeOK
<1>12. CASE handleJobEventAdd(r)
  <2>1. /\ q # Idle /\ q.in.op = "event" /\ UNCHANGED <<now, pushed>>
        /\ requests' = [requests EXCEPT ![r] = Idle]
    BY <1>12 DEF handleJobEventAdd, Writes
  <2>2. PICK t \in Instants : Stored(AfterEvent(row, t))
    BY <1>12 DEF handleJobEventAdd, Writes
  <2>3. SoundWrite(row, AfterEvent(row, t))
    BY <2>1, PendingTypes, InputTypes, PlainWrites DEF AfterEvent
  <2> QED
    BY <2>1, <2>2, <2>3 DEF Written, LadderInv, TypeOK
<1>13. CASE handleJobAppStatus(r)
  <2>1. /\ q # Idle /\ q.in.op = "status" /\ UNCHANGED now
        /\ requests' = [requests EXCEPT ![r] = Idle]
    BY <1>13 DEF handleJobAppStatus, Writes
  <2>2. PICK t \in Instants : Stored(AfterStatus(row, q.seen, q.in.app, t))
    BY <1>13 DEF handleJobAppStatus, Writes
  <2>3. SoundWrite(row, AfterStatus(row, q.seen, q.in.app, t))
    BY <2>1, PendingTypes, InputTypes, StatusWrites
  <2>4. pushed' \in SUBSET Leads
    BY <1>13 DEF handleJobAppStatus, LadderInv, TypeOK
  <2> QED
    BY <2>1, <2>2, <2>3, <2>4 DEF Written
<1> QED
  BY <1>1, <1>2, <1>3, <1>4, <1>5, <1>6, <1>7, <1>8, <1>9, <1>10, <1>11, <1>12, <1>13

\* A request starts with what its handler does not refuse.
LEMMA StartKeeps ==
  ASSUME LadderAssumption, LadderInv, NEW r \in Requests, NEW l \in Leads, NEW in \in Inputs,
         Start(r, l, in)
  PROVE  LadderInv'
<1> DEFINE q == [lead |-> l, in |-> in, at |-> now, seen |-> Read(rows[l], in.op)]
<1>1. /\ requests' = [requests EXCEPT ![r] = q] /\ UNCHANGED <<now, rows, pushed>>
      /\ rows[l] # NoLead \/ in.op = "push"
      /\ ~Refused(rows[l], in)
  BY DEF Start
<1>2. now \in 1..MaxTime /\ MaxTime \in Nat /\ rows[l] \in Row \cup {NoLead}
  BY DEF LadderInv, TypeOK, LadderAssumption
<1>3. Read(rows[l], in.op) \in Seen
  <2>1. CASE in.op = "push"
    BY <2>1 DEF Read, Seen
  <2>2. CASE in.op # "push"
    BY <1>1, <1>2, <2>2 DEF Read, Seen, Row
  <2> QED
    BY <2>1, <2>2
<1>4. q \in Pending
  BY <1>2, <1>3 DEF Pending
<1>5. InFlight(q)
  <2>1. in.op = "push" => Pushable(in)
    BY <1>1 DEF Refused
  <2>2. in.op = "rejected" => (in.on => in.reason # Blank)
    BY <1>1 DEF Refused
  <2>3. in.op = "rejectToggle" => (rows[l].rejected # 0 \/ in.reason # Blank)
    BY <1>1 DEF Refused
  <2>4. q.at = now /\ q.lead = l /\ q.in = in /\ q.seen = Read(rows[l], in.op)
    OBVIOUS
  <2>5. in.op = "rejectToggle" => q.seen.on = (rows[l].rejected # 0)
    BY <2>4 DEF Read
  <2> HIDE DEF q
  <2>6. q.at <= now
    BY <1>2, <2>4
  <2>7. q.in.op = "rejectToggle" => (q.seen.on \/ q.in.reason # Blank)
    BY <2>3, <2>4, <2>5
  <2> QED
    BY <1>1, <2>1, <2>2, <2>4, <2>6, <2>7 DEF InFlight
<1> HIDE DEF q
<1>6. TypeOK'
  BY <1>1, <1>4 DEF LadderInv, TypeOK
<1>7. RejectionHasReason'
  BY <1>1 DEF LadderInv, RejectionHasReason, OnBoard
<1>8. ASSUME NEW s \in Requests, requests'[s] # Idle PROVE InFlight(requests[s])'
  <2>1. requests'[s] = q \/ (requests[s] # Idle /\ requests'[s] = requests[s])
    BY <1>1, <1>8 DEF LadderInv, TypeOK
  <2> QED
    BY <1>1, <1>5, <2>1 DEF InFlight, LadderInv
<1> QED
  BY <1>6, <1>7, <1>8 DEF LadderInv

\* A write leaves every lead with a sound row, and the others as they were.
LEMMA WriteKeeps ==
  ASSUME LadderAssumption, LadderInv, NEW r \in Requests, Written(r)
  PROVE  /\ LadderInv'
         /\ \A l \in OnBoard : Sticks(rows[l], rows'[l])
<1> DEFINE lead == requests[r].lead
<1>1. PICK new : SoundWrite(rows[lead], new) /\ rows' = [rows EXCEPT ![lead] = new]
  BY DEF Written
<1>2. /\ requests' = [requests EXCEPT ![r] = Idle] /\ pushed' \in SUBSET Leads
      /\ UNCHANGED now /\ requests[r] # Idle
  BY DEF Written
<1>3. lead \in Leads
  BY <1>2, PendingTypes
<1>4. new \in Row /\ new # NoLead /\ Reasoned(new)
  BY <1>1 DEF SoundWrite, LadderAssumption
<1> HIDE DEF lead
<1>5. /\ rows'[lead] = new /\ \A l \in Leads \ {lead} : rows'[l] = rows[l]
      /\ rows' \in [Leads -> Row \cup {NoLead}]
  BY <1>1, <1>3, <1>4 DEF LadderInv, TypeOK
<1>6. TypeOK'
  BY <1>2, <1>5 DEF LadderInv, TypeOK
<1>7. RejectionHasReason'
  BY <1>4, <1>5 DEF LadderInv, RejectionHasReason, OnBoard, Reasoned
<1>8. ASSUME NEW s \in Requests, requests'[s] # Idle PROVE InFlight(requests[s])'
  <2>1. requests[s] # Idle /\ requests'[s] = requests[s]
    BY <1>2, <1>8 DEF LadderInv, TypeOK
  <2>2. requests[s].lead \in Leads /\ InFlight(requests[s])
    BY <2>1, PendingTypes
  <2>3. rows[requests[s].lead] # NoLead => rows'[requests[s].lead] # NoLead
    BY <1>4, <1>5, <2>2
  <2> QED
    BY <1>2, <2>1, <2>2, <2>3 DEF InFlight
<1>9. ASSUME NEW l \in OnBoard PROVE Sticks(rows[l], rows'[l])
  <2>1. CASE l = lead
    BY <1>1, <1>5, <2>1 DEF SoundWrite, OnBoard
  <2>2. CASE l # lead
    <3>1. rows'[l] = rows[l]
      BY <1>5, <2>2 DEF OnBoard
    <3> QED
      BY <3>1 DEF Sticks
  <2> QED
    BY <2>1, <2>2
<1> QED
  BY <1>6, <1>7, <1>8, <1>9 DEF LadderInv

\* The board starts empty.
LEMMA LadderStarts == ASSUME LadderAssumption, Init PROVE LadderInv
BY DEF LadderAssumption, Init, LadderInv, TypeOK, RejectionHasReason, OnBoard

\* A step, and what it does to the rows on the board.
LEMMA LadderStep ==
  ASSUME LadderAssumption, LadderInv, [Next]_vars
  PROVE  /\ LadderInv'
         /\ \A l \in OnBoard : Sticks(rows[l], rows'[l])
<1>1. ASSUME UNCHANGED rows PROVE \A l \in OnBoard : Sticks(rows[l], rows'[l])
  BY <1>1 DEF Sticks
<1>2. CASE \E r \in Requests, l \in Leads, in \in Inputs : Start(r, l, in)
  <2>1. UNCHANGED rows
    BY <1>2 DEF Start
  <2> QED
    BY <1>1, <1>2, <2>1, StartKeeps
<1>3. CASE \E r \in Requests : Written(r)
  BY <1>3, WriteKeeps
<1>4. CASE Tick
  <2>1. now' = now + 1 /\ now' \in 1..MaxTime /\ UNCHANGED <<rows, requests, pushed>>
    BY <1>4 DEF Tick, LadderInv, TypeOK, LadderAssumption
  <2>2. ASSUME NEW s \in Requests, requests'[s] # Idle PROVE InFlight(requests[s])'
    <3>1. requests[s] \in Pending /\ InFlight(requests[s]) /\ now \in Nat
      BY <2>1, <2>2 DEF LadderInv, TypeOK
    <3> QED
      BY <2>1, <3>1 DEF InFlight, Pending
  <2> QED
    BY <1>1, <2>1, <2>2 DEF LadderInv, TypeOK, RejectionHasReason, OnBoard
<1>5. CASE Restart
  BY <1>1, <1>5 DEF Restart, LadderInv, TypeOK, RejectionHasReason, OnBoard
<1>6. CASE UNCHANGED vars
  BY <1>1, <1>6 DEF vars, LadderInv, TypeOK, RejectionHasReason, OnBoard, InFlight
<1> QED
  BY <1>2, <1>3, <1>4, <1>5, <1>6, HandlersWrite DEF Next

-----------------------------------------------------------------------------
(* The readers, and the timeline when requests do not cross.               *)

\* Status, chips and tiles agree on every row there can be.
LEMMA ReadersAgreeOnRow ==
  ASSUME LadderAssumption, NEW row \in Row
  PROVE  /\ Chip(jobStatus(row), row)
         /\ \A c \in {"applied", "rejected", "hired"} : Chip(c, row) => c = jobStatus(row)
         /\ \A t \in DOMAIN ChipOfTile : Tile(t, row) <=> Chip(ChipOfTile[t], row)
<1>1. row.app \in {"in_process", "rejected", "hired", Blank} /\ Blank \notin {"in_process", "rejected", "hired"}
  BY DEF Row, LadderAssumption, AppStatuses
<1>2. /\ Chip("to-prep", row) = (Undecided(row) /\ ~row.prep)
      /\ Chip("to-review", row) = (Undecided(row) /\ row.prep)
      /\ Chip("approved", row) = (row.approved # 0 /\ row.rejected = 0 /\ row.applied = 0)
      /\ Chip("applied", row) = InProcess(row)
      /\ Chip("rejected", row) = (row.app # "hired" /\ (row.rejected # 0 \/ row.app = "rejected"))
      /\ Chip("hired", row) = (row.app = "hired")
  BY DEF Chip
<1>3. /\ Tile("ToReview", row) = (row.prep /\ Undecided(row))
      /\ Tile("ToSend", row) = (row.approved # 0 /\ row.applied = 0 /\ row.rejected = 0)
      /\ Tile("InProcess", row) = InProcess(row)
      /\ Tile("Rejected", row) = (row.app # "hired" /\ (row.rejected # 0 \/ row.app = "rejected"))
      /\ Tile("Hired", row) = (row.app = "hired")
  BY DEF Tile
<1>4. \A t \in DOMAIN ChipOfTile : Tile(t, row) <=> Chip(ChipOfTile[t], row)
  BY <1>2, <1>3 DEF ChipOfTile
<1> DEFINE status == jobStatus(row)
<1>5. CASE row.app = "hired"
  <2>1. status = "hired"
    BY <1>5 DEF jobStatus
  <2> HIDE DEF status
  <2> QED
    BY <1>1, <1>2, <1>4, <1>5, <2>1 DEF InProcess, status
<1>6. CASE row.app # "hired" /\ (row.rejected # 0 \/ row.app = "rejected")
  <2>1. status = "rejected"
    BY <1>6 DEF jobStatus
  <2> HIDE DEF status
  <2> QED
    BY <1>1, <1>2, <1>4, <1>6, <2>1 DEF InProcess, status
<1>7. CASE row.app \notin {"hired", "rejected"} /\ row.rejected = 0 /\ row.applied # 0
  <2>1. status = "applied"
    BY <1>7 DEF jobStatus
  <2> HIDE DEF status
  <2> QED
    BY <1>1, <1>2, <1>4, <1>7, <2>1 DEF InProcess, status
<1>8. CASE row.app \notin {"hired", "rejected"} /\ row.rejected = 0 /\ row.applied = 0
  <2>1. status = IF row.approved # 0 THEN "approved" ELSE IF row.prep THEN "to-review" ELSE "to-prep"
    BY <1>8 DEF jobStatus
  <2> HIDE DEF status
  <2>2. row.prep \in BOOLEAN
    BY DEF Row
  <2> QED
    BY <1>1, <1>2, <1>4, <1>8, <2>1, <2>2 DEF InProcess, Undecided, status
<1> QED
  BY <1>5, <1>6, <1>7, <1>8

\* What the invariant says to a reader of the board.
LEMMA LadderImplies ==
  ASSUME LadderAssumption, LadderInv
  PROVE  TypeOK /\ RejectionHasReason /\ ReadersAgree
<1>1. \A l \in OnBoard : rows[l] \in Row
  BY DEF OnBoard, LadderInv, TypeOK
<1> QED
  BY <1>1, ReadersAgreeOnRow DEF LadderInv, ReadersAgree

\* The status that a request has read is still the status.
StatusIsCurrent ==
  \A r \in Requests : (requests[r] # Idle /\ requests[r].in.op = "status") =>
    requests[r].seen.app = rows[requests[r].lead].app

TellsInv == TimelineTellsStatus /\ StatusIsCurrent

\* Requests do not cross.
OneAtATime == \A r, s \in Requests : requests[r] # Idle /\ requests[s] # Idle => r = s

\* A write by the only request in flight.
LEMMA OnlyWriteTells ==
  ASSUME LadderAssumption, LadderInv, TellsInv, OneAtATime, NEW r \in Requests, Written(r),
         NEW lead \in Leads, NEW new, rows' = [rows EXCEPT ![lead] = new],
         pushed \subseteq pushed' \cup {lead},
         lead \notin pushed' => (new.app # Blank => new.told = new.app)
  PROVE  TellsInv'
<1>1. requests[r] # Idle /\ requests' = [requests EXCEPT ![r] = Idle]
  BY DEF Written
<1>2. StatusIsCurrent'
  <2>1. \A s \in Requests : requests'[s] = Idle
    BY <1>1 DEF OneAtATime, LadderInv, TypeOK
  <2> QED
    BY <2>1 DEF StatusIsCurrent
<1>3. rows'[lead] = new /\ \A l \in Leads \ {lead} : rows'[l] = rows[l]
  BY DEF LadderInv, TypeOK
<1>4. ASSUME NEW l \in OnBoard', l \notin pushed', rows'[l].app # Blank
      PROVE  rows'[l].told = rows'[l].app
  <2>1. CASE l = lead
    BY <1>3, <1>4, <2>1
  <2>2. CASE l # lead
    BY <1>3, <1>4, <2>2 DEF TellsInv, TimelineTellsStatus, OnBoard
  <2> QED
    BY <2>1, <2>2
<1> QED
  BY <1>2, <1>4 DEF TellsInv, TimelineTellsStatus

\* Where requests do not cross, the newest status event tells the status.
LEMMA HandlersTell ==
  ASSUME LadderAssumption, LadderInv, TellsInv, OneAtATime, NEW r \in Requests,
         \/ UpsertJobs(r)
         \/ handleJobApplied(r) \/ handleJobAppliedToggle(r)
         \/ handleJobRejected(r) \/ handleJobRejectToggle(r)
         \/ handleJobApproved(r) \/ handleJobApproveToggle(r)
         \/ handleJobNotes(r) \/ handleJobPrep(r) \/ handleJobShow(r)
         \/ handleJobChecked(r) \/ handleJobEventAdd(r) \/ handleJobAppStatus(r)
  PROVE  TellsInv'
<1> DEFINE q == requests[r]
           row == rows[q.lead]
           Instants == q.at..(IF q.in.op \in Toggles THEN now ELSE q.at)
           Stored(new) == rows' = [rows EXCEPT ![q.lead] = new]
           Tells(x) == x.app # Blank => x.told = x.app
<1>1. Written(r) /\ q # Idle
  BY HandlersWrite DEF Written
<1>2. /\ q.lead \in Leads /\ q.in \in Inputs /\ q.seen \in Seen
      /\ row \in Row \cup {NoLead} /\ NoLead \notin Row
      /\ q.in.op # "push" => row \in Row
  BY <1>1, PendingTypes DEF LadderAssumption
<1>3. (row \in Row /\ q.lead \notin pushed) => Tells(row)
  BY <1>2 DEF TellsInv, TimelineTellsStatus, OnBoard
<1>4. CASE UpsertJobs(r)
  <2>1. PICK t \in Instants : Stored(AfterPush(row, q.in, t))
    BY <1>4 DEF UpsertJobs, Writes
  <2> DEFINE new == AfterPush(row, q.in, t)
  <2>2. pushed' = IF q.in.app # Blank THEN pushed \cup {q.lead} ELSE pushed
    BY <1>4 DEF UpsertJobs
  <2>3. ASSUME q.lead \notin pushed' PROVE Tells(new)
    <3>1. q.in.app = Blank /\ q.lead \notin pushed
      BY <2>2, <2>3
    <3>2. CASE row = NoLead
      <4>1. new.app = Blank
        BY <3>1, <3>2 DEF AfterPush, NewLead, Filled
      <4> QED
        BY <4>1
    <3>3. CASE row \in Row
      <4>1. new.app = row.app /\ new.told = row.told
        BY <1>2, <3>1, <3>3 DEF AfterPush, Row, Filled
      <4> QED
        BY <1>3, <3>1, <3>3, <4>1
    <3> QED
      BY <1>2, <3>2, <3>3
  <2>4. pushed \subseteq pushed' \cup {q.lead}
    BY <2>2
  <2> HIDE DEF new
  <2>5. Stored(new)
    BY <2>1 DEF new
  <2> QED
    BY <1>1, <1>2, <2>3, <2>4, <2>5, OnlyWriteTells
<1>5. CASE handleJobAppStatus(r)
  <2>1. PICK t \in Instants : Stored(AfterStatus(row, q.seen, q.in.app, t))
    BY <1>5 DEF handleJobAppStatus, Writes
  <2> DEFINE new == AfterStatus(row, q.seen, q.in.app, t)
  <2>2. /\ q.in.op = "status"
        /\ pushed' = IF q.in.app \notin {Blank, q.seen.app} THEN pushed \ {q.lead} ELSE pushed
    BY <1>5 DEF handleJobAppStatus, Writes
  <2>3. q.seen.app = row.app
    BY <1>1, <2>2 DEF TellsInv, StatusIsCurrent
  <2>4. new.app = q.in.app /\ new.told = Told(row, q.seen, q.in.app)
    BY <1>2, <2>2 DEF AfterStatus, Row
  <2>5. ASSUME q.lead \notin pushed' PROVE Tells(new)
    BY <1>2, <1>3, <2>2, <2>3, <2>4, <2>5 DEF Told
  <2>6. pushed \subseteq pushed' \cup {q.lead}
    BY <2>2
  <2> HIDE DEF new
  <2>7. Stored(new)
    BY <2>1 DEF new
  <2> QED
    BY <1>1, <1>2, <2>5, <2>6, <2>7, OnlyWriteTells
<1>6. ASSUME ~UpsertJobs(r), ~handleJobAppStatus(r) PROVE TellsInv'
  <2>1. UNCHANGED pushed /\ q.in.op # "push"
    BY <1>6 DEF handleJobApplied, handleJobAppliedToggle, handleJobRejected, handleJobRejectToggle,
                handleJobApproved, handleJobApproveToggle, handleJobNotes, handleJobPrep,
                handleJobShow, handleJobChecked, handleJobEventAdd, Writes
  <2>2. row \in Row
    BY <1>2, <2>1
  <2>3. \E new : Stored(new) /\ new.app = row.app /\ new.told = row.told
    <3>1. CASE handleJobApplied(r)
      <4>1. PICK t \in Instants : Stored(AfterApplied(row, q.in.on, t))
        BY <3>1 DEF handleJobApplied, Writes
      <4> DEFINE new == AfterApplied(row, q.in.on, t)
      <4>2. new.app = row.app /\ new.told = row.told
        BY <2>2 DEF AfterApplied, Row
      <4>3. Stored(new)
        BY <4>1
      <4> HIDE DEF new
      <4> QED
        BY <4>2, <4>3
    <3>2. CASE handleJobAppliedToggle(r)
      <4>1. PICK t \in Instants : Stored(AfterApplied(row, ~q.seen.on, t))
        BY <3>2 DEF handleJobAppliedToggle, Writes
      <4> DEFINE new == AfterApplied(row, ~q.seen.on, t)
      <4>2. new.app = row.app /\ new.told = row.told
        BY <2>2 DEF AfterApplied, Row
      <4>3. Stored(new)
        BY <4>1
      <4> HIDE DEF new
      <4> QED
        BY <4>2, <4>3
    <3>3. CASE handleJobRejected(r)
      <4>1. PICK t \in Instants : Stored(AfterRejected(row, q.in.on, q.in.reason, t))
        BY <3>3 DEF handleJobRejected, Writes
      <4> DEFINE new == AfterRejected(row, q.in.on, q.in.reason, t)
      <4>2. new.app = row.app /\ new.told = row.told
        BY <2>2 DEF AfterRejected, Row
      <4>3. Stored(new)
        BY <4>1
      <4> HIDE DEF new
      <4> QED
        BY <4>2, <4>3
    <3>4. CASE handleJobRejectToggle(r)
      <4>1. PICK t \in Instants : Stored(AfterRejected(row, ~q.seen.on, q.in.reason, t))
        BY <3>4 DEF handleJobRejectToggle, Writes
      <4> DEFINE new == AfterRejected(row, ~q.seen.on, q.in.reason, t)
      <4>2. new.app = row.app /\ new.told = row.told
        BY <2>2 DEF AfterRejected, Row
      <4>3. Stored(new)
        BY <4>1
      <4> HIDE DEF new
      <4> QED
        BY <4>2, <4>3
    <3>5. CASE handleJobApproved(r)
      <4>1. PICK t \in Instants : Stored(AfterApproved(row, q.in.on, q.in.notes, t))
        BY <3>5 DEF handleJobApproved, Writes
      <4> DEFINE new == AfterApproved(row, q.in.on, q.in.notes, t)
      <4>2. new.app = row.app /\ new.told = row.told
        BY <2>2 DEF AfterApproved, Row
      <4>3. Stored(new)
        BY <4>1
      <4> HIDE DEF new
      <4> QED
        BY <4>2, <4>3
    <3>6. CASE handleJobApproveToggle(r)
      <4>1. PICK t \in Instants : Stored(AfterApproved(row, ~q.seen.on, NoteOfToggle(q), t))
        BY <3>6 DEF handleJobApproveToggle, Writes
      <4> DEFINE new == AfterApproved(row, ~q.seen.on, NoteOfToggle(q), t)
      <4>2. new.app = row.app /\ new.told = row.told
        BY <2>2 DEF AfterApproved, Row
      <4>3. Stored(new)
        BY <4>1
      <4> HIDE DEF new
      <4> QED
        BY <4>2, <4>3
    <3>7. CASE handleJobNotes(r)
      <4>1. PICK t \in Instants : Stored(AfterNotes(row, q.in.notes))
        BY <3>7 DEF handleJobNotes, Writes
      <4> DEFINE new == AfterNotes(row, q.in.notes)
      <4>2. new.app = row.app /\ new.told = row.told
        BY <2>2 DEF AfterNotes, Row
      <4>3. Stored(new)
        BY <4>1
      <4> HIDE DEF new
      <4> QED
        BY <4>2, <4>3
    <3>8. CASE handleJobPrep(r)
      <4>1. PICK t \in Instants : Stored(AfterPrep(row, q.in.on))
        BY <3>8 DEF handleJobPrep, Writes
      <4> DEFINE new == AfterPrep(row, q.in.on)
      <4>2. new.app = row.app /\ new.told = row.told
        BY <2>2 DEF AfterPrep, Row
      <4>3. Stored(new)
        BY <4>1
      <4> HIDE DEF new
      <4> QED
        BY <4>2, <4>3
    <3>9. CASE handleJobShow(r)
      <4>1. PICK t \in Instants : Stored(AfterViewed(row, t))
        BY <3>9 DEF handleJobShow, Writes
      <4> DEFINE new == AfterViewed(row, t)
      <4>2. new.app = row.app /\ new.told = row.told
        BY <2>2 DEF AfterViewed, Row
      <4>3. Stored(new)
        BY <4>1
      <4> HIDE DEF new
      <4> QED
        BY <4>2, <4>3
    <3>10. CASE handleJobChecked(r)
      <4>1. PICK t \in Instants : Stored(AfterChecked(row, t))
        BY <3>10 DEF handleJobChecked, Writes
      <4> DEFINE new == AfterChecked(row, t)
      <4>2. new.app = row.app /\ new.told = row.told
        BY <2>2 DEF AfterChecked, Row
      <4>3. Stored(new)
        BY <4>1
      <4> HIDE DEF new
      <4> QED
        BY <4>2, <4>3
    <3>11. CASE handleJobEventAdd(r)
      <4>1. PICK t \in Instants : Stored(AfterEvent(row, t))
        BY <3>11 DEF handleJobEventAdd, Writes
      <4> DEFINE new == AfterEvent(row, t)
      <4>2. new.app = row.app /\ new.told = row.told
        BY <2>2 DEF AfterEvent, AfterChecked, Row
      <4>3. Stored(new)
        BY <4>1
      <4> HIDE DEF new
      <4> QED
        BY <4>2, <4>3
    <3> QED
      BY <1>6, <3>1, <3>2, <3>3, <3>4, <3>5, <3>6, <3>7, <3>8, <3>9, <3>10, <3>11
  <2>4. PICK new : Stored(new) /\ new.app = row.app /\ new.told = row.told
    BY <2>3
  <2>5. ASSUME q.lead \notin pushed' PROVE Tells(new)
    BY <1>3, <2>1, <2>2, <2>4, <2>5
  <2> QED
    BY <1>1, <1>2, <2>1, <2>4, <2>5, OnlyWriteTells
<1> QED
  BY <1>4, <1>5, <1>6

\* The invariant of the timeline, for one request at a time.
LEMMA TellsStep ==
  ASSUME LadderAssumption, LadderInv, TellsInv, OneAtATime, [Next]_vars
  PROVE  TellsInv'
<1>1. CASE \E r \in Requests, l \in Leads, in \in Inputs : Start(r, l, in)
  <2>1. PICK r \in Requests, l \in Leads, in \in Inputs : Start(r, l, in)
    BY <1>1
  <2>2. /\ UNCHANGED <<rows, pushed>>
        /\ requests' = [requests EXCEPT ![r] =
             [lead |-> l, in |-> in, at |-> now, seen |-> Read(rows[l], in.op)]]
    BY <2>1 DEF Start
  <2>3. in.op = "status" => Read(rows[l], in.op).app = rows[l].app
    BY DEF Read
  <2>4. StatusIsCurrent'
    <3>1. \A s \in Requests : s # r => requests'[s] = requests[s]
      BY <2>2 DEF LadderInv, TypeOK
    <3>2. requests'[r] = [lead |-> l, in |-> in, at |-> now, seen |-> Read(rows[l], in.op)]
      BY <2>2 DEF LadderInv, TypeOK
    <3> QED
      BY <2>2, <2>3, <3>1, <3>2 DEF TellsInv, StatusIsCurrent
  <2> QED
    BY <2>2, <2>4 DEF TellsInv, TimelineTellsStatus, OnBoard
<1>2. CASE Tick
  BY <1>2 DEF Tick, TellsInv, TimelineTellsStatus, StatusIsCurrent, OnBoard
<1>3. CASE Restart
  BY <1>3 DEF Restart, TellsInv, TimelineTellsStatus, StatusIsCurrent, OnBoard
<1>4. CASE UNCHANGED vars
  BY <1>4 DEF vars, TellsInv, TimelineTellsStatus, StatusIsCurrent, OnBoard
<1> QED
  BY <1>1, <1>2, <1>3, <1>4, HandlersTell DEF Next

\* So it is when the board is empty.
LEMMA TellsStarts == ASSUME Init PROVE TellsInv
BY DEF Init, TellsInv, TimelineTellsStatus, StatusIsCurrent, OnBoard

-----------------------------------------------------------------------------

\* The types of the ladder, that every rejection has its reason, and that no
\* request that its handler refuses is in flight.
THEOREM LadderInvariance == ASSUME LadderAssumption PROVE Spec => []LadderInv
<1>1. Init => LadderInv
  BY LadderStarts
<1>2. LadderInv /\ [Next]_vars => LadderInv'
  BY LadderStep
<1> QED
  BY <1>1, <1>2, PTL DEF Spec
=============================================================================
