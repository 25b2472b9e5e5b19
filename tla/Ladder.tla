-------------------------------- MODULE Ladder --------------------------------
(***************************************************************************)
(* The status ladder of a lead on the legacy board: the stamps and texts   *)
(* of its row that say how far it has come, the handlers that move it, and *)
(* the three places that read it: the status shown with the row, the chips *)
(* that filter the board, and the tiles that count it.                     *)
(*                                                                         *)
(* Every statement is a step of the one database connection.  A handler    *)
(* samples the clock and reads the row when it starts, and writes later;   *)
(* others write in between.  A stamp is the second it was taken in, or 0   *)
(* for the empty string.                                                   *)
(***************************************************************************)
EXTENDS Naturals, FiniteSets

CONSTANTS
  Leads,     \* rows of the table jobs
  Requests,  \* requests that may be in flight at once
  Inputs,    \* what requests ask for
  Texts,     \* non-empty reasons and notes
  Blank,     \* the empty string
  Absent,    \* a form field that was not sent, a flag a push does not mention
  NoLead, Idle,
  MaxTime    \* bound on the clock

AppStatuses == {"in_process", "rejected", "hired"}

\* A push: the tri-state flags and the fields that update when not empty.
Flag == BOOLEAN \cup {Absent}
Push == [op : {"push"}, applied : Flag, rejected : Flag, reason : Texts \cup {Blank},
         approved : Flag, notes : Texts \cup {Blank}, prep : BOOLEAN,
         app : AppStatuses \cup {Blank}]

Input ==
  Push
  \cup [op : {"applied"}, on : BOOLEAN]
  \cup [op : {"rejected"}, on : BOOLEAN, reason : Texts \cup {Blank}]
  \cup [op : {"approved"}, on : BOOLEAN, notes : Texts \cup {Blank}]
  \cup [op : {"appliedToggle", "view", "touch", "event"}]
  \cup [op : {"rejectToggle"}, reason : Texts \cup {Blank}]
  \cup [op : {"approveToggle"}, notes : Texts \cup {Blank, Absent}]
  \cup [op : {"notes"}, notes : Texts \cup {Blank}]
  \cup [op : {"prep"}, on : BOOLEAN]
  \cup [op : {"status"}, app : AppStatuses \cup {Blank}]

Stamp == 0..MaxTime

Row == [applied : Stamp, rejected : Stamp, reason : Texts \cup {Blank},
        approved : Stamp, notes : Texts \cup {Blank}, prep : BOOLEAN,
        app : AppStatuses \cup {Blank}, viewed : Stamp, checked : Stamp,
        told : AppStatuses \cup {Blank}]   \* what the newest status event says

\* What a handler keeps of the row it read: the flag it flips, the note, the status.
Seen == [on : BOOLEAN, notes : Texts \cup {Blank}, app : AppStatuses \cup {Blank}]
Pending == [lead : Leads, in : Inputs, at : 1..MaxTime, seen : Seen]

LadderAssumption ==
  /\ Inputs \subseteq Input
  /\ Blank \notin Texts \cup AppStatuses /\ Absent \notin Texts \cup {Blank} \cup BOOLEAN
  /\ MaxTime \in Nat \ {0}
  /\ NoLead \notin Row /\ Idle \notin Pending

VARIABLES
  now,       \* the clock, in seconds
  rows,      \* the table jobs: lead -> its row
  requests,  \* the requests that have started and not yet written
  pushed     \* history: the leads whose application status came from a push

vars == <<now, rows, requests, pushed>>

TypeOK ==
  /\ now \in 1..MaxTime
  /\ rows \in [Leads -> Row \cup {NoLead}]
  /\ requests \in [Requests -> Pending \cup {Idle}]
  /\ pushed \subseteq Leads

Init ==
  /\ now = 1
  /\ rows = [l \in Leads |-> NoLead]
  /\ requests = [r \in Requests |-> Idle]
  /\ pushed = {}

-----------------------------------------------------------------------------
(* The reads.                                                              *)

\* jobStatus: outcomes outrank motion.
jobStatus(row) ==
  CASE row.app = "hired" -> "hired"
    [] row.app # "hired" /\ (row.rejected # 0 \/ row.app = "rejected") -> "rejected"
    [] row.app \notin {"hired", "rejected"} /\ row.rejected = 0 /\ row.applied # 0 -> "applied"
    [] OTHER -> IF row.approved # 0 THEN "approved"
                ELSE IF row.prep THEN "to-review" ELSE "to-prep"

Undecided(row) == row.approved = 0 /\ row.rejected = 0 /\ row.applied = 0
InProcess(row) == row.applied # 0 /\ row.rejected = 0 /\ row.app \in {Blank, "in_process"}

\* JobFilter.where: the leads a chip shows.
Chips == {"to-prep", "to-review", "approved", "applied", "rejected", "hired"}

ChipExplicit(c, row) ==
  CASE c = "to-prep"   -> Undecided(row) /\ ~row.prep
    [] c = "to-review" -> Undecided(row) /\ row.prep
    [] c = "approved"  -> row.approved # 0 /\ row.rejected = 0 /\ row.applied = 0
    [] c = "applied"   -> row.applied # 0 /\ row.rejected = 0 /\ row.app = "in_process"
    [] c = "rejected"  -> row.app # "hired" /\ (row.rejected # 0 \/ row.app = "rejected")
    [] c = "hired"     -> row.app = "hired"
Chip(c, row) ==
  CASE c = "to-prep"   -> Undecided(row) /\ ~row.prep
    [] c = "to-review" -> Undecided(row) /\ row.prep
    [] c = "approved"  -> row.approved # 0 /\ row.rejected = 0 /\ row.applied = 0
    [] c = "applied"   -> InProcess(row)
    [] c = "rejected"  -> row.app # "hired" /\ (row.rejected # 0 \/ row.app = "rejected")
    [] c = "hired"     -> row.app = "hired"

\* JobStats: the leads a tile counts.
Tile(t, row) ==
  CASE t = "ToReview"  -> row.prep /\ Undecided(row)
    [] t = "ToSend"    -> row.approved # 0 /\ row.applied = 0 /\ row.rejected = 0
    [] t = "InProcess" -> InProcess(row)
    [] t = "Rejected"  -> row.app # "hired" /\ (row.rejected # 0 \/ row.app = "rejected")
    [] t = "Hired"     -> row.app = "hired"

-----------------------------------------------------------------------------
(* The writes.  A stamp is sticky: setting what is set keeps its date.     *)

Restamped(old, on, t) == IF on THEN t ELSE 0
Sticky(old, on, t) == IF ~on THEN 0 ELSE IF old # 0 THEN old ELSE t
Mode(old, flag, t) == IF flag = Absent THEN old ELSE Sticky(old, flag, t)
Filled(old, new) == IF new = Blank THEN old ELSE new

\* UpsertJobs refuses a rejection without a reason (and with it the batch).
Pushable(p) == p.rejected = TRUE => p.reason # Blank

NewLead == [applied |-> 0, rejected |-> 0, reason |-> Blank, approved |-> 0, notes |-> Blank,
            prep |-> FALSE, app |-> Blank, viewed |-> 0, checked |-> 0, told |-> Blank]

\* The INSERT takes the reason as it comes, the UPDATE only with the flag.
AfterPush(row, p, t) ==
  LET old == IF row = NoLead THEN NewLead ELSE row IN
  [old EXCEPT
    !.applied = Mode(@, p.applied, t),
    !.rejected = Mode(@, p.rejected, t),
    !.reason = IF p.rejected = FALSE THEN Blank
               ELSE IF p.rejected = TRUE \/ row = NoLead THEN p.reason ELSE @,
    !.approved = Mode(@, p.approved, t),
    !.notes = Filled(@, p.notes),
    !.prep = @ \/ p.prep,
    !.app = Filled(@, p.app)]

AfterApplied(row, on, t) == [row EXCEPT !.applied = Sticky(@, on, t)]

AfterRejected(row, on, reason, t) ==
  [row EXCEPT !.rejected = Sticky(@, on, t), !.reason = IF on THEN reason ELSE Blank]

AfterApproved(row, on, notes, t) ==
  [row EXCEPT !.approved = Sticky(@, on, t), !.notes = Filled(@, notes)]

AfterNotes(row, notes) == [row EXCEPT !.notes = notes]
AfterPrep(row, on) == [row EXCEPT !.prep = on]
AfterViewed(row, t) == [row EXCEPT !.viewed = Sticky(@, TRUE, t)]

\* TouchJobChecked.
AfterChecked(row, t) == [row EXCEPT !.checked = t]

\* AddJobEvent: somebody just looked, whenever the event itself happened.  Its
\* kind is free; one that calls itself a status is left out.
AfterEvent(row, t) == AfterChecked(row, t)

\* SetJobAppStatus: the event is written when the status is not the one the
\* handler read before its transaction.
ToldOnce(row, seen, app) == IF app # Blank /\ seen.app = Blank THEN app ELSE row.told
Told(row, seen, app) == IF app # Blank /\ app # seen.app THEN app ELSE row.told

AfterStatus(row, seen, app, t) ==
  [row EXCEPT !.app = app, !.checked = t,
              !.applied = IF app # Blank THEN Sticky(@, TRUE, t) ELSE @,
              !.told = Told(row, seen, app)]

-----------------------------------------------------------------------------

\* A handler samples the clock and, if its write depends on the row, reads it.
\* A lead that does not exist is a 404, except for a push, which creates it.
Toggles == {"appliedToggle", "rejectToggle", "approveToggle"}

Read(row, op) ==
  [on |-> CASE op = "appliedToggle" -> row.applied # 0
            [] op = "rejectToggle"  -> row.rejected # 0
            [] op = "approveToggle" -> row.approved # 0
            [] OTHER -> FALSE,
   notes |-> IF op = "approveToggle" THEN row.notes ELSE Blank,
   app   |-> IF op = "status" THEN row.app ELSE Blank]

\* What a toggle refuses with 400: to reject without a reason.
RefusedNever(row, in) == FALSE

Refused(row, in) ==
  CASE in.op = "push" -> ~Pushable(in)
    [] in.op = "rejected" -> in.on /\ in.reason = Blank
    [] in.op = "rejectToggle" -> row.rejected = 0 /\ in.reason = Blank
    [] OTHER -> FALSE

Start(r, l, in) ==
  /\ requests[r] = Idle
  /\ rows[l] # NoLead \/ in.op = "push"
  /\ ~Refused(rows[l], in)
  /\ requests' = [requests EXCEPT ![r] =
       [lead |-> l, in |-> in, at |-> now,
        seen |-> Read(rows[l], in.op)]]
  /\ UNCHANGED <<now, rows, pushed>>

\* The write of request r: the row it leaves behind.  A toggle samples the clock
\* only after it has read the row.
Writes(r, op, After(_, _, _)) ==
  /\ requests[r] # Idle /\ requests[r].in.op = op
  /\ \E t \in requests[r].at..(IF op \in Toggles THEN now ELSE requests[r].at) :
       rows' = [rows EXCEPT ![requests[r].lead] = After(@, requests[r], t)]
  /\ requests' = [requests EXCEPT ![r] = Idle]
  /\ UNCHANGED now

\* A batch is one transaction.  The ingest handler passes no application status
\* on; UpsertJobs takes one.
UpsertJobs(r) ==
  /\ Writes(r, "push", LAMBDA row, q, t : AfterPush(row, q.in, t))
  /\ pushed' = IF requests[r].in.app # Blank THEN pushed \cup {requests[r].lead} ELSE pushed

handleJobApplied(r) ==
  /\ Writes(r, "applied", LAMBDA row, q, t : AfterApplied(row, q.in.on, t))
  /\ UNCHANGED pushed

handleJobAppliedToggle(r) ==
  /\ Writes(r, "appliedToggle", LAMBDA row, q, t : AfterApplied(row, ~q.seen.on, t))
  /\ UNCHANGED pushed

handleJobRejected(r) ==
  /\ Writes(r, "rejected", LAMBDA row, q, t : AfterRejected(row, q.in.on, q.in.reason, t))
  /\ UNCHANGED pushed

handleJobRejectToggle(r) ==
  /\ Writes(r, "rejectToggle", LAMBDA row, q, t :
            AfterRejected(row, ~q.seen.on, q.in.reason, t))
  /\ UNCHANGED pushed

handleJobApproved(r) ==
  /\ Writes(r, "approved", LAMBDA row, q, t : AfterApproved(row, q.in.on, q.in.notes, t))
  /\ UNCHANGED pushed

\* The toggle sends the note it read along, unless the form has one.
NoteOfToggle(q) == IF q.in.notes = Absent THEN q.seen.notes ELSE q.in.notes

handleJobApproveToggle(r) ==
  /\ Writes(r, "approveToggle", LAMBDA row, q, t :
            AfterApproved(row, ~q.seen.on, NoteOfToggle(q), t))
  /\ UNCHANGED pushed

handleJobNotes(r) ==
  /\ Writes(r, "notes", LAMBDA row, q, t : AfterNotes(row, q.in.notes))
  /\ UNCHANGED pushed

handleJobPrep(r) ==
  /\ Writes(r, "prep", LAMBDA row, q, t : AfterPrep(row, q.in.on))
  /\ UNCHANGED pushed

\* handleJobShow; handleJobGo marks the lead in the same way.
handleJobShow(r) ==
  /\ Writes(r, "view", LAMBDA row, q, t : AfterViewed(row, t))
  /\ UNCHANGED pushed

handleJobChecked(r) ==
  /\ Writes(r, "touch", LAMBDA row, q, t : AfterChecked(row, t))
  /\ UNCHANGED pushed

handleJobEventAdd(r) ==
  /\ Writes(r, "event", LAMBDA row, q, t : AfterEvent(row, t))
  /\ UNCHANGED pushed

\* handleJobAppStatus, and the buttons of the lead's page.
handleJobAppStatus(r) ==
  /\ Writes(r, "status", LAMBDA row, q, t : AfterStatus(row, q.seen, q.in.app, t))
  /\ pushed' = IF requests[r].in.app \notin {Blank, requests[r].seen.app}
               THEN pushed \ {requests[r].lead} ELSE pushed

Tick == now < MaxTime /\ now' = now + 1 /\ UNCHANGED <<rows, requests, pushed>>

Restart ==
  /\ requests' = [r \in Requests |-> Idle]
  /\ UNCHANGED <<now, rows, pushed>>

Next ==
  \/ \E r \in Requests, l \in Leads, in \in Inputs : Start(r, l, in)
  \/ \E r \in Requests :
       \/ UpsertJobs(r)
       \/ handleJobApplied(r) \/ handleJobAppliedToggle(r)
       \/ handleJobRejected(r) \/ handleJobRejectToggle(r)
       \/ handleJobApproved(r) \/ handleJobApproveToggle(r)
       \/ handleJobNotes(r) \/ handleJobPrep(r) \/ handleJobShow(r)
       \/ handleJobChecked(r) \/ handleJobEventAdd(r) \/ handleJobAppStatus(r)
  \/ Tick
  \/ Restart

Spec == Init /\ [][Next]_vars

-----------------------------------------------------------------------------

OnBoard == {l \in Leads : rows[l] # NoLead}

\* The three readers of the ladder agree: every lead is found under the chip of
\* the status it is shown with, the chips of outcomes and of applications show
\* nothing else, and a tile counts the leads that the chip it links to lists.
ChipOfTile == [ToReview |-> "to-review", ToSend |-> "approved", InProcess |-> "applied",
               Rejected |-> "rejected", Hired |-> "hired"]
ReadersAgree ==
  \A l \in OnBoard :
    /\ Chip(jobStatus(rows[l]), rows[l])
    /\ \A c \in {"applied", "rejected", "hired"} : Chip(c, rows[l]) => c = jobStatus(rows[l])
    /\ \A t \in DOMAIN ChipOfTile : Tile(t, rows[l]) <=> Chip(ChipOfTile[t], rows[l])

\* A date that was set stays what it was until it is cleared, whatever requests
\* cross, and a lead once opened stays opened: "applied 6 days ago, still no
\* reply" stays true.
Sticks(old, new) ==
  /\ \A stamp \in {"applied", "rejected", "approved"} :
       old[stamp] = 0 \/ new[stamp] \in {0, old[stamp]}
  /\ old.viewed # 0 => new.viewed = old.viewed
StampsAreSticky == [][\A l \in OnBoard : Sticks(rows[l], rows'[l])]_vars

\* The board never shows a rejection whose cause nobody recorded.
RejectionHasReason ==
  \A l \in OnBoard : rows[l].rejected # 0 => rows[l].reason # Blank

\* The newest status event tells the status of the application, unless a push
\* set it, which writes no event, or it was cleared.
TimelineTellsStatus ==
  \A l \in OnBoard \ pushed : rows[l].app # Blank => rows[l].told = rows[l].app
==============================================================================
