------------------------------- MODULE MCBoard -------------------------------
(***************************************************************************)
(* Board for TLC.  The ladder and the owners are explored in two scenes    *)
(* each, which choose from the requests and bounds of Board: a behaviour   *)
(* of a scene is one of Board.                                             *)
(***************************************************************************)
EXTENDS Board

CONSTANTS x,   \* a reason, or a note
          r1   \* the request that goes alone

VARIABLE scene

Pushes(applied, rejected, reason, approved, prep, app) ==
  [op |-> "push", applied |-> applied, rejected |-> rejected, reason |-> reason,
   approved |-> approved, notes |-> Blank, prep |-> prep, app |-> app]
BarePush == Pushes(Absent, Absent, Blank, Absent, FALSE, Blank)

\* Everything that moves the stamps of a lead.
FlagInputs ==
  {BarePush,
   Pushes(TRUE, Absent, Blank, FALSE, TRUE, Blank),
   Pushes(FALSE, TRUE, x, TRUE, FALSE, "hired"),
   Pushes(Absent, TRUE, Blank, Absent, FALSE, Blank),
   Pushes(Absent, FALSE, x, Absent, FALSE, "rejected"),
   [op |-> "appliedToggle"], [op |-> "view"],
   [op |-> "rejectToggle", reason |-> x],
   [op |-> "approveToggle", notes |-> Absent],
   [op |-> "rejected", on |-> TRUE, reason |-> Blank],
   [op |-> "rejected", on |-> FALSE, reason |-> x]}

\* Application statuses, checks, notes and pushes.
StatusInputs ==
  {BarePush, Pushes(Absent, Absent, Blank, Absent, FALSE, "hired")}
  \cup {[op |-> "status", app |-> a] : a \in {Blank, "in_process", "rejected", "hired"}}
  \cup {[op |-> "applied", on |-> TRUE], [op |-> "prep", on |-> FALSE],
        [op |-> "touch"], [op |-> "event"], [op |-> "appliedToggle"],
        [op |-> "notes", notes |-> x], [op |-> "notes", notes |-> Blank],
        [op |-> "approved", on |-> TRUE, notes |-> Blank],
        [op |-> "rejected", on |-> TRUE, reason |-> x],
        [op |-> "approveToggle", notes |-> Absent]}

AnyInput == FlagInputs \cup StatusInputs

Scenes == [identity |-> {"identity"}, ladder |-> {"flags", "status"}, links |-> {"links"},
           owners |-> {"owners", "texts"}]

\* What requests ask for, on the ladder and of the profiles.
Asked(inputs) == \A r \in Requests : moving[r] # Idle => moving[r].in \in inputs
Sent(ops) == \A r \in Requests : asking[r] # Idle => asking[r].op \in ops

\* Two requests that cross on the stamps of a lead; one at a time on its status,
\* for longer; two that cross on the links of two leads; two that cross on the
\* texts of the profiles of one lead.
InScene ==
  CASE scene = "identity" -> now < MaxTime
    [] scene = "flags"  -> Asked(FlagInputs) /\ clock < MaxTime
    [] scene = "status" -> Asked(StatusInputs) /\ \A r \in Requests \ {r1} : moving[r] = Idle
    [] scene = "owners" -> Sent({"share", "unshare"})
    [] scene = "texts"  -> Sent({"share", "describe", "seed"}) /\ \A i \in 2..MaxOwned : lead[i] = NoRow
    [] OTHER -> TRUE

MCInit == BoardInit /\ scene \in Scenes[part]
MCNext == BoardNext /\ scene' = scene /\ InScene'
MCSpec == MCInit /\ [][MCNext]_<<scene, boardVars>>
==============================================================================
