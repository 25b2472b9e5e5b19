-------------------------------- MODULE Board --------------------------------
(***************************************************************************)
(* The rows of the legacy board: which row a push lands on (LeadIdentity), *)
(* how far a row has come (Ladder), which rows are mirrors                 *)
(* (DuplicateLinks) and whose they are (ProfileLinks).  Each reads and     *)
(* writes columns and tables of its own, so that a behaviour of their      *)
(* composition is explored one `part` at a time, the others idle.          *)
(***************************************************************************)
EXTENDS LeadIdentity

CONSTANTS
  Parts,      \* the parts to explore
  Requests,   \* requests that may be in flight at once
  Climbers, Inputs, Remarks, Absent, NoLead,  \* Ladder: its leads, its texts
  Linkers, MaxLinked,                         \* DuplicateLinks: its requests, its ids
  Deletable, Fields, Ops, MaxOwned            \* ProfileLinks

VARIABLES
  part,
  clock, rows, moving, pushed,   \* Ladder
  duplicateOf, linking,          \* DuplicateLinks
  lead, link, text, asking       \* ProfileLinks

ladder == <<clock, rows, moving, pushed>>
links == <<duplicateOf, linking>>
owners == <<lead, link, text, asking>>
boardVars == <<part, vars, ladder, links, owners>>

Steps == INSTANCE Ladder WITH
  Leads <- Climbers, Texts <- Remarks, now <- clock, requests <- moving
Links == INSTANCE DuplicateLinks WITH
  MaxId <- MaxLinked, Deletable <- 1..MaxLinked, Requests <- Linkers, requests <- linking
Owners == INSTANCE ProfileLinks WITH MaxId <- MaxOwned, Profiles <- Boards, requests <- asking

ASSUME BoardAssumption ==
  Steps!LadderAssumption /\ Links!DuplicateLinksAssumption /\ Owners!ProfileLinksAssumption

BoardInit == part \in Parts /\ Init /\ Steps!Init /\ Links!Init /\ Owners!Init

IdentityNext == part = "identity" /\ Next /\ UNCHANGED <<part, ladder, links, owners>>
LadderNext == part = "ladder" /\ Steps!Next /\ UNCHANGED <<part, vars, links, owners>>
LinksNext == part = "links" /\ Links!Next /\ UNCHANGED <<part, vars, ladder, owners>>
OwnersNext == part = "owners" /\ Owners!Next /\ UNCHANGED <<part, vars, ladder, links>>

BoardNext == IdentityNext \/ LadderNext \/ LinksNext \/ OwnersNext

BoardSpec == BoardInit /\ [][BoardNext]_boardVars

-----------------------------------------------------------------------------

\* The types of every part.
TypesOK == TypeOK /\ Steps!TypeOK /\ Links!TypeOK /\ Owners!TypeOK

\* Ladder: the status that is shown, the chips and the tiles agree.
ReadersAgree == Steps!ReadersAgree

\* Ladder: the board never shows a rejection whose cause nobody recorded.
RejectionHasReason == Steps!RejectionHasReason

\* Ladder: a date that was set stays until it is cleared, whatever requests cross.
StampsAreSticky == Steps!StampsAreSticky

\* At most one request is about to move a lead on the ladder.
OneMoves == \A r, s \in Requests : moving[r] # Idle /\ moving[s] # Idle => r = s

\* Ladder: the newest status event tells the status, when requests do not cross.
TimelineTellsStatus == Steps!TimelineTellsStatus

\* DuplicateLinks: reads are one hop, when link requests do not cross.
OneHop == Links!OneHop

\* ProfileLinks: a lead belongs to the one profile it was pushed for.
OneOwner == Owners!OneOwner

\* ProfileLinks: a seed never overwrites what a person wrote.
HumanTextStays == Owners!HumanTextStays
==============================================================================
