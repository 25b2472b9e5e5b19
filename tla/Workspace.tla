------------------------------ MODULE Workspace ------------------------------
(***************************************************************************)
(* The start and the pages of the workspace: the migrations that open the  *)
(* database (Migration), and what is read of the tracker once it is served *)
(* (Overview).  Nothing is read before the database is open, so that a     *)
(* behaviour is explored one `part` at a time, the other idle.             *)
(***************************************************************************)
EXTENDS Migration

CONSTANTS
  Parts,   \* the parts to explore
  MaxId, PageSize, Stages, Profiles, Filters, Readers, NoRow, Idle, Timeline  \* Overview

VARIABLES part, jobs, events, lastEvent, walks

shown == <<jobs, events, lastEvent, walks>>
workspaceVars == <<part, vars, shown>>

Pages == INSTANCE Overview

ASSUME WorkspaceAssumption == Pages!OverviewAssumption

\* Beside the pages the file is a new one, and read as it is.
WorkspaceInit ==
  /\ part \in Parts
  /\ Init
  /\ part # "start" =>
       /\ held = {}
       /\ \A l \in Leads : file[l] = [identity |-> CHOOSE k \in Identities : TRUE, timeline |-> FALSE]
  /\ Pages!Init

StartNext == part = "start" /\ Next /\ UNCHANGED <<part, shown>>
PagesNext == part = "pages" /\ Pages!Next /\ UNCHANGED <<part, vars>>

StartGoesOn == part = "start" /\ (Statement \/ Refused) /\ UNCHANGED <<part, shown>>

\* The fairness of Migration!FairSpec.
WorkspaceSpec ==
  /\ WorkspaceInit /\ [][StartNext \/ PagesNext]_workspaceVars
  /\ WF_workspaceVars(StartGoesOn)

-----------------------------------------------------------------------------

\* Migration: the server opens in the end, however often it crashed on the way,
\* unless a lead that the import leaves out has a timeline.
StartOpens == part = "start" => OpensInTheEnd

\* Overview: a reader that follows the cursors misses nothing and sees nothing twice.
WalksAreExact == Pages!WalksAreExact

\* Overview: the number on a tile is the length of the list its link opens, and
\* the numbers add up.
StatisticsAddUp == Pages!TilesCountTheirLists /\ Pages!FunnelAddsUp
==============================================================================
