----------------------------- MODULE MCWorkspace -----------------------------
(***************************************************************************)
(* Workspace for TLC.  The pages are explored in two scenes, which choose  *)
(* from the jobs and readers of Workspace: a behaviour of a scene is one   *)
(* of Workspace.                                                           *)
(***************************************************************************)
EXTENDS Workspace

VARIABLE scene

Board(stage, needsYou) ==
  [profile |-> "", activeOnly |-> TRUE, noArchived |-> stage # "archived",
   stage |-> stage, needsYou |-> needsYou]

Boards == {Board("", FALSE), Board("", TRUE), Board("archived", FALSE)}

Scenes == [start |-> {"start"}, pages |-> {"walks", "counts"}]

Jobs == {jobs[i] : i \in 1..MaxId} \ {NoRow}

\* A reader that pages through jobs of two stages, and through a timeline; two
\* jobs of any stage, of the active profiles and of a retired one.
InScene ==
  CASE scene = "walks"  -> \A row \in Jobs : row.stage \in {"saved", "archived"} /\ row.profile = "sergey"
    [] scene = "counts" -> /\ lastEvent = 0 /\ jobs[MaxId] = NoRow
                           /\ \A r \in Readers : walks[r] = Idle
    [] OTHER -> TRUE

MCInit == WorkspaceInit /\ scene \in Scenes[part]
MCNext == (StartNext \/ PagesNext) /\ scene' = scene /\ InScene'
MCSpec ==
  /\ MCInit /\ [][MCNext]_<<scene, workspaceVars>>
  /\ WF_workspaceVars(StartGoesOn)
==============================================================================
