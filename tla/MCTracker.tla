------------------------------ MODULE MCTracker ------------------------------
(* Instances of Tracker for TLC.                                           *)
EXTENDS Tracker, TLC

CONSTANTS saved, applied, talking, k1, e1

Content3(s, lo, hi) == [stage |-> s, min |-> lo, max |-> hi]
Note(s)     == [kind |-> "note", stage |-> s, happened |-> 0]
Check(t)    == [kind |-> "check", stage |-> Blank, happened |-> t]

\* Run edits: two clients at work on one job.  Each moves the stage or one of
\* the two salary fields; the patches <<min 2>> and <<max 1>> are refused only
\* when they are judged together.
EditBodies  == {Content3(Blank, Null, Null)}
EditPatches == {Content3(applied, Absent, Absent), Content3(Absent, 2, Absent),
                Content3(Absent, Absent, 1), Content3(Blank, Absent, Absent)}
EditPosts   == {Note(talking), Check(0)}

\* Run timeline: one client, and everything that writes events: notes and checks
\* with and without a stage and a time, stage changes, posts under a reserved
\* key.  The job may be an imported one that was last checked at time 1 and whose
\* stage is not the one of its imported milestone.
TimelineBodies  == {Content3(Blank, Null, Null)}
TimelinePatches == {Content3(applied, Absent, Absent), Content3(Blank, Null, Absent)}
TimelinePosts   == {Note(talking), Note(Blank), Check(0), Check(1), Check(2), Check(Spaces)}

LegacyRow(s, t) == [key |-> k1, version |-> 1, content |-> Content3(s, Null, Null),
                    checked |-> t, payload |-> Imported]
Milestone(s, t) == [key |-> e1, kind |-> "status", stage |-> s, happened |-> t]
TimelineLegacy ==
  {[row |-> LegacyRow(talking, 1), log |-> <<Milestone(applied, 2)>>]}

\* Run creates: two identities, three bodies for each, two of them the same
\* request, on jobs that are edited and moved meanwhile.
CreateBodies  == {Content3(Blank, Null, Null), Content3(saved, Null, Null),
                  Content3(applied, Null, Null)}
CreatePatches == {Content3(applied, Absent, Absent), Content3(saved, Absent, Absent)}
CreatePosts   == {Note(applied)}
CreateLegacy  == {[row |-> LegacyRow(saved, 0), log |-> <<>>]}

Symmetry == Permutations(Clients) \cup Permutations(Handlers)
==============================================================================
