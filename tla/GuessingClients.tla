--------------------------- MODULE GuessingClients ---------------------------
(***************************************************************************)
(* Tracker with clients that count versions themselves: If-Match may name  *)
(* any number, also one that no response has carried yet.  ifMatchVersion  *)
(* accepts every positive number, so such a request enters the handler     *)
(* like any other.                                                         *)
(***************************************************************************)
EXTENDS MCTracker

\* A PATCH arrives with a version that is the client's own idea.
GuessPatch(c, h, p, v) ==
  /\ views[c] # NoView
  /\ pending[h] = Idle
  /\ pending' = [pending EXCEPT ![h] =
       [client |-> c, job |-> views[c].job, ifMatch |-> v,
        patch |-> p, base |-> NotRead]]
  /\ UNCHANGED <<rows, events, views, births, created, posted>>

GuessNext ==
  \/ Next
  \/ \E c \in Clients, h \in Handlers, p \in Patches, v \in 1..MaxVersion :
        GuessPatch(c, h, p, v)

GuessSpec == Init /\ [][GuessNext]_vars

\* "the caller edited a row that changed since it was read" is refused: a PATCH
\* that commits found the row as the handler had read it.
EditsWhatItRead ==
  \A h \in Handlers : Commits(h) => pending[h].base = rows[pending[h].job]

RefusesChangedRows == [][EditsWhatItRead]_vars
==============================================================================
