------------------------------- MODULE Sessions -------------------------------
(***************************************************************************)
(* Browser sessions: the table browser_sessions, which survives restarts,  *)
(* and the handlers of the workspace that issue, look up and retire a      *)
(* session.  A session belongs to the scope of the server that issued it,  *)
(* a hash of its origin and its key; a restart may change the key.         *)
(*                                                                         *)
(* Looking a session up is a SELECT, and for an expired one a DELETE in a  *)
(* statement of its own; logging out is a SELECT and then a DELETE.  Other *)
(* requests run in between.  Tokens are random, so that no two sign-ins    *)
(* share one, and are numbered in the order of the sign-ins.               *)
(***************************************************************************)
EXTENDS Naturals, FiniteSets

CONSTANTS
  Tokens,    \* session tokens, in the order of their sign-ins
  Scopes,    \* authentication scopes
  Requests,  \* requests with a cookie that may be in flight at once
  TTL,       \* sessionTTL, in ticks of the clock
  MaxRows,   \* browserSessionMaxRows
  NoRow, Idle

ASSUME SessionsAssumption ==
  /\ Tokens \subseteq Nat /\ TTL \in Nat \ {0} /\ MaxRows \in Nat \ {0}
  /\ NoRow \notin [scope : Scopes, left : Nat] \cup [scope : Scopes, age : Nat]
  /\ Idle \notin [at : {"expired", "in", "leaving"}, token : Tokens]

VARIABLES
  rows,      \* browser_sessions: token -> its session
  scope,     \* Server.authScope of the running server
  requests,  \* the requests that have looked their session up
  \* History variables: no handler reads them.
  issued,    \* token -> the scope and the age of its session, once it was issued
  out        \* the tokens whose logout was answered

vars == <<rows, scope, requests, issued, out>>

Row == [scope : Scopes, left : 0..TTL]
Issue == [scope : Scopes, age : 0..TTL]

TypeOK ==
  /\ rows \in [Tokens -> Row \cup {NoRow}]
  /\ scope \in Scopes
  /\ requests \in [Requests -> [at : {"expired", "in", "leaving"}, token : Tokens] \cup {Idle}]
  /\ issued \in [Tokens -> Issue \cup {NoRow}]
  /\ out \subseteq Tokens

Init ==
  /\ rows = [t \in Tokens |-> NoRow]
  /\ scope \in Scopes
  /\ requests = [r \in Requests |-> Idle]
  /\ issued = [t \in Tokens |-> NoRow]
  /\ out = {}

-----------------------------------------------------------------------------

In(f) == {t \in Tokens : f[t] # NoRow}
Expired(t) == rows[t].left = 0

\* The sets of n rows that are nearest to their expiry; the token's hash, which
\* is random, decides between equals.
FarthestExpiry(S, n) ==
  {E \in SUBSET S : /\ Cardinality(E) = n
                    /\ \A e \in E, k \in S \ E : rows[e].left >= rows[k].left}
NearestExpiry(S, n) ==
  {E \in SUBSET S : /\ Cardinality(E) = n
                    /\ \A e \in E, k \in S \ E : rows[e].left <= rows[k].left}

\* What SaveBrowserSession may evict to hold the table at its bound: never the
\* row it has just inserted.
Evicted(kept) ==
  LET over == Cardinality(kept) + 1 - MaxRows
  IN  IF over > 0 THEN NearestExpiry(kept, over) ELSE {{}}

NewRow == [scope |-> scope, left |-> TTL]

\* newSession and SaveBrowserSession: one transaction prunes, inserts, evicts.
SignIn(t) ==
  /\ issued[t] = NoRow /\ \A u \in Tokens : u < t => issued[u] # NoRow
  /\ LET kept == {u \in In(rows) : ~Expired(u)} IN
     \E evicted \in Evicted(kept) :
       rows' = [u \in Tokens |->
                 IF u = t THEN NewRow
                 ELSE IF u \in kept \ evicted THEN rows[u] ELSE NoRow]
  /\ issued' = [issued EXCEPT ![t] = [scope |-> scope, age |-> 0]]
  /\ UNCHANGED <<scope, requests, out>>

\* The row that ReadBrowserSession selects for a cookie.
Found(t) == rows[t] # NoRow /\ rows[t].scope = scope

\* Session lookup of a page or of a write (at "in"), or of a logout ("leaving").
Lookup(r, t, at) ==
  /\ requests[r] = Idle
  /\ Found(t)
  /\ requests' = [requests EXCEPT ![r] =
                   [at |-> IF Expired(t) THEN "expired" ELSE at, token |-> t]]
  /\ UNCHANGED <<rows, scope, issued, out>>

\* The second statement of looking up an expired session.
DropOwn(r) ==
  LET t == requests[r].token
  IN  rows' = [rows EXCEPT ![t] = IF Found(t) THEN NoRow ELSE @]

DropExpired(r) ==
  /\ requests[r] # Idle /\ requests[r].at = "expired"
  /\ DropOwn(r)
  /\ requests' = [requests EXCEPT ![r] = Idle]
  /\ UNCHANGED <<scope, issued, out>>

\* handleLogout after its checks: destroySession, and the answer.
KeepRow(r) == rows' = rows
Destroy(r) == DropOwn(r)

Logout(r) ==
  /\ requests[r] # Idle /\ requests[r].at = "leaving"
  /\ Destroy(r)
  /\ out' = out \cup {requests[r].token}
  /\ requests' = [requests EXCEPT ![r] = Idle]
  /\ UNCHANGED <<scope, issued>>

\* A page is rendered, a write is done, or the request is refused because of its
\* origin or its CSRF token.
Answer(r) ==
  /\ requests[r] # Idle /\ requests[r].at \in {"in", "leaving"}
  /\ requests' = [requests EXCEPT ![r] = Idle]
  /\ UNCHANGED <<rows, scope, issued, out>>

Tick ==
  /\ rows' = [t \in Tokens |->
       IF rows[t] = NoRow \/ Expired(t) THEN rows[t]
       ELSE [rows[t] EXCEPT !.left = @ - 1]]
  /\ issued' = [t \in Tokens |->
       IF issued[t] = NoRow \/ issued[t].age = TTL THEN issued[t]
       ELSE [issued[t] EXCEPT !.age = @ + 1]]
  /\ UNCHANGED <<scope, requests, out>>

\* The server is restarted, perhaps with another key, or with an earlier one.
Restart(s) ==
  /\ scope' = s
  /\ requests' = [r \in Requests |-> Idle]
  /\ UNCHANGED <<rows, issued, out>>

Next ==
  \/ \E t \in Tokens : SignIn(t)
  \/ \E r \in Requests, t \in Tokens, at \in {"in", "leaving"} : Lookup(r, t, at)
  \/ \E r \in Requests : DropExpired(r) \/ Logout(r) \/ Answer(r)
  \/ Tick
  \/ \E s \in Scopes : Restart(s)

Spec == Init /\ [][Next]_vars

-----------------------------------------------------------------------------

\* A request is let in only with a session issued under the key the server runs
\* with, and never with one that was logged out before the request looked it up,
\* whatever keys the server was restarted with in between.
LetIn(r) == requests'[r] # Idle /\ requests'[r] # requests[r] /\ requests'[r].at # "expired"
OnlyOwnSessionsLetIn ==
  [][\A r \in Requests : LetIn(r) =>
       LET t == requests'[r].token
       IN  /\ issued[t] # NoRow /\ issued[t].scope = scope /\ issued[t].age < TTL
           /\ t \notin out]_vars

\* A session stays good until it is logged out or expires: it may be evicted, but
\* only after MaxRows sign-ins that are not older, under whatever keys.  No
\* lookup, restart or change of key logs anybody out.
RecentSessionsSurvive ==
  \A t \in Tokens :
    (issued[t] # NoRow /\ issued[t].age < TTL /\ t \notin out /\ rows[t] = NoRow) =>
      Cardinality({u \in In(issued) \ {t} : issued[u].age <= issued[t].age}) >= MaxRows

\* The table stays within its bound.
TableIsBounded == Cardinality(In(rows)) <= MaxRows
==============================================================================
