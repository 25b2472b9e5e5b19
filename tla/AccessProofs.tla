---------------------------- MODULE AccessProofs ----------------------------
(***************************************************************************)
(* Who is let in, for any number of tokens, requests, keys, addresses and  *)
(* visitors, and for tables of any size.                                   *)
(*                                                                         *)
(* Sessions: a row agrees with what was issued and was never logged out; a *)
(* request in flight holds a token whose row, if it is still there, is of  *)
(* the running server, so that its DELETE finds it.  A row is evicted only *)
(* for a table full of rows that have no less time left, and these are the *)
(* sessions issued after it (LastingInv).                                  *)
(*                                                                         *)
(* Legacy keys: an entry is dated, and blocks exactly when its count says  *)
(* so, until its time is up (GuardInv).                                    *)
(*                                                                         *)
(* Login: an entry has the age and the time left of what the history has   *)
(* recorded, so that the address that is forgotten is one whose failures   *)
(* are older than those of a full table (LoginInv).  The wrong keys of a   *)
(* quarter hour are kept in books: those of the running window are no more *)
(* than its count, those before it are one less than a window can answer,  *)
(* and a window's count with the requests in flight is within the limit    *)
(* and the overshoot (GuessInv).                                           *)
(***************************************************************************)
EXTENDS Access, RowIds, FunctionTheorems

\* A row is the session that was issued, with what is left of its time.
RowsAreIssued ==
  \A t \in Tokens : rows[t] # NoRow =>
    /\ issued[t] # NoRow /\ issued[t].scope = rows[t].scope
    /\ issued[t].age + rows[t].left = TTL
    /\ t \notin out

\* A logged out token was issued once, and will never be again.
OutWasIssued == \A t \in out : issued[t] # NoRow

\* What a request looked up is of the running server, or gone.
RequestsAreOwn ==
  \A r \in Requests : requests[r] # Idle =>
    LET t == requests[r].token
    IN  issued[t] # NoRow /\ (rows[t] # NoRow => rows[t].scope = scope)

Inv == TypeOK /\ RowsAreIssued /\ OutWasIssued /\ RequestsAreOwn

-----------------------------------------------------------------------------

\* The values that stand for no row and for no request are none.
LEMMA Sentinels ==
  /\ NoRow \notin Row /\ NoRow \notin Issue
  /\ Idle \notin [at : {"expired", "in", "leaving"}, token : Tokens]
<1>1. Row \subseteq [scope : Scopes, left : Nat]
  BY SessionsAssumption DEF Row
<1>2. Issue \subseteq [scope : Scopes, age : Nat]
  BY SessionsAssumption DEF Issue
<1> QED
  BY <1>1, <1>2, SessionsAssumption

\* Nobody is signed in, nothing is in flight.
LEMMA InitInv == Init => Inv
  BY DEF Init, Inv, TypeOK, RowsAreIssued, OutWasIssued, RequestsAreOwn

\* A request drops only a row of the token it holds.
LEMMA DropOwnDrops ==
  ASSUME Inv, NEW r \in Requests, requests[r] # Idle, DropOwn(r)
  PROVE  /\ rows' \in [Tokens -> Row \cup {NoRow}]
         /\ \A t \in Tokens : rows'[t] \in {rows[t], NoRow}
         /\ rows'[requests[r].token] = NoRow
<1> DEFINE t == requests[r].token
<1>1. t \in Tokens /\ rows \in [Tokens -> Row \cup {NoRow}]
  BY DEF Inv, TypeOK
<1>2. rows[t] # NoRow => Found(t)
  BY DEF Inv, RequestsAreOwn, Found
<1>3. rows' = [rows EXCEPT ![t] = IF Found(t) THEN NoRow ELSE @]
  BY DEF DropOwn
<1> HIDE DEF t
<1>4. rows'[t] = NoRow
  BY <1>1, <1>2, <1>3
<1> QED
  BY <1>1, <1>3, <1>4 DEF t

\* A sign-in adds the row it issues; expired and evicted ones go.
LEMMA SignInKeeps == ASSUME Inv, NEW t \in Tokens, SignIn(t) PROVE Inv'
<1> USE DEF Inv
<1> DEFINE kept == {u \in In(rows) : ~Expired(u)}
<1>1. PICK evicted \in Evicted(kept) :
        rows' = [u \in Tokens |->
                  IF u = t THEN NewRow
                  ELSE IF u \in kept \ evicted THEN rows[u] ELSE NoRow]
  BY DEF SignIn
<1> HIDE DEF kept
<1>2. NewRow \in Row /\ NewRow.scope = scope /\ NewRow.left = TTL
  BY SessionsAssumption DEF NewRow, Row, TypeOK
<1>3. /\ issued' = [issued EXCEPT ![t] = [scope |-> scope, age |-> 0]]
      /\ issued[t] = NoRow /\ UNCHANGED <<scope, requests, out>>
  BY DEF SignIn
<1>4. [scope |-> scope, age |-> 0] \in Issue
  BY SessionsAssumption DEF Issue, TypeOK
<1>5. TypeOK'
  BY <1>1, <1>2, <1>3, <1>4 DEF TypeOK
<1>6. t \notin out
  BY <1>3 DEF OutWasIssued
<1>7. ASSUME NEW u \in Tokens PROVE u # t => issued'[u] = issued[u] /\ rows'[u] \in {rows[u], NoRow}
  BY <1>1, <1>3 DEF TypeOK
<1>8. /\ issued'[t].scope = scope /\ issued'[t].age = 0 /\ issued'[t] # NoRow
      /\ rows'[t] = NewRow
  BY <1>1, <1>3, <1>4, Sentinels DEF TypeOK
<1>9. RowsAreIssued'
  <2> SUFFICES ASSUME NEW u \in Tokens, rows'[u] # NoRow
               PROVE  /\ issued'[u] # NoRow /\ issued'[u].scope = rows'[u].scope
                      /\ issued'[u].age + rows'[u].left = TTL
                      /\ u \notin out'
    BY DEF RowsAreIssued
  <2>1. CASE u = t
    BY <2>1, <1>2, <1>3, <1>6, <1>8, SessionsAssumption
  <2>2. CASE u # t
    BY <2>2, <1>3, <1>7 DEF RowsAreIssued
  <2> QED
    BY <2>1, <2>2
<1>10. OutWasIssued'
  BY <1>3, <1>6, <1>7 DEF OutWasIssued, TypeOK
<1>11. RequestsAreOwn'
  <2> SUFFICES ASSUME NEW r \in Requests, requests[r] # Idle
               PROVE  LET u == requests[r].token
                      IN  issued'[u] # NoRow /\ (rows'[u] # NoRow => rows'[u].scope = scope)
    BY <1>3 DEF RequestsAreOwn
  <2>1. requests[r].token \in Tokens /\ issued[requests[r].token] # NoRow
    BY DEF TypeOK, RequestsAreOwn
  <2> QED
    BY <2>1, <1>3, <1>7 DEF RequestsAreOwn
<1> QED
  BY <1>5, <1>9, <1>10, <1>11

\* A lookup holds a token whose row it has just found.
LEMMA LookupKeeps ==
  ASSUME Inv, NEW r \in Requests, NEW t \in Tokens, NEW at \in {"in", "leaving"}, Lookup(r, t, at)
  PROVE  Inv'
<1> USE DEF Inv
<1> DEFINE q == [at |-> IF Expired(t) THEN "expired" ELSE at, token |-> t]
<1>1. q \in [at : {"expired", "in", "leaving"}, token : Tokens] /\ q.token = t
  OBVIOUS
<1>2. requests' = [requests EXCEPT ![r] = q] /\ UNCHANGED <<rows, scope, issued, out>> /\ Found(t)
  BY DEF Lookup
<1> HIDE DEF q
<1>3. TypeOK'
  BY <1>1, <1>2 DEF TypeOK
<1>4. RowsAreIssued' /\ OutWasIssued'
  BY <1>2 DEF RowsAreIssued, OutWasIssued
<1>5. RequestsAreOwn'
  BY <1>1, <1>2 DEF RequestsAreOwn, RowsAreIssued, Found, TypeOK
<1> QED
  BY <1>3, <1>4, <1>5

\* Dropping the token of a request that ends.
LEMMA DropKeeps ==
  ASSUME Inv, NEW r \in Requests, requests[r] # Idle, DropOwn(r),
         requests' = [requests EXCEPT ![r] = Idle], UNCHANGED <<scope, issued>>,
         out' = out \/ out' = out \cup {requests[r].token}
  PROVE  Inv'
<1> USE DEF Inv
<1>1. /\ rows' \in [Tokens -> Row \cup {NoRow}]
      /\ \A t \in Tokens : rows'[t] \in {rows[t], NoRow}
      /\ rows'[requests[r].token] = NoRow
  BY DropOwnDrops
<1>2. requests[r].token \in Tokens /\ issued[requests[r].token] # NoRow
  BY DEF TypeOK, RequestsAreOwn
<1>3. TypeOK'
  BY <1>1, <1>2 DEF TypeOK
<1>4. RowsAreIssued'
  BY <1>1 DEF RowsAreIssued
<1>5. OutWasIssued'
  BY <1>2 DEF OutWasIssued
<1>6. RequestsAreOwn'
  BY <1>1 DEF RequestsAreOwn, TypeOK
<1> QED
  BY <1>3, <1>4, <1>5, <1>6

\* An answer touches no row.
LEMMA AnswerKeeps == ASSUME Inv, NEW r \in Requests, Answer(r) PROVE Inv'
  BY DEF Inv, TypeOK, RowsAreIssued, OutWasIssued, RequestsAreOwn, Answer

\* Time takes from every row what it adds to the age of its session.
LEMMA TickKeeps == ASSUME Inv, Tick PROVE Inv'
<1> USE DEF Inv
<1>1. UNCHANGED <<scope, requests, out>>
  BY DEF Tick
<1>2. ASSUME NEW t \in Tokens
      PROVE  /\ rows'[t] \in Row \cup {NoRow}
             /\ rows[t] = NoRow <=> rows'[t] = NoRow
             /\ rows[t] # NoRow => /\ rows'[t].scope = rows[t].scope
                                   /\ rows'[t].left = IF rows[t].left = 0 THEN 0 ELSE rows[t].left - 1
  <2>1. rows'[t] = IF rows[t] = NoRow \/ Expired(t) THEN rows[t] ELSE [rows[t] EXCEPT !.left = @ - 1]
    BY DEF Tick
  <2>2. CASE rows[t] = NoRow \/ Expired(t)
    BY <2>1, <2>2 DEF TypeOK, Expired, Row
  <2>3. CASE rows[t] # NoRow /\ ~Expired(t)
    <3>1. rows[t] \in Row /\ rows[t].left # 0
      BY <2>3 DEF TypeOK, Expired
    <3>2. rows'[t] = [rows[t] EXCEPT !.left = @ - 1]
      BY <2>1, <2>3
    <3>3. rows'[t] \in Row /\ rows'[t].scope = rows[t].scope /\ rows'[t].left = rows[t].left - 1
      BY <3>1, <3>2, SessionsAssumption DEF Row
    <3> QED
      BY <3>1, <3>3, <2>3, Sentinels
  <2> QED
    BY <2>2, <2>3
<1>3. ASSUME NEW t \in Tokens
      PROVE  /\ issued'[t] \in Issue \cup {NoRow}
             /\ issued[t] = NoRow <=> issued'[t] = NoRow
             /\ issued[t] # NoRow => /\ issued'[t].scope = issued[t].scope
                                     /\ issued'[t].age = IF issued[t].age = TTL THEN TTL ELSE issued[t].age + 1
  <2>1. issued'[t] = IF issued[t] = NoRow \/ issued[t].age = TTL THEN issued[t] ELSE [issued[t] EXCEPT !.age = @ + 1]
    BY DEF Tick
  <2>2. CASE issued[t] = NoRow \/ issued[t].age = TTL
    BY <2>1, <2>2 DEF TypeOK, Issue
  <2>3. CASE issued[t] # NoRow /\ issued[t].age # TTL
    <3>1. issued[t] \in Issue
      BY <2>3 DEF TypeOK
    <3>2. issued'[t] = [issued[t] EXCEPT !.age = @ + 1]
      BY <2>1, <2>3
    <3>3. issued'[t] \in Issue /\ issued'[t].scope = issued[t].scope /\ issued'[t].age = issued[t].age + 1
      BY <3>1, <3>2, <2>3, SessionsAssumption DEF Issue
    <3> QED
      BY <3>3, <2>3, Sentinels
  <2> QED
    BY <2>2, <2>3
<1>4. TypeOK'
  <2>1. rows' \in [Tokens -> Row \cup {NoRow}]
    BY <1>2 DEF Tick
  <2>2. issued' \in [Tokens -> Issue \cup {NoRow}]
    BY <1>3 DEF Tick
  <2> QED
    BY <1>1, <2>1, <2>2 DEF TypeOK
<1>5. RowsAreIssued'
  <2> SUFFICES ASSUME NEW t \in Tokens, rows'[t] # NoRow
               PROVE  /\ issued'[t] # NoRow /\ issued'[t].scope = rows'[t].scope
                      /\ issued'[t].age + rows'[t].left = TTL
                      /\ t \notin out'
    BY DEF RowsAreIssued
  <2>1. /\ rows[t] # NoRow /\ issued[t] # NoRow /\ issued[t].scope = rows[t].scope
        /\ issued[t].age + rows[t].left = TTL /\ t \notin out
    BY <1>2 DEF RowsAreIssued
  <2>2. rows[t].left \in 0..TTL /\ issued[t].age \in 0..TTL /\ TTL \in Nat
    BY <2>1, SessionsAssumption DEF TypeOK, Row, Issue
  <2>3. issued'[t].age + rows'[t].left = TTL
    BY <2>1, <2>2, <1>2, <1>3
  <2> QED
    BY <2>1, <2>3, <1>1, <1>2, <1>3
<1>6. OutWasIssued'
  BY <1>1, <1>3 DEF OutWasIssued, TypeOK
<1>7. RequestsAreOwn'
  <2> SUFFICES ASSUME NEW r \in Requests, requests[r] # Idle
               PROVE  LET u == requests[r].token
                      IN  issued'[u] # NoRow /\ (rows'[u] # NoRow => rows'[u].scope = scope)
    BY <1>1 DEF RequestsAreOwn
  <2>1. requests[r].token \in Tokens
    BY DEF TypeOK
  <2> QED
    BY <2>1, <1>2, <1>3 DEF RequestsAreOwn
<1> QED
  BY <1>4, <1>5, <1>6, <1>7

\* A restart drops the requests; the rows of the old key stay, and are not found.
LEMMA RestartKeeps == ASSUME Inv, NEW s \in Scopes, Restart(s) PROVE Inv'
  BY DEF Inv, TypeOK, RowsAreIssued, OutWasIssued, RequestsAreOwn, Restart

\* No step breaks the invariant.
LEMMA NextKeeps == ASSUME Inv, [Next]_vars PROVE Inv'
<1>1. CASE \E t \in Tokens : SignIn(t)
  BY <1>1, SignInKeeps
<1>2. CASE \E r \in Requests, t \in Tokens, at \in {"in", "leaving"} : Lookup(r, t, at)
  BY <1>2, LookupKeeps
<1>3. CASE \E r \in Requests : DropExpired(r)
  <2>1. PICK r \in Requests : DropExpired(r)
    BY <1>3
  <2> QED
    BY <2>1, DropKeeps DEF DropExpired
<1>4. CASE \E r \in Requests : Logout(r)
  <2>1. PICK r \in Requests : Logout(r)
    BY <1>4
  <2> QED
    BY <2>1, DropKeeps DEF Logout, Destroy
<1>5. CASE \E r \in Requests : Answer(r)
  BY <1>5, AnswerKeeps
<1>6. CASE Tick
  BY <1>6, TickKeeps
<1>7. CASE \E s \in Scopes : Restart(s)
  BY <1>7, RestartKeeps
<1>8. CASE UNCHANGED vars
  BY <1>8 DEF Inv, TypeOK, RowsAreIssued, OutWasIssued, RequestsAreOwn, vars
<1> QED
  BY <1>1, <1>2, <1>3, <1>4, <1>5, <1>6, <1>7, <1>8 DEF Next

\* Only Lookup lets a request in, and the row it finds is a live session of the
\* running server that was never logged out.
LEMMA LettingIn ==
  ASSUME Inv, [Next]_vars, NEW r \in Requests, LetIn(r)
  PROVE  LET t == requests'[r].token
         IN  /\ issued[t] # NoRow /\ issued[t].scope = scope /\ issued[t].age < TTL
             /\ t \notin out
<1> USE DEF Inv
<1>1. requests'[r] # Idle /\ requests'[r] # requests[r] /\ requests'[r].at # "expired"
  BY DEF LetIn
<1>2. PICK p \in Requests, t \in Tokens, at \in {"in", "leaving"} : Lookup(p, t, at)
  BY <1>1 DEF Next, vars, SignIn, DropExpired, Logout, Answer, Tick, Restart, TypeOK
<1> DEFINE q == [at |-> IF Expired(t) THEN "expired" ELSE at, token |-> t]
<1>3. requests' = [requests EXCEPT ![p] = q] /\ Found(t)
  BY <1>2 DEF Lookup
<1>4. requests'[r] = q
  BY <1>1, <1>3 DEF TypeOK
<1>5. ~Expired(t) /\ requests'[r].token = t
  BY <1>1, <1>4
<1>6. rows[t] # NoRow /\ rows[t].scope = scope
  BY <1>3 DEF Found
<1>7. rows[t].left \in 0..TTL /\ rows[t].left # 0 /\ TTL \in Nat /\ issued[t] \in Issue
  BY <1>5, <1>6, SessionsAssumption DEF TypeOK, Row, Expired, RowsAreIssued
<1>8. issued[t].age < TTL
  BY <1>6, <1>7 DEF RowsAreIssued, Issue
<1> QED
  BY <1>5, <1>6, <1>8 DEF RowsAreIssued

-----------------------------------------------------------------------------
(* The bound of the table, and what it takes to be evicted.                *)

\* The sessions that are not older than one.
Younger(t) == {u \in In(issued) \ {t} : issued[u].age <= issued[t].age}

\* A request that has found its session expired holds one that stays expired.
ExpiredStay ==
  \A r \in Requests : requests[r] # Idle /\ requests[r].at = "expired" =>
    issued[requests[r].token].age = TTL

LastingInv ==
  /\ Inv
  /\ IsFiniteSet(In(rows)) /\ IsFiniteSet(In(issued))
  /\ TableIsBounded /\ ExpiredStay /\ RecentSessionsSurvive

\* An eviction leaves room for one row, and takes those nearest to their expiry
\* when it has to take any.
LEMMA EvictionFits ==
  ASSUME NEW kept, IsFiniteSet(kept), NEW evicted \in Evicted(kept)
  PROVE  /\ IsFiniteSet(kept \ evicted) /\ Cardinality(kept \ evicted) \in Nat
         /\ Cardinality(kept \ evicted) + 1 <= MaxRows
         /\ evicted # {} => /\ Cardinality(kept \ evicted) + 1 = MaxRows
                            /\ \A e \in evicted, k \in kept \ evicted : rows[e].left <= rows[k].left
<1> DEFINE over == Cardinality(kept) + 1 - MaxRows
<1>1. Cardinality(kept) \in Nat /\ MaxRows \in Nat \ {0}
  BY FS_CardinalityType, SessionsAssumption
<1>2. CASE over > 0
  <2>1. /\ evicted \in SUBSET kept /\ Cardinality(evicted) = over
        /\ \A e \in evicted, k \in kept \ evicted : rows[e].left <= rows[k].left
    BY <1>2 DEF Evicted, NearestExpiry
  <2>2. kept \cap evicted = evicted
    BY <2>1
  <2>3. IsFiniteSet(kept \ evicted) /\ Cardinality(kept \ evicted) = Cardinality(kept) - over
    <3>1. /\ IsFiniteSet(kept \ evicted)
          /\ Cardinality(kept \ evicted) = Cardinality(kept) - Cardinality(kept \cap evicted)
      BY FS_Difference
    <3>2. Cardinality(kept \cap evicted) = over
      BY <2>1, <2>2
    <3> QED
      BY <3>1, <3>2
  <2>4. Cardinality(kept \ evicted) + 1 = MaxRows
    BY <1>1, <2>3
  <2>5. Cardinality(kept \ evicted) \in Nat
    BY <2>3, FS_CardinalityType
  <2> QED
    BY <1>1, <2>1, <2>3, <2>4, <2>5
<1>3. CASE ~(over > 0)
  <2>1. evicted = {}
    BY <1>3 DEF Evicted
  <2>2. kept \ evicted = kept
    BY <2>1
  <2>3. Cardinality(kept) + 1 <= MaxRows
    BY <1>1, <1>3
  <2> QED
    BY <1>1, <2>1, <2>2, <2>3
<1> QED
  BY <1>2, <1>3

\* As long as nothing of its kin is lost and none grows older than it.
LEMMA StillYounger ==
  ASSUME NEW Y, NEW S, IsFiniteSet(S), Y \subseteq S, Cardinality(Y) >= MaxRows
  PROVE  Cardinality(S) >= MaxRows
<1>1. Cardinality(Y) <= Cardinality(S) /\ Cardinality(S) \in Nat /\ Cardinality(Y) \in Nat
  BY FewerIds
<1> QED
  BY <1>1, SessionsAssumption

\* A table that only loses rows stays within its bound.
LEMMA FewerRows ==
  ASSUME IsFiniteSet(In(rows)), TableIsBounded, \A t \in Tokens : rows'[t] # NoRow => rows[t] # NoRow
  PROVE  IsFiniteSet(In(rows)') /\ TableIsBounded'
<1>1. In(rows)' \subseteq In(rows)
  BY DEF In
<1>2. /\ IsFiniteSet(In(rows)') /\ Cardinality(In(rows)') <= Cardinality(In(rows))
      /\ Cardinality(In(rows)') \in Nat /\ Cardinality(In(rows)) \in Nat
  BY <1>1, FewerIds
<1>3. Cardinality(In(rows)) <= MaxRows
  BY DEF TableIsBounded
<1>4. Cardinality(In(rows)') <= MaxRows
  BY <1>2, <1>3, SessionsAssumption
<1> QED
  BY <1>2, <1>4 DEF TableIsBounded

\* Sessions stay issued, and a step that takes the row only of what was logged out
\* or has expired leaves no survivor behind.
LEMMA NobodyForgotten ==
  ASSUME LastingInv, IsFiniteSet(In(issued)'),
         \A u \in Tokens : issued[u] # NoRow => issued'[u] # NoRow,
         \A u, t \in Tokens : issued[u] # NoRow /\ issued[t] # NoRow /\ issued[u].age <= issued[t].age
           => issued'[u].age <= issued'[t].age,
         \A t \in Tokens :
           issued'[t] # NoRow /\ issued'[t].age < TTL /\ t \notin out' /\ rows'[t] = NoRow
             => issued[t] # NoRow /\ issued[t].age < TTL /\ t \notin out /\ rows[t] = NoRow
  PROVE  RecentSessionsSurvive'
<1> SUFFICES ASSUME NEW t \in Tokens,
                    issued'[t] # NoRow /\ issued'[t].age < TTL /\ t \notin out' /\ rows'[t] = NoRow
             PROVE  Cardinality({u \in In(issued)' \ {t} : issued'[u].age <= issued'[t].age}) >= MaxRows
  BY DEF RecentSessionsSurvive
<1> DEFINE S == {u \in In(issued)' \ {t} : issued'[u].age <= issued'[t].age}
<1>1. issued[t] # NoRow /\ issued[t].age < TTL /\ t \notin out /\ rows[t] = NoRow
  OBVIOUS
<1>2. Cardinality(Younger(t)) >= MaxRows
  BY <1>1 DEF LastingInv, RecentSessionsSurvive, Younger
<1>3. Younger(t) \subseteq S
  BY <1>1 DEF Younger, In
<1>4. IsFiniteSet(S)
  BY FewerIds
<1> HIDE DEF S
<1>5. Cardinality(S) >= MaxRows
  BY <1>2, <1>3, <1>4, StillYounger
<1> QED
  BY <1>5 DEF S

\* A sign-in may evict: then MaxRows others are younger, the new one among them.
LEMMA SignInLasts == ASSUME LastingInv, NEW t \in Tokens, SignIn(t) PROVE LastingInv'
<1> DEFINE kept == {u \in In(rows) : ~Expired(u)}
<1>1. PICK evicted \in Evicted(kept) :
        rows' = [u \in Tokens |->
                  IF u = t THEN NewRow
                  ELSE IF u \in kept \ evicted THEN rows[u] ELSE NoRow]
  BY DEF SignIn
<1>2. /\ issued' = [issued EXCEPT ![t] = [scope |-> scope, age |-> 0]]
      /\ issued[t] = NoRow /\ UNCHANGED <<scope, requests, out>>
  BY DEF SignIn
<1>3. Inv /\ IsFiniteSet(In(rows)) /\ IsFiniteSet(In(issued)) /\ ExpiredStay
  BY DEF LastingInv
<1>4. Inv'
  BY <1>3, SignInKeeps
<1>5. kept \subseteq In(rows) /\ kept \subseteq Tokens /\ IsFiniteSet(kept)
  BY <1>3, FewerIds DEF In
<1> HIDE DEF kept
<1> DEFINE left == kept \ evicted
<1>6. /\ IsFiniteSet(left) /\ Cardinality(left) \in Nat /\ Cardinality(left) + 1 <= MaxRows
      /\ evicted # {} => /\ Cardinality(left) + 1 = MaxRows
                         /\ \A e \in evicted, k \in left : rows[e].left <= rows[k].left
  BY <1>5, EvictionFits
<1>7. t \notin kept /\ t \notin In(issued)
  BY <1>2, <1>3, <1>5 DEF Inv, RowsAreIssued, In
<1>8. NewRow # NoRow /\ [scope |-> scope, age |-> 0] # NoRow
  BY <1>3, Sentinels, SessionsAssumption DEF Inv, TypeOK, NewRow, Row, Issue
<1>9. In(rows)' = left \cup {t}
  BY <1>1, <1>5, <1>8 DEF In
<1>10. IsFiniteSet(left \cup {t}) /\ Cardinality(left \cup {t}) = Cardinality(left) + 1
  <2>1. t \notin left
    BY <1>7
  <2> HIDE DEF left
  <2> QED
    BY <1>6, <2>1, FS_AddElement
<1>11. IsFiniteSet(In(rows)') /\ TableIsBounded'
  BY <1>6, <1>9, <1>10 DEF TableIsBounded
<1>12. /\ \A u \in Tokens : u # t => issued'[u] = issued[u]
       /\ issued'[t] # NoRow /\ issued'[t].age = 0
  BY <1>2, <1>3, <1>8 DEF Inv, TypeOK
<1>13. In(issued)' = In(issued) \cup {t}
  BY <1>12 DEF In
<1>14. IsFiniteSet(In(issued)')
  BY <1>3, <1>13, FS_AddElement
<1>15. ExpiredStay'
  BY <1>2, <1>3, <1>12 DEF ExpiredStay, Inv, RequestsAreOwn, TypeOK
<1>16. ASSUME NEW u \in Tokens,
              issued'[u] # NoRow /\ issued'[u].age < TTL /\ u \notin out' /\ rows'[u] = NoRow
       PROVE  Cardinality({v \in In(issued)' \ {u} : issued'[v].age <= issued'[u].age}) >= MaxRows
  <2> DEFINE S == {v \in In(issued)' \ {u} : issued'[v].age <= issued'[u].age}
  <2>1. u # t /\ issued'[u] = issued[u]
    BY <1>1, <1>8, <1>12, <1>16
  <2>2. IsFiniteSet(S)
    BY <1>14, FewerIds
  <2>3. CASE rows[u] = NoRow
    <3> HIDE DEF S
    <3>0. issued[u] # NoRow /\ issued[u].age < TTL /\ u \notin out /\ rows[u] = NoRow
      BY <1>2, <1>16, <2>1, <2>3
    <3>1. Cardinality(Younger(u)) >= MaxRows
      BY <3>0 DEF LastingInv, RecentSessionsSurvive, Younger
    <3> USE DEF S
    <3>2. Younger(u) \subseteq S
      BY <1>7, <1>12, <1>13, <2>1 DEF Younger, In
    <3> HIDE DEF S
    <3>3. Cardinality(S) >= MaxRows
      BY <2>2, <3>1, <3>2, StillYounger
    <3> QED
      BY <3>3 DEF S
  <2>4. CASE rows[u] # NoRow
    <3>1. \A v \in Tokens : rows[v] # NoRow =>
            /\ issued[v] # NoRow /\ rows[v].left \in Nat /\ issued[v].age \in Nat
            /\ issued[v].age + rows[v].left = TTL
      <4>1. SUFFICES ASSUME NEW v \in Tokens, rows[v] # NoRow
                     PROVE  /\ issued[v] # NoRow /\ rows[v].left \in Nat /\ issued[v].age \in Nat
                            /\ issued[v].age + rows[v].left = TTL
        OBVIOUS
      <4>2. issued[v] # NoRow /\ issued[v].age + rows[v].left = TTL
        BY <1>3, <4>1 DEF Inv, RowsAreIssued
      <4>3. rows[v] \in Row /\ issued[v] \in Issue
        BY <1>3, <4>1, <4>2 DEF Inv, TypeOK
      <4>4. rows[v].left \in 0..TTL /\ issued[v].age \in 0..TTL
        BY <4>3 DEF Row, Issue
      <4> QED
        BY <4>2, <4>4, SessionsAssumption
    <3>2. ~Expired(u)
      BY <1>16, <2>1, <2>4, <3>1, SessionsAssumption DEF Expired
    <3>3. u \in kept
      BY <2>4, <3>2 DEF kept, In
    <3>4. u \in evicted
      BY <1>1, <1>16, <2>1, <2>4, <3>3
    <3>5. /\ Cardinality(left) + 1 = MaxRows
          /\ \A k \in left : rows[u].left <= rows[k].left
      BY <1>6, <3>4
    <3>6. ASSUME NEW k \in left PROVE k \in S
      <4>1. k \in Tokens /\ k # u /\ k # t /\ rows[k] # NoRow
        BY <1>5, <1>7, <3>4 DEF In
      <4>2. issued[k].age <= issued[u].age
        BY <2>4, <3>1, <3>5, <4>1, SessionsAssumption
      <4> QED
        BY <1>12, <1>13, <2>1, <3>1, <4>1, <4>2 DEF In
    <3>7. t \in S
      <4>1. 0 <= issued[u].age
        BY <2>4, <3>1
      <4> QED
        BY <1>12, <1>13, <2>1, <4>1
    <3>8. left \cup {t} \subseteq S /\ Cardinality(left \cup {t}) >= MaxRows
      BY <1>6, <1>10, <3>5, <3>6, <3>7, SessionsAssumption
    <3> HIDE DEF S, left
    <3>9. Cardinality(S) >= MaxRows
      BY <2>2, <3>8, StillYounger
    <3> QED
      BY <3>9 DEF S
  <2> QED
    BY <2>3, <2>4
<1>17. RecentSessionsSurvive'
  BY <1>16 DEF RecentSessionsSurvive
<1> QED
  BY <1>4, <1>11, <1>14, <1>15, <1>17 DEF LastingInv

\* A request that ends drops the row of a session that has expired or that is
\* logged out.
LEMMA DropLasts ==
  ASSUME LastingInv, NEW r \in Requests, requests[r] # Idle, DropOwn(r),
         requests' = [requests EXCEPT ![r] = Idle], UNCHANGED <<scope, issued>>,
         \/ out' = out \cup {requests[r].token}
         \/ out' = out /\ requests[r].at = "expired"
  PROVE  LastingInv'
<1>1. Inv /\ Inv' /\ IsFiniteSet(In(rows)) /\ IsFiniteSet(In(issued)) /\ ExpiredStay /\ TableIsBounded
  BY DropKeeps DEF LastingInv
<1>2. \A t \in Tokens : rows'[t] \in {rows[t], NoRow}
  BY <1>1, DropOwnDrops
<1>3. \A t \in Tokens : t # requests[r].token => rows'[t] = rows[t]
  BY <1>1 DEF DropOwn, Inv, TypeOK
<1>4. IsFiniteSet(In(rows)') /\ TableIsBounded'
  BY <1>1, <1>2, FewerRows
<1>5. ExpiredStay' /\ In(issued)' = In(issued)
  BY <1>1 DEF ExpiredStay, In, Inv, TypeOK
<1>6. ASSUME NEW t \in Tokens,
             issued[t] # NoRow /\ issued[t].age < TTL /\ t \notin out' /\ rows'[t] = NoRow
      PROVE  rows[t] = NoRow /\ t \notin out
  <2>1. t # requests[r].token
    BY <1>1, <1>6, SessionsAssumption DEF ExpiredStay
  <2> QED
    BY <1>3, <1>6, <2>1
<1>7. RecentSessionsSurvive'
  BY <1>1, <1>5, <1>6, NobodyForgotten
<1> QED
  BY <1>1, <1>4, <1>5, <1>7 DEF LastingInv

\* Time makes all sessions older alike, up to their end.
LEMMA TickLasts == ASSUME LastingInv, Tick PROVE LastingInv'
<1>1. Inv /\ Inv' /\ IsFiniteSet(In(rows)) /\ IsFiniteSet(In(issued)) /\ ExpiredStay /\ TableIsBounded
  BY TickKeeps DEF LastingInv
<1>2. /\ UNCHANGED <<scope, requests, out>>
      /\ \A t \in Tokens : rows[t] = NoRow <=> rows'[t] = NoRow
      /\ \A t \in Tokens : issued'[t] =
           IF issued[t] = NoRow \/ issued[t].age = TTL THEN issued[t]
           ELSE [issued[t] EXCEPT !.age = @ + 1]
  <2>1. ASSUME NEW t \in Tokens, rows[t] # NoRow, ~Expired(t) PROVE rows'[t] # NoRow
    <3>1. rows'[t] \in Row \cup {NoRow} /\ rows[t] \in Row /\ rows'[t] = [rows[t] EXCEPT !.left = @ - 1]
      BY <1>1, <2>1 DEF Tick, Inv, TypeOK
    <3>2. rows[t].left - 1 \in 0..TTL
      BY <2>1, <3>1, SessionsAssumption DEF Row, Expired
    <3>3. rows'[t] \in Row
      BY <3>1, <3>2 DEF Row
    <3> QED
      BY <3>3, Sentinels
  <2> QED
    BY <2>1 DEF Tick
<1>3. ASSUME NEW t \in Tokens, issued[t] # NoRow
      PROVE  /\ issued'[t] # NoRow /\ issued[t].age \in 0..TTL
             /\ issued'[t].age = IF issued[t].age = TTL THEN TTL ELSE issued[t].age + 1
  <2>1. issued[t] \in Issue
    BY <1>1, <1>3 DEF Inv, TypeOK
  <2>2. issued[t].age # TTL => [issued[t] EXCEPT !.age = @ + 1] \in Issue
    BY <2>1, SessionsAssumption DEF Issue
  <2> QED
    BY <1>2, <1>3, <2>1, <2>2, Sentinels DEF Issue
<1>4. IsFiniteSet(In(rows)') /\ TableIsBounded'
  BY <1>1, <1>2, FewerRows
<1>5. In(issued)' = In(issued)
  BY <1>2, <1>3 DEF In
<1>6. ExpiredStay'
  BY <1>1, <1>2, <1>3 DEF ExpiredStay, Inv, RequestsAreOwn, TypeOK
<1>7. ASSUME NEW u \in Tokens, NEW t \in Tokens,
             issued[u] # NoRow, issued[t] # NoRow, issued[u].age <= issued[t].age
      PROVE  issued'[u].age <= issued'[t].age
  <2>1. /\ issued[u].age \in 0..TTL /\ issued'[u].age = IF issued[u].age = TTL THEN TTL ELSE issued[u].age + 1
        /\ issued[t].age \in 0..TTL /\ issued'[t].age = IF issued[t].age = TTL THEN TTL ELSE issued[t].age + 1
    BY <1>3, <1>7
  <2> QED
    BY <1>7, <2>1, SessionsAssumption
<1>8. ASSUME NEW t \in Tokens, issued'[t] # NoRow, issued'[t].age < TTL
      PROVE  issued[t] # NoRow /\ issued[t].age < TTL
  <2>1. issued[t] # NoRow
    BY <1>2, <1>8
  <2> QED
    BY <1>3, <1>8, <2>1, SessionsAssumption
<1>9. RecentSessionsSurvive'
  BY <1>1, <1>2, <1>3, <1>5, <1>7, <1>8, NobodyForgotten
<1> QED
  BY <1>1, <1>4, <1>5, <1>6, <1>9 DEF LastingInv

\* A lookup, an answer and a restart leave both tables as they are.
LEMMA ReadingLasts ==
  ASSUME LastingInv, Inv', UNCHANGED <<rows, issued, out>>, ExpiredStay'
  PROVE  LastingInv'
<1>1. In(rows)' = In(rows) /\ In(issued)' = In(issued)
  BY DEF In
<1>2. TableIsBounded' /\ RecentSessionsSurvive'
  BY <1>1 DEF LastingInv, TableIsBounded, RecentSessionsSurvive
<1> QED
  BY <1>1, <1>2 DEF LastingInv

LEMMA NextLasts == ASSUME LastingInv, [Next]_vars PROVE LastingInv'
<1>0. Inv /\ Inv' /\ ExpiredStay
  BY NextKeeps DEF LastingInv
<1>1. CASE \E t \in Tokens : SignIn(t)
  BY <1>1, SignInLasts
<1>2. CASE \E r \in Requests, t \in Tokens, at \in {"in", "leaving"} : Lookup(r, t, at)
  <2>1. PICK r \in Requests, t \in Tokens, at \in {"in", "leaving"} : Lookup(r, t, at)
    BY <1>2
  <2>2. /\ rows[t] # NoRow /\ UNCHANGED <<rows, issued, out>>
        /\ requests' = [requests EXCEPT ![r] = [at |-> IF Expired(t) THEN "expired" ELSE at, token |-> t]]
    BY <2>1 DEF Lookup, Found
  <2>3. Expired(t) => issued[t].age = TTL
    <3>1. rows[t] # NoRow /\ issued[t].age + rows[t].left = TTL /\ issued[t] \in Issue
      BY <1>0, <2>2 DEF Inv, RowsAreIssued, TypeOK
    <3> QED
      BY <3>1, SessionsAssumption DEF Expired, Issue
  <2>4. ASSUME NEW q \in Requests, requests'[q] # Idle, requests'[q].at = "expired"
        PROVE  issued'[requests'[q].token].age = TTL
    <3>1. CASE q = r
      <4>1. requests'[q] = [at |-> IF Expired(t) THEN "expired" ELSE at, token |-> t]
        BY <1>0, <2>2, <3>1 DEF Inv, TypeOK
      <4>2. Expired(t)
        BY <2>4, <4>1
      <4> QED
        BY <2>2, <2>3, <4>1, <4>2
    <3>2. CASE q # r
      BY <1>0, <2>2, <2>4, <3>2 DEF ExpiredStay, Inv, TypeOK
    <3> QED
      BY <3>1, <3>2
  <2> QED
    BY <1>0, <2>2, <2>4, ReadingLasts DEF ExpiredStay
<1>3. CASE \E r \in Requests : DropExpired(r)
  <2>1. PICK r \in Requests : DropExpired(r)
    BY <1>3
  <2> QED
    BY <2>1, DropLasts DEF DropExpired
<1>4. CASE \E r \in Requests : Logout(r)
  <2>1. PICK r \in Requests : Logout(r)
    BY <1>4
  <2> QED
    BY <2>1, DropLasts DEF Logout, Destroy
<1>5. CASE \E r \in Requests : Answer(r)
  <2>1. ExpiredStay' /\ UNCHANGED <<rows, issued, out>>
    BY <1>0, <1>5 DEF Answer, ExpiredStay, Inv, TypeOK
  <2> QED
    BY <1>0, <2>1, ReadingLasts
<1>6. CASE Tick
  BY <1>6, TickLasts
<1>7. CASE \E s \in Scopes : Restart(s)
  <2>1. ExpiredStay' /\ UNCHANGED <<rows, issued, out>>
    BY <1>7 DEF Restart, ExpiredStay
  <2> QED
    BY <1>0, <2>1, ReadingLasts
<1>8. CASE UNCHANGED vars
  <2>1. ExpiredStay' /\ UNCHANGED <<rows, issued, out>>
    BY <1>0, <1>8 DEF vars, ExpiredStay
  <2> QED
    BY <1>0, <2>1, ReadingLasts
<1> QED
  BY <1>1, <1>2, <1>3, <1>4, <1>5, <1>6, <1>7, <1>8 DEF Next

LEMMA InitLasts == Init => LastingInv
<1> SUFFICES ASSUME Init PROVE LastingInv
  OBVIOUS
<1>1. In(rows) = {} /\ In(issued) = {}
  BY DEF Init, In
<1>2. TableIsBounded
  BY <1>1, FS_EmptySet, SessionsAssumption DEF TableIsBounded
<1>3. ExpiredStay /\ RecentSessionsSurvive
  BY DEF Init, ExpiredStay, RecentSessionsSurvive
<1> QED
  BY <1>1, <1>2, <1>3, InitInv, FS_EmptySet DEF LastingInv

-----------------------------------------------------------------------------
(* The throttle of the legacy keys.                                        *)

\* KeyGuard and Login count with instances of FiniteSets of their own.
LEMMA SizesAgree ==
  \A S : Keys!Cardinality(S) = Cardinality(S) /\ Throttle!Cardinality(S) = Cardinality(S)
BY DEF Keys!Cardinality, Throttle!Cardinality, Cardinality

LEMMA FiniteAgrees == \A S : Throttle!IsFiniteSet(S) <=> IsFiniteSet(S)
BY DEF Throttle!IsFiniteSet, IsFiniteSet

\* An entry is dated, and blocks from the last failure that is allowed on.
Fits(e) ==
  /\ e.windowStart <= now
  /\ e.blockedUntil <= now + BlockPeriod
  /\ e.count >= MaxFailures <=> e.blockedUntil > 0

GuardInv ==
  /\ now \in Nat /\ now <= Horizon
  /\ attempt \in [Visitors -> Keys!Entry \cup {NoEntry}]
  /\ \A a \in Visitors : attempt[a] # NoEntry => Fits(attempt[a])
  /\ views \in [Views -> Visitors \cup {Idle}]
  /\ IsFiniteSet(Keys!Known) /\ Cardinality(Keys!Known) <= MaxKeys + 1

LEMMA KeysBounds ==
  /\ MaxFailures \in Nat \ {0} /\ FailWindow \in Nat \ {0} /\ BlockPeriod \in Nat \ {0}
  /\ MaxKeys \in Nat \ {0} /\ Horizon \in Nat \ {0} /\ Idle \notin Visitors
BY AccessAssumption DEF Keys!KeyGuardAssumption

\* A failure leaves a dated entry, which blocks when the failures are too many.
LEMMA CountedFits ==
  ASSUME GuardInv, NEW e \in Keys!Entry \cup {NoEntry}, e # NoEntry => Fits(e)
  PROVE  Keys!Counted(e) \in Keys!Entry /\ Fits(Keys!Counted(e))
<1> DEFINE f == Keys!CountedUnblocked(e)
<1>1. now \in Nat
  BY DEF GuardInv
<1>2. /\ f \in Keys!Entry /\ f.windowStart <= now /\ f.blockedUntil <= now + BlockPeriod
      /\ f.count < MaxFailures => f.blockedUntil = 0
  <2>1. CASE Keys!Fresh(e)
    <3>1. e \in Keys!Entry /\ Fits(e) /\ f = [e EXCEPT !.count = @ + 1]
      BY <2>1 DEF Keys!Fresh, Keys!CountedUnblocked
    <3>2. /\ e.count \in Nat \ {0} /\ e.windowStart \in Nat /\ e.blockedUntil \in Nat
          /\ f.count = e.count + 1 /\ f.windowStart = e.windowStart /\ f.blockedUntil = e.blockedUntil
      BY <3>1 DEF Keys!Entry
    <3>3. f \in Keys!Entry
      BY <3>1, <3>2 DEF Keys!Entry
    <3> HIDE DEF f
    <3>4. f.count < MaxFailures => f.blockedUntil = 0
      BY <3>1, <3>2, KeysBounds DEF Fits
    <3> QED
      BY <3>1, <3>2, <3>3, <3>4 DEF Fits
  <2>2. CASE ~Keys!Fresh(e)
    <3>1. f = [count |-> 1, windowStart |-> now, blockedUntil |-> 0]
      BY <2>2 DEF Keys!CountedUnblocked
    <3> QED
      BY <1>1, <3>1, KeysBounds DEF Keys!Entry
  <2> QED
    BY <2>1, <2>2
<1>3. Keys!Counted(e) = IF f.count >= MaxFailures THEN [f EXCEPT !.blockedUntil = now + BlockPeriod] ELSE f
  BY DEF Keys!Counted
<1> HIDE DEF f
<1>4. f.count \in Nat /\ f.windowStart \in Nat /\ f.blockedUntil \in Nat
  BY <1>2 DEF Keys!Entry
<1>5. CASE f.count >= MaxFailures
  <2> DEFINE g == [f EXCEPT !.blockedUntil = now + BlockPeriod]
  <2>1. /\ g \in Keys!Entry /\ g.count = f.count /\ g.windowStart = f.windowStart
        /\ g.blockedUntil = now + BlockPeriod
    BY <1>1, <1>2, KeysBounds DEF Keys!Entry
  <2>2. Keys!Counted(e) = g
    BY <1>3, <1>5
  <2> HIDE DEF g
  <2>3. Fits(g)
    BY <1>1, <1>2, <1>5, <2>1, KeysBounds DEF Fits
  <2> QED
    BY <2>1, <2>2, <2>3
<1>6. CASE ~(f.count >= MaxFailures)
  <2>1. Keys!Counted(e) = f
    BY <1>3, <1>6
  <2>2. Fits(f)
    BY <1>1, <1>2, <1>4, <1>6, KeysBounds DEF Fits
  <2> QED
    BY <1>2, <2>1, <2>2
<1> QED
  BY <1>5, <1>6

\* A failure is counted for one address, perhaps in a new table.
LEMMA FailIs ==
  ASSUME GuardInv, NEW v \in Views, Keys!fail(v)
  PROVE  /\ views[v] \in Visitors /\ UNCHANGED now /\ views' = [views EXCEPT ![v] = Idle]
         /\ attempt' \in [Visitors -> Keys!Entry \cup {NoEntry}]
         /\ Fits(attempt'[views[v]])
         /\ \A a \in Visitors : a # views[v] => attempt'[a] = Keys!Kept[a]
<1>1. /\ views[v] \in Visitors /\ UNCHANGED now /\ views' = [views EXCEPT ![v] = Idle]
      /\ attempt' = [Keys!Kept EXCEPT ![views[v]] = Keys!Counted(@)]
  BY DEF Keys!fail, GuardInv
<1>2. /\ Keys!Kept \in [Visitors -> Keys!Entry \cup {NoEntry}]
      /\ \A a \in Visitors : Keys!Kept[a] # NoEntry => Fits(Keys!Kept[a])
  BY DEF Keys!Kept, GuardInv
<1>3. Keys!Counted(Keys!Kept[views[v]]) \in Keys!Entry /\ Fits(Keys!Counted(Keys!Kept[views[v]]))
  BY <1>1, <1>2, CountedFits
<1> QED
  BY <1>1, <1>2, <1>3

\* The table is dropped when it is over its limit, and then grows by one.
LEMMA FailKeeps == ASSUME GuardInv, NEW v \in Views, Keys!fail(v) PROVE GuardInv'
<1>1. /\ views[v] \in Visitors /\ UNCHANGED now /\ views' = [views EXCEPT ![v] = Idle]
      /\ attempt' \in [Visitors -> Keys!Entry \cup {NoEntry}]
      /\ Fits(attempt'[views[v]])
      /\ \A a \in Visitors : a # views[v] => attempt'[a] = Keys!Kept[a]
  BY FailIs
<1>2. ASSUME NEW a \in Visitors, attempt'[a] # NoEntry PROVE Fits(attempt[a])'
  <2>1. Fits(attempt'[a])
    BY <1>1, <1>2 DEF Keys!Kept, GuardInv
  <2> QED
    BY <1>1, <2>1 DEF Fits
<1>3. IsFiniteSet(Keys!Known) /\ Cardinality(Keys!Known) <= MaxKeys + 1 /\ Cardinality(Keys!Known) \in Nat
  BY FS_CardinalityType DEF GuardInv
<1>4. IsFiniteSet(Keys!Known') /\ Cardinality(Keys!Known') <= MaxKeys + 1
  <2>1. CASE Cardinality(Keys!Known) > MaxKeys
    <3>1. Keys!Known' \subseteq {views[v]}
      BY <1>1, <2>1, SizesAgree DEF Keys!Known, Keys!Kept
    <3>2. IsFiniteSet({views[v]}) /\ Cardinality({views[v]}) = 1
      BY FS_Singleton
    <3>3. /\ IsFiniteSet(Keys!Known') /\ Cardinality(Keys!Known') \in Nat
          /\ Cardinality(Keys!Known') <= Cardinality({views[v]})
      BY <3>1, <3>2, FewerIds
    <3> QED
      BY <3>2, <3>3, KeysBounds
  <2>2. CASE ~(Cardinality(Keys!Known) > MaxKeys)
    <3>1. Keys!Known' \subseteq Keys!Known \cup {views[v]}
      BY <1>1, <2>2, SizesAgree DEF Keys!Known, Keys!Kept
    <3>2. /\ IsFiniteSet(Keys!Known \cup {views[v]})
          /\ \/ Cardinality(Keys!Known \cup {views[v]}) = Cardinality(Keys!Known)
             \/ Cardinality(Keys!Known \cup {views[v]}) = Cardinality(Keys!Known) + 1
      BY <1>3, FS_AddElement
    <3>3. /\ IsFiniteSet(Keys!Known') /\ Cardinality(Keys!Known') \in Nat
          /\ Cardinality(Keys!Known') <= Cardinality(Keys!Known \cup {views[v]})
      BY <3>1, <3>2, FewerIds
    <3> QED
      BY <1>3, <2>2, <3>2, <3>3, KeysBounds
  <2> QED
    BY <2>1, <2>2
<1>5. views' \in [Views -> Visitors \cup {Idle}]
  BY <1>1 DEF GuardInv
<1> QED
  BY <1>1, <1>2, <1>4, <1>5 DEF GuardInv

\* A page that opens forgets the failures of its address.
LEMMA PassKeeps == ASSUME GuardInv, NEW v \in Views, Keys!pass(v) PROVE GuardInv'
<1>1. /\ views[v] \in Visitors /\ UNCHANGED now /\ views' = [views EXCEPT ![v] = Idle]
      /\ attempt' = [attempt EXCEPT ![views[v]] = NoEntry]
  BY DEF Keys!pass, GuardInv
<1>2. Keys!Known' \subseteq Keys!Known
  BY <1>1 DEF Keys!Known, GuardInv
<1>3. /\ IsFiniteSet(Keys!Known') /\ Cardinality(Keys!Known') <= Cardinality(Keys!Known)
      /\ Cardinality(Keys!Known') \in Nat /\ Cardinality(Keys!Known) \in Nat
      /\ Cardinality(Keys!Known) <= MaxKeys + 1
  BY <1>2, FewerIds DEF GuardInv
<1>4. Cardinality(Keys!Known') <= MaxKeys + 1
  BY <1>3, KeysBounds
<1>5. ASSUME NEW a \in Visitors, attempt'[a] # NoEntry PROVE Fits(attempt[a])'
  BY <1>1, <1>5 DEF Fits, GuardInv
<1>6. attempt' \in [Visitors -> Keys!Entry \cup {NoEntry}] /\ views' \in [Views -> Visitors \cup {Idle}]
  BY <1>1 DEF GuardInv
<1> QED
  BY <1>1, <1>3, <1>4, <1>5, <1>6 DEF GuardInv

LEMMA KeysNextKeeps == ASSUME GuardInv, [Keys!Next]_(Keys!vars) PROVE GuardInv'
<1>1. CASE \E v \in Views, a \in Visitors : Keys!Admit(v, a)
  <2>1. PICK v \in Views, a \in Visitors : views' = [views EXCEPT ![v] = a] /\ UNCHANGED <<now, attempt>>
    BY <1>1 DEF Keys!Admit
  <2>2. Keys!Known' = Keys!Known
    BY <2>1 DEF Keys!Known
  <2> QED
    BY <2>1, <2>2 DEF GuardInv, Fits
<1>2. CASE \E v \in Views : Keys!fail(v)
  BY <1>2, FailKeeps
<1>3. CASE \E v \in Views : Keys!pass(v)
  BY <1>3, PassKeeps
<1>4. CASE Keys!Tick
  <2>1. now < Horizon /\ now' = now + 1 /\ UNCHANGED <<attempt, views>>
    BY <1>4 DEF Keys!Tick
  <2>2. Keys!Known' = Keys!Known /\ now \in Nat /\ now' \in Nat /\ now' <= Horizon
    BY <2>1, KeysBounds DEF Keys!Known, GuardInv
  <2>3. ASSUME NEW a \in Visitors, attempt'[a] # NoEntry PROVE Fits(attempt[a])'
    <3>1. attempt[a] \in Keys!Entry /\ Fits(attempt[a])
      BY <2>1, <2>3 DEF GuardInv
    <3> QED
      BY <2>1, <2>2, <3>1, KeysBounds DEF Fits, Keys!Entry
  <2> QED
    BY <2>1, <2>2, <2>3 DEF GuardInv
<1>5. CASE UNCHANGED Keys!vars
  <2>1. UNCHANGED <<now, attempt, views>>
    BY <1>5 DEF Keys!vars
  <2> QED
    BY <2>1 DEF GuardInv, Keys!Known, Fits
<1> QED
  BY <1>1, <1>2, <1>3, <1>4, <1>5 DEF Keys!Next

LEMMA KeysInit == Keys!Init => GuardInv
<1> SUFFICES ASSUME Keys!Init PROVE GuardInv
  OBVIOUS
<1>1. Keys!Known = {}
  BY DEF Keys!Init, Keys!Known
<1>2. IsFiniteSet(Keys!Known) /\ Cardinality(Keys!Known) = 0
  BY <1>1, FS_EmptySet
<1>3. Cardinality(Keys!Known) <= MaxKeys + 1
  BY <1>2, KeysBounds
<1> QED
  BY <1>2, <1>3, KeysBounds DEF Keys!Init, GuardInv

LEMMA KeysAreTyped == ASSUME GuardInv PROVE Keys!TypeOK /\ Keys!TableIsBounded
<1>1. now \in 0..Horizon
  BY KeysBounds DEF GuardInv
<1>2. Keys!TypeOK
  BY <1>1 DEF GuardInv, Fits, Keys!TypeOK
<1> QED
  BY <1>2, SizesAgree DEF GuardInv, Keys!TableIsBounded

\* What an entry blocks stays blocked until it changes or time is up.
LEMMA BlockStands ==
  ASSUME GuardInv, [Keys!Next]_(Keys!vars), NEW a \in Visitors, Keys!blocked(a)
  PROVE  \/ Keys!blocked(a)' \/ now' >= attempt[a].blockedUntil
         \/ Keys!Overtaken(a) \/ Cardinality(Keys!Known) > MaxKeys
<1>1. /\ attempt[a] # NoEntry /\ attempt[a] \in Keys!Entry /\ now < attempt[a].blockedUntil
      /\ attempt[a].blockedUntil \in Nat /\ now \in Nat
  BY DEF Keys!blocked, Keys!Known, GuardInv, Keys!Entry
<1>2. attempt'[a] = attempt[a] /\ now' = now => Keys!blocked(a)'
  BY <1>1 DEF Keys!blocked, Keys!Known
<1>3. CASE \E v \in Views, b \in Visitors : Keys!Admit(v, b)
  BY <1>2, <1>3 DEF Keys!Admit
<1>4. CASE \E v \in Views : Keys!fail(v)
  <2>1. PICK v \in Views : Keys!fail(v)
    BY <1>4
  <2>2. /\ UNCHANGED now /\ views' = [views EXCEPT ![v] = Idle]
        /\ a # views[v] => attempt'[a] = Keys!Kept[a]
    BY <2>1, FailIs
  <2>3. CASE views[v] = a
    BY <2>2, <2>3 DEF Keys!Overtaken, GuardInv
  <2>4. CASE views[v] # a
    BY <1>2, <2>2, <2>4, SizesAgree DEF Keys!Kept
  <2> QED
    BY <2>3, <2>4
<1>5. CASE \E v \in Views : Keys!pass(v)
  <2>1. PICK v \in Views : Keys!pass(v)
    BY <1>5
  <2>2. /\ UNCHANGED now /\ views' = [views EXCEPT ![v] = Idle]
        /\ attempt' = [attempt EXCEPT ![views[v]] = NoEntry]
    BY <2>1 DEF Keys!pass
  <2>3. CASE views[v] = a
    BY <2>2, <2>3 DEF Keys!Overtaken, GuardInv
  <2>4. CASE views[v] # a
    BY <1>2, <2>2, <2>4 DEF GuardInv
  <2> QED
    BY <2>3, <2>4
<1>6. CASE Keys!Tick
  <2>1. now' = now + 1 /\ attempt' = attempt
    BY <1>6 DEF Keys!Tick
  <2>2. CASE now' < attempt[a].blockedUntil
    BY <1>1, <2>1, <2>2 DEF Keys!blocked, Keys!Known
  <2>3. CASE ~(now' < attempt[a].blockedUntil)
    BY <1>1, <2>1, <2>3
  <2> QED
    BY <2>2, <2>3
<1>7. CASE UNCHANGED Keys!vars
  BY <1>2, <1>7 DEF Keys!vars
<1> QED
  BY <1>3, <1>4, <1>5, <1>6, <1>7 DEF Keys!Next

-----------------------------------------------------------------------------
(* The login throttle: the table and what it takes to be forgotten.        *)

LEMMA LoginBounds ==
  /\ Limit \in Nat \ {0} /\ Window \in Nat \ {0} /\ MaxEntries \in Nat \ {0}
  /\ IsFiniteSet(Addresses) /\ IsFiniteSet(Attempts) /\ Cardinality(Attempts) \in Nat \ {0}
  /\ Idle \notin Addresses /\ NoEntry \notin Throttle!Entry
  /\ Throttle!Overshoot \in Nat /\ Throttle!Overshoot = Cardinality(Attempts) - 1
  /\ Throttle!Enough \in Nat \ {0} /\ Throttle!Enough = 2 * (Limit + Throttle!Overshoot)
<1>1. /\ Limit \in Nat \ {0} /\ Window \in Nat \ {0} /\ MaxEntries \in Nat \ {0}
      /\ Idle \notin Addresses /\ NoEntry \notin [count : Nat, left : Nat, age : Nat]
  BY AccessAssumption DEF Throttle!LoginAssumption
<1>2. IsFiniteSet(Addresses) /\ IsFiniteSet(Attempts) /\ Attempts # {}
  BY AccessAssumption, FiniteAgrees DEF Throttle!LoginAssumption
<1>3. Cardinality(Attempts) \in Nat \ {0}
  BY <1>2, FS_CardinalityType, FS_EmptySet
<1>4. Throttle!Overshoot = Cardinality(Attempts) - 1
  BY SizesAgree DEF Throttle!Overshoot
<1>5. Throttle!Overshoot \in Nat
  BY <1>3, <1>4
<1>6. Throttle!Enough = 2 * (Limit + Throttle!Overshoot)
  BY DEF Throttle!Enough
<1>7. Throttle!Enough \in Nat \ {0}
  BY <1>1, <1>5, <1>6
<1>8. Throttle!Entry \subseteq [count : Nat, left : Nat, age : Nat]
  BY <1>1 DEF Throttle!Entry
<1> QED
  BY <1>1, <1>2, <1>3, <1>4, <1>5, <1>6, <1>7, <1>8

\* An entry is as old as the last wrong key, and has left what is due of its window.
EntriesAreDue ==
  \A a \in Addresses : failures[a] # NoEntry =>
    failures[a].age = lastWrong[a] /\ failures[a].left = due[a]

\* Those that failed after an address did.
FailedAfter(a) == {b \in Addresses \ {a} : lastWrong[b] <= lastWrong[a]}

LoginInv ==
  /\ Throttle!TypeOK
  /\ Cardinality(Throttle!Known) <= MaxEntries
  /\ EntriesAreDue
  /\ Throttle!ForgettingCosts

\* What the model's types say of numbers.
LEMMA LoginNumbers ==
  ASSUME Throttle!TypeOK, NEW a \in Addresses
  PROVE  /\ lastWrong[a] \in Nat /\ lastWrong[a] <= Window
         /\ due[a] \in Nat /\ due[a] <= Window
         /\ failures[a] # NoEntry =>
              /\ failures[a] \in Throttle!Entry /\ failures[a].count \in Nat \ {0}
              /\ failures[a].left \in Nat /\ failures[a].left <= Window
              /\ failures[a].age \in Nat /\ failures[a].age <= Window
BY LoginBounds DEF Throttle!TypeOK, Throttle!Entry

LEMMA KnownIsFinite ==
  /\ IsFiniteSet(Throttle!Known) /\ Cardinality(Throttle!Known) \in Nat
  /\ \A S : S \subseteq Throttle!Known => /\ IsFiniteSet(S) /\ Cardinality(S) \in Nat
                                          /\ Cardinality(S) <= Cardinality(Throttle!Known)
<1>1. Throttle!Known \subseteq Addresses
  BY DEF Throttle!Known
<1> QED
  BY <1>1, LoginBounds, FewerIds

\* Pruning leaves room for one window.  A window that still runs is given up only
\* for a table full of windows whose addresses failed after it.
LEMMA PruningFits ==
  ASSUME LoginInv, NEW kept \in Throttle!Kept
  PROVE  /\ kept \subseteq Throttle!Known
         /\ Cardinality(kept) \in Nat /\ Cardinality(kept) + 1 <= MaxEntries
         /\ \A c \in Throttle!Known \ kept : Throttle!Live(c) =>
              /\ Cardinality(kept) + 1 >= MaxEntries
              /\ \A b \in kept : Throttle!Live(b) /\ failures[b].age <= failures[c].age
<1> DEFINE live == {b \in Throttle!Known : Throttle!Live(b)}
<1>1. /\ Cardinality(Throttle!Known) <= MaxEntries /\ Cardinality(Throttle!Known) \in Nat
      /\ MaxEntries \in Nat \ {0}
  BY LoginBounds, KnownIsFinite DEF LoginInv
<1>2. live \subseteq Throttle!Known
  OBVIOUS
<1>3. IsFiniteSet(live) /\ Cardinality(live) \in Nat /\ Cardinality(live) <= Cardinality(Throttle!Known)
  BY <1>2, KnownIsFinite
<1>4. CASE ~(Cardinality(Throttle!Known) >= MaxEntries)
  <2>1. kept = Throttle!Known
    BY <1>4, SizesAgree DEF Throttle!Kept
  <2>2. Cardinality(kept) + 1 <= MaxEntries
    BY <1>1, <1>4, <2>1
  <2> QED
    BY <1>1, <2>1, <2>2
<1>5. CASE Cardinality(Throttle!Known) >= MaxEntries
  <2>1. kept \in Throttle!Pruned
    BY <1>5, SizesAgree DEF Throttle!Kept
  <2>2. CASE ~(Cardinality(live) >= MaxEntries)
    <3>1. kept = live
      BY <2>1, <2>2, SizesAgree DEF Throttle!Pruned
    <3>2. Cardinality(kept) + 1 <= MaxEntries
      BY <1>1, <1>3, <2>2, <3>1
    <3> QED
      BY <1>2, <1>3, <3>1, <3>2
  <2>3. CASE Cardinality(live) >= MaxEntries
    <3>1. PICK c \in Throttle!OldestIn(live) : kept = live \ {c}
      BY <2>1, <2>3, SizesAgree DEF Throttle!Pruned
    <3>2. c \in live /\ \A b \in live : failures[c].age >= failures[b].age
      BY <3>1 DEF Throttle!OldestIn
    <3>3. \A b \in live : Throttle!Live(b) /\ b \in Addresses /\ failures[b] # NoEntry
      BY DEF Throttle!Known
    <3> HIDE DEF live
    <3>4. Cardinality(kept) = Cardinality(live) - 1
      BY <1>3, <3>1, <3>2, FS_RemoveElement
    <3>5. Cardinality(kept) + 1 = MaxEntries /\ Cardinality(kept) \in Nat
      BY <1>1, <1>3, <2>3, <3>4
    <3>6. \A b \in kept : Throttle!Live(b) /\ failures[b].age <= failures[c].age
      <4>1. \A b \in live : failures[b].age \in Nat
        BY <3>3, LoginNumbers DEF LoginInv
      <4> QED
        BY <3>1, <3>2, <3>3, <4>1
    <3>7. \A b \in Throttle!Known \ kept : Throttle!Live(b) => b = c
      BY <3>1 DEF live
    <3>8. Cardinality(kept) + 1 <= MaxEntries /\ Cardinality(kept) + 1 >= MaxEntries
      BY <1>1, <3>5
    <3>9. kept \subseteq Throttle!Known
      BY <1>2, <3>1
    <3> QED
      BY <3>5, <3>6, <3>7, <3>8, <3>9
  <2> QED
    BY <2>2, <2>3
<1> QED
  BY <1>4, <1>5

LEMMA WindowRuns ==
  ASSUME NEW S, NEW T, NEW U, NEW f \in [count : S, left : T, age : U], NEW n \in S, NEW g \in U,
         NEW e, e = [f EXCEPT !.count = n, !.age = g]
  PROVE  /\ e \in [count : S, left : T, age : U]
         /\ e.count = n /\ e.left = f.left /\ e.age = g
OBVIOUS

LEMMA EntryAges ==
  ASSUME NEW S, NEW T, NEW U, NEW f \in [count : S, left : T, age : U], NEW l \in T, NEW g \in U,
         NEW e, e = [f EXCEPT !.left = l, !.age = g]
  PROVE  /\ e \in [count : S, left : T, age : U]
         /\ e.count = f.count /\ e.left = l /\ e.age = g
OBVIOUS

\* A wrong key counts in the window of its address that runs, or opens one; then
\* others may be forgotten.
LEMMA RecordIs ==
  ASSUME LoginInv, NEW a \in Addresses, Throttle!Record(a)
  PROVE  /\ failures' \in [Addresses -> Throttle!Entry \cup {NoEntry}]
         /\ failures'[a] \in Throttle!Entry /\ failures'[a].age = 0
         /\ Throttle!Live(a) =>
              /\ failures'[a].count = failures[a].count + 1
              /\ failures'[a].left = failures[a].left
              /\ \A b \in Addresses : b # a => failures'[b] = failures[b]
         /\ ~Throttle!Live(a) =>
              /\ failures'[a].count = 1 /\ failures'[a].left = Window
              /\ \E kept \in Throttle!Kept : \A b \in Addresses : b # a =>
                   failures'[b] = IF b \in kept THEN failures[b] ELSE NoEntry
<1>0. failures \in [Addresses -> Throttle!Entry \cup {NoEntry}]
  BY DEF LoginInv, Throttle!TypeOK
<1>1. CASE Throttle!Live(a)
  <2> DEFINE e == [failures[a] EXCEPT !.count = @ + 1, !.age = 0]
  <2>1. failures[a] # NoEntry /\ failures[a] \in Throttle!Entry
    BY <1>0, <1>1 DEF Throttle!Live
  <2>2. failures' = [failures EXCEPT ![a] = e]
    BY <1>0, <1>1 DEF Throttle!Record
  <2>3. failures[a].count \in Nat \ {0} /\ failures[a].left \in 0..Window
    BY <2>1 DEF Throttle!Entry
  <2>4. failures[a].count + 1 \in Nat \ {0} /\ 0 \in 0..Window
    BY <2>3, LoginBounds
  <2>5. /\ e \in Throttle!Entry /\ e.count = failures[a].count + 1
        /\ e.left = failures[a].left /\ e.age = 0
    BY <2>1, <2>4, WindowRuns DEF Throttle!Entry
  <2> HIDE DEF e
  <2> QED
    BY <1>0, <1>1, <2>2, <2>5
<1>2. CASE ~Throttle!Live(a)
  <2> DEFINE e == [count |-> 1, left |-> Window, age |-> 0]
  <2>1. PICK kept \in Throttle!Kept :
          failures' = [b \in Addresses |->
            IF b = a THEN e ELSE IF b \in kept THEN failures[b] ELSE NoEntry]
    BY <1>2 DEF Throttle!Record, Throttle!NewWindow
  <2>2. e \in Throttle!Entry /\ e.count = 1 /\ e.left = Window /\ e.age = 0
    BY LoginBounds DEF Throttle!Entry
  <2> HIDE DEF e
  <2> QED
    BY <1>0, <1>2, <2>1, <2>2
<1> QED
  BY <1>1, <1>2

\* The answer to a wrong key, and what it leaves of every address.
LEMMA AnswerWrongIs ==
  ASSUME LoginInv, NEW p \in Attempts, Throttle!AnswerWrong(p)
  PROVE  /\ attempts[p] \in Addresses /\ Throttle!Record(attempts[p])
         /\ attempts' = [attempts EXCEPT ![p] = Idle]
         /\ wrong' = [b \in Addresses |->
              IF b = attempts[p]
              THEN [wrong[b] EXCEPT ![0] = IF @ < Throttle!Enough THEN @ + 1 ELSE @]
              ELSE IF Throttle!Live(b) /\ failures'[b] = NoEntry THEN Throttle!Never
              ELSE wrong[b]]
         /\ lastWrong' = [lastWrong EXCEPT ![attempts[p]] = 0]
         /\ due' = [due EXCEPT ![attempts[p]] = IF Throttle!Live(attempts[p]) THEN @ ELSE Window]
BY DEF LoginInv, Throttle!TypeOK, Throttle!AnswerWrong

\* One tick of a history, and one more wrong key in it.
LEMMA HistoryTypes ==
  ASSUME NEW h \in [Throttle!Ages -> 0..Throttle!Enough]
  PROVE  /\ 0 \in Throttle!Ages
         /\ [h EXCEPT ![0] = IF @ < Throttle!Enough THEN @ + 1 ELSE @]
              \in [Throttle!Ages -> 0..Throttle!Enough]
         /\ [g \in Throttle!Ages |-> IF g = 0 THEN 0 ELSE h[g - 1]]
              \in [Throttle!Ages -> 0..Throttle!Enough]
         /\ Throttle!Never \in [Throttle!Ages -> 0..Throttle!Enough]
<1>1. 0 \in Throttle!Ages /\ 0 \in 0..Throttle!Enough
  BY LoginBounds DEF Throttle!Ages
<1>2. \A g \in Throttle!Ages : g # 0 => g - 1 \in Throttle!Ages
  BY LoginBounds DEF Throttle!Ages
<1>3. h[0] < Throttle!Enough => h[0] + 1 \in 0..Throttle!Enough
  BY <1>1, LoginBounds
<1> QED
  BY <1>1, <1>2, <1>3 DEF Throttle!Never

LEMMA WrongTypes == ASSUME LoginInv, NEW p \in Attempts, Throttle!AnswerWrong(p) PROVE Throttle!TypeOK'
<1> DEFINE a == attempts[p]
<1>1. /\ a \in Addresses /\ Throttle!Record(a)
      /\ attempts' = [attempts EXCEPT ![p] = Idle]
      /\ wrong' = [b \in Addresses |->
           IF b = a THEN [wrong[b] EXCEPT ![0] = IF @ < Throttle!Enough THEN @ + 1 ELSE @]
           ELSE IF Throttle!Live(b) /\ failures'[b] = NoEntry THEN Throttle!Never
           ELSE wrong[b]]
      /\ lastWrong' = [lastWrong EXCEPT ![a] = 0]
      /\ due' = [due EXCEPT ![a] = IF Throttle!Live(a) THEN @ ELSE Window]
  BY AnswerWrongIs
<1> HIDE DEF a
<1>2. failures' \in [Addresses -> Throttle!Entry \cup {NoEntry}]
  BY <1>1, RecordIs
<1>3. Throttle!TypeOK
  BY DEF LoginInv
<1>4. attempts' \in [Attempts -> Addresses \cup {Idle}]
  BY <1>1, <1>3 DEF Throttle!TypeOK
<1>5. wrong' \in [Addresses -> [Throttle!Ages -> 0..Throttle!Enough]]
  <2>1. \A b \in Addresses : wrong[b] \in [Throttle!Ages -> 0..Throttle!Enough]
    BY <1>3 DEF Throttle!TypeOK
  <2>2. \A b \in Addresses :
          /\ [wrong[b] EXCEPT ![0] = IF @ < Throttle!Enough THEN @ + 1 ELSE @]
               \in [Throttle!Ages -> 0..Throttle!Enough]
          /\ Throttle!Never \in [Throttle!Ages -> 0..Throttle!Enough]
    BY <2>1, HistoryTypes
  <2> QED
    BY <1>1, <2>1, <2>2
<1>6. 0 \in 0..Window /\ Window \in 0..Window
  BY LoginBounds
<1>7. lastWrong' \in [Addresses -> 0..Window] /\ due' \in [Addresses -> 0..Window]
  BY <1>1, <1>3, <1>6 DEF Throttle!TypeOK
<1> QED
  BY <1>2, <1>4, <1>5, <1>7 DEF Throttle!TypeOK

\* Where an address was forgotten, the failures after it only grow in number.
LEMMA StillFailedAfter ==
  ASSUME NEW a \in Addresses, NEW F, F \subseteq FailedAfter(a)', Cardinality(F) >= MaxEntries
  PROVE  Cardinality(FailedAfter(a)') >= MaxEntries
<1>1. IsFiniteSet(FailedAfter(a)')
  BY LoginBounds, FewerIds DEF FailedAfter
<1>2. /\ Cardinality(F) <= Cardinality(FailedAfter(a)') /\ Cardinality(F) \in Nat
      /\ Cardinality(FailedAfter(a)') \in Nat
  BY <1>1, FewerIds
<1> QED
  BY <1>2, LoginBounds

LEMMA ForgettingIs ==
  Throttle!ForgettingCosts <=>
    \A a \in Addresses : due[a] > 0 /\ failures[a] = NoEntry => Cardinality(FailedAfter(a)) >= MaxEntries
BY SizesAgree DEF Throttle!ForgettingCosts, FailedAfter

\* A window opened for an address leaves room for itself, and takes the place of
\* another that runs only where a table full of addresses failed after that one.
LEMMA OpeningKeeps ==
  ASSUME LoginInv, NEW p \in Attempts, Throttle!AnswerWrong(p),
         NEW a, a = attempts[p], ~Throttle!Live(a)
  PROVE  /\ Cardinality(Throttle!Known') <= MaxEntries
         /\ \A c \in Addresses : c # a /\ Throttle!Live(c) /\ failures'[c] = NoEntry =>
              Cardinality(FailedAfter(c)') >= MaxEntries
<1>1. /\ a \in Addresses /\ Throttle!Record(a) /\ lastWrong' = [lastWrong EXCEPT ![a] = 0]
  BY AnswerWrongIs
<1>2. PICK kept \in Throttle!Kept : \A b \in Addresses : b # a =>
        failures'[b] = IF b \in kept THEN failures[b] ELSE NoEntry
  BY <1>1, RecordIs
<1>3. /\ kept \subseteq Throttle!Known
      /\ Cardinality(kept) \in Nat /\ Cardinality(kept) + 1 <= MaxEntries
      /\ \A c \in Throttle!Known \ kept : Throttle!Live(c) =>
           /\ Cardinality(kept) + 1 >= MaxEntries
           /\ \A b \in kept : Throttle!Live(b) /\ failures[b].age <= failures[c].age
  BY PruningFits
<1>4. IsFiniteSet(kept) /\ IsFiniteSet(kept \cup {a})
  BY <1>3, KnownIsFinite, FS_AddElement
<1>5. Cardinality(Throttle!Known') <= MaxEntries
  <2>1. Throttle!Known' \subseteq kept \cup {a}
    BY <1>2 DEF Throttle!Known
  <2>2. /\ Cardinality(kept \cup {a}) \in Nat
        /\ Cardinality(kept \cup {a}) <= Cardinality(kept) + 1
    <3>1. Cardinality(kept \cup {a}) \in {Cardinality(kept), Cardinality(kept) + 1}
      BY <1>4, FS_AddElement
    <3> QED
      BY <1>3, <3>1
  <2>3. /\ Cardinality(Throttle!Known') <= Cardinality(kept \cup {a})
        /\ Cardinality(Throttle!Known') \in Nat
    BY <1>4, <2>1, FewerIds
  <2> QED
    BY <1>3, <2>2, <2>3, LoginBounds
<1>6. ASSUME NEW c \in Addresses, c # a, Throttle!Live(c), failures'[c] = NoEntry
      PROVE  Cardinality(FailedAfter(c)') >= MaxEntries
  <2>1. failures[c] # NoEntry /\ c \in Throttle!Known
    BY <1>6 DEF Throttle!Live, Throttle!Known
  <2>2. c \notin kept
    BY <1>2, <1>6, <2>1
  <2>3. /\ Cardinality(kept) + 1 >= MaxEntries
        /\ \A b \in kept : Throttle!Live(b) /\ failures[b].age <= failures[c].age
    BY <1>3, <1>6, <2>1, <2>2
  <2>4. a \notin kept
    BY <2>3
  <2>5. Cardinality(kept \cup {a}) = Cardinality(kept) + 1
    BY <1>4, <2>4, FS_AddElement
  <2>6. EntriesAreDue /\ Throttle!TypeOK
    BY DEF LoginInv
  <2>7. \A b \in kept : b \in Addresses /\ b # c /\ b # a /\ lastWrong[b] <= lastWrong[c]
    <3>1. ASSUME NEW b \in kept PROVE b \in Addresses /\ lastWrong[b] <= lastWrong[c]
      <4>1. b \in Addresses /\ failures[b] # NoEntry
        BY <1>3 DEF Throttle!Known
      <4> QED
        BY <2>1, <2>3, <2>6, <4>1 DEF EntriesAreDue
    <3> QED
      BY <2>2, <2>4, <3>1
  <2>8. lastWrong \in [Addresses -> 0..Window]
    BY <2>6 DEF Throttle!TypeOK
  <2>9. lastWrong'[c] = lastWrong[c] /\ lastWrong'[a] = 0 /\ 0 <= lastWrong[c]
    BY <1>1, <1>6, <2>6, <2>8, LoginNumbers
  <2>10. \A b \in kept : lastWrong'[b] = lastWrong[b]
    BY <1>1, <2>7, <2>8
  <2>11. kept \cup {a} \subseteq FailedAfter(c)'
    BY <1>1, <1>6, <2>7, <2>9, <2>10 DEF FailedAfter
  <2>12. Cardinality(kept \cup {a}) >= MaxEntries
    BY <2>3, <2>5
  <2> QED
    BY <2>11, <2>12, StillFailedAfter
<1> QED
  BY <1>5, <1>6

LEMMA WrongKeeps == ASSUME LoginInv, NEW p \in Attempts, Throttle!AnswerWrong(p) PROVE LoginInv'
<1> DEFINE a == attempts[p]
<1>1. /\ a \in Addresses /\ Throttle!Record(a)
      /\ lastWrong' = [lastWrong EXCEPT ![a] = 0]
      /\ due' = [due EXCEPT ![a] = IF Throttle!Live(a) THEN @ ELSE Window]
  BY AnswerWrongIs
<1>2. /\ ~Throttle!Live(a) =>
           /\ Cardinality(Throttle!Known') <= MaxEntries
           /\ \A c \in Addresses : c # a /\ Throttle!Live(c) /\ failures'[c] = NoEntry =>
                Cardinality(FailedAfter(c)') >= MaxEntries
  BY OpeningKeeps
<1> HIDE DEF a
<1>3. /\ Throttle!TypeOK /\ EntriesAreDue /\ Throttle!ForgettingCosts
      /\ Cardinality(Throttle!Known) <= MaxEntries
      /\ lastWrong \in [Addresses -> 0..Window] /\ due \in [Addresses -> 0..Window]
  BY DEF LoginInv, Throttle!TypeOK
<1>4. /\ failures'[a] \in Throttle!Entry /\ failures'[a].age = 0
      /\ Throttle!Live(a) =>
           /\ failures'[a].left = failures[a].left
           /\ \A b \in Addresses : b # a => failures'[b] = failures[b]
      /\ ~Throttle!Live(a) =>
           /\ failures'[a].left = Window
           /\ \E kept \in Throttle!Kept : \A b \in Addresses : b # a =>
                failures'[b] = IF b \in kept THEN failures[b] ELSE NoEntry
  BY <1>1, RecordIs
<1>5. \A b \in Addresses : b # a => failures'[b] \in {failures[b], NoEntry}
  BY <1>4
<1>6. Cardinality(Throttle!Known') <= MaxEntries
  <2>1. CASE Throttle!Live(a)
    <3>1. failures[a] # NoEntry /\ failures'[a] # NoEntry
      BY <1>4, <2>1, LoginBounds DEF Throttle!Live
    <3>2. Throttle!Known' = Throttle!Known
      BY <1>1, <1>4, <2>1, <3>1 DEF Throttle!Known
    <3> QED
      BY <1>3, <3>2
  <2> QED
    BY <1>2, <2>1
<1>7. EntriesAreDue'
  <2>1. lastWrong'[a] = 0 /\ due'[a] = IF Throttle!Live(a) THEN due[a] ELSE Window
    BY <1>1, <1>3
  <2>2. \A b \in Addresses : b # a => lastWrong'[b] = lastWrong[b] /\ due'[b] = due[b]
    BY <1>1, <1>3
  <2>3. failures'[a].age = lastWrong'[a] /\ failures'[a].left = due'[a]
    BY <1>1, <1>3, <1>4, <2>1 DEF EntriesAreDue, Throttle!Live
  <2>4. ASSUME NEW b \in Addresses, b # a, failures'[b] # NoEntry
        PROVE  failures'[b].age = lastWrong'[b] /\ failures'[b].left = due'[b]
    BY <1>3, <1>5, <2>2, <2>4 DEF EntriesAreDue
  <2> QED
    BY <2>3, <2>4 DEF EntriesAreDue
<1>8. ASSUME NEW c \in Addresses, due'[c] > 0, failures'[c] = NoEntry
      PROVE  Cardinality(FailedAfter(c)') >= MaxEntries
  <2>1. c # a /\ due'[c] = due[c] /\ lastWrong'[c] = lastWrong[c]
    BY <1>1, <1>3, <1>4, <1>8, LoginBounds
  <2>2. CASE failures[c] = NoEntry
    <3>1. Cardinality(FailedAfter(c)) >= MaxEntries
      BY <1>3, <1>8, <2>1, <2>2, ForgettingIs
    <3>2. 0 <= lastWrong[c]
      BY <1>3, LoginNumbers
    <3>3. FailedAfter(c) \subseteq FailedAfter(c)'
      <4>1. ASSUME NEW b \in Addresses, b # c, lastWrong[b] <= lastWrong[c]
            PROVE  lastWrong'[b] <= lastWrong'[c]
        BY <1>1, <1>3, <2>1, <3>2, <4>1
      <4> QED
        BY <4>1 DEF FailedAfter
    <3> QED
      BY <3>1, <3>3, StillFailedAfter
  <2>3. CASE failures[c] # NoEntry
    <3>1. failures'[c] # failures[c]
      BY <1>8, <2>3
    <3>2. ~Throttle!Live(a)
      BY <1>4, <2>1, <3>1
    <3>3. Throttle!Live(c)
      BY <1>3, <1>8, <2>1, <2>3 DEF EntriesAreDue, Throttle!Live
    <3> QED
      BY <1>2, <1>8, <2>1, <3>2, <3>3
  <2> QED
    BY <2>2, <2>3
<1>9. Throttle!TypeOK'
  BY WrongTypes
<1>10. Throttle!ForgettingCosts'
  BY <1>8, SizesAgree DEF Throttle!ForgettingCosts, FailedAfter
<1> QED
  BY <1>6, <1>7, <1>9, <1>10 DEF LoginInv

LEMMA LoginInit == Throttle!Init => LoginInv
<1> SUFFICES ASSUME Throttle!Init PROVE LoginInv
  OBVIOUS
<1>1. \A a \in Addresses : failures[a] = NoEntry /\ due[a] = 0
  BY DEF Throttle!Init
<1>2. Throttle!TypeOK
  <2>1. 0 \in 0..Window /\ Window \in 0..Window /\ 0 \in 0..Throttle!Enough
    BY LoginBounds
  <2>2. Throttle!Never \in [Throttle!Ages -> 0..Throttle!Enough]
    BY <2>1 DEF Throttle!Never
  <2> QED
    BY <2>1, <2>2 DEF Throttle!Init, Throttle!TypeOK
<1>3. Throttle!Known = {}
  BY <1>1 DEF Throttle!Known
<1>4. Cardinality(Throttle!Known) <= MaxEntries
  BY <1>3, LoginBounds, FS_EmptySet
<1>5. EntriesAreDue
  BY <1>1 DEF EntriesAreDue
<1>6. Throttle!ForgettingCosts
  BY <1>1, ForgettingIs
<1> QED
  BY <1>2, <1>4, <1>5, <1>6 DEF LoginInv

\* To drop an entry that is not due costs nothing.
LEMMA DroppingKeeps ==
  ASSUME LoginInv, NEW a \in Addresses, Throttle!TypeOK',
         UNCHANGED lastWrong,
         \A b \in Addresses : b # a => failures'[b] = failures[b] /\ due'[b] = due[b],
         \/ failures'[a] = failures[a] /\ due'[a] = due[a]
         \/ failures'[a] = NoEntry /\ due'[a] = 0
  PROVE  LoginInv'
<1>1. /\ Throttle!TypeOK /\ EntriesAreDue /\ Throttle!ForgettingCosts
      /\ Cardinality(Throttle!Known) <= MaxEntries
  BY DEF LoginInv
<1>2. Cardinality(Throttle!Known') <= MaxEntries
  <2>1. Throttle!Known' \subseteq Throttle!Known
    BY DEF Throttle!Known
  <2>2. /\ Cardinality(Throttle!Known') \in Nat /\ Cardinality(Throttle!Known) \in Nat
        /\ Cardinality(Throttle!Known') <= Cardinality(Throttle!Known)
    BY <2>1, KnownIsFinite
  <2> QED
    BY <1>1, <2>2, LoginBounds
<1>3. EntriesAreDue'
  BY <1>1 DEF EntriesAreDue
<1>4. ASSUME NEW c \in Addresses, due'[c] > 0, failures'[c] = NoEntry
      PROVE  Cardinality(FailedAfter(c)') >= MaxEntries
  <2>1. due[c] > 0 /\ failures[c] = NoEntry
    BY <1>4
  <2>2. Cardinality(FailedAfter(c)) >= MaxEntries
    BY <1>1, <2>1, ForgettingIs
  <2>3. FailedAfter(c)' = FailedAfter(c)
    BY DEF FailedAfter
  <2> QED
    BY <2>2, <2>3
<1>5. Throttle!ForgettingCosts'
  BY <1>4, SizesAgree DEF Throttle!ForgettingCosts, FailedAfter
<1> QED
  BY <1>2, <1>3, <1>5 DEF LoginInv

LEMMA AdmitKeeps ==
  ASSUME LoginInv, NEW p \in Attempts, NEW a \in Addresses, Throttle!Admit(p, a)
  PROVE  LoginInv'
<1>1. Throttle!TypeOK /\ EntriesAreDue
  BY DEF LoginInv
<1>2. /\ attempts' = [attempts EXCEPT ![p] = a]
      /\ failures' = [failures EXCEPT ![a] = IF Throttle!Live(a) THEN @ ELSE NoEntry]
      /\ wrong' = wrong /\ lastWrong' = lastWrong /\ due' = due
  BY DEF Throttle!Admit
<1>3. Throttle!TypeOK'
  BY <1>1, <1>2 DEF Throttle!TypeOK
<1>4. \A b \in Addresses : b # a => failures'[b] = failures[b] /\ due'[b] = due[b]
  BY <1>1, <1>2 DEF Throttle!TypeOK
<1>5. \/ failures'[a] = failures[a] /\ due'[a] = due[a]
      \/ failures'[a] = NoEntry /\ due'[a] = 0
  <2>1. failures'[a] = IF Throttle!Live(a) THEN failures[a] ELSE NoEntry
    BY <1>1, <1>2 DEF Throttle!TypeOK
  <2>2. CASE failures[a] = NoEntry
    BY <1>2, <2>1, <2>2
  <2>3. CASE failures[a] # NoEntry /\ ~Throttle!Live(a)
    <3>1. due[a] = failures[a].left /\ ~(failures[a].left > 0) /\ due[a] \in Nat
      BY <1>1, <2>3, LoginNumbers DEF EntriesAreDue, Throttle!Live
    <3> QED
      BY <1>2, <2>1, <2>3, <3>1
  <2>4. CASE Throttle!Live(a)
    BY <1>2, <2>1, <2>4
  <2> QED
    BY <2>2, <2>3, <2>4
<1> QED
  BY <1>2, <1>3, <1>4, <1>5, DroppingKeeps

LEMMA RightKeeps == ASSUME LoginInv, NEW p \in Attempts, Throttle!AnswerRight(p) PROVE LoginInv'
<1> DEFINE a == attempts[p]
<1>1. Throttle!TypeOK
  BY DEF LoginInv
<1>2. /\ a \in Addresses
      /\ failures' = [failures EXCEPT ![a] = NoEntry]
      /\ wrong' = [wrong EXCEPT ![a] = Throttle!Never]
      /\ due' = [due EXCEPT ![a] = 0]
      /\ attempts' = [attempts EXCEPT ![p] = Idle] /\ lastWrong' = lastWrong
  BY <1>1 DEF Throttle!AnswerRight, Throttle!TypeOK
<1> HIDE DEF a
<1>3. Throttle!TypeOK'
  <2>1. 0 \in 0..Window /\ 0 \in 0..Throttle!Enough
    BY LoginBounds
  <2>2. Throttle!Never \in [Throttle!Ages -> 0..Throttle!Enough]
    BY <2>1 DEF Throttle!Never
  <2> QED
    BY <1>1, <1>2, <2>1, <2>2 DEF Throttle!TypeOK
<1>4. /\ \A b \in Addresses : b # a => failures'[b] = failures[b] /\ due'[b] = due[b]
      /\ failures'[a] = NoEntry /\ due'[a] = 0
  BY <1>1, <1>2 DEF Throttle!TypeOK
<1> QED
  BY <1>2, <1>3, <1>4, DroppingKeeps

\* What a tick does to the entry of an address and to its ages.
LEMMA TickIs ==
  ASSUME LoginInv, Throttle!Tick, NEW a \in Addresses
  PROVE  /\ failures'[a] = NoEntry <=> failures[a] = NoEntry
         /\ failures[a] # NoEntry =>
              /\ failures'[a] \in Throttle!Entry /\ failures'[a].count = failures[a].count
              /\ failures'[a].left = IF failures[a].left = 0 THEN 0 ELSE failures[a].left - 1
              /\ failures'[a].age = Throttle!Older(failures[a].age)
         /\ lastWrong'[a] = Throttle!Older(lastWrong[a])
         /\ due'[a] = IF due[a] = 0 THEN 0 ELSE due[a] - 1
         /\ Throttle!Older(lastWrong[a]) \in 0..Window
         /\ due'[a] \in 0..Window
<1>1. Throttle!TypeOK
  BY DEF LoginInv
<1>2. /\ lastWrong'[a] = Throttle!Older(lastWrong[a])
      /\ due'[a] = IF due[a] = 0 THEN 0 ELSE due[a] - 1
  BY DEF Throttle!Tick
<1>3. Throttle!Older(lastWrong[a]) \in 0..Window /\ due'[a] \in 0..Window
  BY <1>1, <1>2, LoginNumbers, LoginBounds DEF Throttle!Older
<1>4. failures[a] = NoEntry => failures'[a] = NoEntry
  BY DEF Throttle!Tick
<1>5. ASSUME failures[a] # NoEntry
      PROVE  /\ failures'[a] \in Throttle!Entry /\ failures'[a].count = failures[a].count
             /\ failures'[a].left = IF failures[a].left = 0 THEN 0 ELSE failures[a].left - 1
             /\ failures'[a].age = Throttle!Older(failures[a].age)
  <2> DEFINE left == IF failures[a].left = 0 THEN 0 ELSE failures[a].left - 1
             age == Throttle!Older(failures[a].age)
  <2>1. failures[a] \in Throttle!Entry
    BY <1>1, <1>5 DEF Throttle!TypeOK
  <2>2. failures'[a] = [failures[a] EXCEPT !.left = left, !.age = age]
    BY <1>5 DEF Throttle!Tick
  <2>3. left \in 0..Window /\ age \in 0..Window
    BY <1>1, <1>5, LoginNumbers, LoginBounds DEF Throttle!Older
  <2> HIDE DEF left, age
  <2>4. /\ failures'[a] \in Throttle!Entry /\ failures'[a].count = failures[a].count
        /\ failures'[a].left = left /\ failures'[a].age = age
    BY <2>1, <2>2, <2>3, EntryAges DEF Throttle!Entry
  <2> QED
    BY <2>4 DEF left, age
<1>6. failures[a] # NoEntry => failures'[a] # NoEntry
  BY <1>5, LoginBounds
<1> QED
  BY <1>2, <1>3, <1>4, <1>5, <1>6

LEMMA LoginTickKeeps == ASSUME LoginInv, Throttle!Tick PROVE LoginInv'
<1>1. /\ Throttle!TypeOK /\ EntriesAreDue /\ Throttle!ForgettingCosts
      /\ Cardinality(Throttle!Known) <= MaxEntries
  BY DEF LoginInv
<1>2. Throttle!TypeOK'
  <2>1. failures' \in [Addresses -> Throttle!Entry \cup {NoEntry}]
    <3>1. \A a \in Addresses : failures'[a] \in Throttle!Entry \cup {NoEntry}
      BY TickIs
    <3> QED
      BY <3>1 DEF Throttle!Tick
  <2>2. lastWrong' \in [Addresses -> 0..Window] /\ due' \in [Addresses -> 0..Window]
    <3>1. \A a \in Addresses : lastWrong'[a] \in 0..Window /\ due'[a] \in 0..Window
      BY TickIs
    <3> QED
      BY <3>1 DEF Throttle!Tick
  <2>3. wrong' \in [Addresses -> [Throttle!Ages -> 0..Throttle!Enough]]
    <3>1. \A a \in Addresses :
            [g \in Throttle!Ages |-> IF g = 0 THEN 0 ELSE wrong[a][g - 1]]
              \in [Throttle!Ages -> 0..Throttle!Enough]
      BY <1>1, HistoryTypes DEF Throttle!TypeOK
    <3> QED
      BY <3>1 DEF Throttle!Tick
  <2> QED
    BY <1>1, <2>1, <2>2, <2>3 DEF Throttle!Tick, Throttle!TypeOK
<1>3. Cardinality(Throttle!Known') <= MaxEntries
  <2>1. Throttle!Known' = Throttle!Known
    BY TickIs DEF Throttle!Known
  <2> QED
    BY <1>1, <2>1
<1>4. EntriesAreDue'
  <2>1. ASSUME NEW a \in Addresses, failures'[a] # NoEntry
        PROVE  failures'[a].age = lastWrong'[a] /\ failures'[a].left = due'[a]
    <3>1. failures[a] # NoEntry
      BY <2>1, TickIs
    <3>2. failures[a].age = lastWrong[a] /\ failures[a].left = due[a]
      BY <1>1, <3>1 DEF EntriesAreDue
    <3> QED
      BY <3>1, <3>2, TickIs
  <2> QED
    BY <2>1 DEF EntriesAreDue
<1>5. ASSUME NEW c \in Addresses, due'[c] > 0, failures'[c] = NoEntry
      PROVE  Cardinality(FailedAfter(c)') >= MaxEntries
  <2>1. due[c] > 0 /\ failures[c] = NoEntry
    BY <1>1, <1>5, TickIs, LoginNumbers
  <2>2. Cardinality(FailedAfter(c)) >= MaxEntries
    BY <1>1, <2>1, ForgettingIs
  <2>3. \A b \in Addresses : lastWrong[b] <= lastWrong[c] => lastWrong'[b] <= lastWrong'[c]
    <3>1. \A b \in Addresses :
            /\ lastWrong[b] \in Nat /\ lastWrong[b] <= Window
            /\ lastWrong'[b] = Throttle!Older(lastWrong[b])
      BY <1>1, TickIs, LoginNumbers
    <3> QED
      BY <3>1, LoginBounds DEF Throttle!Older
  <2>4. FailedAfter(c) \subseteq FailedAfter(c)'
    BY <2>3 DEF FailedAfter
  <2> QED
    BY <2>2, <2>4, StillFailedAfter
<1>6. Throttle!ForgettingCosts'
  BY <1>5, SizesAgree DEF Throttle!ForgettingCosts, FailedAfter
<1> QED
  BY <1>2, <1>3, <1>4, <1>6 DEF LoginInv

LEMMA LoginNextKeeps == LoginInv /\ [Throttle!Next]_(Throttle!vars) => LoginInv'
<1> SUFFICES ASSUME LoginInv, [Throttle!Next]_(Throttle!vars) PROVE LoginInv'
  OBVIOUS
<1>1. CASE \E p \in Attempts, a \in Addresses : Throttle!Admit(p, a)
  BY <1>1, AdmitKeeps
<1>2. CASE \E p \in Attempts : Throttle!AnswerWrong(p)
  BY <1>2, WrongKeeps
<1>3. CASE \E p \in Attempts : Throttle!AnswerRight(p)
  BY <1>3, RightKeeps
<1>4. CASE Throttle!Tick
  BY <1>4, LoginTickKeeps
<1>5. CASE Throttle!Restart
  <2>1. \A a \in Addresses : failures'[a] = NoEntry /\ due'[a] = 0
    BY <1>5 DEF Throttle!Restart
  <2>2. Throttle!TypeOK'
    <3>1. 0 \in 0..Window /\ Window \in 0..Window /\ 0 \in 0..Throttle!Enough
      BY LoginBounds
    <3>2. Throttle!Never \in [Throttle!Ages -> 0..Throttle!Enough]
      BY <3>1 DEF Throttle!Never
    <3> QED
      BY <1>5, <3>1, <3>2 DEF Throttle!Restart, Throttle!TypeOK
  <2>3. Throttle!Known' = {}
    BY <2>1 DEF Throttle!Known
  <2>4. Cardinality(Throttle!Known') <= MaxEntries
    BY <2>3, LoginBounds, FS_EmptySet
  <2>5. EntriesAreDue'
    BY <2>1 DEF EntriesAreDue
  <2>6. Throttle!ForgettingCosts'
    BY <2>1, SizesAgree DEF Throttle!ForgettingCosts
  <2> QED
    BY <2>2, <2>4, <2>5, <2>6 DEF LoginInv
<1>6. CASE UNCHANGED Throttle!vars
  <2>1. UNCHANGED <<failures, attempts, wrong, lastWrong, due>>
    BY <1>6 DEF Throttle!vars
  <2>2. Throttle!TypeOK' /\ EntriesAreDue' /\ Throttle!Known' = Throttle!Known
    BY <2>1 DEF LoginInv, Throttle!TypeOK, EntriesAreDue, Throttle!Known
  <2>3. Throttle!ForgettingCosts'
    BY <2>1 DEF LoginInv, Throttle!ForgettingCosts
  <2> QED
    BY <2>2, <2>3 DEF LoginInv
<1> QED
  BY <1>1, <1>2, <1>3, <1>4, <1>5, <1>6 DEF Throttle!Next

-----------------------------------------------------------------------------
(* The login throttle: the wrong keys that a quarter hour sees answered.   *)

\* The wrong keys that one window answers: the limit, and the requests that were
\* let in before it was reached.
Book == Limit + Throttle!Overshoot

InFlight(a) == {p \in Attempts : attempts[p] = a}

\* What is left of the window that runs for an address; one that was forgotten
\* runs no more.
Left(a) == IF failures[a] = NoEntry THEN 0 ELSE due[a]

\* Of the wrong keys still counted, those of the running window and those before.
Recent(a) == {w \in Throttle!Answered(a) : w[1] <= Window - Left(a)}
Earlier(a) == {w \in Throttle!Answered(a) : w[1] > Window - Left(a)}

\* A running window has its failures counted and started with one; what an
\* address got answered before it, or without one, is less than a window's book.
Booked(a) ==
  /\ Left(a) > 0 =>
       /\ failures[a].count + Cardinality(InFlight(a)) <= Book
       /\ Cardinality(Recent(a)) <= failures[a].count
       /\ Cardinality(Earlier(a)) <= Book - 1
       /\ wrong[a][Window - Left(a)] >= 1
  /\ Left(a) = 0 => Cardinality(Throttle!Answered(a)) <= Book - 1 /\ wrong[a][0] = 0

GuessInv == \A a \in Addresses : Booked(a)

LEMMA BookIs == Book \in Nat \ {0} /\ Book = Limit + Cardinality(Attempts) - 1 /\ Throttle!Enough = 2 * Book
BY LoginBounds DEF Book

\* Marks that are all one tick older than others are no more than those.
LEMMA ShiftFits ==
  ASSUME NEW T, IsFiniteSet(T), NEW S, S \subseteq Nat \X Nat,
         \A w \in S : w[1] # 0 /\ <<w[1] - 1, w[2]>> \in T
  PROVE  Cardinality(S) \in Nat /\ Cardinality(S) <= Cardinality(T)
<1> DEFINE f == [w \in S |-> <<w[1] - 1, w[2]>>]
<1>1. f \in [S -> T]
  OBVIOUS
<1>2. ASSUME NEW v \in S, NEW w \in S, f[v] = f[w] PROVE v = w
  <2>1. /\ v[1] \in Nat /\ v[2] \in Nat /\ v = <<v[1], v[2]>> /\ v[1] # 0
        /\ w[1] \in Nat /\ w[2] \in Nat /\ w = <<w[1], w[2]>> /\ w[1] # 0
    <3>1. \A u \in Nat \X Nat : u[1] \in Nat /\ u[2] \in Nat /\ u = <<u[1], u[2]>>
      OBVIOUS
    <3>2. v \in Nat \X Nat /\ w \in Nat \X Nat /\ v[1] # 0 /\ w[1] # 0
      OBVIOUS
    <3> QED
      BY <3>1, <3>2
  <2>2. v[1] - 1 = w[1] - 1 /\ v[2] = w[2]
    BY <1>2
  <2>3. v[1] = w[1]
    BY <2>1, <2>2
  <2> QED
    BY <2>1, <2>2, <2>3
<1>3. f \in Injection(S, T)
  BY <1>1, <1>2, Fun_IsInj
<1> QED
  BY <1>3, FS_Injection, FS_CardinalityType

LEMMA AnsweredIsFinite ==
  ASSUME LoginInv, NEW a \in Addresses
  PROVE  /\ Throttle!Answered(a) \subseteq Nat \X Nat
         /\ \A S : S \subseteq Throttle!Answered(a) =>
              /\ IsFiniteSet(S) /\ Cardinality(S) \in Nat
              /\ Cardinality(S) <= Cardinality(Throttle!Answered(a))
<1>1. IsFiniteSet(Throttle!Ages) /\ IsFiniteSet(1..Throttle!Enough)
  BY LoginBounds, FS_Interval DEF Throttle!Ages
<1>2. IsFiniteSet(Throttle!Ages \X (1..Throttle!Enough))
  BY <1>1, FS_Product
<1>3. Throttle!Answered(a) \subseteq Throttle!Ages \X (1..Throttle!Enough)
  BY DEF Throttle!Answered
<1>4. IsFiniteSet(Throttle!Answered(a))
  BY <1>2, <1>3, FS_Subset
<1>5. Throttle!Answered(a) \subseteq Nat \X Nat
  BY <1>3, LoginBounds DEF Throttle!Ages
<1> QED
  BY <1>4, <1>5, FewerIds

\* A window runs while it has its entry and time left.
LEMMA LiveIs ==
  ASSUME LoginInv, NEW a \in Addresses
  PROVE  /\ Left(a) \in Nat /\ Left(a) <= Window
         /\ Left(a) > 0 => failures[a] # NoEntry /\ Left(a) = due[a]
         /\ failures[a] = NoEntry => Left(a) = 0
         /\ Throttle!Live(a) <=> Left(a) > 0
<1>1. due[a] \in Nat /\ due[a] <= Window /\ Window \in Nat
  BY LoginNumbers, LoginBounds DEF LoginInv
<1>2. failures[a] # NoEntry => failures[a].left = due[a]
  BY DEF LoginInv, EntriesAreDue
<1> QED
  BY <1>1, <1>2 DEF Throttle!Live, Left

LEMMA InFlightFits ==
  ASSUME NEW a
  PROVE  /\ IsFiniteSet(InFlight(a)) /\ Cardinality(InFlight(a)) \in Nat
         /\ Cardinality(InFlight(a)) <= Cardinality(Attempts)
<1>1. InFlight(a) \subseteq Attempts
  BY DEF InFlight
<1> QED
  BY <1>1, LoginBounds, FewerIds

\* The books of an address stand when neither its window nor its requests change.
LEMMA BooksStand ==
  ASSUME NEW a \in Addresses, Booked(a),
         Left(a)' = Left(a), wrong'[a] = wrong[a], InFlight(a)' \subseteq InFlight(a),
         Left(a) > 0 => failures'[a] = failures[a],
         failures[a].count \in Nat \/ Left(a) = 0, Left(a) \in Nat
  PROVE  Booked(a)'
<1>1. /\ Throttle!Answered(a)' = Throttle!Answered(a)
      /\ Recent(a)' = Recent(a) /\ Earlier(a)' = Earlier(a)
  BY DEF Throttle!Answered, Recent, Earlier
<1>2. /\ Cardinality(InFlight(a)') \in Nat /\ Cardinality(InFlight(a)) \in Nat
      /\ Cardinality(InFlight(a)') <= Cardinality(InFlight(a))
  BY InFlightFits, FewerIds
<1>3. Cardinality(Throttle!Answered(a))' = Cardinality(Throttle!Answered(a))
  BY <1>1
<1>4. CASE Left(a) = 0
  BY <1>1, <1>4, BookIs DEF Booked
<1>5. CASE Left(a) > 0
  <2>1. /\ failures'[a].count = failures[a].count /\ failures[a].count \in Nat
        /\ failures[a].count + Cardinality(InFlight(a)) <= Book /\ Book \in Nat
    BY <1>5, BookIs DEF Booked
  <2>2. failures'[a].count + Cardinality(InFlight(a)') <= Book
    BY <1>2, <2>1
  <2> QED
    BY <1>1, <1>5, <2>1, <2>2 DEF Booked
<1> QED
  BY <1>4, <1>5

LEMMA GuessInit == ASSUME Throttle!Init PROVE GuessInv
<1> SUFFICES ASSUME NEW a \in Addresses PROVE Booked(a)
  BY DEF GuessInv
<1>1. 0 \in Throttle!Ages
  BY LoginBounds DEF Throttle!Ages
<1>2. wrong[a] = Throttle!Never /\ Left(a) = 0
  BY DEF Throttle!Init, Left
<1>3. wrong[a][0] = 0
  BY <1>1, <1>2 DEF Throttle!Never
<1>4. Throttle!Answered(a) = {}
  BY <1>2 DEF Throttle!Answered, Throttle!Never
<1>5. Cardinality(Throttle!Answered(a)) <= Book - 1
  BY <1>4, FS_EmptySet, BookIs
<1> QED
  BY <1>2, <1>3, <1>5 DEF Booked

\* Without a window and without a wrong key the books are clear.
LEMMA BooksClear ==
  ASSUME NEW a \in Addresses, wrong'[a] = Throttle!Never, Left(a)' = 0
  PROVE  Booked(a)'
<1>1. 0 \in Throttle!Ages
  BY LoginBounds DEF Throttle!Ages
<1>2. wrong'[a][0] = 0
  BY <1>1 DEF Throttle!Never
<1>3. Throttle!Answered(a)' = {}
  BY DEF Throttle!Answered, Throttle!Never
<1>4. Cardinality(Throttle!Answered(a)') <= Book - 1
  BY <1>3, FS_EmptySet, BookIs
<1> QED
  BY <1>2, <1>4 DEF Booked

LEMMA AdmitBooks ==
  ASSUME LoginInv, NEW p \in Attempts, NEW c \in Addresses, Throttle!Admit(p, c),
         NEW a \in Addresses, Booked(a)
  PROVE  Booked(a)'
<1>1. Throttle!TypeOK
  BY DEF LoginInv
<1>2. /\ attempts[p] = Idle /\ Throttle!Allowed(c) /\ attempts' = [attempts EXCEPT ![p] = c]
      /\ failures' = [failures EXCEPT ![c] = IF Throttle!Live(c) THEN @ ELSE NoEntry]
      /\ wrong' = wrong /\ due' = due
  BY DEF Throttle!Admit
<1>3. Throttle!Live(a) <=> Left(a) > 0
  BY LiveIs
<1>4. (Left(a) > 0 => failures'[a] = failures[a]) /\ Left(a)' = Left(a)
  <2>1. CASE a # c \/ Throttle!Live(a)
    <3>1. failures'[a] = failures[a] /\ due'[a] = due[a]
      BY <1>1, <1>2, <2>1 DEF Throttle!TypeOK
    <3> QED
      BY <3>1 DEF Left
  <2>2. CASE a = c /\ ~Throttle!Live(a)
    <3>1. failures'[a] = NoEntry
      BY <1>1, <1>2, <2>2 DEF Throttle!TypeOK
    <3>2. Left(a)' = 0
      BY <3>1 DEF Left
    <3> QED
      BY <1>3, <2>2, <3>2, LiveIs
  <2> QED
    BY <2>1, <2>2
<1>5. Left(a) \in Nat /\ (Left(a) > 0 => failures[a].count \in Nat)
  BY <1>1, LoginNumbers, LiveIs
<1>6. CASE a # c
  <2>1. InFlight(a)' \subseteq InFlight(a)
    BY <1>1, <1>2, <1>6 DEF InFlight, Throttle!TypeOK
  <2> QED
    BY <1>2, <1>4, <1>5, <2>1, BooksStand
<1>7. CASE a = c /\ Left(a) > 0
  <2>1. failures[a].count < Limit
    BY <1>2, <1>3, <1>7 DEF Throttle!Allowed
  <2>2. Cardinality(InFlight(a)') \in Nat /\ Cardinality(InFlight(a)') <= Cardinality(Attempts)
    <3>1. InFlight(a)' \subseteq Attempts
      BY DEF InFlight
    <3> QED
      BY <3>1, LoginBounds, FewerIds
  <2>3. failures[a].count + Cardinality(InFlight(a)') <= Book
    BY <1>5, <1>7, <2>1, <2>2, LoginBounds, BookIs
  <2>4. Recent(a)' = Recent(a) /\ Earlier(a)' = Earlier(a)
    BY <1>2, <1>4 DEF Recent, Earlier, Throttle!Answered
  <2> QED
    BY <1>2, <1>4, <1>7, <2>3, <2>4 DEF Booked
<1>8. CASE Left(a) = 0
  <2>1. Throttle!Answered(a)' = Throttle!Answered(a)
    BY <1>2 DEF Throttle!Answered
  <2> QED
    BY <1>2, <1>4, <1>8, <2>1 DEF Booked
<1> QED
  BY <1>5, <1>6, <1>7, <1>8

LEMMA RightBooks ==
  ASSUME LoginInv, NEW p \in Attempts, Throttle!AnswerRight(p),
         NEW a \in Addresses, Booked(a)
  PROVE  Booked(a)'
<1>1. Throttle!TypeOK
  BY DEF LoginInv
<1>2. /\ attempts[p] \in Addresses
      /\ failures' = [failures EXCEPT ![attempts[p]] = NoEntry]
      /\ wrong' = [wrong EXCEPT ![attempts[p]] = Throttle!Never]
      /\ due' = [due EXCEPT ![attempts[p]] = 0]
      /\ attempts' = [attempts EXCEPT ![p] = Idle]
  BY <1>1 DEF Throttle!AnswerRight, Throttle!TypeOK
<1>3. CASE a = attempts[p]
  BY <1>1, <1>2, <1>3, BooksClear DEF Throttle!TypeOK, Left
<1>4. CASE a # attempts[p]
  <2>1. Left(a)' = Left(a) /\ wrong'[a] = wrong[a] /\ failures'[a] = failures[a]
    BY <1>1, <1>2, <1>4 DEF Throttle!TypeOK, Left
  <2>2. InFlight(a)' \subseteq InFlight(a)
    BY <1>1, <1>2, LoginBounds DEF InFlight, Throttle!TypeOK
  <2>3. Left(a) \in Nat /\ (Left(a) > 0 => failures[a].count \in Nat)
    BY <1>1, LoginNumbers, LiveIs
  <2> QED
    BY <2>1, <2>2, <2>3, BooksStand
<1> QED
  BY <1>3, <1>4

\* A wrong key inside a window is one more recent one and one more counted.
LEMMA WrongInsideBooks ==
  ASSUME LoginInv, NEW p \in Attempts, Throttle!AnswerWrong(p),
         NEW a \in Addresses, a = attempts[p], Left(a) > 0, Booked(a)
  PROVE  Booked(a)'
<1>1. /\ Throttle!Record(a) /\ attempts' = [attempts EXCEPT ![p] = Idle]
      /\ wrong'[a] = [wrong[a] EXCEPT ![0] = IF @ < Throttle!Enough THEN @ + 1 ELSE @]
      /\ due' = [due EXCEPT ![a] = IF Throttle!Live(a) THEN @ ELSE Window]
  BY AnswerWrongIs
<1>2. Throttle!Live(a) /\ failures[a] # NoEntry
  BY LiveIs
<1>3. Throttle!TypeOK
  BY DEF LoginInv
<1>4. Left(a)' = Left(a) /\ Left(a) \in Nat /\ Left(a) <= Window /\ Window \in Nat
  <2>1. failures'[a] # NoEntry /\ due'[a] = due[a]
    BY <1>1, <1>2, <1>3, RecordIs, LoginBounds DEF Throttle!TypeOK
  <2> QED
    BY <1>2, <2>1, LiveIs, LoginBounds DEF Left
<1>5. failures'[a].count = failures[a].count + 1 /\ failures[a].count \in Nat
  BY <1>1, <1>2, <1>3, RecordIs, LoginNumbers
<1> DEFINE n == wrong[a][0]
<1>6. /\ 0 \in Throttle!Ages /\ wrong[a] \in [Throttle!Ages -> 0..Throttle!Enough]
      /\ n \in Nat /\ Throttle!Enough \in Nat
  <2>1. 0 \in Throttle!Ages /\ Throttle!Enough \in Nat
    BY LoginBounds DEF Throttle!Ages
  <2>2. wrong[a] \in [Throttle!Ages -> 0..Throttle!Enough]
    BY <1>3 DEF Throttle!TypeOK
  <2> QED
    BY <2>1, <2>2
<1>7. /\ wrong'[a][0] \in {n, n + 1}
      /\ \A g \in Throttle!Ages : g # 0 => wrong'[a][g] = wrong[a][g]
  BY <1>1, <1>3, <1>6 DEF Throttle!TypeOK
<1>8. /\ \A w \in Throttle!Ages \X (1..Throttle!Enough) :
           w[1] \in Nat /\ w[2] \in Nat /\ w = <<w[1], w[2]>>
  BY <1>6 DEF Throttle!Ages
<1> HIDE DEF n
<1>9. \A w \in Throttle!Answered(a)' : w \in Throttle!Answered(a) \/ w = <<0, n + 1>>
  <2>1. ASSUME NEW w \in Throttle!Answered(a)', w \notin Throttle!Answered(a)
        PROVE  w = <<0, n + 1>>
    <3>1. /\ w \in Throttle!Ages \X (1..Throttle!Enough)
          /\ w[2] <= wrong'[a][w[1]] /\ ~(w[2] <= wrong[a][w[1]])
      BY <2>1 DEF Throttle!Answered
    <3>2. w[1] = 0
      BY <1>7, <3>1
    <3>3. w[2] <= n + 1 /\ ~(w[2] <= n)
      BY <1>6, <1>7, <3>1, <3>2 DEF n
    <3> QED
      BY <1>6, <1>8, <3>1, <3>2, <3>3
  <2> QED
    BY <2>1
<1>10. /\ Recent(a)' \subseteq Recent(a) \cup {<<0, n + 1>>}
       /\ Earlier(a)' \subseteq Earlier(a)
  BY <1>4, <1>9 DEF Recent, Earlier
<1>11. /\ IsFiniteSet(Recent(a)) /\ Cardinality(Recent(a)) \in Nat
       /\ IsFiniteSet(Earlier(a)) /\ Cardinality(Earlier(a)) \in Nat
  BY AnsweredIsFinite DEF Recent, Earlier
<1>12. Cardinality(Recent(a)') \in Nat /\ Cardinality(Recent(a)') <= Cardinality(Recent(a)) + 1
  <2>1. IsFiniteSet(Recent(a) \cup {<<0, n + 1>>})
        /\ Cardinality(Recent(a) \cup {<<0, n + 1>>}) \in {Cardinality(Recent(a)), Cardinality(Recent(a)) + 1}
    BY <1>11, FS_AddElement
  <2>2. /\ Cardinality(Recent(a)') \in Nat
        /\ Cardinality(Recent(a)') <= Cardinality(Recent(a) \cup {<<0, n + 1>>})
    BY <1>10, <2>1, FewerIds
  <2> QED
    BY <1>11, <2>1, <2>2
<1>13. Cardinality(Earlier(a)') \in Nat /\ Cardinality(Earlier(a)') <= Cardinality(Earlier(a))
  BY <1>10, <1>11, FewerIds
<1>14. InFlight(a)' = InFlight(a) \ {p} /\ p \in InFlight(a)
  BY <1>1, <1>3, LoginBounds DEF InFlight, Throttle!TypeOK
<1>15. /\ Cardinality(InFlight(a)') = Cardinality(InFlight(a)) - 1
       /\ Cardinality(InFlight(a)) \in Nat
  BY <1>14, InFlightFits, FS_RemoveElement
<1>16. /\ failures[a].count + Cardinality(InFlight(a)) <= Book
       /\ Cardinality(Recent(a)) <= failures[a].count
       /\ Cardinality(Earlier(a)) <= Book - 1
       /\ wrong[a][Window - Left(a)] >= 1
  BY DEF Booked
<1>17. wrong'[a][Window - Left(a)] >= 1
  <2>1. Window - Left(a) \in Throttle!Ages
    BY <1>4 DEF Throttle!Ages
  <2> QED
    BY <1>6, <1>7, <1>16, <2>1 DEF n
<1>18. failures'[a].count + Cardinality(InFlight(a)') <= Book
  BY <1>5, <1>15, <1>16, BookIs
<1>19. Cardinality(Recent(a)') <= failures'[a].count
  BY <1>5, <1>11, <1>12, <1>16
<1>20. Cardinality(Earlier(a)') <= Book - 1
  BY <1>11, <1>13, <1>16, BookIs
<1> QED
  BY <1>4, <1>17, <1>18, <1>19, <1>20 DEF Booked

\* A wrong key outside any window opens one, and is its first.
LEMMA WrongOutsideBooks ==
  ASSUME LoginInv, NEW p \in Attempts, Throttle!AnswerWrong(p),
         NEW a \in Addresses, a = attempts[p], Left(a) = 0, Booked(a)
  PROVE  Booked(a)'
<1>1. /\ Throttle!Record(a) /\ attempts' = [attempts EXCEPT ![p] = Idle]
      /\ wrong'[a] = [wrong[a] EXCEPT ![0] = IF @ < Throttle!Enough THEN @ + 1 ELSE @]
      /\ due' = [due EXCEPT ![a] = IF Throttle!Live(a) THEN @ ELSE Window]
  BY AnswerWrongIs
<1>2. ~Throttle!Live(a)
  BY LiveIs
<1>3. Throttle!TypeOK
  BY DEF LoginInv
<1>4. Left(a)' = Window /\ Window \in Nat \ {0} /\ Window - Left(a)' = 0
  <2>1. failures'[a] # NoEntry /\ due'[a] = Window
    BY <1>1, <1>2, <1>3, RecordIs, LoginBounds DEF Throttle!TypeOK
  <2> QED
    BY <2>1, LoginBounds DEF Left
<1>5. failures'[a].count = 1
  BY <1>1, <1>2, RecordIs
<1>6. /\ 0 \in Throttle!Ages /\ wrong[a] \in [Throttle!Ages -> 0..Throttle!Enough]
      /\ Throttle!Enough \in Nat \ {0}
  BY <1>3, LoginBounds DEF Throttle!TypeOK, Throttle!Ages
<1>7. Cardinality(Throttle!Answered(a)) <= Book - 1 /\ wrong[a][0] = 0
  BY DEF Booked
<1>8. /\ wrong'[a][0] = 1
      /\ \A g \in Throttle!Ages : g # 0 => wrong'[a][g] = wrong[a][g]
  BY <1>1, <1>3, <1>6, <1>7 DEF Throttle!TypeOK
<1>9. \A w \in Throttle!Ages \X (1..Throttle!Enough) :
        w[1] \in Nat /\ w[2] \in Nat /\ w[2] >= 1 /\ w = <<w[1], w[2]>>
  BY <1>6 DEF Throttle!Ages
<1>10. Recent(a)' \subseteq {<<0, 1>>}
  <2>1. ASSUME NEW w \in Recent(a)' PROVE w = <<0, 1>>
    <3>1. /\ w \in Throttle!Ages \X (1..Throttle!Enough)
          /\ w[2] <= wrong'[a][w[1]] /\ w[1] <= 0
      BY <1>4, <2>1 DEF Recent, Throttle!Answered
    <3>2. w[1] = 0
      BY <1>9, <3>1
    <3>3. w[2] = 1
      BY <1>8, <1>9, <3>1, <3>2
    <3> QED
      BY <1>9, <3>1, <3>2, <3>3
  <2> QED
    BY <2>1
<1>11. Cardinality(Recent(a)') <= 1
  <2>1. IsFiniteSet({<<0, 1>>}) /\ Cardinality({<<0, 1>>}) = 1
    BY FS_Singleton
  <2> QED
    BY <1>10, <2>1, FewerIds
<1>12. Earlier(a)' \subseteq Throttle!Answered(a)
  <2>1. ASSUME NEW w \in Earlier(a)' PROVE w \in Throttle!Answered(a)
    <3>1. /\ w \in Throttle!Ages \X (1..Throttle!Enough)
          /\ w[2] <= wrong'[a][w[1]] /\ w[1] > 0
      BY <1>4, <2>1 DEF Earlier, Throttle!Answered
    <3>2. w[1] # 0 /\ w[1] \in Throttle!Ages
      BY <1>9, <3>1
    <3> QED
      BY <1>8, <3>1, <3>2 DEF Throttle!Answered
  <2> QED
    BY <2>1
<1>13. Cardinality(Earlier(a)') <= Book - 1
  <2>1. /\ Cardinality(Earlier(a)') \in Nat /\ Cardinality(Throttle!Answered(a)) \in Nat
        /\ Cardinality(Earlier(a)') <= Cardinality(Throttle!Answered(a))
    BY <1>12, AnsweredIsFinite
  <2> QED
    BY <1>7, <2>1, BookIs
<1>14. 1 + Cardinality(InFlight(a)') <= Book
  <2>1. InFlight(a)' = InFlight(a) \ {p} /\ p \in InFlight(a)
    BY <1>1, <1>3, LoginBounds DEF InFlight, Throttle!TypeOK
  <2>2. /\ Cardinality(InFlight(a)') = Cardinality(InFlight(a)) - 1
        /\ Cardinality(InFlight(a)) \in Nat
        /\ Cardinality(InFlight(a)) <= Cardinality(Attempts)
    BY <2>1, InFlightFits, FS_RemoveElement
  <2> QED
    BY <2>2, BookIs, LoginBounds
<1> QED
  BY <1>4, <1>5, <1>8, <1>11, <1>13, <1>14 DEF Booked

\* What a tick leaves in the history is what was there, a tick older.
LEMMA TickShifts ==
  ASSUME LoginInv, Throttle!Tick, NEW a \in Addresses
  PROVE  /\ \A w \in Throttle!Answered(a)' :
              /\ w \in Nat \X Nat /\ w[1] \in Nat /\ w[2] \in Nat
              /\ w[1] # 0 /\ w[1] <= Window - 1
              /\ <<w[1] - 1, w[2]>> \in Throttle!Answered(a)
         /\ wrong'[a][0] = 0
         /\ \A g \in Throttle!Ages : g # 0 => wrong'[a][g] = wrong[a][g - 1]
<1>1. wrong'[a] = [g \in Throttle!Ages |-> IF g = 0 THEN 0 ELSE wrong[a][g - 1]]
  BY DEF Throttle!Tick
<1>2. 0 \in Throttle!Ages /\ Throttle!Enough \in Nat /\ Window \in Nat
  BY LoginBounds DEF Throttle!Ages
<1>3. \A g \in Throttle!Ages : g \in Nat /\ g <= Window - 1 /\ (g # 0 => g - 1 \in Throttle!Ages)
  BY <1>2 DEF Throttle!Ages
<1>4. /\ wrong'[a][0] = 0
      /\ \A g \in Throttle!Ages : g # 0 => wrong'[a][g] = wrong[a][g - 1]
  BY <1>1, <1>2
<1>5. ASSUME NEW w \in Throttle!Answered(a)'
      PROVE  /\ w \in Nat \X Nat /\ w[1] \in Nat /\ w[2] \in Nat
             /\ w[1] # 0 /\ w[1] <= Window - 1
             /\ <<w[1] - 1, w[2]>> \in Throttle!Answered(a)
  <2>1. w \in Throttle!Ages \X (1..Throttle!Enough) /\ w[2] <= wrong'[a][w[1]]
    BY <1>5 DEF Throttle!Answered
  <2>2. w[1] \in Throttle!Ages /\ w[2] \in 1..Throttle!Enough /\ w = <<w[1], w[2]>>
    BY <2>1
  <2>3. w[1] # 0
    BY <1>2, <1>4, <2>1, <2>2
  <2>4. w[2] <= wrong[a][w[1] - 1] /\ w[1] - 1 \in Throttle!Ages
    BY <1>3, <1>4, <2>1, <2>2, <2>3
  <2>5. <<w[1] - 1, w[2]>> \in Throttle!Answered(a)
    BY <2>2, <2>4 DEF Throttle!Answered
  <2>6. w[1] \in Nat /\ w[2] \in Nat /\ w[1] <= Window - 1
    BY <1>2, <1>3, <2>2
  <2> QED
    BY <2>2, <2>3, <2>5, <2>6
<1> QED
  BY <1>4, <1>5

\* The running window's wrong keys grow older with it; when it ends, at least its
\* first has grown too old to count.
LEMMA TickBooks ==
  ASSUME LoginInv, Throttle!Tick, NEW a \in Addresses, Booked(a)
  PROVE  Booked(a)'
<1>1. Throttle!TypeOK
  BY DEF LoginInv
<1>2. /\ \A w \in Throttle!Answered(a)' :
           /\ w \in Nat \X Nat /\ w[1] \in Nat /\ w[2] \in Nat
           /\ w[1] # 0 /\ w[1] <= Window - 1
           /\ <<w[1] - 1, w[2]>> \in Throttle!Answered(a)
      /\ wrong'[a][0] = 0
      /\ \A g \in Throttle!Ages : g # 0 => wrong'[a][g] = wrong[a][g - 1]
  BY TickShifts
<1>3. /\ Left(a)' = IF Left(a) = 0 THEN 0 ELSE Left(a) - 1
      /\ Left(a) \in Nat /\ Left(a) <= Window /\ Window \in Nat \ {0}
  <2>1. /\ due'[a] = IF due[a] = 0 THEN 0 ELSE due[a] - 1
        /\ failures'[a] = NoEntry <=> failures[a] = NoEntry
    BY TickIs
  <2> QED
    BY <2>1, LiveIs, LoginBounds DEF Left
<1>4. \A S : S \subseteq Throttle!Answered(a) =>
        /\ IsFiniteSet(S) /\ Cardinality(S) \in Nat
        /\ Cardinality(S) <= Cardinality(Throttle!Answered(a))
  BY AnsweredIsFinite
<1>5. \A w \in Throttle!Answered(a) : w[1] \in Nat /\ w[1] <= Window - 1 /\ w[2] \in Nat
  BY <1>3 DEF Throttle!Answered, Throttle!Ages
<1>6. \A m : \A n : <<m, n>>[1] = m
  OBVIOUS
<1>7. CASE Left(a) = 0
  <2>1. Cardinality(Throttle!Answered(a)) <= Book - 1 /\ Throttle!Answered(a) \subseteq Throttle!Answered(a)
    BY <1>7 DEF Booked
  <2>2. /\ Cardinality(Throttle!Answered(a)') \in Nat
        /\ Cardinality(Throttle!Answered(a)') <= Cardinality(Throttle!Answered(a))
    BY <1>2, <1>4, <2>1, ShiftFits
  <2>3. Cardinality(Throttle!Answered(a)') <= Book - 1
    BY <1>4, <2>1, <2>2, BookIs
  <2> QED
    BY <1>2, <1>3, <1>7, <2>3 DEF Booked
<1>8. CASE Left(a) > 0
  <2>1. /\ failures[a].count + Cardinality(InFlight(a)) <= Book
        /\ Cardinality(Recent(a)) <= failures[a].count
        /\ Cardinality(Earlier(a)) <= Book - 1
        /\ wrong[a][Window - Left(a)] >= 1
    BY <1>8 DEF Booked
  <2>2. failures[a] # NoEntry /\ failures[a].count \in Nat
    BY <1>1, <1>8, LiveIs, LoginNumbers
  <2>3. failures'[a].count = failures[a].count
    BY <2>2, TickIs
  <2>4. Cardinality(InFlight(a)) \in Nat /\ InFlight(a)' = InFlight(a)
    BY InFlightFits DEF InFlight, Throttle!Tick
  <2>5. Left(a)' = Left(a) - 1 /\ Left(a)' \in Nat
    BY <1>3, <1>8
  <2>6. /\ IsFiniteSet(Recent(a)) /\ Cardinality(Recent(a)) \in Nat
        /\ IsFiniteSet(Earlier(a)) /\ Cardinality(Earlier(a)) \in Nat
    BY <1>4 DEF Recent, Earlier
  <2>7. CASE Left(a) = 1
    <3> DEFINE x == <<Window - 1, 1>>
    <3>1. Window - 1 \in Throttle!Ages /\ 1 \in 1..Throttle!Enough
      BY <1>3, LoginBounds DEF Throttle!Ages
    <3>2. x \in Throttle!Answered(a)
      BY <2>1, <2>7, <3>1 DEF Throttle!Answered
    <3>3. x[1] = Window - 1
      OBVIOUS
    <3> HIDE DEF x
    <3>4. Throttle!Answered(a) = Recent(a)
      BY <1>5, <2>7 DEF Recent
    <3>5. /\ IsFiniteSet(Throttle!Answered(a) \ {x})
          /\ Cardinality(Throttle!Answered(a) \ {x}) = Cardinality(Recent(a)) - 1
      BY <2>6, <3>2, <3>4, FS_RemoveElement
    <3>6. \A w \in Throttle!Answered(a)' : <<w[1] - 1, w[2]>> # x
      <4>1. ASSUME NEW w \in Throttle!Answered(a)', <<w[1] - 1, w[2]>> = x PROVE FALSE
        <5>1. w[1] - 1 = Window - 1
          BY <3>3, <4>1
        <5>2. w[1] \in Nat /\ w[1] <= Window - 1
          BY <1>2, <4>1
        <5> QED
          BY <1>3, <5>1, <5>2
      <4> QED
        BY <4>1
    <3>7. /\ Cardinality(Throttle!Answered(a)') \in Nat
          /\ Cardinality(Throttle!Answered(a)') <= Cardinality(Throttle!Answered(a) \ {x})
      <4>1. /\ Throttle!Answered(a)' \subseteq Nat \X Nat
            /\ \A w \in Throttle!Answered(a)' :
                 w[1] # 0 /\ <<w[1] - 1, w[2]>> \in Throttle!Answered(a) \ {x}
        BY <1>2, <3>6
      <4> QED
        BY <3>5, <4>1, ShiftFits
    <3>8. Cardinality(Throttle!Answered(a)') <= Book - 1
      BY <2>1, <2>2, <2>4, <2>6, <3>5, <3>7, BookIs
    <3> QED
      BY <1>2, <2>5, <2>7, <3>8 DEF Booked
  <2>8. CASE Left(a) > 1
    <3>1. \A w \in Recent(a)' : w[1] # 0 /\ <<w[1] - 1, w[2]>> \in Recent(a)
      <4>1. ASSUME NEW w \in Recent(a)'
            PROVE  w[1] # 0 /\ <<w[1] - 1, w[2]>> \in Recent(a)
        <5>1. w \in Throttle!Answered(a)' /\ w[1] <= Window - Left(a)'
          BY <4>1 DEF Recent
        <5>2. w[1] \in Nat /\ w[1] # 0 /\ <<w[1] - 1, w[2]>> \in Throttle!Answered(a)
          BY <1>2, <5>1
        <5>3. w[1] - 1 <= Window - Left(a)
          BY <1>3, <2>5, <5>1, <5>2
        <5> QED
          BY <5>2, <5>3 DEF Recent
      <4> QED
        BY <4>1
    <3>2. \A w \in Earlier(a)' : w[1] # 0 /\ <<w[1] - 1, w[2]>> \in Earlier(a)
      <4>1. ASSUME NEW w \in Earlier(a)'
            PROVE  w[1] # 0 /\ <<w[1] - 1, w[2]>> \in Earlier(a)
        <5>1. w \in Throttle!Answered(a)' /\ w[1] > Window - Left(a)'
          BY <4>1 DEF Earlier
        <5>2. w[1] \in Nat /\ w[1] # 0 /\ <<w[1] - 1, w[2]>> \in Throttle!Answered(a)
          BY <1>2, <5>1
        <5>3. w[1] - 1 > Window - Left(a)
          BY <1>3, <2>5, <5>1, <5>2
        <5> QED
          BY <5>2, <5>3 DEF Earlier
      <4> QED
        BY <4>1
    <3>3. Recent(a)' \subseteq Nat \X Nat /\ Earlier(a)' \subseteq Nat \X Nat
      BY <1>2 DEF Recent, Earlier
    <3>4. /\ Cardinality(Recent(a)') \in Nat
          /\ Cardinality(Recent(a)') <= Cardinality(Recent(a))
      BY <2>6, <3>1, <3>3, ShiftFits
    <3>5. /\ Cardinality(Earlier(a)') \in Nat
          /\ Cardinality(Earlier(a)') <= Cardinality(Earlier(a))
      BY <2>6, <3>2, <3>3, ShiftFits
    <3>6. wrong'[a][Window - Left(a)'] >= 1
      <4>1. /\ Window - Left(a)' \in Throttle!Ages /\ Window - Left(a)' # 0
            /\ Window - Left(a)' - 1 = Window - Left(a)
        BY <1>3, <2>5, <2>8 DEF Throttle!Ages
      <4> QED
        BY <1>2, <2>1, <4>1
    <3>7. /\ Cardinality(Recent(a)') <= failures'[a].count
          /\ Cardinality(Earlier(a)') <= Book - 1
      BY <2>1, <2>2, <2>3, <2>6, <3>4, <3>5, BookIs
    <3>8. failures'[a].count + Cardinality(InFlight(a)') <= Book
      BY <2>1, <2>3, <2>4
    <3>9. Left(a)' > 0
      BY <1>3, <2>5, <2>8
    <3> QED
      BY <3>6, <3>7, <3>8, <3>9 DEF Booked
  <2> QED
    BY <1>3, <1>8, <2>7, <2>8
<1> QED
  BY <1>3, <1>7, <1>8

LEMMA GuessNextKeeps == LoginInv /\ GuessInv /\ [Throttle!Next]_(Throttle!vars) => GuessInv'
<1> SUFFICES ASSUME LoginInv, \A a \in Addresses : Booked(a),
                    [Throttle!Next]_(Throttle!vars), NEW a \in Addresses
             PROVE  Booked(a)'
  BY DEF GuessInv
<1>1. Booked(a) /\ Throttle!TypeOK
  BY DEF LoginInv
<1>2. CASE \E p \in Attempts, c \in Addresses : Throttle!Admit(p, c)
  BY <1>1, <1>2, AdmitBooks
<1>3. ASSUME NEW p \in Attempts, Throttle!AnswerWrong(p) PROVE Booked(a)'
  <2>1. Left(a) \in Nat /\ (Left(a) > 0 => failures[a] # NoEntry /\ failures[a].count \in Nat)
    BY <1>1, LoginNumbers, LiveIs
  <2>2. CASE a = attempts[p] /\ Left(a) > 0
    BY <1>1, <1>3, <2>2, WrongInsideBooks
  <2>3. CASE a = attempts[p] /\ Left(a) = 0
    BY <1>1, <1>3, <2>3, WrongOutsideBooks
  <2>4. CASE a # attempts[p]
    <3>1. /\ attempts[p] \in Addresses /\ Throttle!Record(attempts[p])
          /\ attempts' = [attempts EXCEPT ![p] = Idle] /\ due'[a] = due[a]
          /\ wrong'[a] = IF Throttle!Live(a) /\ failures'[a] = NoEntry THEN Throttle!Never
                        ELSE wrong[a]
      BY <1>1, <1>3, <2>4, AnswerWrongIs DEF Throttle!TypeOK
    <3>2. InFlight(a)' \subseteq InFlight(a)
      BY <1>1, <3>1, LoginBounds DEF InFlight, Throttle!TypeOK
    <3>3. failures'[a] \in {failures[a], NoEntry}
      BY <2>4, <3>1, RecordIs
    <3>4. CASE failures'[a] = failures[a]
      <4>1. Left(a)' = Left(a) /\ wrong'[a] = wrong[a]
        BY <3>1, <3>4 DEF Left, Throttle!Live
      <4> QED
        BY <1>1, <2>1, <3>2, <3>4, <4>1, BooksStand
    <3>5. CASE failures'[a] = NoEntry
      <4>1. Left(a)' = 0
        BY <3>5 DEF Left
      <4>2. CASE Throttle!Live(a)
        BY <3>1, <3>5, <4>1, <4>2, BooksClear
      <4>3. CASE ~Throttle!Live(a)
        <5>1. Left(a) = 0 /\ wrong'[a] = wrong[a]
          BY <2>1, <3>1, <4>3, LiveIs
        <5> QED
          BY <1>1, <2>1, <3>2, <4>1, <5>1, BooksStand
      <4> QED
        BY <4>2, <4>3
    <3> QED
      BY <3>3, <3>4, <3>5
  <2> QED
    BY <2>1, <2>2, <2>3, <2>4
<1>4. CASE \E p \in Attempts : Throttle!AnswerRight(p)
  BY <1>1, <1>4, RightBooks
<1>5. CASE Throttle!Tick
  BY <1>1, <1>5, TickBooks
<1>6. CASE Throttle!Restart
  BY <1>6, BooksClear DEF Throttle!Restart, Left
<1>7. CASE UNCHANGED Throttle!vars
  <2>1. due' = due /\ wrong' = wrong /\ failures' = failures /\ attempts' = attempts
    BY <1>7 DEF Throttle!vars
  <2>2. InFlight(a)' \subseteq InFlight(a) /\ Left(a)' = Left(a)
    BY <2>1 DEF InFlight, Left
  <2>3. Left(a) \in Nat /\ (Left(a) > 0 => failures[a].count \in Nat)
    BY <1>1, LoginNumbers, LiveIs
  <2> QED
    BY <1>1, <2>1, <2>2, <2>3, BooksStand
<1> QED
  BY <1>2, <1>3, <1>4, <1>5, <1>6, <1>7 DEF Throttle!Next

\* In a quarter hour an address gets at most two windows' wrong keys answered,
\* but for one.
LEMMA GuessesFit == ASSUME LoginInv, GuessInv PROVE Throttle!GuessesAreBounded
<1> SUFFICES ASSUME NEW a \in Addresses
             PROVE  Cardinality(Throttle!Answered(a)) <= 2 * Book - 1
  BY SizesAgree DEF Throttle!GuessesAreBounded, Book
<1>1. Booked(a) /\ Throttle!TypeOK
  BY DEF GuessInv, LoginInv
<1>2. Left(a) \in Nat
  BY LiveIs
<1>3. Cardinality(Throttle!Answered(a)) \in Nat
  BY AnsweredIsFinite
<1>4. CASE Left(a) = 0
  BY <1>1, <1>3, <1>4, BookIs DEF Booked
<1>5. CASE Left(a) > 0
  <2>1. /\ IsFiniteSet(Recent(a)) /\ Cardinality(Recent(a)) \in Nat
        /\ IsFiniteSet(Earlier(a)) /\ Cardinality(Earlier(a)) \in Nat
    BY AnsweredIsFinite DEF Recent, Earlier
  <2>2. \A w \in Throttle!Answered(a) : w[1] \in Nat
    BY AnsweredIsFinite
  <2>3. Throttle!Answered(a) = Recent(a) \cup Earlier(a) /\ Recent(a) \cap Earlier(a) = {}
    BY <1>2, <2>2, LoginBounds DEF Recent, Earlier
  <2>4. Cardinality(Throttle!Answered(a)) = Cardinality(Recent(a)) + Cardinality(Earlier(a))
    <3>1. Cardinality(Recent(a) \cap Earlier(a)) = 0
      BY <2>3, FS_EmptySet
    <3>2. Cardinality(Recent(a) \cup Earlier(a)) =
            Cardinality(Recent(a)) + Cardinality(Earlier(a)) - Cardinality(Recent(a) \cap Earlier(a))
      BY <2>1, FS_Union
    <3> QED
      BY <2>1, <2>3, <3>1, <3>2
  <2>5. /\ failures[a].count + Cardinality(InFlight(a)) <= Book
        /\ Cardinality(Recent(a)) <= failures[a].count
        /\ Cardinality(Earlier(a)) <= Book - 1
    BY <1>1, <1>5 DEF Booked
  <2>6. failures[a].count \in Nat /\ Cardinality(InFlight(a)) \in Nat
    BY <1>1, <1>5, LiveIs, LoginNumbers, InFlightFits
  <2> QED
    BY <2>1, <2>4, <2>5, <2>6, BookIs
<1> QED
  BY <1>2, <1>4, <1>5

-----------------------------------------------------------------------------
(* The three together.                                                     *)

AccessInv == LastingInv /\ GuardInv /\ LoginInv /\ GuessInv

\* A step of the composition is a step of every part, or leaves it alone.
LEMMA AccessSteps ==
  ASSUME [AccessNext]_accessVars
  PROVE  [Next]_vars /\ [Throttle!Next]_(Throttle!vars) /\ [Keys!Next]_(Keys!vars)
<1>1. CASE SessionsNext
  BY <1>1 DEF SessionsNext, login, guard, Throttle!vars, Keys!vars
<1>2. CASE LoginNext
  BY <1>2 DEF LoginNext, guard, Keys!vars
<1>3. CASE KeysNext
  BY <1>3 DEF KeysNext, login, Throttle!vars
<1>4. CASE UNCHANGED accessVars
  BY <1>4 DEF accessVars, login, guard, Throttle!vars, Keys!vars
<1> QED
  BY <1>1, <1>2, <1>3, <1>4 DEF AccessNext

LEMMA AccessStart == AccessInit => AccessInv
BY InitLasts, LoginInit, GuessInit, KeysInit DEF AccessInit, AccessInv

LEMMA AccessKeeps == AccessInv /\ [AccessNext]_accessVars => AccessInv'
<1> SUFFICES ASSUME AccessInv, [AccessNext]_accessVars PROVE AccessInv'
  OBVIOUS
<1>1. LastingInv'
  BY AccessSteps, NextLasts DEF AccessInv
<1>2. GuardInv'
  BY AccessSteps, KeysNextKeeps DEF AccessInv
<1>3. LoginInv' /\ GuessInv'
  BY AccessSteps, LoginNextKeeps, GuessNextKeeps DEF AccessInv
<1> QED
  BY <1>1, <1>2, <1>3 DEF AccessInv

\* Sessions: rows agree with what was issued, and a table that evicts only the
\* oldest.  Legacy keys: an entry is dated and blocks by its count.  Login: an entry
\* is as old and has as long left as what it records, and every wrong key answered
\* to an address is in the books of its windows.
THEOREM AccessInvariance == AccessSpec => []AccessInv
BY AccessStart, AccessKeeps, PTL DEF AccessSpec

\* The types of every part.
THEOREM AccessIsTyped == AccessSpec => []TypesOK
<1>1. AccessInv => TypesOK
  BY KeysAreTyped DEF AccessInv, LastingInv, Inv, LoginInv, TypesOK
<1> QED
  BY <1>1, AccessInvariance, PTL

\* No table outgrows its bound, whatever number of addresses fail or sign in.
THEOREM TablesStayBounded == AccessSpec => []TablesAreBounded
<1>1. AccessInv => TablesAreBounded
  BY KeysAreTyped, SizesAgree DEF AccessInv, LastingInv, LoginInv, TablesAreBounded, Throttle!TableIsBounded
<1> QED
  BY <1>1, AccessInvariance, PTL

\* A session that is forgotten before its time is one of the older ones of a full
\* table.
THEOREM RecentSessionsLast == AccessSpec => []RecentSessionsSurvive
<1>1. AccessInv => RecentSessionsSurvive
  BY DEF AccessInv, LastingInv
<1> QED
  BY <1>1, AccessInvariance, PTL

\* A request is let in only with a live session issued under the key the server
\* runs with, and never with one that was logged out before.
THEOREM OnlyOwnLetIn == AccessSpec => OnlyOwnSessionsLetIn
<1>1. AccessInv /\ [AccessNext]_accessVars =>
        [\A r \in Requests : LetIn(r) =>
           LET t == requests'[r].token
           IN  /\ issued[t] # NoRow /\ issued[t].scope = scope /\ issued[t].age < TTL
               /\ t \notin out]_vars
  BY AccessSteps, LettingIn DEF AccessInv, LastingInv
<1> QED
  BY AccessInvariance, <1>1, PTL DEF AccessSpec, OnlyOwnSessionsLetIn

\* Inside a quarter hour an address gets at most two windows' wrong keys answered,
\* but for one, however many requests race to the limit.
THEOREM GuessesStayBounded == AccessSpec => []GuessesAreBounded
<1>1. AccessInv => GuessesAreBounded
  BY GuessesFit DEF AccessInv, GuessesAreBounded
<1> QED
  BY <1>1, AccessInvariance, PTL

\* An address is forgotten inside its window only when a table full of others has
\* failed after it.
THEOREM ForgettingIsCostly == AccessSpec => []ForgettingCosts
<1>1. AccessInv => ForgettingCosts
  BY DEF AccessInv, LoginInv, ForgettingCosts
<1> QED
  BY <1>1, AccessInvariance, PTL

\* A blocked address stays blocked until its time is up, a check overtakes the
\* block, or the table is cleared.
THEOREM BlocksHold == AccessSpec => BlockHolds
<1>1. ASSUME AccessInv, [AccessNext]_accessVars, NEW a \in Visitors, Keys!blocked(a)
      PROVE  \/ Keys!blocked(a)' \/ now' >= attempt[a].blockedUntil
             \/ Keys!Overtaken(a) \/ Keys!Cardinality(Keys!Known) > MaxKeys
  BY <1>1, AccessSteps, BlockStands, SizesAgree DEF AccessInv
<1>2. AccessInv /\ [AccessNext]_accessVars =>
        [\A a \in Visitors : Keys!blocked(a) =>
           \/ Keys!blocked(a)' \/ now' >= attempt[a].blockedUntil
           \/ Keys!Overtaken(a) \/ Keys!Cardinality(Keys!Known) > MaxKeys]_(Keys!vars)
  BY <1>1
<1> QED
  BY AccessInvariance, <1>2, PTL DEF AccessSpec, BlockHolds, Keys!BlockHolds
==============================================================================
