-------------------------------- MODULE Login --------------------------------
(***************************************************************************)
(* The login throttle of the workspace: the table of failures per remote   *)
(* address, kept in memory under a mutex, and POST /login, which looks at  *)
(* the table, judges the key without holding the mutex, and then records a *)
(* failure or clears the address.                                          *)
(*                                                                         *)
(* Time is kept as what is left of a window and as the age of a failure,   *)
(* so that the model needs no last instant.  A request that is refused     *)
(* with 403 or 429 changes nothing and is no step.                         *)
(***************************************************************************)
EXTENDS Naturals, FiniteSets

CONSTANTS
  Addresses,   \* remote addresses
  Attempts,    \* POST /login requests that may be in flight at once
  Limit,       \* loginFailureLimit
  Window,      \* loginFailureTTL, in ticks of the clock
  MaxEntries,  \* maxFailureEntries
  NoEntry, Idle

LoginAssumption ==
  /\ Limit \in Nat \ {0} /\ Window \in Nat \ {0} /\ MaxEntries \in Nat \ {0}
  /\ IsFiniteSet(Addresses) /\ IsFiniteSet(Attempts) /\ Attempts # {}
  /\ Idle \notin Addresses
  /\ NoEntry \notin [count : Nat, left : Nat, age : Nat]

VARIABLES
  failures,   \* Server.failures: address -> its window
  attempts,   \* the requests past allowLogin and not yet judged
  \* History variables: no handler reads them.
  wrong,      \* wrong[a][g]: wrong keys answered to a, g ticks ago, since a last
              \* logged in or was forgotten inside its window
  lastWrong,  \* age of the last wrong key of an address, Window when older
  due         \* what is left of the last window opened for an address

vars == <<failures, attempts, wrong, lastWrong, due>>

Ages == 0..Window-1

\* The requests that may still be judged after the limit was reached.
Overshoot == Cardinality(Attempts) - 1

\* Bound: the history counts no further than it takes to tell.
Enough == 2 * (Limit + Overshoot)

\* An entry whose window has no time left is expired, as `!now.Before(a.reset)`.
Entry == [count : Nat \ {0}, left : 0..Window, age : 0..Window]

TypeOK ==
  /\ failures \in [Addresses -> Entry \cup {NoEntry}]
  /\ attempts \in [Attempts -> Addresses \cup {Idle}]
  /\ wrong \in [Addresses -> [Ages -> 0..Enough]]
  /\ lastWrong \in [Addresses -> 0..Window]
  /\ due \in [Addresses -> 0..Window]

Never == [g \in Ages |-> 0]

Init ==
  /\ failures = [a \in Addresses |-> NoEntry]
  /\ attempts = [p \in Attempts |-> Idle]
  /\ wrong = [a \in Addresses |-> Never]
  /\ lastWrong = [a \in Addresses |-> Window]
  /\ due = [a \in Addresses |-> 0]

-----------------------------------------------------------------------------

Known == {a \in Addresses : failures[a] # NoEntry}
Live(a) == failures[a] # NoEntry /\ failures[a].left > 0

\* allowLogin: an expired window counts for nothing.
AllowedUnexpired(a) == failures[a] # NoEntry => failures[a].count < Limit
Allowed(a) == Live(a) => failures[a].count < Limit

\* A request is let in.  The entry of an expired window is dropped on the way.
Admit(p, a) ==
  /\ attempts[p] = Idle
  /\ Allowed(a)
  /\ attempts' = [attempts EXCEPT ![p] = a]
  /\ failures' = [failures EXCEPT ![a] = IF Live(a) THEN @ ELSE NoEntry]
  /\ UNCHANGED <<wrong, lastWrong, due>>

\* pruneFailuresLocked: expired windows go, and if that frees nothing the
\* address that failed least recently is forgotten (which of several, the
\* iteration order of the map decides).
NewestIn(S) == {a \in S : \A b \in S : failures[a].age <= failures[b].age}
OldestIn(S) == {a \in S : \A b \in S : failures[a].age >= failures[b].age}
Pruned ==
  LET live == {a \in Known : Live(a)}
  IN  IF Cardinality(live) >= MaxEntries THEN {live \ {a} : a \in OldestIn(live)} ELSE {live}

\* The entries that may be kept while a window is opened for an address.
KeptAll == {Known}
Kept == IF Cardinality(Known) >= MaxEntries THEN Pruned ELSE {Known}

\* recordLoginFailure: one more in the running window, or a new window.
NewWindow(a, n) ==
  \E kept \in Kept :
    failures' = [b \in Addresses |->
      IF b = a THEN [count |-> n, left |-> Window, age |-> 0]
      ELSE IF b \in kept THEN failures[b] ELSE NoEntry]
RecordRenewing(a) == NewWindow(a, 1)
RecordUncounted(a) ==
  IF Live(a)
  THEN failures' = [failures EXCEPT ![a].count = @ + 1, ![a].age = 0]
  ELSE NewWindow(a, 0)
Record(a) ==
  IF Live(a)
  THEN failures' = [failures EXCEPT ![a].count = @ + 1, ![a].age = 0]
  ELSE NewWindow(a, 1)

\* A wrong key, or a form that does not parse.
AnswerWrong(p) ==
  LET a == attempts[p] IN
  /\ a # Idle
  /\ Record(a)
  /\ wrong' = [b \in Addresses |->
                IF b = a THEN [wrong[a] EXCEPT ![0] = IF @ < Enough THEN @ + 1 ELSE @]
                ELSE IF Live(b) /\ failures'[b] = NoEntry THEN Never ELSE wrong[b]]
  /\ lastWrong' = [lastWrong EXCEPT ![a] = 0]
  /\ due' = [due EXCEPT ![a] = IF Live(a) THEN @ ELSE Window]
  /\ attempts' = [attempts EXCEPT ![p] = Idle]

\* The right key: clearLoginFailures, and a session is issued (Sessions!SignIn).
AnswerRight(p) ==
  LET a == attempts[p] IN
  /\ a # Idle
  /\ failures' = [failures EXCEPT ![a] = NoEntry]
  /\ wrong' = [wrong EXCEPT ![a] = Never]
  /\ due' = [due EXCEPT ![a] = 0]
  /\ attempts' = [attempts EXCEPT ![p] = Idle]
  /\ UNCHANGED lastWrong

Older(g) == IF g < Window THEN g + 1 ELSE g

Tick ==
  /\ failures' = [a \in Addresses |->
       IF failures[a] = NoEntry THEN NoEntry
       ELSE [failures[a] EXCEPT !.left = IF @ = 0 THEN 0 ELSE @ - 1,
                                !.age = Older(@)]]
  /\ wrong' = [a \in Addresses |->
                [g \in Ages |-> IF g = 0 THEN 0 ELSE wrong[a][g-1]]]
  /\ lastWrong' = [a \in Addresses |-> Older(lastWrong[a])]
  /\ due' = [a \in Addresses |-> IF due[a] = 0 THEN 0 ELSE due[a] - 1]
  /\ UNCHANGED attempts

\* The table is in memory: a restart forgets it and the requests in flight.
Restart ==
  /\ failures' = [a \in Addresses |-> NoEntry]
  /\ attempts' = [p \in Attempts |-> Idle]
  /\ wrong' = [a \in Addresses |-> Never]
  /\ lastWrong' = [a \in Addresses |-> Window]
  /\ due' = [a \in Addresses |-> 0]

Next ==
  \/ \E p \in Attempts, a \in Addresses : Admit(p, a)
  \/ \E p \in Attempts : AnswerWrong(p) \/ AnswerRight(p)
  \/ Tick
  \/ Restart

Spec == Init /\ [][Next]_vars

\* Time passes; nobody has to log in, to answer or to restart.
FairSpec == Spec /\ WF_vars(Tick)

-----------------------------------------------------------------------------

\* The wrong keys answered to an address in a quarter hour, one by one.
Answered(a) == {w \in Ages \X (1..Enough) : w[2] <= wrong[a][w[1]]}

\* In every quarter hour an address gets at most as many wrong keys answered as
\* two windows hold: a window starts at a failure, so that a quarter hour may see
\* the end of one, without its first failure, and the start of the next; and each
\* window may overshoot the limit by the requests that were let in before it was
\* reached.  An address that is forgotten starts anew: at what price, says
\* ForgettingCosts.
GuessesAreBounded ==
  \A a \in Addresses : Cardinality(Answered(a)) <= 2 * (Limit + Overshoot) - 1

\* An address inside its window is forgotten only at the price of MaxEntries
\* other addresses failing after it: the eviction cannot be aimed at a blocked
\* address that keeps failing with fewer addresses than the table holds.
ForgettingCosts ==
  \A a \in Addresses :
    (due[a] > 0 /\ failures[a] = NoEntry) =>
      Cardinality({b \in Addresses \ {a} : lastWrong[b] <= lastWrong[a]}) >= MaxEntries

\* The table stays within its bound whatever number of addresses fail.
TableIsBounded == Cardinality(Known) <= MaxEntries

\* Nobody is locked out for good: an address that is refused is let in again
\* once time has passed, whatever requests were in flight when it was blocked.
LockoutEnds == \A a \in Addresses : ~Allowed(a) ~> Allowed(a)
==============================================================================
