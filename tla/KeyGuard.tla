------------------------------- MODULE KeyGuard -------------------------------
(***************************************************************************)
(* The throttle in front of the pages of the legacy board that are opened  *)
(* by a short key in the link (keys.go).                                   *)
(*                                                                         *)
(* A page view asks whether its address is blocked, compares the key, and  *)
(* records a failure or a success; each takes the lock on its own, and     *)
(* other views run in between.  The table of addresses is dropped when it  *)
(* has grown over its limit.                                               *)
(***************************************************************************)
EXTENDS Naturals, FiniteSets

CONSTANTS
  Addresses, Views,
  MaxFailures, FailWindow, BlockPeriod, MaxKeys,  \* the limits of the code
  Horizon,                                        \* bound on the clock
  NoEntry, Idle

KeyGuardAssumption ==
  /\ {MaxFailures, FailWindow, BlockPeriod, MaxKeys, Horizon} \subseteq Nat \ {0}
  /\ Idle \notin Addresses

Entry == [count : Nat \ {0}, windowStart : Nat, blockedUntil : Nat]

VARIABLES now, attempt, views

vars == <<now, attempt, views>>

TypeOK ==
  /\ now \in 0..Horizon
  /\ \A a \in Addresses : attempt[a] # NoEntry =>
       /\ attempt[a] \in Entry
       /\ attempt[a].windowStart <= now
       /\ attempt[a].blockedUntil <= now + BlockPeriod
       /\ attempt[a].count >= MaxFailures <=> attempt[a].blockedUntil > 0
  /\ views \in [Views -> Addresses \cup {Idle}]

Init ==
  /\ now = 0
  /\ attempt = [a \in Addresses |-> NoEntry]
  /\ views = [v \in Views |-> Idle]

Known == {a \in Addresses : attempt[a] # NoEntry}
blockedInWindow(a) == a \in Known /\ attempt[a].blockedUntil > 0 /\ now - attempt[a].windowStart < FailWindow
blockedForEver(a) == a \in Known /\ attempt[a].blockedUntil > 0
blocked(a) == a \in Known /\ now < attempt[a].blockedUntil

\* guard, first step: a blocked address is answered 404 at once.
Admit(v, a) ==
  /\ views[v] = Idle /\ ~blocked(a)
  /\ views' = [views EXCEPT ![v] = a]
  /\ UNCHANGED <<now, attempt>>

\* A table that is over its limit is dropped.
KeptAll == attempt
Kept == IF Cardinality(Known) > MaxKeys THEN [a \in Addresses |-> NoEntry] ELSE attempt

\* A failure opens a window or counts in the one that is open.
Fresh(e) == e # NoEntry /\ now - e.windowStart <= FailWindow
CountedUnblocked(e) ==
  IF Fresh(e) THEN [e EXCEPT !.count = @ + 1]
  ELSE [count |-> 1, windowStart |-> now, blockedUntil |-> 0]
Counted(e) ==
  LET f == CountedUnblocked(e) IN
  IF f.count >= MaxFailures THEN [f EXCEPT !.blockedUntil = now + BlockPeriod] ELSE f

fail(v) ==
  /\ views[v] # Idle
  /\ attempt' = [Kept EXCEPT ![views[v]] = Counted(@)]
  /\ views' = [views EXCEPT ![v] = Idle]
  /\ UNCHANGED now

pass(v) ==
  /\ views[v] # Idle
  /\ attempt' = [attempt EXCEPT ![views[v]] = NoEntry]
  /\ views' = [views EXCEPT ![v] = Idle]
  /\ UNCHANGED now

Tick ==
  /\ now < Horizon
  /\ now' = now + 1
  /\ UNCHANGED <<attempt, views>>

Next ==
  \/ \E v \in Views : (\E a \in Addresses : Admit(v, a)) \/ fail(v) \/ pass(v)
  \/ Tick

Spec == Init /\ [][Next]_vars

\* Time passes up to the horizon; nobody has to view anything.
FairSpec == Spec /\ WF_vars(Tick)

-----------------------------------------------------------------------------

\* The table holds one address more than its limit at most, however many
\* addresses fail.
TableIsBounded == Cardinality(Known) <= MaxKeys + 1

\* keys.go:98, "blocks an address after too many wrong keys in a short window":
\* before it ends, a block is lifted only by the answer to a view that was let in
\* before it (a right key, or a wrong one after the window has run out), or with
\* the whole table, when that has grown over its limit.
Overtaken(a) == \E v \in Views : views[v] = a /\ views'[v] = Idle
BlockHolds ==
  [][\A a \in Addresses : blocked(a) =>
       \/ blocked(a)' \/ now' >= attempt[a].blockedUntil
       \/ Overtaken(a) \/ Cardinality(Known) > MaxKeys]_vars

\* A block ends by itself, when no failure arrives that was on its way.
BlockEnds ==
  \A a \in Addresses :
    blocked(a) /\ now + BlockPeriod <= Horizon /\ (\A v \in Views : views[v] # a) ~> ~blocked(a)
==============================================================================
