-------------------------------- MODULE Access --------------------------------
(***************************************************************************)
(* Who is let in: the sessions of the workspace, its login throttle        *)
(* (Login) and the throttle of the legacy keys (KeyGuard).  The three      *)
(* share no variable, and each property is about one of them, so that a    *)
(* behaviour of their composition is explored one `part` at a time, the    *)
(* others idle.                                                            *)
(***************************************************************************)
EXTENDS Sessions

CONSTANTS
  Parts,                                           \* the parts to explore
  Addresses, Attempts, Limit, Window, MaxEntries,  \* Login
  Visitors, Views,                                 \* KeyGuard: its addresses
  MaxFailures, FailWindow, BlockPeriod, MaxKeys, Horizon,
  NoEntry

VARIABLES
  part,
  failures, attempts, wrong, lastWrong, due,  \* Login
  now, attempt, views                         \* KeyGuard

login == <<failures, attempts, wrong, lastWrong, due>>
guard == <<now, attempt, views>>
accessVars == <<part, vars, login, guard>>

Throttle == INSTANCE Login
Keys == INSTANCE KeyGuard WITH Addresses <- Visitors

ASSUME AccessAssumption == Throttle!LoginAssumption /\ Keys!KeyGuardAssumption

AccessInit == part \in Parts /\ Init /\ Throttle!Init /\ Keys!Init

SessionsNext == part = "sessions" /\ Next /\ UNCHANGED <<part, login, guard>>
LoginNext == part = "login" /\ Throttle!Next /\ UNCHANGED <<part, vars, guard>>
KeysNext == part = "keys" /\ Keys!Next /\ UNCHANGED <<part, vars, login>>

AccessNext == SessionsNext \/ LoginNext \/ KeysNext

\* The horizon of the keys' clock is a bound: their part may come to rest there.
LoginTick == part = "login" /\ Throttle!Tick /\ UNCHANGED <<part, vars, guard>>
KeysTick == part = "keys" /\ Keys!Tick /\ UNCHANGED <<part, vars, login>>

\* Time passes; nobody has to log in, to answer, to view or to restart.
AccessSpec ==
  /\ AccessInit /\ [][AccessNext]_accessVars
  /\ WF_accessVars(LoginTick) /\ WF_accessVars(KeysTick)

-----------------------------------------------------------------------------

\* The types of every part.
TypesOK == TypeOK /\ Throttle!TypeOK /\ Keys!TypeOK

\* No table outgrows its bound, whatever number of addresses fail or sign in.
TablesAreBounded == TableIsBounded /\ Throttle!TableIsBounded /\ Keys!TableIsBounded

\* Login: the wrong keys that a quarter hour may see answered.
GuessesAreBounded == Throttle!GuessesAreBounded

\* Login: what it takes to have an address forgotten inside its window.
ForgettingCosts == Throttle!ForgettingCosts

\* Login: an address that is refused is let in again once time has passed.
LockoutEnds == part = "login" => Throttle!LockoutEnds

\* KeyGuard: what lifts a block before its end.
BlockHolds == Keys!BlockHolds

\* KeyGuard: a block ends by itself.
BlockEnds == Keys!BlockEnds
==============================================================================
