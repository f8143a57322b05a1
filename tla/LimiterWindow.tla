--------------------------- MODULE LimiterWindow ---------------------------
(***************************************************************************)
(* Limiter watched by an observer that opens a window at any moment and    *)
(* counts, from there on, the ticks that pass and the requests granted.    *)
(* The observer reads the limiter and never holds it up; a window that has *)
(* reached MaxSpan ticks is closed, and a new one opens, with the next.    *)
(***************************************************************************)
EXTENDS Limiter

CONSTANT MaxSpan    \* bound: ticks in one observed window

ASSUME WindowAssumption == MaxSpan \in Nat

VARIABLES
  span,       \* ticks since the window opened
  granted     \* requests granted since the window opened

windowVars == <<span, granted>>
allVars == <<vars, windowVars>>

WindowTypeOK ==
  /\ TypeOK
  /\ span \in 0..MaxSpan
  /\ granted \in Nat

WindowInit ==
  /\ Init
  /\ span = 0
  /\ granted = 0

WatchTick ==
  /\ Tick
  /\ IF span < MaxSpan
       THEN span' = span + 1 /\ UNCHANGED granted
       ELSE span' = 0 /\ granted' = 0

WatchGrant ==
  /\ \E c \in Callers : Grant(c)
  /\ granted' = granted + 1
  /\ UNCHANGED span

WatchOther ==
  /\ \E c \in Callers :
       Call(c) \/ Refuse(c) \/ Wake(c) \/ GiveUp(c) \/ Leave(c) \/ EndContext(c)
  /\ UNCHANGED windowVars

Reopen ==
  /\ span' = 0
  /\ granted' = 0
  /\ UNCHANGED vars

WindowNext == WatchTick \/ WatchGrant \/ WatchOther \/ Reopen

WindowSpec == WindowInit /\ [][WindowNext]_allVars

FairWindowSpec == WindowSpec /\ Fairness

(* QPS is "the requests-per-second budget" (client.go, ClientOptions): in  *)
(* every window, whenever it opens, no more requests are let through than  *)
(* the rate allows for its length plus the burst of one second's worth.    *)
RateBound == granted * Token <= Capacity + span * Rate

(* The stronger, inductive form: what the window may still be granted      *)
(* covers what is in the bucket.                                           *)
RateBudget == Refilled + granted * Token <= Capacity + span * Rate
=============================================================================
