---------------------------- MODULE TokenBucket ----------------------------
(***************************************************************************)
(* What a rate limiter of internal/gcprov/backoff.go promises its callers: *)
(* a bucket that is refilled the moment time passes, holds no more than    *)
(* Capacity, and hands out one Token at a time.  The code refills lazily,  *)
(* inside take; Limiter.tla shows that nobody can tell the difference.     *)
(*                                                                         *)
(* Quantities are integers: Rate is what one clock tick adds, and Token is *)
(* what one request costs, in the same unit.                               *)
(***************************************************************************)
EXTENDS Integers

CONSTANTS
  Capacity,   \* a natural number
  Rate,       \* a natural number
  Token       \* a positive one

VARIABLE level

CappedAt(cap, n) == IF n > cap THEN cap ELSE n

(* "newLimiter starts a bucket full" *)
Init == level = Capacity

Tick == level' = CappedAt(Capacity, level + Rate)

Grant ==
  /\ level >= Token
  /\ level' = level - Token

Next == Tick \/ Grant

Spec == Init /\ [][Next]_level
=============================================================================
