------------------------------ MODULE Limiter ------------------------------
(***************************************************************************)
(* The token bucket of internal/gcprov/backoff.go: one limiter, shared by  *)
(* the concurrent callers of one (project, API) pair (client.go,           *)
(* limiterFor), refilled lazily by take under its mutex.                   *)
(*                                                                         *)
(* The float arithmetic is scaled to integers.  QPS is the fraction        *)
(* QpsNum / QpsDen and a second is TicksPerSecond ticks, so with 1 / Token *)
(* of a token as the unit a tick accrues Rate units, the bucket holds      *)
(* Capacity units (one second's worth, l.qps tokens) and a request costs   *)
(* Token units.  Time appears only as differences: idle is now - l.last,   *)
(* left[c] is what remains of caller c's timer.                            *)
(***************************************************************************)
EXTENDS Integers

CONSTANTS
  Callers,          \* goroutines calling Wait on this limiter
  QpsNum, QpsDen,   \* the QPS option as a fraction; zero means unlimited
  TicksPerSecond,   \* clock resolution of the model
  MaxCalls          \* bound: calls of Wait made by one caller

ASSUME LimiterAssumption ==
  /\ QpsNum \in Nat
  /\ QpsDen \in Nat \ {0}
  /\ TicksPerSecond \in Nat \ {0}
  /\ MaxCalls \in Nat

Rate     == QpsNum
Capacity == QpsNum * TicksPerSecond
Token    == QpsDen * TicksPerSecond

VARIABLES
  tokens,   \* l.tokens
  idle,     \* now - l.last, no further than the second that fills the bucket
  pc,       \* where each caller is in Wait
  left,     \* ticks left on the timer of a caller asleep in Wait
  ended,    \* the callers whose context has ended
  calls     \* how often each caller has called Wait

vars == <<tokens, idle, pc, left, ended, calls>>

CappedAt(cap, n) == IF n > cap THEN cap ELSE n

(* What take finds in the bucket once it has refilled it. *)
Refilled == CappedAt(Capacity, tokens + idle * Rate)

PCs == {"out", "take", "asleep", "granted", "cancelled"}

TypeOK ==
  /\ tokens \in 0..Capacity
  /\ idle \in 0..TicksPerSecond
  /\ pc \in [Callers -> PCs]
  /\ left \in [Callers -> Nat]
  /\ ended \in SUBSET Callers
  /\ calls \in [Callers -> 0..MaxCalls]
  /\ QpsNum = 0 => \A c \in Callers : pc[c] \notin {"take", "asleep"}

Init ==
  /\ tokens = Capacity
  /\ idle = 0
  /\ pc = [c \in Callers |-> "out"]
  /\ left = [c \in Callers |-> 0]
  /\ ended = {}
  /\ calls = [c \in Callers |-> 0]

Goto(c, there) == pc' = [pc EXCEPT ![c] = there]

(* A caller enters Wait; with qps <= 0, unlimited, it comes straight back  *)
(* without touching the bucket.                                            *)
Call(c) ==
  /\ pc[c] = "out"
  /\ calls[c] < MaxCalls
  /\ Goto(c, IF QpsNum = 0 THEN "granted" ELSE "take")
  /\ calls' = [calls EXCEPT ![c] = @ + 1]
  /\ UNCHANGED <<tokens, idle, left, ended>>

(* Mutant: take does not move l.last, so the same time refills twice. *)
Grant_LastNotMoved(c) ==
  /\ pc[c] = "take"
  /\ Refilled >= Token
  /\ tokens' = Refilled - Token
  /\ Goto(c, "granted")
  /\ UNCHANGED <<idle, left, ended, calls>>

(* take refills the bucket and finds a token in it. *)
Grant(c) ==
  /\ pc[c] = "take"
  /\ Refilled >= Token
  /\ tokens' = Refilled - Token
  /\ idle' = 0
  /\ Goto(c, "granted")
  /\ UNCHANGED <<left, ended, calls>>

(* Mutant: sleep as long as a whole token takes, whatever is there. *)
Refuse_WholeToken(c) ==
  /\ pc[c] = "take"
  /\ Refilled < Token
  /\ tokens' = Refilled
  /\ idle' = 0
  /\ Goto(c, "asleep")
  /\ left' = [left EXCEPT ![c] = Token \div Rate]
  /\ UNCHANGED <<ended, calls>>

(* Mutant: the refill of a failed take is thrown away. *)
Refuse_RefillLost(c) ==
  /\ pc[c] = "take"
  /\ Refilled < Token
  /\ idle' = 0
  /\ Goto(c, "asleep")
  /\ left' = [left EXCEPT ![c] = (Token - Refilled) \div Rate]
  /\ UNCHANGED <<tokens, ended, calls>>

(* take refills the bucket, finds no whole token, and says how long one    *)
(* takes to accrue; the conversion to a Duration rounds down.              *)
Refuse(c) ==
  /\ pc[c] = "take"
  /\ Refilled < Token
  /\ tokens' = Refilled
  /\ idle' = 0
  /\ Goto(c, "asleep")
  /\ left' = [left EXCEPT ![c] = (Token - Refilled) \div Rate]
  /\ UNCHANGED <<ended, calls>>

(* The timer fires and the loop takes again. *)
Wake(c) ==
  /\ pc[c] = "asleep"
  /\ left[c] = 0
  /\ Goto(c, "take")
  /\ UNCHANGED <<tokens, idle, left, ended, calls>>

(* The context ends before the timer, or the select picks it over a timer  *)
(* that fired as well.                                                     *)
GiveUp(c) ==
  /\ pc[c] = "asleep"
  /\ c \in ended
  /\ Goto(c, "cancelled")
  /\ UNCHANGED <<tokens, idle, left, ended, calls>>

(* Wait has returned: the caller goes on with its request, or gives it up  *)
(* with Wait's error, and may come back for another.                       *)
Leave(c) ==
  /\ pc[c] \in {"granted", "cancelled"}
  /\ Goto(c, "out")
  /\ UNCHANGED <<tokens, idle, left, ended, calls>>

(* The caller's context is cancelled or passes its deadline. *)
EndContext(c) ==
  /\ c \notin ended
  /\ ended' = ended \cup {c}
  /\ UNCHANGED <<tokens, idle, pc, left, calls>>

(* Time passes.  A second without a take fills the bucket whatever was in  *)
(* it, so idle need not count further.                                     *)
Tick ==
  /\ idle' = CappedAt(TicksPerSecond, idle + 1)
  /\ left' = [c \in Callers |-> IF left[c] = 0 THEN 0 ELSE left[c] - 1]
  /\ UNCHANGED <<tokens, pc, ended, calls>>

InWait(c) == Grant(c) \/ Refuse(c) \/ Wake(c)

Next ==
  \/ Tick
  \/ \E c \in Callers :
       Call(c) \/ InWait(c) \/ GiveUp(c) \/ Leave(c) \/ EndContext(c)

(* Time passes, a runnable goroutine runs, a timer that is due fires.      *)
Fairness ==
  /\ WF_vars(Tick)
  /\ \A c \in Callers : WF_vars(InWait(c)) /\ WF_vars(GiveUp(c)) /\ WF_vars(Leave(c))

Spec == Init /\ [][Next]_vars

FairSpec == Spec /\ Fairness

-----------------------------------------------------------------------------
(* The lazy bucket is an eager one: what an observer would find in it is   *)
(* always what TokenBucket would hold, so a caller is granted a request    *)
(* exactly when the eager bucket could grant one.  A refill counted twice  *)
(* (last not moved), a refill without the cap or a token not paid for      *)
(* would each let more through.                                            *)
Bucket == INSTANCE TokenBucket WITH level <- Refilled

EagerBucket == Bucket!Spec

(* Nobody sleeps past the token it waits for: while a timer is running,    *)
(* the bucket will not hold a whole token any sooner than the timer ends,  *)
(* however many other callers take from it meanwhile.                      *)
NoOversleep ==
  \A c \in Callers :
    pc[c] = "asleep" /\ left[c] > 0 => Refilled + left[c] * Rate <= Token

(* "Wait blocks until one token is available, or ctx is done" (backoff.go):*)
(* every Wait comes back, with a token or with the context's error.        *)
WaitReturns ==
  \A c \in Callers : pc[c] \in {"take", "asleep"} ~> pc[c] \in {"granted", "cancelled"}
=============================================================================
