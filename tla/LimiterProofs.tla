--------------------------- MODULE LimiterProofs ---------------------------
(***************************************************************************)
(* What holds of the limiter for every number of callers, every rate,      *)
(* every clock resolution and every length of a window.                    *)
(***************************************************************************)
EXTENDS LimiterWindow, TLAPS

(* Arithmetic the SMT solver is not left to find. *)
LEMMA Products ==
  /\ Rate \in Nat
  /\ Capacity \in Nat
  /\ Token \in Nat \ {0}
  /\ TicksPerSecond * Rate = Capacity
  /\ \A n \in Nat : n * Rate \in Nat /\ (n + 1) * Rate = n * Rate + Rate
  /\ \A n \in Nat : n * Token \in Nat /\ (n + 1) * Token = n * Token + Token
<1>1. Rate \in Nat /\ Capacity \in Nat /\ Token \in Nat \ {0}
  <2>1. \A a \in Nat \ {0}, b \in Nat \ {0} : a * b \in Nat \ {0}
    OBVIOUS
  <2>2. \A a \in Nat, b \in Nat : a * b \in Nat
    OBVIOUS
  <2>. QED
    BY <2>1, <2>2, LimiterAssumption DEF Rate, Capacity, Token
<1>2. TicksPerSecond * Rate = Capacity
  BY LimiterAssumption DEF Rate, Capacity
<1>3. \A m \in Nat, n \in Nat : n * m \in Nat /\ (n + 1) * m = n * m + m
  OBVIOUS
<1>. QED
  BY <1>1, <1>2, <1>3

(* The bucket an observer sees is between empty and full. *)
LEMMA RefilledInRange ==
  ASSUME TypeOK
  PROVE  Refilled \in 0..Capacity
BY Products DEF TypeOK, Refilled, CappedAt

LEMMA TypeInductive ==
  ASSUME TypeOK, [Next]_vars
  PROVE  TypeOK'
<1>. USE DEF TypeOK, PCs
<1>1. CASE Tick
  BY <1>1, LimiterAssumption DEF Tick, CappedAt
<1>2. ASSUME NEW c \in Callers,
             Call(c) \/ InWait(c) \/ GiveUp(c) \/ Leave(c) \/ EndContext(c)
      PROVE  TypeOK'
  <2>1. CASE Call(c)
    BY <2>1, LimiterAssumption DEF Call, Goto
  <2>2. CASE Grant(c)
    BY <2>2, RefilledInRange, Products, LimiterAssumption DEF Grant, Goto
  <2>3. CASE Refuse(c)
    <3>1. (Token - Refilled) \div Rate \in Nat
      <4>1. Token - Refilled \in Nat /\ Rate \in Nat \ {0}
        BY <2>3, RefilledInRange, Products DEF Refuse, Rate
      <4>2. \A a \in Nat, b \in Nat \ {0} : a \div b \in Nat
        OBVIOUS
      <4>. QED
        BY <4>1, <4>2
    <3>. QED
      BY <2>3, <3>1, RefilledInRange, LimiterAssumption DEF Refuse, Goto
  <2>5. CASE Wake(c)
    BY <2>5 DEF Wake, Goto
  <2>6. CASE GiveUp(c)
    BY <2>6 DEF GiveUp, Goto
  <2>7. CASE Leave(c)
    BY <2>7 DEF Leave, Goto
  <2>8. CASE EndContext(c)
    BY <2>8 DEF EndContext
  <2>. QED
    BY <1>2, <2>1, <2>2, <2>3, <2>5, <2>6, <2>7, <2>8 DEF InWait
<1>3. CASE UNCHANGED vars
  BY <1>3 DEF vars
<1>. QED
  BY <1>1, <1>2, <1>3 DEF Next

LEMMA TypeInit == Init => TypeOK
BY Products, LimiterAssumption DEF Init, TypeOK, PCs

(* Every state of the limiter has the types the model gives it. *)
THEOREM LimiterTypeCorrect == Spec => []TypeOK
<1>1. Init => TypeOK
  BY TypeInit
<1>2. TypeOK /\ [Next]_vars => TypeOK'
  BY TypeInductive
<1>. QED
  BY <1>1, <1>2, PTL DEF Spec

(* The steps that neither let time pass nor grant a request leave the      *)
(* observed bucket as it is; in particular a refused take, which refills   *)
(* and moves l.last, does.                                                 *)
LEMMA QuietSteps ==
  ASSUME TypeOK, NEW c \in Callers,
         \/ Call(c) \/ Refuse(c) \/ Wake(c)
         \/ GiveUp(c) \/ Leave(c) \/ EndContext(c)
  PROVE  Refilled' = Refilled
<1>1. CASE Refuse(c)
  <2>1. tokens' = Refilled /\ idle' = 0
    BY <1>1 DEF Refuse
  <2>2. Refilled' = CappedAt(Capacity, tokens' + idle' * Rate)
    BY DEF Refilled, CappedAt, Capacity, Rate
  <2>. QED
    BY <2>1, <2>2, RefilledInRange, Products DEF CappedAt
<1>2. CASE ~ Refuse(c)
  <2>1. UNCHANGED <<tokens, idle>>
    BY <1>2 DEF Call, Wake, GiveUp, Leave, EndContext
  <2>. QED
    BY <2>1 DEF Refilled, CappedAt, Capacity, Rate
<1>. QED
  BY <1>1, <1>2

(* A tick adds Rate to the observed bucket, up to its capacity; idle being *)
(* cut off at one second does not show.                                    *)
LEMMA TickStep ==
  ASSUME TypeOK, Tick
  PROVE  Refilled' = CappedAt(Capacity, Refilled + Rate)
<1>1. Refilled' = CappedAt(Capacity, tokens + idle' * Rate)
  BY DEF Tick, Refilled, CappedAt, Capacity, Rate
<1>2. tokens \in 0..Capacity /\ idle \in 0..TicksPerSecond /\ TicksPerSecond \in Nat
  BY LimiterAssumption DEF TypeOK
<1>3. CASE idle < TicksPerSecond
  <2>1. idle' = idle + 1
    BY <1>2, <1>3 DEF Tick, CappedAt
  <2>2. idle' * Rate = idle * Rate + Rate /\ idle * Rate \in Nat
    BY <2>1, <1>2, Products
  <2>. QED
    BY <1>1, <1>2, <2>2, Products DEF Refilled, CappedAt
<1>4. CASE idle = TicksPerSecond
  <2>1. idle' = TicksPerSecond
    BY <1>2, <1>4 DEF Tick, CappedAt
  <2>2. idle * Rate = Capacity /\ idle' * Rate = Capacity
    BY <2>1, <1>4, Products
  <2>. QED
    BY <1>1, <1>2, <2>2, Products DEF Refilled, CappedAt
<1>. QED
  BY <1>2, <1>3, <1>4

(* A grant takes exactly one token out of the observed bucket. *)
LEMMA GrantStep ==
  ASSUME TypeOK, NEW c \in Callers, Grant(c)
  PROVE  Refilled >= Token /\ Refilled' = Refilled - Token
<1>1. Refilled >= Token /\ tokens' = Refilled - Token /\ idle' = 0
  BY DEF Grant
<1>2. Refilled' = CappedAt(Capacity, tokens' + idle' * Rate)
  BY DEF Refilled, CappedAt, Capacity, Rate
<1>. QED
  BY <1>1, <1>2, RefilledInRange, Products DEF CappedAt

(* The lazily refilled bucket implements the eager one: whatever the       *)
(* callers do and whenever take runs, requests are granted as if the       *)
(* bucket had been refilled at every tick.                                 *)
THEOREM LimiterIsATokenBucket == Spec => EagerBucket
<1>1. Init => Bucket!Init
  BY Products DEF Init, Bucket!Init, Refilled, CappedAt
<1>2. TypeOK /\ [Next]_vars => [Bucket!Next]_Refilled
  <2> SUFFICES ASSUME TypeOK, [Next]_vars
               PROVE  [Bucket!Next]_Refilled
    OBVIOUS
  <2>1. CASE Tick
    BY <2>1, TickStep DEF Bucket!Next, Bucket!Tick, Bucket!CappedAt, CappedAt
  <2>2. ASSUME NEW c \in Callers, Grant(c)
        PROVE  [Bucket!Next]_Refilled
    BY <2>2, GrantStep DEF Bucket!Next, Bucket!Grant
  <2>3. ASSUME NEW c \in Callers,
               \/ Call(c) \/ Refuse(c) \/ Wake(c)
               \/ GiveUp(c) \/ Leave(c) \/ EndContext(c)
        PROVE  [Bucket!Next]_Refilled
    BY <2>3, QuietSteps
  <2>4. CASE UNCHANGED vars
    BY <2>4 DEF vars, Refilled, CappedAt, Capacity, Rate
  <2>. QED
    BY <2>1, <2>2, <2>3, <2>4 DEF Next, InWait
<1>. QED
  BY <1>1, <1>2, LimiterTypeCorrect, PTL DEF Spec, EagerBucket, Bucket!Spec

-----------------------------------------------------------------------------
(* The observer's window. *)

(* A step of the watched limiter is a step of the limiter, so what is      *)
(* always true of the one is always true of the other.                     *)
LEMMA WatchedSteps == [WindowNext]_allVars => [Next]_vars
BY DEF WindowNext, WatchTick, WatchGrant, WatchOther, Reopen, Next, InWait, allVars

LEMMA WindowTypeCorrect == WindowSpec => []WindowTypeOK
<1>1. WindowInit => WindowTypeOK
  BY TypeInit, WindowAssumption DEF WindowInit, WindowTypeOK
<1>2. WindowTypeOK /\ [WindowNext]_allVars => WindowTypeOK'
  <2> SUFFICES ASSUME WindowTypeOK, [WindowNext]_allVars
               PROVE  WindowTypeOK'
    OBVIOUS
  <2>1. TypeOK'
    BY WatchedSteps, TypeInductive DEF WindowTypeOK
  <2>2. span' \in 0..MaxSpan /\ granted' \in Nat
    BY WindowAssumption
       DEF WindowTypeOK, WindowNext, WatchTick, WatchGrant, WatchOther, Reopen, allVars, windowVars
  <2>. QED
    BY <2>1, <2>2 DEF WindowTypeOK
<1>. QED
  BY <1>1, <1>2, PTL DEF WindowSpec

(* What is in the bucket and what the window was granted stay together     *)
(* within the burst plus the rate times the window's length.               *)
THEOREM RateBudgetInvariant == WindowSpec => []RateBudget
<1>1. WindowInit => RateBudget
  BY TypeInit, RefilledInRange, Products DEF WindowInit, RateBudget
<1>2. WindowTypeOK /\ RateBudget /\ [WindowNext]_allVars => RateBudget'
  <2> SUFFICES ASSUME WindowTypeOK, RateBudget, [WindowNext]_allVars
               PROVE  RateBudget'
    OBVIOUS
  <2>0. /\ TypeOK /\ span \in Nat /\ granted \in Nat
        /\ Refilled \in 0..Capacity
        /\ RateBudget' = (Refilled' + granted' * Token <= Capacity + span' * Rate)
    BY RefilledInRange, WindowAssumption DEF WindowTypeOK, RateBudget, Token, Capacity, Rate
  <2>1. CASE WatchTick
    <3>1. Refilled' = CappedAt(Capacity, Refilled + Rate)
      BY <2>0, <2>1, TickStep DEF WatchTick
    <3>2. CASE span < MaxSpan
      <4>1. span' = span + 1 /\ granted' = granted
        BY <2>1, <3>2 DEF WatchTick
      <4>2. span' * Rate = span * Rate + Rate /\ span * Rate \in Nat /\ granted * Token \in Nat
        BY <2>0, <4>1, Products
      <4>. QED
        BY <2>0, <3>1, <4>1, <4>2, Products DEF RateBudget, CappedAt
    <3>3. CASE ~ (span < MaxSpan)
      <4>1. granted' * Token = 0 /\ span' * Rate = 0
        BY <2>1, <3>3, Products DEF WatchTick
      <4>2. Refilled' <= Capacity
        BY <2>0, <3>1, Products DEF CappedAt
      <4>3. Refilled' + 0 <= Capacity + 0
        BY <2>0, <3>1, <4>2, Products DEF CappedAt
      <4>. QED
        BY <2>0, <4>1, <4>3
    <3>. QED
      BY <3>2, <3>3
  <2>2. CASE WatchGrant
    <3>1. Refilled' = Refilled - Token /\ granted' = granted + 1 /\ span' = span
      BY <2>0, <2>2, GrantStep DEF WatchGrant
    <3>2. granted' * Token = granted * Token + Token /\ span * Rate \in Nat /\ granted * Token \in Nat
      BY <2>0, <3>1, Products
    <3>. QED
      BY <2>0, <3>1, <3>2, Products DEF RateBudget
  <2>3. CASE WatchOther
    BY <2>0, <2>3, QuietSteps DEF WatchOther, windowVars, RateBudget
  <2>4. CASE Reopen
    <3>1. Refilled' = Refilled
      BY <2>4 DEF Reopen, vars, Refilled, CappedAt, Capacity, Rate
    <3>2. granted' * Token = 0 /\ span' * Rate = 0
      BY <2>4, Products DEF Reopen
    <3>3. Refilled' + 0 <= Capacity + 0
      BY <2>0, <3>1, Products
    <3>. QED
      BY <2>0, <3>2, <3>3
  <2>5. CASE UNCHANGED allVars
    BY <2>5 DEF allVars, windowVars, vars, RateBudget, Refilled, CappedAt, Capacity, Rate, Token
  <2>. QED
    BY <2>1, <2>2, <2>3, <2>4, <2>5 DEF WindowNext
<1>. QED
  BY <1>1, <1>2, WindowTypeCorrect, PTL DEF WindowSpec

(* QPS is kept in every window: no schedule of the callers, and no moment  *)
(* to start counting, gets more requests through.                          *)
THEOREM RateIsBounded == WindowSpec => []RateBound
<1>1. WindowTypeOK /\ RateBudget => RateBound
  <2> SUFFICES ASSUME WindowTypeOK, RateBudget
               PROVE  RateBound
    OBVIOUS
  <2>1. Refilled \in Nat /\ granted * Token \in Nat /\ span * Rate \in Nat /\ span \in Nat
    BY RefilledInRange, Products, WindowAssumption DEF WindowTypeOK
  <2>. QED
    BY <2>1, Products DEF RateBudget, RateBound
<1>. QED
  BY <1>1, WindowTypeCorrect, RateBudgetInvariant, PTL

-----------------------------------------------------------------------------
(* No caller sleeps past its token: a timer only ever runs while the       *)
(* bucket is still that far from a whole token.                            *)
THEOREM NobodyOversleeps == Spec => []NoOversleep
<1>1. Init => NoOversleep
  BY DEF Init, NoOversleep
<1>2. TypeOK /\ NoOversleep /\ [Next]_vars => NoOversleep'
  <2> SUFFICES ASSUME TypeOK, NoOversleep, [Next]_vars,
                      NEW d \in Callers, pc'[d] = "asleep", left'[d] > 0
               PROVE  Refilled' + left'[d] * Rate <= Token
    BY DEF NoOversleep, Rate, Token
  <2>0. /\ pc \in [Callers -> PCs] /\ left \in [Callers -> Nat]
        /\ Refilled \in 0..Capacity
        /\ pc[d] = "asleep" /\ left[d] > 0 => Refilled + left[d] * Rate <= Token
    BY RefilledInRange DEF TypeOK, NoOversleep
  <2>1. CASE Tick
    <3>1. pc' = pc /\ left[d] = left'[d] + 1 /\ left'[d] \in Nat
      BY <2>0, <2>1 DEF Tick
    <3>2. left[d] * Rate = left'[d] * Rate + Rate /\ left'[d] * Rate \in Nat
      BY <3>1, Products
    <3>3. Refilled + left[d] * Rate <= Token
      BY <2>0, <3>1
    <3>4. Refilled' = CappedAt(Capacity, Refilled + Rate)
      BY <2>1, TickStep
    <3>. QED
      BY <2>0, <3>2, <3>3, <3>4, Products DEF CappedAt
  <2>2. ASSUME NEW c \in Callers, Grant(c)
        PROVE  Refilled' + left'[d] * Rate <= Token
    <3>1. pc[d] = "asleep" /\ left'[d] = left[d]
      BY <2>0, <2>2 DEF Grant, Goto
    <3>2. Refilled' = Refilled - Token /\ left[d] * Rate \in Nat
      BY <2>0, <2>2, GrantStep, Products
    <3>. QED
      BY <2>0, <3>1, <3>2, Products
  <2>3. ASSUME NEW c \in Callers, Refuse(c)
        PROVE  Refilled' + left'[d] * Rate <= Token
    <3>1. Refilled' = Refilled
      BY <2>3, QuietSteps
    <3>2. CASE d = c
      <4>1. left'[d] = (Token - Refilled) \div Rate /\ Refilled < Token
        BY <2>0, <2>3, <3>2 DEF Refuse
      <4>2. \A a \in Nat, b \in Nat \ {0} : (a \div b) * b <= a /\ a \div b \in Nat
        OBVIOUS
      <4>3. Token - Refilled \in Nat /\ Rate \in Nat \ {0}
        <5>1. Refilled \in Nat /\ Token \in Nat /\ Rate \in Nat
          BY RefilledInRange, Products
        <5>2. pc[c] = "take"
          BY <2>3 DEF Refuse
        <5>3. Rate # 0
          BY <5>2 DEF Rate, TypeOK
        <5>. QED
          BY <4>1, <5>1, <5>3
      <4>4. ((Token - Refilled) \div Rate) * Rate <= Token - Refilled
        BY <4>2, <4>3
      <4>5. ((Token - Refilled) \div Rate) * Rate \in Int
        BY <4>2, <4>3, Products
      <4>. QED
        BY <2>0, <3>1, <4>1, <4>4, <4>5, Products
    <3>3. CASE d # c
      <4>1. pc[d] = "asleep" /\ left'[d] = left[d]
        BY <2>0, <2>3, <3>3 DEF Refuse, Goto
      <4>. QED
        BY <2>0, <3>1, <4>1
    <3>. QED
      BY <3>2, <3>3
  <2>4. ASSUME NEW c \in Callers,
               Call(c) \/ Wake(c) \/ GiveUp(c) \/ Leave(c) \/ EndContext(c)
        PROVE  Refilled' + left'[d] * Rate <= Token
    <3>1. pc[d] = "asleep" /\ left' = left
      BY <2>0, <2>4 DEF Call, Wake, GiveUp, Leave, EndContext, Goto
    <3>2. Refilled' = Refilled
      BY <2>4, QuietSteps
    <3>. QED
      BY <2>0, <3>1, <3>2
  <2>5. CASE UNCHANGED vars
    <3>1. Refilled' = Refilled /\ pc' = pc /\ left' = left
      BY <2>5 DEF vars, Refilled, CappedAt, Capacity, Rate
    <3>. QED
      BY <2>0, <3>1
  <2>. QED
    BY <2>1, <2>2, <2>3, <2>4, <2>5 DEF Next, InWait
<1>. QED
  BY <1>1, <1>2, LimiterTypeCorrect, PTL DEF Spec
=============================================================================
