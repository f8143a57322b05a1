-------------------------- MODULE RemoteCallProofs --------------------------
(***************************************************************************)
(* What holds of the two implementations of a remote call: of Client.Do    *)
(* for every number of attempts and every set of answers the server may    *)
(* give, and of awaitAs whatever errors its polls may come back with.      *)
(***************************************************************************)
EXTENDS Mutation, FiniteSetTheorems, TLAPS

-----------------------------------------------------------------------------
(* Client. *)

(* The errors of the model, told apart by their kinds. *)
LEMMA ErrorKinds ==
  /\ \A e \in ApiErrors : e.kind = "api"
  /\ Transport.kind = "transport" /\ Garbled.kind = "other"
  /\ \A e \in ContextErrors : e.kind \in {"canceled", "deadline"}
  /\ None.kind = "none" /\ Ok.kind = "nil"
BY DEF ApiErrors, ApiError, Failure, Transport, Garbled, ContextErrors, Canceled, Deadline, None, Ok,
       Throttle429, ComputeThrottle, Denied, ComputeDenied, Aborted, AlreadyExists, NotFound,
       ComputeNotFound, Stale, Precondition, Internal, Unavailable, BadGateway

(* None and Ok are no errors, and a broken connection or an unparseable    *)
(* body is never safe to retry.                                            *)
LEMMA ErrorsApart ==
  /\ None \notin Errors /\ Ok \notin Errors /\ None \notin Answers /\ None # Ok
  /\ ApiErrors \subseteq Errors /\ {Transport, Garbled} \subseteq Errors
  /\ Refusals \subseteq ApiErrors /\ ActedErrors \subseteq ApiErrors
  /\ ClassifyError(Transport) # "SafeToRetry"
  /\ ClassifyError(Garbled) # "SafeToRetry"
<1>1. \A e \in Errors : e.kind \in {"api", "transport", "other", "canceled", "deadline"}
  BY ErrorKinds DEF Errors
<1>2. Refusals \subseteq ApiErrors /\ ActedErrors \subseteq ApiErrors
  BY ClientAssumption
<1>3. None # Ok
  BY ErrorKinds
<1>4. None \notin Errors /\ Ok \notin Errors
  BY <1>1, ErrorKinds
<1>5. ClassifyError(Transport) # "SafeToRetry" /\ ClassifyError(Garbled) # "SafeToRetry"
  BY ErrorKinds DEF ClassifyError, isTransportError
<1>. QED
  BY <1>2, <1>3, <1>4, <1>5 DEF Errors, Answers

-----------------------------------------------------------------------------
LEMMA TypeInductive ==
  ASSUME TypeOK, [Next]_vars
  PROVE  TypeOK'
<1>. USE ErrorsApart, ClientAssumption DEF TypeOK
<1>1. CASE Limited
  BY <1>1 DEF Limited, Fail, Errors
<1>2. CASE Send
  BY <1>2 DEF Send
<1>3. CASE SendFails
  BY <1>3 DEF SendFails, AttemptFails
<1>4. CASE ServerHandles
  BY <1>4 DEF ServerHandles
<1>5. CASE Lose
  BY <1>5 DEF Lose
<1>6. CASE Receive
  <2>1. inbox # Ok => inbox \in Errors
    BY <1>6 DEF Receive, Answers
  <2>. QED
    BY <1>6, <2>1 DEF Receive, AttemptFails
<1>7. CASE ReceiveGarbled
  BY <1>7 DEF ReceiveGarbled, AttemptFails
<1>8. CASE GiveUp
  BY <1>8 DEF GiveUp, AttemptFails
<1>9. CASE Sleep
  BY <1>9 DEF Sleep, Fail, Errors
<1>10. CASE EndContext
  BY <1>10 DEF EndContext
<1>11. CASE UNCHANGED vars
  BY <1>11 DEF vars
<1>. QED
  BY <1>1, <1>2, <1>3, <1>4, <1>5, <1>6, <1>7, <1>8, <1>9, <1>10, <1>11 DEF Next, Step

(* Every state of a call has the types the model gives it. *)
THEOREM ClientTypeCorrect == Spec => []TypeOK
<1>1. Init => TypeOK
  BY ClientAssumption DEF Init, TypeOK
<1>2. TypeOK /\ [Next]_vars => TypeOK'
  BY TypeInductive
<1>. QED
  BY <1>1, <1>2, PTL DEF Spec

-----------------------------------------------------------------------------
LEMMA OnlyThisAttemptInductive ==
  ASSUME SafeIsUnacted, TypeOK, OnlyThisAttempt, [Next]_vars
  PROVE  OnlyThisAttempt'
<1>. USE ErrorsApart DEF TypeOK, OnlyThisAttempt
<1>1. CASE Limited
  BY <1>1 DEF Limited, Fail
<1>2. CASE Send
  BY <1>2 DEF Send
<1>3. CASE SendFails
  BY <1>3 DEF SendFails, AttemptFails
<1>4. CASE ServerHandles
  <2>1. PICK a \in wire, reply \in Answers :
          /\ wire' = wire \ {a}
          /\ acted' = acted + 1 \/ (acted' = acted /\ reply \notin {Ok})
          /\ reply \notin {Ok} \cup ActedErrors => acted' = acted
          /\ inbox' = IF pc = "await" /\ a = attempt THEN reply ELSE inbox
          /\ UNCHANGED <<pc, attempt, lastErr, ctx>>
    BY <1>4 DEF ServerHandles, Errors
  <2>2. a = attempt /\ wire' = {} /\ acted = 0 /\ pc \in {"await", "failed"}
    BY <2>1
  <2>3. pc' = pc /\ attempt' = attempt /\ acted' \in {0, 1}
    BY <2>1, <2>2
  <2>4. pc' = "await" => inbox' = reply
    BY <2>1, <2>2
  <2>5. reply \notin {Ok} \cup ActedErrors => acted' = 0
    BY <2>1, <2>2
  <2>. QED
    BY <2>2, <2>3, <2>4, <2>5
<1>5. CASE Lose
  BY <1>5 DEF Lose
<1>6. CASE Receive
  BY <1>6 DEF Receive, AttemptFails, SafeIsUnacted, Answers
<1>7. CASE ReceiveGarbled
  BY <1>7 DEF ReceiveGarbled, AttemptFails
<1>8. CASE GiveUp
  BY <1>8 DEF GiveUp, AttemptFails
<1>9. CASE Sleep
  BY <1>9 DEF Sleep, Fail
<1>10. CASE EndContext
  BY <1>10 DEF EndContext
<1>11. CASE UNCHANGED vars
  BY <1>11 DEF vars
<1>. QED
  BY <1>1, <1>2, <1>3, <1>4, <1>5, <1>6, <1>7, <1>8, <1>9, <1>10, <1>11 DEF Next, Step

LEMMA OnlyThisAttemptInvariant ==
  ASSUME SafeIsUnacted
  PROVE  Spec => []OnlyThisAttempt
<1>1. Init => OnlyThisAttempt
  BY ErrorsApart DEF Init, OnlyThisAttempt
<1>2. TypeOK /\ OnlyThisAttempt /\ [Next]_vars => OnlyThisAttempt'
  BY OnlyThisAttemptInductive
<1>. QED
  BY <1>1, <1>2, ClientTypeCorrect, PTL DEF Spec

(* The retries never make the server act twice, provided an answer that is *)
(* safe to retry means it did not act the first time: a request whose      *)
(* answer was lost is never sent again.                                    *)
THEOREM ActsAtMostOnce == Spec => []AtMostOnce
<1>1. CASE SafeIsUnacted
  <2>1. TypeOK /\ OnlyThisAttempt => AtMostOnce
    <3> SUFFICES ASSUME TypeOK, OnlyThisAttempt
                 PROVE  acted + Cardinality(wire) <= 1
      BY DEF AtMostOnce
    <3>1. wire = {} \/ wire = {attempt}
      BY DEF OnlyThisAttempt
    <3>2. Cardinality({}) = 0 /\ Cardinality({attempt}) = 1
      BY FS_EmptySet, FS_Singleton
    <3>3. CASE wire = {}
      BY <3>2, <3>3 DEF OnlyThisAttempt, TypeOK
    <3>4. CASE wire = {attempt}
      <4>1. wire # {} /\ Cardinality(wire) = 1
        BY <3>2, <3>4
      <4>. QED
        BY <4>1 DEF OnlyThisAttempt
    <3>. QED
      BY <3>1, <3>3, <3>4
  <2>. QED
    BY <1>1, <2>1, ClientTypeCorrect, OnlyThisAttemptInvariant, PTL
<1>2. CASE ~ SafeIsUnacted
  <2>1. AtMostOnce
    BY <1>2 DEF AtMostOnce
  <2>. QED
    BY <2>1, PTL
<1>. QED
  BY <1>1, <1>2

-----------------------------------------------------------------------------
(* What the caller was told goes with what the server did. *)
ToldTheTruth ==
  /\ pc = "ok" => acted = 1
  /\ pc = "await" /\ inbox = Ok => acted = 1
  /\ pc = "failed" /\ lastErr.kind \in {"api", "canceled", "deadline"} => acted = 0 /\ wire = {}
  /\ pc = "failed" => lastErr \in Errors

LEMMA ToldTheTruthInductive ==
  ASSUME ActedErrors = {}, TypeOK, OnlyThisAttempt, ToldTheTruth, [Next]_vars
  PROVE  ToldTheTruth'
<1>. USE ErrorsApart, ErrorKinds DEF TypeOK, OnlyThisAttempt, ToldTheTruth
<1>1. CASE Limited
  BY <1>1 DEF Limited, Fail, Errors
<1>2. CASE Send
  BY <1>2 DEF Send
<1>3. CASE SendFails
  BY <1>3 DEF SendFails, AttemptFails
<1>4. CASE ServerHandles
  <2>1. PICK a \in wire, reply \in Answers :
          /\ wire' = wire \ {a}
          /\ reply = Ok => acted' = acted + 1
          /\ reply # Ok => acted' = acted
          /\ inbox' = IF pc = "await" /\ a = attempt THEN reply ELSE inbox
          /\ UNCHANGED <<pc, attempt, lastErr, ctx>>
    BY <1>4 DEF ServerHandles, Answers, Errors
  <2>2. a = attempt /\ wire' = {} /\ acted = 0 /\ pc \in {"await", "failed"}
    BY <2>1
  <2>3. CASE pc = "await"
    BY <2>1, <2>2, <2>3
  <2>4. CASE pc = "failed"
    BY <2>1, <2>2, <2>4
  <2>. QED
    BY <2>2, <2>3, <2>4
<1>5. CASE Lose
  BY <1>5 DEF Lose
<1>6. CASE Receive
  BY <1>6 DEF Receive, AttemptFails, Answers
<1>7. CASE ReceiveGarbled
  BY <1>7 DEF ReceiveGarbled, AttemptFails
<1>8. CASE GiveUp
  BY <1>8 DEF GiveUp, AttemptFails
<1>9. CASE Sleep
  BY <1>9 DEF Sleep, Fail, Errors
<1>10. CASE EndContext
  BY <1>10 DEF EndContext
<1>11. CASE UNCHANGED vars
  BY <1>11 DEF vars
<1>. QED
  BY <1>1, <1>2, <1>3, <1>4, <1>5, <1>6, <1>7, <1>8, <1>9, <1>10, <1>11 DEF Next, Step

(* Do implements the abstract remote call when every API error is a        *)
(* refusal: nil means acted, an API or context error means never acted,    *)
(* and only a lost or unreadable answer leaves it open.                    *)
THEOREM DoIsARemoteCall ==
  ASSUME ActedErrors = {}
  PROVE  Spec => IsRemoteCall
<1>0. SafeIsUnacted
  BY DEF SafeIsUnacted
<1>1. Init => Remote!Init /\ ToldTheTruth
  BY DEF Init, Remote!Init, Outcome, ToldTheTruth
<1>2. /\ TypeOK /\ OnlyThisAttempt /\ ToldTheTruth /\ [Next]_vars
      => ToldTheTruth'
  BY ToldTheTruthInductive
<1>3. /\ TypeOK /\ TypeOK' /\ OnlyThisAttempt /\ OnlyThisAttempt'
      /\ ToldTheTruth /\ ToldTheTruth' /\ [Next]_vars
      => [Remote!Next]_<<acted > 0, Outcome>>
  <2> SUFFICES ASSUME TypeOK, TypeOK', OnlyThisAttempt, OnlyThisAttempt',
                      ToldTheTruth, ToldTheTruth', [Next]_vars
               PROVE  [Remote!Next]_<<acted > 0, Outcome>>
    OBVIOUS
  <2>1. CASE Step
    <3>1. acted' = acted
      BY <2>1 DEF Step, Limited, Send, SendFails, Receive, ReceiveGarbled, GiveUp, Sleep
    <3>2. pc \notin {"ok", "failed"}
      BY <2>1 DEF Step, Limited, Send, SendFails, Receive, ReceiveGarbled, GiveUp, Sleep
    <3>3. Outcome = "pending"
      BY <3>2 DEF Outcome
    <3>4. CASE pc' = "ok"
      <4>1. Outcome' = "ok" /\ acted' = 1
        BY <3>4 DEF Outcome, ToldTheTruth
      <4>. QED
        BY <3>1, <3>3, <4>1 DEF Remote!Next, Remote!Tell
    <3>5. CASE pc' = "failed" /\ lastErr'.kind \in {"api", "canceled", "deadline"}
      <4>1. Outcome' = "refused" /\ acted' = 0
        BY <3>5 DEF Outcome, ToldTheTruth
      <4>. QED
        BY <3>1, <3>3, <4>1 DEF Remote!Next, Remote!Tell
    <3>6. CASE pc' = "failed" /\ lastErr'.kind \notin {"api", "canceled", "deadline"}
      <4>1. Outcome' = "unknown"
        BY <3>6 DEF Outcome
      <4>. QED
        BY <3>1, <3>3, <4>1 DEF Remote!Next, Remote!Tell
    <3>7. CASE pc' \notin {"ok", "failed"}
      <4>1. Outcome' = "pending"
        BY <3>7 DEF Outcome
      <4>. QED
        BY <3>1, <3>3, <4>1
    <3>. QED
      BY <3>4, <3>5, <3>6, <3>7
  <2>2. CASE ServerHandles
    <3>1. Outcome' = Outcome
      BY <2>2 DEF ServerHandles, Outcome
    <3>2. wire # {} /\ (acted' = acted \/ acted' = acted + 1)
      BY <2>2 DEF ServerHandles
    <3>3. acted = 0 /\ Outcome \in {"pending", "unknown"}
      BY <3>2 DEF OnlyThisAttempt, ToldTheTruth, Outcome
    <3>. QED
      BY <3>1, <3>2, <3>3 DEF Remote!Next, Remote!Act, TypeOK
  <2>3. CASE Lose \/ EndContext \/ UNCHANGED vars
    BY <2>3 DEF Lose, EndContext, vars, Outcome
  <2>. QED
    BY <2>1, <2>2, <2>3 DEF Next
<1>. QED
  BY <1>0, <1>1, <1>2, <1>3, ClientTypeCorrect, OnlyThisAttemptInvariant, PTL
     DEF Spec, IsRemoteCall, Remote!Spec

-----------------------------------------------------------------------------
(* The two spellings of a throttle are safe to retry, and no context's     *)
(* error is one of them.                                                   *)
LEMMA ThrottlesAreSafe ==
  /\ \A e \in {Throttle429, ComputeThrottle} : ClassifyError(e) = "SafeToRetry" /\ e.kind = "api"
  /\ \A e \in ContextErrors : e \notin {Throttle429, ComputeThrottle}
<1>1. Throttle429.kind = "api" /\ Throttle429.code = "RESOURCE_EXHAUSTED"
  BY DEF Throttle429, ApiError
<1>2. ComputeThrottle.kind = "api" /\ ComputeThrottle.reason = "rateLimitExceeded"
  BY DEF ComputeThrottle, ApiError
<1>3. retryableAnswer(Throttle429) /\ retryableAnswer(ComputeThrottle)
  BY <1>1, <1>2 DEF retryableAnswer, retryableReasons, retryableCodes
<1>4. ~ isTransportError(Throttle429) /\ ~ isTransportError(ComputeThrottle)
  BY <1>1, <1>2 DEF isTransportError
<1>5. ClassifyError(Throttle429) = "SafeToRetry"
  BY <1>1, <1>3, <1>4 DEF ClassifyError
<1>6. ClassifyError(ComputeThrottle) = "SafeToRetry"
  BY <1>2, <1>3, <1>4 DEF ClassifyError
<1>7. \A e \in ContextErrors : e \notin {Throttle429, ComputeThrottle}
  BY <1>1, <1>2, ErrorKinds
<1>. QED
  BY <1>1, <1>2, <1>5, <1>6, <1>7

(* The caller sees a throttle only when every attempt has been used, for   *)
(* any number of attempts and whatever else the server answers.            *)
THEOREM ThrottlesAreRetried == Spec => []ThrottleIsRetried
<1>1. Init => ThrottleIsRetried
  BY DEF Init, ThrottleIsRetried
<1>2. TypeOK /\ ThrottleIsRetried /\ [Next]_vars => ThrottleIsRetried'
  <2> SUFFICES ASSUME TypeOK, ThrottleIsRetried, [Next]_vars
               PROVE  ThrottleIsRetried'
    OBVIOUS
  <2>. USE ThrottlesAreSafe, ClientAssumption DEF TypeOK, ThrottleIsRetried
  <2>1. ASSUME NEW e, AttemptFails(e)
        PROVE  ThrottleIsRetried'
    BY <2>1 DEF AttemptFails
  <2>2. CASE Limited \/ Sleep
    BY <2>2 DEF Limited, Sleep, Fail
  <2>3. CASE Send
    BY <2>3 DEF Send
  <2>4. CASE SendFails \/ Receive \/ ReceiveGarbled \/ GiveUp
    BY <2>1, <2>4 DEF SendFails, Receive, ReceiveGarbled, GiveUp
  <2>5. CASE ServerHandles \/ Lose \/ EndContext \/ UNCHANGED vars
    BY <2>5 DEF ServerHandles, Lose, EndContext, vars
  <2>. QED
    BY <2>2, <2>3, <2>4, <2>5 DEF Next, Step
<1>. QED
  BY <1>1, <1>2, ClientTypeCorrect, PTL DEF Spec
-----------------------------------------------------------------------------
(* Await. *)

(* A poll's errors, the operation's own and the wait's are told apart by   *)
(* their kind and their status.                                            *)
LEMMA AwaitErrorsDiffer ==
  /\ Nil \notin AwaitErrors
  /\ {Transport, Deadline, Garbled} \cap OperationErrors = {}
  /\ PollErrors \cap OperationErrors = {}
<1>1. \A e \in OperationErrors : e.kind = "api" /\ e.status = 0
  <2> SUFFICES ASSUME NEW e \in OperationErrors
               PROVE  e.kind = "api" /\ e.status = 0
    OBVIOUS
  <2>1. PICK l \in BOOLEAN, c \in Causes : e = operationError(l, c)
    BY DEF OperationErrors
  <2>. QED
    BY <2>1 DEF operationError, ApiError
<1>2. \A e \in ApiErrors : e.kind = "api" /\ e.status # 0
  <2>1. /\ Throttle429.kind = "api" /\ Throttle429.status # 0
        /\ ComputeThrottle.kind = "api" /\ ComputeThrottle.status # 0
        /\ Denied.kind = "api" /\ Denied.status # 0
        /\ ComputeDenied.kind = "api" /\ ComputeDenied.status # 0
        /\ Aborted.kind = "api" /\ Aborted.status # 0
        /\ AlreadyExists.kind = "api" /\ AlreadyExists.status # 0
        /\ NotFound.kind = "api" /\ NotFound.status # 0
    BY DEF ApiError, Throttle429, ComputeThrottle, Denied, ComputeDenied, Aborted, AlreadyExists,
           NotFound
  <2>2. /\ ComputeNotFound.kind = "api" /\ ComputeNotFound.status # 0
        /\ Stale.kind = "api" /\ Stale.status # 0
        /\ Precondition.kind = "api" /\ Precondition.status # 0
        /\ Internal.kind = "api" /\ Internal.status # 0
        /\ Unavailable.kind = "api" /\ Unavailable.status # 0
        /\ BadGateway.kind = "api" /\ BadGateway.status # 0
    BY DEF ApiError, ComputeNotFound, Stale, Precondition, Internal, Unavailable, BadGateway
  <2>. QED
    BY <2>1, <2>2 DEF ApiErrors
<1>3. /\ Transport.kind = "transport" /\ Deadline.kind = "deadline"
      /\ Garbled.kind = "other" /\ Nil.kind = "nil"
  BY DEF Transport, Deadline, Garbled, Nil, Failure
<1>. QED
  BY <1>1, <1>2, <1>3, AwaitAssumption DEF AwaitErrors

(* What the last answer showed is what the operation came to, and a wait   *)
(* goes on only while the operation was last seen running.                 *)
AwaitInv ==
  /\ AwaitTypeOK
  /\ view # "running" => view = phase
  /\ stage \in {"sleep", "poll"} => view = "running"
  /\ stage # "returned" => err = Nil
  /\ stage = "returned" =>
       \/ err = Nil /\ view = "succeeded"
       \/ err \in OperationErrors /\ view = "failed"
       \/ err \in PollErrors /\ view = "running"
       \/ err \in {Transport, Deadline} /\ view = "running" /\ expired
       \/ err = Garbled /\ view = "running" /\ ~ addressable

LEMMA AwaitInvInit == AwaitInit => AwaitInv
BY DEF AwaitInit, AwaitInv, AwaitTypeOK, Phases

LEMMA AwaitInvNext == AwaitInv /\ [AwaitNext]_awaitVars => AwaitInv'
<1> SUFFICES ASSUME AwaitInv, [AwaitNext]_awaitVars
             PROVE  AwaitInv'
  OBVIOUS
<1>. USE AwaitErrorsDiffer DEF AwaitInv, AwaitTypeOK, Phases, Return, mutation, AwaitErrors
<1>1. CASE LookDone
  <2>1. \A l \in BOOLEAN : operationError(l, cause) \in OperationErrors
    BY DEF OperationErrors
  <2>. QED
    BY <1>1, <2>1 DEF LookDone
<1>2. CASE LookUnaddressable
  BY <1>2 DEF LookUnaddressable
<1>3. CASE LookAgain
  BY <1>3 DEF LookAgain
<1>4. CASE SleepBackoff
  BY <1>4 DEF SleepBackoff
<1>5. CASE Poll
  BY <1>5 DEF Poll
<1>6. CASE PollFails
  BY <1>6 DEF PollFails
<1>7. CASE PollTimesOut
  BY <1>7 DEF PollTimesOut
<1>8. CASE Finish
  BY <1>8 DEF Finish
<1>9. CASE CallerGoes
  BY <1>9 DEF CallerGoes
<1>11. CASE Expire
  BY <1>11 DEF Expire
<1>10. CASE UNCHANGED awaitVars
  BY <1>10 DEF awaitVars
<1>. QED
  BY <1>1, <1>2, <1>3, <1>4, <1>5, <1>6, <1>7, <1>8, <1>9, <1>10, <1>11 DEF AwaitNext, AwaitStep

LEMMA AwaitInvAlways == AwaitSpec => []AwaitInv
BY AwaitInvInit, AwaitInvNext, PTL DEF AwaitSpec

(* Every state of a wait has the types the model gives it. *)
THEOREM AwaitTypeCorrect == AwaitSpec => []AwaitTypeOK
<1>1. AwaitInv => AwaitTypeOK
  BY DEF AwaitInv
<1>. QED
  BY <1>1, AwaitInvAlways, PTL

(* No wait leaves a running operation behind because its caller went away. *)
THEOREM AwaitAbandonsNothing == AwaitSpec => []NotAbandoned
<1>1. AwaitInv => NotAbandoned
  BY AwaitErrorsDiffer DEF AwaitInv, NotAbandoned, AwaitTypeOK
<1>. QED
  BY <1>1, AwaitInvAlways, PTL

(* An answer that says the operation succeeded is never turned into an     *)
(* error over what it lacks for a poll.                                    *)
THEOREM AwaitTakesDone == AwaitSpec => []DoneIsTaken
<1>1. AwaitInv => DoneIsTaken
  BY DEF AwaitInv, DoneIsTaken
<1>. QED
  BY <1>1, AwaitInvAlways, PTL

(* Await reports what became of the operation: every step of it is a step, *)
(* or no step, of a remote call.                                           *)
THEOREM AwaitFollowsTheOperation == AwaitSpec => FollowsTheOperation
<1>1. AwaitInv /\ AwaitInv' /\ [AwaitNext]_awaitVars => [Operation!Next]_<<phase = "succeeded", Reported>>
  <2> SUFFICES ASSUME AwaitInv, AwaitInv', [AwaitNext]_awaitVars
               PROVE  [Operation!Next]_<<phase = "succeeded", Reported>>
    OBVIOUS
  <2>1. CASE Finish
    <3>1. Reported' = Reported
      BY <2>1 DEF Finish, Reported
    <3>2. Reported \in {"pending", "unknown"}
      BY <2>1, AwaitErrorsDiffer DEF Finish, Reported, AwaitInv, AwaitTypeOK, AwaitErrors
    <3>. QED
      BY <2>1, <3>1, <3>2 DEF Finish, Operation!Next, Operation!Act
  <2>2. CASE AwaitStep
    <3>1. phase' = phase /\ stage # "returned"
      BY <2>2 DEF AwaitStep, LookDone, LookUnaddressable, LookAgain, SleepBackoff, Poll, PollFails,
                  PollTimesOut, mutation
    <3>2. Reported = "pending"
      BY <3>1 DEF Reported
    <3>3. CASE stage' # "returned"
      BY <3>1, <3>2, <3>3 DEF Reported
    <3>4. CASE stage' = "returned" /\ err' = Nil
      <4>1. Reported' = "ok" /\ phase' = "succeeded"
        BY <3>4, AwaitErrorsDiffer DEF Reported, AwaitInv, AwaitErrors
      <4>. QED
        BY <3>1, <3>2, <4>1 DEF Operation!Next, Operation!Tell
    <3>5. CASE stage' = "returned" /\ err' \in OperationErrors
      <4>1. err' # Nil
        BY <3>5, AwaitErrorsDiffer DEF AwaitErrors
      <4>2. Reported' = "refused" /\ phase' = "failed"
        BY <3>5, <4>1, AwaitErrorsDiffer DEF Reported, AwaitInv, AwaitErrors
      <4>. QED
        BY <3>1, <3>2, <4>2 DEF Operation!Next, Operation!Tell
    <3>6. CASE stage' = "returned" /\ err' # Nil /\ err' \notin OperationErrors
      <4>1. Reported' = "unknown"
        BY <3>6 DEF Reported
      <4>. QED
        BY <3>1, <3>2, <4>1 DEF Operation!Next, Operation!Tell
    <3>. QED
      BY <3>3, <3>4, <3>5, <3>6
  <2>3. CASE CallerGoes \/ Expire \/ UNCHANGED awaitVars
    BY <2>3 DEF CallerGoes, Expire, awaitVars, Reported
  <2>. QED
    BY <2>1, <2>2, <2>3 DEF AwaitNext
<1>. QED
  BY <1>1, AwaitInvAlways, PTL DEF AwaitSpec, FollowsTheOperation

-----------------------------------------------------------------------------
(* Mutation. *)

(* A mutation makes the steps of a call and of a wait, and no others.      *)
LEMMA MutationIsCallAndWait == MutationSpec => Spec /\ AwaitSpec
<1>1. MutationInit => Init /\ AwaitInit
  BY DEF MutationInit
<1>2. [MutationNext]_mutationVars => [Next]_vars /\ [AwaitNext]_awaitVars
  BY DEF MutationNext, Sending, Operating, Waiting, TimingOut, Leaving, mutationVars, Next, AwaitNext
<1>. QED
  BY <1>1, <1>2, PTL DEF MutationSpec, Spec, AwaitSpec

(* Nobody looks at the operation before Do has returned.                   *)
NobodyWaitsYet == pc # "ok" => stage # "returned"

(* Request and wait are one remote call, whatever the answers and however  *)
(* many attempts, when every API error is a refusal.                       *)
THEOREM MutationTellsTheTruth ==
  ASSUME ActedErrors = {}
  PROVE  MutationSpec => MutationIsARemoteCall
<1>0. SafeIsUnacted
  BY DEF SafeIsUnacted
<1> DEFINE Here == /\ TypeOK /\ OnlyThisAttempt /\ ToldTheTruth /\ AwaitInv
                   /\ NobodyWaitsYet
<1>1. MutationInit => Whole!Init /\ ToldTheTruth /\ NobodyWaitsYet
  BY DEF MutationInit, Init, AwaitInit, Whole!Init, Told, Outcome, ToldTheTruth, NobodyWaitsYet
<1>2. [MutationNext]_mutationVars => [Next]_vars
  BY DEF MutationNext, Sending, Operating, Waiting, TimingOut, Leaving, mutationVars, Next
<1>3. TypeOK /\ OnlyThisAttempt /\ ToldTheTruth /\ [Next]_vars => ToldTheTruth'
  BY ToldTheTruthInductive
<1>4. NobodyWaitsYet /\ [MutationNext]_mutationVars => NobodyWaitsYet'
  <2> SUFFICES ASSUME NobodyWaitsYet, [MutationNext]_mutationVars
               PROVE  NobodyWaitsYet'
    OBVIOUS
  <2>. USE DEF NobodyWaitsYet
  <2>1. CASE Sending
    <3>1. stage' = stage /\ (pc # "ok" \/ pc' = pc)
      BY <2>1 DEF Sending, awaitVars, Step, Limited, Send, SendFails, Receive, ReceiveGarbled, GiveUp,
                  Sleep, ServerHandles, Lose
    <3>. QED
      BY <3>1
  <2>2. CASE Operating \/ TimingOut \/ Leaving \/ UNCHANGED mutationVars
    BY <2>2 DEF Operating, TimingOut, Leaving, Finish, Expire, EndContext, CallerGoes, mutationVars,
                vars, awaitVars
  <2>3. CASE Waiting
    BY <2>3 DEF Waiting, vars
  <2>. QED
    BY <2>1, <2>2, <2>3 DEF MutationNext
<1>5. Here /\ Here' /\ [MutationNext]_mutationVars
      => [Whole!Next]_<<acted > 0 /\ phase = "succeeded", Told>>
  <2> SUFFICES ASSUME Here, Here', [MutationNext]_mutationVars
               PROVE  [Whole!Next]_<<acted > 0 /\ phase = "succeeded", Told>>
    OBVIOUS
  <2> DEFINE Did == acted > 0 /\ phase = "succeeded"
  <2>1. CASE Sending
    <3>1. phase' = phase /\ Reported' = Reported /\ (stage # "returned" => Reported = "pending")
      BY <2>1 DEF Sending, awaitVars, Reported
    <3>2. CASE Step
      <4>1. acted' = acted /\ Outcome = "pending" /\ pc \notin {"ok", "failed"}
        BY <3>2 DEF Step, Limited, Send, SendFails, Receive, ReceiveGarbled, GiveUp, Sleep, Outcome
      <4>2. Told = "pending" /\ Reported' = "pending"
        BY <3>1, <4>1 DEF Told, NobodyWaitsYet
      <4>3. CASE pc' = "ok"
        BY <3>1, <4>1, <4>2, <4>3 DEF Told, Outcome
      <4>4. CASE pc' = "failed" /\ lastErr'.kind \in {"api", "canceled", "deadline"}
        <5>1. Told' = "refused" /\ ~ Did
          BY <4>1, <4>4 DEF Told, Outcome, ToldTheTruth
        <5>. QED
          BY <3>1, <4>1, <4>2, <5>1 DEF Whole!Next, Whole!Tell
      <4>5. CASE pc' = "failed" /\ lastErr'.kind \notin {"api", "canceled", "deadline"}
        <5>1. Told' = "unknown"
          BY <4>5 DEF Told, Outcome
        <5>. QED
          BY <3>1, <4>1, <4>2, <5>1 DEF Whole!Next, Whole!Tell
      <4>6. CASE pc' \notin {"ok", "failed"}
        <5>1. Told' = "pending"
          BY <4>6 DEF Told, Outcome
        <5>. QED
          BY <3>1, <4>1, <4>2, <5>1
      <4>. QED
        BY <4>3, <4>4, <4>5, <4>6
    <3>3. CASE ServerHandles
      <4>1. Outcome' = Outcome /\ Told' = Told
        BY <3>1, <3>3 DEF ServerHandles, Outcome, Told
      <4>2. wire # {} /\ (acted' = acted \/ acted' = acted + 1)
        BY <3>3 DEF ServerHandles
      <4>3. acted = 0 /\ Outcome \in {"pending", "unknown"}
        BY <4>2 DEF OnlyThisAttempt, ToldTheTruth, Outcome
      <4>4. Told \in {"pending", "unknown"}
        BY <4>3 DEF Told
      <4>. QED
        BY <3>1, <4>1, <4>2, <4>3, <4>4 DEF Whole!Next, Whole!Act
    <3>4. CASE Lose
      BY <3>1, <3>4 DEF Lose, Outcome, Told
    <3>. QED
      BY <2>1, <3>2, <3>3, <3>4 DEF Sending
  <2>2. CASE Operating
    <3>1. /\ acted' = acted /\ acted > 0 /\ Outcome' = Outcome
          /\ phase = "running" /\ Reported' = Reported
      BY <2>2 DEF Operating, Finish, vars, Outcome, Reported
    <3>2. Reported \in {"pending", "unknown"}
      BY <3>1, AwaitErrorsDiffer DEF Reported, AwaitInv, AwaitTypeOK, AwaitErrors
    <3>3. Outcome # "refused"
      BY <3>1 DEF Outcome, ToldTheTruth
    <3>4. Told \in {"pending", "unknown"} /\ Told' = Told
      BY <3>1, <3>2, <3>3 DEF Told, Outcome
    <3>. QED
      BY <3>1, <3>4 DEF Whole!Next, Whole!Act
  <2>3. CASE Waiting
    <3>1. /\ acted' = acted /\ acted = 1 /\ Outcome = "ok" /\ Outcome' = "ok"
          /\ phase' = phase /\ stage # "returned"
      BY <2>3 DEF Waiting, vars, Outcome, ToldTheTruth, AwaitStep, LookDone, LookUnaddressable,
                  LookAgain, SleepBackoff, Poll, PollFails, PollTimesOut, mutation
    <3>2. Told = "pending" /\ Told' = Reported'
      BY <3>1 DEF Told, Reported
    <3>3. CASE stage' # "returned"
      BY <3>1, <3>2, <3>3 DEF Reported
    <3>4. CASE stage' = "returned" /\ err' = Nil
      <4>1. Reported' = "ok" /\ phase' = "succeeded"
        BY <3>4, AwaitErrorsDiffer DEF Reported, AwaitInv, AwaitErrors
      <4>. QED
        BY <3>1, <3>2, <4>1 DEF Whole!Next, Whole!Tell
    <3>5. CASE stage' = "returned" /\ err' \in OperationErrors
      <4>1. err' # Nil
        BY <3>5, AwaitErrorsDiffer DEF AwaitErrors
      <4>2. Reported' = "refused" /\ phase' = "failed"
        BY <3>5, <4>1, AwaitErrorsDiffer DEF Reported, AwaitInv, AwaitErrors
      <4>. QED
        BY <3>1, <3>2, <4>2 DEF Whole!Next, Whole!Tell
    <3>6. CASE stage' = "returned" /\ err' # Nil /\ err' \notin OperationErrors
      <4>1. Reported' = "unknown"
        BY <3>6 DEF Reported
      <4>. QED
        BY <3>1, <3>2, <4>1 DEF Whole!Next, Whole!Tell
    <3>. QED
      BY <3>3, <3>4, <3>5, <3>6
  <2>4. CASE TimingOut \/ Leaving \/ UNCHANGED mutationVars
    <3>1. /\ acted' = acted /\ phase' = phase /\ Outcome' = Outcome /\ Reported' = Reported
      BY <2>4 DEF TimingOut, Leaving, Expire, EndContext, CallerGoes, mutationVars, vars, awaitVars,
                  Outcome, Reported
    <3>. QED
      BY <3>1 DEF Told
  <2>. QED
    BY <2>1, <2>2, <2>3, <2>4 DEF MutationNext
<1>6. MutationSpec => []Here
  BY <1>0, <1>1, <1>2, <1>3, <1>4, MutationIsCallAndWait, ClientTypeCorrect, OnlyThisAttemptInvariant,
     AwaitInvAlways, PTL DEF MutationSpec
<1>7. QED
  BY <1>1, <1>5, <1>6, PTL DEF MutationSpec, MutationIsARemoteCall, Whole!Spec
=============================================================================
