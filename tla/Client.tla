------------------------------- MODULE Client -------------------------------
(***************************************************************************)
(* One call of Client.Do or Client.DoLongPoll (internal/gcprov/client.go): *)
(* the retry loop, its limiter and backoff waits, and a server that may    *)
(* act on a request without its answer reaching the client.                *)
(***************************************************************************)
EXTENDS ApiErrors, FiniteSets

CONSTANTS
  MaxAttempts,    \* ClientOptions.MaxAttempts, or defaultMaxAttempts
  Refusals,       \* API errors the server answers without having acted
  ActedErrors     \* API errors the server answers although it has acted

ASSUME ClientAssumption ==
  /\ MaxAttempts \in Nat \ {0}
  /\ Refusals \subseteq ApiErrors
  /\ ActedErrors \subseteq ApiErrors

VARIABLES
  pc,         \* where do is: waiting to retry, for the limiter, for an answer
  attempt,    \* the attempt being made, from 1
  wire,       \* attempts whose request the server has yet to handle
  inbox,      \* what the server answered to the current attempt, or None
  lastErr,    \* the error of the last finished attempt, or None
  ctx,        \* the caller's context: None, or the error it ended with
  acted       \* how many times the server acted on the request

vars == <<pc, attempt, wire, inbox, lastErr, ctx, acted>>

None == Failure("none")
Ok   == Failure("nil")

Answers == {Ok} \cup Refusals \cup ActedErrors
ContextErrors == {Canceled, Deadline}
Errors  == ApiErrors \cup {Transport, Garbled} \cup ContextErrors

TypeOK ==
  /\ pc \in {"backoff", "limiter", "send", "await", "ok", "failed"}
  /\ attempt \in 1..MaxAttempts
  /\ pc = "backoff" => attempt < MaxAttempts
  /\ wire \in SUBSET (1..MaxAttempts)
  /\ inbox \in Answers \cup {None}
  /\ lastErr \in Errors \cup {None}
  /\ ctx \in ContextErrors \cup {None}
  /\ acted \in Nat

Init ==
  /\ pc = "limiter"
  /\ attempt = 1
  /\ wire = {}
  /\ inbox = None
  /\ lastErr = None
  /\ ctx = None
  /\ acted = 0

Fail(e) ==
  /\ pc' = "failed"
  /\ lastErr' = e

(* lim.Wait returns with a token, or with the context's error. *)
Limited ==
  /\ pc = "limiter"
  /\ \/ pc' = "send" /\ UNCHANGED lastErr
     \/ ctx # None /\ Fail(ctx)
  /\ UNCHANGED <<attempt, wire, inbox, ctx, acted>>

(* The request leaves for the server. *)
Send ==
  /\ pc = "send"
  /\ pc' = "await"
  /\ wire' = wire \cup {attempt}
  /\ inbox' = None
  /\ UNCHANGED <<attempt, lastErr, ctx, acted>>

(* An attempt ends with an error: the loop goes on only for a failure that *)
(* is safe to retry, and only while attempts are left.                     *)
AttemptFails(e) ==
  /\ lastErr' = e
  /\ pc' = IF ClassifyError(e) = "SafeToRetry" /\ attempt < MaxAttempts
             THEN "backoff" ELSE "failed"
  /\ UNCHANGED <<attempt, ctx>>

(* The token source or the connection fails before anything is sent. *)
SendFails ==
  /\ pc = "send"
  /\ AttemptFails(Transport)
  /\ UNCHANGED <<wire, inbox, acted>>

(* The server handles a request: it refuses it, or acts and answers.  An   *)
(* answer to an attempt the client has given up goes nowhere.              *)
ServerHandles ==
  \E a \in wire :
    /\ wire' = wire \ {a}
    /\ \E reply \in Answers :
         /\ acted' \in (IF reply \in {Ok} \cup ActedErrors THEN {acted + 1} ELSE {})
                       \cup (IF reply \in Refusals THEN {acted} ELSE {})
         /\ inbox' = IF pc = "await" /\ a = attempt THEN reply ELSE inbox
    /\ UNCHANGED <<pc, attempt, lastErr, ctx>>

(* The connection loses the request before the server sees it. *)
Lose ==
  \E a \in wire :
    /\ wire' = wire \ {a}
    /\ UNCHANGED <<pc, attempt, inbox, lastErr, ctx, acted>>

(* doOnce gets the answer: a status of 300 or more is an *APIError. *)
Receive ==
  /\ pc = "await"
  /\ inbox # None
  /\ IF inbox = Ok
       THEN pc' = "ok" /\ UNCHANGED <<lastErr, attempt, ctx>>
       ELSE AttemptFails(inbox)
  /\ UNCHANGED <<wire, inbox, acted>>

(* A 2xx answer whose body does not parse. *)
ReceiveGarbled ==
  /\ pc = "await"
  /\ inbox = Ok
  /\ AttemptFails(Garbled)
  /\ UNCHANGED <<wire, inbox, acted>>

(* The connection breaks, the round trip's bound passes or the context     *)
(* ends: the client stops waiting, whatever the server does with the       *)
(* request.                                                                *)
GiveUp ==
  /\ pc = "await"
  /\ AttemptFails(Transport)
  /\ UNCHANGED <<wire, inbox, acted>>

(* Mutant: the retried attempt is not counted. *)
Sleep_NotCounted ==
  /\ pc = "backoff"
  /\ pc' = "limiter"
  /\ UNCHANGED <<attempt, wire, inbox, lastErr, ctx, acted>>

(* sleepBeforeRetry: the backoff passes, or the context ends first. *)
Sleep ==
  /\ pc = "backoff"
  /\ \/ /\ pc' = "limiter"
        /\ attempt' = attempt + 1
        /\ UNCHANGED lastErr
     \/ /\ ctx # None
        /\ Fail(ctx)
        /\ UNCHANGED attempt
  /\ UNCHANGED <<wire, inbox, ctx, acted>>

EndContext ==
  /\ ctx = None
  /\ ctx' \in ContextErrors
  /\ UNCHANGED <<pc, attempt, wire, inbox, lastErr, acted>>

Step == Limited \/ Send \/ SendFails \/ Receive \/ ReceiveGarbled \/ GiveUp \/ Sleep

Next == Step \/ ServerHandles \/ Lose \/ EndContext

Spec == Init /\ [][Next]_vars


-----------------------------------------------------------------------------
(* What the caller is told: a nil error, an error that says the server     *)
(* refused or was never asked, or one that leaves it open.                 *)
Outcome ==
  CASE pc = "ok" -> "ok"
    [] pc = "failed" /\ lastErr.kind \in {"api", "canceled", "deadline"} -> "refused"
    [] pc = "failed" /\ lastErr.kind \notin {"api", "canceled", "deadline"} -> "unknown"
    [] OTHER -> "pending"

Remote == INSTANCE RemoteCall WITH acted <- (acted > 0), outcome <- Outcome

(* Do is a remote call: as long as an API error means the server did not   *)
(* act, an API error told to the caller is the truth about every attempt,  *)
(* earlier ones included.                                                  *)
IsRemoteCall == Remote!Spec

(* "classifying it SafeToRetry risks a duplicate create" (errors.go): as   *)
(* long as an answer that is safe to retry means the server did not act,   *)
(* the retries never make it act twice on one call, the requests still on  *)
(* their way counted in.                                                   *)
SafeIsUnacted == \A e \in ActedErrors : ClassifyError(e) # "SafeToRetry"

AtMostOnce == SafeIsUnacted => acted + Cardinality(wire) <= 1

(* Why: before an attempt is sent nothing has happened, because all the    *)
(* earlier ones were answered, and answered with an error that is safe to  *)
(* retry; while one is being awaited it alone can be on its way, and what  *)
(* is in the inbox tells whether the server acted.                         *)
OnlyThisAttempt ==
  /\ wire \subseteq {attempt}
  /\ acted <= 1
  /\ wire # {} => acted = 0 /\ pc \in {"await", "failed"}
  /\ pc \in {"limiter", "send", "backoff"} => acted = 0 /\ wire = {}
  /\ pc = "await" /\ inbox # None => wire = {}
  /\ pc = "await" /\ inbox \notin {None, Ok} \cup ActedErrors => acted = 0

(* A throttle is a blip, not a verdict: the caller sees it only when every *)
(* attempt has been used.                                                  *)
ThrottleIsRetried ==
  pc = "failed" /\ lastErr \in {Throttle429, ComputeThrottle} => attempt = MaxAttempts
=============================================================================
