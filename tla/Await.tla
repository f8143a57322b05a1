------------------------------- MODULE Await --------------------------------
(***************************************************************************)
(* awaitAs (internal/gcprov/await.go): one mutation that GCP has accepted, *)
(* followed until its operation is done, against an operation that runs at *)
(* its own pace, polls that fail, a deadline, and a caller who stops       *)
(* caring.                                                                 *)
(***************************************************************************)
EXTENDS ApiErrors

CONSTANT PollErrors     \* the errors a poll may come back with

ASSUME AwaitAssumption == PollErrors \subseteq ApiErrors \cup {Transport, Garbled}

(* How the type's mutation completes: at once ("none"), as a               *)
(* google.longrunning operation ("lro"), or as a compute-style one with    *)
(* ("wait") or without ("poll") a published wait method.                   *)
Kinds == {"none", "lro", "wait", "poll"}

VARIABLES
  kind,         \* how this mutation completes; never changes
  addressable,  \* the operation's answers carry what a poll url needs; never changes
  cause,        \* why the operation fails, if it does; never changes
  phase,        \* the operation in the cloud: "running", "succeeded" or "failed"
  view,         \* the operation as the last answer showed it
  stage,        \* "look" at the view, "sleep", "poll", or "returned"
  polled,       \* a poll has been made (attempt > 0)
  callerGone,   \* the caller's context has ended
  expired,      \* TimeoutSeconds have passed
  err           \* what await returns: Nil, or an error

mutation == <<kind, addressable, cause>>
awaitVars == <<mutation, phase, view, stage, polled, callerGone, expired, err>>

Nil == Failure("nil")

Phases == {"running", "succeeded", "failed"}

OperationErrors == {operationError(l, c) : l \in BOOLEAN, c \in Causes}

AwaitErrors == PollErrors \cup {Transport, Deadline, Garbled} \cup OperationErrors

AwaitTypeOK ==
  /\ kind \in Kinds
  /\ addressable \in BOOLEAN
  /\ cause \in Causes
  /\ phase \in Phases
  /\ view \in Phases
  /\ stage \in {"look", "sleep", "poll", "returned"}
  /\ polled \in BOOLEAN
  /\ callerGone \in BOOLEAN
  /\ expired \in BOOLEAN
  /\ err \in AwaitErrors \cup {Nil}

(* A synchronous mutation was answered with the resource itself; any other *)
(* with an operation, which may be done already.                           *)
AwaitInit ==
  /\ kind \in Kinds
  /\ addressable \in BOOLEAN
  /\ cause \in Causes
  /\ phase \in IF kind = "none" THEN {"succeeded"} ELSE Phases
  /\ view \in IF kind = "none" THEN {"succeeded"} ELSE {phase, "running"}
  /\ stage = "look"
  /\ polled = FALSE
  /\ callerGone = FALSE
  /\ expired = FALSE
  /\ err = Nil

Return(e) ==
  /\ stage' = "returned"
  /\ err' = e

(* Mutant: an operation that is done is taken for one that succeeded. *)
LookDone_ErrorIgnored ==
  /\ stage = "look"
  /\ view # "running"
  /\ Return(Nil)
  /\ UNCHANGED <<mutation, phase, view, polled, callerGone, expired>>

(* A mutation that returned the resource, or an answer that says done:     *)
(* what it says is returned, and nothing a poll would need is looked at.   *)
LookDone ==
  /\ stage = "look"
  /\ \/ view = "succeeded" /\ Return(Nil)
     \/ view = "failed" /\ kind = "lro" /\ Return(operationError(TRUE, cause))
     \/ view = "failed" /\ kind # "lro" /\ Return(operationError(FALSE, cause))
  /\ UNCHANGED <<mutation, phase, view, polled, callerGone, expired>>

(* Mutant: what a poll needs is asked for before the answer is looked at.  *)
LookUnaddressable_First ==
  /\ stage = "look"
  /\ kind # "none"
  /\ ~ addressable
  /\ Return(Garbled)
  /\ UNCHANGED <<mutation, phase, view, polled, callerGone, expired>>

(* Not done, and nothing to poll it by. *)
LookUnaddressable ==
  /\ stage = "look"
  /\ view = "running"
  /\ ~ addressable
  /\ Return(Garbled)
  /\ UNCHANGED <<mutation, phase, view, polled, callerGone, expired>>

(* Not done: the first call of a published wait goes out at once, every    *)
(* other poll after a backoff.                                             *)
LookAgain ==
  /\ stage = "look"
  /\ view = "running"
  /\ addressable
  /\ stage' = IF kind = "wait" /\ ~ polled THEN "poll" ELSE "sleep"
  /\ UNCHANGED <<mutation, phase, view, polled, callerGone, expired, err>>

(* Mutant: the wait listens to the caller's context. *)
SleepBackoff_Cancellable ==
  /\ stage = "sleep"
  /\ IF expired \/ callerGone
       THEN Return(Deadline)
       ELSE stage' = "poll" /\ UNCHANGED err
  /\ UNCHANGED <<mutation, phase, view, polled, callerGone, expired>>

(* sleepBackoff: the interval passes, or the type's timeout does.  A       *)
(* jittered interval of zero passes whatever the context says.             *)
SleepBackoff ==
  /\ stage = "sleep"
  /\ \/ stage' = "poll" /\ UNCHANGED err
     \/ expired /\ Return(Deadline)
  /\ UNCHANGED <<mutation, phase, view, polled, callerGone, expired>>

(* The poll is answered with the operation as it then is.  A published     *)
(* wait may come back before the operation is done as well.                *)
Poll ==
  /\ stage = "poll"
  /\ ~ expired
  /\ view' = phase
  /\ stage' = "look"
  /\ polled' = TRUE
  /\ UNCHANGED <<mutation, phase, callerGone, expired, err>>

(* Mutant: an operation the API no longer knows is taken for a done one.   *)
PollFails_NotFoundIsDone ==
  /\ stage = "poll"
  /\ \E e \in PollErrors : Return(IF isNotFound(e) THEN Nil ELSE e)
  /\ UNCHANGED <<mutation, phase, view, polled, callerGone, expired>>

(* The poll fails for good: Do has used up its attempts, or the error was  *)
(* not one it retries (a lost connection included).                        *)
PollFails ==
  /\ stage = "poll"
  /\ \E e \in PollErrors : Return(e)
  /\ UNCHANGED <<mutation, phase, view, polled, callerGone, expired>>

(* Mutant: a poll that the deadline ended is made again. *)
PollTimesOut_Again ==
  /\ stage = "poll"
  /\ expired
  /\ stage' = "look"
  /\ UNCHANGED <<mutation, phase, view, polled, callerGone, expired, err>>

(* The deadline ends a poll that is out, or one that goes out too late. *)
PollTimesOut ==
  /\ stage = "poll"
  /\ expired
  /\ Return(Transport)
  /\ UNCHANGED <<mutation, phase, view, polled, callerGone, expired>>

(* The operation ends, whoever is watching. *)
Finish ==
  /\ phase = "running"
  /\ phase' \in {"succeeded", "failed"}
  /\ UNCHANGED <<mutation, view, stage, polled, callerGone, expired, err>>

CallerGoes ==
  /\ ~ callerGone
  /\ callerGone' = TRUE
  /\ UNCHANGED <<mutation, phase, view, stage, polled, expired, err>>

Expire ==
  /\ kind # "none"
  /\ ~ expired
  /\ expired' = TRUE
  /\ UNCHANGED <<mutation, phase, view, stage, polled, callerGone, err>>

AwaitStep ==
  LookDone \/ LookUnaddressable \/ LookAgain \/ SleepBackoff \/ Poll \/ PollFails \/ PollTimesOut

AwaitNext == AwaitStep \/ Finish \/ CallerGoes \/ Expire

AwaitSpec == AwaitInit /\ [][AwaitNext]_awaitVars


-----------------------------------------------------------------------------
Reported ==
  CASE stage # "returned" -> "pending"
    [] stage = "returned" /\ err = Nil -> "ok"
    [] stage = "returned" /\ err \in OperationErrors -> "refused"
    [] OTHER -> "unknown"

Operation == INSTANCE RemoteCall WITH acted <- (phase = "succeeded"), outcome <- Reported

(* What await reports is what became of the operation, for every way a     *)
(* type's mutations complete: nil means it succeeded, GCP's own operation  *)
(* error means it failed and will not succeed, and any other error leaves  *)
(* it open -- the operation may still be running.                          *)
FollowsTheOperation == [][Operation!Next]_<<phase = "succeeded", Reported>>

(* "ONCE A MUTATION IS SENT, ABANDONING IT LEAVES SOMETHING THAT EXISTS    *)
(* AND IS TRACKED NOWHERE": the caller going away never ends the wait.     *)
(* Only the type's own timeout, a failed poll or an answer nothing can     *)
(* follow leaves a running operation behind.                               *)
NotAbandoned ==
  stage = "returned" /\ phase = "running" /\ addressable => expired \/ err \in PollErrors

(* An answer that is already done is taken for what it says, whatever it   *)
(* lacks for a poll (a done operation with no name, as Cloud Resource      *)
(* Manager answers).                                                       *)
DoneIsTaken ==
  stage = "returned" /\ view = "succeeded" => err = Nil
=============================================================================
