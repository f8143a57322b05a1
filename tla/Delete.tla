------------------------------- MODULE Delete -------------------------------
(***************************************************************************)
(* Provider.Delete (internal/gcprov/crud.go) and the host that calls it:   *)
(* the fields an API wants empty first, the DELETE, the wait for its       *)
(* operation, and the question confirmGone asks when that wait ends in a   *)
(* 404.  The host refreshes what it has on record, calls Delete, forgets   *)
(* the record when Delete returns nil and comes back another day when it   *)
(* returns an error.                                                       *)
(*                                                                         *)
(* Others use the same project: they attach things, and delete the         *)
(* resource.  Everything that may go wrong, they included, draws on one    *)
(* budget (trouble), so that what must happen once the trouble is over can *)
(* be stated.                                                              *)
(***************************************************************************)
EXTENDS ApiErrors

CONSTANTS
  Fields,       \* the type's ClearBeforeDelete
  Faults,       \* which of AllFaults may happen
  MaxTrouble    \* bound: how many of them do, over all runs

(* "lost"      a request's answer is lost (a clearing patch's, the DELETE's) *)
(* "fails"     an operation ends with an error                               *)
(* "untracked" an operation outlives its await, or a poll of it fails        *)
(* "expired"   a poll finds no operation any more                            *)
(* "unread"    the get of confirmGone fails                                  *)
(* "getless"   the type has no get method (read_via list_by_parent)          *)
(* "others"    somebody else changes or deletes the resource                 *)
(* "cancel"    the caller's context ends                                     *)
AllFaults == {"lost", "fails", "untracked", "expired", "unread", "getless", "others", "cancel"}

ASSUME DeleteAssumption ==
  /\ Faults \subseteq AllFaults
  /\ MaxTrouble \in Nat

VARIABLES
  config,     \* the type's facts, which never change; see Configs
  exists,     \* the resource exists
  attached,   \* the Fields that hold something
  stale,      \* the lock the host observed is no longer the resource's
  op,         \* the delete operation: "none", "running", "succeeded", "failed", "notfound"
  late,       \* a DELETE whose answer was lost is still on its way
  record,     \* what the host has: "kept" or "dropped"
  pc,         \* where the host, and Delete, are
  wasGone,    \* the resource was gone when Delete was called
  due,        \* Fields the observation holds something in, not yet cleared
  ctx,        \* the caller's context: "live" or "ended"
  err,        \* what Delete returned, or the error confirmGone is asked about
  trouble     \* faults left

cloud == <<exists, attached, stale, op, late>>
vars == <<config, cloud, record, pc, wasGone, due, ctx, err, trouble>>

Nil == Failure("nil")

(* async: the DELETE answers with an operation; longrunning: of that       *)
(* style, not compute's.  locked: a patch carries the observed lock.       *)
Configs ==
  {c \in [async : BOOLEAN, longrunning : BOOLEAN, locked : BOOLEAN, gettable : BOOLEAN] :
     "getless" \in Faults \/ c.gettable}

Errors ==
  {Canceled, Transport, NotFound, Stale, Precondition, Aborted}
    \cup {operationError(l, c) : l \in BOOLEAN, c \in Causes}

TypeOK ==
  /\ config \in Configs
  /\ exists \in BOOLEAN
  /\ attached \in SUBSET Fields
  /\ stale \in BOOLEAN
  /\ op \in {"none", "running", "succeeded", "failed", "notfound"}
  /\ late \in BOOLEAN
  /\ record \in {"kept", "dropped"}
  /\ pc \in {"idle", "start", "clear", "await", "confirm", "back"}
  /\ wasGone \in BOOLEAN
  /\ due \in SUBSET Fields
  /\ ctx \in {"live", "ended"}
  /\ err \in Errors \cup {Nil}
  /\ trouble \in 0..MaxTrouble

Init ==
  /\ config \in Configs
  /\ exists = TRUE
  /\ attached \in SUBSET Fields
  /\ stale = FALSE
  /\ op = "none"
  /\ late = FALSE
  /\ record = "kept"
  /\ pc = "idle"
  /\ wasGone = FALSE
  /\ due = {}
  /\ ctx = "live"
  /\ err = Nil
  /\ trouble = MaxTrouble

Return(e) == pc' = "back" /\ err' = e

Goto(there) == pc' = there /\ UNCHANGED err

(* A fault happens, and is paid for. *)
Trouble(fault) ==
  /\ fault \in Faults
  /\ trouble > 0
  /\ trouble' = trouble - 1

-----------------------------------------------------------------------------
(* GCP and its other users. *)

(* A DELETE arrives: what becomes of the resource and of the operation,    *)
(* and what is answered.                                                   *)
Handled(answer) ==
  CASE ~ exists -> answer = NotFound /\ UNCHANGED <<exists, op>>
    [] exists /\ attached # {} -> answer = Precondition /\ UNCHANGED <<exists, op>>
    [] exists /\ attached = {} /\ op = "running" -> answer = Aborted /\ UNCHANGED <<exists, op>>
    [] OTHER -> /\ answer = Nil
                /\ IF config.async THEN op' = "running" /\ UNCHANGED exists
                                   ELSE exists' = FALSE /\ UNCHANGED op

HandleLate ==
  /\ late
  /\ late' = FALSE
  /\ \E answer \in Errors \cup {Nil} : Handled(answer)
  /\ UNCHANGED <<config, attached, stale, record, pc, wasGone, due, ctx, err, trouble>>

Finish ==
  /\ op = "running"
  /\ \/ exists /\ op' = "succeeded" /\ exists' = FALSE /\ UNCHANGED trouble
     \/ ~ exists /\ op' = "notfound" /\ UNCHANGED <<exists, trouble>>
     \/ Trouble("fails") /\ op' = "failed" /\ UNCHANGED exists
  /\ UNCHANGED <<config, attached, stale, late, record, pc, wasGone, due, ctx, err>>

OthersChange ==
  /\ exists
  /\ Trouble("others")
  /\ attached' \in SUBSET Fields
  /\ stale' = TRUE
  /\ UNCHANGED <<config, exists, op, late, record, pc, wasGone, due, ctx, err>>

OthersDelete ==
  /\ exists
  /\ Trouble("others")
  /\ exists' = FALSE
  /\ UNCHANGED <<config, attached, stale, op, late, record, pc, wasGone, due, ctx, err>>

CancelCaller ==
  /\ ctx = "live"
  /\ pc # "idle"
  /\ Trouble("cancel")
  /\ ctx' = "ended"
  /\ UNCHANGED <<config, cloud, record, pc, wasGone, due, err>>

-----------------------------------------------------------------------------
(* The host: a destroy starts with a refresh, and ends with the record     *)
(* dropped or kept.                                                        *)
Refresh ==
  /\ pc = "idle"
  /\ record = "kept"
  /\ IF exists THEN Goto("start") /\ UNCHANGED record
               ELSE record' = "dropped" /\ UNCHANGED <<pc, err>>
  /\ due' = attached
  /\ stale' = FALSE
  /\ ctx' = "live"
  /\ UNCHANGED <<config, exists, attached, op, late, wasGone, trouble>>

Conclude ==
  /\ pc = "back"
  /\ record' = IF err = Nil THEN "dropped" ELSE "kept"
  /\ Goto("idle")
  /\ UNCHANGED <<config, cloud, wasGone, due, ctx, trouble>>

-----------------------------------------------------------------------------
(* Delete. *)

(* "last chance to stop before anything is destroyed" *)
Start ==
  /\ pc = "start"
  /\ IF ctx = "ended" THEN Return(Canceled) ELSE Goto("clear")
  /\ wasGone' = ~ exists
  /\ UNCHANGED <<config, cloud, record, due, ctx, trouble>>

(* clearBeforeDelete patches one field to null and waits: the resource is  *)
(* not there, or the lock in the observation is not its any more, or the   *)
(* field is cleared and the lock has changed.                              *)
Clear(f) ==
  /\ pc = "clear"
  /\ f \in due
  /\ ctx = "live"
  /\ \/ /\ ~ exists
        /\ Return(NotFound)
        /\ UNCHANGED <<attached, stale, due>>
     \/ /\ exists
        /\ config.locked /\ stale
        /\ Return(Stale)
        /\ UNCHANGED <<attached, stale, due>>
     \/ /\ exists
        /\ ~ (config.locked /\ stale)
        /\ attached' = attached \ {f}
        /\ stale' = TRUE
        /\ due' = due \ {f}
        /\ UNCHANGED <<pc, err>>
  /\ UNCHANGED <<config, exists, op, late, record, wasGone, ctx, trouble>>

(* The patch fails, or its operation does, whether it took effect or not;  *)
(* it always fails once the caller has gone.                               *)
ClearFails(f) ==
  /\ pc = "clear"
  /\ f \in due
  /\ \/ Trouble("lost") \/ Trouble("fails") \/ Trouble("untracked")
     \/ ctx = "ended" /\ UNCHANGED trouble
  /\ Return(Transport)
  /\ \/ UNCHANGED <<attached, stale>>
     \/ exists /\ ~ (config.locked /\ stale) /\ attached' = attached \ {f} /\ stale' = TRUE
  /\ UNCHANGED <<config, exists, op, late, record, wasGone, due, ctx>>

(* Mutant: a 404 of the DELETE is an error like any other. *)
SendDelete_NotFoundIsError ==
  /\ pc = "clear"
  /\ due = {}
  /\ ctx = "live"
  /\ \E answer \in Errors \cup {Nil} :
       /\ Handled(answer)
       /\ IF answer = Nil /\ config.async THEN Goto("await") ELSE Return(answer)
  /\ UNCHANGED <<config, attached, stale, late, record, wasGone, due, ctx, trouble>>

(* Mutant: the DELETE goes out whatever is still attached. *)
SendDelete_BeforeClearing ==
  /\ pc = "clear"
  /\ ctx = "live"
  /\ \E answer \in Errors \cup {Nil} :
       /\ Handled(answer)
       /\ IF answer = Nil /\ config.async THEN Goto("await")
          ELSE Return(IF isNotFound(answer) THEN Nil ELSE answer)
  /\ UNCHANGED <<config, attached, stale, late, record, wasGone, due, ctx, trouble>>

(* The DELETE, answered.  A 404 meets the goal; a synchronous delete is    *)
(* done.                                                                   *)
SendDelete ==
  /\ pc = "clear"
  /\ due = {}
  /\ ctx = "live"
  /\ \E answer \in Errors \cup {Nil} :
       /\ Handled(answer)
       /\ IF answer = Nil /\ config.async THEN Goto("await")
          ELSE Return(IF isNotFound(answer) THEN Nil ELSE answer)
  /\ UNCHANGED <<config, attached, stale, late, record, wasGone, due, ctx, trouble>>

(* The DELETE whose answer is lost, by the network or because the caller   *)
(* has gone: it may arrive yet.                                            *)
DeleteLost ==
  /\ pc = "clear"
  /\ due = {}
  /\ Trouble("lost") \/ (ctx = "ended" /\ UNCHANGED trouble)
  /\ late' = TRUE
  /\ Return(Transport)
  /\ UNCHANGED <<config, exists, attached, stale, op, record, wasGone, due, ctx>>

(* Mutant: a 404 while waiting is taken for the resource's. *)
AwaitFails_NotFoundIsGone(e) ==
  IF isNotFound(e) THEN Return(Nil) ELSE Return(e)

(* The wait failed: a 404 is ambiguous, so confirmGone asks. *)
AwaitFails(e) ==
  IF isNotFound(e) THEN pc' = "confirm" /\ err' = e ELSE Return(e)

Await ==
  /\ pc = "await"
  /\ \/ op = "succeeded" /\ Return(Nil) /\ UNCHANGED trouble
     \/ op = "failed" /\ AwaitFails(operationError(config.longrunning, "FAILED_PRECONDITION"))
          /\ UNCHANGED trouble
     \/ op = "notfound" /\ AwaitFails(operationError(config.longrunning, "NOT_FOUND"))
          /\ UNCHANGED trouble
     \/ Trouble("expired") /\ AwaitFails(NotFound)
     \/ Trouble("untracked") /\ AwaitFails(Transport)
  /\ UNCHANGED <<config, cloud, record, wasGone, due, ctx>>

(* confirmGone: a get that answers 404 is success, anything else gives the *)
(* original error.  The item url of a type without a get method answers    *)
(* 404 whether the resource exists or not.                                 *)
ConfirmGone ==
  /\ pc = "confirm"
  /\ \/ exists /\ config.gettable /\ Return(err) /\ UNCHANGED trouble
     \/ (~ exists \/ ~ config.gettable) /\ Return(Nil) /\ UNCHANGED trouble
     \/ Trouble("unread") /\ Return(err)
  /\ UNCHANGED <<config, cloud, record, wasGone, due, ctx>>

Running ==
  \/ Start \/ SendDelete \/ DeleteLost \/ Await \/ ConfirmGone
  \/ \E f \in Fields : Clear(f) \/ ClearFails(f)

Next ==
  \/ Refresh \/ Conclude \/ Running
  \/ HandleLate \/ Finish \/ OthersChange \/ OthersDelete \/ CancelCaller

Spec == Init /\ [][Next]_vars

(* The goroutine runs, GCP ends its operations, and the user comes back to *)
(* a destroy that failed.                                                  *)
FairSpec ==
  /\ Spec
  /\ WF_vars(Running \/ Conclude)
  /\ WF_vars(Refresh)
  /\ WF_vars(Finish)

-----------------------------------------------------------------------------
(* "tells infrena a delete happened that did not, and infrena then drops   *)
(* the ... record that is the only handle": no record is dropped, after    *)
(* any number of destroys and whatever went wrong in them, while the       *)
(* resource exists.                                                        *)
NothingForgotten ==
  /\ record = "dropped" => ~ exists
  /\ pc = "back" /\ err = Nil => ~ exists

(* "A 404 -- before or after the delete call -- means the goal is already  *)
(* met: destroy must converge": Delete never returns one for a resource    *)
(* that was gone when it was called, once it has nothing left to clear (a  *)
(* 404 of a clearing patch is returned).                                   *)
NotFoundIsSuccess == pc = "back" /\ wasGone /\ due = {} => ~ isNotFound(err)

(* "destroy must converge": when the trouble is over, coming back to it    *)
(* gets rid of the resource and of its record, several locked fields to    *)
(* clear and a wrong lock at the first attempt notwithstanding.            *)
DestroyConverges == <>[](record = "dropped" /\ ~ exists)
=============================================================================
