------------------------------- MODULE Update -------------------------------
(***************************************************************************)
(* Provider.Update (internal/gcprov/patch.go, setters.go) and the host     *)
(* that calls it: the one patch, the whole-resource PUT or the patches one *)
(* field at a time, then the setters, under the optimistic locks of a      *)
(* resource that others change as well.  The host observes the resource,   *)
(* calls Update with what differs from configuration, and comes back with  *)
(* what still differs.                                                     *)
(*                                                                         *)
(* A request of Update and the wait for its operation are one step here:   *)
(* Client.tla and Await.tla are about what happens inside.                 *)
(***************************************************************************)
EXTENDS Integers, FiniteSets

CONSTANTS
  Fields,         \* top-level fields configuration sets that a patch can change
  Setters,        \* setter methods whose fields configuration sets
  LockedSetters,  \* those whose body carries a lock of their own (labelFingerprint)
  Styles,         \* a subset of AllStyles
  Faults,         \* which of AllFaults may happen
  MaxTrouble      \* bound: how many of them do, over all runs

(* How the type is updated: not at all but by its setters, by a patch, by  *)
(* a patch per field (PatchOneField), by a PUT of the whole resource whose *)
(* answer carries a lock ("put", an etag) or does not ("bareput").         *)
AllStyles == {"none", "patch", "onefield", "put", "bareput"}

(* "lost"   a mutation's answer is lost: it may have taken effect            *)
(* "fails"  a mutation's operation fails, or is lost track of                *)
(* "unread" a get fails (the fresh lock's, the PUT's or the readback's)      *)
(* "others" somebody else changes or deletes the resource                    *)
(* "cancel" the caller's context ends                                        *)
AllFaults == {"lost", "fails", "unread", "others", "cancel"}

ASSUME UpdateAssumption ==
  /\ IsFiniteSet(Fields)
  /\ LockedSetters \subseteq Setters
  /\ Fields \cap Setters = {}
  /\ {"observed", "fresh"} \cap Setters = {}
  /\ Styles \subseteq AllStyles
  /\ Faults \subseteq AllFaults
  /\ MaxTrouble \in Nat

VARIABLES
  config,     \* the type: its style, and whether it has a LockField
  exists,     \* the resource exists
  applied,    \* the Fields and Setters whose values are configuration's
  foreign,    \* what others wrote elsewhere in the resource: "none", "kept", "lost"
  stale,      \* the locks read and no longer the resource's, see Locks
  pc,         \* where the host, and Update, are
  mask,       \* Fields found changed, and not yet sent
  setters,    \* Setters found changed, and not yet called
  body,       \* a PUT's body holds what others wrote
  patched,    \* something has been sent (a failure may no longer be returned)
  failure,    \* awaitErr: something sent failed
  readback,   \* how the readback ended: "none", "found", "absent", "failed"
  result,     \* "none", "current", "state" or "error"
  ctx,        \* the caller's context: "live" or "ended"
  changed,    \* this call has changed the resource
  refusals,   \* requests of this call refused over an observed lock
  unanswered, \* a request of this call got no answer
  trouble     \* faults left

cloud == <<exists, applied, foreign, stale>>
call == <<mask, setters, body, patched, failure, readback, result, ctx, changed, refusals, unanswered>>
vars == <<config, cloud, pc, call, trouble>>

(* The lock the host observed, the one read afresh during the call, and    *)
(* each locked setter's own, which the host observed as well.              *)
Locks == {"observed", "fresh"} \cup LockedSetters

TypeOK ==
  /\ config \in [style : Styles, locked : BOOLEAN]
  /\ exists \in BOOLEAN
  /\ applied \in SUBSET (Fields \cup Setters)
  /\ foreign \in {"none", "kept", "lost"}
  /\ stale \in SUBSET Locks
  /\ pc \in {"idle", "start", "patch", "one", "onesend", "setters", "call", "read",
             "done"}
  /\ mask \in SUBSET Fields
  /\ setters \in SUBSET Setters
  /\ body \in BOOLEAN
  /\ patched \in BOOLEAN
  /\ failure \in BOOLEAN
  /\ readback \in {"none", "found", "absent", "failed"}
  /\ result \in {"none", "current", "state", "error"}
  /\ ctx \in {"live", "ended"}
  /\ changed \in BOOLEAN
  /\ refusals \in Nat
  /\ unanswered \in BOOLEAN
  /\ trouble \in 0..MaxTrouble

Init ==
  /\ config \in [style : Styles, locked : BOOLEAN]
  /\ exists = TRUE
  /\ applied \in SUBSET (Fields \cup Setters)
  /\ foreign = "none"
  /\ stale = {}
  /\ pc = "idle"
  /\ mask = {} /\ setters = {}
  /\ body = FALSE
  /\ patched = FALSE /\ failure = FALSE
  /\ readback = "none" /\ result = "none"
  /\ ctx = "live"
  /\ changed = FALSE
  /\ refusals = 0
  /\ unanswered = FALSE
  /\ trouble = MaxTrouble

Return(r) == pc' = "done" /\ result' = r

Goto(there) == pc' = there /\ UNCHANGED result

(* A fault happens, and is paid for. *)
Trouble(fault) ==
  /\ fault \in Faults
  /\ trouble > 0
  /\ trouble' = trouble - 1

-----------------------------------------------------------------------------
(* GCP and its other users. *)

OthersChange ==
  /\ exists
  /\ Trouble("others")
  /\ applied' \in SUBSET applied
  /\ foreign' = "kept"
  /\ stale' = Locks
  /\ UNCHANGED <<config, exists, pc, call>>

OthersDelete ==
  /\ exists
  /\ Trouble("others")
  /\ exists' = FALSE
  /\ UNCHANGED <<config, applied, foreign, stale, pc, call>>

CancelCaller ==
  /\ ctx = "live"
  /\ pc # "idle"
  /\ Trouble("cancel")
  /\ ctx' = "ended"
  /\ UNCHANGED <<config, cloud, pc, mask, setters, body, patched, failure, readback, result, changed,
                 refusals, unanswered>>

(* A mutation takes effect: the new values are in, and every lock on what  *)
(* it changed has moved on.                                                *)
TakesEffect(what, locks) ==
  /\ applied' = applied \cup what
  /\ stale' = stale \cup locks
  /\ changed' = TRUE

NoEffect == UNCHANGED <<applied, foreign, stale, changed>>

-----------------------------------------------------------------------------
(* The host. *)

(* A plan: the resource is observed, and Update called with the difference *)
(* (BuildMask, changedSetters).                                            *)
Observe ==
  /\ pc = "idle"
  /\ exists
  /\ mask' = Fields \ applied
  /\ setters' = Setters \ applied
  /\ stale' = {}
  /\ pc' = "start"
  /\ body' = FALSE /\ patched' = FALSE /\ failure' = FALSE
  /\ readback' = "none" /\ result' = "none"
  /\ ctx' = "live" /\ changed' = FALSE /\ refusals' = 0 /\ unanswered' = FALSE
  /\ UNCHANGED <<config, exists, applied, foreign, trouble>>

Conclude ==
  /\ pc = "done"
  /\ pc' = "idle"
  /\ UNCHANGED <<config, cloud, call, trouble>>

-----------------------------------------------------------------------------
(* Update. *)

IsPut == config.style \in {"put", "bareput"}

NothingChanged ==
  /\ pc = "start"
  /\ mask = {} /\ setters = {}
  /\ Return("current")
  /\ UNCHANGED <<config, cloud, mask, setters, body, patched, failure, readback, ctx, changed,
                 refusals, unanswered, trouble>>

(* Fields only a replacement could change, or a caller that is gone, or a  *)
(* PUT that cannot read what it is to replace: nothing has been sent.      *)
Refuse ==
  /\ pc = "start"
  /\ mask # {}
  /\ \/ config.style = "none" /\ UNCHANGED trouble
     \/ config.style # "none" /\ ctx = "ended" /\ UNCHANGED trouble
     \/ IsPut /\ ~ exists /\ UNCHANGED trouble
     \/ IsPut /\ Trouble("unread")
  /\ Return("error")
  /\ UNCHANGED <<config, cloud, mask, setters, body, patched, failure, readback, ctx, changed,
                 refusals, unanswered>>

(* Mutant: the API's one-field rule is forgotten. *)
Dispatch_AllAtOnce == IF mask = {} THEN "setters" ELSE "patch"

(* Which way the update goes. *)
Dispatch ==
  CASE mask = {} -> "setters"
    [] config.style = "onefield" /\ Cardinality(mask) > 1 -> "one"
    [] OTHER -> "patch"

(* Mutant: the PUT's body is the observation with the changes written in.  *)
Begin_FromObservation ==
  /\ pc = "start"
  /\ mask \cup setters # {}
  /\ mask # {} => config.style # "none" /\ ctx = "live" /\ (IsPut => exists)
  /\ Goto(Dispatch)
  /\ stale' = stale \ {"fresh"}
  /\ UNCHANGED <<config, exists, applied, foreign, mask, setters, body, patched, failure, readback,
                 ctx, changed, refusals, unanswered, trouble>>

(* A PUT starts from the resource as Google holds it now (readForPut), its *)
(* lock included; everything else from the observation.                    *)
Begin ==
  /\ pc = "start"
  /\ mask \cup setters # {}
  /\ mask # {} => config.style # "none" /\ ctx = "live" /\ (IsPut => exists)
  /\ Goto(Dispatch)
  /\ body' = (mask # {} /\ IsPut /\ foreign = "kept")
  /\ stale' = stale \ {"fresh"}
  /\ UNCHANGED <<config, exists, applied, foreign, mask, setters, patched, failure, readback,
                 ctx, changed, refusals, unanswered, trouble>>

(* Which lock the patch carries, if any. *)
PatchLock ==
  CASE config.style = "put" -> {"fresh"}
    [] config.style \in {"patch", "onefield"} /\ config.locked -> {"observed"}
    [] OTHER -> {}

(* GCP takes the whole patch, or none of it. *)
Accepted(fields, lock) ==
  /\ exists
  /\ lock \cap stale = {}
  /\ config.style = "onefield" => Cardinality(fields) = 1

(* Nothing happens; a lock of the observation may be why. *)
Refused(lock) ==
  /\ NoEffect
  /\ refusals' = IF exists /\ (lock \cap stale) \ {"fresh"} # {}
                    THEN refusals + 1 ELSE refusals
  /\ UNCHANGED unanswered

(* A patch or PUT takes effect.  A PUT replaces what others wrote by what  *)
(* was read.                                                               *)
Written(fields) ==
  /\ TakesEffect(fields, {"observed", "fresh"})
  /\ foreign' = IF IsPut /\ ~ body /\ foreign = "kept" THEN "lost" ELSE foreign

(* The one patch (or PUT), refused or lost: an error. *)
PatchFails ==
  /\ pc = "patch"
  /\ Return("error")
  /\ \/ ~ Accepted(mask, PatchLock) /\ Refused(PatchLock) /\ UNCHANGED trouble
     \/ /\ Trouble("lost") \/ (ctx = "ended" /\ UNCHANGED trouble)
        /\ unanswered' = TRUE /\ UNCHANGED refusals
        /\ NoEffect \/ (Accepted(mask, PatchLock) /\ Written(mask))
  /\ UNCHANGED <<config, exists, mask, setters, body, patched, failure, readback, ctx>>

(* The one patch, accepted and awaited: from here on errors are reported,  *)
(* not returned.                                                           *)
Patch ==
  /\ pc = "patch"
  /\ Accepted(mask, PatchLock)
  /\ \/ Written(mask) /\ failure' = FALSE /\ UNCHANGED trouble
     \/ Trouble("fails") /\ (NoEffect \/ Written(mask)) /\ failure' = TRUE
  /\ patched' = TRUE
  /\ mask' = {}
  /\ Goto("setters")
  /\ UNCHANGED <<config, exists, setters, body, readback, ctx, refusals, unanswered>>

OneLock == IF ~ config.locked THEN {} ELSE IF patched THEN {"fresh"} ELSE {"observed"}

(* Mutant: no fresh lock between two patches. *)
NextField_SameLock ==
  /\ pc = "one"
  /\ Goto(IF mask = {} THEN "setters" ELSE "onesend")
  /\ UNCHANGED <<config, cloud, mask, setters, body, patched, failure, readback, ctx, changed,
                 refusals, unanswered, trouble>>

(* One field at a time: every patch after the first reads the lock afresh, *)
(* and the first failure ends them all.                                    *)
NextField ==
  /\ pc = "one"
  /\ \/ /\ mask = {} /\ Goto("setters") /\ UNCHANGED <<stale, failure, trouble>>
     \/ /\ mask # {} /\ ~ (patched /\ config.locked)
        /\ Goto("onesend") /\ UNCHANGED <<stale, failure, trouble>>
     \/ /\ mask # {} /\ patched /\ config.locked /\ exists
        /\ Goto("onesend") /\ stale' = stale \ {"fresh"} /\ UNCHANGED <<failure, trouble>>
     \/ /\ mask # {} /\ patched /\ config.locked
        /\ Trouble("unread") \/ (~ exists /\ UNCHANGED trouble)
        /\ Goto("setters") /\ failure' = TRUE /\ UNCHANGED stale
  /\ UNCHANGED <<config, exists, applied, foreign, mask, setters, body, patched, readback, ctx,
                 changed, refusals, unanswered>>

(* A one-field patch that is refused or lost is an error only if it was    *)
(* the first.                                                              *)
SendFieldFails(f) ==
  /\ pc = "onesend"
  /\ f \in mask
  /\ \/ ~ Accepted({f}, OneLock) /\ Refused(OneLock) /\ UNCHANGED trouble
     \/ /\ Trouble("lost")
        /\ unanswered' = TRUE /\ UNCHANGED refusals
        /\ NoEffect \/ (Accepted({f}, OneLock) /\ Written({f}))
  /\ IF patched THEN Goto("setters") /\ failure' = TRUE
                ELSE Return("error") /\ UNCHANGED failure
  /\ UNCHANGED <<config, exists, mask, setters, body, patched, readback, ctx>>

SendField(f) ==
  /\ pc = "onesend"
  /\ f \in mask
  /\ Accepted({f}, OneLock)
  /\ patched' = TRUE
  /\ mask' = mask \ {f}
  /\ \/ Written({f}) /\ Goto("one") /\ UNCHANGED <<failure, trouble>>
     \/ Trouble("fails") /\ (NoEffect \/ Written({f})) /\ Goto("setters") /\ failure' = TRUE
  /\ UNCHANGED <<config, exists, setters, body, readback, ctx, refusals, unanswered>>

(* updateThroughSetters, before each setter: none is left, or the caller   *)
(* is gone, which is an error as long as nothing has been sent.            *)
NextSetter ==
  /\ pc = "setters"
  /\ CASE setters = {} -> Goto("read")
       [] setters # {} /\ ctx = "live" -> Goto("call")
       [] setters # {} /\ ctx = "ended" /\ patched -> Goto("read")
       [] OTHER -> Return("error")
  /\ UNCHANGED <<config, cloud, mask, setters, body, patched, failure, readback, ctx, changed,
                 refusals, unanswered, trouble>>

SetterLock(s) == {s} \cap LockedSetters

SetterAccepted(s) == exists /\ SetterLock(s) \cap stale = {}

(* The setter is applied: the resource's own lock moves on with it. *)
Set(s) ==
  /\ TakesEffect({s}, {"observed", "fresh"} \cup SetterLock(s))
  /\ UNCHANGED foreign

(* Mutant: a failed setter does not end the loop. *)
CallSetterFails_GoOn(s) ==
  /\ pc = "call"
  /\ s \in setters
  /\ \/ ~ SetterAccepted(s) /\ Refused(SetterLock(s)) /\ UNCHANGED trouble
     \/ /\ Trouble("lost") \/ (ctx = "ended" /\ UNCHANGED trouble)
        /\ unanswered' = TRUE /\ UNCHANGED refusals
        /\ NoEffect \/ (SetterAccepted(s) /\ Set(s))
  /\ IF patched THEN Goto("setters") /\ failure' = TRUE
                ELSE Return("error") /\ UNCHANGED failure
  /\ setters' = setters \ {s}
  /\ UNCHANGED <<config, exists, mask, body, patched, readback, ctx>>

(* A setter that is refused or lost (sent = FALSE) is an error as long as  *)
(* nothing else was sent; it ends the loop in any case.                    *)
CallSetterFails(s) ==
  /\ pc = "call"
  /\ s \in setters
  /\ \/ ~ SetterAccepted(s) /\ Refused(SetterLock(s)) /\ UNCHANGED trouble
     \/ /\ Trouble("lost") \/ (ctx = "ended" /\ UNCHANGED trouble)
        /\ unanswered' = TRUE /\ UNCHANGED refusals
        /\ NoEffect \/ (SetterAccepted(s) /\ Set(s))
  /\ IF patched THEN Goto("read") /\ failure' = TRUE
                ELSE Return("error") /\ UNCHANGED failure
  /\ UNCHANGED <<config, exists, mask, setters, body, patched, readback, ctx>>

(* Mutant: only the patch counts as sent. *)
CallSetter_NotCounted(s) ==
  /\ pc = "call"
  /\ s \in setters
  /\ SetterAccepted(s)
  /\ setters' = setters \ {s}
  /\ \/ Set(s) /\ Goto("setters") /\ UNCHANGED <<failure, trouble>>
     \/ Trouble("fails") /\ (NoEffect \/ Set(s)) /\ Goto("read") /\ failure' = TRUE
  /\ UNCHANGED <<config, exists, mask, body, patched, readback, ctx, refusals, unanswered>>

CallSetter(s) ==
  /\ pc = "call"
  /\ s \in setters
  /\ SetterAccepted(s)
  /\ patched' = TRUE
  /\ setters' = setters \ {s}
  /\ \/ Set(s) /\ Goto("setters") /\ UNCHANGED <<failure, trouble>>
     \/ Trouble("fails") /\ (NoEffect \/ Set(s)) /\ Goto("read") /\ failure' = TRUE
  /\ UNCHANGED <<config, exists, mask, body, readback, ctx, refusals, unanswered>>

(* Mutant: "believed absent" is passed on as Read returns it. *)
ReadBack_NilNil ==
  /\ pc = "read"
  /\ \/ exists /\ readback' = "found" /\ Return("state") /\ UNCHANGED trouble
     \/ ~ exists /\ readback' = "absent" /\ Return("nil") /\ UNCHANGED trouble
     \/ Trouble("unread") /\ readback' = "failed" /\ Return("error")
  /\ UNCHANGED <<config, cloud, mask, setters, body, patched, failure, ctx, changed, refusals, unanswered>>

(* readAfterPatch: the state as it is now, or -- there is none -- an error *)
(* (the failure, the readback's own, or "no longer there"), never nothing. *)
ReadBack ==
  /\ pc = "read"
  /\ \/ exists /\ readback' = "found" /\ Return("state") /\ UNCHANGED trouble
     \/ ~ exists /\ readback' = "absent" /\ Return("error") /\ UNCHANGED trouble
     \/ Trouble("unread") /\ readback' = "failed" /\ Return("error")
  /\ UNCHANGED <<config, cloud, mask, setters, body, patched, failure, ctx, changed, refusals, unanswered>>

Running ==
  \/ NothingChanged \/ Refuse \/ Begin \/ PatchFails \/ Patch \/ NextField
  \/ \E f \in Fields : SendFieldFails(f) \/ SendField(f)
  \/ NextSetter
  \/ \E s \in Setters : CallSetterFails(s) \/ CallSetter(s)
  \/ ReadBack

Next == Observe \/ Conclude \/ Running \/ OthersChange \/ OthersDelete \/ CancelCaller

Spec == Init /\ [][Next]_vars

(* The goroutine runs, and the user comes back to what still differs. *)
FairSpec ==
  /\ Spec
  /\ WF_vars(Running)
  /\ WF_vars(Observe \/ Conclude)

-----------------------------------------------------------------------------
(* "until something has been sent, a failure is still 'nothing happened'   *)
(* and may be returned; after, it is reported and the truthful read is     *)
(* returned instead": an error returned without a readback follows a call  *)
(* that changed nothing -- or one of its requests was never answered.      *)
EarlyErrorChangedNothing ==
  result = "error" /\ readback = "none" /\ ~ unanswered => ~ changed

(* "The first failure stops the rest, so a lock copied from the            *)
(* observation is never sent stale twice."                                 *)
NeverStaleTwice == refusals <= 1

(* "Whatever configuration does not mention keeps Google's value": what    *)
(* others wrote elsewhere in the resource survives Update.                 *)
KeepsOthers == foreign # "lost"

(* As long as nothing goes wrong, one call does it all: no request of it   *)
(* is refused over a lock that an earlier request of the same call moved   *)
(* on, and no field or setter is forgotten on the way.                     *)
OneCallSuffices ==
  pc = "done" /\ trouble = MaxTrouble /\ config.style # "none" =>
    Fields \cup Setters \subseteq applied

(* A plan that keeps being applied converges: when the trouble is over,    *)
(* the resource is what configuration asks for, or is gone, or the type is *)
(* one that only a replacement can change.                                 *)
UpdateConverges ==
  config.style # "none" ~> [](Fields \cup Setters \subseteq applied \/ ~ exists)
=============================================================================
