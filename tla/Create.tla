------------------------------- MODULE Create -------------------------------
(***************************************************************************)
(* Provider.Create (internal/gcprov/crud.go) against GCP: the POST, the    *)
(* wait for its operation, the readback of an eventually consistent API,   *)
(* and the setters an insert leaves out.  The host drops the result of a   *)
(* create that returns an error, so the function's rule is that it returns *)
(* one only when nothing was made.                                         *)
(*                                                                         *)
(* Client.Do and await are used here as RemoteCall specifies them and      *)
(* Client.tla and Await.tla implement it: a call comes back "ok",          *)
(* "refused", or -- only when Faults allows it -- "unknown".  Faults names *)
(* what the environment of this run may do wrong.                          *)
(***************************************************************************)
EXTENDS Integers

CONSTANTS
  Faults,       \* a subset of AllFaults
  MaxSetters    \* bound: setters due after one create

(* "cancel"    the caller's context ends while the POST is out             *)
(* "lost"      the POST's answer is lost, or is an error although GCP acts *)
(* "untracked" the operation outlives its await, or a poll of it fails     *)
(* "residue"   an operation that fails leaves a resource behind            *)
(* "unread"    the readback fails with something other than a 404          *)
(* "nameless"  neither the operation nor the attributes identify what was  *)
(*             made                                                        *)
(* "taken"     the name was in use before                                  *)
AllFaults == {"cancel", "lost", "untracked", "residue", "unread", "nameless", "taken"}

ASSUME CreateAssumption ==
  /\ Faults \subseteq AllFaults
  /\ MaxSetters \in Nat

(* What a finished operation, or the answer of a synchronous create, names *)
(* (awaitComputeOperation's targetLink, a response's name or selfLink):    *)
(* the resource, something inside of something in the collection the POST  *)
(* went to, something outside of it, a url that does not reduce to an id,  *)
(* or nothing.                                                             *)
Targets == {"resource", "deeper", "elsewhere", "irreducible", "nothing"}

VARIABLES
  config,     \* the type and its API, which never change; see Configs
  request,    \* the POST: "unsent", "out", "handled"
  answer,     \* what came back to it: "none", "operation", "refused"
  op,         \* the creation in the cloud: "none", "running", "succeeded", "failed"
  made,       \* this create's resource exists
  visible,    \* a get or a list of the name finds something
  ctx,        \* the caller's context: "live" or "ended"
  pc,         \* where Create is
  target,     \* what await returned as the resource, a member of Targets
  id,         \* the provider id Create computed: what it names, or "none"
  postErr,    \* what the POST failed with: "none", "refused", "unknown"
  awaitErr,   \* what await failed with: "none", "operation", "unknown"
  readback,   \* how a readback without a state ended: "none", "absent", "failed"
  patience,   \* notFoundPatience has not passed
  due,        \* setters still to be called
  result      \* "pending", "state" or "error"

cloud == <<request, answer, op, made, visible>>
local == <<target, id, postErr, awaitErr, readback, patience, due>>
vars == <<config, cloud, ctx, pc, local, result>>

Bools(fault) == IF fault \in Faults THEN BOOLEAN ELSE {FALSE}

(* creatable: UnresolvedCreatePlaceholders is empty and the url expands.   *)
(* async: the create answers with an operation.  byName: the attributes    *)
(* alone identify the resource (ProviderID with no body).  flat: the self  *)
(* link is one segment below the collection (collectionMatchesSelfLink).   *)
(* listed: read_via is list_by_parent.  taken: another resource has the    *)
(* name already.                                                           *)
Configs ==
  {c \in [creatable : BOOLEAN, async : BOOLEAN, byName : BOOLEAN, flat : BOOLEAN,
          listed : BOOLEAN, names : Targets, taken : Bools("taken")] :
     "nameless" \in Faults \/ c.byName \/ c.names = "resource"}

TypeOK ==
  /\ config \in Configs
  /\ request \in {"unsent", "out", "handled"}
  /\ answer \in {"none", "operation", "refused"}
  /\ op \in {"none", "running", "succeeded", "failed"}
  /\ made \in BOOLEAN
  /\ visible \in BOOLEAN
  /\ ctx \in {"live", "ended"}
  /\ pc \in {"start", "post", "await", "identify", "read", "sleep", "resolve", "setters",
             "refresh", "done"}
  /\ target \in Targets
  /\ id \in {"none", "resource", "deeper", "elsewhere"}
  /\ postErr \in {"none", "refused", "unknown"}
  /\ awaitErr \in {"none", "operation", "unknown"}
  /\ readback \in {"none", "absent", "failed"}
  /\ patience \in BOOLEAN
  /\ due \in 0..MaxSetters
  /\ result \in {"pending", "state", "error"}

Init ==
  /\ config \in Configs
  /\ request = "unsent"
  /\ answer = "none"
  /\ op = "none"
  /\ made = FALSE
  /\ visible = config.taken
  /\ ctx = "live"
  /\ pc = "start"
  /\ target = "nothing"
  /\ id = "none"
  /\ postErr = "none"
  /\ awaitErr = "none"
  /\ readback = "none"
  /\ patience = TRUE
  /\ due = 0
  /\ result = "pending"

Return(r) == pc' = "done" /\ result' = r

-----------------------------------------------------------------------------
(* GCP. *)

(* The POST arrives: it is refused, or the creation starts, or -- a        *)
(* synchronous type -- is done.  A name in use is refused at once, or by   *)
(* the operation.                                                          *)
Handle ==
  /\ request = "out"
  /\ request' = "handled"
  /\ \/ answer' = "refused" /\ UNCHANGED <<op, made>>
     \/ /\ config.async
        /\ answer' = "operation"
        /\ op' = "running"
        /\ UNCHANGED made
     \/ /\ ~ config.async
        /\ ~ config.taken
        /\ answer' = "operation"
        /\ op' = "succeeded"
        /\ made' = TRUE
  /\ UNCHANGED <<config, visible, ctx, pc, local, result>>

(* The operation ends.  One that fails may have made the resource first.   *)
Finish ==
  /\ op = "running"
  /\ \/ op' = "succeeded" /\ made' = TRUE /\ ~ config.taken
     \/ op' = "failed" /\ made' \in (IF config.taken THEN {FALSE} ELSE Bools("residue"))
  /\ UNCHANGED <<config, request, answer, visible, ctx, pc, local, result>>

(* Eventual consistency: what was made shows up some time later.           *)
Appear ==
  /\ made
  /\ ~ visible
  /\ visible' = TRUE
  /\ UNCHANGED <<config, request, answer, op, made, ctx, pc, local, result>>

CancelCaller ==
  /\ ctx = "live"
  /\ ctx' = "ended"
  /\ UNCHANGED <<config, cloud, pc, local, result>>

-----------------------------------------------------------------------------
(* Create. *)

(* Everything that is checked before the POST goes out, the context last.  *)
Refuse ==
  /\ pc = "start"
  /\ ~ config.creatable \/ ctx = "ended"
  /\ Return("error")
  /\ UNCHANGED <<config, cloud, ctx, local>>

Post ==
  /\ pc = "start"
  /\ config.creatable
  /\ ctx = "live"
  /\ request' = "out"
  /\ pc' = "post"
  /\ UNCHANGED <<config, answer, op, made, visible, ctx, local, result>>

PostRefused ==
  /\ pc = "post"
  /\ answer = "refused"
  /\ Return("error")
  /\ postErr' = "refused"
  /\ UNCHANGED <<config, cloud, ctx, target, id, awaitErr, readback, patience, due>>

(* Do comes back with an error that leaves open what GCP does with the     *)
(* POST, now or later.                                                     *)
PostLost ==
  /\ pc = "post"
  /\ "lost" \in Faults \/ ("cancel" \in Faults /\ ctx = "ended")
  /\ Return("error")
  /\ postErr' = "unknown"
  /\ UNCHANGED <<config, cloud, ctx, target, id, awaitErr, readback, patience, due>>

PostAnswered ==
  /\ pc = "post"
  /\ answer = "operation"
  /\ pc' = "await"
  /\ UNCHANGED <<config, cloud, ctx, local, result>>

(* await (and the whole rest of Create) no longer listens to the caller.   *)
Awaited ==
  /\ pc = "await"
  /\ \/ op = "succeeded" /\ target' = config.names /\ UNCHANGED awaitErr
     \/ op = "failed" /\ awaitErr' = "operation" /\ UNCHANGED target
     \/ /\ config.async
        /\ "untracked" \in Faults
        /\ awaitErr' = "unknown"
        /\ UNCHANGED target
  /\ pc' = "identify"
  /\ UNCHANGED <<config, cloud, ctx, id, postErr, readback, patience, due, result>>

(* Mutant: any target that parses is believed (createdID before            *)
(* outsideCreatedCollection).                                              *)
createdID_AnyThatParses ==
  IF target \in {"resource", "deeper", "elsewhere"} THEN target
  ELSE IF config.byName THEN "resource" ELSE "none"

(* createdID: what the await named, unless it does not reduce or lies      *)
(* outside the collection posted to; the attributes otherwise.  Something  *)
(* deeper inside the collection is outside where the type is flat.         *)
createdID ==
  IF target = "resource" \/ (target = "deeper" /\ ~ config.flat) THEN target
  ELSE IF config.byName THEN "resource" ELSE "none"

(* readAfterCreate, up to the readback. *)
Identify ==
  /\ pc = "identify"
  /\ id' = createdID
  /\ readback' = IF createdID = "none" THEN "failed" ELSE "none"
  /\ pc' = IF createdID = "none" THEN "resolve" ELSE "read"
  /\ UNCHANGED <<config, cloud, ctx, target, postErr, awaitErr, patience, due, result>>

(* Read finds it: its setters are compared with what was asked for; none   *)
(* is called once the caller is gone.  At a deeper id there may be         *)
(* something or nothing.                                                   *)
ReadFound ==
  /\ pc = "read"
  /\ visible \/ id = "deeper"
  /\ due' \in 0..MaxSetters
  /\ IF due' = 0 \/ ctx = "ended" THEN Return("state") ELSE pc' = "setters" /\ UNCHANGED result
  /\ UNCHANGED <<config, cloud, ctx, target, id, postErr, awaitErr, readback, patience>>

(* Mutant: a listing is retried like a get, and patience never ends. *)
ReadNotFound_Forever ==
  /\ pc = "read"
  /\ ~ visible \/ id = "deeper"
  /\ pc' = "sleep"
  /\ UNCHANGED <<config, cloud, ctx, local, result>>

(* A 404 is believed only once notFoundPatience has passed; a listing is   *)
(* believed at once.                                                       *)
ReadNotFound ==
  /\ pc = "read"
  /\ ~ visible \/ id = "deeper"
  /\ IF config.listed \/ ~ patience
       THEN pc' = "resolve" /\ readback' = "absent"
       ELSE pc' = "sleep" /\ UNCHANGED readback
  /\ UNCHANGED <<config, cloud, ctx, target, id, postErr, awaitErr, patience, due, result>>

Sleep ==
  /\ pc = "sleep"
  /\ pc' = "read"
  /\ UNCHANGED <<config, cloud, ctx, local, result>>

PatienceEnds ==
  /\ pc \in {"read", "sleep"}
  /\ patience
  /\ patience' = FALSE
  /\ UNCHANGED <<config, cloud, ctx, pc, target, id, postErr, awaitErr, readback, due, result>>

ReadFails ==
  /\ pc \in {"read", "sleep"}
  /\ "unread" \in Faults
  /\ readback' = "failed"
  /\ pc' = "resolve"
  /\ UNCHANGED <<config, cloud, ctx, target, id, postErr, awaitErr, patience, due, result>>

(* Mutant: a readback that finds nothing is an error, whatever the await   *)
(* said.                                                                   *)
Resolve_NotFoundIsError ==
  /\ pc = "resolve"
  /\ Return("error")
  /\ UNCHANGED <<config, cloud, ctx, local>>

(* There is no state: the operation's failure is the answer; without one,  *)
(* a resource not readable yet is reported by bestEffortState.             *)
Resolve ==
  /\ pc = "resolve"
  /\ Return(IF awaitErr = "none" /\ readback = "absent" THEN "state" ELSE "error")
  /\ UNCHANGED <<config, cloud, ctx, local>>

(* Mutant: a failed setter fails the create. *)
SetAfterCreate_Fails ==
  /\ pc = "setters"
  /\ due > 0
  /\ \/ due' = due - 1 /\ UNCHANGED <<pc, result>>
     \/ Return("error") /\ UNCHANGED due
  /\ UNCHANGED <<config, cloud, ctx, target, id, postErr, awaitErr, readback, patience>>

(* setAfterCreate: one setter after the other, until one fails. *)
SetAfterCreate ==
  /\ pc = "setters"
  /\ due > 0
  /\ \/ /\ due' = due - 1
        /\ pc' = IF due = 1 THEN "refresh" ELSE "setters"
     \/ pc' = "refresh" /\ UNCHANGED due
  /\ UNCHANGED <<config, cloud, ctx, target, id, postErr, awaitErr, readback, patience, result>>

(* The state is read again; if it cannot be, the earlier one stands.       *)
Refresh ==
  /\ pc = "refresh"
  /\ Return("state")
  /\ UNCHANGED <<config, cloud, ctx, local>>

Step ==
  \/ Refuse \/ Post \/ PostRefused \/ PostLost \/ PostAnswered \/ Awaited \/ Identify
  \/ ReadFound \/ ReadNotFound \/ Sleep \/ ReadFails \/ Resolve \/ SetAfterCreate \/ Refresh

Next == Step \/ Handle \/ Finish \/ Appear \/ PatienceEnds \/ CancelCaller

Spec == Init /\ [][Next]_vars

(* The goroutine runs and time passes; GCP answers a POST and ends an      *)
(* operation (when it does not, the bounds of Client.tla and Await.tla     *)
(* apply: "lost" and "untracked").                                         *)
FairSpec ==
  /\ Spec
  /\ WF_vars(Step)
  /\ WF_vars(PatienceEnds)
  /\ WF_vars(Handle)
  /\ WF_vars(Finish)

-----------------------------------------------------------------------------
(* The ways an error may leave a resource behind, or one that will be:     *)
(* Create does not know what became of its POST, lost track of the         *)
(* operation, or was told by the readback that nothing is there (or        *)
(* nothing) of what the cloud made.                                        *)
Doubtful ==
  \/ postErr = "unknown"
  \/ awaitErr = "unknown" /\ readback # "none"
  \/ awaitErr = "operation" /\ readback # "none" /\ made
  \/ awaitErr = "none" /\ readback = "failed"

(* The one way a state may be of something this create did not make: its   *)
(* name was in use, and the readback after a wait that failed found that.  *)
Adopted == config.taken /\ awaitErr # "none"

Outcome ==
  CASE result = "pending" -> "pending"
    [] result = "state" -> IF Adopted THEN "unknown" ELSE "ok"
    [] OTHER            -> IF Doubtful THEN "unknown" ELSE "refused"

Remote == INSTANCE RemoteCall WITH acted <- made, outcome <- Outcome

(* What Create reports is what happened: a state means that this create    *)
(* made a resource, an error that it made none and will make none, except  *)
(* in the named doubts -- and even then it has read back what exists       *)
(* before it gave up, unless the POST itself came back with an error or    *)
(* nothing identifies what to read.  Nothing is made twice.                *)
TellsTheTruth == Remote!Spec

(* "once GCP has created something, no path below returns an error": a     *)
(* resource that exists is never behind an error, now or later.            *)
NoOrphan == result = "error" => ~ made

(* "the difference between an identity that is well-formed and one that is *)
(* this resource's": the id in the state names what the create made.  The  *)
(* one exception is the code's own: where the collection and the self link *)
(* cannot be compared, whatever lies inside the collection is believed.    *)
RecordsItsOwn == result = "state" => id = "resource" \/ (id = "deeper" /\ ~ config.flat)

(* Create comes back, with the caller's context or without it. *)
CreateReturns == <>(pc = "done")
=============================================================================
