---------------------------- MODULE UpdateProofs ----------------------------
(***************************************************************************)
(* Update.tla for any fields, setters, styles and amount of trouble: its   *)
(* type, that an early error changed nothing unless an answer is lost,     *)
(* that no observed lock is sent stale twice, that what others write into  *)
(* a resource whose answers carry a lock survives, and that one call is    *)
(* enough when nothing goes wrong.                                         *)
(***************************************************************************)
EXTENDS Update, FiniteSetTheorems, TLAPS

(* A fault never overdraws the budget. *)
LEMMA TroubleIsBounded ==
  ASSUME trouble \in 0..MaxTrouble, NEW fault, Trouble(fault)
  PROVE  trouble' \in 0..MaxTrouble
BY UpdateAssumption DEF Trouble

(* What a refused request leaves of the count of refusals. *)
LEMMA RefusedCounts ==
  ASSUME refusals \in Nat, NEW lock, Refused(lock)
  PROVE  /\ refusals' \in Nat
         /\ refusals' \in {refusals, refusals + 1}
         /\ lock \subseteq {"fresh"} => refusals' = refusals
         /\ UNCHANGED <<applied, foreign, stale, changed, unanswered>>
<1>1. lock \subseteq {"fresh"} => (lock \cap stale) \ {"fresh"} = {}
  OBVIOUS
<1>. QED
  BY <1>1 DEF Refused, NoEffect

(* What a mutation that takes effect, or does not, leaves typed. *)
Effects ==
  /\ applied' \in SUBSET (Fields \cup Setters)
  /\ foreign' \in {"none", "kept", "lost"}
  /\ stale' \in SUBSET Locks
  /\ changed' \in BOOLEAN

LEMMA EffectsAreTyped ==
  ASSUME TypeOK
  PROVE  /\ NoEffect => Effects
         /\ \A fields \in SUBSET Fields : Written(fields) => Effects
         /\ \A s \in Setters : Set(s) => Effects
<1>. USE DEF TypeOK, Effects
<1>1. NoEffect => Effects
  BY DEF NoEffect
<1>2. ASSUME NEW fields \in SUBSET Fields, Written(fields)
      PROVE  Effects
  BY <1>2 DEF Written, TakesEffect, Locks
<1>3. ASSUME NEW s \in Setters, Set(s)
      PROVE  Effects
  BY <1>3 DEF Set, TakesEffect, SetterLock, Locks
<1>. QED
  BY <1>1, <1>2, <1>3

(* A resource that somebody else deletes leaves Update's own state alone. *)
LEMMA DeletedByOthers ==
  ASSUME TypeOK, OthersDelete
  PROVE  TypeOK'
<1>1. trouble' \in 0..MaxTrouble
  BY TroubleIsBounded DEF TypeOK, OthersDelete
<1>2. exists' \in BOOLEAN
  BY DEF OthersDelete
<1>. QED
  BY <1>1, <1>2 DEF TypeOK, OthersDelete, call

(* Every variable of Update ranges over what the module's header says: in  *)
(* particular Update never returns (nil, nil).                             *)
THEOREM UpdateTypeCorrect == Spec => []TypeOK
<1>1. Init => TypeOK
  <2>1. MaxTrouble \in 0..MaxTrouble /\ 0 \in Nat
    BY UpdateAssumption
  <2>2. ASSUME Init
        PROVE  mask \in SUBSET Fields /\ setters \in SUBSET Setters /\ stale \in SUBSET Locks
    BY <2>2 DEF Init
  <2>. QED
    BY <2>1, <2>2 DEF Init, TypeOK
<1>2. TypeOK /\ [Next]_vars => TypeOK'
  <2> SUFFICES ASSUME TypeOK, [Next]_vars
               PROVE  TypeOK'
    OBVIOUS
  <2>. USE TroubleIsBounded, RefusedCounts, EffectsAreTyped DEF TypeOK, Return, Goto, Effects
  <2>1. CASE Observe
    <3>1. mask' \in SUBSET Fields /\ setters' \in SUBSET Setters /\ stale' \in SUBSET Locks
      BY <2>1 DEF Observe
    <3>. QED
      BY <2>1, <3>1 DEF Observe
  <2>2. CASE Conclude
    BY <2>2 DEF Conclude, cloud, call
  <2>3. CASE NothingChanged
    BY <2>3 DEF NothingChanged, cloud
  <2>4. CASE Refuse
    <3>1. trouble' \in 0..MaxTrouble
      BY <2>4 DEF Refuse
    <3>. QED
      BY <2>4, <3>1 DEF Refuse, cloud
  <2>5. CASE Begin
    <3>1. pc' \in {"setters", "one", "patch"} /\ stale' \in SUBSET Locks
      BY <2>5 DEF Begin, Dispatch
    <3>. QED
      BY <2>5, <3>1 DEF Begin
  <2>6. CASE PatchFails
    <3>1. Effects
      BY <2>6 DEF PatchFails, Refused
    <3>2. trouble' \in 0..MaxTrouble
      BY <2>6 DEF PatchFails
    <3>3. refusals' \in Nat
      BY <2>6 DEF PatchFails
    <3>. QED
      BY <2>6, <3>1, <3>2, <3>3 DEF PatchFails
  <2>7. CASE Patch
    <3>1. Effects
      BY <2>7 DEF Patch
    <3>2. trouble' \in 0..MaxTrouble
      BY <2>7 DEF Patch
    <3>3. failure' \in BOOLEAN /\ mask' \in SUBSET Fields
      BY <2>7 DEF Patch
    <3>. QED
      BY <2>7, <3>1, <3>2, <3>3 DEF Patch
  <2>8. CASE NextField
    <3>1. trouble' \in 0..MaxTrouble
      BY <2>8 DEF NextField
    <3>2. stale' \in SUBSET Locks /\ failure' \in BOOLEAN
      BY <2>8 DEF NextField
    <3>3. pc' \in {"setters", "onesend"} /\ result' = result
      BY <2>8 DEF NextField
    <3>. QED
      BY <2>8, <3>1, <3>2, <3>3 DEF NextField
  <2>9. ASSUME NEW f \in Fields, SendFieldFails(f)
        PROVE  TypeOK'
    <3>1. Effects
      BY <2>9 DEF SendFieldFails, Refused
    <3>2. trouble' \in 0..MaxTrouble
      BY <2>9 DEF SendFieldFails
    <3>3. refusals' \in Nat
      BY <2>9 DEF SendFieldFails
    <3>4. failure' \in BOOLEAN /\ pc' \in {"setters", "done"} /\ result' \in {result, "error"}
      BY <2>9 DEF SendFieldFails
    <3>. QED
      <4>1. unanswered' \in BOOLEAN
        BY <2>9 DEF SendFieldFails, Refused
      <4>2. UNCHANGED <<config, exists, mask, setters, body, patched, readback, ctx>>
        BY <2>9 DEF SendFieldFails
      <4>. QED
        BY <3>1, <3>2, <3>3, <3>4, <4>1, <4>2
  <2>10. ASSUME NEW f \in Fields, SendField(f)
         PROVE  TypeOK'
    <3>1. Effects
      BY <2>10 DEF SendField
    <3>2. trouble' \in 0..MaxTrouble
      BY <2>10 DEF SendField
    <3>3. failure' \in BOOLEAN /\ pc' \in {"setters", "one"} /\ result' = result
      BY <2>10 DEF SendField
    <3>4. mask' \in SUBSET Fields
      BY <2>10 DEF SendField
    <3>. QED
      BY <2>10, <3>1, <3>2, <3>3, <3>4 DEF SendField
  <2>11. CASE NextSetter
    <3>1. pc' \in {"read", "call", "done"} /\ result' \in {result, "error"}
      BY <2>11 DEF NextSetter
    <3>. QED
      BY <2>11, <3>1 DEF NextSetter, cloud
  <2>12. ASSUME NEW s \in Setters, CallSetterFails(s)
         PROVE  TypeOK'
    <3>1. Effects
      BY <2>12 DEF CallSetterFails, Refused
    <3>2. trouble' \in 0..MaxTrouble
      BY <2>12 DEF CallSetterFails
    <3>3. refusals' \in Nat
      BY <2>12 DEF CallSetterFails
    <3>. QED
      <4>1. unanswered' \in BOOLEAN
        BY <2>12 DEF CallSetterFails, Refused
      <4>2. UNCHANGED <<config, exists, mask, setters, body, patched, readback, ctx>>
        BY <2>12 DEF CallSetterFails
      <4>3. failure' \in BOOLEAN /\ pc' \in {"read", "done"} /\ result' \in {result, "error"}
        BY <2>12 DEF CallSetterFails
      <4>. QED
        BY <3>1, <3>2, <3>3, <4>1, <4>2, <4>3
  <2>13. ASSUME NEW s \in Setters, CallSetter(s)
         PROVE  TypeOK'
    <3>1. Effects
      BY <2>13 DEF CallSetter
    <3>2. trouble' \in 0..MaxTrouble
      BY <2>13 DEF CallSetter
    <3>. QED
      <4>1. failure' \in BOOLEAN /\ pc' \in {"setters", "read"} /\ result' = result
        BY <2>13 DEF CallSetter
      <4>2. patched' = TRUE /\ setters' \in SUBSET Setters
        BY <2>13 DEF CallSetter
      <4>3. UNCHANGED <<config, exists, mask, body, readback, ctx, refusals, unanswered>>
        BY <2>13 DEF CallSetter
      <4>. QED
        BY <3>1, <3>2, <4>1, <4>2, <4>3
  <2>14. CASE ReadBack
    <3>1. trouble' \in 0..MaxTrouble
      BY <2>14 DEF ReadBack
    <3>. QED
      BY <2>14, <3>1 DEF ReadBack, cloud
  <2>15. CASE OthersChange
    <3>1. applied' \in SUBSET (Fields \cup Setters) /\ stale' \in SUBSET Locks
      BY <2>15 DEF OthersChange
    <3>. QED
      BY <2>15, <3>1 DEF OthersChange, call
  <2>16. CASE OthersDelete
    BY <2>16, DeletedByOthers
  <2>17. CASE CancelCaller
    BY <2>17 DEF CancelCaller, cloud
  <2>18. CASE UNCHANGED vars
    BY <2>18 DEF vars, cloud, call
  <2>. QED
    BY <2>1, <2>2, <2>3, <2>4, <2>5, <2>6, <2>7, <2>8, <2>9, <2>10, <2>11, <2>12, <2>13,
       <2>14, <2>15, <2>16, <2>17, <2>18 DEF Next, Running
<1>. QED
  BY <1>1, <1>2, PTL DEF Spec

-----------------------------------------------------------------------------
(* Where Update may still return an error, it has changed nothing. *)
EarlyInv ==
  /\ EarlyErrorChangedNothing
  /\ pc \in {"start", "patch"} => ~ changed
  /\ pc \in {"one", "onesend", "setters", "call"} /\ ~ patched => ~ changed
  /\ pc \notin {"done", "idle"} => readback = "none" /\ result = "none"

(* An error returned without a readback follows a call that changed        *)
(* nothing, or one that was left without an answer.                        *)
THEOREM UpdateEarlyErrors == Spec => []EarlyErrorChangedNothing
<1>1. Init => EarlyInv
  BY DEF Init, EarlyInv, EarlyErrorChangedNothing
<1>2. TypeOK /\ EarlyInv /\ [Next]_vars => EarlyInv'
  <2> SUFFICES ASSUME TypeOK, EarlyInv, [Next]_vars
               PROVE  EarlyInv'
    OBVIOUS
  <2>. USE RefusedCounts DEF TypeOK, EarlyInv, EarlyErrorChangedNothing, Return, Goto, Trouble
  <2>1. CASE Observe \/ Conclude
    BY <2>1 DEF Observe, Conclude, cloud, call
  <2>2. CASE NothingChanged \/ Refuse
    BY <2>2 DEF NothingChanged, Refuse, cloud
  <2>3. CASE Begin
    BY <2>3 DEF Begin, Dispatch
  <2>4. CASE PatchFails
    BY <2>4 DEF PatchFails
  <2>5. CASE Patch
    BY <2>5 DEF Patch
  <2>6. CASE NextField
    BY <2>6 DEF NextField
  <2>7. ASSUME NEW f \in Fields, SendFieldFails(f)
        PROVE  EarlyInv'
    BY <2>7 DEF SendFieldFails
  <2>8. ASSUME NEW f \in Fields, SendField(f)
        PROVE  EarlyInv'
    BY <2>8 DEF SendField
  <2>9. CASE NextSetter
    <3>1. \/ pc' \in {"read", "call"} /\ result' = result
          \/ pc' = "done" /\ ~ patched
      BY <2>9 DEF NextSetter
    <3>. QED
      BY <2>9, <3>1 DEF NextSetter, cloud
  <2>10. ASSUME NEW s \in Setters, CallSetterFails(s)
         PROVE  EarlyInv'
    BY <2>10 DEF CallSetterFails
  <2>11. ASSUME NEW s \in Setters, CallSetter(s)
         PROVE  EarlyInv'
    BY <2>11 DEF CallSetter
  <2>12. CASE ReadBack
    BY <2>12 DEF ReadBack, cloud
  <2>13. CASE OthersChange \/ OthersDelete \/ CancelCaller
    BY <2>13 DEF OthersChange, OthersDelete, CancelCaller, cloud, call
  <2>14. CASE UNCHANGED vars
    BY <2>14 DEF vars, cloud, call
  <2>. QED
    BY <2>1, <2>2, <2>3, <2>4, <2>5, <2>6, <2>7, <2>8, <2>9, <2>10, <2>11, <2>12, <2>13, <2>14
       DEF Next, Running
<1>3. EarlyInv => EarlyErrorChangedNothing
  BY DEF EarlyInv
<1>. QED
  BY <1>1, <1>2, <1>3, UpdateTypeCorrect, PTL DEF Spec

-----------------------------------------------------------------------------
(* A refusal over a lock of the observation is the last request but the    *)
(* readback; the patches in between carry a lock read afresh.              *)
StaleInv ==
  /\ NeverStaleTwice
  /\ pc \notin {"read", "done", "idle"} => refusals = 0

(* No call is refused twice over a lock it copied from the observation,    *)
(* whatever others do and however its requests fail.                       *)
THEOREM UpdateNeverStaleTwice == Spec => []NeverStaleTwice
<1>1. Init => StaleInv
  BY DEF Init, StaleInv, NeverStaleTwice
<1>2. TypeOK /\ StaleInv /\ [Next]_vars => StaleInv'
  <2> SUFFICES ASSUME TypeOK, StaleInv, [Next]_vars
               PROVE  StaleInv'
    OBVIOUS
  <2>. USE RefusedCounts DEF TypeOK, StaleInv, NeverStaleTwice, Return, Goto
  <2>1. CASE Observe \/ Conclude \/ NothingChanged \/ Refuse
    BY <2>1 DEF Observe, Conclude, NothingChanged, Refuse, cloud, call
  <2>2. CASE Begin \/ Patch \/ NextField
    BY <2>2 DEF Begin, Dispatch, Patch, NextField
  <2>3. CASE PatchFails
    BY <2>3 DEF PatchFails
  <2>4. ASSUME NEW f \in Fields, SendFieldFails(f)
        PROVE  StaleInv'
    <3>1. CASE patched
      <4>1. OneLock \subseteq {"fresh"}
        BY <3>1 DEF OneLock
      <4>. QED
        BY <2>4, <3>1, <4>1 DEF SendFieldFails
    <3>2. CASE ~ patched
      BY <2>4, <3>2 DEF SendFieldFails
    <3>. QED
      BY <3>1, <3>2
  <2>5. ASSUME NEW f \in Fields, SendField(f)
        PROVE  StaleInv'
    BY <2>5 DEF SendField
  <2>6. CASE NextSetter
    BY <2>6 DEF NextSetter, cloud
  <2>7. ASSUME NEW s \in Setters, CallSetterFails(s) \/ CallSetter(s)
        PROVE  StaleInv'
    BY <2>7 DEF CallSetterFails, CallSetter
  <2>8. CASE ReadBack \/ OthersChange \/ OthersDelete \/ CancelCaller
    BY <2>8 DEF ReadBack, OthersChange, OthersDelete, CancelCaller, cloud, call
  <2>9. CASE UNCHANGED vars
    BY <2>9 DEF vars, cloud, call
  <2>. QED
    BY <2>1, <2>2, <2>3, <2>4, <2>5, <2>6, <2>7, <2>8, <2>9 DEF Next, Running
<1>3. StaleInv => NeverStaleTwice
  BY DEF StaleInv
<1>. QED
  BY <1>1, <1>2, <1>3, UpdateTypeCorrect, PTL DEF Spec

-----------------------------------------------------------------------------
(* A PUT's body lacks what others wrote only if its lock says so. *)
KeepsInv ==
  /\ KeepsOthers
  /\ pc = "patch" /\ config.style = "put" /\ foreign = "kept" => body \/ "fresh" \in stale
  /\ pc \in {"one", "onesend"} => config.style = "onefield"

(* What others write elsewhere in the resource survives every update,      *)
(* PUTs included, as long as what a PUT reads carries a lock.              *)
THEOREM UpdateKeepsOthers ==
  ASSUME "bareput" \notin Styles
  PROVE  Spec => []KeepsOthers
<1>1. Init => KeepsInv
  BY DEF Init, KeepsInv, KeepsOthers
<1>2. TypeOK /\ KeepsInv /\ [Next]_vars => KeepsInv'
  <2> SUFFICES ASSUME TypeOK, KeepsInv, [Next]_vars
               PROVE  KeepsInv'
    OBVIOUS
  <2>1. config.style # "bareput" /\ config' = config
    BY DEF TypeOK, Next, Running, vars, Observe, Conclude, NothingChanged, Refuse, Begin, PatchFails, Patch,
           NextField, SendFieldFails, SendField, NextSetter, CallSetterFails, CallSetter,
           ReadBack, OthersChange, OthersDelete, CancelCaller
  <2>. USE <2>1, RefusedCounts DEF TypeOK, KeepsInv, KeepsOthers, Return, Goto
  <2>2. CASE Observe \/ Conclude \/ NothingChanged \/ Refuse
    BY <2>2 DEF Observe, Conclude, NothingChanged, Refuse, cloud, call
  <2>3. CASE Begin
    <3>1. pc' = "patch" => mask # {}
      BY <2>3 DEF Begin, Dispatch
    <3>2. pc' = "one" => config.style = "onefield"
      BY <2>3 DEF Begin, Dispatch
    <3>3. pc' # "onesend"
      BY <2>3 DEF Begin, Dispatch
    <3>. QED
      BY <2>3, <3>1, <3>2, <3>3 DEF Begin, IsPut
  <2>4. CASE PatchFails \/ Patch
    <3>1. foreign' # "lost"
      <4>1. \/ foreign' = foreign
            \/ Accepted(mask, PatchLock) /\ Written(mask)
        BY <2>4 DEF PatchFails, Patch, NoEffect
      <4>2. ASSUME Accepted(mask, PatchLock), Written(mask)
            PROVE  foreign' # "lost"
        <5>1. CASE config.style = "put"
          <6>1. "fresh" \notin stale
            BY <4>2, <5>1 DEF Accepted, PatchLock
          <6>2. pc = "patch"
            BY <2>4 DEF PatchFails, Patch
          <6>. QED
            BY <4>2, <5>1, <6>1, <6>2 DEF Written
        <5>2. CASE config.style # "put"
          BY <4>2, <5>2 DEF Written, IsPut
        <5>. QED
          BY <5>1, <5>2
      <4>. QED
        BY <4>1, <4>2
    <3>. QED
      BY <2>4, <3>1 DEF PatchFails, Patch
  <2>5. CASE NextField
    BY <2>5 DEF NextField
  <2>6. ASSUME NEW f \in Fields, SendFieldFails(f) \/ SendField(f)
        PROVE  KeepsInv'
    BY <2>6 DEF SendFieldFails, SendField, NoEffect, Written, IsPut
  <2>7. CASE NextSetter
    BY <2>7 DEF NextSetter, cloud
  <2>8. ASSUME NEW s \in Setters, CallSetterFails(s) \/ CallSetter(s)
        PROVE  KeepsInv'
    BY <2>8 DEF CallSetterFails, CallSetter, NoEffect, Set
  <2>9. CASE ReadBack \/ OthersChange \/ OthersDelete \/ CancelCaller
    BY <2>9 DEF ReadBack, OthersChange, OthersDelete, CancelCaller, cloud, call, Locks
  <2>10. CASE UNCHANGED vars
    BY <2>10 DEF vars, cloud, call
  <2>. QED
    BY <2>2, <2>3, <2>4, <2>5, <2>6, <2>7, <2>8, <2>9, <2>10 DEF Next, Running
<1>3. KeepsInv => KeepsOthers
  BY DEF KeepsInv
<1>. QED
  BY <1>1, <1>2, <1>3, UpdateTypeCorrect, PTL DEF Spec
-----------------------------------------------------------------------------
(* A call that nothing disturbs: whatever it is still to send goes out     *)
(* under a lock that is the resource's, and what is not applied yet is     *)
(* still to be sent.                                                       *)
Undisturbed ==
  /\ exists /\ ctx = "live"
  /\ setters \cap stale = {}
  /\ pc \in {"start", "patch"} => stale = {}
  /\ pc = "patch" /\ config.style = "onefield" => Cardinality(mask) = 1
  /\ pc \in {"one", "onesend"} /\ ~ patched => "observed" \notin stale
  /\ pc = "onesend" /\ patched /\ config.locked => "fresh" \notin stale
  /\ pc \in {"setters", "call"} => mask = {}
  /\ pc \in {"start", "patch", "one", "onesend", "setters", "call"} =>
       Fields \subseteq applied \cup mask /\ Setters \subseteq applied \cup setters
  /\ pc \in {"read", "done"} => Fields \cup Setters \subseteq applied

OneCallInv == trouble = MaxTrouble /\ config.style # "none" => Undisturbed

(* What is sent undisturbed is accepted. *)
LEMMA SentIsAccepted ==
  ASSUME TypeOK, Undisturbed
  PROVE  /\ pc = "patch" => Accepted(mask, PatchLock)
         /\ pc = "onesend" => \A f \in Fields : Accepted({f}, OneLock)
         /\ \A s \in setters : SetterAccepted(s)
<1>. USE DEF TypeOK, Undisturbed
<1>1. pc = "patch" => Accepted(mask, PatchLock)
  BY DEF Accepted
<1>2. ASSUME pc = "onesend", NEW f \in Fields
      PROVE  Accepted({f}, OneLock)
  <2>1. Cardinality({f}) = 1
    BY FS_Singleton
  <2>2. OneLock \cap stale = {}
    BY <1>2 DEF OneLock
  <2>. QED
    BY <2>1, <2>2 DEF Accepted
<1>3. \A s \in setters : SetterAccepted(s)
  BY DEF SetterAccepted, SetterLock
<1>. QED
  BY <1>1, <1>2, <1>3

(* As long as nothing goes wrong one call does it all: no request is       *)
(* refused over a lock that an earlier one moved on, and nothing is        *)
(* forgotten; for any fields, setters and styles.                          *)
THEOREM UpdateNeedsOneCall == Spec => []OneCallSuffices
<1>1. Init => OneCallInv
  BY DEF Init, OneCallInv, Undisturbed
<1>2. TypeOK /\ OneCallInv /\ [Next]_vars => OneCallInv'
  <2> SUFFICES ASSUME TypeOK, OneCallInv, [Next]_vars, trouble' = MaxTrouble, config'.style # "none"
               PROVE  Undisturbed'
    BY DEF OneCallInv
  <2>0. config' = config
    BY DEF Next, Running, Observe, Conclude, NothingChanged, Refuse, Begin, PatchFails, Patch, NextField,
           SendFieldFails, SendField, NextSetter, CallSetterFails, CallSetter, ReadBack,
           OthersChange, OthersDelete, CancelCaller, vars
  <2>1. trouble = MaxTrouble /\ \A fault : ~ Trouble(fault)
    <3>1. trouble' = trouble \/ \E fault : Trouble(fault)
      BY DEF Next, Running, Observe, Conclude, NothingChanged, Refuse, Begin, PatchFails, Patch, NextField,
             SendFieldFails, SendField, NextSetter, CallSetterFails, CallSetter, ReadBack,
             OthersChange, OthersDelete, CancelCaller, vars
    <3>2. \A fault : ~ Trouble(fault)
      BY UpdateAssumption DEF TypeOK, Trouble
    <3>. QED
      BY <3>1, <3>2
  <2>2. Undisturbed
    BY <2>0, <2>1 DEF OneCallInv
  <2>. USE <2>0, <2>1, <2>2 DEF TypeOK, Undisturbed, Return, Goto
  <2>3. CASE Observe
    BY <2>3 DEF Observe
  <2>4. CASE Conclude
    BY <2>4 DEF Conclude, cloud, call
  <2>5. CASE NothingChanged
    BY <2>5 DEF NothingChanged, cloud
  <2>6. CASE Refuse
    BY <2>6 DEF Refuse
  <2>7. CASE Begin
    <3>1. pc' = Dispatch /\ stale' = {} /\ UNCHANGED <<exists, ctx, applied, mask, setters, patched>>
      BY <2>7 DEF Begin
    <3>2. pc' = "patch" /\ config.style = "onefield" => Cardinality(mask) = 1
      <4> SUFFICES ASSUME pc' = "patch", config.style = "onefield"
                   PROVE  Cardinality(mask) = 1
        OBVIOUS
      <4>1. mask # {} /\ ~ (Cardinality(mask) > 1)
        BY <3>1 DEF Dispatch
      <4>2. IsFiniteSet(mask)
        BY FS_Subset, UpdateAssumption
      <4>3. Cardinality(mask) \in Nat /\ Cardinality(mask) # 0
        BY <4>1, <4>2, FS_CardinalityType, FS_EmptySet
      <4>. QED
        BY <4>1, <4>3
    <3>3. pc' \in {"setters", "one", "patch"} /\ (pc' = "setters" => mask = {}) /\ pc = "start"
      BY <2>7, <3>1 DEF Dispatch, Begin
    <3>. QED
      BY <3>1, <3>2, <3>3
  <2>8. CASE PatchFails
    <3>1. Accepted(mask, PatchLock)
      BY <2>8, SentIsAccepted DEF PatchFails
    <3>. QED
      BY <2>8, <3>1 DEF PatchFails
  <2>9. CASE Patch
    BY <2>9, UpdateAssumption DEF Patch, Written, TakesEffect
  <2>10. CASE NextField
    BY <2>10 DEF NextField
  <2>11. ASSUME NEW f \in Fields, SendFieldFails(f)
         PROVE  Undisturbed'
    <3>1. Accepted({f}, OneLock)
      BY <2>11, SentIsAccepted DEF SendFieldFails
    <3>. QED
      BY <2>11, <3>1 DEF SendFieldFails
  <2>12. ASSUME NEW f \in Fields, SendField(f)
         PROVE  Undisturbed'
    BY <2>12, UpdateAssumption DEF SendField, Written, TakesEffect
  <2>13. CASE NextSetter
    <3>1. pc = "setters" /\ UNCHANGED <<exists, ctx, applied, mask, setters, patched, stale>>
      BY <2>13 DEF NextSetter, cloud
    <3>2. pc' = "call" \/ (pc' = "read" /\ setters = {})
      BY <2>13 DEF NextSetter
    <3>. QED
      BY <3>1, <3>2
  <2>14. ASSUME NEW s \in Setters, CallSetterFails(s)
         PROVE  Undisturbed'
    <3>1. SetterAccepted(s)
      BY <2>14, SentIsAccepted DEF CallSetterFails
    <3>. QED
      BY <2>14, <3>1 DEF CallSetterFails
  <2>15. ASSUME NEW s \in Setters, CallSetter(s)
         PROVE  Undisturbed'
    BY <2>15, UpdateAssumption DEF CallSetter, Set, TakesEffect, SetterLock
  <2>16. CASE ReadBack
    BY <2>16 DEF ReadBack, cloud
  <2>17. CASE OthersChange \/ OthersDelete \/ CancelCaller
    BY <2>17 DEF OthersChange, OthersDelete, CancelCaller
  <2>18. CASE UNCHANGED vars
    BY <2>18 DEF vars, cloud, call
  <2>. QED
    BY <2>3, <2>4, <2>5, <2>6, <2>7, <2>8, <2>9, <2>10, <2>11, <2>12, <2>13, <2>14, <2>15, <2>16, <2>17, <2>18
       DEF Next, Running
<1>3. OneCallInv => OneCallSuffices
  BY DEF OneCallInv, Undisturbed, OneCallSuffices
<1>. QED
  BY <1>1, <1>2, <1>3, UpdateTypeCorrect, PTL DEF Spec
=============================================================================
