---------------------------- MODULE DeleteProofs ----------------------------
(***************************************************************************)
(* Delete.tla for any number of fields to clear, any faults and any amount *)
(* of trouble: its type, that no record is dropped while the resource      *)
(* exists -- provided the type has a get method for confirmGone to ask --  *)
(* and that deleting what is gone already succeeds.                        *)
(***************************************************************************)
EXTENDS Delete, TLAPS

(* The errors that occur are told apart. *)
LEMMA ErrorsDiffer ==
  /\ Nil \notin Errors
  /\ \A e \in Errors : e # Nil
  /\ {Canceled, Transport, NotFound, Stale, Precondition, Aborted} \subseteq Errors
  /\ \A l \in BOOLEAN, c \in Causes : operationError(l, c) \in Errors
  /\ isNotFound(NotFound)
  /\ ~ isNotFound(Precondition) /\ ~ isNotFound(Aborted) /\ ~ isNotFound(Nil)
<1>1. \A l \in BOOLEAN, c \in Causes : operationError(l, c) \in Errors
  BY DEF Errors
<1>2. ASSUME NEW e \in Errors
      PROVE  e.kind # "nil"
  <2>1. CASE e \in {Canceled, Transport, NotFound, Stale, Precondition, Aborted}
    <3>1. Canceled.kind = "canceled" /\ Transport.kind = "transport"
      BY DEF Canceled, Transport, Failure
    <3>2. /\ NotFound.kind = "api" /\ Stale.kind = "api"
          /\ Precondition.kind = "api" /\ Aborted.kind = "api"
      BY DEF NotFound, Stale, Precondition, Aborted, ApiError
    <3>. QED
      BY <2>1, <3>1, <3>2
  <2>2. CASE e \in {operationError(l, c) : l \in BOOLEAN, c \in Causes}
    <3>1. PICK l \in BOOLEAN, c \in Causes : e = operationError(l, c)
      BY <2>2
    <3>. QED
      BY <3>1 DEF operationError, ApiError
  <2>. QED
    BY <2>1, <2>2 DEF Errors
<1>3. Nil.kind = "nil"
  BY DEF Nil, Failure
<1>4. /\ isNotFound(NotFound)
      /\ ~ isNotFound(Precondition) /\ ~ isNotFound(Aborted) /\ ~ isNotFound(Nil)
  BY DEF isNotFound, NotFound, Precondition, Aborted, Nil, ApiError, Failure
<1>5. {Canceled, Transport, NotFound, Stale, Precondition, Aborted} \subseteq Errors
  BY DEF Errors
<1>. QED
  BY <1>1, <1>2, <1>3, <1>4, <1>5

(* What a failed wait leaves behind: a question for confirmGone, or the    *)
(* error itself, and never a nil.                                          *)
LEMMA AwaitEnds ==
  ASSUME TypeOK, Await
  PROVE  /\ err' \in Errors \cup {Nil}
         /\ pc' \in {"confirm", "back"}
         /\ pc' = "confirm" => err' # Nil
         /\ err' = Nil => op = "succeeded"
<1>1. config.longrunning \in BOOLEAN
  BY DEF TypeOK, Configs
<1>2. /\ operationError(config.longrunning, "FAILED_PRECONDITION") \in Errors
      /\ operationError(config.longrunning, "NOT_FOUND") \in Errors
  BY <1>1, ErrorsDiffer DEF Causes
<1>3. \/ op = "succeeded" /\ Return(Nil)
      \/ \E e \in Errors : AwaitFails(e)
  BY <1>2, ErrorsDiffer DEF Await
<1>4. CASE op = "succeeded" /\ Return(Nil)
  BY <1>4 DEF Return
<1>5. ASSUME NEW e \in Errors, AwaitFails(e)
      PROVE  err' = e /\ pc' \in {"confirm", "back"}
  BY <1>5 DEF AwaitFails, Return
<1>. QED
  BY <1>3, <1>4, <1>5, ErrorsDiffer

(* A fault never overdraws the budget. *)
LEMMA TroubleIsBounded ==
  ASSUME trouble \in 0..MaxTrouble, NEW fault, Trouble(fault)
  PROVE  trouble' \in 0..MaxTrouble
BY DeleteAssumption DEF Trouble

(* Whatever a DELETE is answered, it is one of the known answers, and the  *)
(* resource and the operation stay what they can be.                       *)
LEMMA HandledTypes ==
  ASSUME TypeOK, NEW answer, Handled(answer)
  PROVE  /\ answer \in Errors \cup {Nil}
         /\ exists' \in BOOLEAN
         /\ op' \in {"none", "running", "succeeded", "failed", "notfound"}
<1>1. CASE ~ exists
  BY <1>1, ErrorsDiffer DEF Handled, TypeOK
<1>2. CASE exists /\ attached # {}
  BY <1>2, ErrorsDiffer DEF Handled, TypeOK
<1>3. CASE exists /\ attached = {} /\ op = "running"
  BY <1>3, ErrorsDiffer DEF Handled, TypeOK
<1>4. CASE exists /\ attached = {} /\ op # "running"
  <2>1. answer = Nil /\ (IF config.async THEN op' = "running" /\ UNCHANGED exists
                                         ELSE exists' = FALSE /\ UNCHANGED op)
    BY <1>4 DEF Handled, TypeOK
  <2>. QED
    BY <2>1 DEF TypeOK
<1>. QED
  BY <1>1, <1>2, <1>3, <1>4

(* Every variable of Delete ranges over what the module's header says.     *)
THEOREM DeleteTypeCorrect == Spec => []TypeOK
<1>1. Init => TypeOK
  <2>1. MaxTrouble \in 0..MaxTrouble
    BY DeleteAssumption
  <2>. QED
    BY <2>1 DEF Init, TypeOK
<1>2. TypeOK /\ [Next]_vars => TypeOK'
  <2> SUFFICES ASSUME TypeOK, [Next]_vars
               PROVE  TypeOK'
    OBVIOUS
  <2>. USE ErrorsDiffer, TroubleIsBounded DEF TypeOK, Return, Goto
  <2>1. CASE Refresh \/ Conclude \/ Start
    <3>1. CASE Refresh
      BY <3>1 DEF Refresh
    <3>2. CASE Conclude
      BY <3>2 DEF Conclude, cloud
    <3>3. CASE Start
      BY <3>3 DEF Start, cloud
    <3>. QED
      BY <2>1, <3>1, <3>2, <3>3
  <2>2. ASSUME NEW f \in Fields, Clear(f)
        PROVE  TypeOK'
    BY <2>2 DEF Clear
  <2>3. ASSUME NEW f \in Fields, ClearFails(f)
        PROVE  TypeOK'
    BY <2>3 DEF ClearFails
  <2>4. CASE SendDelete
    <3>1. PICK answer \in Errors \cup {Nil} :
            /\ Handled(answer)
            /\ IF answer = Nil /\ config.async THEN Goto("await")
               ELSE Return(IF isNotFound(answer) THEN Nil ELSE answer)
      BY <2>4 DEF SendDelete
    <3>2. exists' \in BOOLEAN /\ op' \in {"none", "running", "succeeded", "failed", "notfound"}
      BY <3>1, HandledTypes
    <3>3. err' \in Errors \cup {Nil} /\ pc' \in {"await", "back"}
      BY <3>1
    <3>. QED
      BY <2>4, <3>2, <3>3 DEF SendDelete
  <2>5. CASE DeleteLost
    BY <2>5 DEF DeleteLost
  <2>6. CASE Await
    <3>1. err' \in Errors \cup {Nil} /\ pc' \in {"confirm", "back"}
      BY <2>6, AwaitEnds
    <3>2. trouble' \in 0..MaxTrouble
      BY <2>6 DEF Await
    <3>. QED
      BY <2>6, <3>1, <3>2 DEF Await, cloud
  <2>7. CASE ConfirmGone
    BY <2>7 DEF ConfirmGone, cloud
  <2>8. CASE HandleLate
    <3>1. exists' \in BOOLEAN /\ op' \in {"none", "running", "succeeded", "failed", "notfound"}
      BY <2>8, HandledTypes DEF HandleLate
    <3>. QED
      BY <2>8, <3>1 DEF HandleLate
  <2>9. CASE Finish
    <3>1. exists' \in BOOLEAN /\ op' \in {"succeeded", "failed", "notfound"}
      BY <2>9 DEF Finish
    <3>2. trouble' \in 0..MaxTrouble
      BY <2>9 DEF Finish
    <3>. QED
      BY <2>9, <3>1, <3>2 DEF Finish
  <2>10. CASE OthersChange \/ OthersDelete \/ CancelCaller
    <3>1. CASE OthersChange
      BY <3>1 DEF OthersChange
    <3>2. CASE OthersDelete
      BY <3>2 DEF OthersDelete
    <3>3. CASE CancelCaller
      BY <3>3 DEF CancelCaller, cloud
    <3>. QED
      BY <2>10, <3>1, <3>2, <3>3
  <2>11. CASE UNCHANGED vars
    BY <2>11 DEF vars, cloud
  <2>. QED
    BY <2>1, <2>2, <2>3, <2>4, <2>5, <2>6, <2>7, <2>8, <2>9, <2>10, <2>11 DEF Next, Running
<1>. QED
  BY <1>1, <1>2, PTL DEF Spec

-----------------------------------------------------------------------------
(* NothingForgotten is inductive once it is known that a finished deletion *)
(* removed the resource and that confirmGone holds a real error.           *)
Remembered ==
  /\ NothingForgotten
  /\ op = "succeeded" => ~ exists
  /\ pc = "confirm" => err # Nil

(* A DELETE answered "not found" or, without an operation, with success    *)
(* leaves nothing; one answered otherwise has done no more than start.     *)
LEMMA HandledRemoves ==
  ASSUME TypeOK, Remembered, NEW answer, Handled(answer)
  PROVE  /\ exists' => exists
         /\ op' = "succeeded" => ~ exists'
         /\ isNotFound(answer) => ~ exists'
         /\ answer = Nil /\ ~ config.async => ~ exists'
<1>. USE ErrorsDiffer DEF Remembered, TypeOK
<1>1. CASE ~ exists
  BY <1>1 DEF Handled
<1>2. CASE exists /\ attached # {}
  BY <1>2 DEF Handled
<1>3. CASE exists /\ attached = {} /\ op = "running"
  BY <1>3 DEF Handled
<1>4. CASE exists /\ attached = {} /\ op # "running"
  <2>1. answer = Nil /\ (IF config.async THEN op' = "running" /\ UNCHANGED exists
                                         ELSE exists' = FALSE /\ UNCHANGED op)
    BY <1>4 DEF Handled
  <2>. QED
    BY <2>1, <1>4
<1>. QED
  BY <1>1, <1>2, <1>3, <1>4

(* No record is dropped, after any number of destroys and whatever went    *)
(* wrong in them, while the resource exists.                               *)
THEOREM DeleteForgetsNothing ==
  ASSUME "getless" \notin Faults
  PROVE  Spec => []NothingForgotten
<1>1. Init => Remembered
  BY DEF Init, Remembered, NothingForgotten
<1>2. TypeOK /\ Remembered /\ [Next]_vars => Remembered'
  <2> SUFFICES ASSUME TypeOK, Remembered, [Next]_vars
               PROVE  Remembered'
    OBVIOUS
  <2>. USE ErrorsDiffer DEF Remembered, NothingForgotten, Return, Goto
  <2>1. CASE Refresh \/ Conclude \/ Start
    BY <2>1 DEF Refresh, Conclude, Start, cloud
  <2>2. ASSUME NEW f \in Fields, Clear(f) \/ ClearFails(f)
        PROVE  Remembered'
    BY <2>2 DEF Clear, ClearFails
  <2>3. CASE SendDelete
    <3>1. PICK answer \in Errors \cup {Nil} :
            /\ Handled(answer)
            /\ IF answer = Nil /\ config.async THEN Goto("await")
               ELSE Return(IF isNotFound(answer) THEN Nil ELSE answer)
      BY <2>3 DEF SendDelete
    <3>2. /\ exists' => exists
          /\ op' = "succeeded" => ~ exists'
          /\ isNotFound(answer) => ~ exists'
          /\ answer = Nil /\ ~ config.async => ~ exists'
      BY <3>1, HandledRemoves
    <3>3. pc' = "back" /\ err' = Nil => ~ exists'
      BY <3>1, <3>2
    <3>. QED
      BY <2>3, <3>1, <3>2, <3>3 DEF SendDelete
  <2>4. CASE DeleteLost
    BY <2>4 DEF DeleteLost
  <2>5. CASE Await
    <3>1. /\ pc' = "confirm" => err' # Nil
          /\ pc' \in {"confirm", "back"}
          /\ err' = Nil => op = "succeeded"
      BY <2>5, AwaitEnds
    <3>. QED
      BY <2>5, <3>1 DEF Await, cloud
  <2>6. CASE ConfirmGone
    <3>1. config.gettable
      BY DEF TypeOK, Configs
    <3>. QED
      BY <2>6, <3>1 DEF ConfirmGone, cloud
  <2>7. CASE HandleLate
    BY <2>7, HandledRemoves DEF HandleLate
  <2>8. CASE Finish
    BY <2>8 DEF Finish
  <2>9. CASE OthersChange \/ OthersDelete \/ CancelCaller
    BY <2>9 DEF OthersChange, OthersDelete, CancelCaller, cloud
  <2>10. CASE UNCHANGED vars
    BY <2>10 DEF vars, cloud
  <2>. QED
    BY <2>1, <2>2, <2>3, <2>4, <2>5, <2>6, <2>7, <2>8, <2>9, <2>10 DEF Next, Running
<1>3. Remembered => NothingForgotten
  BY DEF Remembered
<1>. QED
  BY <1>1, <1>2, <1>3, DeleteTypeCorrect, PTL DEF Spec

-----------------------------------------------------------------------------
(* What was gone when Delete was called stays gone, and its DELETE is      *)
(* answered 404: there is no operation to wait for.                        *)
GoneInv ==
  /\ NotFoundIsSuccess
  /\ pc \in {"clear", "back"} /\ wasGone => ~ exists
  /\ pc \in {"await", "confirm"} => ~ wasGone

(* A DELETE of what is not there is answered 404.                          *)
LEMMA HandledOfTheGone ==
  ASSUME NEW answer, Handled(answer), ~ exists
  PROVE  answer = NotFound /\ UNCHANGED <<exists, op>>
BY DEF Handled

(* Delete never returns a 404 for what was gone when it was called, once   *)
(* it has nothing left to clear; for any fields, faults and trouble, and   *)
(* for types without a get as well.                                        *)
THEOREM DeleteOfTheGoneSucceeds == Spec => []NotFoundIsSuccess
<1>1. Init => GoneInv
  BY DEF Init, GoneInv, NotFoundIsSuccess
<1>2. TypeOK /\ GoneInv /\ [Next]_vars => GoneInv'
  <2> SUFFICES ASSUME TypeOK, GoneInv, [Next]_vars
               PROVE  GoneInv'
    OBVIOUS
  <2>0. ~ isNotFound(Canceled) /\ ~ isNotFound(Transport)
    BY DEF isNotFound, Canceled, Transport, Failure
  <2>. USE <2>0, ErrorsDiffer DEF TypeOK, GoneInv, NotFoundIsSuccess, Return, Goto
  <2>1. CASE Refresh \/ Conclude
    BY <2>1 DEF Refresh, Conclude, cloud
  <2>2. CASE Start
    BY <2>2 DEF Start, cloud
  <2>3. ASSUME NEW f \in Fields, Clear(f) \/ ClearFails(f)
        PROVE  GoneInv'
    BY <2>3 DEF Clear, ClearFails
  <2>4. CASE SendDelete
    <3>1. PICK answer \in Errors \cup {Nil} :
            /\ Handled(answer)
            /\ IF answer = Nil /\ config.async THEN Goto("await")
               ELSE Return(IF isNotFound(answer) THEN Nil ELSE answer)
      BY <2>4 DEF SendDelete
    <3>2. wasGone => answer = NotFound /\ ~ exists'
      BY <2>4, <3>1, HandledOfTheGone DEF SendDelete
    <3>3. pc' = "back" => ~ isNotFound(err')
      BY <3>1
    <3>4. wasGone => pc' = "back"
      BY <3>1, <3>2
    <3>5. pc' \in {"await", "back"} /\ wasGone' = wasGone
      BY <2>4, <3>1 DEF SendDelete
    <3>. QED
      BY <3>2, <3>3, <3>4, <3>5
  <2>5. CASE DeleteLost
    BY <2>5 DEF DeleteLost
  <2>6. CASE Await
    BY <2>6, AwaitEnds DEF Await, cloud
  <2>7. CASE ConfirmGone
    BY <2>7 DEF ConfirmGone, cloud
  <2>8. CASE HandleLate
    BY <2>8, HandledOfTheGone DEF HandleLate
  <2>9. CASE Finish
    BY <2>9 DEF Finish
  <2>10. CASE OthersChange \/ OthersDelete \/ CancelCaller
    BY <2>10 DEF OthersChange, OthersDelete, CancelCaller, cloud
  <2>11. CASE UNCHANGED vars
    BY <2>11 DEF vars, cloud
  <2>. QED
    BY <2>1, <2>2, <2>3, <2>4, <2>5, <2>6, <2>7, <2>8, <2>9, <2>10, <2>11 DEF Next, Running
<1>3. GoneInv => NotFoundIsSuccess
  BY DEF GoneInv
<1>. QED
  BY <1>1, <1>2, <1>3, DeleteTypeCorrect, PTL DEF Spec
=============================================================================
