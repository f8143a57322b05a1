---------------------------- MODULE CreateProofs ----------------------------
(***************************************************************************)
(* Create.tla for every set of faults and any number of setters: its type, *)
(* that it tells the truth about what it made, and the rule "once GCP has  *)
(* created something, no path below returns an error" where nothing goes   *)
(* wrong around it.                                                        *)
(***************************************************************************)
EXTENDS Create, TLAPS

(* Every variable of Create ranges over what the module's header says.     *)
THEOREM CreateTypeCorrect == Spec => []TypeOK
<1>1. Init => TypeOK
  <2> SUFFICES ASSUME Init
               PROVE  TypeOK
    OBVIOUS
  <2>1. config.taken \in BOOLEAN
    BY DEF Init, Configs, Bools
  <2>2. 0 \in 0..MaxSetters
    BY CreateAssumption
  <2>. QED
    BY <2>1, <2>2 DEF Init, TypeOK, Targets
<1>2. TypeOK /\ [Next]_vars => TypeOK'
  <2> SUFFICES ASSUME TypeOK, [Next]_vars
               PROVE  TypeOK'
    OBVIOUS
  <2>. USE CreateAssumption DEF TypeOK
  <2>1. CASE Handle \/ Finish \/ Appear \/ CancelCaller \/ PatienceEnds
    BY <2>1 DEF Handle, Finish, Appear, CancelCaller, PatienceEnds, Bools, cloud, local
  <2>2. CASE Refuse \/ Post \/ PostRefused \/ PostLost \/ PostAnswered
    BY <2>2 DEF Refuse, Post, PostRefused, PostLost, PostAnswered, Return, cloud, local
  <2>3. CASE Awaited
    <3>1. target' \in Targets
      BY <2>3 DEF Awaited, Configs
    <3>. QED
      BY <2>3, <3>1 DEF Awaited, cloud
  <2>4. CASE Identify
    BY <2>4 DEF Identify, createdID, cloud
  <2>5. CASE ReadFound \/ ReadNotFound \/ Sleep \/ ReadFails \/ Resolve
    BY <2>5 DEF ReadFound, ReadNotFound, Sleep, ReadFails, Resolve, Return, cloud, local
  <2>6. CASE SetAfterCreate \/ Refresh
    BY <2>6 DEF SetAfterCreate, Refresh, Return, cloud, local
  <2>7. CASE UNCHANGED vars
    BY <2>7 DEF vars, cloud, local
  <2>. QED
    BY <2>1, <2>2, <2>3, <2>4, <2>5, <2>6, <2>7 DEF Next, Step
<1>. QED
  BY <1>1, <1>2, PTL DEF Spec

-----------------------------------------------------------------------------
(* What the cloud has made goes with how far the creation has come. *)
CloudInv ==
  /\ request = "unsent" => answer = "none"
  /\ answer # "operation" => op = "none"
  /\ request = "out" => answer = "none"
  /\ request = "handled" => answer # "none"
  /\ op \in {"none", "running"} => ~ made
  /\ op = "succeeded" => made
  /\ ~ config.async /\ answer = "operation" => op = "succeeded"

(* How much of that each point of Create can rely on. *)
LocalInv ==
  /\ result = "pending" <=> pc # "done"
  /\ pc = "start" => request = "unsent"
  /\ request = "out" => pc = "post" \/ postErr = "unknown"
  /\ pc \in {"await", "identify", "read", "sleep", "resolve", "setters", "refresh"} =>
       answer = "operation" /\ postErr = "none"
  /\ postErr = "refused" => answer = "refused"
  /\ pc \in {"start", "post", "await"} => awaitErr = "none" /\ postErr = "none"
  /\ awaitErr # "none" => postErr = "none"
  /\ awaitErr = "operation" => op = "failed"
  /\ pc \in {"start", "post", "await"} => target = "nothing"
  /\ awaitErr # "none" => target = "nothing"
  /\ id = "deeper" => target = "deeper"
  /\ pc \in {"identify", "read", "sleep", "resolve"} /\ awaitErr = "none" => op = "succeeded"
  /\ pc \in {"start", "post", "await", "identify", "read", "sleep", "setters", "refresh"} =>
       readback = "none"
  /\ pc = "resolve" => readback # "none"
  /\ pc \in {"setters", "refresh"} => made \/ Adopted

(* What the result promised still holds, whatever GCP did since. *)
ResultInv ==
  /\ visible => made \/ config.taken
  /\ result = "state" => made \/ Adopted
  /\ result = "error" => Doubtful \/ (~ made /\ request # "out" /\ op # "running")

CreateInv == CloudInv /\ LocalInv /\ ResultInv

LEMMA InvInitially ==
  ASSUME Init
  PROVE  CreateInv
BY DEF Init, CreateInv, CloudInv, LocalInv, ResultInv

(* GCP's own steps: they never touch Create's locals. *)
LEMMA CloudStepKeepsInv ==
  ASSUME TypeOK, CreateInv, Handle \/ Finish \/ Appear
  PROVE  CreateInv'
<1>. USE DEF TypeOK, CreateInv, CloudInv, LocalInv, ResultInv, Doubtful, Adopted
<1>1. CASE Handle
  BY <1>1 DEF Handle, local
<1>2. CASE Finish
  BY <1>2 DEF Finish, local
<1>3. CASE Appear
  BY <1>3 DEF Appear, local
<1>. QED
  BY <1>1, <1>2, <1>3

(* Create's steps up to the point where it knows what its POST became. *)
LEMMA PostStepKeepsInv ==
  ASSUME TypeOK, CreateInv,
         Refuse \/ Post \/ PostRefused \/ PostLost \/ PostAnswered \/ Awaited
  PROVE  CreateInv'
<1>. USE DEF TypeOK, CreateInv, CloudInv, LocalInv, ResultInv, Doubtful, Adopted, Return
<1>1. CASE Refuse
  BY <1>1 DEF Refuse, cloud, local
<1>2. CASE Post
  BY <1>2 DEF Post, local
<1>3. CASE PostRefused
  BY <1>3 DEF PostRefused, cloud
<1>4. CASE PostLost
  BY <1>4 DEF PostLost, cloud
<1>5. CASE PostAnswered
  BY <1>5 DEF PostAnswered, cloud, local
<1>6. CASE Awaited
  BY <1>6 DEF Awaited, cloud
<1>. QED
  BY <1>1, <1>2, <1>3, <1>4, <1>5, <1>6

(* The readback, and everything after it. *)
LEMMA ReadStepKeepsInv ==
  ASSUME TypeOK, CreateInv,
         \/ Identify \/ ReadFound \/ ReadNotFound \/ Sleep \/ ReadFails \/ PatienceEnds
         \/ Resolve \/ SetAfterCreate \/ Refresh
  PROVE  CreateInv'
<1>. USE DEF TypeOK, CreateInv, CloudInv, LocalInv, ResultInv, Doubtful, Adopted, Return
<1>1. CASE Identify
  BY <1>1 DEF Identify, createdID, cloud
<1>2. CASE ReadFound
  BY <1>2 DEF ReadFound, cloud
<1>3. CASE ReadNotFound
  BY <1>3 DEF ReadNotFound, cloud
<1>4. CASE Sleep
  BY <1>4 DEF Sleep, cloud, local
<1>5. CASE ReadFails
  BY <1>5 DEF ReadFails, cloud
<1>6. CASE PatienceEnds
  BY <1>6 DEF PatienceEnds, cloud
<1>7. CASE Resolve
  BY <1>7 DEF Resolve, cloud, local
<1>8. CASE SetAfterCreate
  BY <1>8 DEF SetAfterCreate, cloud
<1>9. CASE Refresh
  BY <1>9 DEF Refresh, cloud, local
<1>. QED
  BY <1>1, <1>2, <1>3, <1>4, <1>5, <1>6, <1>7, <1>8, <1>9

LEMMA InvInductive ==
  ASSUME TypeOK, CreateInv, [Next]_vars
  PROVE  CreateInv'
<1>1. CASE CancelCaller \/ UNCHANGED vars
  BY <1>1 DEF CancelCaller, vars, cloud, local, CreateInv, CloudInv, LocalInv, ResultInv, Doubtful, Adopted
<1>. QED
  BY <1>1, CloudStepKeepsInv, PostStepKeepsInv, ReadStepKeepsInv DEF Next, Step

LEMMA InvAlways == Spec => []CreateInv
<1>1. Init => CreateInv
  BY InvInitially
<1>2. TypeOK /\ CreateInv /\ [Next]_vars => CreateInv'
  BY InvInductive
<1>. QED
  BY <1>1, <1>2, CreateTypeCorrect, PTL DEF Spec

-----------------------------------------------------------------------------
(* Create tells the truth in every environment, up to the named doubts: it *)
(* implements the remote call its host takes it for.                       *)
THEOREM CreateTellsTheTruth == Spec => TellsTheTruth
<1>1. Init => Remote!Init
  BY DEF Init, Remote!Init, Outcome
<1>2. TypeOK /\ CreateInv /\ CreateInv' /\ [Next]_vars => [Remote!Next]_<<made, Outcome>>
  <2> SUFFICES ASSUME TypeOK, CreateInv, CreateInv', [Next]_vars
               PROVE  [Remote!Next]_<<made, Outcome>>
    OBVIOUS
  <2>1. CASE Step \/ PatienceEnds \/ CancelCaller
    <3>1. made' = made
      BY <2>1 DEF Step, Refuse, Post, PostRefused, PostLost, PostAnswered, Awaited, Identify,
              ReadFound, ReadNotFound, Sleep, ReadFails, Resolve, SetAfterCreate, Refresh,
              PatienceEnds, CancelCaller, cloud
    <3>2. CASE result = "pending"
      <4>1. Outcome = "pending"
        BY <3>2 DEF Outcome
      <4>2. CASE result' = "pending"
        BY <3>1, <4>1, <4>2 DEF Outcome
      <4>3. CASE result' = "state"
        <5>1. CASE Adopted'
          <6>1. Outcome' = "unknown"
            BY <4>3, <5>1 DEF Outcome
          <6>. QED
            BY <3>1, <4>1, <6>1 DEF Remote!Next, Remote!Tell
        <5>2. CASE ~ Adopted'
          <6>1. Outcome' = "ok" /\ made'
            BY <4>3, <5>2 DEF Outcome, CreateInv, ResultInv
          <6>. QED
            BY <3>1, <4>1, <6>1 DEF Remote!Next, Remote!Tell
        <5>. QED
          BY <5>1, <5>2
      <4>4. CASE result' = "error" /\ Doubtful'
        <5>1. Outcome' = "unknown"
          BY <4>4 DEF Outcome
        <5>. QED
          BY <3>1, <4>1, <5>1 DEF Remote!Next, Remote!Tell
      <4>5. CASE result' = "error" /\ ~ Doubtful'
        <5>1. Outcome' = "refused"
          BY <4>5 DEF Outcome
        <5>2. ~ made'
          BY <4>5 DEF CreateInv, ResultInv
        <5>. QED
          BY <3>1, <4>1, <5>1, <5>2 DEF Remote!Next, Remote!Tell
      <4>6. result' \in {"pending", "state", "error"}
        BY <2>1, <3>2 DEF Step, Refuse, Post, PostRefused, PostLost, PostAnswered, Awaited,
              Identify, ReadFound, ReadNotFound, Sleep, ReadFails, Resolve, SetAfterCreate,
              Refresh, PatienceEnds, CancelCaller, Return, cloud
      <4>. QED
        BY <4>2, <4>3, <4>4, <4>5, <4>6
    <3>3. CASE result # "pending"
      <4>1. pc = "done"
        BY <3>3 DEF CreateInv, LocalInv
      <4>2. CancelCaller
        BY <2>1, <4>1 DEF Step, Refuse, Post, PostRefused, PostLost, PostAnswered, Awaited,
              Identify, ReadFound, ReadNotFound, Sleep, ReadFails, Resolve, SetAfterCreate,
              Refresh, PatienceEnds
      <4>3. Outcome' = Outcome
        BY <4>2, <3>1 DEF CancelCaller, local, Outcome, Doubtful, Adopted
      <4>. QED
        BY <3>1, <4>3
    <3>. QED
      BY <3>2, <3>3
  <2>2. CASE Handle \/ Finish
    <3>1. ~ made /\ UNCHANGED <<config, result, postErr, awaitErr, readback>>
      BY <2>2 DEF Handle, Finish, local, CreateInv, CloudInv, TypeOK
    <3>2. awaitErr # "operation"
      BY <2>2 DEF Handle, Finish, CreateInv, CloudInv, LocalInv
    <3>3. Outcome' = Outcome
      BY <3>1, <3>2 DEF Outcome, Doubtful, Adopted
    <3>4. result = "state" => Outcome = "unknown"
      BY <3>1 DEF Outcome, CreateInv, ResultInv
    <3>5. Outcome \in {"pending", "unknown"} \/ made' = made
      <4>1. CASE result = "error"
        <5>1. Doubtful
          BY <2>2, <4>1 DEF Handle, Finish, CreateInv, ResultInv
        <5>. QED
          BY <4>1, <5>1 DEF Outcome
      <4>2. CASE result = "pending"
        BY <4>2 DEF Outcome
      <4>. QED
        BY <3>4, <4>1, <4>2 DEF TypeOK
    <3>6. made' = made \/ made' = TRUE
      BY <2>2 DEF Handle, Finish, Bools, TypeOK, CreateInv, CloudInv
    <3>7. CASE made' = made
      BY <3>3, <3>7
    <3>8. CASE made' = TRUE /\ made' # made
      <4>1. Outcome \in {"pending", "unknown"}
        BY <3>5, <3>8
      <4>2. Remote!Act
        BY <3>1, <3>3, <3>8, <4>1 DEF Remote!Act
      <4>. QED
        BY <4>2 DEF Remote!Next
    <3>. QED
      BY <3>6, <3>7, <3>8
  <2>3. CASE Appear \/ UNCHANGED vars
    BY <2>3 DEF Appear, vars, cloud, local, Outcome, Doubtful, Adopted
  <2>. QED
    BY <2>1, <2>2, <2>3 DEF Next
<1>. QED
  BY <1>1, <1>2, CreateTypeCorrect, InvAlways, PTL DEF Spec, TellsTheTruth, Remote!Spec

-----------------------------------------------------------------------------
(* Without faults nothing is ever doubtful. *)
CalmInv ==
  /\ postErr # "unknown"
  /\ awaitErr # "unknown"
  /\ op = "failed" => ~ made
  /\ pc = "identify" /\ awaitErr = "none" => target = config.names
  /\ readback = "failed" => awaitErr = "operation"

(* "once GCP has created something, no path below returns an error": so it *)
(* is in an environment that does nothing wrong, eventual consistency,     *)
(* failing operations and unusable targets notwithstanding.                *)
THEOREM CalmCreateOrphansNothing ==
  ASSUME Faults = {}
  PROVE  Spec => []NoOrphan
<1>1. Init => CalmInv
  BY DEF Init, CalmInv
<1>2. TypeOK /\ CreateInv /\ CalmInv /\ [Next]_vars => CalmInv'
  <2> SUFFICES ASSUME TypeOK, CreateInv, CalmInv, [Next]_vars
               PROVE  CalmInv'
    OBVIOUS
  <2>. USE DEF CalmInv
  <2>1. CASE Handle \/ Finish \/ Appear \/ CancelCaller \/ PatienceEnds
    <3>1. CASE Finish
      <4>1. Bools("residue") = {FALSE}
        BY DEF Bools
      <4>2. op' = "failed" => ~ made'
        BY <3>1, <4>1 DEF Finish
      <4>. QED
        BY <3>1, <4>2 DEF Finish, local
    <3>2. CASE Handle \/ Appear \/ CancelCaller \/ PatienceEnds
      BY <3>2 DEF Handle, Appear, CancelCaller, PatienceEnds, local, cloud, CreateInv, CloudInv,
              TypeOK
    <3>. QED
      BY <2>1, <3>1, <3>2
  <2>2. CASE Refuse \/ Post \/ PostRefused \/ PostLost \/ PostAnswered \/ Awaited
    BY <2>2 DEF Refuse, Post, PostRefused, PostLost, PostAnswered, Awaited, Return, local, cloud,
            CreateInv, LocalInv
  <2>3. CASE Identify
    <3>1. config.byName \/ config.names = "resource"
      BY DEF TypeOK, Configs
    <3>2. awaitErr \in {"none", "operation"}
      BY DEF TypeOK
    <3>3. CASE awaitErr = "none"
      BY <2>3, <3>1, <3>3 DEF Identify, createdID, cloud
    <3>4. CASE awaitErr = "operation"
      BY <2>3, <3>4 DEF Identify, cloud
    <3>. QED
      BY <3>2, <3>3, <3>4
  <2>4. CASE ReadFound \/ ReadNotFound \/ Sleep \/ ReadFails \/ Resolve
    BY <2>4 DEF ReadFound, ReadNotFound, Sleep, ReadFails, Resolve, Return, local, cloud
  <2>5. CASE SetAfterCreate \/ Refresh
    BY <2>5 DEF SetAfterCreate, Refresh, Return, local, cloud
  <2>6. CASE UNCHANGED vars
    BY <2>6 DEF vars, local, cloud
  <2>. QED
    BY <2>1, <2>2, <2>3, <2>4, <2>5, <2>6 DEF Next, Step
<1>3. CreateInv /\ CalmInv => NoOrphan
  BY DEF CreateInv, CloudInv, LocalInv, ResultInv, CalmInv, NoOrphan, Doubtful
<1>. QED
  BY <1>1, <1>2, <1>3, CreateTypeCorrect, InvAlways, PTL DEF Spec

(* Nothing but the resource itself is ever recorded, or what only a flat   *)
(* type can tell from it: an id is computed from the await's target only   *)
(* when that is so, and from the attributes otherwise.                     *)
Believed == id = "resource" \/ (id = "deeper" /\ ~ config.flat)

IdInv ==
  /\ id = "none" \/ Believed
  /\ pc \in {"read", "sleep", "setters", "refresh"} => Believed
  /\ pc = "resolve" /\ readback = "absent" => Believed
  /\ pc = "resolve" => readback # "none"
  /\ result = "pending" <=> pc # "done"
  /\ result = "state" => Believed

(* "the difference between an identity that is well-formed and one that is *)
(* this resource's", for every environment, a name in use included.        *)
THEOREM CreateRecordsItsOwn == Spec => []RecordsItsOwn
<1>1. Init => IdInv
  BY DEF Init, IdInv
<1>2. IdInv /\ [Next]_vars => IdInv'
  <2> SUFFICES ASSUME IdInv, [Next]_vars
               PROVE  IdInv'
    OBVIOUS
  <2>. USE DEF IdInv, Believed
  <2>1. CASE Handle \/ Finish \/ Appear \/ CancelCaller \/ PatienceEnds
    BY <2>1 DEF Handle, Finish, Appear, CancelCaller, PatienceEnds, local
  <2>2. CASE Refuse \/ Post \/ PostRefused \/ PostLost \/ PostAnswered \/ Awaited
    BY <2>2 DEF Refuse, Post, PostRefused, PostLost, PostAnswered, Awaited, Return, local
  <2>3. CASE Identify
    BY <2>3 DEF Identify, createdID
  <2>4. CASE ReadFound \/ ReadNotFound \/ Sleep \/ ReadFails \/ Resolve
    BY <2>4 DEF ReadFound, ReadNotFound, Sleep, ReadFails, Resolve, Return, local
  <2>5. CASE SetAfterCreate \/ Refresh
    BY <2>5 DEF SetAfterCreate, Refresh, Return, local
  <2>6. CASE UNCHANGED vars
    BY <2>6 DEF vars, local
  <2>. QED
    BY <2>1, <2>2, <2>3, <2>4, <2>5, <2>6 DEF Next, Step
<1>3. IdInv => RecordsItsOwn
  BY DEF IdInv, Believed, RecordsItsOwn
<1>. QED
  BY <1>1, <1>2, <1>3, PTL DEF Spec
=============================================================================
