------------------------------ MODULE Mutation ------------------------------
(***************************************************************************)
(* One mutation from its request to the end of its operation: Client.Do    *)
(* sends it (Client), and once it is answered awaitAs follows what the     *)
(* server made of it (Await), as crud.go, patch.go and setters.go do with  *)
(* every POST, PATCH, PUT and DELETE.  The operation, and how the answer   *)
(* shows it, are those of AwaitInit: nothing happens to it before the      *)
(* server acts, and nobody looks at it before Do returns without an error. *)
(***************************************************************************)
EXTENDS Client, Await

mutationVars == <<vars, awaitVars>>

MutationInit == Init /\ AwaitInit

(* Do, and the server and the network it speaks to. *)
Sending == (Step \/ ServerHandles \/ Lose) /\ UNCHANGED awaitVars

(* The operation of a request that the server has accepted, which may be   *)
(* one whose answer was lost.                                              *)
Operating == acted > 0 /\ Finish /\ UNCHANGED vars

Waiting == pc = "ok" /\ AwaitStep /\ UNCHANGED vars

(* The type's timeout runs from the beginning of the wait. *)
TimingOut == pc = "ok" /\ Expire /\ UNCHANGED vars

(* There is one caller, and one context: Do listens to it, the wait does   *)
(* not.                                                                    *)
Leaving == EndContext /\ CallerGoes

MutationNext == Sending \/ Operating \/ Waiting \/ TimingOut \/ Leaving

MutationSpec == MutationInit /\ [][MutationNext]_mutationVars

(* The goroutine runs; every wait of Do is bounded, the limiter's and the  *)
(* backoff's by their timers, the answer's by the round trip's bound       *)
(* (Timeout, or longPollBound); and the clock reaches the type's timeout.  *)
MutationFairSpec ==
  /\ MutationSpec
  /\ WF_mutationVars(Step /\ UNCHANGED awaitVars)
  /\ WF_mutationVars(Waiting)
  /\ WF_mutationVars(TimingOut)

-----------------------------------------------------------------------------
(* What the handler knows in the end: what Do told it, unless that was nil *)
(* and the wait has more to say.                                           *)
Told == IF Outcome = "ok" THEN Reported ELSE Outcome

Whole == INSTANCE RemoteCall
           WITH acted <- (acted > 0 /\ phase = "succeeded"), outcome <- Told

(* Request and wait together are one remote call, which is what Create,    *)
(* Update and Delete take them for: nil means that the mutation happened,  *)
(* a refusal or GCP's own operation error that it did not and never will,  *)
(* and anything else leaves it open.                                       *)
MutationIsARemoteCall == Whole!Spec

(* A mutation comes to an end, whether or not its caller goes away, the    *)
(* network works, the operation ends or a poll ever says so.               *)
MutationReturns == <>(pc = "failed" \/ stage = "returned")
=============================================================================
