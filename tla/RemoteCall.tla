---------------------------- MODULE RemoteCall -----------------------------
(***************************************************************************)
(* What the handlers of internal/gcprov may rely on when a call of         *)
(* Client.Do comes back: "ok" means the server acted, "refused" means it   *)
(* has not and never will, and "unknown" means nobody can tell: it may     *)
(* have acted, may yet act, or may never.  The server acts at most once.   *)
(***************************************************************************)
VARIABLES
  acted,      \* has the server acted on the request?
  outcome     \* what the caller was told

Init ==
  /\ acted = FALSE
  /\ outcome = "pending"

Act ==
  /\ ~ acted
  /\ outcome \in {"pending", "unknown"}
  /\ acted' = TRUE
  /\ UNCHANGED outcome

Tell(o) ==
  /\ outcome = "pending"
  /\ outcome' = o
  /\ UNCHANGED acted

Next ==
  \/ Act
  \/ Tell("ok") /\ acted
  \/ Tell("refused") /\ ~ acted
  \/ Tell("unknown")

Spec == Init /\ [][Next]_<<acted, outcome>>
=============================================================================
