----------------------------- MODULE MCMutation -----------------------------
(* Mutation for TLC: every kind of answer GCP gives, none of them after    *)
(* the server acted; every kind of completion, and polls that fail in      *)
(* every way the handlers tell apart.                                      *)
EXTENDS Mutation

AllErrors == ApiErrors
NoErrors  == {}
SomePollErrors == {NotFound, Denied, Transport}
=============================================================================
