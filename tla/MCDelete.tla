------------------------------ MODULE MCDelete ------------------------------
(* Delete for TLC: a policy with two fields to clear, and a plain type. *)
EXTENDS Delete

CONSTANTS networks, alternatives

TwoFields  == {networks, alternatives}
NoFields   == {}
EveryFault == AllFaults \ {"getless"}
Getless    == {"getless", "expired"}
=============================================================================
