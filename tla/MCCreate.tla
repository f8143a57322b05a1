------------------------------ MODULE MCCreate ------------------------------
(* Create for TLC: every fault, and a readback that fails alone. *)
EXTENDS Create

EveryFault == AllFaults
OnlyUnread == {"unread"}
=============================================================================
