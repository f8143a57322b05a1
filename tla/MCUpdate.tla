------------------------------ MODULE MCUpdate ------------------------------
(* Update for TLC: two fields, two setters with a lock each, and every     *)
(* style of update whose requests can carry a lock.                        *)
EXTENDS Update

CONSTANTS secondaryRanges, logConfig, setLabels, setTarget

TwoFields  == {secondaryRanges, logConfig}
TwoSetters == {setLabels, setTarget}
Protected  == AllStyles \ {"bareput"}
EveryFault == AllFaults
=============================================================================
