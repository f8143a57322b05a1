--------------------------------- MODULE Maps ---------------------------------
(***************************************************************************)
(* Go maps are functions here, from the keys that are set.                 *)
(***************************************************************************)

\* What f says, and what only g says.
Extend(f, g) == [k \in DOMAIN f \cup DOMAIN g |-> IF k \in DOMAIN f THEN f[k] ELSE g[k]]
=============================================================================
