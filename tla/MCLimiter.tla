----------------------------- MODULE MCLimiter -----------------------------
(* The watched limiter for TLC: three callers of one (project, API) pair.  *)
EXTENDS LimiterWindow
=============================================================================
