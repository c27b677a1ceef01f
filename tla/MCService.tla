----------------------------- MODULE MCService -----------------------------
(* An instance of Service for TLC.  Job a fires onto its own stream, b onto *)
(* that of a, c onto that named as b is; the task is one of c, the run one  *)
(* of b, and both a and b are deleted.                                      *)
EXTENDS Service, TLC

CONSTANTS a, b, c, t, r, d, e
AcrossTargets == (a :> NoTarget) @@ (b :> a) @@ (c :> b)
WorkJobs == (t :> c) @@ (r :> b) @@ (d :> a) @@ (e :> b)
=============================================================================
