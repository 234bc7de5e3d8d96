---------------------------- MODULE MCThreadPool ----------------------------
(* Three threads, two callers, three runs: a worker can sleep through a run  *)
(* it is not in the team of and meet the next one late.                      *)
EXTENDS ThreadPool
=============================================================================
