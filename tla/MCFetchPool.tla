---------------------------- MODULE MCFetchPool ----------------------------
(* A pool of at most two threads, two jobs and two takers. *)
EXTENDS FetchPool

CONSTANTS j1, j2, t1, t2

MCJobs == {j1, j2}
MCTakers == {t1, t2}
=============================================================================
