--------------------------- MODULE MCShellLoader ---------------------------
(* Two addresses, each fetched in the background and asked for ahead. *)
EXTENDS ShellLoader

CONSTANTS p1, p2, b1, b2, u1, u2, t1

MCJobs == {p1, p2, b1, b2}
MCAhead == {p1, p2}
MCUrls == {u1, u2}
MCUrlOf == [j \in MCJobs |-> IF j \in {p1, b1} THEN u1 ELSE u2]
MCTakers == {t1}
MCNoTakers == {}
=============================================================================
