--------------------------- MODULE MCHttp2Session ---------------------------
(* Instances of a session: two requests, with and without a body, and     *)
(* a server whose SETTINGS stay as they are or change while requests go.       *)
EXTENDS Http2Session, TLC

CONSTANTS r1, r2

MCTwo == {r1, r2}
MCNobody == {}
MCOne == {r1}

\* The server's SETTINGS: until the first, a limit of one stream.
MCPlain == [limit |-> 2, window |-> 1, frame |-> 2]
MCOneSlot == [limit |-> 1, window |-> 1, frame |-> 2]
MCShut == [limit |-> 0, window |-> 1, frame |-> 2]
MCWide == [limit |-> 1, window |-> 2, frame |-> 1]

MCLimitRises == {MCPlain}
MCShutOrWide == {MCShut, MCWide}

\* What may happen to the session.
MCServerAndNetwork == {"act", "reset", "goaway", "lost", "badFrame", "error"}
MCClosed == {"close"}

Symmetry == Permutations(MCTwo)
=============================================================================
