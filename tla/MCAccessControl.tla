---------------------------- MODULE MCAccessControl ----------------------------
(* Small instances of AccessControl for TLC.                               *)
EXTENDS AccessControl, TLC

CONSTANTS c1, c2, u1, u2, r1, r2

MCCards    == {c1, c2}
MCUsers    == {u1, u2}
MCRequests == {r1, r2}

\* Cards are alike, and so are readers and requests.
Alike == Permutations(MCCards) \cup Permutations(MCUsers) \cup Permutations(MCRequests)

MCAvailable == {"AVAILABLE"}
MCDeskMoves == BlockMoves \cup UnblockMoves \cup CancelMoves
MCAllMoves  == MCDeskMoves \cup UncancelMoves

=============================================================================
