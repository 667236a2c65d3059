----------------------------- MODULE MCSyncJob -----------------------------
(* Small instances of SyncJob for TLC.                                      *)
EXTENDS SyncJob, TLC

CONSTANTS w1, w2

\* A position is closed, gets another entry and is closed again, which is what
\* makes one exit take the ticket of another; and a withdrawal.
ReopenKind     == <<"out", "in", "out", "cash">>
ReopenPosition == <<"p", "p", "p", "none">>
ReopenOrder    == <<1, 2, 3, 4>>

\* An order that closes a position in two fills, and a withdrawal.
FillsKind     == <<"in", "out", "out", "cash">>
FillsPosition == <<"p", "p", "p", "none">>
FillsOrder    == <<1, 2, 2, 3>>

\* A position that is opened and closed in one piece.
InOut       == <<"in", "out">>
OnePosition == <<"p", "p">>
TwoOrders   == <<1, 2>>

Sym == Permutations(Workers)
=============================================================================
