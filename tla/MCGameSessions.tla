--------------------------- MODULE MCGameSessions ---------------------------
(***************************************************************************)
(* Small instances of GameSessions.                                        *)
(***************************************************************************)
EXTENDS GameSessionsInv, TLC

CONSTANTS u1, u2, u3, plain, staged, empty

\* A public game called `plain' and one called `staged' are stored alike, and
\* a private game may be given that name too.
MCStaged == [n \in Name |-> staged]

\* The largest count and the least.
MCReports == {MaxCount, -(MaxCount + 1)} \X {MaxCount}

\* What clients ask for.
BothKinds == {staged} \X BOOLEAN
OnePublic == {<<staged, TRUE>>}

Twins == Permutations(User)
=============================================================================
