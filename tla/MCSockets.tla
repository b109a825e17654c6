----------------------------- MODULE MCSockets -----------------------------
(***************************************************************************)
(* Small instances of Sockets.                                             *)
(***************************************************************************)
EXTENDS Sockets, TLC

CONSTANTS s1, s2

\* The connections are alike.
Others == Permutations(Socket)
=============================================================================
