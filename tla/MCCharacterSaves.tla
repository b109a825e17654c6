-------------------------- MODULE MCCharacterSaves --------------------------
(***************************************************************************)
(* Small instances of CharacterSaves.                                      *)
(***************************************************************************)
EXTENDS CharacterSaves, TLC

CONSTANTS u1, u2, a1, a2

Others == Permutations(User) \cup Permutations(Account)
=============================================================================
