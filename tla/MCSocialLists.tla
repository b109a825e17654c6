---------------------------- MODULE MCSocialLists ----------------------------
(***************************************************************************)
(* Small instances of SocialLists.                                         *)
(***************************************************************************)
EXTENDS SocialLists, TLC

CONSTANTS u1, u2, u3, ann, bob, nobody

\* Places are alike, and so are handles.
Alike == Permutations(User) \cup Permutations(Handle)
=============================================================================
