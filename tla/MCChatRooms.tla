---------------------------- MODULE MCChatRooms ----------------------------
(***************************************************************************)
(* A small instance of ChatRooms: two public rooms and two names for others.*)
(***************************************************************************)
EXTENDS ChatRooms, TLC

CONSTANTS u1, u2, u3, reborn, epic, party, empty

MCPublicName == [r \in 0 .. 1 |-> IF r = 0 THEN reborn ELSE epic]

Others == Permutations(User)
=============================================================================
