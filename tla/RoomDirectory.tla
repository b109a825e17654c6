--------------------------- MODULE RoomDirectory ---------------------------
(***************************************************************************)
(* What the list of chat rooms promises to those who look rooms up by id   *)
(* or by name, whoever enters, leaves, disconnects or starts a game: ids   *)
(* are given in order and never again, a room keeps its name while it is   *)
(* listed, no two listed rooms share one, public rooms stay, and no        *)
(* request takes more than one room off the list.                          *)
(***************************************************************************)
EXTENDS Integers

CONSTANTS
  RoomId,      (* a range of integers from 0                               *)
  Name,        (* room names                                               *)
  NoTitle,     (* what a room that is not listed shows                     *)
  Publics,     (* how many public rooms there are                          *)
  PublicName   (* their names, by id                                       *)

VARIABLES
  phase,       \* of a room: new, listed, gone
  title        \* the name of a listed room

vars == <<phase, title>>

Listed(r) == phase[r] = "listed"

Init ==
  /\ phase = [r \in RoomId |-> IF r < Publics THEN "listed" ELSE "new"]
  /\ title = [r \in RoomId |-> IF r < Publics THEN PublicName[r] ELSE NoTitle]

List(r, n) ==
  /\ phase[r] = "new"
  /\ \A q \in RoomId : q < r => phase[q] # "new"
  /\ \A q \in RoomId : Listed(q) => title[q] # n
  /\ phase' = [phase EXCEPT ![r] = "listed"]
  /\ title' = [title EXCEPT ![r] = n]

Close(r) ==
  /\ Listed(r) /\ r >= Publics
  /\ phase' = [phase EXCEPT ![r] = "gone"]
  /\ title' = [title EXCEPT ![r] = NoTitle]

Next == \E r \in RoomId : Close(r) \/ \E n \in Name : List(r, n)

Spec == Init /\ [][Next]_vars

=============================================================================
