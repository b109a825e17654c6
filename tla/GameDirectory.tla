--------------------------- MODULE GameDirectory ---------------------------
(***************************************************************************)
(* What the game directory promises to those who read it, whatever the     *)
(* threads do in between: a game is announced once, in the order the ids   *)
(* are drawn, under a title that never changes; it opens at most once; and *)
(* when it is over it never comes back.  Names are not taken twice, save   *)
(* by public games of Champions of Norrath.                                *)
(***************************************************************************)
EXTENDS Integers

CONSTANTS
  GameId,     (* a range of integers from 0                                *)
  Name,       (* game names                                                *)
  NoName,     (* the empty name, which any number of games may have        *)
  NoTitle     (* what a game that is not announced shows                   *)

VARIABLES
  phase,      \* of a game: new, closed, open, over
  title       \* kind, public or private, and name of an announced game

vars == <<phase, title>>

Title == [kind : {"CON", "RTA"}, public : BOOLEAN, name : Name]

Init ==
  /\ phase = [g \in GameId |-> "new"]
  /\ title = [g \in GameId |-> NoTitle]

Shown(g) == phase[g] \in {"closed", "open"}

MayTake(t) ==
  \/ t.name = NoName
  \/ t.kind = "CON" /\ t.public
  \/ \A h \in GameId :
       Shown(h) => title[h].name # t.name \/ title[h].kind # t.kind

Announce(g, t) ==
  /\ phase[g] = "new"
  /\ \A h \in GameId : h < g => phase[h] # "new"
  /\ MayTake(t)
  /\ phase' = [phase EXCEPT ![g] = "closed"]
  /\ title' = [title EXCEPT ![g] = t]

Open(g) ==
  /\ phase[g] = "closed"
  /\ phase' = [phase EXCEPT ![g] = "open"]
  /\ UNCHANGED title

End(g) ==
  /\ Shown(g)
  /\ phase' = [phase EXCEPT ![g] = "over"]
  /\ UNCHANGED title

Next ==
  \E g \in GameId :
    \/ \E t \in Title : Announce(g, t)
    \/ Open(g)
    \/ End(g)

Spec == Init /\ [][Next]_vars

=============================================================================
