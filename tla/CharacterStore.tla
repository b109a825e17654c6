--------------------------- MODULE CharacterStore ---------------------------
(***************************************************************************)
(* What RealmCharacters promises to the accounts whose characters it       *)
(* keeps, whatever saves are begun, mixed up, repeated or left incomplete, *)
(* and whenever the server stops: a character appears whole, for an        *)
(* account that exists and from a save that made no other; it stays with   *)
(* that account, under a number that is never given again; and it changes  *)
(* at once, from one whole character to another.                           *)
(***************************************************************************)
EXTENDS Integers

CONSTANTS
  Account,       (* the accounts                                            *)
  Save,          (* the saves that clients begin                            *)
  Piece,         (* the pieces of data that clients send                    *)
  Full,          (* how many make a whole character                         *)
  MaxCharacters, (* bound on the characters ever stored                     *)
  NoRow          (* what stands where there is no character                 *)

VARIABLES
  accounts,      \* the accounts that exist
  rows,          \* the characters, by number
  characters     \* how many numbers were given

vars == <<accounts, rows, characters>>

Character == 1 .. MaxCharacters

\* What a whole character consists of.
Whole == [1 .. Full -> Piece]

Exists(c) == rows[c] # NoRow

Init ==
  /\ accounts = {}
  /\ rows = [c \in Character |-> NoRow]
  /\ characters = 0

Register(a) ==
  /\ a \notin accounts
  /\ accounts' = accounts \cup {a}
  /\ UNCHANGED <<rows, characters>>

Create(a, s) ==
  /\ a \in accounts
  /\ \A c \in Character : Exists(c) => rows[c].made # s
  /\ characters < MaxCharacters
  /\ characters' = characters + 1
  /\ \E whole \in Whole :
       rows' = [rows EXCEPT ![characters + 1] =
                  [account |-> a, made |-> s, data |-> whole]]
  /\ UNCHANGED accounts

Replace(c) ==
  /\ Exists(c)
  /\ UNCHANGED <<accounts, characters>>
  /\ \E whole \in Whole : rows' = [rows EXCEPT ![c].data = whole]

Remove(c) ==
  /\ Exists(c)
  /\ UNCHANGED <<accounts, characters>>
  /\ rows' = [rows EXCEPT ![c] = NoRow]

Next ==
  \/ \E a \in Account : Register(a)
  \/ \E a \in Account, s \in Save : Create(a, s)
  \/ \E c \in Character : Replace(c) \/ Remove(c)

Spec == Init /\ [][Next]_vars

=============================================================================
