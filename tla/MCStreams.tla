------------------------------ MODULE MCStreams ------------------------------
(***************************************************************************)
(* Small instances of Streams.  Texts of one and two characters: one does  *)
(* not fill a block of four bytes, the other does.                         *)
(***************************************************************************)
EXTENDS Streams

MCTextLength == [t \in 0 .. 2 |-> t]
MCMeta == {<<>>, <<<<1, 0>>>>, <<<<1, 2>>, <<2, 0>>>>}
MCBlob == {<<>>, <<1>>, <<1, 2>>, <<1, 2, 3>>, <<1, 2, 3, 4>>}
=============================================================================
