----------------------------- MODULE MCSgsBuffer -----------------------------
(***************************************************************************)
(* TLC instance of SgsBuffer: a block of three bytes, two byte values,       *)
(* requests up to one byte longer than the block.                           *)
(***************************************************************************)
EXTENDS SgsBuffer

MCByte == {0, 1}
=============================================================================
