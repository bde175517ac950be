-------------------------- MODULE MCFixedArithmetic --------------------------
(* A type as wide as its word, and one of half a word. *)
EXTENDS FixedArithmetic

const_Types == {<<4, 4, 6, 1>>, <<8, 4, 6, 1>>}
=============================================================================
