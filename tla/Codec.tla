------------------------------- MODULE Codec -------------------------------
(***************************************************************************)
(* The codec as it runs: what a type holds is read and written by the step *)
(* that reads and writes the type.  A configuration gives these operators  *)
(* to the constants Read, Write and Loses, and so closes the recursion.    *)
(***************************************************************************)
EXTENDS Messages

\* bftype_from_bitstream, bftype_to_bits, and what is lost.  TLC's coverage would
\* follow a recursion without the LET for ever.

ReadType(type, stream, self) == LET result == ReadStep(type, stream, self) IN result
WriteType(type, value, self) == LET result == WriteStep(type, value, self) IN result
LosesType(type, value, self) == LET result == LosesStep(type, value, self) IN result
=============================================================================
