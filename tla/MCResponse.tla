----------------------------- MODULE MCResponse -----------------------------
(* Response for TLC, with an int of six bits and ShrinkAbove at four bytes.  *)
EXTENDS Response

SomeSizes == {0, 1, 3, 4, 5, 8, 15, 16, 31, 32, 40, 63, 64, 65, 70}
=============================================================================
