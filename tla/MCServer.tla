------------------------------ MODULE MCServer ------------------------------
(* Server for TLC.                                                           *)
EXTENDS Server, TLC

\* Clients are only compared with one another, and asked whether they may hang up.
Symmetry == {p \in Permutations(Clients) : {p[c] : c \in MayHangUp} = MayHangUp}
=============================================================================
