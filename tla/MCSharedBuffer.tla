--------------------------- MODULE MCSharedBuffer ---------------------------
(***************************************************************************)
(* SharedBuffer on small instances, with the inductive invariant that      *)
(* SharedBufferProofs defines beside its proof.                            *)
(***************************************************************************)
EXTENDS SharedBufferProofs

V(a, b, d, e) == [j \in Lane |-> <<a, b, d, e>>[j + 1]]

\* The shortest and the longest integer.
Mixed == {V(1, 0, 0, 0), V(0, 0, 0, 128)}

=============================================================================
