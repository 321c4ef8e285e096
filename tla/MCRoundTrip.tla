----------------------------- MODULE MCRoundTrip -----------------------------
(* RoundTrip on small instances. *)
EXTENDS RoundTrip, Sequences

V(a, b, d, e) == [j \in Lane |-> <<a, b, d, e>>[j + 1]]

\* The shortest and the longest integer.
Mixed == {V(1, 0, 0, 0), V(2, 0, 0, 128)}

=============================================================================
