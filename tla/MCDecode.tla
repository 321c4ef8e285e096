------------------------------ MODULE MCDecode ------------------------------
(***************************************************************************)
(* Decode on small instances.  Every data byte tells its position apart,   *)
(* so that a byte taken from anywhere else shows.                          *)
(***************************************************************************)
EXTENDS Decode, Sequences

\* The first m bytes of a stream that starts with the control bytes keys.
Stream(keys, m) ==
  [len |-> m, at |-> [i \in 0 .. m - 1 |-> IF i < Len(keys) THEN keys[i + 1]
                                                           ELSE 100 + i]]

\* Three control bytes with the shortest, the longest or mixed integers, cut
\* anywhere: three complete groups take 3 + 48 bytes at most.
Keys       == {0, 228, 255}
CutStreams == {Stream(<<a, b, d>>, m) : a, b, d \in Keys, m \in 0 .. 40}

\* Every control byte, with all the bytes of a wide load and with too few.
AllKeys == {Stream(<<k>>, m) : k \in Byte, m \in {15, 17, 22}}

\* Complete streams, to the end of a wide load of the first group.
WholeStreams == {Stream(<<a, b>>, 36) : a, b \in Keys}

Filled == {[j \in Lane |-> 170]}

SomeCounts == {-1, 0, 1, 4, 5, 8, 9}

=============================================================================
