------------------------------ MODULE MCEncode ------------------------------
(***************************************************************************)
(* Encode on small instances, and its agreement with the encoder that the  *)
(* repository's tests use as the reference of the wire format.             *)
(***************************************************************************)
EXTENDS Encode, SequencesExt

V(a, b, d, e) == [j \in Lane |-> <<a, b, d, e>>[j + 1]]

\* One integer of each width; every byte tells its integer apart, and one has
\* a zero byte below its most significant one.
AllWidths == {V(7, 0, 0, 0), V(0, 9, 0, 0), V(17, 0, 19, 0), V(21, 22, 23, 24)}

\* The shortest and the longest integer.
Mixed == {V(1, 0, 0, 0), V(0, 0, 0, 128)}

\* For the run over all control bytes: with more than one group only the
\* shortest and the longest integers, in a destination of EncodedMaxLen, where
\* a kernel takes all groups, or of 8 bytes less, where it may leave one.
CodesCall ==
  /\ pc = "idle"
  /\ \E k \in Lengths : \E l \in 0 .. EncodedMaxLen(k) :
       /\ k > groupSize => EncodedMaxLen(k) - l \in {0, 8}
       /\ Addressable(k, l)
       /\ dst' \in [0 .. l + wide - 1 -> OldBytes]
       /\ src' \in [0 .. k - 1 -> IF k > groupSize THEN Mixed ELSE AllWidths]
       /\ CallOn(k, l)

CodesSpec == Init /\ [][CodesCall \/ Step \/ Stop]_vars

EveryValue == AllWidths \cup Mixed

-----------------------------------------------------------------------------
(* refEncode of streamvbyte_test.go: both streams grow by appending.       *)

refStep(s, v) ==
  LET full == s.shift = 8
  IN [ctrl  |-> IF full THEN Append(s.ctrl, s.key) ELSE s.ctrl,
      data  |-> s.data \o [j \in 1 .. code(v) + 1 |-> v[j - 1]],
      key   |-> IF full THEN code(v) ELSE s.key + shiftLeft(code(v), s.shift),
      shift |-> (IF full THEN 0 ELSE s.shift) + 2]

refEncode(vals) ==
  LET s == FoldLeft(refStep, [ctrl |-> <<>>, data |-> <<>>, key |-> 0, shift |-> 0],
                    vals)
  IN IF vals = <<>> THEN <<>> ELSE Append(s.ctrl, s.key) \o s.data

\* What a call returns is, byte for byte, what the reference encoder of the
\* tests (checkRoundTrip) computes for the same integers.
MatchesRefEncode ==
  pc = "returned" =>
    refEncode([i \in 1 .. n |-> src[i - 1]]) = [i \in 1 .. ret |-> dst[i - 1]]

=============================================================================
