----------------------------- MODULE MCDecodeAsm -----------------------------
(***************************************************************************)
(* DecodeAsm on small instances.  Every data byte tells its position       *)
(* apart, so that a byte taken from anywhere else shows.                   *)
(***************************************************************************)
EXTENDS DecodeNotes

\* The first m bytes of a stream that starts with the control bytes keys.
Stream(keys, m) ==
  [len |-> m, at |-> [i \in 0 .. m - 1 |-> IF i < Len(keys) THEN keys[i + 1]
                                                           ELSE 100 + i]]

\* Every control byte, with the bytes of a wide load.
AllKeys == {Stream(<<k>>, 17) : k \in Byte}

\* Three groups of the shortest, the longest or mixed integers, complete or with
\* a wide load of the second or the third group that does not fit.
Keys    == {0, 228, 255}
Groups3 == {Stream(<<a, b, d>>, m) : a, b, d \in Keys, m \in {22, 25, 30, 40, 51}}

AllStreams == AllKeys \cup Groups3

Filled == [j \in Lane |-> 170]
FilledOnly == {Filled}

\* One group of each control byte; three groups, or two and an integer.
MCCall ==
  \/ \E s \in AllKeys : CallWith(4, 4, Filled, s.len, s.at)
  \/ \E s \in Groups3, k \in {9, 12} : CallWith(k, k + Slack, Filled, s.len, s.at)

MCNext == (MCCall /\ UNCHANGED machineVars) \/ AsmStep \/ (Stop /\ UNCHANGED machineVars)

MCFairSpec == AsmInit /\ [][MCNext]_asmVars /\ WF_asmVars(AsmStep)

=============================================================================
