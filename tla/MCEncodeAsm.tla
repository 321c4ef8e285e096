----------------------------- MODULE MCEncodeAsm -----------------------------
(***************************************************************************)
(* EncodeAsm on small instances.  The lengths of the destination are cut   *)
(* down to those at which the kernel takes all groups, or all but some.    *)
(***************************************************************************)
EXTENDS EncodeNotes

V(a, b, d, e) == [j \in Lane |-> <<a, b, d, e>>[j + 1]]

\* One integer of each width; every byte tells its integer apart.
AllWidths == {V(7, 0, 0, 0), V(0, 9, 0, 0), V(17, 0, 19, 0), V(21, 22, 23, 24)}

\* The shortest and the longest integer.
Short == V(1, 0, 0, 0)
Long  == V(0, 0, 0, 128)

AllValues == AllWidths \cup {Short, Long}

\* Groups of the shortest and the longest data, and in between in both orders.
Shapes == {<<Short, Short, Short, Short>>, <<Long, Long, Long, Long>>,
           <<Short, Long, Long, Short>>, <<Long, Short, Short, Long>>}

\* All control bytes for one group, the extremes for two.
Inputs(k) ==
  IF k = 4 THEN [0 .. 3 -> AllWidths]
  ELSE {[i \in 0 .. k - 1 |-> shape[i \div 4][(i % 4) + 1]] : shape \in [0 .. 1 -> Shapes]}

CONSTANT Missing   \* by how many bytes dst may be shorter than EncodedMaxLen

MCCall ==
  /\ pc = "idle"
  /\ \E k \in Lengths, miss \in Missing :
       LET l == EncodedMaxLen(k) - miss
       IN /\ dst' \in [0 .. l + wide - 1 -> OldBytes]
          /\ src' \in Inputs(k)
          /\ CallOn(k, l)

MCNext == (MCCall /\ UNCHANGED machineVars) \/ AsmStep \/ (Stop /\ UNCHANGED machineVars)

MCFairSpec == AsmInit /\ [][MCNext]_asmVars /\ WF_asmVars(AsmStep)

=============================================================================
