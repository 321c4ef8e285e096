---------------------------- MODULE ShuffleTables ----------------------------
(***************************************************************************)
(* The seven tables that tables.go fills once, before any call: for each   *)
(* control byte the length of its data and the masks of the decode and     *)
(* encode shuffles, in the three conventions of the targets:               *)
(*                                                                         *)
(*   zeroIndex      an index that the lookup itself turns into a zero byte *)
(*   permZeroIndex  the first byte of an all-zero companion register       *)
(*   BE             permZeroIndex, with the bytes of each lane reversed    *)
(*                                                                         *)
(* The loop of init() keeps a cursor that grows by one at each byte that   *)
(* is present; cursor(key, lane) is its value when the loop enters a lane. *)
(***************************************************************************)
EXTENDS StreamVByte

zeroIndex == 255

permZeroIndex_LastByte == 15

permZeroIndex == 16

Index == 0 .. wide - 1        \* byte of a 16-byte vector or memory window

cursor(key, lane) ==
  lane + (IF lane > 0 THEN laneCode(key, 0) ELSE 0)
       + (IF lane > 1 THEN laneCode(key, 1) ELSE 0)
       + (IF lane > 2 THEN laneCode(key, 2) ELSE 0)
       + (IF lane > 3 THEN laneCode(key, 3) ELSE 0)

lengthTable_OneMore == [key \in Byte |-> cursor(key, groupSize) + 1]

\* Data bytes of the group: 4 + the sum of the four codes.
lengthTable == [key \in Byte |-> cursor(key, groupSize)]

-----------------------------------------------------------------------------
(* Decode masks: element i of the result belongs to lane i \div 4.         *)

\* The source of byte j of a lane: the next data byte, or nothing.
SpreadByte(key, lane, j, zero) ==
  IF j <= laneCode(key, lane) THEN cursor(key, lane) + j ELSE zero

shuffleTable ==
  [key \in Byte |-> [i \in Index |-> SpreadByte(key, i \div 4, i % 4, zeroIndex)]]

permTable ==
  [key \in Byte |-> [i \in Index |-> SpreadByte(key, i \div 4, i % 4, permZeroIndex)]]

permTableBE ==
  [key \in Byte |-> [i \in Index |-> SpreadByte(key, i \div 4, 3 - (i % 4), permZeroIndex)]]

-----------------------------------------------------------------------------
(* Encode masks: element p of the result is the p-th data byte.            *)

\* The lane whose bytes cover position p of the group's data.
laneAt(key, p) ==
  IF p < cursor(key, 1) THEN 0
  ELSE IF p < cursor(key, 2) THEN 1
  ELSE IF p < cursor(key, 3) THEN 2 ELSE 3

\* Which byte of its integer position p holds.
byteAt(key, p) == p - cursor(key, laneAt(key, p))

encodeShuffleTable ==
  [key \in Byte |-> [p \in Index |->
     IF p < lengthTable[key] THEN 4 * laneAt(key, p) + byteAt(key, p)
                             ELSE zeroIndex]]

encodeShuffleTablePerm ==
  [key \in Byte |-> [p \in Index |->
     IF p < lengthTable[key] THEN 4 * laneAt(key, p) + byteAt(key, p)
                             ELSE permZeroIndex]]

encodeShuffleTablePermBE_NotReversed ==
  [key \in Byte |-> [p \in Index |->
     IF p < lengthTable[key] THEN 4 * laneAt(key, p) + byteAt(key, p)
                             ELSE permZeroIndex]]

encodeShuffleTablePermBE ==
  [key \in Byte |-> [p \in Index |->
     IF p < lengthTable[key] THEN 4 * laneAt(key, p) + (3 - byteAt(key, p))
                             ELSE permZeroIndex]]

=============================================================================
