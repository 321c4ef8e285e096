----------------------------- MODULE TableProofs -----------------------------
(***************************************************************************)
(* What the wire format's operators, the tables and the kernels return,    *)
(* for every control byte.  The tables are built by a loop over 256 keys;  *)
(* these lemmas speak of their closed forms.  Then what the notes of the   *)
(* assembly programs say, and how each one follows from those before it.   *)
(***************************************************************************)
EXTENDS Notes, TLAPS

\* code is a two-bit length.
LEMMA CodeType == \A v \in Value : code(v) \in Lane
BY DEF code, Lane

\* A 2-bit code shifted by an even amount stays a byte, and is a multiple of
\* the weight of its field.
LEMMA ShiftType ==
  ASSUME NEW cd \in Lane
  PROVE  /\ shiftLeft(cd, 0) = cd
         /\ shiftLeft(cd, 2) = 4 * cd
         /\ shiftLeft(cd, 4) = 16 * cd
         /\ shiftLeft(cd, 6) = 64 * cd
BY DEF shiftLeft

LEMMA ControlByteType ==
  \A a, b, c, d \in Value : controlByte(a, b, c, d) \in Byte
<1> TAKE a, b, c, d \in Value
<1>1. /\ code(a) \in 0 .. 3 /\ code(b) \in 0 .. 3
      /\ code(c) \in 0 .. 3 /\ code(d) \in 0 .. 3
  BY CodeType DEF Lane
<1> QED BY <1>1, ShiftType DEF controlByte, Byte, Lane

\* Packing four codes in a control byte loses none of them.
LEMMA ControlByteLanes ==
  ASSUME NEW a \in Value, NEW b \in Value, NEW c \in Value, NEW d \in Value
  PROVE  LET k == controlByte(a, b, c, d)
         IN /\ laneCode(k, 0) = code(a) /\ laneCode(k, 1) = code(b)
            /\ laneCode(k, 2) = code(c) /\ laneCode(k, 3) = code(d)
<1> DEFINE k == controlByte(a, b, c, d)
<1>1. /\ code(a) \in 0 .. 3 /\ code(b) \in 0 .. 3
      /\ code(c) \in 0 .. 3 /\ code(d) \in 0 .. 3
  BY CodeType DEF Lane
<1>2. k \in Int /\ k = code(a) + 4 * code(b) + 16 * code(c) + 64 * code(d)
  BY <1>1, ShiftType DEF controlByte, Lane
<1> HIDE DEF k
<1>3. k % 4 = code(a) /\ k \div 4 = code(b) + 4 * (code(c) + 4 * code(d))
  BY <1>1, <1>2
<1>4. k \div 16 = code(c) + 4 * code(d)
  BY <1>1, <1>2
<1>5. k \div 64 = code(d)
  BY <1>1, <1>2
<1>6. /\ (k \div 4) % 4 = code(b) /\ (k \div 16) % 4 = code(c)
      /\ (k \div 64) % 4 = code(d)
  BY <1>1, <1>3, <1>4, <1>5
<1>7. /\ laneCode(k, 0) = code(a) /\ laneCode(k, 1) = code(b)
      /\ laneCode(k, 2) = code(c) /\ laneCode(k, 3) = code(d)
  BY <1>3, <1>6 DEF laneCode
<1> QED BY <1>7 DEF k

LEMMA LaneCodeType == \A key \in Byte, lane \in Lane : laneCode(key, lane) \in Lane
BY DEF Byte, Lane, laneCode

-----------------------------------------------------------------------------

\* The cursor of the loop in init(): a lane starts where the one before it
\* ends, and the last one ends at the length of the group.
LEMMA CursorSteps ==
  ASSUME NEW key \in Byte
  PROVE  /\ cursor(key, 0) = 0
         /\ cursor(key, 1) = cursor(key, 0) + laneCode(key, 0) + 1
         /\ cursor(key, 2) = cursor(key, 1) + laneCode(key, 1) + 1
         /\ cursor(key, 3) = cursor(key, 2) + laneCode(key, 2) + 1
         /\ cursor(key, 4) = cursor(key, 3) + laneCode(key, 3) + 1
         /\ lengthTable[key] = cursor(key, 4)
<1>1. /\ laneCode(key, 0) \in 0 .. 3 /\ laneCode(key, 1) \in 0 .. 3
      /\ laneCode(key, 2) \in 0 .. 3 /\ laneCode(key, 3) \in 0 .. 3
  BY LaneCodeType DEF Lane
<1> QED BY <1>1 DEF cursor, lengthTable, groupSize

\* A group takes 4 to 16 data bytes: never more than the wide store.
LEMMA LengthType == \A key \in Byte : lengthTable[key] \in 4 .. wide
<1> TAKE key \in Byte
<1>1. /\ laneCode(key, 0) \in 0 .. 3 /\ laneCode(key, 1) \in 0 .. 3
      /\ laneCode(key, 2) \in 0 .. 3 /\ laneCode(key, 3) \in 0 .. 3
  BY LaneCodeType DEF Lane
<1> QED BY <1>1, CursorSteps DEF wide

LEMMA CursorType == \A key \in Byte, lane \in 0 .. 4 : cursor(key, lane) \in 0 .. wide
<1> TAKE key \in Byte, lane \in 0 .. 4
<1>1. /\ laneCode(key, 0) \in 0 .. 3 /\ laneCode(key, 1) \in 0 .. 3
      /\ laneCode(key, 2) \in 0 .. 3 /\ laneCode(key, 3) \in 0 .. 3
  BY LaneCodeType DEF Lane
<1> QED BY <1>1 DEF cursor, wide

-----------------------------------------------------------------------------

LEMMA LaneAtType ==
  ASSUME NEW key \in Byte, NEW p \in Index, p < lengthTable[key]
  PROVE  laneAt(key, p) \in 0 .. 3 /\ byteAt(key, p) \in 0 .. 3
<1>1. /\ laneCode(key, 0) \in 0 .. 3 /\ laneCode(key, 1) \in 0 .. 3
      /\ laneCode(key, 2) \in 0 .. 3 /\ laneCode(key, 3) \in 0 .. 3
  BY LaneCodeType DEF Lane
<1>2. p \in Int /\ 0 <= p
  BY DEF Index, wide
<1>3. CASE p < cursor(key, 1)
  <2>1. laneAt(key, p) = 0
    BY <1>3 DEF laneAt
  <2> QED BY <1>1, <1>2, <1>3, <2>1, CursorSteps DEF byteAt
<1>4. CASE ~(p < cursor(key, 1)) /\ p < cursor(key, 2)
  <2>1. laneAt(key, p) = 1
    BY <1>4 DEF laneAt
  <2> QED BY <1>1, <1>2, <1>4, <2>1, CursorSteps DEF byteAt
<1>5. CASE ~(p < cursor(key, 1)) /\ ~(p < cursor(key, 2)) /\ p < cursor(key, 3)
  <2>1. laneAt(key, p) = 2
    BY <1>5 DEF laneAt
  <2> QED BY <1>1, <1>2, <1>5, <2>1, CursorSteps DEF byteAt
<1>6. CASE ~(p < cursor(key, 1)) /\ ~(p < cursor(key, 2)) /\ ~(p < cursor(key, 3))
  <2>1. laneAt(key, p) = 3
    BY <1>6 DEF laneAt
  <2> QED BY <1>1, <1>2, <1>6, <2>1, CursorSteps DEF byteAt
<1> QED BY <1>3, <1>4, <1>5, <1>6

\* The entries of the compaction masks select a loaded byte or are the zero
\* marker of their convention.
LEMMA EncodeMaskType ==
  ASSUME NEW key \in Byte, NEW p \in Index
  PROVE  /\ encodeShuffleTable[key][p] \in Index \cup {zeroIndex}
         /\ encodeShuffleTablePerm[key][p] \in Index \cup {permZeroIndex}
         /\ encodeShuffleTablePermBE[key][p] \in Index \cup {permZeroIndex}
<1>1. CASE p < lengthTable[key]
  <2>1. laneAt(key, p) \in 0 .. 3 /\ byteAt(key, p) \in 0 .. 3
    BY <1>1, LaneAtType
  <2>2. /\ 4 * laneAt(key, p) + byteAt(key, p) \in Index
        /\ 4 * laneAt(key, p) + (3 - byteAt(key, p)) \in Index
    BY <2>1 DEF Index, wide
  <2> QED BY <1>1, <2>2 DEF encodeShuffleTable, encodeShuffleTablePerm,
                            encodeShuffleTablePermBE
<1>2. CASE ~(p < lengthTable[key])
  BY <1>2 DEF encodeShuffleTable, encodeShuffleTablePerm, encodeShuffleTablePermBE
<1> QED BY <1>1, <1>2

-----------------------------------------------------------------------------
(* The instructions stay within a register.                                *)

Mask == [Index -> Byte]

LEMMA LookupType ==
  ASSUME NEW x \in Vector, NEW y \in Vector, NEW mask \in Mask, NEW tail \in Byte
  PROVE  /\ PSHUFB(x, mask) \in Vector
         /\ VTBL(x, mask) \in Vector
         /\ VPERM(x, y, mask) \in Vector
         /\ VRGATHER(x, mask, tail) \in Vector
<1>0. \A m \in 0 .. 255 : m % 16 \in Index /\ (m < 16 => m \in Index)
  BY DEF Index, wide
<1>1. \A i \in Index : mask[i] \in 0 .. 255
  BY DEF Mask, Byte
<1>2. PSHUFB(x, mask) \in Vector
  <2>1. \A i \in Index : mask[i] % 16 \in Index
    BY <1>1, <1>0
  <2>2. \A i \in Index : x[mask[i] % 16] \in Byte /\ 0 \in Byte
    BY <2>1 DEF Vector, Byte
  <2> QED BY <2>2 DEF PSHUFB, Vector
<1>3. VTBL(x, mask) \in Vector
  <2>1. \A i \in Index : mask[i] < 16 => mask[i] \in Index
    BY <1>1, <1>0
  <2>2. \A i \in Index : (mask[i] < 16 => x[mask[i]] \in Byte) /\ 0 \in Byte
    BY <2>1 DEF Vector, Byte
  <2> QED BY <2>2 DEF VTBL, Vector
<1>4. VPERM(x, y, mask) \in Vector
  <2> SUFFICES ASSUME NEW i \in Index
               PROVE  (IF mask[i] % 32 < 16 THEN x[mask[i] % 32]
                                            ELSE y[(mask[i] % 32) - 16]) \in Byte
    BY DEF VPERM, Vector
  <2>1. mask[i] % 32 \in 0 .. 31
    BY <1>1
  <2>2. CASE mask[i] % 32 < 16
    BY <2>1, <2>2 DEF Vector, Index, wide
  <2>3. CASE ~(mask[i] % 32 < 16)
    BY <2>1, <2>3 DEF Vector, Index, wide
  <2> QED BY <2>2, <2>3
<1>5. VRGATHER(x, mask, tail) \in Vector
  <2>1. \A i \in Index : mask[i] < 16 => mask[i] \in Index
    BY <1>1, <1>0
  <2>2. \A i \in Index : (mask[i] < 16 => x[mask[i]] \in Byte) /\ 0 \in Byte
    BY <2>1 DEF Vector, Byte
  <2> QED BY <2>2 DEF VRGATHER, Vector
<1> QED BY <1>2, <1>3, <1>4, <1>5

LEMMA LXVD2XType ==
  \A x \in Vector : LXVD2X(x) \in Vector /\ STXVD2X(x) \in Vector
<1> TAKE x \in Vector
<1>1. \A i \in Index : 8 * (i \div 8) + (7 - (i % 8)) \in Index
  BY DEF Index, wide
<1> QED BY <1>1 DEF LXVD2X, STXVD2X, Vector

LEMMA VSXType ==
  \A x \in Vector : loadB16(x) \in Vector /\ storeB16(x) \in Vector
<1> TAKE x \in Vector
<1>1. [i \in Index |-> i] \in Vector
  BY DEF Vector, Index, wide, Byte
<1>2. vrev \in Vector /\ vrev \in Mask
  BY <1>1, LXVD2XType DEF vrev, Vector, Mask
<1>3. 0 \in Byte
  BY DEF Byte
<1> QED BY <1>2, <1>3, LXVD2XType, LookupType DEF loadB16, storeB16

LEMMA NativeType ==
  ASSUME NEW platform \in Platforms, NEW vals \in [Lane -> Value]
  PROVE  nativeBytes(platform, vals) \in Vector
<1>1. \A i \in Index : i \div 4 \in Lane /\ i % 4 \in Lane /\ 3 - (i % 4) \in Lane
  BY DEF Index, wide, Lane
<1> QED BY <1>1 DEF nativeBytes, Vector, Value

\* Whatever kernel runs, it stores 16 bytes.
LEMMA EncodeGroupType ==
  ASSUME NEW platform \in hasEncodeKernel, NEW key \in Byte,
         NEW vals \in [Lane -> Value], NEW tail \in Byte
  PROVE  encodeGroup(platform, key, vals, tail) \in Vector
<1> DEFINE x == nativeBytes(platform, vals)
<1>1. x \in Vector
  BY NativeType DEF hasEncodeKernel
<1>2. /\ encodeShuffleTable[key] \in Mask
      /\ encodeShuffleTablePerm[key] \in Mask /\ encodeShuffleTablePerm[key] \in Vector
      /\ encodeShuffleTablePermBE[key] \in Mask
  <2>1. Index \cup {zeroIndex, permZeroIndex} \subseteq Byte
    BY DEF Index, wide, Byte, zeroIndex, permZeroIndex
  <2>2. /\ encodeShuffleTable[key] = [p \in Index |-> encodeShuffleTable[key][p]]
        /\ encodeShuffleTablePerm[key] = [p \in Index |-> encodeShuffleTablePerm[key][p]]
        /\ encodeShuffleTablePermBE[key] = [p \in Index |-> encodeShuffleTablePermBE[key][p]]
    BY DEF encodeShuffleTable, encodeShuffleTablePerm, encodeShuffleTablePermBE
  <2> QED BY <2>1, <2>2, EncodeMaskType DEF Mask, Vector
<1>3. zeroVector \in Vector /\ 0 \in Byte
  BY DEF zeroVector, Vector, Byte
<1> HIDE DEF x
<1>4. encodeGroupsSSE(key, x) \in Vector /\ encodeGroupsNEON(key, x) \in Vector
  BY <1>1, <1>2, LookupType DEF encodeGroupsSSE, encodeGroupsNEON
<1>5. encodeGroupsVX(key, x) \in Vector /\ encodeGroupsLSX(key, x) \in Vector
  BY <1>1, <1>2, <1>3, LookupType DEF encodeGroupsVX, encodeGroupsLSX, VSHUFB
<1>6. encodeGroupsRVV(key, x, tail) \in Vector
  BY <1>1, <1>2, LookupType DEF encodeGroupsRVV
<1>7. encodeGroupsVSX(key, x) \in Vector
  <2>1. loadB16(encodeShuffleTablePerm[key]) \in Mask
    BY <1>2, VSXType DEF Mask, Vector
  <2>2. VPERM(loadB16(x), zeroVector, loadB16(encodeShuffleTablePerm[key])) \in Vector
    BY <1>1, <1>3, <2>1, VSXType, LookupType
  <2> QED BY <2>2, VSXType DEF encodeGroupsVSX
<1> QED BY <1>4, <1>5, <1>6, <1>7 DEF encodeGroup, hasEncodeKernel, Platforms, x

-----------------------------------------------------------------------------
(* The masks are right: for every control byte and on every target, a      *)
(* decode kernel spreads the data bytes of a group to their integers, and  *)
(* an encode kernel compacts the integers to their data bytes.  The bytes  *)
(* that a mask leaves out are cleared where GatherClears.                  *)

-----------------------------------------------------------------------------
(* Where the bytes of a group are.                                         *)

\* Element 4*lane + j of a vector is byte j of a lane.
LEMMA Element ==
  ASSUME NEW lane \in Lane, NEW j \in Lane
  PROVE  /\ 4 * lane + j \in Index
         /\ (4 * lane + j) \div 4 = lane /\ (4 * lane + j) % 4 = j
BY DEF Lane, Index, wide

\* Every element belongs to a lane.
LEMMA ElementOf ==
  ASSUME NEW i \in Index
  PROVE  i \div 4 \in Lane /\ i % 4 \in Lane /\ i = 4 * (i \div 4) + (i % 4)
BY DEF Lane, Index, wide

\* Byte j of a lane is within the data of its group, and the position knows it.
LEMMA BytePosition ==
  ASSUME NEW key \in Byte, NEW lane \in Lane, NEW j \in 0 .. laneCode(key, lane)
  PROVE  LET p == cursor(key, lane) + j
         IN /\ p \in Index /\ p < lengthTable[key] /\ j \in Lane
            /\ laneAt(key, p) = lane /\ byteAt(key, p) = j
<1> DEFINE p == cursor(key, lane) + j
<1>1. /\ laneCode(key, 0) \in 0 .. 3 /\ laneCode(key, 1) \in 0 .. 3
      /\ laneCode(key, 2) \in 0 .. 3 /\ laneCode(key, 3) \in 0 .. 3
  BY LaneCodeType DEF Lane
<1>2. lane \in {0, 1, 2, 3}
  BY DEF Lane
<1>3. /\ p \in Index /\ p < lengthTable[key] /\ j \in Lane
  BY <1>1, <1>2, CursorSteps DEF Index, wide, Lane
<1>4. laneAt(key, p) = lane
  BY <1>1, <1>2, CursorSteps DEF laneAt
<1>5. byteAt(key, p) = j
  BY <1>1, <1>2, <1>4, CursorSteps DEF byteAt
<1> QED BY <1>3, <1>4, <1>5

-----------------------------------------------------------------------------
(* The POWER8 fix-ups cancel out.                                          *)

\* Reversing the bytes of the doublewords twice changes nothing, so a load with
\* vrev behind it, and a store with vrev before it, are in element order.
LEMMA FixUps == \A x \in Vector : loadB16(x) = x /\ storeB16(x) = x
<1> DEFINE r(i) == 8 * (i \div 8) + (7 - (i % 8))
<1>1. \A i \in Index : r(i) \in Index /\ r(i) % 32 = r(i) /\ r(i) < 16 /\ r(r(i)) = i
  BY DEF Index, wide
<1>2. \A i \in Index : vrev[i] = r(i)
  BY <1>1 DEF vrev, LXVD2X
<1> HIDE DEF r
<1> TAKE x \in Vector
<1>3. x = [i \in Index |-> x[i]]
  BY DEF Vector
<1>4. \A y \in Vector : VPERM(y, y, vrev) = [i \in Index |-> y[r(i)]]
  BY <1>1, <1>2 DEF VPERM
<1>5. LXVD2X(x) = [i \in Index |-> x[r(i)]] /\ STXVD2X(x) = [i \in Index |-> x[r(i)]]
  BY DEF LXVD2X, STXVD2X, r
<1>6. loadB16(x) = x
  <2>1. loadB16(x) = [i \in Index |-> LXVD2X(x)[r(i)]]
    BY <1>4, LXVD2XType DEF loadB16
  <2>2. \A i \in Index : LXVD2X(x)[r(i)] = x[i]
    BY <1>1, <1>5
  <2> QED BY <1>3, <2>1, <2>2
<1>7. storeB16(x) = x
  <2> DEFINE y == [i \in Index |-> x[r(i)]]
  <2>1. storeB16(x) = STXVD2X(y)
    BY <1>4 DEF storeB16
  <2>2. STXVD2X(y) = [i \in Index |-> y[r(i)]]
    BY DEF STXVD2X, r
  <2>3. \A i \in Index : y[r(i)] = x[i]
    BY <1>1
  <2> QED BY <1>3, <2>1, <2>2, <2>3
<1> QED BY <1>6, <1>7

-----------------------------------------------------------------------------
(* What the lookups do with an index, and with a zero marker.              *)

LEMMA Lookup ==
  ASSUME NEW x \in Vector, NEW i \in Index, NEW tail, NEW mask
  PROVE  /\ mask[i] \in Index =>
              /\ PSHUFB(x, mask)[i] = x[mask[i]]
              /\ VTBL(x, mask)[i] = x[mask[i]]
              /\ VRGATHER(x, mask, tail)[i] = x[mask[i]]
         /\ mask[i] = zeroIndex =>
              /\ PSHUFB(x, mask)[i] = 0
              /\ VTBL(x, mask)[i] = 0
              /\ VLMAX <= zeroIndex => VRGATHER(x, mask, tail)[i] = 0
<1>1. ASSUME mask[i] \in Index
      PROVE  /\ PSHUFB(x, mask)[i] = x[mask[i]]
             /\ VTBL(x, mask)[i] = x[mask[i]]
             /\ VRGATHER(x, mask, tail)[i] = x[mask[i]]
  <2>1. /\ mask[i] \in 0 .. 15 /\ mask[i] % 16 = mask[i]
        /\ ~(mask[i] >= 128) /\ ~(mask[i] >= VLMAX)
    BY <1>1, VLMAXAssumption DEF Index, wide
  <2> QED BY <2>1 DEF PSHUFB, VTBL, VRGATHER
<1>2. ASSUME mask[i] = zeroIndex
      PROVE  /\ PSHUFB(x, mask)[i] = 0
             /\ VTBL(x, mask)[i] = 0
             /\ VLMAX <= zeroIndex => VRGATHER(x, mask, tail)[i] = 0
  BY <1>2 DEF PSHUFB, VTBL, VRGATHER, zeroIndex
<1> QED BY <1>1, <1>2

\* The same for the lookup with an all-zero second register.
LEMMA PermLookup ==
  ASSUME NEW x \in Vector, NEW i \in Index, NEW mask
  PROVE  /\ mask[i] \in Index => VPERM(x, zeroVector, mask)[i] = x[mask[i]]
         /\ mask[i] = permZeroIndex => VPERM(x, zeroVector, mask)[i] = 0
<1>1. ASSUME mask[i] \in Index
      PROVE  VPERM(x, zeroVector, mask)[i] = x[mask[i]]
  <2>1. mask[i] % 32 = mask[i] /\ mask[i] < 16
    BY <1>1 DEF Index, wide
  <2> QED BY <2>1 DEF VPERM
<1>2. ASSUME mask[i] = permZeroIndex
      PROVE  VPERM(x, zeroVector, mask)[i] = 0
  BY <1>2 DEF VPERM, zeroVector, permZeroIndex, Index, wide
<1> QED BY <1>1, <1>2

-----------------------------------------------------------------------------
(* Decode.                                                                 *)

\* The four integers that a group holds, given its 16 loaded bytes.
spreadValues(key, x) ==
  [lane \in Lane |-> [j \in Lane |->
     IF j <= laneCode(key, lane) THEN x[cursor(key, lane) + j] ELSE 0]]

\* Every decode kernel spreads the bytes of a group in the same way.
LEMMA DecodeGroupValues ==
  ASSUME NEW platform \in hasDecodeKernel, NEW key \in Byte, NEW x \in Vector,
         NEW tail \in Byte, GatherClears(platform)
  PROVE  decodeGroup(platform, key, x, tail) = spreadValues(key, x)
<1>1. ASSUME NEW lane \in Lane, NEW j \in Lane
      PROVE  LET i == 4 * lane + j
             IN IF j <= laneCode(key, lane)
                THEN /\ shuffleTable[key][i] = cursor(key, lane) + j
                     /\ permTable[key][i] = cursor(key, lane) + j
                     /\ permTableBE[key][4 * lane + (3 - j)] = cursor(key, lane) + j
                     /\ cursor(key, lane) + j \in Index
                ELSE /\ shuffleTable[key][i] = zeroIndex
                     /\ permTable[key][i] = permZeroIndex
                     /\ permTableBE[key][4 * lane + (3 - j)] = permZeroIndex
  <2>1. 3 - j \in Lane /\ 3 - (3 - j) = j
    BY DEF Lane
  <2>2. j <= laneCode(key, lane) => cursor(key, lane) + j \in Index
    <3>1. j <= laneCode(key, lane) => j \in 0 .. laneCode(key, lane)
      BY LaneCodeType DEF Lane
    <3> QED BY <3>1, BytePosition
  <2>3. /\ shuffleTable[key][4 * lane + j] = SpreadByte(key, lane, j, zeroIndex)
        /\ permTable[key][4 * lane + j] = SpreadByte(key, lane, j, permZeroIndex)
    BY Element DEF shuffleTable, permTable
  <2>4. permTableBE[key][4 * lane + (3 - j)] = SpreadByte(key, lane, j, permZeroIndex)
    BY <2>1, Element DEF permTableBE
  <2> QED BY <2>2, <2>3, <2>4 DEF SpreadByte
<1>2. zeroVector \in Vector
  BY DEF zeroVector, Vector, Byte
<1>3. /\ permTable[key] \in Vector
      /\ VPERM(x, zeroVector, permTable[key]) \in Vector
  <2>1. ASSUME NEW i \in Index PROVE permTable[key][i] \in Byte
    <3>1. permTable[key][i] = SpreadByte(key, i \div 4, i % 4, permZeroIndex)
      BY DEF permTable
    <3>2. cursor(key, i \div 4) \in 0 .. 16 /\ i % 4 \in 0 .. 3
      BY ElementOf, CursorType DEF Lane, wide
    <3> QED BY <3>1, <3>2 DEF SpreadByte, permZeroIndex, Byte
  <2>2. permTable[key] = [i \in Index |-> permTable[key][i]]
    BY DEF permTable
  <2>3. permTable[key] \in Vector
    BY <2>1, <2>2 DEF Vector
  <2> QED BY <1>2, <2>3, LookupType DEF Mask, Vector
<1>4. decodeGroupsVSX(key, x) = VPERM(x, zeroVector, permTable[key])
  BY <1>3, FixUps DEF decodeGroupsVSX
<1> DEFINE value(lane, j) == IF j <= laneCode(key, lane) THEN x[cursor(key, lane) + j] ELSE 0
<1>5. ASSUME NEW lane \in Lane, NEW j \in Lane
      PROVE  /\ PSHUFB(x, shuffleTable[key])[4 * lane + j] = value(lane, j)
             /\ VTBL(x, shuffleTable[key])[4 * lane + j] = value(lane, j)
             /\ VLMAX <= zeroIndex =>
                  VRGATHER(x, shuffleTable[key], tail)[4 * lane + j] = value(lane, j)
             /\ VPERM(x, zeroVector, permTable[key])[4 * lane + j] = value(lane, j)
             /\ VPERM(x, zeroVector, permTableBE[key])[4 * lane + (3 - j)] = value(lane, j)
  <2>1. 3 - j \in Lane /\ 4 * lane + j \in Index /\ 4 * lane + (3 - j) \in Index
    <3>1. 3 - j \in Lane
      BY DEF Lane
    <3> QED BY <3>1, Element
  <2> DEFINE i == 4 * lane + j
             r == 4 * lane + (3 - j)
             p == cursor(key, lane) + j
  <2>2. CASE j <= laneCode(key, lane)
    <3>1. /\ shuffleTable[key][i] = p /\ permTable[key][i] = p
          /\ permTableBE[key][r] = p /\ p \in Index /\ value(lane, j) = x[p]
      BY <1>1, <2>2
    <3> HIDE DEF i, r, p, value
    <3>2. /\ PSHUFB(x, shuffleTable[key])[i] = x[p]
          /\ VTBL(x, shuffleTable[key])[i] = x[p]
          /\ VRGATHER(x, shuffleTable[key], tail)[i] = x[p]
      BY <2>1, <3>1, Lookup DEF i
    <3>3. VPERM(x, zeroVector, permTable[key])[i] = x[p]
      BY <2>1, <3>1, PermLookup DEF i
    <3>4. VPERM(x, zeroVector, permTableBE[key])[r] = x[p]
      BY <2>1, <3>1, PermLookup DEF r
    <3> QED BY <3>1, <3>2, <3>3, <3>4 DEF i, r
  <2>3. CASE ~(j <= laneCode(key, lane))
    <3>1. /\ shuffleTable[key][i] = zeroIndex /\ permTable[key][i] = permZeroIndex
          /\ permTableBE[key][r] = permZeroIndex /\ value(lane, j) = 0
      BY <1>1, <2>3
    <3> HIDE DEF i, r, p, value
    <3>2. /\ PSHUFB(x, shuffleTable[key])[i] = 0
          /\ VTBL(x, shuffleTable[key])[i] = 0
          /\ VLMAX <= zeroIndex => VRGATHER(x, shuffleTable[key], tail)[i] = 0
      BY <2>1, <3>1, Lookup DEF i
    <3>3. /\ VPERM(x, zeroVector, permTable[key])[i] = 0
          /\ VPERM(x, zeroVector, permTableBE[key])[r] = 0
      BY <2>1, <3>1, PermLookup DEF i, r
    <3> QED BY <3>1, <3>2, <3>3 DEF i, r
  <2> QED BY <2>2, <2>3
<1>6. ASSUME NEW w,
             \A lane \in Lane, j \in Lane :
               w[4 * lane + (IF platform = "s390x" THEN 3 - j ELSE j)] = value(lane, j)
      PROVE  nativeValues(platform, w) = spreadValues(key, x)
  <2>1. \A lane \in Lane, j \in Lane :
          (IF platform = "s390x" THEN w[4 * lane + (3 - j)] ELSE w[4 * lane + j]) = value(lane, j)
    BY <1>6
  <2> QED BY <2>1 DEF nativeValues, spreadValues
<1> HIDE DEF value
<1>7. CASE platform = "amd64"
  BY <1>5, <1>6, <1>7 DEF decodeGroup, decodeGroupsSSE
<1>8. CASE platform = "arm64"
  BY <1>5, <1>6, <1>8 DEF decodeGroup, decodeGroupsNEON
<1>9. CASE platform \in {"power8", "power9"}
  BY <1>4, <1>5, <1>6, <1>9 DEF decodeGroup
<1>10. CASE platform = "s390x"
  BY <1>5, <1>6, <1>10 DEF decodeGroup, decodeGroupsVX
<1>11. CASE platform = "riscv64"
  BY <1>5, <1>6, <1>11 DEF decodeGroup, decodeGroupsRVV, GatherClears
<1>12. CASE platform = "loong64"
  BY <1>5, <1>6, <1>12 DEF decodeGroup, decodeGroupsLSX, VSHUFB
<1> QED BY <1>7, <1>8, <1>9, <1>10, <1>11, <1>12 DEF hasDecodeKernel, Platforms

\* Whatever the width of the registers, a decode kernel stores four integers.
LEMMA DecodeGroupType ==
  ASSUME NEW platform \in hasDecodeKernel, NEW key \in Byte, NEW x \in Vector,
         NEW tail \in Byte
  PROVE  decodeGroup(platform, key, x, tail) \in [Lane -> Value]
<1>1. ASSUME NEW i \in Index
      PROVE  /\ shuffleTable[key][i] \in Byte /\ permTable[key][i] \in Byte
             /\ permTableBE[key][i] \in Byte
  <2>1. cursor(key, i \div 4) \in 0 .. 16 /\ i % 4 \in 0 .. 3 /\ 3 - (i % 4) \in 0 .. 3
    BY ElementOf, CursorType DEF Lane, wide
  <2>2. \A j \in 0 .. 3, zero \in {zeroIndex, permZeroIndex} :
          SpreadByte(key, i \div 4, j, zero) \in Byte
    BY <2>1 DEF SpreadByte, zeroIndex, permZeroIndex, Byte
  <2> QED BY <2>1, <2>2 DEF shuffleTable, permTable, permTableBE
<1>2. /\ shuffleTable[key] \in Mask /\ permTableBE[key] \in Mask
      /\ permTable[key] \in Mask /\ permTable[key] \in Vector
  <2>1. /\ shuffleTable[key] = [i \in Index |-> shuffleTable[key][i]]
        /\ permTable[key] = [i \in Index |-> permTable[key][i]]
        /\ permTableBE[key] = [i \in Index |-> permTableBE[key][i]]
    BY DEF shuffleTable, permTable, permTableBE
  <2> QED BY <1>1, <2>1 DEF Mask, Vector
<1>3. zeroVector \in Vector
  BY DEF zeroVector, Vector, Byte
<1>4. /\ PSHUFB(x, shuffleTable[key]) \in Vector /\ VTBL(x, shuffleTable[key]) \in Vector
      /\ VRGATHER(x, shuffleTable[key], tail) \in Vector
      /\ VPERM(x, zeroVector, permTable[key]) \in Vector
      /\ VPERM(x, zeroVector, permTableBE[key]) \in Vector
  BY <1>2, <1>3, LookupType
<1>5. decodeGroupsVSX(key, x) \in Vector
  BY <1>2, <1>4, FixUps DEF decodeGroupsVSX
<1>6. ASSUME NEW w \in Vector PROVE nativeValues(platform, w) \in [Lane -> Value]
  <2>1. \A lane \in Lane, j \in Lane :
          4 * lane + j \in Index /\ 4 * lane + (3 - j) \in Index
    BY Element DEF Lane
  <2> QED BY <2>1 DEF nativeValues, Vector, Value
<1> QED BY <1>4, <1>5, <1>6
        DEF decodeGroup, hasDecodeKernel, Platforms, decodeGroupsSSE, decodeGroupsNEON,
            decodeGroupsVX, decodeGroupsRVV, decodeGroupsLSX, VSHUFB

-----------------------------------------------------------------------------
(* Encode.                                                                 *)

\* Every encode kernel stores the bytes of the four integers of a group that
\* its control byte counts, one after the other, and where GatherClears zeros behind.
LEMMA EncodeGroupBytes ==
  ASSUME NEW platform \in hasEncodeKernel, NEW key \in Byte,
         NEW vals \in [Lane -> Value], NEW tail \in Byte
  PROVE  LET w == encodeGroup(platform, key, vals, tail)
         IN /\ \A lane \in Lane : \A j \in 0 .. laneCode(key, lane) :
                 w[cursor(key, lane) + j] = vals[lane][j]
            /\ GatherClears(platform) =>
                 \A p \in Index : p >= lengthTable[key] => w[p] = 0
<1> DEFINE x == nativeBytes(platform, vals)
           w == encodeGroup(platform, key, vals, tail)
<1>1. x \in Vector
  BY NativeType DEF hasEncodeKernel
<1>2. ASSUME NEW lane \in Lane, NEW j \in Lane
      PROVE  x[4 * lane + (IF platform = "s390x" THEN 3 - j ELSE j)] = vals[lane][j]
  <2>1. 3 - j \in Lane /\ 3 - (3 - j) = j
    BY DEF Lane
  <2> QED BY <2>1, Element DEF nativeBytes
<1> HIDE DEF x
<1>3. zeroVector \in Vector
  BY DEF zeroVector, Vector, Byte
<1>4. encodeGroupsVSX(key, x) = VPERM(x, zeroVector, encodeShuffleTablePerm[key])
  <2>1. encodeShuffleTablePerm[key] \in Vector
    <3>1. Index \cup {permZeroIndex} \subseteq Byte
      BY DEF Index, wide, Byte, permZeroIndex
    <3>2. encodeShuffleTablePerm[key] = [p \in Index |-> encodeShuffleTablePerm[key][p]]
      BY DEF encodeShuffleTablePerm
    <3> QED BY <3>1, <3>2, EncodeMaskType DEF Vector
  <2>2. VPERM(x, zeroVector, encodeShuffleTablePerm[key]) \in Vector
    BY <1>1, <1>3, <2>1, LookupType DEF Mask, Vector
  <2> QED BY <1>1, <2>1, <2>2, FixUps DEF encodeGroupsVSX
<1>5. ASSUME NEW lane \in Lane, NEW j \in 0 .. laneCode(key, lane)
      PROVE  w[cursor(key, lane) + j] = vals[lane][j]
  <2> DEFINE p == cursor(key, lane) + j
             i == 4 * lane + j
             r == 4 * lane + (3 - j)
  <2>1. /\ p \in Index /\ p < lengthTable[key] /\ j \in Lane /\ 3 - j \in Lane
        /\ laneAt(key, p) = lane /\ byteAt(key, p) = j
    BY BytePosition DEF Lane
  <2>2. /\ encodeShuffleTable[key][p] = i /\ encodeShuffleTablePerm[key][p] = i
        /\ encodeShuffleTablePermBE[key][p] = r /\ i \in Index /\ r \in Index
    BY <2>1, Element DEF encodeShuffleTable, encodeShuffleTablePerm,
                         encodeShuffleTablePermBE
  <2>3. x[IF platform = "s390x" THEN r ELSE i] = vals[lane][j]
    BY <1>2, <2>1
  <2> HIDE DEF p, i, r
  <2>4. /\ PSHUFB(x, encodeShuffleTable[key])[p] = x[i]
        /\ VTBL(x, encodeShuffleTable[key])[p] = x[i]
        /\ VRGATHER(x, encodeShuffleTable[key], tail)[p] = x[i]
    BY <1>1, <2>1, <2>2, Lookup
  <2>5. VPERM(x, zeroVector, encodeShuffleTablePerm[key])[p] = x[i]
    BY <1>1, <2>1, <2>2, PermLookup
  <2>6. VPERM(x, zeroVector, encodeShuffleTablePermBE[key])[p] = x[r]
    BY <1>1, <2>1, <2>2, PermLookup
  <2>7. w[p] = IF platform = "s390x" THEN x[r] ELSE x[i]
    BY <1>4, <2>4, <2>5, <2>6
       DEF encodeGroup, hasEncodeKernel, Platforms, encodeGroupsSSE, encodeGroupsNEON,
           encodeGroupsVX, encodeGroupsRVV, encodeGroupsLSX, VSHUFB, x
  <2> QED BY <2>3, <2>7 DEF p
<1>6. ASSUME GatherClears(platform), NEW p \in Index, p >= lengthTable[key]
      PROVE  w[p] = 0
  <2>1. ~(p < lengthTable[key])
    BY <1>6, LengthType DEF Index, wide
  <2>2. /\ encodeShuffleTable[key][p] = zeroIndex
        /\ encodeShuffleTablePerm[key][p] = permZeroIndex
        /\ encodeShuffleTablePermBE[key][p] = permZeroIndex
    BY <2>1 DEF encodeShuffleTable, encodeShuffleTablePerm, encodeShuffleTablePermBE
  <2>3. /\ PSHUFB(x, encodeShuffleTable[key])[p] = 0
        /\ VTBL(x, encodeShuffleTable[key])[p] = 0
        /\ VLMAX <= zeroIndex => VRGATHER(x, encodeShuffleTable[key], tail)[p] = 0
    BY <1>1, <2>2, Lookup
  <2>4. VPERM(x, zeroVector, encodeShuffleTablePerm[key])[p] = 0
    BY <1>1, <2>2, PermLookup
  <2>5. VPERM(x, zeroVector, encodeShuffleTablePermBE[key])[p] = 0
    BY <1>1, <2>2, PermLookup
  <2> QED BY <1>4, <1>6, <2>3, <2>4, <2>5
          DEF encodeGroup, hasEncodeKernel, Platforms, encodeGroupsSSE, encodeGroupsNEON,
              encodeGroupsVX, encodeGroupsRVV, encodeGroupsLSX, VSHUFB, x, GatherClears
<1> QED BY <1>5, <1>6

-----------------------------------------------------------------------------
(* The notes of a program: if they follow from one another, then the       *)
(* registers hold what they say, whichever program it is.                  *)

\* A note that is good at i says what the register holds.
LEMMA HasValue ==
  ASSUME NEW p, NEW notes, NEW i, NEW R, NEW means, NEW x, NEW role,
         Holds(p, notes, i, R, means), Has(p, notes, i, x, role)
  PROVE  x \in DOMAIN R /\ R[x] \in means[role]
BY DEF Holds, Has

\* Behind an instruction the notes are those before it, but for its own register.
LEMMA StepHolds ==
  ASSUME NEW p, NEW notes, NEW i \in Nat, NEW R, NEW Q, NEW means,
         i > 0, p.loop \in Nat, Holds(p, notes, i, R, means),
         \A x \in DOMAIN R : x # p.code[i].out => x \in DOMAIN Q /\ Q[x] = R[x],
         p.code[i].out # "none" =>
           p.code[i].out \in DOMAIN Q /\ Q[p.code[i].out] \in means[notes[i]]
  PROVE  Holds(p, notes, i + 1, Q, means)
<1> SUFFICES ASSUME NEW k \in 1 .. i, Live(p, notes, k, i + 1)
             PROVE  p.code[k].out \in DOMAIN Q /\ Q[p.code[k].out] \in means[notes[k]]
  BY DEF Holds
<1>1. p.code[k].out # "none" /\ \A m \in k + 1 .. i : p.code[m].out # p.code[k].out
  BY DEF Live
<1>2. CASE k = i
  BY <1>1, <1>2
<1>3. CASE k # i
  <2>1. k \in 1 .. i - 1 /\ i \in k + 1 .. i
    BY <1>3
  <2>2. Live(p, notes, k, i)
    BY <2>1 DEF Live
  <2> QED BY <1>1, <2>1, <2>2 DEF Holds
<1> QED BY <1>2, <1>3

\* Back at the head of the loop, with the next group at hand.
LEMMA LoopHolds ==
  ASSUME NEW p, NEW notes, NEW R, NEW means, NEW means2,
         Len(p.code) \in Nat, p.loop \in 1 .. Len(p.code) - 1,
         Holds(p, notes, Len(p.code), R, means), WellLooped(p, notes),
         \A role \in Fixed : means[role] \subseteq means2[role],
         \A role \in Cursors : means[next[role]] \subseteq means2[role]
  PROVE  Holds(p, notes, p.loop, R, means2)
<1> SUFFICES ASSUME NEW k \in 1 .. p.loop - 1, Live(p, notes, k, p.loop)
             PROVE  p.code[k].out \in DOMAIN R /\ R[p.code[k].out] \in means2[notes[k]]
  BY DEF Holds
<1>1. CASE notes[k] \in Cursors /\ Has(p, notes, Len(p.code), p.code[k].out, next[notes[k]])
  BY <1>1, HasValue
<1>2. CASE notes[k] \in Fixed
  <2>1. notes[k] \notin Cursors
    BY <1>2 DEF Fixed, Cursors, next
  <2>2. \A m \in p.loop .. Len(p.code) : p.code[m].out # p.code[k].out
    BY <2>1 DEF Live
  <2>3. \A m \in k + 1 .. Len(p.code) - 1 :
          m \in k + 1 .. p.loop - 1 \/ m \in p.loop .. Len(p.code)
    OBVIOUS
  <2>4. Live(p, notes, k, Len(p.code))
    BY <2>2, <2>3 DEF Live
  <2>5. k \in 1 .. Len(p.code) - 1
    OBVIOUS
  <2> QED BY <1>2, <2>4, <2>5 DEF Holds
<1> QED BY <1>1, <1>2 DEF WellLooped

LEMMA MeansValues ==
  ASSUME NEW platform, NEW e, NEW means, means = Means(platform, e)
  PROVE  /\ means["data"] = {e.data} /\ means["ctrl"] = {e.ctrl} /\ means["ints"] = {e.ints}
         /\ means["safe"] = {e.safe} /\ means["masks"] = {e.masks} /\ means["lens"] = {e.lens}
         /\ means["revAt"] = {e.rev} /\ means["width"] = {wide}
         /\ means["g"] = {e.g} /\ means["g16"] = {16 * e.g} /\ means["nextG"] = {e.g + 1}
         /\ means["off"] = {e.off} /\ means["nextOff"] = {e.off + e.len}
         /\ means["ctrlAt"] = {e.ctrl + e.g} /\ means["nextCtrlAt"] = {e.ctrl + e.g + 1}
         /\ means["ctrlEnd"] = {e.ctrl + e.safe}
         /\ means["intsAt"] = {e.ints + 16 * e.g}
         /\ means["nextIntsAt"] = {e.ints + 16 * e.g + wide}
         /\ means["dataAt"] = {e.data + e.off}
         /\ means["nextDataAt"] = {e.data + e.off + e.len}
         /\ means["key"] = {e.key} /\ means["key16"] = {16 * e.key}
         /\ means["maskAt"] = {e.masks + 16 * e.key} /\ means["lenAt"] = {e.lens + e.key}
         /\ means["len"] = {e.len} /\ means["zero"] = {zeroVector}
         /\ means["rev"] = {e.reversal}
         /\ means["rawMask"] = {LXVD2X(e.mask)} 
         /\ means["mask"] = {elements(platform, e, e.mask)}
         /\ means["rawVals"] = {LXVD2X(e.vals)} 
         /\ means["vals"] = {elements(platform, e, e.vals)}
         /\ means["out"] = outs(platform, e)
         /\ means["rawOut"] = {VPERM(v, v, e.reversal) : v \in outs(platform, e)}
BY DEF Means

\* The scalars of an environment, and those that come from memory.
Scalars(e) ==
  /\ e.data \in Int /\ e.ctrl \in Int /\ e.ints \in Int /\ e.safe \in Int
  /\ e.masks \in Int /\ e.lens \in Int /\ e.rev \in Int
  /\ e.g \in Int /\ e.off \in Int

Loaded(e) == e.key \in Int /\ e.len \in Int

\* An address, or a sum, is what its note says.
LEMMA SumValue ==
  ASSUME NEW p, NEW notes, NEW i, NEW R, NEW platform, NEW e, NEW role, Scalars(e), Loaded(e),
         Holds(p, notes, i, R, Means(platform, e)), AddsUp(p, notes, i, role)
  PROVE  /\ \A k \in DOMAIN p.code[i].in : p.code[i].in[k] \in DOMAIN R
         /\ sumOf(R, p.code[i].in) \in Means(platform, e)[role]
<1> DEFINE in == p.code[i].in
           means == Means(platform, e)
<1>1. CASE Sources(in, 1) /\ Has(p, notes, i, in[1], role)
  BY <1>1, HasValue DEF sumOf, Sources
<1>2. CASE /\ Sources(in, 2)
           /\ \E s \in Sums : /\ s[3] = role
                              /\ Has(p, notes, i, in[1], s[1])
                              /\ Has(p, notes, i, in[2], s[2])
  <2>1. PICK s \in Sums : /\ s[3] = role
                          /\ Has(p, notes, i, in[1], s[1])
                          /\ Has(p, notes, i, in[2], s[2])
    BY <1>2
  <2>2. /\ in[1] \in DOMAIN R /\ R[in[1]] \in means[s[1]]
        /\ in[2] \in DOMAIN R /\ R[in[2]] \in means[s[2]]
    BY <2>1, HasValue
  <2> HIDE DEF in
  <2> DEFINE a == R[in[1]]
             b == R[in[2]]
  <2>3. a \in means[s[1]] /\ b \in means[s[2]] => a + b \in means[s[3]]
    <3> SUFFICES ASSUME NEW x \in means[s[1]], NEW y \in means[s[2]]
                 PROVE  x + y \in means[s[3]]
      OBVIOUS
    <3> HIDE DEF means
    <3> USE DEF Scalars, Loaded
    <3>0. means = Means(platform, e)
      BY DEF means
    <3>1. CASE s = <<"ctrl", "g", "ctrlAt">>
      BY <3>0, <3>1, MeansValues
    <3>2. CASE s = <<"ints", "g16", "intsAt">>
      BY <3>0, <3>2, MeansValues
    <3>3. CASE s = <<"data", "off", "dataAt">>
      BY <3>0, <3>3, MeansValues
    <3>4. CASE s = <<"masks", "key16", "maskAt">>
      BY <3>0, <3>4, MeansValues
    <3>5. CASE s = <<"lens", "key", "lenAt">>
      BY <3>0, <3>5, MeansValues
    <3>6. CASE s = <<"len", "off", "nextOff">> \/ s = <<"off", "len", "nextOff">>
      BY <3>0, <3>6, MeansValues
    <3>7. CASE s = <<"len", "dataAt", "nextDataAt">>
      BY <3>0, <3>7, MeansValues
    <3> QED BY <3>1, <3>2, <3>3, <3>4, <3>5, <3>6, <3>7 DEF Sums
  <2>4. a + b \in means[role]
    BY <2>1, <2>2, <2>3
  <2>5. sumOf(R, in) = a + b
    BY <1>2 DEF sumOf, Sources
  <2>6. \A k \in DOMAIN in : in[k] \in DOMAIN R
    BY <1>2, <2>2 DEF Sources
  <2> QED BY <2>4, <2>5, <2>6 DEF in
<1> QED BY <1>1, <1>2 DEF AddsUp

\* The registers that instruction i reads have been set.
Reads(p, i, R) == reads(p.code[i]) \subseteq DOMAIN R

LEMMA ReadsOf ==
  ASSUME NEW i
  PROVE  /\ i.op \in {"arg", "set", "jmp", "vzero"} => reads(i) = {}
         /\ i.op = "inc" => reads(i) = {i.out}
         /\ i.op \in StoreOps => reads(i) = {i.out, i.in[1], i.in[Len(i.in)]}
         /\ i.op \notin StoreOps \cup {"arg", "set", "jmp", "vzero", "inc"} =>
              reads(i) = {i.in[k] : k \in DOMAIN i.in}
BY DEF reads, StoreOps

LEMMA ArgumentValue ==
  ASSUME NEW p, NEW notes, NEW i, NEW R, NEW e, NEW sig, NEW frame, Scalars(e),
         TakesArgument(sig, p, notes, i), e.g = 0, e.off = 0,
         \A k \in DOMAIN sig.args : frame[k] \in Means(sig.platform, e)[sig.args[k]]
  PROVE  /\ p.code[i].op = "arg" /\ Reads(p, i, R)
         /\ frame[p.code[i].in] \in Means(sig.platform, e)[notes[i]]
<1> DEFINE means == Means(sig.platform, e)
           k == p.code[i].in
<1>1. p.code[i].op = "arg" /\ frame[k] \in means[sig.args[k]]
  BY DEF TakesArgument
<1>2. ASSUME NEW s \in {<<"ctrl", "ctrlAt">>, <<"ints", "intsAt">>, <<"data", "dataAt">>},
             sig.args[k] = s[1], notes[i] = s[2]
      PROVE  frame[k] \in means[notes[i]]
  <2>1. frame[k] \in means[s[1]]
    BY <1>1, <1>2
  <2>2. means = Means(sig.platform, e)
    OBVIOUS
  <2> HIDE DEF means, k
  <2>3. /\ means["ctrl"] = means["ctrlAt"] /\ means["ints"] = means["intsAt"]
        /\ means["data"] = means["dataAt"]
    <3>1. e.ctrl = e.ctrl + e.g /\ e.ints = e.ints + 16 * e.g /\ e.data = e.data + e.off
      BY DEF Scalars
    <3>2. /\ means["ctrl"] = {e.ctrl} /\ means["ctrlAt"] = {e.ctrl + e.g}
          /\ means["ints"] = {e.ints} /\ means["intsAt"] = {e.ints + 16 * e.g}
          /\ means["data"] = {e.data} /\ means["dataAt"] = {e.data + e.off}
      BY <2>2, MeansValues
    <3> QED BY <3>1, <3>2
  <2>4. means[s[1]] = means[s[2]]
    <3>1. CASE s = <<"ctrl", "ctrlAt">>
      BY <2>3, <3>1
    <3>2. CASE s = <<"ints", "intsAt">>
      BY <2>3, <3>2
    <3>3. CASE s = <<"data", "dataAt">>
      BY <2>3, <3>3
    <3> QED BY <1>2, <3>1, <3>2, <3>3
  <2> QED BY <1>2, <2>1, <2>4
<1>3. Reads(p, i, R)
  BY <1>1, ReadsOf DEF Reads
<1> QED BY <1>1, <1>2, <1>3 DEF TakesArgument

LEMMA ConstantValue ==
  ASSUME NEW p, NEW notes, NEW i, NEW R, NEW e, NEW sig,
         SetsConstant(sig, p, notes, i), e.g = 0, e.off = 0, e.rev = sig.rev
  PROVE  /\ p.code[i].op = "set" /\ Reads(p, i, R)
         /\ p.code[i].in \in Means(sig.platform, e)[notes[i]]
<1>1. p.code[i].op = "set"
  BY DEF SetsConstant
<1>0. Reads(p, i, R)
  BY <1>1, ReadsOf DEF Reads
<1>2. PICK s \in {<<0, "g">>, <<0, "off">>, <<wide, "width">>, <<sig.rev, "revAt">>} :
        p.code[i].in = s[1] /\ notes[i] = s[2]
  BY DEF SetsConstant
<1> DEFINE means == Means(sig.platform, e)
<1>3. means = Means(sig.platform, e)
  OBVIOUS
<1> HIDE DEF means
<1>4. s[1] \in means[s[2]]
  BY <1>3, MeansValues
<1> QED BY <1>0, <1>1, <1>2, <1>3, <1>4

LEMMA SumsValue ==
  ASSUME NEW p, NEW notes, NEW i, NEW R, NEW platform, NEW e, Scalars(e),
         Holds(p, notes, i, R, Means(platform, e)), AddsOrMoves(p, notes, i),
         i < p.loop => e.g = 0, p.loop < i => Loaded(e)
  PROVE  /\ p.code[i].op = "sum" /\ Reads(p, i, R)
         /\ sumOf(R, p.code[i].in) \in Means(platform, e)[notes[i]]
<1>1. p.code[i].op = "sum"
  BY DEF AddsOrMoves
<1>2. reads(p.code[i]) = {p.code[i].in[k] : k \in DOMAIN p.code[i].in}
  BY <1>1, ReadsOf DEF StoreOps
<1>3. CASE p.loop < i /\ AddsUp(p, notes, i, notes[i])
  <2>1. /\ \A k \in DOMAIN p.code[i].in : p.code[i].in[k] \in DOMAIN R
        /\ sumOf(R, p.code[i].in) \in Means(platform, e)[notes[i]]
    BY <1>3, SumValue
  <2> QED BY <1>1, <1>2, <2>1 DEF Reads
<1>4. CASE /\ i < p.loop /\ notes[i] = "ctrlEnd" /\ Sources(p.code[i].in, 2)
           /\ Has(p, notes, i, p.code[i].in[1], "ctrlAt")
           /\ Has(p, notes, i, p.code[i].in[2], "safe")
  <2> DEFINE a == p.code[i].in[1]
             b == p.code[i].in[2]
             means == Means(platform, e)
  <2>1. a \in DOMAIN R /\ R[a] \in means["ctrlAt"] /\ b \in DOMAIN R /\ R[b] \in means["safe"]
    BY <1>4, HasValue
  <2>2. sumOf(R, p.code[i].in) = R[a] + R[b]
    BY <1>4 DEF sumOf, Sources
  <2>3. \A k \in DOMAIN p.code[i].in : p.code[i].in[k] \in DOMAIN R
    BY <1>4, <2>1 DEF Sources
  <2>4. means = Means(platform, e)
    OBVIOUS
  <2> HIDE DEF a, b, means
  <2>5. R[a] + R[b] \in means["ctrlEnd"]
    BY <1>4, <2>1, <2>4, MeansValues DEF Scalars
  <2> QED BY <1>1, <1>2, <1>4, <2>2, <2>3, <2>4, <2>5 DEF Reads
<1> QED BY <1>3, <1>4 DEF AddsOrMoves

LEMMA AdvanceValue ==
  ASSUME NEW p, NEW notes, NEW i, NEW R, NEW platform, NEW e, Scalars(e),
         Holds(p, notes, i, R, Means(platform, e)), Advances(p, notes, i)
  PROVE  /\ p.code[i].op = "inc" /\ Reads(p, i, R)
         /\ R[p.code[i].out] + p.code[i].in \in Means(platform, e)[notes[i]]
<1> DEFINE x == p.code[i].out
           means == Means(platform, e)
<1>1. PICK s \in {<<"g", 1>>, <<"ctrlAt", 1>>, <<"intsAt", wide>>} :
        /\ p.code[i].in = s[2] /\ notes[i] = next[s[1]]
        /\ Has(p, notes, i, x, s[1])
  BY DEF Advances
<1>2. x \in DOMAIN R /\ R[x] \in means[s[1]]
  BY <1>1, HasValue
<1>3. p.code[i].op = "inc" /\ reads(p.code[i]) = {x}
  BY ReadsOf DEF Advances
<1>4. means = Means(platform, e)
  OBVIOUS
<1> HIDE DEF x, means
<1>5. R[x] + s[2] \in means[next[s[1]]]
  <2>1. CASE s = <<"g", 1>>
    BY <1>2, <1>4, <2>1, MeansValues DEF next
  <2>2. CASE s = <<"ctrlAt", 1>>
    BY <1>2, <1>4, <2>2, MeansValues DEF next
  <2>3. CASE s = <<"intsAt", wide>>
    BY <1>2, <1>4, <2>3, MeansValues DEF next
  <2> QED BY <2>1, <2>2, <2>3
<1> QED BY <1>1, <1>2, <1>3, <1>4, <1>5 DEF Reads, x

LEMMA ScaleValue ==
  ASSUME NEW p, NEW notes, NEW i, NEW R, NEW platform, NEW e,
         Holds(p, notes, i, R, Means(platform, e)), Scales(p, notes, i)
  PROVE  /\ p.code[i].op = "shl4" /\ Reads(p, i, R)
         /\ 16 * sumOf(R, p.code[i].in) \in Means(platform, e)[notes[i]]
<1> DEFINE x == p.code[i].in[1]
           means == Means(platform, e)
<1>1. PICK s \in {<<"g", "g16">>, <<"key", "key16">>} :
        notes[i] = s[2] /\ Has(p, notes, i, x, s[1])
  BY DEF Scales
<1>2. x \in DOMAIN R /\ R[x] \in means[s[1]]
  BY <1>1, HasValue
<1>3. /\ p.code[i].op = "shl4" /\ sumOf(R, p.code[i].in) = R[x]
      /\ \A k \in DOMAIN p.code[i].in : p.code[i].in[k] = x
  BY DEF Scales, sumOf, Sources
<1>4. reads(p.code[i]) = {p.code[i].in[k] : k \in DOMAIN p.code[i].in}
  BY <1>3, ReadsOf DEF StoreOps
<1>5. means = Means(platform, e)
  OBVIOUS
<1> HIDE DEF x, means
<1>6. 16 * R[x] \in means[s[2]]
  BY <1>2, <1>5, MeansValues
<1> QED BY <1>1, <1>2, <1>3, <1>4, <1>5, <1>6 DEF Reads

\* A byte is loaded from the address that its note belongs to.
LEMMA ByteValue ==
  ASSUME NEW p, NEW notes, NEW i, NEW R, NEW platform, NEW e, Scalars(e), Loaded(e),
         Holds(p, notes, i, R, Means(platform, e)), LoadsByte(p, notes, i)
  PROVE  /\ p.code[i].op = "byte" /\ Reads(p, i, R) /\ p.loop < i
         /\ \/ notes[i] = "key" /\ sumOf(R, p.code[i].in) = e.ctrl + e.g
            \/ notes[i] = "len" /\ sumOf(R, p.code[i].in) = e.lens + e.key
<1>1. p.code[i].op = "byte" /\ p.loop < i
  BY DEF LoadsByte
<1>2. reads(p.code[i]) = {p.code[i].in[k] : k \in DOMAIN p.code[i].in}
  BY <1>1, ReadsOf DEF StoreOps
<1>3. /\ Means(platform, e)["ctrlAt"] = {e.ctrl + e.g}
      /\ Means(platform, e)["lenAt"] = {e.lens + e.key}
  BY MeansValues
<1>4. CASE notes[i] = "key" /\ AddsUp(p, notes, i, "ctrlAt")
  BY <1>1, <1>2, <1>3, <1>4, SumValue DEF Reads
<1>5. CASE notes[i] = "len" /\ AddsUp(p, notes, i, "lenAt")
  BY <1>1, <1>2, <1>3, <1>5, SumValue DEF Reads
<1> QED BY <1>4, <1>5 DEF LoadsByte

\* So are 16 bytes.
LEMMA WideValue ==
  ASSUME NEW p, NEW notes, NEW i, NEW R, NEW e, NEW sig, Scalars(e),
         p.loop < i => Loaded(e),
         Holds(p, notes, i, R, Means(sig.platform, e)), LoadsWide(sig, p, notes, i)
  PROVE  /\ p.code[i].op = (IF isPPC(sig.platform) THEN "LXVD2X" ELSE "vload")
         /\ Reads(p, i, R)
         /\ \/ /\ notes[i] = (IF isPPC(sig.platform) THEN "rawMask" ELSE "mask")
               /\ p.loop < i /\ sumOf(R, p.code[i].in) = e.masks + 16 * e.key
            \/ /\ notes[i] = (IF isPPC(sig.platform) THEN "rawVals" ELSE "vals")
               /\ p.loop < i
               /\ sumOf(R, p.code[i].in) \in Means(sig.platform, e)[sig.load]
            \/ /\ notes[i] = "rev" /\ isPPC(sig.platform) /\ i < p.loop
               /\ sumOf(R, p.code[i].in) = e.rev
<1> DEFINE ppc == isPPC(sig.platform)
<1>1. p.code[i].op = (IF ppc THEN "LXVD2X" ELSE "vload")
  BY DEF LoadsWide
<1>2. reads(p.code[i]) = {p.code[i].in[k] : k \in DOMAIN p.code[i].in}
  BY <1>1, ReadsOf DEF StoreOps
<1>3. /\ Means(sig.platform, e)["maskAt"] = {e.masks + 16 * e.key}
      /\ Means(sig.platform, e)["revAt"] = {e.rev}
  BY MeansValues
<1>4. CASE /\ notes[i] = (IF ppc THEN "rawMask" ELSE "mask")
           /\ p.loop < i /\ AddsUp(p, notes, i, "maskAt")
  BY <1>1, <1>2, <1>3, <1>4, SumValue DEF Reads
<1>5. CASE /\ notes[i] = (IF ppc THEN "rawVals" ELSE "vals")
           /\ p.loop < i /\ AddsUp(p, notes, i, sig.load)
  BY <1>1, <1>2, <1>5, SumValue DEF Reads
<1>6. CASE /\ notes[i] = "rev" /\ ppc /\ i < p.loop /\ Sources(p.code[i].in, 1)
           /\ Has(p, notes, i, p.code[i].in[1], "revAt")
  <2>1. p.code[i].in[1] \in DOMAIN R /\ R[p.code[i].in[1]] = e.rev
    BY <1>3, <1>6, HasValue
  <2>2. sumOf(R, p.code[i].in) = e.rev
    BY <1>6, <2>1 DEF sumOf, Sources
  <2>3. \A k \in DOMAIN p.code[i].in : p.code[i].in[k] \in DOMAIN R
    BY <1>6, <2>1 DEF Sources
  <2> QED BY <1>1, <1>2, <1>6, <2>2, <2>3 DEF Reads
<1> QED BY <1>4, <1>5, <1>6 DEF LoadsWide

\* The addresses of such loads.
LEMMA WideAddress ==
  ASSUME NEW p, NEW notes, NEW i, NEW R, NEW e, NEW sig, Scalars(e),
         p.loop < i => Loaded(e),
         Holds(p, notes, i, R, Means(sig.platform, e)), LoadsWide(sig, p, notes, i)
  PROVE  \/ p.loop < i /\ sumOf(R, p.code[i].in) = e.masks + 16 * e.key
         \/ p.loop < i /\ sumOf(R, p.code[i].in) \in Means(sig.platform, e)[sig.load]
         \/ sumOf(R, p.code[i].in) = e.rev
<1> DEFINE in == p.code[i].in
<1>1. /\ Means(sig.platform, e)["maskAt"] = {e.masks + 16 * e.key}
      /\ Means(sig.platform, e)["revAt"] = {e.rev}
  BY MeansValues
<1>2. CASE p.loop < i /\ AddsUp(p, notes, i, "maskAt")
  BY <1>1, <1>2, SumValue
<1>3. CASE p.loop < i /\ AddsUp(p, notes, i, sig.load)
  BY <1>3, SumValue
<1>4. CASE Sources(in, 1) /\ Has(p, notes, i, in[1], "revAt")
  <2>1. in[1] \in DOMAIN R /\ R[in[1]] = e.rev
    BY <1>1, <1>4, HasValue
  <2> QED BY <1>4, <2>1 DEF sumOf, Sources
<1> QED BY <1>2, <1>3, <1>4 DEF LoadsWide

LEMMA ClearValue ==
  ASSUME NEW p, NEW notes, NEW i, NEW R, NEW platform, NEW e, Clears(p, notes, i)
  PROVE  /\ p.code[i].op = "vzero" /\ Reads(p, i, R)
         /\ zeroVector \in Means(platform, e)[notes[i]]
<1>1. p.code[i].op = "vzero" /\ notes[i] = "zero"
  BY DEF Clears
<1>2. Reads(p, i, R)
  BY <1>1, ReadsOf DEF Reads
<1> QED BY <1>1, <1>2, MeansValues

LEMMA ReorderValue ==
  ASSUME NEW p, NEW notes, NEW i, NEW R, NEW e, NEW sig, NEW tail,
         Holds(p, notes, i, R, Means(sig.platform, e)), Reorders(sig, p, notes, i)
  PROVE  /\ p.code[i].op \in ShuffleOps /\ Reads(p, i, R)
         /\ shuffled(p.code[i], R, tail) \in Means(sig.platform, e)[notes[i]]
<1> DEFINE means == Means(sig.platform, e)
           x == p.code[i].in[1]
           y == p.code[i].in[3]
<1>1. /\ isPPC(sig.platform) /\ p.code[i].op = "VPERM" /\ Sources(p.code[i].in, 3)
      /\ p.code[i].in[2] = x /\ Has(p, notes, i, y, "rev")
  BY DEF Reorders
<1>2. PICK s \in {<<"rawMask", "mask">>, <<"rawVals", "vals">>, <<"out", "rawOut">>} :
        notes[i] = s[2] /\ Has(p, notes, i, x, s[1])
  BY DEF Reorders
<1>3. x \in DOMAIN R /\ y \in DOMAIN R /\ R[x] \in means[s[1]] /\ R[y] \in means["rev"]
  BY <1>1, <1>2, HasValue
<1>4. reads(p.code[i]) = {p.code[i].in[k] : k \in DOMAIN p.code[i].in}
  BY <1>1, ReadsOf DEF StoreOps
<1>5. \A k \in DOMAIN p.code[i].in : p.code[i].in[k] = x \/ p.code[i].in[k] = y
  BY <1>1 DEF Sources
<1>6. shuffled(p.code[i], R, tail) = VPERM(R[x], R[x], R[y])
  BY <1>1 DEF shuffled
<1>7. means = Means(sig.platform, e)
  OBVIOUS
<1> HIDE DEF x, y, means
<1>8. R[y] = e.reversal
  BY <1>3, <1>7, MeansValues
<1>9. VPERM(R[x], R[x], e.reversal) \in means[s[2]]
  <2>1. CASE s = <<"rawMask", "mask">>
    BY <1>1, <1>3, <1>7, <2>1, MeansValues DEF elements
  <2>2. CASE s = <<"rawVals", "vals">>
    BY <1>1, <1>3, <1>7, <2>2, MeansValues DEF elements
  <2>3. CASE s = <<"out", "rawOut">>
    BY <1>3, <1>7, <2>3, MeansValues
  <2> QED BY <1>2, <2>1, <2>2, <2>3
<1> QED BY <1>1, <1>2, <1>3, <1>4, <1>5, <1>6, <1>7, <1>8, <1>9 DEF Reads, ShuffleOps

LEMMA CombineValue ==
  ASSUME NEW p, NEW notes, NEW i, NEW R, NEW e, NEW sig, NEW tail \in TailBytes,
         Holds(p, notes, i, R, Means(sig.platform, e)), Combines(sig, p, notes, i)
  PROVE  /\ p.code[i].op \in ShuffleOps /\ Reads(p, i, R)
         /\ shuffled(p.code[i], R, tail) \in Means(sig.platform, e)[notes[i]]
<1> DEFINE means == Means(sig.platform, e)
           in == p.code[i].in
           op == p.code[i].op
           x == elements(sig.platform, e, e.vals)
           mask == elements(sig.platform, e, e.mask)
<1>1. /\ means["mask"] = {mask} /\ means["vals"] = {x} /\ means["zero"] = {zeroVector}
      /\ means["out"] = outs(sig.platform, e)
  BY MeansValues
<1>2. op \notin StoreOps \cup {"arg", "set", "jmp", "vzero", "inc"}
      => reads(p.code[i]) = {in[k] : k \in DOMAIN in}
  BY ReadsOf
<1>3. notes[i] = "out"
  BY DEF Combines
<1>4. CASE /\ \/ sig.platform = "amd64" /\ op = "PSHUFB"
              \/ sig.platform = "arm64" /\ op = "VTBL"
              \/ sig.platform = "riscv64" /\ op = "VRGATHERVV"
           /\ Sources(in, 2) /\ Has(p, notes, i, in[1], "mask") /\ Has(p, notes, i, in[2], "vals")
  <2>1. in[1] \in DOMAIN R /\ R[in[1]] = mask /\ in[2] \in DOMAIN R /\ R[in[2]] = x
    BY <1>1, <1>4, HasValue
  <2>2. \A k \in DOMAIN in : in[k] \in DOMAIN R
    BY <1>4, <2>1 DEF Sources
  <2> HIDE DEF x, mask
  <2>3. shuffled(p.code[i], R, tail) = combined(sig.platform, x, mask, tail)
    BY <1>4, <2>1 DEF shuffled, combined
  <2>4. op \in ShuffleOps /\ Reads(p, i, R)
    BY <1>2, <1>4, <2>2 DEF ShuffleOps, StoreOps, Reads
  <2> QED BY <1>1, <1>3, <2>3, <2>4 DEF outs, x, mask
<1>5. CASE /\ isPPC(sig.platform) \/ sig.platform = "s390x"
           /\ op = "VPERM" /\ Sources(in, 3)
           /\ Has(p, notes, i, in[1], "vals") /\ Has(p, notes, i, in[2], "zero")
           /\ Has(p, notes, i, in[3], "mask")
  <2>1. /\ in[1] \in DOMAIN R /\ R[in[1]] = x /\ in[2] \in DOMAIN R /\ R[in[2]] = zeroVector
        /\ in[3] \in DOMAIN R /\ R[in[3]] = mask
    BY <1>1, <1>5, HasValue
  <2>2. \A k \in DOMAIN in : in[k] \in DOMAIN R
    BY <1>5, <2>1 DEF Sources
  <2> HIDE DEF x, mask
  <2>3. shuffled(p.code[i], R, tail) = combined(sig.platform, x, mask, tail)
    BY <1>5, <2>1 DEF shuffled, combined, isPPC
  <2>4. op \in ShuffleOps /\ Reads(p, i, R)
    BY <1>2, <1>5, <2>2 DEF ShuffleOps, StoreOps, Reads
  <2> QED BY <1>1, <1>3, <2>3, <2>4 DEF outs, x, mask
<1>6. CASE /\ sig.platform = "loong64" /\ op = "VSHUFB" /\ Sources(in, 3)
           /\ Has(p, notes, i, in[1], "mask") /\ Has(p, notes, i, in[2], "vals")
           /\ Has(p, notes, i, in[3], "zero")
  <2>1. /\ in[1] \in DOMAIN R /\ R[in[1]] = mask /\ in[2] \in DOMAIN R /\ R[in[2]] = x
        /\ in[3] \in DOMAIN R /\ R[in[3]] = zeroVector
    BY <1>1, <1>6, HasValue
  <2>2. \A k \in DOMAIN in : in[k] \in DOMAIN R
    BY <1>6, <2>1 DEF Sources
  <2> HIDE DEF x, mask
  <2>3. shuffled(p.code[i], R, tail) = combined(sig.platform, x, mask, tail)
    BY <1>6, <2>1 DEF shuffled, combined
  <2>4. op \in ShuffleOps /\ Reads(p, i, R)
    BY <1>2, <1>6, <2>2 DEF ShuffleOps, StoreOps, Reads
  <2> QED BY <1>1, <1>3, <2>3, <2>4 DEF outs, x, mask
<1> QED BY <1>4, <1>5, <1>6 DEF Combines

\* w is what a kernel may store for the group at hand.
StoresOut(platform, e, w) ==
  \E v \in outs(platform, e) :
    w = IF isPPC(platform) THEN STXVD2X(VPERM(v, v, e.reversal)) ELSE v

\* The bytes that are stored, and where.
LEMMA StoreValue ==
  ASSUME NEW p, NEW notes, NEW i, NEW R, NEW e, NEW sig, Scalars(e), Loaded(e),
         Holds(p, notes, i, R, Means(sig.platform, e)), StoresWide(sig, p, notes, i)
  PROVE  /\ p.code[i].op = (IF isPPC(sig.platform) THEN "STXVD2X" ELSE "vstore")
         /\ Reads(p, i, R)
         /\ p.code[i].out \in DOMAIN R /\ R[p.code[i].out] \in Means(sig.platform, e)[notes[i]]
         /\ sumOf(R, p.code[i].in) \in Means(sig.platform, e)[sig.store]
         /\ StoresOut(sig.platform, e, storedBy(p.code[i], R))
<1> DEFINE means == Means(sig.platform, e)
           ppc == isPPC(sig.platform)
           in == p.code[i].in
           x == p.code[i].out
<1>1. /\ p.code[i].op = (IF ppc THEN "STXVD2X" ELSE "vstore")
      /\ notes[i] = (IF ppc THEN "rawOut" ELSE "out")
      /\ Has(p, notes, i, x, notes[i]) /\ AddsUp(p, notes, i, sig.store)
  BY DEF StoresWide
<1>2. x \in DOMAIN R /\ R[x] \in means[notes[i]]
  BY <1>1, HasValue
<1>3. /\ \A k \in DOMAIN in : in[k] \in DOMAIN R
      /\ sumOf(R, in) \in means[sig.store]
  BY <1>1, SumValue
<1>4. in[1] \in DOMAIN R /\ in[Len(in)] \in DOMAIN R
  <2>1. Sources(in, 1) \/ Sources(in, 2)
    BY <1>1 DEF AddsUp
  <2>2. 1 \in DOMAIN in /\ Len(in) \in DOMAIN in
    BY <2>1 DEF Sources
  <2> QED BY <1>3, <2>2
<1>5. reads(p.code[i]) = {x, in[1], in[Len(in)]}
  BY <1>1, ReadsOf DEF StoreOps
<1>6. StoresOut(sig.platform, e, storedBy(p.code[i], R))
  <2>1. CASE ppc
    <3>1. R[x] \in {VPERM(v, v, e.reversal) : v \in outs(sig.platform, e)}
      BY <1>1, <1>2, <2>1, MeansValues
    <3>2. storedBy(p.code[i], R) = STXVD2X(R[x])
      BY <1>1, <2>1 DEF storedBy
    <3> QED BY <2>1, <3>1, <3>2 DEF StoresOut
  <2>2. CASE ~ppc
    <3>1. R[x] \in outs(sig.platform, e)
      BY <1>1, <1>2, <2>2, MeansValues
    <3>2. storedBy(p.code[i], R) = R[x]
      BY <1>1, <2>2 DEF storedBy
    <3> QED BY <2>2, <3>1, <3>2 DEF StoresOut
  <2> QED BY <2>1, <2>2
<1> QED BY <1>1, <1>2, <1>3, <1>4, <1>5, <1>6 DEF Reads

\* The loop ends when the groups do.
LEMMA JumpValue ==
  ASSUME NEW p, NEW notes, NEW i, NEW R, NEW platform, NEW e, Scalars(e),
         Holds(p, notes, i, R, Means(platform, e)), Jumps(p, notes, i)
  PROVE  /\ p.code[i].out = "none" /\ Reads(p, i, R)
         /\ \/ /\ p.code[i].op = "jge" /\ i = p.loop
               /\ R[p.code[i].in[1]] >= R[p.code[i].in[2]] <=> e.g >= e.safe
            \/ p.code[i].op = "jmp" /\ i = Len(p.code) /\ Stored(p, i)
<1> DEFINE means == Means(platform, e)
           in == p.code[i].in
<1>1. CASE /\ p.code[i].op = "jge" /\ i = p.loop /\ Sources(in, 2)
           /\ \E s \in {<<"g", "safe">>, <<"ctrlAt", "ctrlEnd">>} :
                Has(p, notes, i, in[1], s[1]) /\ Has(p, notes, i, in[2], s[2])
  <2>1. PICK s \in {<<"g", "safe">>, <<"ctrlAt", "ctrlEnd">>} :
          Has(p, notes, i, in[1], s[1]) /\ Has(p, notes, i, in[2], s[2])
    BY <1>1
  <2>2. /\ in[1] \in DOMAIN R /\ in[2] \in DOMAIN R
        /\ R[in[1]] \in means[s[1]] /\ R[in[2]] \in means[s[2]]
    BY <2>1, HasValue
  <2>3. \A k \in DOMAIN in : in[k] \in DOMAIN R
    BY <1>1, <2>2 DEF Sources
  <2>4. reads(p.code[i]) = {in[k] : k \in DOMAIN in}
    BY <1>1, ReadsOf DEF StoreOps
  <2>5. /\ means["g"] = {e.g} /\ means["safe"] = {e.safe}
        /\ means["ctrlAt"] = {e.ctrl + e.g} /\ means["ctrlEnd"] = {e.ctrl + e.safe}
    BY MeansValues
  <2>6. R[in[1]] >= R[in[2]] <=> e.g >= e.safe
    <3> HIDE DEF means, in
    <3>1. CASE s = <<"g", "safe">>
      BY <2>2, <2>5, <3>1
    <3>2. CASE s = <<"ctrlAt", "ctrlEnd">>
      <4>1. R[in[1]] = e.ctrl + e.g /\ R[in[2]] = e.ctrl + e.safe
        BY <2>2, <2>5, <3>2
      <4> QED BY <4>1 DEF Scalars
    <3> QED BY <2>1, <3>1, <3>2
  <2> QED BY <1>1, <2>3, <2>4, <2>6 DEF Reads, Jumps
<1>2. CASE p.code[i].op = "jmp" /\ i = Len(p.code) /\ Stored(p, i)
  BY <1>2, ReadsOf DEF Reads, Jumps
<1> QED BY <1>1, <1>2 DEF Jumps

\* Every instruction that is justified has its registers set.
LEMMA JustifiedReads ==
  ASSUME NEW p, NEW notes, NEW i, NEW R, NEW e, NEW sig, Scalars(e),
         i < p.loop => e.g = 0 /\ e.off = 0 /\ e.rev = sig.rev,
         p.loop < i => Loaded(e),
         Holds(p, notes, i, R, Means(sig.platform, e)), Justified(sig, p, notes, i)
  PROVE  Reads(p, i, R)
<1>1. CASE TakesArgument(sig, p, notes, i) \/ SetsConstant(sig, p, notes, i)
  <2>1. Reads(p, i, R)
    BY <1>1, ReadsOf DEF Reads, TakesArgument, SetsConstant
  <2> QED BY <2>1
<1>2. CASE AddsOrMoves(p, notes, i)
  BY <1>2, SumsValue
<1>3. CASE Advances(p, notes, i)
  BY <1>3, AdvanceValue
<1>4. CASE Scales(p, notes, i)
  BY <1>4, ScaleValue
<1>5. CASE LoadsByte(p, notes, i)
  <2>1. Loaded(e)
    BY <1>5 DEF LoadsByte
  <2> QED BY <1>5, <2>1, ByteValue
<1>6. CASE LoadsWide(sig, p, notes, i)
  BY <1>6, WideValue
<1>7. CASE Clears(p, notes, i)
  BY <1>7, ClearValue
<1>8. CASE Reorders(sig, p, notes, i)
  BY <1>8, ReorderValue
<1>9. CASE Combines(sig, p, notes, i)
  <2>1. PICK tail \in TailBytes : TRUE
    BY TailBytesAssumption
  <2> QED BY <1>9, <2>1, CombineValue
<1>10. CASE StoresWide(sig, p, notes, i)
  <2>1. Loaded(e)
    BY <1>10 DEF StoresWide
  <2> QED BY <1>10, <2>1, StoreValue
<1>11. CASE Jumps(p, notes, i)
  BY <1>11, JumpValue
<1> QED BY <1>1, <1>2, <1>3, <1>4, <1>5, <1>6, <1>7, <1>8, <1>9, <1>10, <1>11 DEF Justified

\* What the cursors become is what they are for the next group.
LEMMA NextMeans ==
  ASSUME NEW platform, NEW e, NEW f, Scalars(e), Loaded(e), f.g = e.g + 1,
         f.off = e.off + e.len, f.data = e.data, f.ctrl = e.ctrl, f.ints = e.ints,
         f.safe = e.safe, f.masks = e.masks, f.lens = e.lens, f.rev = e.rev,
         f.reversal = e.reversal
  PROVE  /\ \A role \in Fixed :
              Means(platform, e)[role] \subseteq Means(platform, f)[role]
         /\ \A role \in Cursors :
              Means(platform, e)[next[role]] \subseteq Means(platform, f)[role]
<1> DEFINE before == Means(platform, e)
           after == Means(platform, f)
<1>0. before = Means(platform, e) /\ after = Means(platform, f)
  OBVIOUS
<1> HIDE DEF before, after
<1>1. ASSUME NEW role \in Fixed PROVE before[role] \subseteq after[role]
  <2>1. /\ before["data"] = after["data"] /\ before["ctrl"] = after["ctrl"]
        /\ before["ints"] = after["ints"] /\ before["safe"] = after["safe"]
        /\ before["masks"] = after["masks"] /\ before["lens"] = after["lens"]
        /\ before["ctrlEnd"] = after["ctrlEnd"] /\ before["width"] = after["width"]
        /\ before["zero"] = after["zero"] /\ before["revAt"] = after["revAt"]
        /\ before["rev"] = after["rev"]
    <3>1. /\ before["data"] = {e.data} /\ before["ctrl"] = {e.ctrl}
          /\ before["ints"] = {e.ints} /\ before["safe"] = {e.safe}
          /\ before["masks"] = {e.masks} /\ before["lens"] = {e.lens}
          /\ before["ctrlEnd"] = {e.ctrl + e.safe} /\ before["width"] = {wide}
          /\ before["zero"] = {zeroVector} /\ before["revAt"] = {e.rev}
          /\ before["rev"] = {e.reversal}
      BY <1>0, MeansValues
    <3>2. /\ after["data"] = {f.data} /\ after["ctrl"] = {f.ctrl}
          /\ after["ints"] = {f.ints} /\ after["safe"] = {f.safe}
          /\ after["masks"] = {f.masks} /\ after["lens"] = {f.lens}
          /\ after["ctrlEnd"] = {f.ctrl + f.safe} /\ after["width"] = {wide}
          /\ after["zero"] = {zeroVector} /\ after["revAt"] = {f.rev}
          /\ after["rev"] = {f.reversal}
      BY <1>0, MeansValues
    <3> QED BY <3>1, <3>2
  <2> QED BY <2>1 DEF Fixed
<1>2. ASSUME NEW role \in Cursors PROVE before[next[role]] \subseteq after[role]
  <2>1. /\ f.off = e.off + e.len /\ f.ctrl + f.g = e.ctrl + e.g + 1
        /\ f.ints + 16 * f.g = e.ints + 16 * e.g + wide
        /\ f.data + f.off = e.data + e.off + e.len
    BY DEF Scalars, Loaded, wide
  <2>2. /\ before["nextG"] = {e.g + 1} /\ before["nextOff"] = {e.off + e.len}
        /\ before["nextCtrlAt"] = {e.ctrl + e.g + 1}
        /\ before["nextIntsAt"] = {e.ints + 16 * e.g + wide}
        /\ before["nextDataAt"] = {e.data + e.off + e.len}
    BY <1>0, MeansValues
  <2>3. /\ after["g"] = {f.g} /\ after["off"] = {f.off} /\ after["ctrlAt"] = {f.ctrl + f.g}
        /\ after["intsAt"] = {f.ints + 16 * f.g} /\ after["dataAt"] = {f.data + f.off}
    BY <1>0, MeansValues
  <2> QED BY <2>1, <2>2, <2>3 DEF Cursors, next
<1> QED BY <1>0, <1>1, <1>2

\* What the instructions other than stores and jumps put in their registers, if e
\* says what a byte and 16 bytes of memory are at the addresses of the roles.
Computes(sig, p, i, R, e, frame, val) ==
  LET in    == p.code[i].in
      op    == p.code[i].op
      means == Means(sig.platform, e)
  IN /\ op = "arg"  => val = frame[in]
     /\ op = "set"  => val = in
     /\ op = "sum"  => val = sumOf(R, in)
     /\ op = "inc"  => val = R[p.code[i].out] + in
     /\ op = "shl4" => val = 16 * sumOf(R, in)
     /\ op = "byte" => /\ sumOf(R, in) = e.ctrl + e.g => val = e.key
                       /\ sumOf(R, in) = e.lens + e.key => val = e.len
     /\ op = "vload" =>
          /\ p.loop < i /\ sumOf(R, in) = e.masks + 16 * e.key => val = e.mask
          /\ p.loop < i /\ sumOf(R, in) \in means[sig.load] => val = e.vals
     /\ op = "LXVD2X" =>
          /\ p.loop < i /\ sumOf(R, in) = e.masks + 16 * e.key => val = LXVD2X(e.mask)
          /\ p.loop < i /\ sumOf(R, in) \in means[sig.load] => val = LXVD2X(e.vals)
          /\ sumOf(R, in) = e.rev => val = e.reversal
     /\ op = "vzero" => val = zeroVector
     /\ op \in ShuffleOps => \E tail \in TailBytes : val = shuffled(p.code[i], R, tail)

\* What an instruction puts in its register is what its note says.
LEMMA ComputedValue ==
  ASSUME NEW p, NEW notes, NEW i, NEW R, NEW e, NEW sig, NEW frame, NEW val, Scalars(e),
         i < p.loop => e.g = 0 /\ e.off = 0 /\ e.rev = sig.rev,
         p.loop < i => Loaded(e),
         \A k \in DOMAIN sig.args : frame[k] \in Means(sig.platform, e)[sig.args[k]],
         Holds(p, notes, i, R, Means(sig.platform, e)), Justified(sig, p, notes, i),
         p.code[i].op \in ScalarOps \cup VectorOps, Computes(sig, p, i, R, e, frame, val)
  PROVE  val \in Means(sig.platform, e)[notes[i]]
<1> DEFINE op == p.code[i].op
           means == Means(sig.platform, e)
<1>1. CASE TakesArgument(sig, p, notes, i)
  <2>1. op = "arg" /\ i < p.loop
    BY <1>1 DEF TakesArgument
  <2>2. frame[p.code[i].in] \in means[notes[i]]
    BY <1>1, <2>1, ArgumentValue
  <2> QED BY <2>1, <2>2 DEF Computes
<1>2. CASE SetsConstant(sig, p, notes, i)
  <2>1. op = "set" /\ i < p.loop
    BY <1>2 DEF SetsConstant
  <2>2. p.code[i].in \in means[notes[i]]
    BY <1>2, <2>1, ConstantValue
  <2> QED BY <2>1, <2>2 DEF Computes
<1>3. CASE AddsOrMoves(p, notes, i)
  BY <1>3, SumsValue DEF Computes
<1>4. CASE Advances(p, notes, i)
  BY <1>4, AdvanceValue DEF Computes
<1>5. CASE Scales(p, notes, i)
  BY <1>5, ScaleValue DEF Computes
<1>6. CASE LoadsByte(p, notes, i)
  <2>1. Loaded(e)
    BY <1>6 DEF LoadsByte
  <2>2. /\ op = "byte"
        /\ \/ notes[i] = "key" /\ sumOf(R, p.code[i].in) = e.ctrl + e.g
           \/ notes[i] = "len" /\ sumOf(R, p.code[i].in) = e.lens + e.key
    BY <1>6, <2>1, ByteValue
  <2>3. \/ notes[i] = "key" /\ val = e.key
        \/ notes[i] = "len" /\ val = e.len
    BY <2>2 DEF Computes
  <2>4. means["key"] = {e.key} /\ means["len"] = {e.len}
    BY MeansValues
  <2> QED BY <2>3, <2>4
<1>7. CASE LoadsWide(sig, p, notes, i)
  <2>0. LET ppc == isPPC(sig.platform)
        IN /\ p.code[i].op = (IF ppc THEN "LXVD2X" ELSE "vload") /\ Reads(p, i, R)
           /\ \/ /\ notes[i] = (IF ppc THEN "rawMask" ELSE "mask") /\ p.loop < i
                 /\ sumOf(R, p.code[i].in) = e.masks + 16 * e.key
              \/ /\ notes[i] = (IF ppc THEN "rawVals" ELSE "vals") /\ p.loop < i
                 /\ sumOf(R, p.code[i].in) \in Means(sig.platform, e)[sig.load]
              \/ /\ notes[i] = "rev" /\ ppc /\ i < p.loop
                 /\ sumOf(R, p.code[i].in) = e.rev
    BY <1>7, WideValue
  <2>1. CASE isPPC(sig.platform)
    <3>1. /\ p.code[i].op = "LXVD2X"
          /\ \/ /\ notes[i] = "rawMask" /\ p.loop < i
                /\ sumOf(R, p.code[i].in) = e.masks + 16 * e.key
             \/ /\ notes[i] = "rawVals" /\ p.loop < i
                /\ sumOf(R, p.code[i].in) \in Means(sig.platform, e)[sig.load]
             \/ notes[i] = "rev" /\ sumOf(R, p.code[i].in) = e.rev
      BY <2>0, <2>1
    <3>2. \/ notes[i] = "rawMask" /\ val = LXVD2X(e.mask)
          \/ notes[i] = "rawVals" /\ val = LXVD2X(e.vals)
          \/ notes[i] = "rev" /\ val = e.reversal
      BY <3>1 DEF Computes
    <3>3. /\ means["rawMask"] = {LXVD2X(e.mask)} /\ means["rawVals"] = {LXVD2X(e.vals)}
          /\ means["rev"] = {e.reversal}
      BY MeansValues
    <3> QED BY <3>2, <3>3
  <2>2. CASE ~isPPC(sig.platform)
    <3>1. /\ p.code[i].op = "vload" /\ p.loop < i
          /\ \/ notes[i] = "mask" /\ sumOf(R, p.code[i].in) = e.masks + 16 * e.key
             \/ /\ notes[i] = "vals"
                /\ sumOf(R, p.code[i].in) \in Means(sig.platform, e)[sig.load]
      BY <2>0, <2>2
    <3>2. \/ notes[i] = "mask" /\ val = e.mask
          \/ notes[i] = "vals" /\ val = e.vals
      BY <3>1 DEF Computes
    <3>3. means["mask"] = {e.mask} /\ means["vals"] = {e.vals}
      BY <2>2, MeansValues DEF elements
    <3> QED BY <3>2, <3>3
  <2> QED BY <2>1, <2>2
<1>8. CASE Clears(p, notes, i)
  <2>1. op = "vzero" /\ zeroVector \in means[notes[i]]
    BY <1>8, ClearValue
  <2>2. val = zeroVector
    BY <2>1 DEF Computes
  <2> QED BY <2>1, <2>2
<1>9. CASE Reorders(sig, p, notes, i)
  <2>1. op \in ShuffleOps
    BY <1>9 DEF Reorders, ShuffleOps
  <2>2. PICK tail \in TailBytes : val = shuffled(p.code[i], R, tail)
    BY <2>1 DEF Computes
  <2> QED BY <1>9, <2>2, ReorderValue
<1>10. CASE Combines(sig, p, notes, i)
  <2>1. op \in ShuffleOps
    BY <1>10 DEF Combines, ShuffleOps
  <2>2. PICK tail \in TailBytes : val = shuffled(p.code[i], R, tail)
    BY <2>1 DEF Computes
  <2> QED BY <1>10, <2>2, CombineValue
<1>11. CASE StoresWide(sig, p, notes, i) \/ Jumps(p, notes, i)
  <2>1. op \in {"STXVD2X", "vstore", "jge", "jmp"}
    BY <1>11 DEF StoresWide, Jumps
  <2> QED BY <2>1 DEF ScalarOps, VectorOps, ShuffleOps
<1> QED BY <1>1, <1>2, <1>3, <1>4, <1>5, <1>6, <1>7, <1>8, <1>9, <1>10, <1>11 DEF Justified

\* The one store of a program is justified as one, and so are its jumps.
LEMMA StoresAndJumps ==
  ASSUME NEW sig, NEW p, NEW notes, NEW i, Justified(sig, p, notes, i)
  PROVE  /\ p.code[i].op \in StoreOps => StoresWide(sig, p, notes, i)
         /\ p.code[i].op \in {"jge", "jmp"} => Jumps(p, notes, i)
         /\ p.code[i].op \in StoreOps \/ p.code[i].op \in {"jge", "jmp"}
            \/ p.code[i].op \in ScalarOps \cup VectorOps
<1> DEFINE op == p.code[i].op
<1>1. CASE \/ TakesArgument(sig, p, notes, i) \/ SetsConstant(sig, p, notes, i)
           \/ AddsOrMoves(p, notes, i) \/ Advances(p, notes, i) \/ Scales(p, notes, i)
           \/ LoadsByte(p, notes, i) \/ LoadsWide(sig, p, notes, i) \/ Clears(p, notes, i)
           \/ Reorders(sig, p, notes, i) \/ Combines(sig, p, notes, i)
  <2>1. op \in {"arg", "set", "sum", "inc", "shl4", "byte", "LXVD2X", "vload", "vzero"} \cup ShuffleOps
    <3>1. CASE \/ TakesArgument(sig, p, notes, i) \/ SetsConstant(sig, p, notes, i)
               \/ AddsOrMoves(p, notes, i) \/ Advances(p, notes, i) \/ Scales(p, notes, i)
               \/ LoadsByte(p, notes, i) \/ Clears(p, notes, i)
      BY <3>1 DEF TakesArgument, SetsConstant, AddsOrMoves, Advances, Scales, LoadsByte, Clears
    <3>2. CASE LoadsWide(sig, p, notes, i)
      BY <3>2 DEF LoadsWide
    <3>3. CASE Reorders(sig, p, notes, i) \/ Combines(sig, p, notes, i)
      BY <3>3 DEF Reorders, Combines, ShuffleOps
    <3> QED BY <1>1, <3>1, <3>2, <3>3
  <2> HIDE DEF op
  <2>2. op \in ScalarOps \cup VectorOps /\ op \notin StoreOps /\ op \notin {"jge", "jmp"}
    BY <2>1 DEF ScalarOps, VectorOps, StoreOps, ShuffleOps
  <2> QED BY <2>2 DEF op
<1>2. CASE StoresWide(sig, p, notes, i)
  <2>1. op \in {"STXVD2X", "vstore"}
    BY <1>2 DEF StoresWide
  <2> QED BY <1>2, <2>1 DEF StoreOps
<1>3. CASE Jumps(p, notes, i)
  <2>1. op \in {"jge", "jmp"}
    BY <1>3 DEF Jumps
  <2> QED BY <1>3, <2>1 DEF StoreOps
<1> QED BY <1>1, <1>2, <1>3 DEF Justified

\* Which rule a load is justified by.
LEMMA LoadsAre ==
  ASSUME NEW sig, NEW p, NEW notes, NEW i, Justified(sig, p, notes, i)
  PROVE  /\ p.code[i].op = "byte" => LoadsByte(p, notes, i)
         /\ p.code[i].op \in {"vload", "LXVD2X"} => LoadsWide(sig, p, notes, i)
<1> DEFINE op == p.code[i].op
<1>1. CASE \/ TakesArgument(sig, p, notes, i) \/ SetsConstant(sig, p, notes, i)
           \/ AddsOrMoves(p, notes, i) \/ Advances(p, notes, i) \/ Scales(p, notes, i)
           \/ Clears(p, notes, i)
  BY <1>1 DEF TakesArgument, SetsConstant, AddsOrMoves, Advances, Scales, Clears
<1>2. CASE LoadsByte(p, notes, i) \/ LoadsWide(sig, p, notes, i)
  <2>1. CASE LoadsByte(p, notes, i)
    <3>1. op = "byte"
      BY <2>1 DEF LoadsByte
    <3> QED BY <2>1, <3>1
  <2>2. CASE LoadsWide(sig, p, notes, i)
    <3>1. op = "vload" \/ op = "LXVD2X"
      BY <2>2 DEF LoadsWide
    <3> QED BY <2>2, <3>1
  <2> QED BY <1>2, <2>1, <2>2
<1>3. CASE Reorders(sig, p, notes, i) \/ Combines(sig, p, notes, i)
  BY <1>3 DEF Reorders, Combines
<1>4. CASE StoresWide(sig, p, notes, i) \/ Jumps(p, notes, i)
  <2>1. op \in {"STXVD2X", "vstore", "jge", "jmp"}
    BY <1>4 DEF StoresWide, Jumps
  <2> QED BY <2>1
<1> QED BY <1>1, <1>2, <1>3, <1>4 DEF Justified

\* Nothing is stored at the head of the loop, and whether it is behind an instruction
\* depends on that one.
LEMMA StoredSteps ==
  ASSUME NEW sig, NEW p, NEW notes, Annotated(sig, p, notes)
  PROVE  /\ ~Stored(p, p.loop) /\ Stored(p, Len(p.code))
         /\ \A i \in 1 .. Len(p.code) :
              /\ i <= p.loop => ~Stored(p, i)
              /\ Stored(p, i + 1) <=> Stored(p, i) \/ p.code[i].op \in StoreOps
              /\ p.code[i].op \in StoreOps => p.loop < i /\ ~Stored(p, i)
<1>1. /\ Len(p.code) \in Nat /\ p.loop \in 1 .. Len(p.code) - 1
      /\ p.code[p.loop].op = "jge" /\ p.code[Len(p.code)].op = "jmp"
      /\ \A i \in 1 .. Len(p.code) : Justified(sig, p, notes, i)
  BY DEF Annotated
<1>2. \A i \in 1 .. Len(p.code) : p.code[i].op \in StoreOps => p.loop < i /\ ~Stored(p, i)
  BY <1>1, StoresAndJumps DEF StoresWide
<1>3. \A i \in 1 .. Len(p.code) : i <= p.loop => ~Stored(p, i)
  BY <1>1, <1>2 DEF Stored
<1>4. ASSUME NEW i \in 1 .. Len(p.code)
      PROVE  Stored(p, i + 1) <=> Stored(p, i) \/ p.code[i].op \in StoreOps
  <2>1. \A k : k \in 1 .. i + 1 - 1 <=> k \in 1 .. i - 1 \/ k = i
    BY <1>1
  <2> QED BY <2>1 DEF Stored
<1>5. Stored(p, Len(p.code))
  <2>1. Len(p.code) \in 1 .. Len(p.code)
    BY <1>1
  <2>2. Jumps(p, notes, Len(p.code))
    BY <1>1, <2>1, StoresAndJumps
  <2> QED BY <1>1, <2>2 DEF Jumps
<1>6. p.loop \in 1 .. Len(p.code)
  BY <1>1
<1> QED BY <1>1, <1>2, <1>3, <1>4, <1>5, <1>6

-----------------------------------------------------------------------------
(* The rules of Notes, for an instruction that is known.                   *)

Op(p, k)        == p.code[k].op
In(p, k)        == p.code[k].in
Out(p, k)       == p.code[k].out
Size(p)         == Len(p.code)
Loop(p)         == p.loop
Role(notes, k)  == notes[k]
Platform(sig)   == sig.platform
Arg(sig, k)     == sig.args[k]
SixArgs(sig)    == DOMAIN sig.args = 1 .. 6
LoadsFrom(sig)  == sig.load
StoresTo(sig)   == sig.store
Reversal(sig)   == sig.rev
One(x)          == <<x>>
Two(x, y)       == <<x, y>>
Three(x, y, z)  == <<x, y, z>>

\* What is good behind instruction i.
After(p, notes, i, x, role) == Has(p, notes, i + 1, x, role)

\* The register of the instruction itself, and those that it leaves alone.
LEMMA Behind ==
  ASSUME NEW p, NEW notes, NEW i, NEW x, NEW role, i \in Nat, Loop(p) \in Nat, i >= 1,
         \/ Has(p, notes, i, x, role) /\ Out(p, i) # x
         \/ Out(p, i) = x /\ x # "none" /\ Role(notes, i) = role,
         i + 1 = Loop(p) =>
           role \in Cursors \/ \A m \in Loop(p) .. Size(p) : Out(p, m) # x
  PROVE  After(p, notes, i, x, role)
<1>1. CASE Has(p, notes, i, x, role) /\ Out(p, i) # x
  <2>1. PICK k \in 1 .. i - 1 : Out(p, k) = x /\ Role(notes, k) = role /\ Live(p, notes, k, i)
    BY <1>1 DEF Has, Out, Role
  <2>2. \A m \in k + 1 .. i : m \in k + 1 .. i - 1 \/ m = i
    OBVIOUS
  <2>3. x # "none" /\ \A m \in k + 1 .. i : Out(p, m) # x
    <3>1. x # "none" /\ \A m \in k + 1 .. i - 1 : Out(p, m) # x
      BY <2>1 DEF Live, Out
    <3> QED BY <1>1, <2>2, <3>1
  <2>4. k < Loop(p) /\ Loop(p) <= i + 1 =>
          role \in Cursors \/ \A m \in Loop(p) .. Size(p) : Out(p, m) # x
    <3>1. k < Loop(p) /\ Loop(p) <= i =>
            role \in Cursors \/ \A m \in Loop(p) .. Size(p) : Out(p, m) # x
      BY <2>1 DEF Live, Out, Role, Loop, Size
    <3>2. Loop(p) <= i + 1 => Loop(p) <= i \/ Loop(p) = i + 1
      OBVIOUS
    <3> QED BY <3>1, <3>2
  <2>5. k \in 1 .. i + 1 - 1 /\ i + 1 - 1 = i
    OBVIOUS
  <2>6. Live(p, notes, k, i + 1)
    BY <2>1, <2>3, <2>4, <2>5 DEF Live, Out, Role, Loop, Size
  <2> QED BY <2>1, <2>5, <2>6 DEF After, Has, Out, Role
<1>2. CASE Out(p, i) = x /\ x # "none" /\ Role(notes, i) = role
  <2>1. i < Loop(p) /\ Loop(p) <= i + 1 => i + 1 = Loop(p)
    OBVIOUS
  <2>2. i \in 1 .. i + 1 - 1 /\ \A m \in i + 1 .. i + 1 - 1 : FALSE
    OBVIOUS
  <2>3. Live(p, notes, i, i + 1)
    BY <1>2, <2>1, <2>2 DEF Live, Out, Role, Loop, Size
  <2> QED BY <1>2, <2>2, <2>3 DEF After, Has, Out, Role
<1> QED BY <1>1, <1>2

LEMMA ArgRule ==
  ASSUME NEW sig, NEW p, NEW notes, NEW i, NEW k \in 1 .. 6, NEW arg, NEW role,
         Op(p, i) = "arg", In(p, i) = k, Role(notes, i) = role, i < Loop(p),
         SixArgs(sig), Arg(sig, k) = arg,
         \/ role = arg
         \/ <<arg, role>> \in {<<"ctrl", "ctrlAt">>, <<"ints", "intsAt">>, <<"data", "dataAt">>}
  PROVE  Justified(sig, p, notes, i)
<1>1. p.code[i].op = "arg" /\ p.code[i].in = k /\ notes[i] = role /\ i < p.loop
  BY DEF Op, In, One, Two, Three, Role, Loop
<1>2. k \in DOMAIN sig.args /\ sig.args[k] = arg
  BY DEF SixArgs, Arg
<1>3. \/ notes[i] = sig.args[k]
      \/ \E s \in {<<"ctrl", "ctrlAt">>, <<"ints", "intsAt">>, <<"data", "dataAt">>} :
           sig.args[k] = s[1] /\ notes[i] = s[2]
  BY <1>1, <1>2
<1> HIDE DEF Arg
<1>4. TakesArgument(sig, p, notes, i)
  BY <1>1, <1>2, <1>3 DEF TakesArgument
<1> QED BY <1>4 DEF Justified

LEMMA SetRule ==
  ASSUME NEW sig, NEW p, NEW notes, NEW i, NEW k, NEW role,
         Op(p, i) = "set", In(p, i) = k, Role(notes, i) = role, i < Loop(p),
         <<k, role>> \in {<<0, "g">>, <<0, "off">>, <<wide, "width">>, <<Reversal(sig), "revAt">>}
  PROVE  Justified(sig, p, notes, i)
<1>1. p.code[i].op = "set" /\ p.code[i].in = k /\ notes[i] = role /\ i < p.loop
  BY DEF Op, In, One, Two, Three, Role, Loop
<1>2. \E s \in {<<0, "g">>, <<0, "off">>, <<wide, "width">>, <<sig.rev, "revAt">>} :
        k = s[1] /\ role = s[2]
  BY DEF Reversal
<1>3. SetsConstant(sig, p, notes, i)
  BY <1>1, <1>2 DEF SetsConstant
<1> QED BY <1>3 DEF Justified

\* One source that has the role, or two that add up to it.
LEMMA OneAddsUp ==
  ASSUME NEW p, NEW notes, NEW i, NEW x, NEW role, In(p, i) = One(x), Has(p, notes, i, x, role)
  PROVE  AddsUp(p, notes, i, role)
<1>1. p.code[i].in = <<x>>
  BY DEF In, One, Two, Three
<1> QED BY <1>1 DEF AddsUp, Sources

LEMMA TwoAddUp ==
  ASSUME NEW p, NEW notes, NEW i, NEW x, NEW y, NEW a, NEW b, NEW role,
         In(p, i) = Two(x, y), <<a, b, role>> \in Sums,
         Has(p, notes, i, x, a), Has(p, notes, i, y, b)
  PROVE  AddsUp(p, notes, i, role)
<1>1. p.code[i].in = <<x, y>>
  BY DEF In, One, Two, Three
<1>2. Sources(p.code[i].in, 2)
  BY <1>1 DEF Sources
<1>3. PICK s \in Sums : s = <<a, b, role>>
  OBVIOUS
<1> QED BY <1>1, <1>2, <1>3 DEF AddsUp

LEMMA SumRule ==
  ASSUME NEW sig, NEW p, NEW notes, NEW i, Op(p, i) = "sum", Loop(p) < i,
         AddsUp(p, notes, i, Role(notes, i))
  PROVE  Justified(sig, p, notes, i)
<1>1. p.code[i].op = "sum" /\ p.loop < i /\ AddsUp(p, notes, i, notes[i])
  BY DEF Op, Role, Loop
<1>2. AddsOrMoves(p, notes, i)
  BY <1>1 DEF AddsOrMoves
<1> QED BY <1>2 DEF Justified

LEMMA EndRule ==
  ASSUME NEW sig, NEW p, NEW notes, NEW i, NEW x, NEW y, Op(p, i) = "sum", i < Loop(p),
         In(p, i) = Two(x, y), Role(notes, i) = "ctrlEnd",
         Has(p, notes, i, x, "ctrlAt"), Has(p, notes, i, y, "safe")
  PROVE  Justified(sig, p, notes, i)
<1>1. p.code[i].op = "sum" /\ i < p.loop /\ p.code[i].in = <<x, y>> /\ notes[i] = "ctrlEnd"
  BY DEF Op, In, One, Two, Three, Role, Loop
<1>2. AddsOrMoves(p, notes, i)
  BY <1>1 DEF AddsOrMoves, Sources
<1> QED BY <1>2 DEF Justified

LEMMA IncRule ==
  ASSUME NEW sig, NEW p, NEW notes, NEW i, NEW k, NEW role, Op(p, i) = "inc", Loop(p) < i,
         In(p, i) = k, <<role, k>> \in {<<"g", 1>>, <<"ctrlAt", 1>>, <<"intsAt", wide>>},
         Role(notes, i) = next[role], Has(p, notes, i, Out(p, i), role)
  PROVE  Justified(sig, p, notes, i)
<1>1. /\ p.code[i].op = "inc" /\ p.loop < i /\ p.code[i].in = k /\ notes[i] = next[role]
      /\ Has(p, notes, i, p.code[i].out, role)
  BY DEF Op, In, One, Two, Three, Out, Role, Loop
<1>2. PICK s \in {<<"g", 1>>, <<"ctrlAt", 1>>, <<"intsAt", wide>>} : s = <<role, k>>
  OBVIOUS
<1>3. Advances(p, notes, i)
  BY <1>1, <1>2 DEF Advances
<1> QED BY <1>3 DEF Justified

LEMMA ScaleRule ==
  ASSUME NEW sig, NEW p, NEW notes, NEW i, NEW x, NEW a, NEW role,
         Op(p, i) = "shl4", Loop(p) < i, In(p, i) = One(x), Role(notes, i) = role,
         <<a, role>> \in {<<"g", "g16">>, <<"key", "key16">>}, Has(p, notes, i, x, a)
  PROVE  Justified(sig, p, notes, i)
<1>1. p.code[i].op = "shl4" /\ p.loop < i /\ p.code[i].in = <<x>> /\ notes[i] = role
  BY DEF Op, In, One, Two, Three, Role, Loop
<1>2. PICK s \in {<<"g", "g16">>, <<"key", "key16">>} : s = <<a, role>>
  OBVIOUS
<1>3. Scales(p, notes, i)
  BY <1>1, <1>2 DEF Scales, Sources
<1> QED BY <1>3 DEF Justified

LEMMA ByteRule ==
  ASSUME NEW sig, NEW p, NEW notes, NEW i, Op(p, i) = "byte", Loop(p) < i,
         \/ Role(notes, i) = "key" /\ AddsUp(p, notes, i, "ctrlAt")
         \/ Role(notes, i) = "len" /\ AddsUp(p, notes, i, "lenAt")
  PROVE  Justified(sig, p, notes, i)
<1>1. LoadsByte(p, notes, i)
  BY DEF LoadsByte, Op, Role, Loop
<1> QED BY <1>1 DEF Justified

LEMMA WideRule ==
  ASSUME NEW sig, NEW p, NEW notes, NEW i, Loop(p) < i,
         \/ ~isPPC(Platform(sig)) /\ Op(p, i) = "vload" /\ Role(notes, i) = "mask"
            /\ AddsUp(p, notes, i, "maskAt")
         \/ ~isPPC(Platform(sig)) /\ Op(p, i) = "vload" /\ Role(notes, i) = "vals"
            /\ AddsUp(p, notes, i, LoadsFrom(sig))
         \/ isPPC(Platform(sig)) /\ Op(p, i) = "LXVD2X" /\ Role(notes, i) = "rawMask"
            /\ AddsUp(p, notes, i, "maskAt")
         \/ isPPC(Platform(sig)) /\ Op(p, i) = "LXVD2X" /\ Role(notes, i) = "rawVals"
            /\ AddsUp(p, notes, i, LoadsFrom(sig))
  PROVE  Justified(sig, p, notes, i)
<1>1. LoadsWide(sig, p, notes, i)
  BY DEF LoadsWide, Op, Role, Loop, Platform, LoadsFrom
<1> QED BY <1>1 DEF Justified

LEMMA ReversalRule ==
  ASSUME NEW sig, NEW p, NEW notes, NEW i, NEW x, isPPC(Platform(sig)), Op(p, i) = "LXVD2X",
         Role(notes, i) = "rev", i < Loop(p), In(p, i) = One(x), Has(p, notes, i, x, "revAt")
  PROVE  Justified(sig, p, notes, i)
<1>1. p.code[i].in = <<x>> /\ Sources(p.code[i].in, 1)
  BY DEF In, One, Two, Three, Sources
<1>2. LoadsWide(sig, p, notes, i)
  BY <1>1 DEF LoadsWide, Op, Role, Loop, Platform
<1> QED BY <1>2 DEF Justified

LEMMA ZeroRule ==
  ASSUME NEW sig, NEW p, NEW notes, NEW i, Op(p, i) = "vzero", Role(notes, i) = "zero",
         i < Loop(p)
  PROVE  Justified(sig, p, notes, i)
<1>1. Clears(p, notes, i)
  BY DEF Clears, Op, Role, Loop
<1> QED BY <1>1 DEF Justified

LEMMA ReorderRule ==
  ASSUME NEW sig, NEW p, NEW notes, NEW i, NEW x, NEW y, NEW a, NEW role,
         isPPC(Platform(sig)), Op(p, i) = "VPERM", Loop(p) < i, In(p, i) = Three(x, x, y),
         Role(notes, i) = role, Has(p, notes, i, y, "rev"), Has(p, notes, i, x, a),
         <<a, role>> \in {<<"rawMask", "mask">>, <<"rawVals", "vals">>, <<"out", "rawOut">>}
  PROVE  Justified(sig, p, notes, i)
<1>1. /\ p.code[i].op = "VPERM" /\ p.loop < i /\ p.code[i].in = <<x, x, y>> /\ notes[i] = role
      /\ isPPC(sig.platform)
  BY DEF Op, In, One, Two, Three, Role, Loop, Platform
<1>2. PICK s \in {<<"rawMask", "mask">>, <<"rawVals", "vals">>, <<"out", "rawOut">>} :
        s = <<a, role>>
  OBVIOUS
<1>3. Reorders(sig, p, notes, i)
  BY <1>1, <1>2 DEF Reorders, Sources
<1> QED BY <1>3 DEF Justified

LEMMA CombineRule ==
  ASSUME NEW sig, NEW p, NEW notes, NEW i, NEW x, NEW y, NEW z, NEW op, Op(p, i) = op,
         Loop(p) < i, Role(notes, i) = "out",
         \/ /\ <<Platform(sig), op>> \in
                 {<<"amd64", "PSHUFB">>, <<"arm64", "VTBL">>, <<"riscv64", "VRGATHERVV">>}
            /\ In(p, i) = Two(x, y) /\ Has(p, notes, i, x, "mask") /\ Has(p, notes, i, y, "vals")
         \/ /\ isPPC(Platform(sig)) \/ Platform(sig) = "s390x"
            /\ op = "VPERM" /\ In(p, i) = Three(x, y, z) /\ Has(p, notes, i, x, "vals")
            /\ Has(p, notes, i, y, "zero") /\ Has(p, notes, i, z, "mask")
         \/ /\ Platform(sig) = "loong64" /\ op = "VSHUFB" /\ In(p, i) = Three(x, y, z)
            /\ Has(p, notes, i, x, "mask") /\ Has(p, notes, i, y, "vals")
            /\ Has(p, notes, i, z, "zero")
  PROVE  Justified(sig, p, notes, i)
<1>1. p.code[i].op = op /\ p.loop < i /\ notes[i] = "out"
  BY DEF Op, Role, Loop
<1>2. CASE /\ <<Platform(sig), op>> \in
                {<<"amd64", "PSHUFB">>, <<"arm64", "VTBL">>, <<"riscv64", "VRGATHERVV">>}
           /\ In(p, i) = Two(x, y) /\ Has(p, notes, i, x, "mask") /\ Has(p, notes, i, y, "vals")
  <2>1. p.code[i].in = <<x, y>>
    BY <1>2 DEF In, One, Two, Three
  <2>2. \/ sig.platform = "amd64" /\ op = "PSHUFB"
        \/ sig.platform = "arm64" /\ op = "VTBL"
        \/ sig.platform = "riscv64" /\ op = "VRGATHERVV"
    BY <1>2 DEF Platform
  <2>3. Combines(sig, p, notes, i)
    BY <1>1, <1>2, <2>1, <2>2 DEF Combines, Sources
  <2> QED BY <2>3 DEF Justified
<1>3. CASE In(p, i) = Three(x, y, z)
  <2>1. p.code[i].in = <<x, y, z>> /\ Sources(p.code[i].in, 3)
    BY <1>3 DEF In, One, Two, Three, Sources
  <2>2. CASE /\ isPPC(Platform(sig)) \/ Platform(sig) = "s390x"
             /\ op = "VPERM" /\ Has(p, notes, i, x, "vals")
             /\ Has(p, notes, i, y, "zero") /\ Has(p, notes, i, z, "mask")
    <3>1. isPPC(sig.platform) \/ sig.platform = "s390x"
      BY <2>2 DEF Platform
    <3>2. Combines(sig, p, notes, i)
      BY <1>1, <2>1, <2>2, <3>1 DEF Combines
    <3> QED BY <3>2 DEF Justified
  <2>3. CASE /\ Platform(sig) = "loong64" /\ op = "VSHUFB"
             /\ Has(p, notes, i, x, "mask") /\ Has(p, notes, i, y, "vals")
             /\ Has(p, notes, i, z, "zero")
    <3>1. sig.platform = "loong64"
      BY <2>3 DEF Platform
    <3>2. Combines(sig, p, notes, i)
      BY <1>1, <2>1, <2>3, <3>1 DEF Combines
    <3> QED BY <3>2 DEF Justified
  <2>4. CASE /\ <<Platform(sig), op>> \in
                  {<<"amd64", "PSHUFB">>, <<"arm64", "VTBL">>, <<"riscv64", "VRGATHERVV">>}
             /\ In(p, i) = Two(x, y) /\ Has(p, notes, i, x, "mask")
             /\ Has(p, notes, i, y, "vals")
    BY <1>2, <2>4
  <2> QED BY <1>3, <2>2, <2>3, <2>4
<1> QED BY <1>2, <1>3

LEMMA StoreRule ==
  ASSUME NEW sig, NEW p, NEW notes, NEW i, NEW x, Loop(p) < i, ~Stored(p, i), Out(p, i) = x,
         \/ ~isPPC(Platform(sig)) /\ Op(p, i) = "vstore" /\ Role(notes, i) = "out"
         \/ isPPC(Platform(sig)) /\ Op(p, i) = "STXVD2X" /\ Role(notes, i) = "rawOut",
         Has(p, notes, i, x, Role(notes, i)), AddsUp(p, notes, i, StoresTo(sig))
  PROVE  Justified(sig, p, notes, i)
<1>1. StoresWide(sig, p, notes, i)
  BY DEF StoresWide, Op, Out, Role, Loop, Platform, StoresTo
<1> QED BY <1>1 DEF Justified

LEMMA CompareRule ==
  ASSUME NEW sig, NEW p, NEW notes, NEW i, NEW x, NEW y, Op(p, i) = "jge", Out(p, i) = "none",
         i = Loop(p), In(p, i) = Two(x, y),
         \/ Has(p, notes, i, x, "g") /\ Has(p, notes, i, y, "safe")
         \/ Has(p, notes, i, x, "ctrlAt") /\ Has(p, notes, i, y, "ctrlEnd")
  PROVE  Justified(sig, p, notes, i)
<1>1. /\ p.code[i].op = "jge" /\ p.code[i].out = "none" /\ i = p.loop
      /\ p.code[i].in = <<x, y>> /\ Sources(p.code[i].in, 2)
  BY DEF Op, In, One, Two, Three, Out, Loop, Sources
<1>2. PICK s \in {<<"g", "safe">>, <<"ctrlAt", "ctrlEnd">>} :
        Has(p, notes, i, x, s[1]) /\ Has(p, notes, i, y, s[2])
  OBVIOUS
<1>3. Jumps(p, notes, i)
  BY <1>1, <1>2 DEF Jumps
<1> QED BY <1>3 DEF Justified

LEMMA LoopRule ==
  ASSUME NEW sig, NEW p, NEW notes, NEW i, Op(p, i) = "jmp", Out(p, i) = "none", i = Size(p),
         Stored(p, i)
  PROVE  Justified(sig, p, notes, i)
<1>1. Jumps(p, notes, i)
  BY DEF Jumps, Op, Out, Size
<1> QED BY <1>1 DEF Justified

=============================================================================
