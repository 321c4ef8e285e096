--------------------------- MODULE TableInitProofs ---------------------------
(***************************************************************************)
(* init() builds the tables of ShuffleTables: after each key, the rows     *)
(* that the loops have filled with one cursor are the masks that Encode    *)
(* and Decode rely on, and those of the two directions undo each other.    *)
(***************************************************************************)
EXTENDS TableInit, TLAPS

\* The lemmas about the tables need no register of RVV.
K == INSTANCE TableProofs WITH VLMAX <- wide, TailBytes <- {0}

-----------------------------------------------------------------------------
(* The tables, key by key.                                                 *)

LEMMA AssumptionsK ==
  wide \in Nat /\ wide >= K!wide /\ {0} \subseteq K!Byte /\ {0} # {}
BY DEF wide, K!wide, K!Byte

LEMMA SameTables ==
  /\ \A k, l : K!laneCode(k, l) = laneCode(k, l) /\ T!laneCode(k, l) = laneCode(k, l)
  /\ \A k, l : K!cursor(k, l) = T!cursor(k, l)
  /\ K!lengthTable = T!lengthTable
  /\ K!Byte = Byte /\ K!Lane = Lane /\ K!Index = Index /\ T!Index = Index /\ K!wide = wide
  /\ T!Byte = Byte
  /\ \A k, p : K!laneAt(k, p) = T!laneAt(k, p) /\ K!byteAt(k, p) = T!byteAt(k, p)
<1>1. \A k, l : K!laneCode(k, l) = laneCode(k, l) /\ T!laneCode(k, l) = laneCode(k, l)
  BY Zenon DEF K!laneCode, laneCode, T!laneCode
<1>2. \A k, l : K!cursor(k, l) = T!cursor(k, l)
  BY Zenon, <1>1 DEF K!cursor, T!cursor
<1>3. K!lengthTable = T!lengthTable
  BY Zenon, <1>2 DEF K!lengthTable, T!lengthTable, K!groupSize, T!groupSize, K!Byte, T!Byte
<1>4. /\ K!Byte = Byte /\ K!Lane = Lane /\ K!Index = Index /\ T!Index = Index /\ K!wide = wide
      /\ T!Byte = Byte
  BY DEF K!Byte, Byte, K!Lane, Lane, K!Index, T!Index, Index, K!wide, T!wide, wide, T!Byte
<1>5. \A k, p : K!laneAt(k, p) = T!laneAt(k, p)
  BY Zenon, <1>2 DEF K!laneAt, T!laneAt
<1>6. \A k, p : K!byteAt(k, p) = T!byteAt(k, p)
  BY Zenon, <1>2, <1>5 DEF K!byteAt, T!byteAt
<1> QED BY <1>1, <1>2, <1>3, <1>4, <1>5, <1>6

LEMMA Cursors ==
  ASSUME NEW k \in Byte
  PROVE  /\ T!cursor(k, 0) = 0
         /\ \A l \in Lane : T!cursor(k, l + 1) = T!cursor(k, l) + laneCode(k, l) + 1
         /\ \A l \in Lane : laneCode(k, l) \in Lane
         /\ \A l \in 0 .. 4 : T!cursor(k, l) \in 0 .. wide
         /\ T!lengthTable[k] = T!cursor(k, 4)
<1>1. /\ K!cursor(k, 0) = 0
      /\ K!cursor(k, 1) = K!cursor(k, 0) + K!laneCode(k, 0) + 1
      /\ K!cursor(k, 2) = K!cursor(k, 1) + K!laneCode(k, 1) + 1
      /\ K!cursor(k, 3) = K!cursor(k, 2) + K!laneCode(k, 2) + 1
      /\ K!cursor(k, 4) = K!cursor(k, 3) + K!laneCode(k, 3) + 1
      /\ K!lengthTable[k] = K!cursor(k, 4)
  BY AssumptionsK, SameTables, K!CursorSteps
<1>2. \A l \in Lane : T!cursor(k, l + 1) = T!cursor(k, l) + laneCode(k, l) + 1
  <2>1. \A l \in Lane : l \in {0, 1, 2, 3}
    BY DEF Lane
  <2> QED BY <1>1, <2>1, SameTables
<1>3. \A l \in Lane : laneCode(k, l) \in Lane
  BY AssumptionsK, SameTables, K!LaneCodeType
<1>4. \A l \in 0 .. 4 : T!cursor(k, l) \in 0 .. wide
  BY AssumptionsK, SameTables, K!CursorType
<1> QED BY <1>1, <1>2, <1>3, <1>4, SameTables

LEMMA ElementArithmetic ==
  /\ \A l, b \in Lane :
       /\ 4 * l + b \in Index /\ (4 * l + b) \div 4 = l /\ (4 * l + b) % 4 = b
       /\ 4 * l + (3 - b) \in Index /\ (4 * l + (3 - b)) \div 4 = l
       /\ (4 * l + (3 - b)) % 4 = 3 - b
       /\ mirror(4 * l + (3 - b)) = 4 * l + b
  /\ \A i \in Index : /\ i \div 4 \in Lane /\ i % 4 \in Lane /\ i = 4 * (i \div 4) + (i % 4)
                      /\ mirror(i) \in Index /\ mirror(mirror(i)) = i
BY DEF Lane, Index, T!Index, T!wide, mirror

\* Byte b of lane l is at the same data position in all masks, if it is present;
\* if not, the decode masks have their zero markers.
LEMMA Place ==
  ASSUME NEW k \in Byte, NEW l \in Lane, NEW b \in Lane
  PROVE  LET i == 4 * l + b
             p == T!cursor(k, l) + b
         IN /\ b <= laneCode(k, l) =>
                 /\ p \in Index /\ p < T!lengthTable[k]
                 /\ T!shuffleTable[k][i] = p /\ T!permTable[k][i] = p
                 /\ T!permTableBE[k][4 * l + (3 - b)] = p
                 /\ T!encodeShuffleTable[k][p] = i /\ T!encodeShuffleTablePerm[k][p] = i
                 /\ T!encodeShuffleTablePermBE[k][p] = 4 * l + (3 - b)
            /\ b > laneCode(k, l) =>
                 /\ T!shuffleTable[k][i] = zeroIndex /\ T!permTable[k][i] = permZeroIndex
                 /\ T!permTableBE[k][4 * l + (3 - b)] = permZeroIndex
<1> DEFINE i == 4 * l + b
           e == 4 * l + (3 - b)
           p == T!cursor(k, l) + b
<1>1. /\ i \in Index /\ i \div 4 = l /\ i % 4 = b
      /\ e \in Index /\ e \div 4 = l /\ e % 4 = 3 - b /\ 3 - (3 - b) = b
  BY ElementArithmetic DEF Lane
<1>2. /\ T!shuffleTable[k][i] = T!SpreadByte(k, i \div 4, i % 4, zeroIndex)
      /\ T!permTable[k][i] = T!SpreadByte(k, i \div 4, i % 4, permZeroIndex)
      /\ T!permTableBE[k][e] = T!SpreadByte(k, e \div 4, 3 - (e % 4), permZeroIndex)
  BY <1>1, SameTables
     DEF T!shuffleTable, T!permTable, T!permTableBE, zeroIndex, permZeroIndex
<1>3. \A zero : T!SpreadByte(k, l, b, zero) = IF b <= laneCode(k, l) THEN p ELSE zero
  BY SameTables DEF T!SpreadByte
<1>4. ASSUME b <= laneCode(k, l)
      PROVE  /\ p \in Index /\ p < T!lengthTable[k]
             /\ T!laneAt(k, p) = l /\ T!byteAt(k, p) = b
  <2>1. b \in 0 .. K!laneCode(k, l) /\ k \in K!Byte /\ l \in K!Lane
    BY <1>4, Cursors, SameTables DEF Lane
  <2> QED BY <2>1, AssumptionsK, SameTables, K!BytePosition
<1>5. ASSUME b <= laneCode(k, l)
      PROVE  /\ T!encodeShuffleTable[k][p] = i /\ T!encodeShuffleTablePerm[k][p] = i
             /\ T!encodeShuffleTablePermBE[k][p] = e
  BY <1>4, <1>5, SameTables
     DEF T!encodeShuffleTable, T!encodeShuffleTablePerm, T!encodeShuffleTablePermBE
<1>6. b > laneCode(k, l) => ~(b <= laneCode(k, l))
  BY Cursors DEF Lane
<1> QED BY <1>1, <1>2, <1>3, <1>4, <1>5, <1>6

\* Behind the data of its group, an encode mask has its zero markers.
LEMMA Behind ==
  ASSUME NEW k \in Byte, NEW p \in Index, ~(p < T!lengthTable[k])
  PROVE  /\ T!encodeShuffleTable[k][p] = zeroIndex
         /\ T!encodeShuffleTablePerm[k][p] = permZeroIndex
         /\ T!encodeShuffleTablePermBE[k][p] = permZeroIndex
BY SameTables DEF T!encodeShuffleTable, T!encodeShuffleTablePerm,
   T!encodeShuffleTablePermBE, zeroIndex, permZeroIndex

\* Every data byte of a group is a byte of one of its integers.
LEMMA Origin ==
  ASSUME NEW k \in Byte, NEW p \in Nat, p < T!lengthTable[k]
  PROVE  \E l \in Lane : \E b \in Lane : b <= laneCode(k, l) /\ p = T!cursor(k, l) + b
<1> DEFINE at(l) == T!cursor(k, l)
<1>1. /\ at(0) = 0
      /\ at(1) = at(0) + laneCode(k, 0) + 1 /\ at(2) = at(1) + laneCode(k, 1) + 1
      /\ at(3) = at(2) + laneCode(k, 2) + 1 /\ at(4) = at(3) + laneCode(k, 3) + 1
      /\ p < at(4)
      /\ laneCode(k, 0) \in 0 .. 3 /\ laneCode(k, 1) \in 0 .. 3
      /\ laneCode(k, 2) \in 0 .. 3 /\ laneCode(k, 3) \in 0 .. 3
  <2>1. 0 \in Lane /\ 1 \in Lane /\ 2 \in Lane /\ 3 \in Lane
    BY DEF Lane
  <2>2. /\ \A l \in Lane : at(l + 1) = at(l) + laneCode(k, l) + 1
        /\ \A l \in Lane : laneCode(k, l) \in 0 .. 3
        /\ at(0) = 0 /\ p < at(4)
    BY Cursors DEF Lane
  <2> HIDE DEF at
  <2> QED BY <2>1, <2>2
<1> HIDE DEF at
<1>2. \E l \in {0, 1, 2, 3} : at(l) <= p /\ p < at(l) + laneCode(k, l) + 1
  BY <1>1
<1>3. PICK l \in {0, 1, 2, 3} : at(l) <= p /\ p < at(l) + laneCode(k, l) + 1
  BY <1>2
<1>4. at(l) \in Nat /\ laneCode(k, l) \in 0 .. 3
  BY <1>1
<1>5. p - at(l) \in 0 .. 3 /\ p - at(l) <= laneCode(k, l) /\ p = at(l) + (p - at(l))
  BY <1>3, <1>4
<1>6. l \in Lane /\ p - at(l) \in Lane
  BY <1>5 DEF Lane
<1> QED BY <1>5, <1>6 DEF at

-----------------------------------------------------------------------------
(* The loops.                                                              *)

\* TypeOK, row by row.
LEMMA Types ==
  TypeOK <=>
    /\ pc \in {"key", "lane", "byte"}
    /\ key \in 0 .. 256 /\ lane \in 0 .. 4 /\ j \in 0 .. 4
    /\ cursor \in 0 .. wide /\ total \in 0 .. wide
    /\ mask \in [Index -> Byte] /\ perm \in [Index -> Byte] /\ permBE \in [Index -> Byte]
    /\ enc \in [Index -> Byte] /\ encPerm \in [Index -> Byte] /\ encPermBE \in [Index -> Byte]
BY DEF TypeOK

LEMMA Markers == zeroIndex = 255 /\ permZeroIndex = 16 /\ zeroIndex \in Byte /\ permZeroIndex \in Byte
BY DEF zeroIndex, permZeroIndex, T!zeroIndex, T!permZeroIndex, Byte

\* Until a key is finished, no table changes.
LEMMA TablesStay ==
  ASSUME TablesSoFar, UNCHANGED <<tables, key>>
  PROVE  TablesSoFar'
BY DEF TablesSoFar, Filled, tables

LEMMA InitTables == Init => IndInv
<1> SUFFICES ASSUME Init PROVE IndInv
  OBVIOUS
<1>1. TypeOK
  <2>1. Row(0) \in [Index -> Byte]
    BY DEF Row, Byte
  <2> QED BY <2>1, Types DEF Init, wide
<1>2. LoopsInStep /\ RowsSoFar
  BY DEF Init, LoopsInStep, RowsSoFar
<1>3. TablesSoFar
  <2>1. key = 0 /\ \A k \in Byte : ~(k < key)
    BY DEF Init, Byte
  <2> QED BY <2>1 DEF Init, TablesSoFar, Filled
<1> QED BY <1>1, <1>2, <1>3 DEF IndInv, RowInv

LEMMA BeginKeyInv ==
  ASSUME IndInv, BeginKey
  PROVE  IndInv'
<1>1. /\ pc = "key" /\ key < 256 /\ pc' = "lane" /\ lane' = 0 /\ cursor' = 0 /\ total' = 0
      /\ mask' = Row(0) /\ perm' = Row(0) /\ permBE' = Row(permZeroIndex)
      /\ enc' = Row(zeroIndex)
      /\ encPerm' = Row(permZeroIndex) /\ encPermBE' = Row(permZeroIndex)
      /\ key' = key /\ j' = j /\ UNCHANGED <<tables, key>>
  BY DEF BeginKey
<1>2. key \in Byte /\ j \in 0 .. 4 /\ key \in 0 .. 256
  BY <1>1, Types DEF IndInv, RowInv, Byte
<1>3. TypeOK'
  <2>1. /\ Row(0) \in [Index -> Byte] /\ Row(zeroIndex) \in [Index -> Byte]
        /\ Row(permZeroIndex) \in [Index -> Byte]
    BY Markers DEF Row, Byte
  <2> QED BY <1>1, <1>2, <2>1 DEF TypeOK, wide
<1>4. LoopsInStep'
  BY <1>1, <1>2, Cursors DEF LoopsInStep
<1>5. RowsSoFar'
  <2>1. visited' = 0
    BY <1>1 DEF visited
  <2>2. \A i \in Index : ~(i < 0) /\ ~(mirror(i) < 0)
    BY ElementArithmetic DEF Index, T!Index, T!wide
  <2> QED BY <1>1, <2>1, <2>2 DEF RowsSoFar, Row
<1>6. TablesSoFar'
  BY <1>1, TablesStay DEF IndInv
<1> QED BY <1>3, <1>4, <1>5, <1>6 DEF IndInv, RowInv

LEMMA EnterLaneInv ==
  ASSUME IndInv, EnterLane
  PROVE  IndInv'
<1>1. /\ pc = "lane" /\ lane < 4 /\ pc' = "byte" /\ j' = 0
      /\ total' = total + laneCode(key, lane) + 1
      /\ UNCHANGED <<key, lane, cursor>> /\ UNCHANGED rows /\ UNCHANGED <<tables, key>>
  BY DEF EnterLane
<1>2. /\ TypeOK /\ key \in Byte /\ lane \in Lane
      /\ cursor = T!cursor(key, lane) /\ total = cursor
  BY <1>1 DEF IndInv, RowInv, LoopsInStep, TypeOK, Lane
<1>3. /\ laneCode(key, lane) \in 0 .. 3
      /\ T!cursor(key, lane + 1) = T!cursor(key, lane) + laneCode(key, lane) + 1
      /\ T!cursor(key, lane + 1) \in 0 .. wide
      /\ T!cursor(key, lane) \in 0 .. wide
  <2>1. lane \in 0 .. 4 /\ lane + 1 \in 0 .. 4
    BY <1>2 DEF Lane
  <2> QED BY <1>2, <2>1, Cursors DEF Lane
<1>4. total' = T!cursor(key, lane + 1)
  BY <1>1, <1>2, <1>3
<1>5. TypeOK'
  BY <1>1, <1>2, <1>3, <1>4 DEF TypeOK, rows
<1>6. LoopsInStep'
  BY <1>1, <1>2, <1>3, <1>4 DEF LoopsInStep, wide
<1>7. RowsSoFar'
  <2>1. visited' = visited
    BY <1>1, <1>2 DEF visited, Lane
  <2> QED BY <1>1, <2>1 DEF IndInv, RowInv, RowsSoFar, rows
<1>8. TablesSoFar'
  BY <1>1, TablesStay DEF IndInv
<1> QED BY <1>5, <1>6, <1>7, <1>8 DEF IndInv, RowInv

\* Where the loops are at a byte of a lane.
LEMMA ByteFacts ==
  ASSUME RowInv, pc = "byte"
  PROVE  /\ key \in Byte /\ lane \in Lane /\ j \in 0 .. 4 /\ visited = 4 * lane + j
         /\ laneCode(key, lane) \in 0 .. 3
         /\ T!cursor(key, lane) \in 0 .. wide
         /\ cursor = T!cursor(key, lane)
                      + (IF j <= laneCode(key, lane) THEN j ELSE laneCode(key, lane) + 1)
         /\ total = T!cursor(key, lane + 1)
         /\ T!cursor(key, lane + 1) = T!cursor(key, lane) + laneCode(key, lane) + 1
<1>1. /\ key \in Byte /\ lane \in Lane /\ j \in 0 .. 4 /\ total = T!cursor(key, lane + 1)
      /\ cursor = T!cursor(key, lane)
                   + (IF j <= laneCode(key, lane) THEN j ELSE laneCode(key, lane) + 1)
  BY DEF RowInv, LoopsInStep, TypeOK
<1>2. lane \in 0 .. 4
  BY <1>1 DEF Lane
<1> QED BY <1>1, <1>2, Cursors DEF visited, Lane

LEMMA PlaceByteInv ==
  ASSUME IndInv, PlaceByte
  PROVE  IndInv'
<1> DEFINE i == 4 * lane + j
           e == 4 * lane + (3 - j)
<1>1. /\ pc = "byte" /\ j <= laneCode(key, lane) /\ j < 4
      /\ mask' = [mask EXCEPT ![i] = cursor] /\ perm' = [perm EXCEPT ![i] = cursor]
      /\ permBE' = [permBE EXCEPT ![e] = cursor]
      /\ enc' = [enc EXCEPT ![cursor] = i] /\ encPerm' = [encPerm EXCEPT ![cursor] = i]
      /\ encPermBE' = [encPermBE EXCEPT ![cursor] = e]
      /\ cursor' = cursor + 1 /\ j' = j + 1
      /\ UNCHANGED <<pc, key, lane, total>> /\ UNCHANGED <<tables, key>>
  BY DEF PlaceByte, Present
<1>2. /\ key \in Byte /\ lane \in Lane /\ j \in Lane /\ visited = i
      /\ laneCode(key, lane) \in 0 .. 3 /\ cursor = T!cursor(key, lane) + j
      /\ T!cursor(key, lane) \in 0 .. wide
  BY <1>1, ByteFacts DEF IndInv, Lane
<1>3. /\ i \in Index /\ e \in Index /\ mirror(e) = i
  BY <1>2, ElementArithmetic
<1>4. /\ cursor \in Index /\ cursor < T!lengthTable[key]
      /\ T!shuffleTable[key][i] = cursor /\ T!permTable[key][i] = cursor
      /\ T!permTableBE[key][e] = cursor
      /\ T!encodeShuffleTable[key][cursor] = i /\ T!encodeShuffleTablePerm[key][cursor] = i
      /\ T!encodeShuffleTablePermBE[key][cursor] = e
  BY <1>1, <1>2, Place
<1>5. /\ TypeOK /\ mask \in [Index -> Byte] /\ perm \in [Index -> Byte]
      /\ permBE \in [Index -> Byte] /\ enc \in [Index -> Byte]
      /\ encPerm \in [Index -> Byte] /\ encPermBE \in [Index -> Byte]
  BY Types DEF IndInv, RowInv
<1>6. visited' = i + 1
  BY <1>1, <1>2 DEF visited, Lane
<1>7. \A q \in Index : /\ q < i + 1 <=> q < i \/ q = i
                       /\ mirror(q) < i + 1 <=> mirror(q) < i \/ q = e
                       /\ q < cursor + 1 <=> q < cursor \/ q = cursor
  <2>1. i \in Int /\ cursor \in Int /\ \A q \in Index : q \in Int /\ mirror(q) \in Int
    BY <1>2, <1>3, <1>4, ElementArithmetic DEF Index, T!Index, T!wide, Lane
  <2>2. \A q \in Index : mirror(q) = i <=> q = e
    BY <1>3, ElementArithmetic
  <2>3. \A q \in Index : mirror(q) < i + 1 <=> mirror(q) < i \/ mirror(q) = i
    BY <2>1
  <2>4. \A q \in Index : q < i + 1 <=> q < i \/ q = i
    BY <2>1
  <2>5. \A q \in Index : q < cursor + 1 <=> q < cursor \/ q = cursor
    BY <2>1
  <2> QED BY <2>2, <2>3, <2>4, <2>5
<1> HIDE DEF i, e
<1>8. TypeOK'
  <2>1. cursor \in Byte /\ i \in Byte /\ e \in Byte
    BY <1>3, <1>4 DEF Index, T!Index, T!wide, Byte
  <2>2. /\ mask' \in [Index -> Byte] /\ perm' \in [Index -> Byte] /\ permBE' \in [Index -> Byte]
        /\ enc' \in [Index -> Byte] /\ encPerm' \in [Index -> Byte]
        /\ encPermBE' \in [Index -> Byte]
    BY <1>1, <1>3, <1>4, <1>5, <2>1
  <2>3. cursor + 1 \in 0 .. wide /\ j + 1 \in 0 .. 4
    BY <1>2, <1>4 DEF Index, T!Index, T!wide, wide, Lane
  <2> QED BY <1>1, <1>5, <2>2, <2>3 DEF TypeOK
<1>9. LoopsInStep'
  <2>1. cursor + 1 = T!cursor(key, lane)
                     + (IF j + 1 <= laneCode(key, lane) THEN j + 1 ELSE laneCode(key, lane) + 1)
    BY <1>1, <1>2 DEF wide, Lane
  <2> QED BY <1>1, <1>2, <2>1 DEF LoopsInStep, IndInv, RowInv
<1>10. RowsSoFar'
  <2> SUFFICES ASSUME NEW q \in Index
      PROVE /\ mask'[q] = IF q < i + 1 THEN T!shuffleTable[key][q] ELSE 0
            /\ perm'[q] = IF q < i + 1 THEN T!permTable[key][q] ELSE 0
            /\ permBE'[q] = IF mirror(q) < i + 1 THEN T!permTableBE[key][q] ELSE permZeroIndex
            /\ enc'[q] = IF q < cursor + 1 THEN T!encodeShuffleTable[key][q] ELSE zeroIndex
            /\ encPerm'[q] = IF q < cursor + 1 THEN T!encodeShuffleTablePerm[key][q]
                                               ELSE permZeroIndex
            /\ encPermBE'[q] = IF q < cursor + 1 THEN T!encodeShuffleTablePermBE[key][q]
                                                 ELSE permZeroIndex
    BY <1>1, <1>6 DEF RowsSoFar
  <2>1. /\ mask[q] = IF q < i THEN T!shuffleTable[key][q] ELSE 0
        /\ perm[q] = IF q < i THEN T!permTable[key][q] ELSE 0
        /\ permBE[q] = IF mirror(q) < i THEN T!permTableBE[key][q] ELSE permZeroIndex
        /\ enc[q] = IF q < cursor THEN T!encodeShuffleTable[key][q] ELSE zeroIndex
        /\ encPerm[q] = IF q < cursor THEN T!encodeShuffleTablePerm[key][q]
                                      ELSE permZeroIndex
        /\ encPermBE[q] = IF q < cursor THEN T!encodeShuffleTablePermBE[key][q]
                                        ELSE permZeroIndex
    BY <1>1, <1>2 DEF IndInv, RowInv, RowsSoFar
  <2>2. /\ mask'[q] = IF q = i THEN cursor ELSE mask[q]
        /\ perm'[q] = IF q = i THEN cursor ELSE perm[q]
        /\ permBE'[q] = IF q = e THEN cursor ELSE permBE[q]
        /\ enc'[q] = IF q = cursor THEN i ELSE enc[q]
        /\ encPerm'[q] = IF q = cursor THEN i ELSE encPerm[q]
        /\ encPermBE'[q] = IF q = cursor THEN e ELSE encPermBE[q]
    BY <1>1, <1>5
  <2>3. /\ q < i + 1 <=> q < i \/ q = i
        /\ mirror(q) < i + 1 <=> mirror(q) < i \/ q = e
        /\ q < cursor + 1 <=> q < cursor \/ q = cursor
    BY <1>7
  <2> QED BY <1>4, <2>1, <2>2, <2>3
<1>11. TablesSoFar'
  BY <1>1, TablesStay DEF IndInv
<1> QED BY <1>8, <1>9, <1>10, <1>11 DEF IndInv, RowInv

LEMMA SkipByteInv ==
  ASSUME IndInv, SkipByte
  PROVE  IndInv'
<1> DEFINE i == 4 * lane + j
           e == 4 * lane + (3 - j)
<1>1. /\ pc = "byte" /\ ~(j <= laneCode(key, lane)) /\ j < 4
      /\ mask' = [mask EXCEPT ![i] = zeroIndex] /\ perm' = [perm EXCEPT ![i] = permZeroIndex]
      /\ j' = j + 1
      /\ UNCHANGED <<pc, key, lane, cursor, total, permBE, enc, encPerm, encPermBE>>
      /\ UNCHANGED <<tables, key>>
  BY DEF SkipByte, Present
<1>2. /\ key \in Byte /\ lane \in Lane /\ j \in Lane /\ visited = i
      /\ laneCode(key, lane) \in 0 .. 3
      /\ cursor = T!cursor(key, lane) + laneCode(key, lane) + 1
      /\ T!cursor(key, lane) \in 0 .. wide
  <2>1. /\ key \in Byte /\ lane \in Lane /\ j \in 0 .. 4 /\ visited = i
        /\ laneCode(key, lane) \in 0 .. 3 /\ T!cursor(key, lane) \in 0 .. wide
        /\ cursor = T!cursor(key, lane) + (laneCode(key, lane) + 1)
    BY <1>1, ByteFacts DEF IndInv
  <2> QED BY <1>1, <2>1 DEF Lane, wide
<1>3. i \in Index /\ e \in Index /\ mirror(e) = i
  BY <1>2, ElementArithmetic
<1>4. /\ T!shuffleTable[key][i] = zeroIndex /\ T!permTable[key][i] = permZeroIndex
      /\ T!permTableBE[key][e] = permZeroIndex
  <2>1. j > laneCode(key, lane)
    BY <1>1, <1>2 DEF Lane
  <2> QED BY <1>2, <2>1, Place
<1>5. TypeOK /\ mask \in [Index -> Byte] /\ perm \in [Index -> Byte]
  BY Types DEF IndInv, RowInv
<1>6. visited' = i + 1
  BY <1>1, <1>2 DEF visited, Lane
<1>7. \A q \in Index : /\ q < i + 1 <=> q < i \/ q = i
                       /\ mirror(q) < i + 1 <=> mirror(q) < i \/ q = e
  <2>1. i \in Int /\ \A q \in Index : q \in Int /\ mirror(q) \in Int
    BY <1>2, <1>3, ElementArithmetic DEF Index, T!Index, T!wide, Lane
  <2>2. \A q \in Index : mirror(q) = i <=> q = e
    BY <1>3, ElementArithmetic
  <2>3. \A q \in Index : mirror(q) < i + 1 <=> mirror(q) < i \/ mirror(q) = i
    BY <2>1
  <2>4. \A q \in Index : q < i + 1 <=> q < i \/ q = i
    BY <2>1
  <2> QED BY <2>2, <2>3, <2>4
<1> HIDE DEF i, e
<1>8. TypeOK'
  <2>1. mask' \in [Index -> Byte] /\ perm' \in [Index -> Byte]
    BY <1>1, <1>3, <1>5, Markers
  <2>2. j + 1 \in 0 .. 4
    BY <1>2 DEF Lane
  <2> QED BY <1>1, <1>5, <2>1, <2>2 DEF TypeOK
<1>9. LoopsInStep'
  <2>1. cursor = T!cursor(key, lane)
                 + (IF j + 1 <= laneCode(key, lane) THEN j + 1 ELSE laneCode(key, lane) + 1)
    BY <1>1, <1>2 DEF wide, Lane
  <2> QED BY <1>1, <1>2, <2>1 DEF LoopsInStep, IndInv, RowInv
<1>10. RowsSoFar'
  <2> SUFFICES ASSUME NEW q \in Index
      PROVE /\ mask'[q] = IF q < i + 1 THEN T!shuffleTable[key][q] ELSE 0
            /\ perm'[q] = IF q < i + 1 THEN T!permTable[key][q] ELSE 0
            /\ permBE[q] = IF mirror(q) < i + 1 THEN T!permTableBE[key][q] ELSE permZeroIndex
            /\ enc[q] = IF q < cursor THEN T!encodeShuffleTable[key][q] ELSE zeroIndex
            /\ encPerm[q] = IF q < cursor THEN T!encodeShuffleTablePerm[key][q]
                                          ELSE permZeroIndex
            /\ encPermBE[q] = IF q < cursor THEN T!encodeShuffleTablePermBE[key][q]
                                            ELSE permZeroIndex
    BY <1>1, <1>6 DEF RowsSoFar
  <2>1. /\ mask[q] = IF q < i THEN T!shuffleTable[key][q] ELSE 0
        /\ perm[q] = IF q < i THEN T!permTable[key][q] ELSE 0
        /\ permBE[q] = IF mirror(q) < i THEN T!permTableBE[key][q] ELSE permZeroIndex
        /\ enc[q] = IF q < cursor THEN T!encodeShuffleTable[key][q] ELSE zeroIndex
        /\ encPerm[q] = IF q < cursor THEN T!encodeShuffleTablePerm[key][q]
                                      ELSE permZeroIndex
        /\ encPermBE[q] = IF q < cursor THEN T!encodeShuffleTablePermBE[key][q]
                                        ELSE permZeroIndex
    BY <1>1, <1>2 DEF IndInv, RowInv, RowsSoFar
  <2>2. /\ mask'[q] = IF q = i THEN zeroIndex ELSE mask[q]
        /\ perm'[q] = IF q = i THEN permZeroIndex ELSE perm[q]
    BY <1>1, <1>5
  <2>3. /\ q < i + 1 <=> q < i \/ q = i
        /\ mirror(q) < i + 1 <=> mirror(q) < i \/ q = e
    BY <1>7
  <2> QED BY <1>4, <2>1, <2>2, <2>3
<1>11. TablesSoFar'
  BY <1>1, TablesStay DEF IndInv
<1> QED BY <1>8, <1>9, <1>10, <1>11 DEF IndInv, RowInv

LEMMA NextLaneInv ==
  ASSUME IndInv, NextLane
  PROVE  IndInv'
<1>1. /\ pc = "byte" /\ j = 4 /\ pc' = "lane" /\ lane' = lane + 1
      /\ UNCHANGED <<key, j, cursor, total>> /\ UNCHANGED rows /\ UNCHANGED <<tables, key>>
  BY DEF NextLane
<1>2. /\ TypeOK /\ key \in Byte /\ lane \in Lane /\ visited = 4 * lane + 4
      /\ cursor = T!cursor(key, lane + 1) /\ total = cursor
  <2>1. /\ key \in Byte /\ lane \in Lane /\ visited = 4 * lane + 4
        /\ laneCode(key, lane) \in 0 .. 3 /\ T!cursor(key, lane) \in 0 .. wide
        /\ cursor = T!cursor(key, lane)
                     + (IF 4 <= laneCode(key, lane) THEN 4 ELSE laneCode(key, lane) + 1)
        /\ total = T!cursor(key, lane + 1)
        /\ T!cursor(key, lane + 1) = T!cursor(key, lane) + laneCode(key, lane) + 1
    BY <1>1, ByteFacts DEF IndInv
  <2>2. cursor = T!cursor(key, lane) + laneCode(key, lane) + 1
    BY <2>1 DEF wide
  <2> QED BY <2>1, <2>2 DEF IndInv, RowInv
<1>3. TypeOK'
  <2>1. lane + 1 \in 0 .. 4
    BY <1>2 DEF Lane
  <2> QED BY <1>1, <1>2, <2>1 DEF TypeOK, rows
<1>4. LoopsInStep'
  BY <1>1, <1>2 DEF LoopsInStep
<1>5. RowsSoFar'
  <2>1. visited' = visited
    BY <1>1, <1>2 DEF visited, Lane
  <2> QED BY <1>1, <2>1 DEF IndInv, RowInv, RowsSoFar, rows
<1>6. TablesSoFar'
  BY <1>1, TablesStay DEF IndInv
<1> QED BY <1>3, <1>4, <1>5, <1>6 DEF IndInv, RowInv

\* Four lanes fill all rows, so what is stored is what ShuffleTables has for key.
LEMMA StoreRowsInv ==
  ASSUME IndInv, StoreRows
  PROVE  IndInv'
<1>1. /\ pc = "lane" /\ lane = 4 /\ pc' = "key" /\ key' = key + 1
      /\ UNCHANGED <<lane, j, cursor, total>> /\ UNCHANGED rows
  BY DEF StoreRows
<1>2. /\ TypeOK /\ key \in Byte /\ cursor = T!lengthTable[key] /\ total = T!lengthTable[key]
      /\ visited = 16
  BY <1>1, Cursors DEF IndInv, RowInv, LoopsInStep, visited
<1>3. TypeOK'
  <2>1. key + 1 \in 0 .. 256
    BY <1>2 DEF Byte
  <2> QED BY <1>1, <1>2, <2>1 DEF TypeOK, rows
<1>4. LoopsInStep' /\ RowsSoFar'
  BY <1>1 DEF LoopsInStep, RowsSoFar
<1>5. /\ mask = T!shuffleTable[key] /\ perm = T!permTable[key] /\ permBE = T!permTableBE[key]
      /\ enc = T!encodeShuffleTable[key] /\ encPerm = T!encodeShuffleTablePerm[key]
      /\ encPermBE = T!encodeShuffleTablePermBE[key]
  <2>1. /\ mask \in [Index -> Byte] /\ perm \in [Index -> Byte] /\ permBE \in [Index -> Byte]
        /\ enc \in [Index -> Byte] /\ encPerm \in [Index -> Byte]
        /\ encPermBE \in [Index -> Byte]
    BY <1>2, Types
  <2>2. \A i \in Index : i < 16 /\ mirror(i) < 16
    BY ElementArithmetic DEF Index, T!Index, T!wide
  <2>3. \A i \in Index :
          /\ mask[i] = T!shuffleTable[key][i] /\ perm[i] = T!permTable[key][i]
          /\ permBE[i] = T!permTableBE[key][i]
    BY <1>1, <1>2, <2>2 DEF IndInv, RowInv, RowsSoFar
  <2>4. \A i \in Index :
          /\ enc[i] = T!encodeShuffleTable[key][i]
          /\ encPerm[i] = T!encodeShuffleTablePerm[key][i]
          /\ encPermBE[i] = T!encodeShuffleTablePermBE[key][i]
    BY <1>1, <1>2, Behind DEF IndInv, RowInv, RowsSoFar
  <2>5. /\ T!shuffleTable[key] = [i \in Index |-> T!shuffleTable[key][i]]
        /\ T!permTable[key] = [i \in Index |-> T!permTable[key][i]]
        /\ T!permTableBE[key] = [i \in Index |-> T!permTableBE[key][i]]
    BY <1>2, SameTables DEF T!shuffleTable, T!permTable, T!permTableBE
  <2>6. /\ T!encodeShuffleTable[key] = [i \in Index |-> T!encodeShuffleTable[key][i]]
        /\ T!encodeShuffleTablePerm[key] = [i \in Index |-> T!encodeShuffleTablePerm[key][i]]
        /\ T!encodeShuffleTablePermBE[key]
             = [i \in Index |-> T!encodeShuffleTablePermBE[key][i]]
    BY <1>2, SameTables
       DEF T!encodeShuffleTable, T!encodeShuffleTablePerm, T!encodeShuffleTablePermBE
  <2> QED BY <2>1, <2>3, <2>4, <2>5, <2>6
<1>6. TablesSoFar'
  <2>1. ASSUME NEW table, NEW full, NEW empty, Filled(table, full, empty)
        PROVE  [table EXCEPT ![key] = full[key]]
                 = [k \in Byte |-> IF k < key' THEN full[k] ELSE empty]
    <3>1. \A k \in Byte : k < key + 1 <=> k < key \/ k = key
      BY <1>2 DEF Byte
    <3> QED BY <1>1, <1>2, <2>1, <3>1 DEF Filled
  <2>2. TablesSoFar
    BY DEF IndInv
  <2>3. /\ Filled(lengthTable, T!lengthTable, 0)
        /\ Filled(shuffleTable, T!shuffleTable, Row(0))
        /\ Filled(permTable, T!permTable, Row(0))
        /\ Filled(permTableBE, T!permTableBE, Row(0))
        /\ Filled(encodeShuffleTable, T!encodeShuffleTable, Row(0))
        /\ Filled(encodeShuffleTablePerm, T!encodeShuffleTablePerm, Row(0))
        /\ Filled(encodeShuffleTablePermBE, T!encodeShuffleTablePermBE, Row(0))
    BY <2>2 DEF TablesSoFar
  <2>4. lengthTable'
          = [k \in Byte |-> IF k < key' THEN T!lengthTable[k] ELSE 0]
    <3>1. lengthTable' = [lengthTable EXCEPT ![key] = T!lengthTable[key]]
      BY <1>2, <1>5 DEF StoreRows
    <3> QED BY <2>1, <2>3, <3>1
  <2>5. shuffleTable'
          = [k \in Byte |-> IF k < key' THEN T!shuffleTable[k] ELSE Row(0)]
    <3>1. shuffleTable' = [shuffleTable EXCEPT ![key] = T!shuffleTable[key]]
      BY <1>2, <1>5 DEF StoreRows
    <3> QED BY ZenonT(40), <2>1, <2>3, <3>1
  <2>6. permTable'
          = [k \in Byte |-> IF k < key' THEN T!permTable[k] ELSE Row(0)]
    <3>1. permTable' = [permTable EXCEPT ![key] = T!permTable[key]]
      BY <1>2, <1>5 DEF StoreRows
    <3> QED BY ZenonT(40), <2>1, <2>3, <3>1
  <2>7. permTableBE'
          = [k \in Byte |-> IF k < key' THEN T!permTableBE[k] ELSE Row(0)]
    <3>1. permTableBE' = [permTableBE EXCEPT ![key] = T!permTableBE[key]]
      BY <1>2, <1>5 DEF StoreRows
    <3> QED BY ZenonT(40), <2>1, <2>3, <3>1
  <2>8. encodeShuffleTable'
          = [k \in Byte |-> IF k < key' THEN T!encodeShuffleTable[k] ELSE Row(0)]
    <3>1. encodeShuffleTable' = [encodeShuffleTable EXCEPT ![key] = T!encodeShuffleTable[key]]
      BY <1>2, <1>5 DEF StoreRows
    <3> QED BY ZenonT(40), <2>1, <2>3, <3>1
  <2>9. encodeShuffleTablePerm'
          = [k \in Byte |-> IF k < key' THEN T!encodeShuffleTablePerm[k] ELSE Row(0)]
    <3>1. encodeShuffleTablePerm' = [encodeShuffleTablePerm EXCEPT ![key] = T!encodeShuffleTablePerm[key]]
      BY <1>2, <1>5 DEF StoreRows
    <3> QED BY ZenonT(40), <2>1, <2>3, <3>1
  <2>10. encodeShuffleTablePermBE'
          = [k \in Byte |-> IF k < key' THEN T!encodeShuffleTablePermBE[k] ELSE Row(0)]
    <3>1. encodeShuffleTablePermBE' = [encodeShuffleTablePermBE EXCEPT ![key] = T!encodeShuffleTablePermBE[key]]
      BY <1>2, <1>5 DEF StoreRows
    <3> QED BY ZenonT(40), <2>1, <2>3, <3>1
  <2> QED BY <2>4, <2>5, <2>6, <2>7, <2>8, <2>9, <2>10 DEF TablesSoFar, Filled
<1> QED BY <1>3, <1>4, <1>6 DEF IndInv, RowInv

LEMMA NextTables == IndInv /\ [Next]_vars => IndInv'
<1> SUFFICES ASSUME IndInv, [Next]_vars PROVE IndInv'
  OBVIOUS
<1>1. CASE BeginKey
  BY <1>1, BeginKeyInv
<1>2. CASE EnterLane
  BY <1>2, EnterLaneInv
<1>3. CASE PlaceByte
  BY <1>3, PlaceByteInv
<1>4. CASE SkipByte
  BY <1>4, SkipByteInv
<1>5. CASE NextLane
  BY <1>5, NextLaneInv
<1>6. CASE StoreRows
  BY <1>6, StoreRowsInv
<1>7. CASE UNCHANGED vars
  <2>1. TypeOK' /\ LoopsInStep' /\ RowsSoFar'
    BY <1>7 DEF vars, loops, rows, IndInv, RowInv, TypeOK, LoopsInStep, RowsSoFar, visited
  <2>2. TablesSoFar'
    BY <1>7, TablesStay DEF vars, loops, IndInv
  <2> QED BY <2>1, <2>2 DEF IndInv, RowInv
<1> QED BY <1>1, <1>2, <1>3, <1>4, <1>5, <1>6, <1>7 DEF Next, Step

\* At every step of the loops, the rows and the tables hold what they should by
\* then.
THEOREM TablesInvariance == Spec => []IndInv
BY InitTables, NextTables, PTL DEF Spec

\* The rows of the key that is being done hold its masks as far as the loops are.
THEOREM RowsHoldMasks == Spec => []RowInv
<1>1. IndInv => RowInv
  BY DEF IndInv
<1> QED BY <1>1, TablesInvariance, PTL

\* Every cursor fits a byte, and every index is in its row.
THEOREM TableTypes == Spec => []TypeOK
<1>1. IndInv => TypeOK
  BY DEF IndInv, RowInv
<1> QED BY <1>1, TablesInvariance, PTL

\* The filled part of the tables is that of ShuffleTables, after each key; after
\* the last one, all of it is.
THEOREM TablesAreBuilt == Spec => []BuildsTables
<1>1. IndInv => BuildsTables
  BY DEF IndInv, TablesSoFar, Filled, BuildsTables
<1> QED BY <1>1, TablesInvariance, PTL

-----------------------------------------------------------------------------
(* The masks of the two directions.                                        *)

\* What the masks of a key say of a byte that is present, from either side.
LEMMA EachDataByte ==
  ASSUME NEW k \in Byte, NEW p \in Nat, p < T!lengthTable[k]
  PROVE  \E l, b \in Lane :
           /\ b <= laneCode(k, l) /\ p = T!cursor(k, l) + b /\ p \in Index
           /\ T!encodeShuffleTable[k][p] = 4 * l + b
           /\ T!encodeShuffleTablePerm[k][p] = 4 * l + b
           /\ T!encodeShuffleTablePermBE[k][p] = 4 * l + (3 - b)
           /\ T!shuffleTable[k][4 * l + b] = p /\ T!permTable[k][4 * l + b] = p
           /\ T!permTableBE[k][4 * l + (3 - b)] = p
<1>1. PICK l \in Lane, b \in Lane : b <= laneCode(k, l) /\ p = T!cursor(k, l) + b
  BY Origin
<1> QED BY <1>1, Place

LEMMA EachElement ==
  ASSUME NEW k \in Byte, NEW i \in Index
  PROVE  \E l, b \in Lane :
           LET p == T!cursor(k, l) + b
           IN /\ i = 4 * l + b
              /\ \/ /\ b <= laneCode(k, l) /\ p \in Index /\ p < T!lengthTable[k]
                    /\ T!shuffleTable[k][i] = p /\ T!permTable[k][i] = p
                    /\ T!encodeShuffleTable[k][p] = i /\ T!encodeShuffleTablePerm[k][p] = i
                    /\ T!permTableBE[k][mirror(i)] = p
                    /\ T!encodeShuffleTablePermBE[k][p] = mirror(i)
                 \/ /\ T!shuffleTable[k][i] = zeroIndex /\ T!permTable[k][i] = permZeroIndex
                    /\ T!permTableBE[k][mirror(i)] = permZeroIndex
<1> DEFINE l == i \div 4
           b == i % 4
<1>1. l \in Lane /\ b \in Lane /\ i = 4 * l + b /\ mirror(i) = 4 * l + (3 - b)
  BY ElementArithmetic DEF mirror
<1>2. laneCode(k, l) \in Lane
  BY <1>1, Cursors
<1> HIDE DEF l, b
<1>3. b <= laneCode(k, l) \/ b > laneCode(k, l)
  BY <1>1, <1>2 DEF Lane
<1>4. CASE b <= laneCode(k, l)
  BY <1>1, <1>4, Place
<1>5. CASE b > laneCode(k, l)
  BY <1>1, <1>5, Place
<1> QED BY <1>3, <1>4, <1>5

LEMMA MasksOfKeyUndo ==
  ASSUME NEW k \in Byte
  PROVE  /\ Undo(T!shuffleTable[k], T!encodeShuffleTable[k], T!lengthTable[k], zeroIndex)
         /\ Undo(T!permTable[k], T!encodeShuffleTablePerm[k], T!lengthTable[k], permZeroIndex)
         /\ Undo(T!permTableBE[k], T!encodeShuffleTablePermBE[k], T!lengthTable[k],
                 permZeroIndex)
<1> DEFINE m == T!lengthTable[k]
<1>1. m \in Nat
  <2>1. 4 \in 0 .. 4
    OBVIOUS
  <2> QED BY <2>1, Cursors DEF wide
<1> HIDE DEF m
<1>2. \A p \in 0 .. m - 1 : p \in Nat /\ p < m
  BY <1>1
<1>3. \A p \in 0 .. m - 1 :
        /\ T!encodeShuffleTable[k][p] \in Index
        /\ T!shuffleTable[k][T!encodeShuffleTable[k][p]] = p
        /\ T!encodeShuffleTablePerm[k][p] \in Index
        /\ T!permTable[k][T!encodeShuffleTablePerm[k][p]] = p
        /\ T!encodeShuffleTablePermBE[k][p] \in Index
        /\ T!permTableBE[k][T!encodeShuffleTablePermBE[k][p]] = p
  <2> TAKE p \in 0 .. m - 1
  <2>1. p \in Nat /\ p < T!lengthTable[k]
    BY <1>2 DEF m
  <2>2. PICK l \in Lane, b \in Lane :
          /\ T!encodeShuffleTable[k][p] = 4 * l + b
          /\ T!encodeShuffleTablePerm[k][p] = 4 * l + b
          /\ T!encodeShuffleTablePermBE[k][p] = 4 * l + (3 - b)
          /\ T!shuffleTable[k][4 * l + b] = p /\ T!permTable[k][4 * l + b] = p
          /\ T!permTableBE[k][4 * l + (3 - b)] = p
    BY <2>1, EachDataByte
  <2>3. 4 * l + b \in Index /\ 4 * l + (3 - b) \in Index
    BY ElementArithmetic
  <2> QED BY <2>2, <2>3
<1>4. \A i \in Index :
        /\ T!shuffleTable[k][i] # zeroIndex =>
             T!shuffleTable[k][i] < m /\ T!encodeShuffleTable[k][T!shuffleTable[k][i]] = i
        /\ T!permTable[k][i] # permZeroIndex =>
             T!permTable[k][i] < m /\ T!encodeShuffleTablePerm[k][T!permTable[k][i]] = i
        /\ T!permTableBE[k][mirror(i)] # permZeroIndex =>
             /\ T!permTableBE[k][mirror(i)] < m
             /\ T!encodeShuffleTablePermBE[k][T!permTableBE[k][mirror(i)]] = mirror(i)
  BY EachElement DEF m
<1>5. \A i \in Index : T!permTableBE[k][i] # permZeroIndex =>
        T!permTableBE[k][i] < m /\ T!encodeShuffleTablePermBE[k][T!permTableBE[k][i]] = i
  <2> TAKE i \in Index
  <2>1. mirror(i) \in Index /\ mirror(mirror(i)) = i
    BY ElementArithmetic
  <2> QED BY <1>4, <2>1
<1> QED BY <1>3, <1>4, <1>5 DEF Undo, m

\* The masks of the two directions undo each other, in all three conventions, for
\* every key that is finished.
THEOREM MasksUndoEachOther == Spec => []MasksUndo
<1>1. ASSUME IndInv PROVE MasksUndo
  <2> SUFFICES ASSUME pc = "key", NEW k \in 0 .. key - 1
      PROVE  /\ Undo(shuffleTable[k], encodeShuffleTable[k], lengthTable[k], zeroIndex)
             /\ Undo(permTable[k], encodeShuffleTablePerm[k], lengthTable[k], permZeroIndex)
             /\ Undo(permTableBE[k], encodeShuffleTablePermBE[k], lengthTable[k], permZeroIndex)
    BY DEF MasksUndo
  <2>1. key \in 0 .. 256
    BY <1>1 DEF IndInv, RowInv, TypeOK
  <2>2. k \in Byte /\ k < key
    BY <2>1 DEF Byte
  <2>3. /\ shuffleTable[k] = T!shuffleTable[k] /\ permTable[k] = T!permTable[k]
        /\ permTableBE[k] = T!permTableBE[k] /\ lengthTable[k] = T!lengthTable[k]
        /\ encodeShuffleTable[k] = T!encodeShuffleTable[k]
        /\ encodeShuffleTablePerm[k] = T!encodeShuffleTablePerm[k]
        /\ encodeShuffleTablePermBE[k] = T!encodeShuffleTablePermBE[k]
    BY <1>1, <2>2 DEF IndInv, TablesSoFar, Filled
  <2> QED BY <2>2, <2>3, MasksOfKeyUndo
<1>2. IndInv => MasksUndo
  BY <1>1
<1> QED BY <1>2, TablesInvariance, PTL


-----------------------------------------------------------------------------
(* The six rows, while a key is being done.                                *)

\* A lane starts behind all the bytes of the lanes before it.
LEMMA CursorOrder ==
  ASSUME NEW k \in Byte, NEW l \in Lane, NEW m \in 0 .. 4, l < m
  PROVE  T!cursor(k, l) + laneCode(k, l) + 1 <= T!cursor(k, m)
<1> DEFINE at(n) == T!cursor(k, n)
           c(n) == laneCode(k, n)
<1>1. /\ \A n \in {0, 1, 2, 3} : at(n) \in Int /\ c(n) \in 0 .. 3
      /\ at(1) = at(0) + c(0) + 1 /\ at(2) = at(1) + c(1) + 1
      /\ at(3) = at(2) + c(2) + 1 /\ at(4) = at(3) + c(3) + 1
  <2>1. 0 \in Lane /\ 1 \in Lane /\ 2 \in Lane /\ 3 \in Lane
    BY DEF Lane
  <2>2. /\ \A n \in Lane : at(n + 1) = at(n) + c(n) + 1
        /\ \A n \in Lane : c(n) \in 0 .. 3
        /\ \A n \in 0 .. 4 : at(n) \in Int
    BY Cursors DEF Lane, wide
  <2> HIDE DEF at, c
  <2> QED BY <2>1, <2>2
<1> HIDE DEF at, c
<1>2. \A x \in {0, 1, 2, 3}, y \in {0, 1, 2, 3, 4} : x < y => at(x) + c(x) + 1 <= at(y)
  BY <1>1
<1>3. l \in {0, 1, 2, 3} /\ m \in {0, 1, 2, 3, 4}
  BY DEF Lane
<1> QED BY <1>2, <1>3 DEF at, c

\* The cursor has passed a data byte when the loops have come by its place.
LEMMA PassedTogether ==
  ASSUME RowInv, pc # "key", NEW l \in Lane, NEW b \in Lane, b <= laneCode(key, l)
  PROVE  T!cursor(key, l) + b < cursor <=> 4 * l + b < visited
<1>1. key \in Byte /\ lane \in 0 .. 4
  BY DEF RowInv, LoopsInStep, TypeOK
<1>2. /\ laneCode(key, l) \in 0 .. 3 /\ T!cursor(key, l) \in 0 .. wide
      /\ T!cursor(key, lane) \in 0 .. wide
  <2>1. l \in 0 .. 4
    BY DEF Lane
  <2> QED BY <1>1, <2>1, Cursors DEF Lane
<1>3. l < lane => T!cursor(key, l) + laneCode(key, l) + 1 <= T!cursor(key, lane)
  BY <1>1, CursorOrder
<1>4. ASSUME lane < l
      PROVE  /\ lane \in Lane /\ laneCode(key, lane) \in 0 .. 3
             /\ T!cursor(key, lane) + laneCode(key, lane) + 1 <= T!cursor(key, l)
  <2>1. lane \in Lane /\ l \in 0 .. 4
    BY <1>1, <1>4 DEF Lane
  <2> QED BY <1>1, <1>4, <2>1, Cursors, CursorOrder DEF Lane
<1>5. CASE pc = "lane"
  <2>1. cursor = T!cursor(key, lane) /\ visited = 4 * lane
    BY <1>5 DEF RowInv, LoopsInStep, visited
  <2>2. CASE l < lane
    BY <1>1, <1>2, <1>3, <2>1, <2>2 DEF Lane, wide
  <2>3. CASE ~(l < lane)
    <3>1. T!cursor(key, lane) <= T!cursor(key, l)
      BY <1>1, <1>2, <1>4, <2>3 DEF Lane, wide
    <3> QED BY <1>1, <1>2, <2>1, <2>3, <3>1 DEF Lane, wide
  <2> QED BY <2>2, <2>3
<1>6. CASE pc = "byte"
  <2>1. /\ visited = 4 * lane + j /\ lane \in Lane /\ j \in 0 .. 4
        /\ laneCode(key, lane) \in 0 .. 3
        /\ cursor = T!cursor(key, lane)
                     + (IF j <= laneCode(key, lane) THEN j ELSE laneCode(key, lane) + 1)
    BY <1>6, ByteFacts
  <2>2. CASE l < lane
    BY <1>1, <1>2, <1>3, <2>1, <2>2 DEF Lane, wide
  <2>3. CASE l = lane
    BY <1>1, <1>2, <2>1, <2>3 DEF Lane, wide
  <2>4. CASE lane < l
    BY <1>1, <1>2, <1>4, <2>1, <2>4 DEF Lane, wide
  <2> QED BY <1>1, <2>2, <2>3, <2>4 DEF Lane
<1> QED BY <1>5, <1>6 DEF RowInv, TypeOK

\* While a key is being done, the six rows agree on every byte that is placed,
\* each encode row has its marker behind the cursor, and no row has been written
\* beyond the loops.
THEOREM RowsStayInStep == Spec => []RowsInStep
<1>1. ASSUME RowInv PROVE RowsInStep
  <2> SUFFICES ASSUME pc # "key" PROVE RowsInStep
    BY DEF RowsInStep
  <2>1. /\ key \in Byte /\ lane \in 0 .. 4 /\ cursor \in 0 .. T!lengthTable[key]
        /\ T!lengthTable[key] \in 0 .. wide
        /\ visited \in Int /\ cursor \in Int
    <3>1. key \in Byte /\ lane \in 0 .. 4 /\ cursor \in 0 .. wide
      BY <1>1 DEF RowInv, LoopsInStep, TypeOK
    <3>2. T!lengthTable[key] = T!cursor(key, 4) /\ T!lengthTable[key] \in 0 .. wide
      BY <3>1, Cursors
    <3>3. lane \in Lane => T!cursor(key, lane) + laneCode(key, lane) + 1 <= T!cursor(key, 4)
      <4>1. 4 \in 0 .. 4 /\ (lane \in Lane => lane < 4)
        BY DEF Lane
      <4> QED BY <3>1, <4>1, CursorOrder
    <3>4. T!cursor(key, lane) \in 0 .. wide /\ (lane \in Lane => laneCode(key, lane) \in 0 .. 3)
      BY <3>1, Cursors DEF Lane
    <3>5. lane \in Lane \/ lane = 4
      BY <3>1 DEF Lane
    <3>6. CASE pc = "lane"
      <4>1. cursor = T!cursor(key, lane) /\ visited = 4 * lane
        BY <1>1, <3>6 DEF RowInv, LoopsInStep, visited
      <4> QED BY <3>1, <3>2, <3>3, <3>4, <3>5, <4>1 DEF wide
    <3>7. CASE pc = "byte"
      <4>1. /\ visited = 4 * lane + j /\ lane \in Lane /\ j \in 0 .. 4
            /\ cursor = T!cursor(key, lane)
                         + (IF j <= laneCode(key, lane) THEN j ELSE laneCode(key, lane) + 1)
        BY <1>1, <3>7, ByteFacts
      <4> QED BY <3>1, <3>2, <3>3, <3>4, <4>1 DEF wide
    <3> QED BY <1>1, <3>6, <3>7 DEF RowInv, TypeOK
  <2>2. \A p \in Index : p \in Nat
    BY DEF Index, T!Index, T!wide
  <2>3. \A i \in Index :
          /\ i < visited => mask[i] = T!shuffleTable[key][i] /\ perm[i] = T!permTable[key][i]
          /\ i >= visited => mask[i] = 0 /\ perm[i] = 0
          /\ mirror(i) < visited => permBE[i] = T!permTableBE[key][i]
    <3>1. \A i \in Index : i >= visited => ~(i < visited)
      BY <2>1, <2>2
    <3> QED BY <1>1, <3>1 DEF RowInv, RowsSoFar
  <2>4. \A p \in Index :
          IF p < cursor
          THEN /\ enc[p] = T!encodeShuffleTable[key][p]
               /\ encPerm[p] = T!encodeShuffleTablePerm[key][p]
               /\ encPermBE[p] = T!encodeShuffleTablePermBE[key][p]
          ELSE enc[p] = zeroIndex /\ encPerm[p] = permZeroIndex
                                  /\ encPermBE[p] = permZeroIndex
    BY <1>1 DEF RowInv, RowsSoFar
  <2>5. ASSUME NEW p \in Index, p < cursor
        PROVE  /\ enc[p] = encPerm[p] /\ enc[p] < visited
               /\ mask[enc[p]] = p /\ perm[enc[p]] = p
               /\ encPermBE[p] = 4 * (enc[p] \div 4) + (3 - (enc[p] % 4))
               /\ permBE[encPermBE[p]] = p
    <3>1. p \in Nat /\ p < T!lengthTable[key]
      BY <2>1, <2>2, <2>5 DEF wide
    <3>2. PICK l \in Lane, b \in Lane :
            /\ b <= laneCode(key, l) /\ p = T!cursor(key, l) + b
            /\ T!encodeShuffleTable[key][p] = 4 * l + b
            /\ T!encodeShuffleTablePerm[key][p] = 4 * l + b
            /\ T!encodeShuffleTablePermBE[key][p] = 4 * l + (3 - b)
            /\ T!shuffleTable[key][4 * l + b] = p /\ T!permTable[key][4 * l + b] = p
            /\ T!permTableBE[key][4 * l + (3 - b)] = p
      BY <2>1, <3>1, EachDataByte
    <3>3. 4 * l + b < visited
      BY <1>1, <2>5, <3>2, PassedTogether
    <3>4. /\ 4 * l + b \in Index /\ (4 * l + b) \div 4 = l /\ (4 * l + b) % 4 = b
          /\ 4 * l + (3 - b) \in Index /\ mirror(4 * l + (3 - b)) = 4 * l + b
      BY ElementArithmetic
    <3>5. enc[p] = 4 * l + b /\ encPerm[p] = 4 * l + b /\ encPermBE[p] = 4 * l + (3 - b)
      BY <2>4, <2>5, <3>2
    <3>6. /\ mask[4 * l + b] = p /\ perm[4 * l + b] = p /\ permBE[4 * l + (3 - b)] = p
      BY <2>3, <3>2, <3>3, <3>4
    <3> QED BY <3>3, <3>4, <3>5, <3>6
  <2>6. ASSUME NEW i \in Index, i < visited, mask[i] = zeroIndex
        PROVE  perm[i] = permZeroIndex
    <3>1. T!shuffleTable[key][i] = zeroIndex /\ perm[i] = T!permTable[key][i]
      BY <2>3, <2>6
    <3>2. zeroIndex \notin Index
      BY Markers DEF Index, T!Index, T!wide
    <3> QED BY <2>1, <3>1, <3>2, EachElement
  <2>7. pc = "lane" => cursor = total
    BY <1>1 DEF RowInv, LoopsInStep
  <2> QED BY <2>3, <2>4, <2>5, <2>6, <2>7 DEF RowsInStep
<1> QED BY <1>1, TablesInvariance, PTL DEF IndInv

=============================================================================
