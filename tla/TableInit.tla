------------------------------ MODULE TableInit ------------------------------
(***************************************************************************)
(* init() of tables.go, which fills the seven tables before any call: for  *)
(* each control byte it fills six rows, side by side, with one cursor, and *)
(* stores them.  ShuffleTables has what the tables are meant to hold.      *)
(*                                                                         *)
(*   key (BeginKey) -> lane (EnterLane) -> byte (PlaceByte, SkipByte) ...  *)
(***************************************************************************)
EXTENDS StreamVByte

T == INSTANCE ShuffleTables

Index == T!Index
zeroIndex == T!zeroIndex
permZeroIndex == T!permZeroIndex

VARIABLES
  pc, key, lane, j,       \* the three loops
  cursor, total,          \* data bytes placed, and counted by lanes
  mask, perm, permBE,     \* rows of the decode masks
  enc, encPerm, encPermBE,   \* rows of the encode masks
  shuffleTable, permTable, permTableBE,
  encodeShuffleTable, encodeShuffleTablePerm, encodeShuffleTablePermBE,
  lengthTable

loops  == <<pc, key, lane, j>>
rows   == <<mask, perm, permBE, enc, encPerm, encPermBE>>
tables == <<shuffleTable, permTable, permTableBE, encodeShuffleTable,
            encodeShuffleTablePerm, encodeShuffleTablePermBE, lengthTable>>
vars   == <<loops, cursor, total, rows, tables>>

Row(x) == [i \in Index |-> x]

-----------------------------------------------------------------------------

\* Arrays of Go start out as zeros.
Init ==
  /\ pc = "key" /\ key = 0 /\ lane = 0 /\ j = 0
  /\ cursor = 0 /\ total = 0
  /\ mask = Row(0) /\ perm = Row(0) /\ permBE = Row(0)
  /\ enc = Row(0) /\ encPerm = Row(0) /\ encPermBE = Row(0)
  /\ LET Zeros == [k \in Byte |-> Row(0)]
     IN /\ shuffleTable = Zeros /\ permTable = Zeros /\ permTableBE = Zeros
        /\ encodeShuffleTable = Zeros /\ encodeShuffleTablePerm = Zeros
        /\ encodeShuffleTablePermBE = Zeros
  /\ lengthTable = [k \in Byte |-> 0]

BeginKey_KeepRows ==
  /\ pc = "key" /\ key < 256
  /\ pc' = "lane" /\ lane' = 0 /\ cursor' = 0 /\ total' = 0
  /\ UNCHANGED <<key, j, rows, tables>>

\* The rows of each key are fresh, and filled with their zero markers where
\* the loop below does not come by.
BeginKey ==
  /\ pc = "key" /\ key < 256
  /\ pc' = "lane" /\ lane' = 0 /\ cursor' = 0 /\ total' = 0
  /\ mask' = Row(0) /\ perm' = Row(0) /\ permBE' = Row(permZeroIndex)
  /\ enc' = Row(zeroIndex)
  /\ encPerm' = Row(permZeroIndex) /\ encPermBE' = Row(permZeroIndex)
  /\ UNCHANGED <<key, j, tables>>

EnterLane ==
  /\ pc = "lane" /\ lane < 4
  /\ pc' = "byte" /\ j' = 0
  /\ total' = total + laneCode(key, lane) + 1
  /\ UNCHANGED <<key, lane, cursor, rows, tables>>

Present_Short == pc = "byte" /\ j < laneCode(key, lane)

\* Byte j of the lane is one of its code+1 bytes.
Present == pc = "byte" /\ j <= laneCode(key, lane)

PlaceByte ==
  /\ Present /\ j < 4
  /\ mask'   = [mask   EXCEPT ![4 * lane + j] = cursor]
  /\ perm'   = [perm   EXCEPT ![4 * lane + j] = cursor]
  /\ permBE' = [permBE EXCEPT ![4 * lane + (3 - j)] = cursor]
  /\ enc'       = [enc       EXCEPT ![cursor] = 4 * lane + j]
  /\ encPerm'   = [encPerm   EXCEPT ![cursor] = 4 * lane + j]
  /\ encPermBE' = [encPermBE EXCEPT ![cursor] = 4 * lane + (3 - j)]
  /\ cursor' = cursor + 1
  /\ j' = j + 1
  /\ UNCHANGED <<pc, key, lane, total, tables>>

SkipByte_Stuck ==
  /\ pc = "byte" /\ ~Present /\ j < 4
  /\ mask' = [mask EXCEPT ![4 * lane + j] = zeroIndex]
  /\ perm' = [perm EXCEPT ![4 * lane + j] = permZeroIndex]
  /\ UNCHANGED <<loops, cursor, total, permBE, enc, encPerm, encPermBE, tables>>

SkipByte ==
  /\ pc = "byte" /\ ~Present /\ j < 4
  /\ mask' = [mask EXCEPT ![4 * lane + j] = zeroIndex]
  /\ perm' = [perm EXCEPT ![4 * lane + j] = permZeroIndex]
  /\ j' = j + 1
  /\ UNCHANGED <<pc, key, lane, cursor, total, permBE, enc, encPerm, encPermBE, tables>>

NextLane ==
  /\ pc = "byte" /\ j = 4
  /\ pc' = "lane" /\ lane' = lane + 1
  /\ UNCHANGED <<key, j, cursor, total, rows, tables>>

StoreRows ==
  /\ pc = "lane" /\ lane = 4
  /\ shuffleTable' = [shuffleTable EXCEPT ![key] = mask]
  /\ permTable'    = [permTable    EXCEPT ![key] = perm]
  /\ permTableBE'  = [permTableBE  EXCEPT ![key] = permBE]
  /\ encodeShuffleTable'       = [encodeShuffleTable       EXCEPT ![key] = enc]
  /\ encodeShuffleTablePerm'   = [encodeShuffleTablePerm   EXCEPT ![key] = encPerm]
  /\ encodeShuffleTablePermBE' = [encodeShuffleTablePermBE EXCEPT ![key] = encPermBE]
  /\ lengthTable' = [lengthTable EXCEPT ![key] = total]
  /\ pc' = "key" /\ key' = key + 1
  /\ UNCHANGED <<lane, j, cursor, total, rows>>

Step == BeginKey \/ EnterLane \/ PlaceByte \/ SkipByte \/ NextLane \/ StoreRows

\* init returns, and nothing writes to the tables any more.
Initialised == pc = "key" /\ key = 256

Next == Step \/ (Initialised /\ UNCHANGED vars)

Spec == Init /\ [][Next]_vars

\* The loops run to their end before main starts.
FairSpec == Spec /\ WF_vars(Step)

-----------------------------------------------------------------------------
(* Properties.                                                             *)

\* In particular cursor and total fit a uint8, and every index is in its row.
TypeOK ==
  /\ pc \in {"key", "lane", "byte"}
  /\ key \in 0 .. 256 /\ lane \in 0 .. 4 /\ j \in 0 .. 4
  /\ cursor \in 0 .. wide /\ total \in 0 .. wide
  /\ {mask, perm, permBE, enc, encPerm, encPermBE} \subseteq [Index -> Byte]

\* The bytes of the lanes that the loops have come by: data byte p is placed
\* when p < cursor, and byte b of lane l when 4*l + b < visited.
visited == IF pc = "byte" THEN 4 * lane + j ELSE 4 * lane

\* While a key is being done, the six rows agree with each other: every byte
\* placed is in all of them, each encode row has its zero marker behind the
\* cursor, so none keeps what an earlier key left there, and none of the rows
\* has been written beyond the bytes that the loops have come by.
RowsInStep ==
  pc # "key" =>
    /\ \A p \in Index :
         IF p < cursor
         THEN /\ enc[p] = encPerm[p] /\ enc[p] < visited
              /\ mask[enc[p]] = p /\ perm[enc[p]] = p
              /\ encPermBE[p] = 4 * (enc[p] \div 4) + (3 - (enc[p] % 4))
              /\ permBE[encPermBE[p]] = p
         ELSE enc[p] = zeroIndex /\ encPerm[p] = permZeroIndex
                                 /\ encPermBE[p] = permZeroIndex
    /\ \A i \in Index : i < visited /\ mask[i] = zeroIndex => perm[i] = permZeroIndex
    /\ \A i \in Index : i >= visited => mask[i] = 0 /\ perm[i] = 0
    /\ pc = "lane" => cursor = total

\* Whenever a key is finished, the rows of all keys so far hold what Encode and
\* Decode rely on, and no later row has been touched; at the end, all of them.
BuildsTables ==
  pc = "key" =>
    \A k \in Byte :
      IF k < key
      THEN /\ lengthTable[k]  = T!lengthTable[k]
           /\ shuffleTable[k] = T!shuffleTable[k]
           /\ permTable[k]    = T!permTable[k]
           /\ permTableBE[k]  = T!permTableBE[k]
           /\ encodeShuffleTable[k]       = T!encodeShuffleTable[k]
           /\ encodeShuffleTablePerm[k]   = T!encodeShuffleTablePerm[k]
           /\ encodeShuffleTablePermBE[k] = T!encodeShuffleTablePermBE[k]
      ELSE /\ lengthTable[k] = 0
           /\ Row(0) = shuffleTable[k] /\ Row(0) = permTable[k]
           /\ Row(0) = permTableBE[k]  /\ Row(0) = encodeShuffleTable[k]
           /\ Row(0) = encodeShuffleTablePerm[k]
           /\ Row(0) = encodeShuffleTablePermBE[k]

\* The decode mask and the encode mask of a key that is finished undo each other, in all
\* three conventions: what one puts at i comes from where the other puts i,
\* and the bytes that neither moves are those with the zero marker.
Undo(spread, compact, len, zero) ==
  /\ \A p \in 0 .. len - 1 : compact[p] \in Index /\ spread[compact[p]] = p
  /\ \A i \in Index : spread[i] # zero => spread[i] < len /\ compact[spread[i]] = i

MasksUndo ==
  pc = "key" =>
    \A k \in 0 .. key - 1 :
      /\ Undo(shuffleTable[k], encodeShuffleTable[k], lengthTable[k], zeroIndex)
      /\ Undo(permTable[k], encodeShuffleTablePerm[k], lengthTable[k], permZeroIndex)
      /\ Undo(permTableBE[k], encodeShuffleTablePermBE[k], lengthTable[k], permZeroIndex)

-----------------------------------------------------------------------------
(* The inductive invariant: what each row and each table holds by now.     *)

\* The other place of byte j of a lane, on a big-endian machine.
mirror(i) == 4 * (i \div 4) + (3 - (i % 4))

\* The loops are in a lane of a byte, and cursor is where ShuffleTables has it.
LoopsInStep ==
  /\ pc # "key" => key \in Byte
  /\ pc = "lane" => cursor = T!cursor(key, lane) /\ total = cursor
  /\ pc = "byte" =>
       /\ lane \in Lane /\ total = T!cursor(key, lane + 1)
       /\ cursor = T!cursor(key, lane)
                     + (IF j <= laneCode(key, lane) THEN j ELSE laneCode(key, lane) + 1)

\* The rows hold the masks of key as far as the loops have come.
RowsSoFar ==
  pc # "key" =>
    \A i \in Index :
      /\ mask[i] = IF i < visited THEN T!shuffleTable[key][i] ELSE 0
      /\ perm[i] = IF i < visited THEN T!permTable[key][i] ELSE 0
      /\ permBE[i] = IF mirror(i) < visited THEN T!permTableBE[key][i] ELSE permZeroIndex
      /\ enc[i] = IF i < cursor THEN T!encodeShuffleTable[key][i] ELSE zeroIndex
      /\ encPerm[i] = IF i < cursor THEN T!encodeShuffleTablePerm[key][i]
                                    ELSE permZeroIndex
      /\ encPermBE[i] = IF i < cursor THEN T!encodeShuffleTablePermBE[key][i]
                                      ELSE permZeroIndex

\* Wherever the loops are in a key, the six rows hold its masks up to there.
RowInv == TypeOK /\ LoopsInStep /\ RowsSoFar

\* A table is done up to key.
Filled(table, full, empty) ==
  table = [k \in Byte |-> IF k < key THEN full[k] ELSE empty]

TablesSoFar ==
  /\ Filled(lengthTable, T!lengthTable, 0)
  /\ Filled(shuffleTable, T!shuffleTable, Row(0))
  /\ Filled(permTable, T!permTable, Row(0))
  /\ Filled(permTableBE, T!permTableBE, Row(0))
  /\ Filled(encodeShuffleTable, T!encodeShuffleTable, Row(0))
  /\ Filled(encodeShuffleTablePerm, T!encodeShuffleTablePerm, Row(0))
  /\ Filled(encodeShuffleTablePermBE, T!encodeShuffleTablePermBE, Row(0))

\* And the tables hold those of the keys before.
IndInv == RowInv /\ TablesSoFar

-----------------------------------------------------------------------------

\* init ends.
InitEnds == <>Initialised

=============================================================================
