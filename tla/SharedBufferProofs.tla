-------------------------- MODULE SharedBufferProofs --------------------------
(***************************************************************************)
(* Two calls of Encode in one buffer do each what a call alone would do.   *)
(*                                                                         *)
(* What the first call would see if it were alone is shadow: the buffer,   *)
(* with the bytes that belong to the second block as they were when the    *)
(* second call began.  Both calls are then instances of Encode, and        *)
(* whatever is proved of a call holds of them, also in one buffer.         *)
(***************************************************************************)
EXTENDS SharedBuffer, EncodeProofs

shadow ==
  [i \in DOMAIN dst |-> IF wpc = "idle" \/ i < second THEN dst[i] ELSE wold[i - second]]

\* The first call alone.
X == INSTANCE EncodeProofs WITH dst <- shadow

\* The second call.
Y == INSTANCE EncodeProofs WITH
       pc <- wpc, platform <- wplatform, public <- wpublic, src <- wsrc,
       n <- wn, len <- wlen, dst <- wdst, g <- wg, off <- woff, safe <- wsafe,
       c <- wc, ki <- wki, shift <- wshift, key <- wkey, dp <- wdp,
       ret <- wret, start <- wstart, old <- wold

-----------------------------------------------------------------------------
(* The assumptions of Encode hold for both, and X and Y have the operators *)
(* of Encode.                                                              *)

LEMMA AssumptionsX ==
  /\ VLMAX \in Nat /\ VLMAX >= X!wide
  /\ TailBytes \subseteq X!Byte /\ TailBytes # {}
  /\ Targets \subseteq X!Platforms
  /\ Lengths \subseteq Nat /\ Values \subseteq X!Value /\ OldBytes \subseteq X!Byte
  /\ Slack \in Nat /\ IntBits \in Nat \ {0}
BY VLMAXAssumption, TailBytesAssumption, TargetsAssumption, InputAssumption
   DEF X!wide, wide, X!Byte, Byte, X!Platforms, Platforms, X!Value, Value, X!Lane, Lane

LEMMA AssumptionsY ==
  /\ VLMAX \in Nat /\ VLMAX >= Y!wide
  /\ TailBytes \subseteq Y!Byte /\ TailBytes # {}
  /\ Targets \subseteq Y!Platforms
  /\ Lengths \subseteq Nat /\ Values \subseteq Y!Value /\ OldBytes \subseteq Y!Byte
  /\ Slack \in Nat /\ IntBits \in Nat \ {0}
BY VLMAXAssumption, TailBytesAssumption, TargetsAssumption, InputAssumption
   DEF Y!wide, wide, Y!Byte, Byte, Y!Platforms, Platforms, Y!Value, Value, Y!Lane, Lane

LEMMA SameFormat ==
  /\ X!Byte = Byte /\ X!Lane = Lane /\ X!Value = Value /\ X!wide = wide
  /\ X!groupSize = groupSize
  /\ \A k : X!controlLen(k) = controlLen(k) /\ X!EncodedMaxLen(k) = EncodedMaxLen(k)
  /\ \A v : X!code(v) = code(v)
  /\ \A v, s : X!shiftLeft(v, s) = shiftLeft(v, s)
  /\ \A k, lane : X!laneCode(k, lane) = laneCode(k, lane)
BY Zenon DEF X!Byte, Byte, X!Lane, Lane, X!Value, Value, X!wide, wide, X!groupSize, groupSize,
   X!controlLen, controlLen, X!EncodedMaxLen, EncodedMaxLen, X!code, code, X!shiftLeft,
   shiftLeft, X!laneCode, laneCode

LEMMA SameTables ==
  /\ \A a, b, d, e : X!controlByte(a, b, d, e) = controlByte(a, b, d, e)
  /\ \A k, lane : X!cursor(k, lane) = cursor(k, lane)
  /\ X!lengthTable = lengthTable
<1>1. \A a, b, d, e : X!controlByte(a, b, d, e) = controlByte(a, b, d, e)
  BY Zenon, SameFormat DEF X!controlByte, controlByte
<1>2. \A k, lane : X!cursor(k, lane) = cursor(k, lane)
  BY Zenon, SameFormat DEF X!cursor, cursor
<1>3. X!lengthTable = lengthTable
  BY Zenon, <1>2, SameFormat DEF X!lengthTable, lengthTable
<1> QED BY <1>1, <1>2, <1>3

LEMMA SameMasks ==
  /\ X!Index = Index /\ X!zeroIndex = zeroIndex /\ X!permZeroIndex = permZeroIndex
  /\ X!encodeShuffleTable = encodeShuffleTable
  /\ X!encodeShuffleTablePerm = encodeShuffleTablePerm
  /\ X!encodeShuffleTablePermBE = encodeShuffleTablePermBE
<1>1. X!Index = Index /\ X!zeroIndex = zeroIndex /\ X!permZeroIndex = permZeroIndex
  BY Zenon DEF X!Index, Index, X!wide, wide, X!zeroIndex, zeroIndex, X!permZeroIndex,
     permZeroIndex
<1>2. \A k, p : X!laneAt(k, p) = laneAt(k, p)
  BY Zenon, SameTables DEF X!laneAt, laneAt
<1>3. \A k, p : X!byteAt(k, p) = byteAt(k, p)
  BY Zenon, <1>2, SameTables DEF X!byteAt, byteAt
<1>4. X!encodeShuffleTable = encodeShuffleTable
  BY Zenon, <1>1, <1>2, <1>3, SameFormat, SameTables
     DEF X!encodeShuffleTable, encodeShuffleTable
<1>5. X!encodeShuffleTablePerm = encodeShuffleTablePerm
  BY Zenon, <1>1, <1>2, <1>3, SameFormat, SameTables
     DEF X!encodeShuffleTablePerm, encodeShuffleTablePerm
<1>6. X!encodeShuffleTablePermBE = encodeShuffleTablePermBE
  BY Zenon, <1>1, <1>2, <1>3, SameFormat, SameTables
     DEF X!encodeShuffleTablePermBE, encodeShuffleTablePermBE
<1> QED BY <1>1, <1>4, <1>5, <1>6

LEMMA SameInstructions ==
  /\ \A x, m : X!PSHUFB(x, m) = PSHUFB(x, m) /\ X!VTBL(x, m) = VTBL(x, m)
  /\ \A x, y, m : X!VPERM(x, y, m) = VPERM(x, y, m) /\ X!VSHUFB(x, y, m) = VSHUFB(x, y, m)
  /\ \A x, m, t : X!VRGATHER(x, m, t) = VRGATHER(x, m, t)
  /\ \A x : X!loadB16(x) = loadB16(x) /\ X!storeB16(x) = storeB16(x)
  /\ X!zeroVector = zeroVector
<1>1. X!Index = Index
  BY SameMasks
<1>2. \A x, m : X!PSHUFB(x, m) = PSHUFB(x, m) /\ X!VTBL(x, m) = VTBL(x, m)
  BY Zenon, <1>1 DEF X!PSHUFB, PSHUFB, X!VTBL, VTBL
<1>3. \A x, y, m : X!VPERM(x, y, m) = VPERM(x, y, m)
  BY Zenon, <1>1 DEF X!VPERM, VPERM
<1>4. \A x, y, m : X!VSHUFB(x, y, m) = VSHUFB(x, y, m)
  BY Zenon, <1>3 DEF X!VSHUFB, VSHUFB
<1>5. \A x, m, t : X!VRGATHER(x, m, t) = VRGATHER(x, m, t)
  BY Zenon, <1>1 DEF X!VRGATHER, VRGATHER
<1>6. \A x : X!LXVD2X(x) = LXVD2X(x) /\ X!STXVD2X(x) = STXVD2X(x)
  BY Zenon, <1>1 DEF X!LXVD2X, LXVD2X, X!STXVD2X, STXVD2X
<1>7. X!vrev = vrev
  BY Zenon, <1>1, <1>6 DEF X!vrev, vrev
<1>8. \A x : X!loadB16(x) = loadB16(x) /\ X!storeB16(x) = storeB16(x)
  BY Zenon, <1>3, <1>6, <1>7 DEF X!loadB16, loadB16, X!storeB16, storeB16
<1>9. X!zeroVector = zeroVector
  BY Zenon, <1>1 DEF X!zeroVector, zeroVector
<1> QED BY <1>2, <1>3, <1>4, <1>5, <1>8, <1>9

LEMMA SameKernel ==
  /\ X!hasEncodeKernel = hasEncodeKernel
  /\ \A p, k, v, t : X!encodeGroup(p, k, v, t) = encodeGroup(p, k, v, t)
<1>1. X!hasEncodeKernel = hasEncodeKernel
  BY Zenon DEF X!hasEncodeKernel, hasEncodeKernel, X!Platforms, Platforms
<1>2. \A p, v : X!nativeBytes(p, v) = nativeBytes(p, v)
  BY Zenon, SameMasks DEF X!nativeBytes, nativeBytes
<1>3. \A k, x : /\ X!encodeGroupsSSE(k, x) = encodeGroupsSSE(k, x)
                /\ X!encodeGroupsNEON(k, x) = encodeGroupsNEON(k, x)
  BY Zenon, SameMasks, SameInstructions
     DEF X!encodeGroupsSSE, encodeGroupsSSE, X!encodeGroupsNEON, encodeGroupsNEON
<1>4. \A k, x : /\ X!encodeGroupsVSX(k, x) = encodeGroupsVSX(k, x)
                /\ X!encodeGroupsVX(k, x) = encodeGroupsVX(k, x)
                /\ X!encodeGroupsLSX(k, x) = encodeGroupsLSX(k, x)
  BY Zenon, SameMasks, SameInstructions
     DEF X!encodeGroupsVSX, encodeGroupsVSX, X!encodeGroupsVX, encodeGroupsVX,
         X!encodeGroupsLSX, encodeGroupsLSX
<1>5. \A k, x, t : X!encodeGroupsRVV(k, x, t) = encodeGroupsRVV(k, x, t)
  BY Zenon, SameMasks, SameInstructions DEF X!encodeGroupsRVV, encodeGroupsRVV
<1>6. ASSUME NEW p, NEW k, NEW v, NEW t
      PROVE  X!encodeGroup(p, k, v, t) = encodeGroup(p, k, v, t)
  <2> DEFINE x == nativeBytes(p, v)
  <2>1. X!nativeBytes(p, v) = x
    BY <1>2
  <2>2. /\ X!encodeGroupsSSE(k, x) = encodeGroupsSSE(k, x)
        /\ X!encodeGroupsNEON(k, x) = encodeGroupsNEON(k, x)
        /\ X!encodeGroupsVSX(k, x) = encodeGroupsVSX(k, x)
        /\ X!encodeGroupsVX(k, x) = encodeGroupsVX(k, x)
        /\ X!encodeGroupsLSX(k, x) = encodeGroupsLSX(k, x)
        /\ X!encodeGroupsRVV(k, x, t) = encodeGroupsRVV(k, x, t)
    BY <1>3, <1>4, <1>5
  <2>3. encodeGroup(p, k, v, t) =
          CASE p = "amd64"   -> encodeGroupsSSE(k, x)
            [] p = "arm64"   -> encodeGroupsNEON(k, x)
            [] p = "power9"  -> encodeGroupsVSX(k, x)
            [] p = "s390x"   -> encodeGroupsVX(k, x)
            [] p = "riscv64" -> encodeGroupsRVV(k, x, t)
            [] p = "loong64" -> encodeGroupsLSX(k, x)
    BY Zenon DEF encodeGroup
  <2>4. X!encodeGroup(p, k, v, t) =
          CASE p = "amd64"   -> X!encodeGroupsSSE(k, x)
            [] p = "arm64"   -> X!encodeGroupsNEON(k, x)
            [] p = "power9"  -> X!encodeGroupsVSX(k, x)
            [] p = "s390x"   -> X!encodeGroupsVX(k, x)
            [] p = "riscv64" -> X!encodeGroupsRVV(k, x, t)
            [] p = "loong64" -> X!encodeGroupsLSX(k, x)
    BY Zenon, <2>1 DEF X!encodeGroup
  <2> HIDE DEF x
  <2> QED BY <2>2, <2>3, <2>4
<1> QED BY <1>1, <1>6

LEMMA SameCounts ==
  /\ X!cl = cl /\ X!dataLen = dataLen /\ X!groups = groups /\ X!maxLen = maxLen
  /\ X!WideFits = WideFits /\ X!FitsInt = FitsInt /\ X!Flush = Flush
  /\ X!NextShift = NextShift
BY Zenon DEF X!cl, cl, X!dataLen, dataLen, X!groups, groups, X!maxLen, maxLen, X!WideFits,
   WideFits, X!FitsInt, FitsInt, X!Flush, Flush, X!NextShift, NextShift, X!controlLen,
   controlLen, X!groupSize, groupSize, X!asInt, asInt, X!EncodedMaxLen, EncodedMaxLen,
   X!code, code, X!wide, wide

\* The second call is an instance of Encode already.
LEMMA SameSecond ==
  /\ W!Init <=> Y!Init
  /\ \A k, l : W!CallOn(k, l) <=> Y!CallOn(k, l)
BY Zenon DEF W!Init, Y!Init, W!wide, Y!wide, W!CallOn, Y!CallOn, W!groupVars, Y!groupVars,
   W!tailVars, Y!tailVars

\* And its steps are those of a call.
LEMMA SameSecondStep == W!Step <=> Y!Step
BY ZenonT(120) DEF
  W!Step, Y!Step, W!EncodeEmpty, Y!EncodeEmpty, W!EncodeTooShort, Y!EncodeTooShort,
  W!SlicePanic, Y!SlicePanic, W!BeginScalar, Y!BeginScalar, W!BeginScan, Y!BeginScan,
  W!ScanGroup, Y!ScanGroup, W!ScanToKernel, Y!ScanToKernel, W!ScanToTail, Y!ScanToTail,
  W!KernelGroup, Y!KernelGroup, W!KernelToTail, Y!KernelToTail, W!TailInt, Y!TailInt,
  W!TailPanic, Y!TailPanic, W!TailDone, Y!TailDone, W!InEncode, Y!InEncode, W!Panic,
  Y!Panic, W!Return, Y!Return, W!HandOver, Y!HandOver, W!WideFits, Y!WideFits, W!Flush,
  Y!Flush, W!FitsInt, Y!FitsInt, W!NextShift, Y!NextShift, W!TailBytesWritten,
  Y!TailBytesWritten, W!wideStore, Y!wideStore, W!cl, Y!cl, W!dataLen, Y!dataLen,
  W!groups, Y!groups, W!asInt, Y!asInt, W!maxLen, Y!maxLen, W!callVars, Y!callVars,
  W!groupVars, Y!groupVars, W!tailVars, Y!tailVars, W!Byte, Y!Byte, W!Lane, Y!Lane,
  W!groupSize, Y!groupSize, W!wide, Y!wide, W!controlLen, Y!controlLen, W!EncodedMaxLen,
  Y!EncodedMaxLen, W!code, Y!code, W!shiftLeft, Y!shiftLeft, W!controlByte,
  Y!controlByte, W!laneCode, Y!laneCode, W!zeroIndex, Y!zeroIndex, W!permZeroIndex,
  Y!permZeroIndex, W!Index, Y!Index, W!cursor, Y!cursor, W!lengthTable, Y!lengthTable,
  W!laneAt, Y!laneAt, W!byteAt, Y!byteAt, W!encodeShuffleTable, Y!encodeShuffleTable,
  W!encodeShuffleTablePerm, Y!encodeShuffleTablePerm, W!encodeShuffleTablePermBE,
  Y!encodeShuffleTablePermBE, W!Platforms, Y!Platforms, W!hasEncodeKernel,
  Y!hasEncodeKernel, W!nativeBytes, Y!nativeBytes, W!PSHUFB, Y!PSHUFB, W!VTBL, Y!VTBL,
  W!VPERM, Y!VPERM, W!VSHUFB, Y!VSHUFB, W!VRGATHER, Y!VRGATHER, W!LXVD2X, Y!LXVD2X,
  W!STXVD2X, Y!STXVD2X, W!zeroVector, Y!zeroVector, W!vrev, Y!vrev, W!loadB16,
  Y!loadB16, W!storeB16, Y!storeB16, W!encodeGroupsSSE, Y!encodeGroupsSSE,
  W!encodeGroupsNEON, Y!encodeGroupsNEON, W!encodeGroupsVSX, Y!encodeGroupsVSX,
  W!encodeGroupsVX, Y!encodeGroupsVX, W!encodeGroupsRVV, Y!encodeGroupsRVV,
  W!encodeGroupsLSX, Y!encodeGroupsLSX, W!encodeGroup, Y!encodeGroup

-----------------------------------------------------------------------------
(* A step of the first call is a step of a call that is alone.             *)

\* A byte of the buffer that is not behind the second block's beginning.
Own(i) == wpc = "idle" \/ i < second

\* The buffer, and the place of the second block in it: behind all that the first
\* call may still write, or has written.
Placed ==
  /\ dst \in [0 .. len + wide - 1 -> Byte]
  /\ second \in Nat
  /\ pc # "idle" => len = Room
  /\ wpc # "idle" =>
       /\ pc # "idle" /\ wlen = Room - second
       /\ second >= EncodedMaxLen(n) \/ (pc = "returned" /\ second >= ret)
       /\ wdst = [i \in 0 .. wlen + wide - 1 |-> dst[second + i]]

\* What a step of the first call does to the buffer shows in shadow on its side of
\* the second block.
LEMMA ShadowNext ==
  ASSUME DOMAIN dst' = DOMAIN dst, UNCHANGED <<wpc, second, wold>>
  PROVE  /\ DOMAIN shadow = DOMAIN dst
         /\ shadow' = [i \in DOMAIN shadow |-> IF Own(i) THEN dst'[i] ELSE shadow[i]]
         /\ \A i \in DOMAIN dst : Own(i) => shadow[i] = dst[i]
<1>1. shadow' = [i \in DOMAIN dst |-> IF Own(i) THEN dst'[i] ELSE wold[i - second]]
  BY DEF shadow, Own
<1>2. /\ DOMAIN shadow = DOMAIN dst
      /\ \A i \in DOMAIN dst : shadow[i] = IF Own(i) THEN dst[i] ELSE wold[i - second]
  BY DEF shadow, Own
<1> QED BY <1>1, <1>2

LEMMA MaxLenIsNat ==
  ASSUME NEW m \in Nat
  PROVE  EncodedMaxLen(m) \in Nat
BY DEF EncodedMaxLen, controlLen

\* Where the first call is, and where its next step may write.
LEMMA FirstNumbers ==
  ASSUME X!IndInv, X!MaxLenInv
  PROVE  /\ n \in Nat /\ len \in Nat /\ g \in Nat /\ off \in Nat /\ safe \in Nat
         /\ c \in Nat /\ ki \in Nat /\ dp \in Nat /\ ret \in Nat
         /\ cl \in Nat /\ groups \in Nat /\ groups <= cl
         /\ src \in [0 .. n - 1 -> Value]
         /\ shadow \in [0 .. len + wide - 1 -> Byte]
         /\ pc \in {"scan", "kernel", "tail"} =>
              0 < n /\ cl <= len /\ EncodedMaxLen(n) = cl + 4 * n
         /\ pc = "kernel" /\ g < safe => g < cl /\ cl + off + 16 <= EncodedMaxLen(n)
         /\ pc = "tail" => ki < cl
         /\ pc = "tail" /\ c < n => cl + dp + 4 <= EncodedMaxLen(n)
<1>1. X!TypeOK /\ X!Entered /\ X!TailCursor /\ X!KernelCursor
  BY DEF X!IndInv
<1>2. /\ n \in Nat /\ len \in Nat /\ g \in Nat /\ off \in Nat /\ safe \in Nat
      /\ c \in Nat /\ ki \in Nat /\ dp \in Nat /\ ret \in Nat
      /\ src \in [0 .. n - 1 -> Value] /\ shift \in {0, 2, 4, 6, 8}
      /\ shadow \in [0 .. len + wide - 1 -> Byte]
  BY <1>1, SameFormat DEF X!TypeOK
<1>3. /\ cl \in Nat /\ groups \in Nat /\ groups <= cl /\ n <= 4 * cl /\ 4 * groups <= n
  BY <1>2, Counts
<1>4. pc \in {"scan", "kernel", "tail"} => 0 < n /\ cl <= len /\ EncodedMaxLen(n) = cl + 4 * n
  BY <1>1, <1>2, MaxLenValue, SameCounts DEF X!Entered
<1>5. pc = "kernel" /\ g < safe => g < cl /\ cl + off + 16 <= EncodedMaxLen(n)
  <2>1. pc = "kernel" => safe <= groups /\ off <= 16 * g
    BY <1>1, SameCounts, SameFormat DEF X!KernelCursor, X!MaxLenInv, wide
  <2> QED BY <1>2, <1>3, <1>4, <2>1
<1>6. pc = "tail" => ki < cl
  <2>1. pc = "tail" => shift = 2 * (c - 4 * ki) /\ c <= n /\ (shift = 0 => c < n)
    BY <1>1 DEF X!TailCursor
  <2> QED BY <1>2, <1>3, <2>1
<1>7. pc = "tail" /\ c < n => cl + dp + 4 <= EncodedMaxLen(n)
  <2>1. pc = "tail" => dp <= 4 * c
    BY DEF X!MaxLenInv
  <2> QED BY <1>2, <1>3, <1>4, <2>1
<1> QED BY <1>2, <1>3, <1>4, <1>5, <1>6, <1>7

\* Steps of Encode that do not name dst.
LEMMA SameEnds ==
  /\ X!Panic <=> Panic
  /\ \A r : X!Return(r) <=> Return(r)
  /\ \A d, m : X!HandOver(d, m) <=> HandOver(d, m)
  /\ X!InEncode <=> InEncode
BY Zenon DEF X!Panic, Panic, X!Return, Return, X!HandOver, HandOver, X!InEncode, InEncode,
   X!callVars, callVars, X!groupVars, groupVars, X!tailVars, tailVars, X!groupSize,
   groupSize, X!cl, cl, X!controlLen, controlLen, X!maxLen, maxLen, X!asInt, asInt,
   X!EncodedMaxLen, EncodedMaxLen

LEMMA PlainAlone ==
  ASSUME Step, UNCHANGED <<dst, wpc, second, wold>>,
         ~ScanGroup, ~KernelGroup, ~TailInt, ~TailPanic, ~TailDone
  PROVE  X!Step /\ UNCHANGED shadow
<1>1. shadow' = shadow
  BY DEF shadow
<1>2. CASE EncodeEmpty \/ EncodeTooShort \/ SlicePanic
  BY <1>1, <1>2, SameEnds, SameCounts
     DEF EncodeEmpty, X!EncodeEmpty, EncodeTooShort, X!EncodeTooShort, SlicePanic,
         X!SlicePanic, tailVars, X!tailVars, X!Step
<1>3. CASE BeginScalar \/ BeginScan
  BY <1>1, <1>3, SameEnds, SameCounts, SameKernel
     DEF BeginScalar, X!BeginScalar, BeginScan, X!BeginScan, callVars, X!callVars,
         tailVars, X!tailVars, X!Step
<1>4. CASE ScanToKernel \/ ScanToTail
  BY <1>1, <1>4, SameEnds, SameCounts
     DEF ScanToKernel, X!ScanToKernel, ScanToTail, X!ScanToTail, callVars, X!callVars,
         tailVars, X!tailVars, X!Step
<1>5. CASE KernelToTail
  BY <1>1, <1>5, SameEnds DEF KernelToTail, X!KernelToTail, X!Step
<1> QED BY <1>1, <1>2, <1>3, <1>4, <1>5 DEF Step

\* The second block begins behind the steps of the first call.
LEMMA RunsBefore ==
  ASSUME Placed, pc \in {"entry", "scan", "kernel", "tail"}, n \in Nat
  PROVE  /\ \A i \in Int : i < EncodedMaxLen(n) => Own(i)
         /\ \A i \in Int : ~Own(i) => i >= EncodedMaxLen(n)
<1>1. EncodedMaxLen(n) \in Nat
  BY DEF EncodedMaxLen, controlLen
<1>2. wpc # "idle" => second >= EncodedMaxLen(n) /\ second \in Nat
  BY DEF Placed
<1> HIDE DEF EncodedMaxLen
<1> QED BY <1>1, <1>2 DEF Own

LEMMA ScanAlone ==
  ASSUME Placed, X!IndInv, X!MaxLenInv, ScanGroup, UNCHANGED <<wpc, second, wold>>
  PROVE  /\ X!ScanGroup /\ DOMAIN dst' = DOMAIN dst
         /\ \A i \in DOMAIN dst : ~Own(i) => dst'[i] = dst[i]
<1> DEFINE k == controlByte(src[4 * g], src[4 * g + 1], src[4 * g + 2], src[4 * g + 3])
<1>1. pc = "scan" /\ g < groups /\ dst' = [dst EXCEPT ![g] = k]
  BY DEF ScanGroup
<1> HIDE DEF k
<1>2. /\ n \in Nat /\ g \in Nat /\ groups \in Nat /\ groups <= cl /\ cl \in Nat
      /\ EncodedMaxLen(n) = cl + 4 * n
  BY <1>1, FirstNumbers
<1>3. Own(g)
  <2>1. g < EncodedMaxLen(n)
    BY <1>1, <1>2
  <2> QED BY <1>1, <1>2, <2>1, RunsBefore
<1>4. DOMAIN dst' = DOMAIN dst /\ \A i \in DOMAIN dst : ~Own(i) => dst'[i] = dst[i]
  BY <1>1, <1>3
<1>5. shadow' = [shadow EXCEPT ![g] = k]
  <2>1. /\ DOMAIN shadow = DOMAIN dst
        /\ shadow' = [i \in DOMAIN shadow |-> IF Own(i) THEN dst'[i] ELSE shadow[i]]
        /\ \A i \in DOMAIN dst : Own(i) => shadow[i] = dst[i]
    BY <1>4, ShadowNext
  <2>2. \A i \in DOMAIN shadow :
          (IF Own(i) THEN dst'[i] ELSE shadow[i]) = (IF i = g THEN k ELSE shadow[i])
    BY <1>1, <1>3, <2>1
  <2>3. shadow' = [i \in DOMAIN shadow |-> IF i = g THEN k ELSE shadow[i]]
    BY <2>1, <2>2
  <2>4. [shadow EXCEPT ![g] = k] = [i \in DOMAIN shadow |-> IF i = g THEN k ELSE shadow[i]]
    OBVIOUS
  <2> QED BY <2>3, <2>4
<1>6. /\ X!groups = groups /\ X!WideFits = WideFits /\ X!lengthTable = lengthTable
      /\ X!controlByte(src[4 * g], src[4 * g + 1], src[4 * g + 2], src[4 * g + 3]) = k
      /\ \A kk, lane : X!cursor(kk, lane) = cursor(kk, lane)
  BY SameTables, SameCounts DEF k
<1>7. X!ScanGroup
  BY Zenon, <1>5, <1>6
     DEF ScanGroup, X!ScanGroup, callVars, X!callVars, tailVars, X!tailVars, k
<1> QED BY <1>4, <1>7

LEMMA KernelAlone ==
  ASSUME Placed, X!IndInv, X!MaxLenInv, KernelGroup, UNCHANGED <<wpc, second, wold>>
  PROVE  /\ X!KernelGroup /\ DOMAIN dst' = DOMAIN dst
         /\ \A i \in DOMAIN dst : ~Own(i) => dst'[i] = dst[i]
<1> DEFINE vals == [lane \in Lane |-> src[4 * g + lane]]
<1>1. PICK tail \in TailBytes :
        dst' = wideStore(encodeGroup(platform, dst[g], vals, tail), off)
  BY DEF KernelGroup
<1> DEFINE w == encodeGroup(platform, dst[g], vals, tail)
           S == cl + off .. cl + off + wide - 1
<1>2. /\ n \in Nat /\ g \in Nat /\ off \in Nat /\ cl \in Nat /\ len \in Nat /\ g < cl /\ cl <= len
      /\ EncodedMaxLen(n) = cl + 4 * n /\ cl + off + 16 <= EncodedMaxLen(n)
      /\ pc = "kernel"
  BY FirstNumbers DEF KernelGroup
<1>3. Own(g) /\ g \in DOMAIN dst
  <2>1. g < EncodedMaxLen(n)
    BY <1>2
  <2>2. g \in 0 .. len + wide - 1
    BY <1>2 DEF wide
  <2> QED BY <1>2, <2>1, <2>2, RunsBefore DEF Placed
<1>4. \A i \in S : Own(i)
  <2>1. \A i \in S : i \in Int /\ i < EncodedMaxLen(n)
    BY <1>2 DEF wide
  <2> QED BY <1>2, <2>1, RunsBefore
<1>5. /\ dst' = [i \in DOMAIN dst |-> IF i \in S THEN w[i - (cl + off)] ELSE dst[i]]
  BY <1>1 DEF wideStore
<1> HIDE DEF w, S
<1>6. DOMAIN dst' = DOMAIN dst /\ \A i \in DOMAIN dst : ~Own(i) => dst'[i] = dst[i]
  BY <1>4, <1>5
<1>7. /\ shadow' = [i \in DOMAIN shadow |-> IF i \in S THEN w[i - (cl + off)] ELSE shadow[i]]
      /\ shadow[g] = dst[g]
  <2>1. /\ DOMAIN shadow = DOMAIN dst
        /\ shadow' = [i \in DOMAIN shadow |-> IF Own(i) THEN dst'[i] ELSE shadow[i]]
        /\ \A i \in DOMAIN dst : Own(i) => shadow[i] = dst[i]
    BY <1>6, ShadowNext
  <2>2. \A i \in DOMAIN shadow : (IF Own(i) THEN dst'[i] ELSE shadow[i])
                               = (IF i \in S THEN w[i - (cl + off)] ELSE shadow[i])
    BY <1>4, <1>5, <2>1
  <2> QED BY <1>3, <2>1, <2>2
<1>8. X!encodeGroup(platform, shadow[g], [lane \in X!Lane |-> src[4 * g + lane]], tail) = w
  BY <1>7, SameKernel, SameFormat DEF w
<1>9. shadow' = X!wideStore(X!encodeGroup(platform, shadow[g],
                                         [lane \in X!Lane |-> src[4 * g + lane]], tail), off)
  BY <1>7, <1>8, SameCounts, SameFormat DEF X!wideStore, S
<1>10. X!KernelGroup
  <2>1. off' = off + X!lengthTable[shadow[g]]
    BY <1>7, SameTables DEF KernelGroup
  <2> QED BY Zenon, <1>9, <2>1
          DEF KernelGroup, X!KernelGroup, callVars, X!callVars, tailVars, X!tailVars
<1> QED BY <1>6, <1>10

LEMMA TailBytesAlone ==
  ASSUME Placed, X!IndInv, X!MaxLenInv, pc = "tail", c < n, dst' = TailBytesWritten,
         UNCHANGED <<wpc, second, wold>>
  PROVE  /\ shadow' = X!TailBytesWritten /\ DOMAIN dst' = DOMAIN dst
         /\ \A i \in DOMAIN dst : ~Own(i) => dst'[i] = dst[i]
<1> DEFINE S == cl + dp .. cl + dp + code(src[c])
           b(i) == src[c][i - (cl + dp)]
<1>1. /\ n \in Nat /\ c \in Nat /\ ki \in Nat /\ dp \in Nat /\ cl \in Nat /\ ki < cl
      /\ EncodedMaxLen(n) = cl + 4 * n /\ cl + dp + 4 <= EncodedMaxLen(n)
      /\ src \in [0 .. n - 1 -> Value]
  BY FirstNumbers
<1>2. Own(ki)
  <2>1. ki < EncodedMaxLen(n)
    BY <1>1
  <2> QED BY <1>1, <2>1, RunsBefore
<1>3. \A i \in S : Own(i)
  <2>1. code(src[c]) \in 0 .. 3
    <3>1. c \in 0 .. n - 1
      BY <1>1
    <3> QED BY <1>1, <3>1, CodeType DEF Lane
  <2>2. \A i \in S : i \in Int /\ i < EncodedMaxLen(n)
    BY <1>1, <2>1
  <2> QED BY <1>1, <2>2, RunsBefore
<1>4. dst' = [i \in DOMAIN dst |-> IF Flush /\ i = ki THEN key
                                   ELSE IF i \in S /\ i < len THEN b(i) ELSE dst[i]]
  BY DEF TailBytesWritten
<1> HIDE DEF S, b
<1>5. DOMAIN dst' = DOMAIN dst /\ \A i \in DOMAIN dst : ~Own(i) => dst'[i] = dst[i]
  BY <1>2, <1>3, <1>4
<1>6. shadow' = [i \in DOMAIN shadow |-> IF Flush /\ i = ki THEN key
                                         ELSE IF i \in S /\ i < len THEN b(i) ELSE shadow[i]]
  <2>1. /\ DOMAIN shadow = DOMAIN dst
        /\ shadow' = [i \in DOMAIN shadow |-> IF Own(i) THEN dst'[i] ELSE shadow[i]]
        /\ \A i \in DOMAIN dst : Own(i) => shadow[i] = dst[i]
    BY <1>5, ShadowNext
  <2>2. \A i \in DOMAIN shadow :
          (IF Own(i) THEN dst'[i] ELSE shadow[i])
            = (IF Flush /\ i = ki THEN key
               ELSE IF i \in S /\ i < len THEN b(i) ELSE shadow[i])
    BY <1>2, <1>3, <1>4, <2>1
  <2> QED BY <2>1, <2>2
<1>7. X!cl = cl /\ X!Flush = Flush /\ X!code(src[c]) = code(src[c])
  BY SameCounts, SameFormat
<1> QED BY <1>5, <1>6, <1>7 DEF X!TailBytesWritten, S, b

LEMMA TailAlone ==
  ASSUME Placed, X!IndInv, X!MaxLenInv, TailInt \/ TailPanic \/ TailDone,
         UNCHANGED <<wpc, second, wold>>
  PROVE  /\ X!TailInt \/ X!TailPanic \/ X!TailDone
         /\ DOMAIN dst' = DOMAIN dst
         /\ \A i \in DOMAIN dst : ~Own(i) => dst'[i] = dst[i]
<1>1. CASE TailInt \/ TailPanic
  <2>1. pc = "tail" /\ c < n /\ dst' = TailBytesWritten
    BY <1>1 DEF TailInt, TailPanic
  <2>2. /\ shadow' = X!TailBytesWritten /\ DOMAIN dst' = DOMAIN dst
        /\ \A i \in DOMAIN dst : ~Own(i) => dst'[i] = dst[i]
    BY <2>1, TailBytesAlone
  <2>3. /\ X!FitsInt = FitsInt /\ X!Flush = Flush /\ X!NextShift = NextShift
        /\ X!code(src[c]) = code(src[c]) /\ (X!Panic <=> Panic)
        /\ X!shiftLeft(code(src[c]), shift) = shiftLeft(code(src[c]), shift)
    BY SameCounts, SameFormat, SameEnds
  <2>4. TailInt => X!TailInt
    BY Zenon, <2>2, <2>3 DEF TailInt, X!TailInt, callVars, X!callVars, groupVars, X!groupVars
  <2>5. TailPanic => X!TailPanic
    BY Zenon, <2>2, <2>3 DEF TailPanic, X!TailPanic, tailVars, X!tailVars
  <2> QED BY <1>1, <2>2, <2>4, <2>5
<1>2. CASE TailDone
  <2>1. pc = "tail" /\ dst' = [dst EXCEPT ![ki] = key] /\ Return(cl + dp)
    BY <1>2 DEF TailDone
  <2>2. n \in Nat /\ ki \in Nat /\ cl \in Nat /\ ki < cl /\ EncodedMaxLen(n) = cl + 4 * n
    BY <2>1, FirstNumbers
  <2>3. Own(ki)
    <3>1. ki < EncodedMaxLen(n)
      BY <2>2
    <3> QED BY <2>1, <2>2, <3>1, RunsBefore
  <2>4. DOMAIN dst' = DOMAIN dst /\ \A i \in DOMAIN dst : ~Own(i) => dst'[i] = dst[i]
    BY <2>1, <2>3
  <2>5. shadow' = [shadow EXCEPT ![ki] = key]
    <3>1. /\ DOMAIN shadow = DOMAIN dst
          /\ shadow' = [i \in DOMAIN shadow |-> IF Own(i) THEN dst'[i] ELSE shadow[i]]
          /\ \A i \in DOMAIN dst : Own(i) => shadow[i] = dst[i]
      BY <2>4, ShadowNext
    <3>2. \A i \in DOMAIN shadow :
            (IF Own(i) THEN dst'[i] ELSE shadow[i]) = (IF i = ki THEN key ELSE shadow[i])
      BY <2>1, <2>3, <3>1
    <3>3. [shadow EXCEPT ![ki] = key]
            = [i \in DOMAIN shadow |-> IF i = ki THEN key ELSE shadow[i]]
      OBVIOUS
    <3> QED BY <3>1, <3>2, <3>3
  <2>6. X!Return(X!cl + dp)
    BY <2>1, SameEnds, SameCounts
  <2> QED BY <1>2, <2>4, <2>5, <2>6 DEF TailDone, X!TailDone, tailVars, X!tailVars
<1> QED BY <1>1, <1>2

\* Any step: the first call does what it would do alone, and touches nothing
\* behind the second block's beginning.
LEMMA FirstAlone ==
  ASSUME Placed, X!IndInv, X!MaxLenInv, Step, UNCHANGED <<wpc, second, wold>>
  PROVE  /\ X!Step /\ DOMAIN dst' = DOMAIN dst
         /\ \A i \in DOMAIN dst : ~Own(i) => dst'[i] = dst[i]
<1>1. CASE ScanGroup
  BY <1>1, ScanAlone DEF X!Step
<1>2. CASE KernelGroup
  BY <1>2, KernelAlone DEF X!Step
<1>3. CASE TailInt \/ TailPanic \/ TailDone
  BY <1>3, TailAlone DEF X!Step
<1>4. CASE ~ScanGroup /\ ~KernelGroup /\ ~TailInt /\ ~TailPanic /\ ~TailDone
  <2>1. dst' = dst
    BY <1>4 DEF Step, EncodeEmpty, EncodeTooShort, SlicePanic, BeginScalar, BeginScan,
                ScanToKernel, ScanToTail, KernelToTail
  <2> QED BY <1>4, <2>1, PlainAlone
<1> QED BY <1>1, <1>2, <1>3, <1>4

-----------------------------------------------------------------------------
(* Both calls keep their invariants.                                       *)

LEMMA StepKeeps ==
  ASSUME Step
  PROVE  /\ pc \in {"entry", "scan", "kernel", "tail"} /\ pc' # "idle"
         /\ UNCHANGED <<platform, public, src, n, len, old>>
BY DEF Step, EncodeEmpty, EncodeTooShort, SlicePanic, BeginScalar, BeginScan, ScanGroup,
       ScanToKernel, ScanToTail, KernelGroup, KernelToTail, TailInt, TailPanic, TailDone,
       InEncode, Panic, Return, HandOver, callVars

LEMMA SecondKeeps ==
  ASSUME W!Step
  PROVE  wpc # "idle" /\ wpc' # "idle" /\ UNCHANGED <<wn, wlen, wold>>
BY DEF W!Step, W!EncodeEmpty, W!EncodeTooShort, W!SlicePanic, W!BeginScalar, W!BeginScan,
       W!ScanGroup, W!ScanToKernel, W!ScanToTail, W!KernelGroup, W!KernelToTail, W!TailInt,
       W!TailPanic, W!TailDone, W!InEncode, W!Panic, W!Return, W!HandOver, W!callVars

\* The array stays a function: not a matter of course for a variable.
LEMMA StepFunction ==
  ASSUME Step, dst = [i \in DOMAIN dst |-> dst[i]]
  PROVE  dst' = [i \in DOMAIN dst' |-> dst'[i]]
<1>1. CASE dst' = dst
  BY <1>1
<1>2. CASE ScanGroup
  <2>1. \E k, v : dst' = [dst EXCEPT ![k] = v]
    BY <1>2 DEF ScanGroup
  <2> QED BY <2>1
<1>3. CASE KernelGroup
  <2>1. \E w : dst' = wideStore(w, off)
    BY <1>3 DEF KernelGroup
  <2> QED BY <2>1 DEF wideStore
<1>4. CASE TailInt \/ TailPanic
  <2>1. dst' = TailBytesWritten
    BY <1>4 DEF TailInt, TailPanic
  <2> QED BY <2>1 DEF TailBytesWritten
<1>5. CASE TailDone
  <2>1. \E k, v : dst' = [dst EXCEPT ![k] = v]
    BY <1>5 DEF TailDone
  <2> QED BY <2>1
<1> QED BY <1>1, <1>2, <1>3, <1>4, <1>5
        DEF Step, EncodeEmpty, EncodeTooShort, SlicePanic, BeginScalar, BeginScan,
            ScanToKernel, ScanToTail, KernelToTail

\* A call as if it were alone, apart from the bytes of its data stream.
FirstInv  == X!IndInv /\ X!MaxLenInv /\ X!LayoutInv
SecondInv == Y!IndInv /\ Y!LayoutInv

\* The blocks lie apart, and each call is in a state that Encode could be in alone.
SBInv == Placed /\ FirstInv /\ SecondInv

LEMMA FirstKeepsInv ==
  ASSUME FirstInv, [X!Next]_X!vars
  PROVE  FirstInv'
<1>1. X!IndInv'
  BY AssumptionsX, X!NextInv DEF FirstInv
<1>2. X!MaxLenInv'
  BY AssumptionsX, X!NextMaxLen DEF FirstInv
<1>3. X!LayoutInv'
  BY <1>1, AssumptionsX, X!NextLayout DEF FirstInv
<1> QED BY <1>1, <1>2, <1>3 DEF FirstInv

LEMMA SecondKeepsInv ==
  ASSUME SecondInv, [Y!Next]_Y!vars
  PROVE  SecondInv'
<1>1. Y!IndInv'
  BY AssumptionsY, Y!NextInv DEF SecondInv
<1>2. Y!LayoutInv'
  BY <1>1, AssumptionsY, Y!NextLayout DEF SecondInv
<1> QED BY <1>1, <1>2 DEF SecondInv

LEMMA InitBoth ==
  ASSUME SBInit
  PROVE  X!Init /\ Y!Init /\ Placed
<1>1. Init /\ Y!Init /\ second = 0 /\ wpc = "idle"
  BY SameSecond DEF SBInit, Y!Init
<1>2. shadow = dst
  BY <1>1 DEF shadow, Init
<1>3. X!Init
  BY <1>1, <1>2, SameFormat DEF Init, X!Init
<1>4. Placed
  <2>1. dst = [i \in 0 .. wide - 1 |-> 0] /\ len = 0 /\ pc = "idle"
    BY <1>1 DEF Init
  <2>2. dst \in [0 .. len + wide - 1 -> Byte]
    BY <2>1 DEF Byte, wide
  <2> QED BY <1>1, <2>1, <2>2 DEF Placed
<1> QED BY <1>1, <1>3, <1>4

\* The first call gets a buffer of bytes.
LEMMA FirstCallAlone ==
  ASSUME Placed, FirstCall
  PROVE  /\ \E k \in Lengths : X!CallOn(k, Room)
         /\ shadow' \in [0 .. Room + wide - 1 -> Byte]
         /\ UNCHANGED Y!vars /\ Placed'
<1>1. /\ pc = "idle" /\ wpc = "idle" /\ pc' = "entry" /\ len' = Room /\ second \in Nat
      /\ dst' \in [0 .. Room + wide - 1 -> Byte]
      /\ UNCHANGED <<wOtherVars, wdst, second>>
  BY InputAssumption DEF Placed, FirstCall, CallOn
<1>2. wpc' = wpc
  BY <1>1 DEF wOtherVars
<1>3. shadow' = dst'
  <2>1. shadow' = [i \in DOMAIN dst' |-> dst'[i]]
    BY <1>1, <1>2 DEF shadow
  <2> QED BY <1>1, <2>1
<1>4. PICK k \in Lengths : CallOn(k, Room)
  BY DEF FirstCall
<1>5. X!CallOn(k, Room)
  BY <1>3, <1>4 DEF CallOn, X!CallOn, groupVars, X!groupVars, tailVars, X!tailVars
<1>6. UNCHANGED Y!vars
  BY <1>1 DEF wOtherVars, wCallVars, Y!vars, Y!callVars, Y!groupVars, Y!tailVars
<1>7. Placed'
  BY <1>1, <1>2 DEF Placed, wide
<1> QED BY <1>1, <1>3, <1>5, <1>6, <1>7

\* A step of the first call keeps the second block.
LEMMA FirstStepAlone ==
  ASSUME Placed, FirstInv, FirstStep
  PROVE  X!Step /\ UNCHANGED Y!vars
<1>1. /\ Step /\ UNCHANGED <<wOtherVars, second>>
      /\ wdst' = IF wpc = "idle" THEN wdst ELSE [i \in DOMAIN wdst |-> dst'[second + i]]
  BY DEF FirstStep
<1>2. UNCHANGED <<wpc, wlen, wold, second>>
  BY <1>1 DEF wOtherVars, wCallVars
<1>3. /\ X!Step /\ DOMAIN dst' = DOMAIN dst
      /\ \A i \in DOMAIN dst : ~Own(i) => dst'[i] = dst[i]
  BY <1>1, <1>2, FirstAlone DEF FirstInv
<1>4. wdst' = wdst
  <2>1. CASE wpc = "idle"
    BY <1>1, <2>1
  <2>2. CASE wpc # "idle"
    <3>1. /\ second \in Nat /\ wlen = Room - second /\ len = Room
          /\ DOMAIN dst = 0 .. len + 15
          /\ wdst = [i \in 0 .. wlen + 15 |-> dst[second + i]]
      BY <2>2 DEF Placed, wide
    <3>2. wdst' = [i \in 0 .. wlen + 15 |-> dst'[second + i]]
      BY <1>1, <2>2, <3>1
    <3>3. \A i \in 0 .. wlen + 15 : second + i \in DOMAIN dst /\ ~(second + i < second)
      BY <3>1, RoomAssumption
    <3>4. \A i \in 0 .. wlen + 15 : dst'[second + i] = dst[second + i]
      BY <1>3, <2>2, <3>3 DEF Own
    <3> QED BY <3>1, <3>2, <3>4
  <2> QED BY <2>1, <2>2
<1>5. UNCHANGED Y!vars
  BY <1>1, <1>4 DEF wOtherVars, wCallVars, Y!vars, Y!callVars, Y!groupVars, Y!tailVars
<1> QED BY <1>3, <1>5

LEMMA FirstStepPlaced ==
  ASSUME Placed, FirstInv, X!IndInv', FirstStep
  PROVE  Placed'
<1>1. /\ Step /\ UNCHANGED <<wOtherVars, second>>
      /\ wdst' = IF wpc = "idle" THEN wdst ELSE [i \in DOMAIN wdst |-> dst'[second + i]]
  BY DEF FirstStep
<1>2. UNCHANGED <<wpc, wlen, wold, second>>
  BY <1>1 DEF wOtherVars, wCallVars
<1>3. /\ pc \in {"entry", "scan", "kernel", "tail"} /\ pc' # "idle" /\ n' = n /\ len' = len
  BY <1>1, StepKeeps
<1>4. /\ DOMAIN dst' = DOMAIN dst
      /\ \A i \in DOMAIN dst : ~Own(i) => dst'[i] = dst[i]
  BY <1>1, <1>2, FirstAlone DEF FirstInv
<1>5. dst' \in [0 .. len + wide - 1 -> Byte]
  <2>1. dst \in [0 .. len + wide - 1 -> Byte]
    BY DEF Placed
  <2>2. dst' = [i \in DOMAIN dst' |-> dst'[i]]
    BY <1>1, <2>1, StepFunction
  <2>3. shadow' \in [0 .. len + wide - 1 -> Byte]
    BY <1>3, SameFormat DEF X!IndInv, X!TypeOK
  <2>4. shadow' = [i \in DOMAIN shadow |-> IF Own(i) THEN dst'[i] ELSE shadow[i]]
    BY <1>2, <1>4, ShadowNext
  <2>5. \A i \in DOMAIN dst : dst'[i] \in Byte
    <3>1. DOMAIN shadow = DOMAIN dst
      BY <1>2, <1>4, ShadowNext
    <3> TAKE i \in DOMAIN dst
    <3>2. CASE Own(i)
      BY <2>1, <2>3, <2>4, <3>1, <3>2
    <3>3. CASE ~Own(i)
      BY <1>4, <2>1, <3>3
    <3> QED BY <3>2, <3>3
  <2> QED BY <1>4, <2>1, <2>2, <2>5
<1>6. wpc # "idle" => wdst' = [i \in 0 .. wlen + wide - 1 |-> dst'[second + i]]
  BY <1>1 DEF Placed
<1> QED BY <1>2, <1>3, <1>5, <1>6 DEF Placed

\* The second call begins with the bytes that are there, and that the first call,
\* were it alone, would keep.
LEMMA SecondCallAlone ==
  ASSUME Placed, FirstInv, SecondCall
  PROVE  /\ \E k \in Lengths : Y!CallOn(k, Room - second')
         /\ Room - second' \in Nat
         /\ wdst' \in [0 .. Room - second' + wide - 1 -> Byte]
         /\ UNCHANGED X!vars /\ Placed'
<1>1. /\ wpc = "idle" /\ pc # "idle" /\ second' <= Room /\ UNCHANGED vars
      /\ second' = EncodedMaxLen(n) \/ (pc = "returned" /\ second' = ret)
      /\ wdst' = [i \in 0 .. Room - second' + wide - 1 |-> dst[second' + i]]
  BY DEF SecondCall, PlaceBehindMaxLen, PlaceBehindReturned
<1>2. second' \in Nat
  <2>1. n \in Nat /\ ret \in Nat
    BY FirstNumbers DEF FirstInv
  <2>2. EncodedMaxLen(n) \in Nat
    BY <2>1, MaxLenIsNat
  <2> QED BY <1>1, <2>1, <2>2
<1>3. PICK k \in Lengths : W!CallOn(k, Room - second')
  BY DEF SecondCall
<1>4. Y!CallOn(k, Room - second')
  BY <1>3, SameSecond
<1>5. wpc' = "entry" /\ wlen' = Room - second' /\ wold' = wdst'
  BY <1>3 DEF W!CallOn
<1>6. UNCHANGED <<pc, n, len, ret, dst>>
  BY <1>1 DEF vars, callVars
<1>7. dst \in [0 .. Room + 15 -> Byte] /\ len = Room
  BY <1>1 DEF Placed, wide
<1>8. Room - second' \in Nat /\ \A i \in 0 .. Room - second' + 15 : second' + i \in 0 .. Room + 15
  <2>1. \A s, r \in Nat : s <= r =>
          r - s \in Nat /\ \A i \in 0 .. r - s + 15 : s + i \in 0 .. r + 15
    OBVIOUS
  <2> QED BY <1>1, <1>2, <2>1, RoomAssumption
<1>9. wdst' \in [0 .. Room - second' + wide - 1 -> Byte]
  <2>1. wdst' = [i \in 0 .. Room - second' + 15 |-> dst[second' + i]]
    BY <1>1 DEF wide
  <2>2. \A i \in 0 .. Room - second' + 15 : dst[second' + i] \in Byte
    BY <1>7, <1>8
  <2>3. Room - second' + wide - 1 = Room - second' + 15
    BY <1>8 DEF wide
  <2> QED BY <2>1, <2>2, <2>3
<1>10. shadow' = shadow
  <2>1. shadow = [i \in DOMAIN dst |-> dst[i]]
    BY <1>1 DEF shadow
  <2>2. shadow' = [i \in DOMAIN dst |-> IF i < second' THEN dst[i] ELSE wdst'[i - second']]
    BY <1>5, <1>6 DEF shadow
  <2>3. \A i \in DOMAIN dst : ~(i < second') => wdst'[i - second'] = dst[i]
    <3> TAKE i \in DOMAIN dst
    <3> HAVE ~(i < second')
    <3>1. i \in 0 .. Room + 15
      BY <1>7
    <3>2. \A s, r, j \in Nat : j <= r + 15 /\ ~(j < s) =>
            j - s \in 0 .. r - s + 15 /\ s + (j - s) = j
      OBVIOUS
    <3>3. i - second' \in 0 .. Room - second' + 15 /\ second' + (i - second') = i
      BY <1>2, <3>1, <3>2, RoomAssumption
    <3> QED BY <1>1, <3>3 DEF wide
  <2> QED BY <2>1, <2>2, <2>3
<1>11. UNCHANGED X!vars
  BY <1>1, <1>10 DEF vars, callVars, groupVars, tailVars, X!vars, X!callVars, X!groupVars,
                     X!tailVars
<1>12. Placed'
  <2>1. second' >= EncodedMaxLen(n) \/ (pc = "returned" /\ second' >= ret)
    <3>1. n \in Nat /\ ret \in Nat
      BY FirstNumbers DEF FirstInv
    <3>2. EncodedMaxLen(n) \in Nat
      BY <3>1, MaxLenIsNat
    <3> QED BY <1>1, <3>1, <3>2
  <2> QED BY <1>1, <1>2, <1>5, <1>6, <1>7, <2>1 DEF Placed, wide
<1> QED BY <1>4, <1>8, <1>9, <1>11, <1>12

\* A step of the second call does not show in shadow.
LEMMA SecondStepAlone ==
  ASSUME Placed, SecondStep
  PROVE  Y!Step /\ UNCHANGED X!vars
<1>1. /\ W!Step /\ UNCHANGED <<otherVars, second>>
      /\ dst' = [i \in DOMAIN dst |-> IF i < second THEN dst[i] ELSE wdst'[i - second]]
  BY DEF SecondStep
<1>2. wpc # "idle" /\ wpc' # "idle" /\ wold' = wold
  BY <1>1, SecondKeeps
<1>3. shadow' = shadow
  <2>1. shadow = [i \in DOMAIN dst |-> IF i < second THEN dst[i] ELSE wold[i - second]]
    BY <1>2 DEF shadow
  <2>2. shadow' = [i \in DOMAIN dst |-> IF i < second THEN dst'[i] ELSE wold[i - second]]
    BY <1>1, <1>2 DEF shadow
  <2>3. \A i \in DOMAIN dst : i < second => dst'[i] = dst[i]
    BY <1>1
  <2> QED BY <2>1, <2>2, <2>3
<1>4. UNCHANGED X!vars
  BY <1>1, <1>3 DEF otherVars, callVars, groupVars, tailVars, X!vars, X!callVars,
                    X!groupVars, X!tailVars
<1> QED BY <1>1, <1>4, SameSecondStep

LEMMA SecondStepPlaced ==
  ASSUME Placed, Y!IndInv', SecondStep
  PROVE  Placed'
<1>1. /\ W!Step /\ UNCHANGED <<otherVars, second>>
      /\ dst' = [i \in DOMAIN dst |-> IF i < second THEN dst[i] ELSE wdst'[i - second]]
  BY DEF SecondStep
<1>2. wpc # "idle" /\ wpc' # "idle" /\ UNCHANGED <<wn, wlen>>
  BY <1>1, SecondKeeps
<1>3. UNCHANGED <<pc, n, len, ret, second>>
  BY <1>1 DEF otherVars, callVars
<1>4. /\ pc # "idle" /\ len = Room /\ wlen = Room - second /\ second \in Nat
      /\ dst \in [0 .. Room + 15 -> Byte]
  BY <1>2 DEF Placed, wide
<1>5. wdst' \in [0 .. wlen + 15 -> Byte] /\ wlen \in Nat
  <2>1. wdst' \in [0 .. wlen' + Y!wide - 1 -> Y!Byte] /\ wlen' \in Nat
    BY DEF Y!IndInv, Y!TypeOK
  <2>2. Y!wide = 16 /\ Y!Byte = Byte
    BY DEF Y!wide, Y!Byte, Byte
  <2>3. wlen' + Y!wide - 1 = wlen + 15
    BY <1>2, <2>1, <2>2
  <2> QED BY <1>2, <2>1, <2>2, <2>3
<1>6. \A i \in 0 .. Room + 15 : i < second \/ i - second \in 0 .. wlen + 15
  BY <1>4, RoomAssumption
<1>7. dst' \in [0 .. Room + 15 -> Byte]
  BY <1>1, <1>4, <1>5, <1>6
<1>8. wdst' = [i \in 0 .. wlen + 15 |-> dst'[second + i]]
  <2>1. \A i \in 0 .. wlen + 15 : /\ second + i \in 0 .. Room + 15 /\ ~(second + i < second)
                                  /\ (second + i) - second = i
    BY <1>4, <1>5, RoomAssumption
  <2>2. \A i \in 0 .. wlen + 15 : dst'[second + i] = wdst'[i]
    BY <1>1, <1>4, <2>1
  <2> QED BY <1>5, <2>2
<1>9. dst' \in [0 .. len + wide - 1 -> Byte]
  BY <1>4, <1>7 DEF wide
<1>10. wdst' = [i \in 0 .. wlen + wide - 1 |-> dst'[second + i]]
  BY <1>5, <1>8 DEF wide
<1> QED BY <1>2, <1>3, <1>4, <1>9, <1>10 DEF Placed

-----------------------------------------------------------------------------
(* Every step of the two.                                                  *)

\* What the steps of the two calls are, to the one and to the other.
LEMMA NextAlone ==
  ASSUME SBInv, [SBNext]_allVars
  PROVE  \/ /\ \E k \in Lengths : X!CallOn(k, Room)
            /\ shadow' \in [0 .. Room + wide - 1 -> Byte]
            /\ UNCHANGED Y!vars /\ Placed'
         \/ FirstStep /\ X!Step /\ UNCHANGED Y!vars
         \/ /\ \E k \in Lengths : Y!CallOn(k, Room - second')
            /\ Room - second' \in Nat
            /\ wdst' \in [0 .. Room - second' + wide - 1 -> Byte]
            /\ UNCHANGED X!vars /\ Placed'
         \/ SecondStep /\ Y!Step /\ UNCHANGED X!vars
         \/ UNCHANGED X!vars /\ UNCHANGED Y!vars /\ Placed' /\ UNCHANGED allVars
<1>1. CASE FirstCall
  BY <1>1, FirstCallAlone DEF SBInv
<1>2. CASE FirstStep
  BY <1>2, FirstStepAlone DEF SBInv
<1>3. CASE SecondCall
  BY <1>3, SecondCallAlone DEF SBInv
<1>4. CASE SecondStep
  BY <1>4, SecondStepAlone DEF SBInv
<1>5. CASE UNCHANGED allVars
  <2>1. UNCHANGED <<vars, wOtherVars, wdst, second>>
    BY <1>5 DEF allVars
  <2>2. shadow' = shadow
    BY <2>1 DEF shadow, vars, callVars, wOtherVars, wCallVars
  <2>3. UNCHANGED X!vars
    BY <2>1, <2>2 DEF vars, callVars, groupVars, tailVars, X!vars, X!callVars, X!groupVars,
                      X!tailVars
  <2>4. UNCHANGED Y!vars
    BY <2>1 DEF wOtherVars, wCallVars, Y!vars, Y!callVars, Y!groupVars, Y!tailVars
  <2>5. Placed'
    BY <2>1 DEF SBInv, Placed, vars, callVars, wOtherVars, wCallVars
  <2> QED BY <1>5, <2>3, <2>4, <2>5
<1> QED BY <1>1, <1>2, <1>3, <1>4, <1>5 DEF SBNext, SBStop

LEMMA StepsAreNext ==
  /\ X!Step \/ UNCHANGED X!vars => [X!Next]_X!vars
  /\ Y!Step \/ UNCHANGED Y!vars => [Y!Next]_Y!vars
BY DEF X!Next, Y!Next

LEMMA NextBoth ==
  ASSUME SBInv, [SBNext]_allVars
  PROVE  SBInv'
<1>1. Placed /\ FirstInv /\ SecondInv
  BY DEF SBInv
<1>2. ASSUME NEW k \in Lengths, X!CallOn(k, Room),
             shadow' \in [0 .. Room + wide - 1 -> Byte],
             UNCHANGED Y!vars, Placed'
      PROVE  SBInv'
  <2>1. shadow' \in [0 .. Room + X!wide - 1 -> X!Byte]
    BY <1>2, SameFormat
  <2>2. X!IndInv'
    BY <1>1, <1>2, <2>1, AssumptionsX, RoomAssumption, X!CallOnInv DEF FirstInv
  <2>3. X!MaxLenInv'
    BY <1>2, AssumptionsX, X!CallMaxLen
  <2>4. X!LayoutInv'
    BY <1>1, <1>2, AssumptionsX, X!CallLayout DEF FirstInv
  <2>5. SecondInv'
    BY <1>1, <1>2, StepsAreNext, SecondKeepsInv
  <2> QED BY <1>2, <2>2, <2>3, <2>4, <2>5 DEF SBInv, FirstInv
<1>3. ASSUME FirstStep, X!Step, UNCHANGED Y!vars
      PROVE  SBInv'
  <2>1. FirstInv' /\ SecondInv'
    BY <1>1, <1>3, StepsAreNext, FirstKeepsInv, SecondKeepsInv
  <2>2. Placed'
    BY <1>1, <1>3, <2>1, FirstStepPlaced DEF FirstInv
  <2> QED BY <2>1, <2>2 DEF SBInv
<1>4. ASSUME NEW k \in Lengths, Y!CallOn(k, Room - second'), Room - second' \in Nat,
             wdst' \in [0 .. Room - second' + wide - 1 -> Byte],
             UNCHANGED X!vars, Placed'
      PROVE  SBInv'
  <2>1. wdst' \in [0 .. Room - second' + Y!wide - 1 -> Y!Byte]
    BY <1>4 DEF Y!wide, wide, Y!Byte, Byte
  <2>2. Y!IndInv'
    BY <1>1, <1>4, <2>1, AssumptionsY, Y!CallOnInv DEF SecondInv
  <2>3. Y!LayoutInv'
    BY <1>1, <1>4, AssumptionsY, Y!CallLayout DEF SecondInv
  <2>4. FirstInv'
    BY <1>1, <1>4, StepsAreNext, FirstKeepsInv
  <2> QED BY <1>4, <2>2, <2>3, <2>4 DEF SBInv, SecondInv
<1>5. ASSUME SecondStep, Y!Step, UNCHANGED X!vars
      PROVE  SBInv'
  <2>1. FirstInv' /\ SecondInv'
    BY <1>1, <1>5, StepsAreNext, FirstKeepsInv, SecondKeepsInv
  <2>2. Placed'
    BY <1>1, <1>5, <2>1, SecondStepPlaced DEF SecondInv
  <2> QED BY <2>1, <2>2 DEF SBInv
<1>6. ASSUME UNCHANGED X!vars, UNCHANGED Y!vars, Placed'
      PROVE  SBInv'
  BY <1>1, <1>6, StepsAreNext, FirstKeepsInv, SecondKeepsInv DEF SBInv
<1> QED BY <1>2, <1>3, <1>4, <1>5, <1>6, NextAlone

LEMMA InitSB == SBInit => SBInv
<1> SUFFICES ASSUME SBInit PROVE SBInv
  OBVIOUS
<1>1. X!Init /\ Y!Init /\ Placed
  BY InitBoth
<1>2. X!IndInv /\ X!MaxLenInv /\ X!LayoutInv
  BY <1>1, AssumptionsX, X!InitInv, X!InitMaxLen, X!InitLayout
<1>3. Y!IndInv /\ Y!LayoutInv
  BY <1>1, AssumptionsY, Y!InitInv, Y!InitLayout
<1> QED BY <1>1, <1>2, <1>3 DEF SBInv, FirstInv, SecondInv

LEMMA SBInvariance == SBSpec => []SBInv
BY InitSB, NextBoth, PTL DEF SBSpec

\* And the bytes of its integers are in their places.
SBContent == X!ContentInv /\ Y!ContentInv

LEMMA NextSBContent ==
  ASSUME SBInv, SBContent, [SBNext]_allVars
  PROVE  SBContent'
<1>1. FirstInv /\ SecondInv /\ X!ContentInv /\ Y!ContentInv
  BY DEF SBInv, SBContent
<1>2. ASSUME [X!Next]_X!vars PROVE X!ContentInv'
  BY <1>1, <1>2, AssumptionsX, X!NextContent DEF FirstInv
<1>3. ASSUME [Y!Next]_Y!vars PROVE Y!ContentInv'
  BY <1>1, <1>3, AssumptionsY, Y!NextContent DEF SecondInv
<1>4. ASSUME NEW k \in Lengths, X!CallOn(k, Room) PROVE X!ContentInv'
  <2>1. pc' = "entry"
    BY <1>4 DEF X!CallOn
  <2> QED BY <2>1, AssumptionsX, X!NoContent
<1>5. ASSUME NEW k \in Lengths, Y!CallOn(k, Room - second') PROVE Y!ContentInv'
  <2>1. wpc' = "entry"
    BY <1>5 DEF Y!CallOn
  <2> QED BY <2>1, AssumptionsY, Y!NoContent
<1> QED BY <1>2, <1>3, <1>4, <1>5, NextAlone, StepsAreNext DEF SBContent

LEMMA InitSBContent == SBInit => SBContent
<1> SUFFICES ASSUME SBInit PROVE SBContent
  OBVIOUS
<1>1. X!Init /\ Y!Init
  BY InitBoth
<1>2. X!ContentInv
  BY <1>1, AssumptionsX, X!InitContent
<1>3. Y!ContentInv
  BY <1>1, AssumptionsY, Y!InitContent
<1> QED BY <1>2, <1>3 DEF SBContent

LEMMA SBContentInvariance == SBSpec => []SBContent
<1>1. SBInv /\ SBContent /\ [SBNext]_allVars => SBContent'
  BY NextSBContent
<1> QED BY <1>1, InitSBContent, SBInvariance, PTL DEF SBSpec

\* Each call keeps the invariants of Encode, as if it were alone in its part of the
\* buffer.
BlocksInv == SBInv /\ SBContent

\* In whatever order their steps come, each call is in a state that Encode could be
\* in without the other, and the integers it has done are in the buffer.
THEOREM BlocksInvariance == SBSpec => []BlocksInv
BY SBInvariance, SBContentInvariance, PTL DEF BlocksInv

-----------------------------------------------------------------------------
(* What the caller gets.                                                   *)

LEMMA SameEncodes == W!EncodesSource <=> Y!EncodesSource
BY Zenon DEF W!EncodesSource, Y!EncodesSource, W!IsLayout, Y!IsLayout, W!groupKey,
   Y!groupKey, W!packed, Y!packed, W!HoldsIntegers, Y!HoldsIntegers, W!cl, Y!cl,
   W!controlLen, Y!controlLen, W!code, Y!code

LEMMA SameLayout ==
  /\ \A k : X!IsLayout(k) <=> IsLayout(k)
  /\ \A k : X!Grows(k) <=> Grows(k)
  /\ \A h : X!groupKey(h) = groupKey(h)
  /\ X!frontier = frontier /\ X!controlsWritten = controlsWritten
<1>1. \A k : X!IsLayout(k) <=> IsLayout(k)
  BY Zenon DEF X!IsLayout, IsLayout, X!code, code
<1>2. \A k : X!Grows(k) <=> Grows(k)
  BY Zenon DEF X!Grows, Grows
<1>3. \A h : X!groupKey(h) = groupKey(h)
  BY Zenon DEF X!groupKey, groupKey, X!packed, packed, X!code, code
<1>4. X!frontier = frontier /\ X!controlsWritten = controlsWritten
  BY Zenon DEF X!frontier, frontier, X!controlsWritten, controlsWritten,
     X!hasEncodeKernel, hasEncodeKernel, X!Platforms, Platforms, X!groups, groups,
     X!groupSize, groupSize
<1> QED BY <1>1, <1>2, <1>3, <1>4

\* The block of a call that has returned is in front of the second block.
LEMMA ReturnedBefore ==
  ASSUME SBInv, pc = "returned"
  PROVE  /\ n \in Nat /\ cl \in Nat /\ ret \in Nat /\ start \in [0 .. n -> Nat]
         /\ ret = cl + start[n] /\ ret <= len /\ IsLayout(n) /\ Grows(n)
         /\ \A i \in 0 .. ret - 1 : i \in DOMAIN dst /\ Own(i) /\ shadow[i] = dst[i]
<1>1. /\ Placed /\ X!TypeOK /\ X!OffsetsKnown /\ X!Consumed
  BY DEF SBInv, FirstInv, X!IndInv, X!LayoutInv
<1>2. /\ n \in Nat /\ len \in Nat /\ ret \in Nat /\ start \in [0 .. n -> Nat]
      /\ dst \in [0 .. len + wide - 1 -> Byte]
  BY <1>1 DEF X!TypeOK, Placed
<1>3. ret = cl + start[n] /\ ret <= len /\ IsLayout(n) /\ Grows(n)
  BY <1>1, SameLayout, SameCounts DEF X!OffsetsKnown, X!known, X!Consumed
<1>4. cl \in Nat
  BY <1>2, FirstNumbers DEF SBInv, FirstInv
<1>5. ret <= EncodedMaxLen(n)
  <2>1. start[n] <= 4 * n /\ start[n] \in Nat
    BY <1>2, <1>3 DEF Grows
  <2>2. CASE n = 0
    <3>1. cl = 0 /\ EncodedMaxLen(n) = 0
      BY <2>2 DEF cl, controlLen, EncodedMaxLen
    <3> QED BY <1>3, <2>1, <2>2, <3>1
  <2>3. CASE n # 0
    <3>1. EncodedMaxLen(n) = cl + 4 * n
      BY <1>2, <2>3, MaxLenValue
    <3> QED BY <1>2, <1>3, <1>4, <2>1, <3>1
  <2> QED BY <2>2, <2>3
<1>6. \A i \in 0 .. ret - 1 : i \in DOMAIN dst /\ Own(i)
  <2>1. wpc # "idle" => second >= EncodedMaxLen(n) \/ second >= ret
    BY <1>1 DEF Placed
  <2>2. second \in Nat /\ EncodedMaxLen(n) \in Nat
    BY <1>1, <1>2 DEF Placed, EncodedMaxLen, controlLen
  <2> HIDE DEF EncodedMaxLen
  <2>3. wpc # "idle" => second >= ret
    BY <1>2, <1>5, <2>1, <2>2
  <2>4. \A i \in 0 .. ret - 1 : i \in 0 .. len + wide - 1 /\ (second >= ret => i < second)
    BY <1>2, <1>3, <2>2 DEF wide
  <2> QED BY <1>2, <2>3, <2>4 DEF Own
<1>7. \A i \in DOMAIN dst : Own(i) => shadow[i] = dst[i]
  BY DEF shadow, Own
<1> QED BY <1>2, <1>3, <1>4, <1>6, <1>7

\* Whatever the other call does, a call that has returned has its block in the
\* buffer, to the last byte.
THEOREM BothBlocksAreWritten == SBSpec => []BothBlocks
<1>1. ASSUME SBInv, SBContent PROVE EncodesSource
  <2> SUFFICES ASSUME pc = "returned"
               PROVE  /\ \A h \in 0 .. cl - 1 : dst[h] = groupKey(h)
                      /\ \A i \in 0 .. n - 1 : \A j \in 0 .. code(src[i]) :
                           dst[cl + start[i] + j] = src[i][j]
    BY <1>1, ReturnedBefore DEF EncodesSource, HoldsIntegers
  <2>1. X!EncodesSource
    BY <1>1, AssumptionsX, X!FinalEncodes DEF SBInv, FirstInv, SBContent
  <2>2. /\ n \in Nat /\ cl \in Nat /\ ret \in Nat /\ start \in [0 .. n -> Nat]
        /\ ret = cl + start[n] /\ Grows(n) /\ IsLayout(n)
        /\ \A i \in 0 .. ret - 1 : shadow[i] = dst[i]
    BY <1>1, ReturnedBefore
  <2>3. /\ \A h \in 0 .. cl - 1 : shadow[h] = groupKey(h)
        /\ \A i \in 0 .. n - 1 : \A j \in 0 .. code(src[i]) :
             shadow[cl + start[i] + j] = src[i][j]
    BY <2>1, SameLayout, SameCounts, SameFormat DEF X!EncodesSource, X!HoldsIntegers
  <2>4. \A h \in 0 .. cl - 1 : h \in 0 .. ret - 1
    <3>1. start[n] \in Nat
      BY <2>2
    <3> QED BY <2>2, <3>1
  <2>5. \A i \in 0 .. n - 1 : \A j \in 0 .. code(src[i]) :
          cl + start[i] + j \in 0 .. ret - 1
    <3> TAKE i \in 0 .. n - 1
    <3> TAKE j \in 0 .. code(src[i])
    <3>1. j \in 0 .. X!code(src[i]) /\ n \in 0 .. n /\ X!TypeOK /\ X!IsLayout(n) /\ X!Grows(n)
      BY <1>1, <2>2, SameFormat, SameLayout DEF SBInv, FirstInv, X!IndInv
    <3>2. start[i] + j \in 0 .. start[n] - 1
      BY <3>1, AssumptionsX, X!BytesBefore
    <3>3. start[i] \in Nat /\ start[n] \in Nat /\ j \in Int
      BY <2>2
    <3> QED BY SMTT(40), <2>2, <3>2, <3>3
  <2> QED BY <2>2, <2>3, <2>4, <2>5
<1>2. ASSUME SBInv, SBContent PROVE W!EncodesSource
  BY <1>2, AssumptionsY, SameEncodes, Y!FinalEncodes DEF SBInv, SecondInv, SBContent
<1>3. SBInv /\ SBContent => BothBlocks
  BY <1>1, <1>2 DEF BothBlocks
<1> QED BY <1>3, SBInvariance, SBContentInvariance, PTL

\* A step of either call leaves in place what the first call has finished.
LEMMA FirstIsKept ==
  ASSUME SBInv, FirstStep \/ SecondStep
  PROVE  /\ \A i \in 0 .. frontier - 1 : dst'[cl + i] = dst[cl + i]
         /\ \A h \in 0 .. controlsWritten - 1 : dst'[h] = dst[h]
<1>1. Placed /\ FirstInv
  BY DEF SBInv
<1>2. /\ n \in Nat /\ len \in Nat /\ cl \in Nat
      /\ (pc \in {"scan", "kernel", "tail"} => cl <= len /\ EncodedMaxLen(n) = cl + 4 * n)
  BY <1>1, FirstNumbers DEF FirstInv
<1>3. /\ pc \in {"scan", "kernel", "tail"} => cl + frontier <= len
      /\ pc \notin {"scan", "kernel", "tail"} => frontier = 0 /\ controlsWritten = 0
      /\ frontier \in Nat /\ frontier <= 4 * n
      /\ controlsWritten \in Nat /\ controlsWritten <= cl
  BY <1>1, AssumptionsX, SameCounts, SameLayout, X!StreamsInside DEF FirstInv
<1> HIDE DEF EncodedMaxLen
<1>4. /\ \A i \in 0 .. frontier - 1 : cl + i \in DOMAIN dst /\ Own(cl + i)
      /\ \A h \in 0 .. controlsWritten - 1 : h \in DOMAIN dst /\ Own(h)
  <2>1. CASE pc \notin {"scan", "kernel", "tail"}
    BY <1>3, <2>1
  <2>2. CASE pc \in {"scan", "kernel", "tail"}
    <3>1. \A i \in Int : i < EncodedMaxLen(n) => Own(i)
      BY <1>1, <1>2, <2>2, RunsBefore
    <3>2. DOMAIN dst = 0 .. len + 15
      BY <1>1 DEF Placed, wide
    <3>3. \A i \in 0 .. frontier - 1 :
            cl + i \in 0 .. len + 15 /\ cl + i \in Int /\ cl + i < EncodedMaxLen(n)
      BY <1>2, <1>3, <2>2
    <3>4. \A h \in 0 .. controlsWritten - 1 :
            h \in 0 .. len + 15 /\ h \in Int /\ h < EncodedMaxLen(n)
      BY <1>2, <1>3, <2>2
    <3> QED BY <3>1, <3>2, <3>3, <3>4
  <2> QED BY <2>1, <2>2
<1>5. CASE FirstStep
  <2>1. UNCHANGED <<wpc, second, wold>> /\ Step
    BY <1>5 DEF FirstStep, wOtherVars, wCallVars
  <2>2. X!Step /\ DOMAIN dst' = DOMAIN dst
    BY <1>1, <2>1, FirstAlone DEF FirstInv
  <2>3. \A i \in DOMAIN dst : Own(i) => shadow[i] = dst[i] /\ shadow'[i] = dst'[i]
    BY <2>1, <2>2, ShadowNext
  <2>4. /\ \A i \in 0 .. frontier - 1 : shadow'[cl + i] = shadow[cl + i]
        /\ \A h \in 0 .. controlsWritten - 1 : shadow'[h] = shadow[h]
    BY <1>1, <2>2, AssumptionsX, StepsAreNext, SameCounts, SameLayout, X!NextKeepsFinal
       DEF FirstInv
  <2> QED BY <1>4, <2>3, <2>4
<1>6. CASE SecondStep
  <2>1. /\ W!Step
        /\ dst' = [i \in DOMAIN dst |-> IF i < second THEN dst[i] ELSE wdst'[i - second]]
    BY <1>6 DEF SecondStep
  <2>2. wpc # "idle"
    BY <2>1, SecondKeeps
  <2>3. \A i \in DOMAIN dst : Own(i) => dst'[i] = dst[i]
    BY <2>1, <2>2 DEF Own
  <2> QED BY <1>4, <2>3
<1> QED BY <1>5, <1>6

\* No step of either call, at any moment, writes to what the other has finished.
THEOREM NeitherDamages == SBSpec => NoDamage
<1>1. ASSUME SBInv, [SBNext]_allVars
      PROVE  [ /\ \A i \in 0 .. frontier - 1 : dst'[cl + i] = dst[cl + i]
               /\ \A h \in 0 .. controlsWritten - 1 : dst'[h] = dst[h] ]_vars
  <2>1. CASE FirstCall
    <3>1. pc = "idle"
      BY <2>1 DEF FirstCall, CallOn
    <3> QED BY <3>1 DEF frontier, controlsWritten
  <2>2. CASE FirstStep \/ SecondStep
    BY <1>1, <2>2, FirstIsKept
  <2>3. CASE SecondCall \/ UNCHANGED allVars
    BY <2>3 DEF SecondCall, allVars
  <2> QED BY <1>1, <2>1, <2>2, <2>3 DEF SBNext, SBStop
<1>2. ASSUME SBInv, [SBNext]_allVars
      PROVE  [ /\ \A i \in 0 .. W!frontier - 1 : wdst'[W!cl + i] = wdst[W!cl + i]
               /\ \A h \in 0 .. W!controlsWritten - 1 : wdst'[h] = wdst[h] ]_W!vars
  <2>1. W!frontier = Y!frontier /\ W!controlsWritten = Y!controlsWritten /\ W!cl = Y!cl
    BY Zenon DEF W!frontier, Y!frontier, W!controlsWritten, Y!controlsWritten, W!cl, Y!cl,
       W!controlLen, Y!controlLen, W!hasEncodeKernel, Y!hasEncodeKernel, W!Platforms,
       Y!Platforms, W!groups, Y!groups, W!groupSize, Y!groupSize
  <2>2. CASE SecondCall
    <3>1. wpc = "idle"
      BY <2>2 DEF SecondCall
    <3> QED BY <3>1 DEF W!frontier, W!controlsWritten
  <2>3. CASE SecondStep
    <3>1. Y!Step
      BY <2>3, SameSecondStep DEF SecondStep
    <3> QED BY <1>2, <2>1, <3>1, AssumptionsY, StepsAreNext, Y!NextKeepsFinal
            DEF SBInv, SecondInv
  <2>4. CASE ~SecondCall /\ ~SecondStep
    <3>1. UNCHANGED Y!vars
      <4>1. CASE FirstCall
        BY <4>1, <1>2, FirstCallAlone DEF SBInv
      <4>2. CASE FirstStep
        BY <4>2, <1>2, FirstStepAlone DEF SBInv
      <4>3. CASE UNCHANGED allVars
        BY <4>3 DEF allVars, wOtherVars, wCallVars, Y!vars, Y!callVars, Y!groupVars,
                    Y!tailVars
      <4> QED BY <1>2, <2>4, <4>1, <4>2, <4>3 DEF SBNext, SBStop
    <3> QED BY <3>1 DEF W!vars, W!callVars, W!groupVars, W!tailVars, Y!vars, Y!callVars,
                        Y!groupVars, Y!tailVars
  <2> QED BY <2>2, <2>3, <2>4
<1>3. SBInv /\ [SBNext]_allVars =>
        [ /\ \A i \in 0 .. frontier - 1 : dst'[cl + i] = dst[cl + i]
          /\ \A h \in 0 .. controlsWritten - 1 : dst'[h] = dst[h] ]_vars
  BY <1>1
<1>4. SBInv /\ [SBNext]_allVars =>
        [ /\ \A i \in 0 .. W!frontier - 1 : wdst'[W!cl + i] = wdst[W!cl + i]
          /\ \A h \in 0 .. W!controlsWritten - 1 : wdst'[h] = wdst[h] ]_W!vars
  BY <1>2
<1> QED BY <1>3, <1>4, SBInvariance, PTL
        DEF SBSpec, NoDamage, FinalBytesStay, W!FinalBytesStay

=============================================================================
