--------------------------- MODULE RoundTripProofs ---------------------------
(***************************************************************************)
(* Encode and then Decode, on any two targets: Decode finds the integers   *)
(* where Encode has put them, whatever kernels and scalar loops wrote and  *)
(* read which of them, so the two calls do what Codec promises.            *)
(***************************************************************************)
EXTENDS RoundTrip, EncodeProofs

\* The theorems about Decode, for the second call.
P == INSTANCE DecodeProofs WITH
       Targets <- DecodeTargets, Counts <- Lengths, Streams <- {},
       OldValues <- {zero},
       pc <- dpc, platform <- dplatform, src <- dsrc, srcLen <- dsrcLen,
       n <- dn, len <- dlen, dst <- ddst, g <- dg, off <- doff, safe <- dsafe,
       c <- dc, ki <- dki, shift <- dshift, key <- dkey, dp <- ddp, ret <- dret,
       start <- dstart, old <- dold

\* What is assumed of the RVV registers of the machine that decodes: a zero index is
\* out of their range.
DecoderClears == \A p \in DecodeTargets : GatherClears(p)

-----------------------------------------------------------------------------
(* The assumptions of Decode hold for the second call, and P is D.         *)

LEMMA Assumptions ==
  /\ VLMAX \in Nat /\ VLMAX >= P!wide
  /\ TailBytes \subseteq P!Byte /\ TailBytes # {}
  /\ DecodeTargets \subseteq P!Platforms
  /\ Lengths \subseteq Int
  /\ \A s \in {} : s.len \in Nat /\ s.at \in [0 .. s.len - 1 -> P!Byte]
  /\ {zero} \subseteq P!Value
  /\ Slack \in Nat
BY VLMAXAssumption, TailBytesAssumption, DecodeTargetsAssumption, InputAssumption
   DEF P!wide, wide, P!Byte, Byte, P!Platforms, Platforms, zero, P!Value, Lane, P!Lane

LEMMA Clear == DecoderClears => P!GathersClear
BY DEF DecoderClears, GatherClears, P!GathersClear, P!GatherClears, P!zeroIndex,
       zeroIndex

LEMMA SameFormat ==
  /\ \A k, lane : P!laneCode(k, lane) = laneCode(k, lane)
  /\ \A k : P!controlLen(k) = controlLen(k)
  /\ P!Lane = Lane /\ P!Byte = Byte /\ P!Value = Value
BY Zenon DEF P!laneCode, laneCode, P!controlLen, controlLen, P!Lane, Lane, P!Byte, Byte,
   P!Value, Value

LEMMA SameKnown == D!known = P!known /\ D!decoded = P!decoded
BY Zenon DEF D!known, P!known, D!decoded, P!decoded

LEMMA SameKnownNext == D!known' = P!known' /\ D!decoded' = P!decoded'
BY Zenon DEF D!known, P!known, D!decoded, P!decoded

LEMMA SameInv == (D!IndInv <=> P!IndInv) /\ (D!DecodedPrefix <=> P!DecodedPrefix)
BY Zenon DEF
  D!IndInv, D!TypeOK, D!Entered, D!OffsetsKnown, D!ScanCursor, D!KernelCursor,
  D!TailCursor, D!Consumed, D!PanicsOnlyWhenTruncated, D!known, D!IsLayout, D!codeOf,
  D!LoadsFit, D!cl, D!dataLen, D!groups, D!DecodedPrefix, D!decoded, D!IntAt,
  D!controlLen, D!groupSize, D!wide, D!Byte, D!Lane, D!Value, D!laneCode,
  D!hasDecodeKernel, D!Platforms,
  P!IndInv, P!TypeOK, P!Entered, P!OffsetsKnown, P!ScanCursor, P!KernelCursor,
  P!TailCursor, P!Consumed, P!PanicsOnlyWhenTruncated, P!known, P!IsLayout, P!codeOf,
  P!LoadsFit, P!cl, P!dataLen, P!groups, P!DecodedPrefix, P!decoded, P!IntAt,
  P!controlLen, P!groupSize, P!wide, P!Byte, P!Lane, P!Value, P!laneCode,
  P!hasDecodeKernel, P!Platforms

LEMMA SameInit == D!Init <=> P!Init
BY Zenon DEF D!Init, P!Init, D!groupSize, P!groupSize, D!Lane, P!Lane

LEMMA SameCall ==
  \A k, l, fill, m, at : D!CallWith(k, l, fill, m, at) <=> P!CallWith(k, l, fill, m, at)
BY Zenon DEF D!CallWith, P!CallWith, D!groupSize, P!groupSize, D!groupVars, P!groupVars,
             D!tailVars, P!tailVars

\* The steps of the two are the same, definition by definition.
LEMMA SameStep == D!Step <=> P!Step
BY Zenon DEF
  D!Step, D!DecodeEmpty, D!DecodeTooShort, D!NegativeCount, D!BeginScalar, D!BeginScan,
  D!ScanGroup, D!ScanToKernel, D!ScanToTail, D!KernelGroup, D!KernelToTail, D!TailInt,
  D!TailPanic, D!TailDone, D!InDecode, D!HandOver, D!Return, D!Panic, D!ScanEnds,
  D!WideFits, D!knowGroup, D!wideLoad, D!FitsInt, D!tailValue, D!tailCode, D!tailKey,
  D!tailShift, D!Reload, D!cl, D!dataLen, D!groups, D!callVars, D!groupVars, D!tailVars,
  D!decodeGroup, D!decodeGroupsSSE, D!decodeGroupsNEON, D!decodeGroupsVSX,
  D!decodeGroupsVX, D!decodeGroupsRVV, D!decodeGroupsLSX, D!nativeValues, D!PSHUFB,
  D!VTBL, D!VPERM, D!VSHUFB, D!VRGATHER, D!LXVD2X, D!STXVD2X, D!zeroVector, D!vrev,
  D!loadB16, D!storeB16, D!hasDecodeKernel, D!Platforms, D!shuffleTable, D!permTable,
  D!permTableBE, D!SpreadByte, D!zeroIndex, D!permZeroIndex, D!Index, D!cursor,
  D!lengthTable, D!laneCode, D!controlLen, D!groupSize, D!wide, D!Byte, D!Lane,
  P!Step, P!DecodeEmpty, P!DecodeTooShort, P!NegativeCount, P!BeginScalar, P!BeginScan,
  P!ScanGroup, P!ScanToKernel, P!ScanToTail, P!KernelGroup, P!KernelToTail, P!TailInt,
  P!TailPanic, P!TailDone, P!InDecode, P!HandOver, P!Return, P!Panic, P!ScanEnds,
  P!WideFits, P!knowGroup, P!wideLoad, P!FitsInt, P!tailValue, P!tailCode, P!tailKey,
  P!tailShift, P!Reload, P!cl, P!dataLen, P!groups, P!callVars, P!groupVars, P!tailVars,
  P!decodeGroup, P!decodeGroupsSSE, P!decodeGroupsNEON, P!decodeGroupsVSX,
  P!decodeGroupsVX, P!decodeGroupsRVV, P!decodeGroupsLSX, P!nativeValues, P!PSHUFB,
  P!VTBL, P!VPERM, P!VSHUFB, P!VRGATHER, P!LXVD2X, P!STXVD2X, P!zeroVector, P!vrev,
  P!loadB16, P!storeB16, P!hasDecodeKernel, P!Platforms, P!shuffleTable, P!permTable,
  P!permTableBE, P!SpreadByte, P!zeroIndex, P!permZeroIndex, P!Index, P!cursor,
  P!lengthTable, P!laneCode, P!controlLen, P!groupSize, P!wide, P!Byte, P!Lane

-----------------------------------------------------------------------------
(* Encode's part of the behaviour is a behaviour of Encode.                *)

LEMMA IsEncode == RTSpec => Spec
<1>1. RTInit => Init
  BY DEF RTInit
<1>2. [RTNext]_allVars => [Next]_vars
  BY DEF RTNext, EncodeStep, Receive, DecodeStep, RTStop, allVars, Next
<1> QED BY <1>1, <1>2, PTL DEF RTSpec, Spec

\* What Encode guarantees at every moment.
EncInv == IndInv /\ LayoutInv /\ ContentInv

LEMMA EncodeInvariance == RTSpec => []EncInv
<1>1. IndInv /\ LayoutInv /\ ContentInv => EncInv
  BY DEF EncInv
<1> QED BY <1>1, IsEncode, Invariance, LayoutInvariance, ContentInvariance, PTL

-----------------------------------------------------------------------------
(* The bytes that Decode reads.                                            *)

\* The code of every integer can be read from its control byte, also from the
\* last one, which may be that of an incomplete group.
LEMMA CodeInKey ==
  ASSUME TypeOK, NEW i \in 0 .. n - 1
  PROVE  /\ i \div 4 \in 0 .. cl - 1
         /\ laneCode(groupKey(i \div 4), i % 4) = code(src[i])
<1> DEFINE h == i \div 4
           at(j) == IF 4 * h + j < n THEN code(src[4 * h + j]) ELSE 0
<1>1. /\ n \in Nat /\ i \in Nat /\ i < n /\ h \in Nat /\ i % 4 \in 0 .. 3
      /\ i = 4 * h + (i % 4)
  BY DEF TypeOK
<1>2. h \in 0 .. cl - 1
  <2>1. cl \in Nat /\ n <= 4 * cl
    BY <1>1 DEF cl, controlLen
  <2> QED BY <1>1, <2>1
<1>3. \A j \in 0 .. 3 : at(j) \in 0 .. 3
  <2> SUFFICES ASSUME NEW j \in 0 .. 3 PROVE at(j) \in 0 .. 3
    OBVIOUS
  <2>1. CASE 4 * h + j < n
    <3>1. 4 * h + j \in 0 .. n - 1
      BY <1>1, <2>1
    <3> QED BY <2>1, <3>1, CodeAt
  <2>2. CASE ~(4 * h + j < n)
    BY <2>2
  <2> QED BY <2>1, <2>2
<1>4. groupKey(h) = at(0) + 4 * at(1) + 16 * at(2) + 64 * at(3)
  BY <1>1 DEF groupKey, packed
<1>5. at(i % 4) = code(src[i])
  BY <1>1
<1> HIDE DEF h, at
<1>6. \A j \in 0 .. 3 : laneCode(at(0) + 4 * at(1) + 16 * at(2) + 64 * at(3), j) = at(j)
  <2>1. at(0) \in 0 .. 3 /\ at(1) \in 0 .. 3 /\ at(2) \in 0 .. 3 /\ at(3) \in 0 .. 3
    BY <1>3
  <2> QED BY <2>1, SMTT(30) DEF laneCode
<1>7. laneCode(groupKey(h), i % 4) = code(src[i])
  BY <1>1, <1>4, <1>5, <1>6
<1> QED BY <1>2, <1>7 DEF h

\* The bytes of an integer above its length are zero.
LEMMA HighBytes ==
  ASSUME NEW v \in Value, NEW j \in Lane
  PROVE  j > code(v) => v[j] = 0
BY DEF Value, Lane, code

\* Every integer and its code are in the bytes that Encode says it wrote.
LEMMA IntegerOnWire ==
  ASSUME EncInv, pc = "returned", NEW i \in 0 .. n - 1
  PROVE  /\ src[i] \in Value /\ code(src[i]) \in 0 .. 3
         /\ start[i] \in Nat /\ start[i + 1] = start[i] + code(src[i]) + 1
         /\ cl + start[i] + code(src[i]) < ret
         /\ \A j \in 0 .. code(src[i]) :
              /\ cl + start[i] + j \in 0 .. ret - 1
              /\ dst[cl + start[i] + j] = src[i][j]
         /\ i \div 4 \in 0 .. ret - 1
         /\ laneCode(dst[i \div 4], i % 4) = code(src[i])
<1>1. /\ TypeOK /\ IsLayout(n) /\ Grows(n) /\ ret = cl + start[n] /\ HoldsIntegers(n)
      /\ \A h \in 0 .. cl - 1 : dst[h] = groupKey(h)
      /\ n \in Nat /\ cl \in Nat /\ ret \in Nat /\ start \in [0 .. n -> Nat]
  BY Counts DEF EncInv, IndInv, TypeOK, LayoutInv, OffsetsKnown, known, Consumed,
                ControlsKnown, ContentInv, written
<1>2. src[i] \in Value /\ code(src[i]) \in 0 .. 3
  BY <1>1, CodeAt
<1>3. /\ i \in 0 .. n /\ n \in 0 .. n /\ i + 1 \in 0 .. n
      /\ start[i] \in Nat /\ start[n] \in Nat
  BY <1>1
<1>4. start[i + 1] = start[i] + code(src[i]) + 1
  BY <1>1 DEF IsLayout
<1>5. \A j \in 0 .. code(src[i]) : start[i] + j \in 0 .. start[n] - 1
  BY <1>1, <1>3, BytesBefore
<1>6. \A j \in 0 .. code(src[i]) : cl + start[i] + j \in 0 .. ret - 1
  BY SMTT(40), <1>1, <1>2, <1>3, <1>5
<1>7. cl + start[i] + code(src[i]) < ret
  <2>1. code(src[i]) \in 0 .. code(src[i])
    BY <1>2
  <2>2. cl + start[i] + code(src[i]) \in 0 .. ret - 1
    BY <1>6, <2>1
  <2> QED BY <1>1, <2>2
<1>8. \A j \in 0 .. code(src[i]) : dst[cl + start[i] + j] = src[i][j]
  BY <1>1 DEF HoldsIntegers
<1>9. /\ i \div 4 \in 0 .. ret - 1
      /\ laneCode(dst[i \div 4], i % 4) = code(src[i])
  <2>1. /\ i \div 4 \in 0 .. cl - 1
        /\ laneCode(groupKey(i \div 4), i % 4) = code(src[i])
    BY <1>1, CodeInKey
  <2> QED BY <1>1, <1>3, <2>1
<1> QED BY <1>2, <1>3, <1>4, <1>6, <1>7, <1>8, <1>9

\* Decode sees the code of every integer, and the integer, once it has its offset.
LEMMA IntegerRead ==
  ASSUME EncInv, Received, dpc # "idle", NEW i \in 0 .. n - 1
  PROVE  /\ P!codeOf(i) = code(src[i])
         /\ dstart[i] = start[i] => P!IntAt(i) = src[i]
<1>1. /\ pc = "returned" /\ dn = n /\ dsrcLen = ret
      /\ dsrc = [x \in 0 .. ret - 1 |-> dst[x]]
  BY DEF Received
<1>2. /\ src[i] \in Value /\ code(src[i]) \in 0 .. 3
      /\ \A j \in 0 .. code(src[i]) :
           /\ cl + start[i] + j \in 0 .. ret - 1
           /\ dst[cl + start[i] + j] = src[i][j]
      /\ i \div 4 \in 0 .. ret - 1
      /\ laneCode(dst[i \div 4], i % 4) = code(src[i])
  BY <1>1, IntegerOnWire
<1>3. P!codeOf(i) = code(src[i])
  <2>1. dsrc[i \div 4] = dst[i \div 4]
    BY <1>1, <1>2
  <2> QED BY <1>2, <2>1, SameFormat DEF P!codeOf
<1>4. P!cl = cl
  BY <1>1, SameFormat DEF P!cl, cl
<1>5. ASSUME dstart[i] = start[i] PROVE P!IntAt(i) = src[i]
  <2>1. \A j \in Lane : j <= code(src[i]) => dsrc[P!cl + dstart[i] + j] = src[i][j]
    <3> SUFFICES ASSUME NEW j \in Lane, j <= code(src[i])
                 PROVE  dsrc[P!cl + dstart[i] + j] = src[i][j]
      OBVIOUS
    <3>1. j \in 0 .. code(src[i])
      BY <1>2 DEF Lane
    <3>2. cl + start[i] + j \in 0 .. ret - 1 /\ dst[cl + start[i] + j] = src[i][j]
      BY <1>2, <3>1
    <3> QED BY <1>1, <1>4, <1>5, <3>2
  <2>2. \A j \in Lane : ~(j <= code(src[i])) => src[i][j] = 0
    <3> SUFFICES ASSUME NEW j \in Lane, ~(j <= code(src[i])) PROVE src[i][j] = 0
      OBVIOUS
    <3>1. j > code(src[i])
      BY <1>2 DEF Lane
    <3> QED BY <1>2, <3>1, HighBytes
  <2>3. P!IntAt(i) = [j \in Lane |-> IF j <= code(src[i])
                                     THEN dsrc[P!cl + dstart[i] + j] ELSE 0]
    BY <1>3, SameFormat DEF P!IntAt
  <2>4. P!IntAt(i) = [j \in Lane |-> src[i][j]]
    BY <2>1, <2>2, <2>3
  <2>5. src[i] = [j \in Lane |-> src[i][j]]
    BY <1>2 DEF Value
  <2> QED BY <2>4, <2>5
<1> QED BY <1>3, <1>5

-----------------------------------------------------------------------------
(* What holds of the two calls together.                                   *)

RTAll ==
  /\ EncInv /\ P!IndInv /\ Received /\ OffsetsAgree
  /\ DecoderClears => P!DecodedPrefix

\* Decode has no reason to panic: dst is long enough, and every integer is there.
LEMMA NothingMissing == RTAll => NeverCut
<1> SUFFICES ASSUME RTAll, dpc = "panicked" PROVE FALSE
  BY DEF NeverCut
<1>1. /\ EncInv /\ Received /\ OffsetsAgree /\ P!PanicsOnlyWhenTruncated /\ P!TypeOK
      /\ pc = "returned" /\ dn = n /\ dlen = n /\ dsrcLen = ret
  BY DEF RTAll, P!IndInv, Received
<1>2. n \in Nat /\ cl \in Nat /\ ret = cl + start[n] /\ start[n] \in Nat
  BY <1>1, Counts DEF EncInv, IndInv, TypeOK, LayoutInv, Consumed
<1>3. P!cl = cl
  BY <1>1, SameFormat DEF P!cl, cl
<1>4. ~(dlen < dn) /\ ~(dn < 0) /\ ~(P!cl > dsrcLen)
  BY <1>1, <1>2, <1>3
<1>5. dc < dn /\ P!cl + dstart[dc] + P!codeOf(dc) >= dsrcLen
  BY <1>1, <1>4 DEF P!PanicsOnlyWhenTruncated
<1>6. dc \in 0 .. n - 1 /\ dc \in Nat
  BY <1>1, <1>2, <1>5 DEF P!TypeOK
<1>7. dstart[dc] = start[dc]
  BY <1>1, <1>6, SameKnown DEF OffsetsAgree, P!known
<1>8. P!codeOf(dc) = code(src[dc])
  BY <1>1, <1>6, IntegerRead
<1>9. /\ cl + start[dc] + code(src[dc]) < ret
      /\ start[dc] \in Nat /\ code(src[dc]) \in 0 .. 3
  BY <1>1, <1>6, IntegerOnWire
<1> QED BY <1>1, <1>2, <1>3, <1>5, <1>7, <1>8, <1>9

\* What Decode has decoded so far is what Encode was given.
LEMMA DecodesSource ==
  ASSUME DecoderClears, RTAll, dpc # "idle"
  PROVE  /\ P!decoded \in 0 .. n
         /\ \A i \in 0 .. P!decoded - 1 : ddst[i] = src[i]
<1>1. /\ EncInv /\ Received /\ OffsetsAgree /\ P!IndInv /\ P!DecodedPrefix /\ P!TypeOK
      /\ dn = n /\ dlen = n /\ n \in Nat
  BY DEF RTAll, P!IndInv, Received, EncInv, IndInv, TypeOK
<1>2. dpc # "panicked"
  BY NothingMissing DEF NeverCut
<1>3. /\ P!decoded \in Nat /\ P!known \in Nat /\ P!decoded <= P!known /\ P!known <= n
  BY <1>1, <1>2, Assumptions, P!DecodedIsKnown
<1>4. ASSUME NEW i \in 0 .. P!decoded - 1 PROVE ddst[i] = src[i]
  <2>1. i \in 0 .. n - 1 /\ i \in 0 .. P!known /\ i < P!decoded
    BY <1>1, <1>3
  <2>2. dstart[i] = start[i]
    BY <1>1, <2>1, SameKnown DEF OffsetsAgree
  <2>3. P!IntAt(i) = src[i]
    BY <1>1, <2>1, <2>2, IntegerRead
  <2>4. DOMAIN ddst = 0 .. n + 3
    BY <1>1 DEF P!TypeOK, P!groupSize
  <2>5. i \in DOMAIN ddst
    BY <1>1, <2>1, <2>4
  <2> QED BY <1>1, <2>1, <2>3, <2>5 DEF P!DecodedPrefix
<1> QED BY <1>1, <1>3, <1>4

Delivered == dpc # "idle" => \A i \in 0 .. P!decoded - 1 : ddst[i] = src[i]

LEMMA DeliversSource == DecoderClears /\ RTAll => Delivered
BY DecodesSource DEF Delivered

LEMMA DecodesSourceNext ==
  ASSUME DecoderClears, RTAll', dpc' # "idle"
  PROVE  \A i \in 0 .. P!decoded' - 1 : ddst'[i] = src'[i]
<1>1. (DecoderClears /\ RTAll => Delivered)'
  BY DeliversSource, PTL
<1>2. DecoderClears'
  BY DEF DecoderClears, GatherClears, zeroIndex
<1> QED BY <1>1, <1>2 DEF Delivered

\* The integers found in one step, whose offsets are then f, lie at the offsets of
\* Encode, because they are laid out one after the other from the last one known,
\* with the same codes.
LEMMA NextOffsets ==
  ASSUME EncInv, Received, dpc # "idle", NEW k \in 0 .. n, NEW m \in 0 .. n, m <= k + 4,
         NEW f, \A i \in 0 .. m - 1 : f[i + 1] = f[i] + P!codeOf(i) + 1,
         \A i \in 0 .. k : f[i] = start[i]
  PROVE  \A i \in 0 .. m : f[i] = start[i]
<1>1. pc = "returned" /\ n \in Nat /\ k \in Nat /\ m \in Nat
  BY DEF Received, EncInv, IndInv, TypeOK
<1>2. ASSUME NEW i \in 0 .. m - 1, f[i] = start[i]
      PROVE  f[i + 1] = start[i + 1]
  <2>1. i \in 0 .. n - 1
    BY <1>1
  <2>2. P!codeOf(i) = code(src[i])
    BY <2>1, IntegerRead
  <2>3. start[i + 1] = start[i] + code(src[i]) + 1
    BY <1>1, <2>1, IntegerOnWire
  <2> QED BY <1>2, <2>2, <2>3
<1>3. k + 1 <= m => f[k + 1] = start[k + 1]
  <2>1. k + 1 <= m => k \in 0 .. m - 1
    BY <1>1
  <2> QED BY <1>1, <1>2, <2>1
<1>4. k + 2 <= m => f[k + 2] = start[k + 2]
  <2>1. k + 2 <= m => k + 1 \in 0 .. m - 1 /\ k + 1 <= m /\ (k + 1) + 1 = k + 2
    BY <1>1
  <2> QED BY <1>2, <1>3, <2>1
<1>5. k + 3 <= m => f[k + 3] = start[k + 3]
  <2>1. k + 3 <= m => k + 2 \in 0 .. m - 1 /\ k + 2 <= m /\ (k + 2) + 1 = k + 3
    BY <1>1
  <2> QED BY <1>2, <1>4, <2>1
<1>6. k + 4 <= m => f[k + 4] = start[k + 4]
  <2>1. k + 4 <= m => k + 3 \in 0 .. m - 1 /\ k + 3 <= m /\ (k + 3) + 1 = k + 4
    BY <1>1
  <2> QED BY <1>2, <1>5, <2>1
<1>7. SUFFICES ASSUME NEW i \in 0 .. m PROVE f[i] = start[i]
  OBVIOUS
<1>8. i \in 0 .. k \/ i = k + 1 \/ i = k + 2 \/ i = k + 3 \/ i = k + 4
  BY <1>1
<1>9. CASE i \in 0 .. k
  BY <1>9
<1>10. CASE i \notin 0 .. k
  BY <1>3, <1>4, <1>5, <1>6, <1>8, <1>10
<1> QED BY <1>9, <1>10

-----------------------------------------------------------------------------

LEMMA RTInitInv == RTInit => P!IndInv /\ P!DecodedPrefix /\ Received /\ OffsetsAgree
<1> SUFFICES ASSUME RTInit PROVE P!IndInv /\ P!DecodedPrefix /\ Received /\ OffsetsAgree
  OBVIOUS
<1>1. Init /\ P!Init
  BY SameInit DEF RTInit
<1>2. P!IndInv /\ P!DecodedPrefix
  BY <1>1, Assumptions, P!InitInv, P!InitPrefix
<1>3. dpc = "idle" /\ dstart[0] = 0 /\ start[0] = 0
  BY <1>1 DEF Init, P!Init
<1>4. P!known = 0
  BY <1>3 DEF P!known
<1>5. OffsetsAgree
  BY <1>3, <1>4, SameKnown DEF OffsetsAgree
<1> QED BY <1>2, <1>3, <1>5 DEF Received

\* Before the two calls meet, Decode waits.
LEMMA EncodeStepInv ==
  ASSUME RTAll, EncInv', EncodeStep
  PROVE  RTAll'
<1>1. /\ P!IndInv /\ Received /\ OffsetsAgree /\ EncInv
      /\ DecoderClears => P!DecodedPrefix
      /\ UNCHANGED decodeVars
  BY DEF RTAll, EncodeStep
<1>2. UNCHANGED P!vars /\ dpc' = dpc /\ dstart' = dstart
  BY <1>1 DEF decodeVars, P!vars, P!callVars, P!groupVars, P!tailVars
<1>3. P!IndInv'
  BY <1>1, <1>2, Assumptions, P!StutterInv
<1>4. DecoderClears => P!DecodedPrefix'
  BY <1>1, <1>2, <1>3, Assumptions, Clear, P!PrefixStep
<1>5. pc # "returned"
  BY DEF EncodeStep, Call, CallOn, Step, EncodeEmpty, EncodeTooShort, SlicePanic,
         InEncode, BeginScalar, BeginScan, ScanGroup, ScanToKernel, ScanToTail, KernelGroup,
         KernelToTail, TailInt, TailPanic, TailDone
<1>6. dpc = "idle" /\ dpc' = "idle"
  BY <1>1, <1>2, <1>5 DEF Received
<1>7. P!known = 0 /\ P!known' = 0
  BY <1>6 DEF P!known
<1>8. D!known = 0 /\ D!known' = 0
  BY <1>7, SameKnown, SameKnownNext
<1>9. start[0] = 0 /\ start'[0] = 0
  BY <1>1 DEF EncInv, IndInv
<1>10. OffsetsAgree'
  BY <1>1, <1>2, <1>8, <1>9 DEF OffsetsAgree
<1> QED BY <1>3, <1>4, <1>6, <1>10 DEF RTAll, Received

\* Decode gets the result of a call that has returned.
LEMMA ReceiveInv ==
  ASSUME RTAll, EncInv', Receive
  PROVE  RTAll' /\ dpc = "idle" /\ dpc' = "entry"
<1> DEFINE wire == [i \in 0 .. ret - 1 |-> dst[i]]
<1>1. /\ P!IndInv /\ EncInv /\ pc = "returned" /\ UNCHANGED vars
      /\ P!CallWith(n, n, zero, ret, wire)
  BY SameCall DEF RTAll, Receive
<1>2. /\ n \in Nat /\ len \in Nat /\ ret \in Nat /\ start[0] = 0
      /\ dst \in [0 .. len + wide - 1 -> Byte] /\ ret <= len
  <2>1. /\ n \in Nat /\ len \in Nat /\ ret \in Nat /\ start[0] = 0
        /\ dst \in [0 .. len + wide - 1 -> Byte]
    BY <1>1 DEF EncInv, IndInv, TypeOK
  <2>2. ret <= len
    BY <1>1 DEF EncInv, LayoutInv, Consumed
  <2> QED BY <2>1, <2>2
<1>3. wire \in [0 .. ret - 1 -> P!Byte]
  <2>1. \A i \in 0 .. ret - 1 : i \in 0 .. len + wide - 1
    BY <1>2 DEF wide
  <2>2. \A i \in 0 .. ret - 1 : dst[i] \in Byte
    BY <1>2, <2>1
  <2> QED BY <2>2, SameFormat
<1>4. zero \in P!Value
  BY Assumptions
<1> HIDE DEF wire
<1>5. P!IndInv'
  <2>1. n \in Int
    BY <1>2
  <2> QED BY <1>1, <1>2, <1>3, <1>4, <2>1, Assumptions, P!CallWithInv
<1>6. /\ dpc = "idle" /\ dpc' = "entry" /\ dold' = ddst' /\ dn' = n /\ dlen' = n
      /\ dsrcLen' = ret /\ dsrc' = wire /\ dstart' = [i \in 0 .. n |-> 0]
  BY <1>1 DEF P!CallWith
<1>7. P!DecodedPrefix'
  BY <1>5, <1>6, Assumptions, P!CallPrefix
<1>8. /\ pc' = pc /\ n' = n /\ ret' = ret /\ dst' = dst /\ start' = start
  BY <1>1 DEF vars, callVars
<1>9. Received'
  BY <1>1, <1>6, <1>8 DEF Received, wire
<1>10. OffsetsAgree'
  <2>1. P!known' = 0
    BY <1>6 DEF P!known
  <2>2. D!known' = 0
    BY <2>1, SameKnownNext
  <2>3. dstart'[0] = 0 /\ start'[0] = 0
    BY <1>2, <1>6, <1>8
  <2> QED BY <2>2, <2>3 DEF OffsetsAgree
<1> QED BY <1>5, <1>6, <1>7, <1>9, <1>10 DEF RTAll

LEMMA DecodeStepInv ==
  ASSUME RTAll, EncInv', DecodeStep
  PROVE  RTAll'
<1>1. /\ P!IndInv /\ Received /\ OffsetsAgree /\ EncInv
      /\ DecoderClears => P!DecodedPrefix
      /\ P!Step /\ UNCHANGED vars
  BY SameStep DEF RTAll, DecodeStep
<1>2. P!IndInv'
  BY <1>1, Assumptions, P!StepInv
<1>3. DecoderClears => P!DecodedPrefix'
  BY <1>1, <1>2, Assumptions, Clear, P!PrefixStep DEF P!Next
<1>4. /\ UNCHANGED P!callVars
      /\ dpc \in {"entry", "scan", "kernel", "tail"} /\ dpc' \notin {"idle", "entry"}
      /\ P!known \in Nat /\ P!known' \in Nat /\ P!known' <= P!known + 4
      /\ dpc' = "panicked" => P!known' <= P!known
      /\ \A i \in 0 .. P!known : dstart'[i] = dstart[i]
  BY <1>1, Assumptions, P!StepOffsets
<1>5. /\ UNCHANGED <<dsrc, dsrcLen, dn, dlen, pc, n, ret, dst, src, start>>
  BY <1>1, <1>4 DEF P!callVars, vars, callVars
<1>6. Received'
  BY <1>1, <1>4, <1>5 DEF Received
<1>7. OffsetsAgree'
  <2>1. \A i \in 0 .. P!known : dstart'[i] = start[i]
    BY <1>1, <1>4, SameKnown DEF OffsetsAgree
  <2>2. \A i \in 0 .. P!known' : dstart'[i] = start[i]
    <3>1. CASE P!known' <= P!known
      BY <1>4, <2>1, <3>1
    <3>2. CASE ~(P!known' <= P!known)
      <4>1. dpc' # "panicked" /\ dpc # "panicked" /\ dpc # "idle"
        <5>1. dpc' # "panicked"
          BY <1>4, <3>2
        <5> QED BY <1>4, <5>1
      <4>2. dn = n /\ dn' = n /\ n \in Nat
        BY <1>1, <1>5, <4>1 DEF Received, EncInv, IndInv, TypeOK
      <4>3. P!known <= n
        BY <1>1, <4>1, <4>2, Assumptions, P!DecodedIsKnown
      <4>4. P!known' <= n
        BY <1>2, <4>1, <4>2, Assumptions, P!KnownNext
      <4>5. P!IsLayout(P!known)'
        BY <1>2, <4>2 DEF P!IndInv, P!OffsetsKnown
      <4>6. \A i \in 0 .. P!known' - 1 : dstart'[i + 1] = dstart'[i] + P!codeOf(i) + 1
        BY <1>5, <4>5 DEF P!IsLayout, P!codeOf
      <4>7. P!known \in 0 .. n /\ P!known' \in 0 .. n
        BY <1>4, <4>2, <4>3, <4>4
      <4> QED BY ZenonT(40), <1>1, <1>4, <2>1, <4>1, <4>6, <4>7, NextOffsets
    <3> QED BY <3>1, <3>2
  <2>3. D!known' = P!known'
    BY SameKnownNext
  <2> QED BY <1>5, <2>2, <2>3 DEF OffsetsAgree
<1> QED BY <1>2, <1>3, <1>6, <1>7 DEF RTAll

LEMMA RTStutterInv ==
  ASSUME RTAll, EncInv', UNCHANGED allVars
  PROVE  RTAll'
<1>1. UNCHANGED vars /\ UNCHANGED decodeVars
  BY DEF allVars
<1>2. UNCHANGED P!vars /\ dpc' = dpc /\ dstart' = dstart
  BY <1>1 DEF decodeVars, P!vars, P!callVars, P!groupVars, P!tailVars
<1>3. P!IndInv'
  BY <1>2, Assumptions, P!StutterInv DEF RTAll
<1>4. DecoderClears => P!DecodedPrefix'
  BY <1>2, <1>3, Assumptions, Clear, P!PrefixStep DEF RTAll
<1>5. Received'
  BY <1>1 DEF RTAll, Received, vars, callVars, decodeVars
<1>6. OffsetsAgree'
  <2>1. P!known' = P!known
    BY <1>1, <1>2 DEF P!known, P!vars, P!callVars, P!groupVars, P!tailVars
  <2>2. D!known' = D!known /\ start' = start
    BY <1>1, <2>1, SameKnown, SameKnownNext DEF vars
  <2> QED BY <1>2, <2>2 DEF RTAll, OffsetsAgree
<1> QED BY <1>3, <1>4, <1>5, <1>6 DEF RTAll

LEMMA RTNextInv ==
  ASSUME RTAll, EncInv', [RTNext]_allVars
  PROVE  RTAll'
<1>1. CASE EncodeStep
  BY <1>1, EncodeStepInv
<1>2. CASE Receive
  BY <1>2, ReceiveInv
<1>3. CASE DecodeStep
  BY <1>3, DecodeStepInv
<1>4. CASE RTStop \/ UNCHANGED allVars
  BY <1>4, RTStutterInv DEF RTStop
<1> QED BY <1>1, <1>2, <1>3, <1>4 DEF RTNext

LEMMA RTAllInvariance == RTSpec => []RTAll
<1>1. RTSpec => []EncInv
  BY EncodeInvariance
<1>2. RTInit /\ EncInv => RTAll
  BY RTInitInv DEF RTAll
<1>3. RTAll /\ EncInv' /\ [RTNext]_allVars => RTAll'
  BY RTNextInv
<1> QED BY <1>1, <1>2, <1>3, PTL DEF RTSpec

\* Whatever targets encode and decode, Decode follows the offsets of Encode and
\* has at every moment the integers it has come to.
THEOREM RTInvariance ==
  ASSUME DecoderClears
  PROVE  RTSpec => []RTInv
<1>1. RTAll => RTInv
  BY SameInv DEF RTAll, RTInv
<1> QED BY <1>1, RTAllInvariance, PTL

\* Decode returns what Encode was given and consumes what it wrote.
THEOREM RoundTrips ==
  ASSUME DecoderClears
  PROVE  RTSpec => []Reproduces
<1>1. RTAll => Reproduces
  <2> SUFFICES ASSUME RTAll, dpc = "returned"
               PROVE  dret = ret /\ \A i \in 0 .. n - 1 : ddst[i] = src[i]
    BY DEF Reproduces
  <2>1. /\ EncInv /\ Received /\ OffsetsAgree /\ P!Consumed
        /\ pc = "returned" /\ dn = n /\ n \in Nat
    BY DEF RTAll, P!IndInv, Received, EncInv, IndInv, TypeOK
  <2>2. P!known = n /\ P!decoded = n
    BY <2>1 DEF P!known, P!decoded
  <2>3. dret = P!cl + dstart[n] /\ ret = cl + start[n]
    BY <2>1 DEF P!Consumed, EncInv, LayoutInv, Consumed
  <2>4. P!cl = cl
    BY <2>1, SameFormat DEF P!cl, cl
  <2>5. dstart[n] = start[n]
    BY <2>1, <2>2, SameKnown DEF OffsetsAgree
  <2> QED BY <2>2, <2>3, <2>4, <2>5, DecodesSource
<1> QED BY <1>1, RTAllInvariance, PTL

\* Decode never panics on the bytes that Encode says it wrote, however wide the RVV
\* registers are.
THEOREM NeverRejected == RTSpec => []NeverCut
BY NothingMissing, RTAllInvariance, PTL

-----------------------------------------------------------------------------
(* The two calls do what Codec promises.                                   *)

\* The part of the state that Codec sees of the delivery.
got == [i \in 0 .. D!decoded - 1 |-> ddst[i]]

LEMMA InitRefines == RTInit => C!Init
<1> SUFFICES ASSUME RTInit PROVE C!Init
  OBVIOUS
<1>1. pc = "idle" /\ dpc = "idle" /\ n = 0 /\ src = [i \in 0 .. -1 |-> 0]
  BY SameInit DEF RTInit, Init, P!Init
<1>2. D!decoded = 0
  BY <1>1, SameKnown DEF P!decoded
<1>3. stage = "idle"
  BY <1>1 DEF stage
<1>4. [i \in 0 .. D!decoded - 1 |-> ddst[i]] = src
  <2>1. 0 .. D!decoded - 1 = 0 .. -1 /\ \A i \in 0 .. -1 : ddst[i] = 0
    BY <1>2
  <2> QED BY <1>1, <2>1
<1> QED BY <1>1, <1>2, <1>3, <1>4 DEF C!Init

\* Nothing that Decode has delivered is touched by a step that leaves its variables.
LEMMA SameDelivery ==
  ASSUME UNCHANGED decodeVars
  PROVE  D!decoded' = D!decoded /\ got' = got /\ dpc' = dpc
<1>1. UNCHANGED <<dpc, dn, dc, dg, ddst>>
  BY DEF decodeVars
<1>2. P!decoded' = P!decoded
  BY <1>1 DEF P!decoded
<1>3. D!decoded' = D!decoded
  BY <1>2, SameKnown, SameKnownNext
<1> QED BY <1>1, <1>3 DEF got

LEMMA EncodeStepRefines ==
  ASSUME RTAll, EncodeStep
  PROVE  [C!Next]_C!vars
<1>1. UNCHANGED decodeVars /\ Received /\ (Call \/ Step)
  BY DEF EncodeStep, RTAll
<1>2. /\ pc # "returned" /\ pc # "panicked"
      /\ Step => /\ n' = n /\ src' = src /\ pc \in {"entry", "scan", "kernel", "tail"}
                 /\ pc' \in {"scan", "kernel", "tail", "returned", "panicked"}
  BY <1>1 DEF Call, CallOn, Step, EncodeEmpty, EncodeTooShort, SlicePanic,
         InEncode, BeginScalar, BeginScan, ScanGroup, ScanToKernel, ScanToTail, KernelGroup,
         KernelToTail, TailInt, TailPanic, TailDone, HandOver, Return, Panic, callVars
<1>3. D!decoded' = D!decoded /\ got' = got /\ dpc = "idle" /\ dpc' = "idle"
  <2>1. D!decoded' = D!decoded /\ got' = got /\ dpc' = dpc
    BY <1>1, SameDelivery
  <2>2. dpc = "idle"
    BY <1>1, <1>2 DEF Received
  <2> QED BY <2>1, <2>2
<1>4. CASE Call
  <2>1. /\ pc = "idle" /\ pc' = "entry" /\ n' \in Lengths
        /\ src' \in [0 .. n' - 1 -> Values]
    BY <1>4 DEF Call, CallOn
  <2>2. stage = "idle" /\ stage' = "encoding"
    BY <1>3, <2>1 DEF stage
  <2>3. C!Submit
    BY <1>3, <2>1, <2>2 DEF C!Submit, got
  <2> QED BY <2>3 DEF C!Next
<1>5. CASE Step
  <2>1. stage = "encoding"
    BY <1>2, <1>3, <1>5 DEF stage
  <2>2. CASE pc' = "returned"
    <3>1. stage' = "encoded"
      BY <1>3, <2>2 DEF stage
    <3>2. C!Accept
      BY <1>2, <1>3, <1>5, <2>1, <3>1 DEF C!Accept, got
    <3> QED BY <3>2 DEF C!Next
  <2>3. CASE pc' = "panicked"
    <3>1. stage' = "rejected"
      BY <1>3, <2>3 DEF stage
    <3>2. C!Reject
      BY <1>2, <1>3, <1>5, <2>1, <3>1 DEF C!Reject, got
    <3> QED BY <3>2 DEF C!Next
  <2>4. CASE pc' \in {"scan", "kernel", "tail"}
    <3>1. stage' = "encoding"
      BY <1>3, <2>4 DEF stage
    <3> QED BY <1>2, <1>3, <1>5, <2>1, <3>1 DEF C!vars, got
  <2> QED BY <1>2, <1>5, <2>2, <2>3, <2>4
<1> QED BY <1>1, <1>4, <1>5

LEMMA ReceiveRefines ==
  ASSUME RTAll, EncInv', Receive
  PROVE  C!Open
<1>1. /\ pc = "returned" /\ UNCHANGED <<pc, n, src>> /\ dpc = "idle" /\ dpc' = "entry"
  BY ReceiveInv DEF Receive, vars, callVars
<1>2. stage = "encoded" /\ stage' = "decoding"
  BY <1>1 DEF stage
<1>3. P!decoded = 0 /\ P!decoded' = 0
  BY <1>1 DEF P!decoded
<1>4. D!decoded = 0 /\ D!decoded' = 0
  BY <1>3, SameKnown, SameKnownNext
<1>5. got' = got
  <2>1. 0 .. 0 - 1 = {}
    OBVIOUS
  <2> QED BY <1>4, <2>1 DEF got
<1> QED BY <1>1, <1>2, <1>4, <1>5 DEF C!Open, got

LEMMA DecodeStepRefines ==
  ASSUME DecoderClears, RTAll, RTAll', DecodeStep
  PROVE  [C!Next]_C!vars
<1>1. /\ P!IndInv /\ P!Step /\ Received /\ UNCHANGED <<pc, n, src>>
  BY SameStep DEF RTAll, DecodeStep, vars, callVars
<1>2. /\ dpc \in {"entry", "scan", "kernel", "tail"} /\ dpc' # "idle"
      /\ \/ dpc' = "panicked"
         \/ dpc' = "returned" /\ P!decoded = dn /\ P!decoded' = dn
         \/ /\ dpc' \in {"scan", "kernel", "tail"}
            /\ P!decoded' = P!decoded \/ P!decoded' \in P!decoded + 1 .. dn
  BY <1>1, Assumptions, P!StepOffsets, P!StepDelivers
<1>3. /\ stage = "decoding" /\ dn = n /\ D!decoded = P!decoded /\ D!decoded' = P!decoded'
  BY <1>1, <1>2, SameKnown, SameKnownNext DEF stage, Received
<1>4. dpc' # "panicked"
  <2>1. (RTAll => NeverCut)'
    BY NothingMissing, PTL
  <2> QED BY <2>1 DEF NeverCut
<1>5. got = [i \in 0 .. D!decoded - 1 |-> src[i]]
  <2>1. dpc # "idle"
    BY <1>2
  <2>2. \A i \in 0 .. D!decoded - 1 : ddst[i] = src[i]
    BY <1>3, <2>1, DecodesSource
  <2> QED BY <2>2 DEF got
<1>6. got' = [i \in 0 .. D!decoded' - 1 |-> src[i]]
  <2>1. \A i \in 0 .. D!decoded' - 1 : ddst'[i] = src[i]
    <3>1. dpc' # "idle"
      BY <1>2
    <3> QED BY <1>1, <1>3, <3>1, DecodesSourceNext
  <2> QED BY <2>1 DEF got
<1>7. CASE dpc' = "returned"
  <2>1. stage' = "done" /\ D!decoded = n /\ D!decoded' = n
    BY <1>2, <1>3, <1>7 DEF stage
  <2>2. C!Finish
    BY <1>1, <1>3, <1>5, <1>6, <2>1 DEF C!Finish, got
  <2> QED BY <2>2 DEF C!Next
<1>8. CASE dpc' \in {"scan", "kernel", "tail"} /\ D!decoded' = D!decoded
  <2>1. stage' = "decoding"
    BY <1>8 DEF stage
  <2> QED BY <1>1, <1>3, <1>5, <1>6, <1>8, <2>1 DEF C!vars, got
<1>9. CASE dpc' \in {"scan", "kernel", "tail"} /\ D!decoded' \in D!decoded + 1 .. n
  <2>1. stage' = "decoding"
    BY <1>9 DEF stage
  <2>2. C!Deliver
    BY <1>1, <1>3, <1>6, <1>9, <2>1 DEF C!Deliver, C!prefix, got
  <2> QED BY <2>2 DEF C!Next
<1> QED BY <1>2, <1>3, <1>4, <1>7, <1>8, <1>9

\* Encode takes the integers or panics; those it took are delivered in order, first
\* to last, by groups or one by one, and never a wrong one.
THEOREM Refinement ==
  ASSUME DecoderClears
  PROVE  RTSpec => ImplementsCodec
<1>1. RTInit => C!Init
  BY InitRefines
<1>2. RTAll /\ RTAll' /\ [RTNext]_allVars => [C!Next]_C!vars
  <2> SUFFICES ASSUME RTAll, RTAll', [RTNext]_allVars PROVE [C!Next]_C!vars
    OBVIOUS
  <2>1. CASE EncodeStep
    BY <2>1, EncodeStepRefines
  <2>2. CASE Receive
    BY <2>2, ReceiveRefines DEF RTAll, C!Next
  <2>3. CASE DecodeStep
    BY <2>3, DecodeStepRefines
  <2>4. CASE RTStop \/ UNCHANGED allVars
    <3>1. UNCHANGED decodeVars /\ UNCHANGED <<pc, n, src>>
      BY <2>4 DEF RTStop, allVars, vars, callVars
    <3>2. D!decoded' = D!decoded /\ got' = got /\ stage' = stage
      BY <3>1, SameDelivery DEF stage
    <3> QED BY <3>1, <3>2 DEF C!vars, got
  <2> QED BY <2>1, <2>2, <2>3, <2>4 DEF RTNext
<1> QED BY <1>1, <1>2, RTAllInvariance, PTL DEF RTSpec, ImplementsCodec, C!Spec

=============================================================================
