---------------------------- MODULE DecodeProofs ----------------------------
(***************************************************************************)
(* Decode on any bytes, with any count and destination and on every        *)
(* target: its wide loads stay in the stream, it panics only where the     *)
(* stream is too short, and what it delivers are the integers of the       *)
(* stream, in front of an untouched rest.                                  *)
(***************************************************************************)
EXTENDS Decode, TableProofs

\* The counts that the loops run to.
LEMMA GroupCounts ==
  ASSUME n \in Int, 0 < n
  PROVE  /\ cl \in Nat /\ groups \in Nat /\ groups <= cl
         /\ 4 * groups <= n /\ n < 4 * groups + 4
         /\ n <= 4 * cl /\ 4 * cl < n + 4
<1>1. n \in Nat
  OBVIOUS
<1> QED BY <1>1 DEF cl, groups, controlLen, groupSize

\* A step that changes neither the stream nor what is known of it.
LEMMA SameLayout ==
  ASSUME NEW k, IsLayout(k), UNCHANGED <<src, start>>
  PROVE  IsLayout(k)'
BY DEF IsLayout, codeOf

LEMMA InitInv == Init => IndInv
<1> SUFFICES ASSUME Init PROVE IndInv
  OBVIOUS
<1>1. TypeOK
  BY DEF Init, TypeOK, groupSize, Lane, Value, Byte
<1>2. Entered
  BY DEF Init, Entered
<1>3. OffsetsKnown
  BY DEF Init, OffsetsKnown, known, IsLayout
<1>4. ScanCursor /\ KernelCursor /\ TailCursor /\ Consumed /\ PanicsOnlyWhenTruncated
  BY DEF Init, ScanCursor, KernelCursor, TailCursor, Consumed, PanicsOnlyWhenTruncated
<1> QED BY <1>1, <1>2, <1>3, <1>4 DEF IndInv

\* A call with any arguments.
LEMMA CallWithInv ==
  ASSUME IndInv, NEW k \in Int, NEW l \in Nat, NEW fill \in Value,
         NEW m \in Nat, NEW at \in [0 .. m - 1 -> Byte], CallWith(k, l, fill, m, at)
  PROVE  IndInv'
<1>1. /\ pc = "idle" /\ pc' = "entry" /\ n' = k /\ len' = l /\ src' = at /\ srcLen' = m
      /\ dst' = [i \in 0 .. l + groupSize - 1 |-> fill] /\ old' = dst'
      /\ start' = [i \in 0 .. k |-> 0]
      /\ UNCHANGED <<platform, g, off, safe, c, ki, shift, key, dp, ret>>
  BY DEF CallWith, groupVars, tailVars
<1>2. TypeOK'
  BY <1>1 DEF IndInv, TypeOK
<1>3. Entered'
  BY <1>1 DEF IndInv, Entered
<1>4. OffsetsKnown'
  BY <1>1 DEF OffsetsKnown, known, IsLayout
<1>5. (ScanCursor /\ KernelCursor /\ TailCursor /\ Consumed /\ PanicsOnlyWhenTruncated)'
  BY <1>1 DEF ScanCursor, KernelCursor, TailCursor, Consumed, PanicsOnlyWhenTruncated
<1> QED BY <1>2, <1>3, <1>4, <1>5 DEF IndInv

LEMMA CallInv == IndInv /\ Call => IndInv'
<1> SUFFICES ASSUME IndInv, Call PROVE IndInv'
  OBVIOUS
<1>1. PICK k \in Counts, s \in Streams, fill \in OldValues :
        \E l \in 0 .. k + Slack : CallWith(k, l, fill, s.len, s.at)
  BY DEF Call
<1>2. PICK l \in 0 .. k + Slack : CallWith(k, l, fill, s.len, s.at)
  BY <1>1
<1>3. /\ k \in Int /\ l \in Nat /\ fill \in Value
      /\ s.len \in Nat /\ s.at \in [0 .. s.len - 1 -> Byte]
  BY InputAssumption
<1> QED BY <1>2, <1>3, CallWithInv

-----------------------------------------------------------------------------
(* Ends and hand-overs.                                                    *)

LEMMA PanicInv ==
  ASSUME IndInv, Panic, pc \in {"entry", "scan", "kernel", "tail"},
         PanicsOnlyWhenTruncated', n >= 0 => IsLayout(c)
  PROVE  IndInv'
<1>1. /\ pc' = "panicked"
      /\ UNCHANGED <<platform, src, srcLen, n, len, old, dst, g, off, safe, c, ki, shift,
                     key, dp, ret, start>>
  BY DEF Panic, callVars, groupVars, tailVars
<1>2. TypeOK'
  BY <1>1 DEF IndInv, TypeOK
<1>3. OffsetsKnown'
  BY <1>1, SameLayout DEF OffsetsKnown, known
<1>4. (Entered /\ ScanCursor /\ KernelCursor /\ TailCursor /\ Consumed)'
  BY <1>1 DEF Entered, ScanCursor, KernelCursor, TailCursor, Consumed
<1> QED BY <1>2, <1>3, <1>4 DEF IndInv

LEMMA ReturnInv ==
  ASSUME IndInv, NEW result \in Nat, Return(result), n \in Nat, n <= len, IsLayout(n),
         result = cl + start[n], result <= srcLen
  PROVE  IndInv'
<1>1. /\ pc' = "returned" /\ ret' = result
      /\ UNCHANGED <<platform, src, srcLen, n, len, old, dst, g, off, safe, c, ki, shift,
                     key, dp, start>>
  BY DEF Return, callVars, groupVars, tailVars
<1>2. TypeOK'
  BY <1>1 DEF IndInv, TypeOK
<1>3. OffsetsKnown'
  BY <1>1, SameLayout DEF OffsetsKnown, known
<1>4. (Entered /\ ScanCursor /\ KernelCursor /\ TailCursor /\ PanicsOnlyWhenTruncated)'
  BY <1>1 DEF IndInv, TypeOK, Entered, ScanCursor, KernelCursor, TailCursor, PanicsOnlyWhenTruncated
<1>5. Consumed'
  BY <1>1 DEF Consumed, cl
<1> QED BY <1>2, <1>3, <1>4, <1>5 DEF IndInv

\* decodeTail begins where a loop has ended: with done complete groups, which
\* take consumed bytes of data.
LEMMA HandOverInv ==
  ASSUME IndInv, pc \in {"entry", "scan", "kernel"}, 0 < n, n <= len,
         NEW done \in 0 .. groups, NEW consumed \in Nat, HandOver(done, consumed),
         IsLayout(4 * done), consumed = start[4 * done],
         IF done = 0 THEN dst = old ELSE cl + consumed <= srcLen
  PROVE  IndInv'
<1>1. TypeOK /\ Entered /\ n \in Int /\ n \in Nat /\ srcLen \in Nat /\ len \in Nat
  BY DEF IndInv, TypeOK
<1>2. /\ cl \in Nat /\ groups \in Nat /\ groups <= cl
      /\ 4 * groups <= n /\ n < 4 * groups + 4 /\ n <= 4 * cl /\ done \in Nat
  BY <1>1, GroupCounts
<1>3. CASE 4 * done >= n
  <2>1. n = 4 * done /\ done # 0
    BY <1>1, <1>2, <1>3
  <2>2. Return(cl + consumed)
    BY <1>1, <1>2, <1>3 DEF HandOver, groupSize
  <2>3. cl + consumed \in Nat /\ cl + consumed <= srcLen
    BY <1>2, <2>1
  <2> QED BY <1>1, <2>1, <2>2, <2>3, ReturnInv
<1>4. CASE 4 * done < n /\ cl > srcLen
  <2>1. done = 0 /\ Panic
    BY <1>1, <1>2, <1>4 DEF HandOver, groupSize
  <2>2. c = 0 /\ dst = old
    BY <1>1, <2>1 DEF Entered
  <2>3. PanicsOnlyWhenTruncated'
    BY <1>4, <2>1, <2>2 DEF Panic, PanicsOnlyWhenTruncated, callVars, tailVars, cl
  <2>4. IsLayout(c)
    BY <2>1, <2>2
  <2> QED BY <2>1, <2>3, <2>4, PanicInv
<1>5. CASE 4 * done < n /\ cl <= srcLen
  <2>1. /\ pc' = "tail" /\ c' = 4 * done /\ ki' = done /\ dp' = consumed
        /\ key' = src[done] /\ shift' = 0
        /\ UNCHANGED <<platform, src, srcLen, n, len, old, dst, g, off, safe, ret, start>>
    BY <1>1, <1>2, <1>5 DEF HandOver, groupSize, callVars, groupVars
  <2>2. done < cl /\ cl' = cl /\ dataLen' = dataLen /\ src[done] \in Byte
    BY <1>1, <1>2, <1>5, <2>1 DEF cl, dataLen, TypeOK
  <2>3. TypeOK'
    BY <1>1, <1>2, <2>1, <2>2 DEF TypeOK
  <2>4. Entered'
    BY <1>1, <1>5, <2>1, <2>2 DEF Entered
  <2>5. OffsetsKnown'
    BY <2>1, SameLayout DEF OffsetsKnown, known
  <2>6. TailCursor'
    <3>1. dp' <= dataLen'
      <4>1. CASE done = 0
        <5>1. start[0] = 0 /\ 4 * done = 0
          BY <4>1 DEF IsLayout
        <5>2. dp' = 0
          BY <2>1, <5>1
        <5> QED BY <1>1, <1>2, <1>5, <2>2, <5>2 DEF dataLen
      <4>2. CASE done # 0
        BY <1>1, <1>2, <2>1, <2>2, <4>2 DEF dataLen
      <4> QED BY <4>1, <4>2
    <3>2. c' <= n' /\ shift' = 2 * (c' - 4 * ki')
      BY <1>1, <1>2, <1>5, <2>1
    <3> QED BY <2>1, <2>2, <3>1, <3>2 DEF TailCursor
  <2>7. (ScanCursor /\ KernelCursor /\ Consumed /\ PanicsOnlyWhenTruncated)'
    BY <2>1 DEF ScanCursor, KernelCursor, Consumed, PanicsOnlyWhenTruncated
  <2> QED BY <2>3, <2>4, <2>5, <2>6, <2>7 DEF IndInv
<1> QED BY <1>1, <1>2, <1>3, <1>4, <1>5

-----------------------------------------------------------------------------
(* The entry.                                                              *)

LEMMA EntryInv ==
  ASSUME IndInv, DecodeEmpty \/ DecodeTooShort \/ NegativeCount \/ BeginScalar \/ BeginScan
  PROVE  IndInv'
<1>1. /\ TypeOK /\ Entered /\ pc = "entry" /\ c = 0 /\ dst = old /\ n \in Int
      /\ (n >= 0 => IsLayout(0))
  BY DEF IndInv, TypeOK, Entered, OffsetsKnown, known, DecodeEmpty, DecodeTooShort,
         NegativeCount, BeginScalar, BeginScan, InDecode
<1>2. CASE DecodeEmpty
  <2>1. n = 0 /\ n \in Nat /\ n <= len /\ 0 \in Nat /\ Return(0) /\ IsLayout(n)
    BY <1>1, <1>2 DEF DecodeEmpty, TypeOK
  <2>2. start[n] = 0 /\ cl = 0
    BY <2>1 DEF IsLayout, cl, controlLen
  <2>3. 0 = cl + start[n] /\ 0 <= srcLen
    BY <1>1, <2>2 DEF TypeOK
  <2> QED BY <1>1, <2>1, <2>3, ReturnInv
<1>3. CASE DecodeTooShort \/ NegativeCount
  <2>1. Panic /\ (len < n \/ n < 0)
    BY <1>3 DEF DecodeTooShort, NegativeCount
  <2>2. PanicsOnlyWhenTruncated'
    BY <1>1, <2>1 DEF Panic, PanicsOnlyWhenTruncated, callVars
  <2>3. n >= 0 => IsLayout(c)
    BY <1>1
  <2> QED BY <1>1, <2>1, <2>2, <2>3, PanicInv
<1>4. CASE BeginScalar
  <2>1. 0 < n /\ n <= len /\ HandOver(0, 0) /\ n >= 0 /\ groups \in Nat
    BY <1>1, <1>4, GroupCounts DEF BeginScalar, InDecode, TypeOK
  <2>2. 0 \in 0 .. groups /\ 0 \in Nat /\ 4 * 0 = 0
    BY <2>1
  <2>3. IsLayout(4 * 0) /\ 0 = start[4 * 0]
    BY <1>1, <2>1, <2>2 DEF IsLayout
  <2> QED BY <1>1, <2>1, <2>2, <2>3, HandOverInv
<1>5. CASE BeginScan
  <2>1. /\ 0 < n /\ n <= len /\ platform \in hasDecodeKernel
        /\ pc' = "scan" /\ g' = 0 /\ off' = 0
        /\ UNCHANGED <<platform, src, srcLen, n, len, old, dst, safe, c, ki, shift, key,
                       dp, ret, start>>
    BY <1>1, <1>5 DEF BeginScan, InDecode, callVars, tailVars, TypeOK
  <2>2. groups \in Nat /\ groups' = groups /\ dataLen' = dataLen /\ IsLayout(0)
    BY <1>1, <2>1, GroupCounts DEF groups, dataLen, cl
  <2>3. TypeOK'
    BY <1>1, <2>1 DEF TypeOK
  <2>4. Entered'
    BY <1>1, <2>1 DEF Entered
  <2>5. OffsetsKnown'
    <3>1. known' = 0
      BY <2>1 DEF known
    <3> QED BY <2>1, <2>2, <3>1, SameLayout DEF OffsetsKnown
  <2>6. ScanCursor'
    <3>1. start'[4 * g'] = 0
      BY <2>1, <2>2 DEF IsLayout
    <3>2. LoadsFit(g)'
      BY <2>1 DEF LoadsFit
    <3> QED BY <2>1, <2>2, <3>1, <3>2 DEF ScanCursor
  <2>7. (KernelCursor /\ TailCursor /\ Consumed /\ PanicsOnlyWhenTruncated)'
    BY <2>1 DEF KernelCursor, TailCursor, Consumed, PanicsOnlyWhenTruncated
  <2> QED BY <2>3, <2>4, <2>5, <2>6, <2>7 DEF IndInv
<1> QED BY <1>2, <1>3, <1>4, <1>5

-----------------------------------------------------------------------------
(* The scan.                                                               *)

LEMMA ScanGroupInv ==
  ASSUME IndInv, ScanGroup
  PROVE  IndInv'
<1> DEFINE k == src[g]
<1>1. /\ pc = "scan" /\ pc' = "scan" /\ g < groups /\ WideFits /\ g' = g + 1
      /\ off' = off + lengthTable[k]
      /\ start' = [i \in 0 .. n |-> IF i \in 4 * g + 1 .. 4 * g + 4
                                    THEN off + cursor(k, i - 4 * g) ELSE start[i]]
      /\ UNCHANGED <<platform, src, srcLen, n, len, old, dst, safe, c, ki, shift, key,
                     dp, ret>>
  BY DEF ScanGroup, knowGroup, callVars, tailVars
<1>2. TypeOK /\ Entered /\ ScanCursor /\ IsLayout(4 * g)
  BY <1>1 DEF IndInv, OffsetsKnown, known, Entered, TypeOK
<1>3. /\ n \in Nat /\ 0 < n /\ srcLen \in Nat /\ g \in Nat /\ off \in Nat
      /\ off = start[4 * g] /\ LoadsFit(g)
  BY <1>1, <1>2 DEF TypeOK, Entered, ScanCursor
<1>4. /\ cl \in Nat /\ groups \in Nat /\ groups <= cl /\ 4 * groups <= n
      /\ groups' = groups /\ dataLen' = dataLen /\ dataLen \in Int /\ cl + dataLen = srcLen
  BY <1>1, <1>3, GroupCounts DEF groups, dataLen, cl
<1>5. off + 16 <= dataLen
  BY <1>1 DEF WideFits, wide
\* The control byte is in the stream, since 16 data bytes come after it.
<1>6. k \in Byte
  <2>1. g \in 0 .. srcLen - 1
    BY <1>1, <1>3, <1>4, <1>5
  <2> QED BY <1>2, <2>1 DEF TypeOK
<1>7. /\ cursor(k, 0) = 0 /\ lengthTable[k] = cursor(k, 4) /\ lengthTable[k] \in 4 .. 16
      /\ \A j \in 0 .. 3 : cursor(k, j + 1) = cursor(k, j) + laneCode(k, j) + 1
      /\ \A j \in 0 .. 4 : cursor(k, j) \in 0 .. 16
  <2>1. \A j \in 0 .. 4 : cursor(k, j) \in 0 .. 16
    BY <1>6, CursorType DEF wide
  <2>2. \A j \in 0 .. 3 : cursor(k, j + 1) = cursor(k, j) + laneCode(k, j) + 1
    BY <1>6, CursorSteps
  <2> QED BY <1>6, <2>1, <2>2, CursorSteps, LengthType DEF wide
<1>8. \A j \in 0 .. 4 : start'[4 * g + j] = off + cursor(k, j)
  <2> TAKE j \in 0 .. 4
  <2>1. 4 * g + j \in 0 .. n
    BY <1>1, <1>3, <1>4
  <2>2. CASE j = 0
    BY <1>1, <1>3, <1>7, <2>1, <2>2
  <2>3. CASE j \in 1 .. 4
    <3>1. 4 * g + j \in 4 * g + 1 .. 4 * g + 4 /\ (4 * g + j) - 4 * g = j
      BY <1>3, <2>3
    <3> QED BY <1>1, <2>1, <3>1
  <2> QED BY <2>2, <2>3
<1>9. \A i \in 0 .. 4 * g : start'[i] = start[i]
  BY <1>1, <1>3, <1>4
<1> HIDE DEF k
<1>10. TypeOK'
  <2>1. \A i \in 4 * g + 1 .. 4 * g + 4 : off + cursor(k, i - 4 * g) \in Nat
    <3> TAKE i \in 4 * g + 1 .. 4 * g + 4
    <3>1. i - 4 * g \in 0 .. 4
      BY <1>3
    <3> QED BY <1>3, <1>7, <3>1
  <2>2. start' \in [0 .. n -> Nat]
    BY <1>1, <1>2, <2>1 DEF TypeOK
  <2>3. lengthTable[k] \in Nat /\ off' = off + lengthTable[k] /\ g' = g + 1
    BY <1>1, <1>7 DEF k
  <2>4. off' \in Nat /\ g' \in Nat
    BY <1>3, <2>3
  <2> QED BY <1>1, <1>2, <2>2, <2>4 DEF TypeOK
<1>11. IsLayout(4 * g)'
  <2>1. start'[0] = 0
    BY <1>2, <1>3, <1>9 DEF IsLayout
  <2>2. ASSUME NEW i \in 0 .. 4 * g + 3
        PROVE  start'[i + 1] = start'[i] + codeOf(i) + 1
    <3>1. CASE i < 4 * g
      <4>1. i \in 0 .. 4 * g - 1 /\ i \in 0 .. 4 * g /\ i + 1 \in 0 .. 4 * g
        BY <1>3, <3>1
      <4> QED BY <1>2, <1>9, <4>1 DEF IsLayout
    <3>2. CASE i >= 4 * g
      <4>1. PICK j \in 0 .. 3 : i = 4 * g + j
        <5>1. i - 4 * g \in 0 .. 3 /\ i = 4 * g + (i - 4 * g)
          BY <1>3, <3>2
        <5> QED BY <5>1
      <4>2. i \div 4 = g /\ i % 4 = j /\ j + 1 \in 0 .. 4 /\ j \in 0 .. 4
            /\ i + 1 = 4 * g + (j + 1)
        BY <1>3, <4>1
      <4>3. codeOf(i) = laneCode(k, j)
        BY <4>2 DEF codeOf, k
      <4>4. start'[i + 1] = off + cursor(k, j + 1) /\ start'[i] = off + cursor(k, j)
        BY <1>8, <4>1, <4>2
      <4>5. cursor(k, j + 1) = cursor(k, j) + laneCode(k, j) + 1
        BY <1>7
      <4>6. laneCode(k, j) \in 0 .. 3 /\ cursor(k, j) \in 0 .. 16
        BY <1>6, <1>7, <4>2, LaneCodeType DEF k, Lane
      <4> QED BY <1>3, <4>3, <4>4, <4>5, <4>6
    <3> QED BY <1>3, <3>1, <3>2
  <2>3. \A i \in 0 .. 4 * g + 3 : codeOf(i)' = codeOf(i)
    BY <1>1 DEF codeOf
  <2>4. 4 * g' - 1 = 4 * g + 3
    BY <1>1, <1>3
  <2>5. \A i \in 0 .. 4 * g' - 1 : start'[i + 1] = start'[i] + codeOf(i)' + 1
    BY <2>2, <2>3, <2>4
  <2> QED BY <2>1, <2>5 DEF IsLayout
<1>12. OffsetsKnown'
  <2>1. known' = 4 * g'
    BY <1>1 DEF known
  <2> QED BY <1>11, <2>1 DEF OffsetsKnown
<1>13. ScanCursor'
  <2>1. g' <= groups' /\ off' = start'[4 * g'] /\ off' <= dataLen'
    <3>1. 4 * g' = 4 * g + 4 /\ 4 \in 0 .. 4
      BY <1>1, <1>3
    <3>2. start'[4 * g + 4] = off + lengthTable[k]
      BY <1>7, <1>8, <3>1
    <3>3. off' = off + lengthTable[k] /\ lengthTable[k] \in 4 .. 16
      BY <1>1, <1>7 DEF k
    <3>4. off' <= dataLen
      BY <1>3, <1>4, <1>5, <3>3
    <3>5. off' = start'[4 * g']
      BY <3>1, <3>2, <3>3
    <3>6. g' <= groups
      BY <1>1, <1>3, <1>4
    <3> QED BY <1>4, <3>4, <3>5, <3>6
  <2>2. LoadsFit(g)'
    <3>1. ASSUME NEW h \in 0 .. g PROVE start'[4 * h] + wide <= dataLen
      <4>1. CASE h = g
        <5>1. start'[4 * h] = off
          BY <1>3, <1>9, <4>1
        <5> QED BY <1>5, <5>1 DEF wide
      <4>2. CASE h \in 0 .. g - 1
        <5>1. 4 * h \in 0 .. 4 * g
          BY <1>3, <4>2
        <5> QED BY <1>3, <1>9, <4>2, <5>1 DEF LoadsFit
      <4> QED BY <1>3, <4>1, <4>2
    <3>2. g' - 1 = g
      BY <1>1, <1>3
    <3> QED BY <1>4, <3>1, <3>2 DEF LoadsFit
  <2> QED BY <2>1, <2>2 DEF ScanCursor
<1>14. (Entered /\ KernelCursor /\ TailCursor /\ Consumed /\ PanicsOnlyWhenTruncated)'
  BY <1>1, <1>2 DEF Entered, KernelCursor, TailCursor, Consumed, PanicsOnlyWhenTruncated
<1> QED BY <1>10, <1>12, <1>13, <1>14 DEF IndInv

LEMMA ScanEndInv ==
  ASSUME IndInv, ScanToKernel \/ ScanToTail
  PROVE  IndInv'
<1>1. pc = "scan" /\ ScanEnds /\ TypeOK /\ Entered /\ ScanCursor /\ IsLayout(4 * g)
  BY SMTT(40) DEF ScanToKernel, ScanToTail, ScanEnds, IndInv, OffsetsKnown, known, Entered, TypeOK
<1>2. /\ n \in Nat /\ 0 < n /\ n <= len /\ srcLen \in Nat /\ g \in Nat /\ off \in Nat
      /\ g <= groups /\ off = start[4 * g] /\ LoadsFit(g) /\ (g > 0 => off <= dataLen)
      /\ dst = old
  BY <1>1 DEF TypeOK, Entered, ScanCursor
<1>3. cl \in Nat /\ groups \in Nat /\ dataLen \in Int
  BY <1>2, GroupCounts DEF dataLen
<1>4. CASE ScanToKernel
  <2>1. /\ g > 0 /\ pc' = "kernel" /\ safe' = g /\ g' = 0 /\ off' = 0
        /\ UNCHANGED <<platform, src, srcLen, n, len, old, dst, c, ki, shift, key, dp,
                       ret, start>>
    BY <1>4 DEF ScanToKernel, callVars, tailVars
  <2>2. groups' = groups /\ dataLen' = dataLen
    BY <2>1 DEF groups, dataLen, cl
  <2>3. TypeOK'
    BY <1>1, <1>2, <2>1 DEF TypeOK
  <2>4. OffsetsKnown'
    <3>1. known' = 4 * g
      BY <2>1 DEF known
    <3> QED BY <1>1, <2>1, <3>1, SameLayout DEF OffsetsKnown
  <2>5. KernelCursor'
    <3>1. LoadsFit(safe)'
      BY <1>2, <2>1, <2>2 DEF LoadsFit
    <3>2. start'[4 * g'] = 0
      BY <1>1, <2>1 DEF IsLayout
    <3>3. g < groups => start[4 * g] + wide > dataLen
      BY <1>1, <1>2, <1>3 DEF ScanEnds, WideFits, wide
    <3> QED BY <1>2, <1>3, <2>1, <2>2, <3>1, <3>2, <3>3 DEF KernelCursor
  <2>6. (Entered /\ ScanCursor /\ TailCursor /\ Consumed /\ PanicsOnlyWhenTruncated)'
    BY <1>1, <2>1 DEF Entered, ScanCursor, TailCursor, Consumed, PanicsOnlyWhenTruncated
  <2> QED BY <2>3, <2>4, <2>5, <2>6 DEF IndInv
<1>5. CASE ScanToTail
  <2>1. g = 0 /\ HandOver(0, 0) /\ 0 \in 0 .. groups /\ 0 \in Nat /\ 4 * 0 = 0
    BY <1>3, <1>5 DEF ScanToTail
  <2>2. IsLayout(4 * 0) /\ 0 = start[4 * 0]
    BY <1>1, <2>1 DEF IsLayout
  <2> QED BY <1>1, <1>2, <2>1, <2>2, HandOverInv
<1> QED BY <1>4, <1>5

-----------------------------------------------------------------------------
(* The kernel.                                                             *)

\* The groups of the kernel are in the stream, and one lies behind the other.
LEMMA KernelOffsets ==
  ASSUME IndInv, pc = "kernel", NEW h \in 0 .. safe - 1
  PROVE  /\ h \in Nat /\ h < cl /\ cl + start[4 * h] + wide <= srcLen
         /\ start[4 * h] \in Nat /\ src[h] \in Byte
         /\ start[4 * h + 4] = start[4 * h] + lengthTable[src[h]]
         /\ \A lane \in Lane : start[4 * h + lane] = start[4 * h] + cursor(src[h], lane)
<1> DEFINE at == start[4 * h]
<1>1. TypeOK /\ Entered /\ KernelCursor /\ IsLayout(4 * safe)
  BY DEF IndInv, OffsetsKnown, known, Entered, TypeOK
<1>2. /\ n \in Nat /\ 0 < n /\ srcLen \in Nat /\ h \in Nat /\ h < safe
      /\ safe \in Nat /\ safe <= groups /\ LoadsFit(safe)
  BY <1>1 DEF TypeOK, Entered, KernelCursor
<1>3. cl \in Nat /\ groups \in Nat /\ groups <= cl /\ 4 * groups <= n
  BY <1>2, GroupCounts
<1>4. at \in Nat
  <2>1. 4 * h \in 0 .. n
    BY <1>2, <1>3
  <2> QED BY <1>1, <2>1 DEF TypeOK
<1>5. cl + at + 16 <= srcLen /\ h < cl
  <2>1. at + 16 <= dataLen
    BY <1>2 DEF LoadsFit, wide
  <2> QED BY <1>2, <1>3, <1>4, <2>1 DEF dataLen
<1>6. src[h] \in Byte
  <2>1. h \in 0 .. srcLen - 1
    BY <1>2, <1>3, <1>4, <1>5
  <2> QED BY <1>1, <2>1 DEF TypeOK
<1> DEFINE k == src[h]
<1>7. \A j \in Lane :
        /\ codeOf(4 * h + j) = laneCode(k, j)
        /\ start[4 * h + j + 1] = start[4 * h + j] + laneCode(k, j) + 1
  <2> TAKE j \in Lane
  <2>1. (4 * h + j) \div 4 = h /\ (4 * h + j) % 4 = j /\ 4 * h + j \in 0 .. 4 * safe - 1
    BY <1>2 DEF Lane
  <2>2. codeOf(4 * h + j) = laneCode(k, j)
    BY <2>1 DEF codeOf
  <2>3. \A i \in 0 .. 4 * safe - 1 : start[i + 1] = start[i] + codeOf(i) + 1
    BY <1>1 DEF IsLayout
  <2> QED BY <2>1, <2>2, <2>3
<1> HIDE DEF k
<1>8. /\ laneCode(k, 0) \in 0 .. 3 /\ laneCode(k, 1) \in 0 .. 3
      /\ laneCode(k, 2) \in 0 .. 3 /\ laneCode(k, 3) \in 0 .. 3
  BY <1>6, LaneCodeType DEF Lane, k
<1>9. /\ start[4 * h + 1] = at + laneCode(k, 0) + 1
      /\ start[4 * h + 2] = start[4 * h + 1] + laneCode(k, 1) + 1
      /\ start[4 * h + 3] = start[4 * h + 2] + laneCode(k, 2) + 1
      /\ start[4 * h + 4] = start[4 * h + 3] + laneCode(k, 3) + 1
  <2>1. 0 \in Lane /\ 1 \in Lane /\ 2 \in Lane /\ 3 \in Lane
    BY DEF Lane
  <2>2. /\ 4 * h + 0 = 4 * h /\ 4 * h + 0 + 1 = 4 * h + 1 /\ 4 * h + 1 + 1 = 4 * h + 2
        /\ 4 * h + 2 + 1 = 4 * h + 3 /\ 4 * h + 3 + 1 = 4 * h + 4
    BY <1>2
  <2> QED BY <1>7, <2>1, <2>2
<1>10. /\ cursor(k, 0) = 0 /\ cursor(k, 1) = laneCode(k, 0) + 1
       /\ cursor(k, 2) = cursor(k, 1) + laneCode(k, 1) + 1
       /\ cursor(k, 3) = cursor(k, 2) + laneCode(k, 2) + 1
       /\ lengthTable[k] = cursor(k, 3) + laneCode(k, 3) + 1
  BY <1>6, <1>8, CursorSteps DEF k
<1>11. /\ start[4 * h] = at + cursor(k, 0) /\ start[4 * h + 1] = at + cursor(k, 1)
       /\ start[4 * h + 2] = at + cursor(k, 2) /\ start[4 * h + 3] = at + cursor(k, 3)
       /\ start[4 * h + 4] = at + lengthTable[k]
  <2> HIDE DEF at
  <2>1. start[4 * h] = at
    BY DEF at
  <2> QED BY <1>4, <1>8, <1>9, <1>10, <2>1
<1>12. \A lane \in Lane : start[4 * h + lane] = at + cursor(k, lane)
  <2> TAKE lane \in Lane
  <2>1. lane \in {0, 1, 2, 3} /\ 4 * h + 0 = 4 * h
    BY <1>2 DEF Lane
  <2> QED BY <1>11, <2>1
<1> QED BY <1>2, <1>4, <1>5, <1>6, <1>11, <1>12 DEF k, wide

\* What the kernel may rely on when it takes group g: the layout of the group,
\* its control byte, and 16 bytes to load.
LEMMA KernelFacts ==
  ASSUME IndInv, pc = "kernel", g < safe
  PROVE  /\ n \in Nat /\ len \in Nat /\ srcLen \in Nat /\ g \in Nat /\ off \in Nat
         /\ safe \in Nat /\ safe <= groups /\ groups \in Nat /\ 4 * groups <= n /\ n <= len
         /\ cl \in Nat /\ g < cl /\ cl + off + wide <= srcLen
         /\ off = start[4 * g] /\ src[g] \in Byte
         /\ start[4 * g + 4] = off + lengthTable[src[g]]
         /\ \A lane \in Lane : start[4 * g + lane] = off + cursor(src[g], lane)
<1>1. TypeOK /\ Entered /\ KernelCursor
  BY DEF IndInv
<1>2. /\ n \in Nat /\ 0 < n /\ n <= len /\ len \in Nat /\ srcLen \in Nat /\ g \in Nat
      /\ off \in Nat /\ safe \in Nat /\ safe <= groups /\ off = start[4 * g]
  BY <1>1 DEF TypeOK, Entered, KernelCursor
<1>3. cl \in Nat /\ groups \in Nat /\ 4 * groups <= n
  BY <1>2, GroupCounts
<1>4. g \in 0 .. safe - 1
  BY <1>2
<1> QED BY <1>2, <1>3, <1>4, KernelOffsets

LEMMA KernelGroupInv ==
  ASSUME IndInv, KernelGroup
  PROVE  IndInv'
<1>1. /\ pc = "kernel" /\ pc' = "kernel" /\ g < safe /\ g' = g + 1
      /\ off' = off + lengthTable[src[g]]
      /\ UNCHANGED <<platform, src, srcLen, n, len, old, safe, c, ki, shift, key, dp,
                     ret, start>>
  BY DEF KernelGroup, callVars, tailVars
<1>2. PICK tail \in TailBytes :
        dst' = [i \in DOMAIN dst |->
                  IF i \in 4 * g .. 4 * g + 3
                  THEN decodeGroup(platform, src[g], wideLoad(off), tail)[i - 4 * g]
                  ELSE dst[i]]
  BY DEF KernelGroup
<1>3. TypeOK /\ Entered /\ OffsetsKnown /\ KernelCursor
  BY DEF IndInv
<1>4. /\ n \in Nat /\ len \in Nat /\ srcLen \in Nat /\ g \in Nat /\ off \in Nat
      /\ safe \in Nat /\ safe <= groups /\ groups \in Nat /\ 4 * groups <= n
      /\ cl \in Nat /\ cl + off + wide <= srcLen /\ src[g] \in Byte
      /\ start[4 * g + 4] = off + lengthTable[src[g]]
  BY <1>1, KernelFacts
<1>5. lengthTable[src[g]] \in 4 .. 16
  BY <1>4, LengthType DEF wide
<1>6. groups' = groups /\ dataLen' = dataLen
  BY <1>1 DEF groups, dataLen, cl
<1>7. TypeOK'
  <2> DEFINE vals == decodeGroup(platform, src[g], wideLoad(off), tail)
  <2>1. wideLoad(off) \in Vector
    <3>1. \A i \in Index : cl + off + i \in 0 .. srcLen - 1
      BY <1>4 DEF Index, wide
    <3> QED BY <1>3, <3>1 DEF wideLoad, Vector, TypeOK
  <2>2. vals \in [Lane -> Value]
    BY <1>1, <1>3, <1>4, <2>1, TailBytesAssumption, DecodeGroupType DEF Entered
  <2> HIDE DEF vals
  <2>3. \A i \in 4 * g .. 4 * g + 3 : vals[i - 4 * g] \in Value
    <3>1. \A i \in 4 * g .. 4 * g + 3 : i - 4 * g \in Lane
      BY <1>4 DEF Lane
    <3> QED BY <2>2, <3>1
  <2>4. dst' \in [0 .. len + groupSize - 1 -> Value]
    BY <1>2, <1>3, <2>3 DEF TypeOK, vals
  <2>5. off' \in Nat /\ g' \in Nat
    BY <1>1, <1>4, <1>5
  <2> QED BY <1>1, <1>3, <2>4, <2>5 DEF TypeOK
<1>8. OffsetsKnown'
  <2>1. known = 4 * safe /\ known' = 4 * safe
    BY <1>1 DEF known
  <2> QED BY <1>1, <1>3, <2>1, SameLayout DEF OffsetsKnown
<1>9. KernelCursor'
  <2>1. 4 * g' = 4 * g + 4 /\ off' = start'[4 * g'] /\ g' <= safe
    BY <1>1, <1>4
  <2>2. LoadsFit(safe)'
    BY <1>1, <1>3, <1>6 DEF LoadsFit, KernelCursor
  <2> QED BY <1>1, <1>3, <1>6, <2>1, <2>2 DEF KernelCursor
<1>10. (Entered /\ ScanCursor /\ TailCursor /\ Consumed /\ PanicsOnlyWhenTruncated)'
  BY <1>1, <1>3 DEF Entered, ScanCursor, TailCursor, Consumed, PanicsOnlyWhenTruncated
<1> QED BY <1>7, <1>8, <1>9, <1>10 DEF IndInv

LEMMA KernelToTailInv ==
  ASSUME IndInv, KernelToTail
  PROVE  IndInv'
<1>1. pc = "kernel" /\ g = safe /\ HandOver(safe, off)
  BY DEF KernelToTail
<1>2. TypeOK /\ Entered /\ KernelCursor /\ IsLayout(4 * safe)
  BY <1>1 DEF IndInv, OffsetsKnown, known, Entered, TypeOK
<1>3. /\ n \in Nat /\ 0 < n /\ n <= len /\ srcLen \in Nat /\ off \in Nat /\ safe \in Nat
      /\ 0 < safe /\ safe <= groups /\ off = start[4 * safe] /\ off <= dataLen
  BY <1>1, <1>2 DEF TypeOK, Entered, KernelCursor
<1>4. groups \in Nat /\ cl \in Nat
  BY <1>3, GroupCounts
<1>5. safe \in 0 .. groups /\ safe # 0 /\ cl + off <= srcLen
  BY <1>3, <1>4 DEF dataLen
<1> QED BY <1>1, <1>2, <1>3, <1>5, HandOverInv

-----------------------------------------------------------------------------
(* decodeTail.                                                             *)

\* decodeTail takes the code of integer c from the right control byte.
LEMMA TailFacts ==
  ASSUME IndInv, pc = "tail", c < n
  PROVE  /\ n \in Nat /\ len \in Nat /\ srcLen \in Nat /\ c \in Nat /\ ki \in Nat
         /\ dp \in Nat /\ n <= len /\ cl \in Nat /\ cl + dataLen = srcLen /\ dataLen \in Nat
         /\ tailKey \in Byte /\ tailShift \in {0, 2, 4, 6}
         /\ tailCode = codeOf(c) /\ tailCode \in 0 .. 3
         /\ (IF Reload THEN ki + 1 ELSE ki) < cl
         /\ tailKey = src[IF Reload THEN ki + 1 ELSE ki]
         /\ tailShift + 2 = 2 * ((c + 1) - 4 * (IF Reload THEN ki + 1 ELSE ki))
<1>1. TypeOK /\ Entered /\ TailCursor
  BY DEF IndInv
<1>2. /\ n \in Nat /\ 0 < n /\ len \in Nat /\ srcLen \in Nat /\ c \in Nat /\ ki \in Nat
      /\ dp \in Nat /\ n <= len /\ cl <= srcLen /\ shift \in {0, 2, 4, 6, 8}
      /\ shift = 2 * (c - 4 * ki) /\ ki < cl /\ key = src[ki]
  BY <1>1 DEF TypeOK, Entered, TailCursor
<1>3. cl \in Nat /\ n <= 4 * cl /\ cl + dataLen = srcLen /\ dataLen \in Nat
  BY <1>2, GroupCounts DEF dataLen
<1> DEFINE k == IF Reload THEN ki + 1 ELSE ki
<1>4. k \in Nat /\ k < cl /\ tailKey = src[k]
  BY <1>2, <1>3 DEF Reload, tailKey
<1>5. tailShift \in {0, 2, 4, 6} /\ tailShift = 2 * (c - 4 * k)
  BY <1>2 DEF Reload, tailShift
<1> HIDE DEF k
<1>6. tailKey \in Byte
  <2>1. k \in 0 .. srcLen - 1
    BY <1>2, <1>3, <1>4
  <2> QED BY <1>1, <1>4, <2>1 DEF TypeOK
<1>7. c \div 4 = k /\ c % 4 = tailShift \div 2 /\ tailShift \div 2 \in 0 .. 3
  <2>1. c - 4 * k \in 0 .. 3 /\ tailShift \div 2 = c - 4 * k
    BY <1>2, <1>4, <1>5
  <2> QED BY <1>2, <1>4, <2>1
<1>8. tailCode = codeOf(c) /\ tailCode \in 0 .. 3
  BY <1>4, <1>6, <1>7, LaneCodeType DEF tailCode, codeOf, Lane
<1>9. tailShift + 2 = 2 * ((c + 1) - 4 * k)
  BY <1>2, <1>4, <1>5
<1> QED BY <1>2, <1>3, <1>4, <1>5, <1>6, <1>8, <1>9 DEF k

LEMMA TailIntInv ==
  ASSUME IndInv, TailInt
  PROVE  IndInv'
<1>1. /\ pc = "tail" /\ pc' = "tail" /\ c < n /\ FitsInt
      /\ dst' = [dst EXCEPT ![c] = tailValue]
      /\ dp' = dp + tailCode + 1 /\ ki' = (IF Reload THEN ki + 1 ELSE ki)
      /\ key' = tailKey /\ shift' = tailShift + 2 /\ c' = c + 1
      /\ start' = [start EXCEPT ![c + 1] = dp']
      /\ UNCHANGED <<platform, src, srcLen, n, len, old, g, off, safe, ret>>
  BY DEF TailInt, callVars, groupVars
<1>2. TypeOK /\ Entered /\ TailCursor /\ IsLayout(c)
  BY <1>1 DEF IndInv, OffsetsKnown, known, Entered, TypeOK
<1>3. /\ n \in Nat /\ len \in Nat /\ srcLen \in Nat /\ c \in Nat /\ ki \in Nat
      /\ dp \in Nat /\ n <= len /\ cl \in Nat /\ cl + dataLen = srcLen /\ dataLen \in Nat
      /\ tailKey \in Byte /\ tailShift \in {0, 2, 4, 6}
      /\ tailCode = codeOf(c) /\ tailCode \in 0 .. 3
      /\ ki' < cl /\ tailKey = src[ki'] /\ shift' = 2 * (c' - 4 * ki')
  BY <1>1, TailFacts
<1>4. dp = start[c] /\ start \in [0 .. n -> Nat] /\ ki' \in Nat
  <2>1. dp = start[c] /\ start \in [0 .. n -> Nat] /\ ki \in Nat
    BY <1>1, <1>2 DEF TailCursor, TypeOK
  <2> QED BY <1>1, <2>1
<1>5. cl' = cl /\ dataLen' = dataLen
  BY <1>1 DEF cl, dataLen
<1>6. dp' \in Nat /\ dp' <= dataLen
  BY <1>1, <1>3 DEF FitsInt
<1>7. \A i \in 0 .. n : start'[i] = IF i = c + 1 THEN dp' ELSE start[i]
  BY <1>1, <1>4
<1>8. TypeOK'
  <2>1. tailValue \in Value
    <3>1. \A j \in Lane : j <= tailCode => cl + dp + j \in 0 .. srcLen - 1
      BY <1>1, <1>3 DEF FitsInt, Lane
    <3>2. \A i \in 0 .. srcLen - 1 : src[i] \in Byte
      BY <1>2 DEF TypeOK
    <3>3. 0 \in Byte
      BY DEF Byte
    <3>4. \A j \in Lane : (IF j <= tailCode THEN src[cl + dp + j] ELSE 0) \in Byte
      BY <3>1, <3>2, <3>3
    <3> QED BY <3>4 DEF tailValue, Value
  <2>2. dst' \in [0 .. len + groupSize - 1 -> Value]
    BY <1>1, <1>2, <2>1 DEF TypeOK
  <2>3. start' \in [0 .. n -> Nat]
    BY <1>1, <1>4, <1>6
  <2>4. shift' \in {0, 2, 4, 6, 8} /\ key' \in Byte /\ c' \in Nat
    BY <1>1, <1>3
  <2> QED BY <1>1, <1>2, <1>4, <1>6, <2>2, <2>3, <2>4 DEF TypeOK
<1>9. OffsetsKnown'
  <2>1. known' = c + 1
    BY <1>1 DEF known
  <2>2. start'[0] = 0
    BY <1>2, <1>3, <1>7 DEF IsLayout
  <2>3. ASSUME NEW i \in 0 .. c
        PROVE  start'[i + 1] = start'[i] + codeOf(i) + 1
    <3>1. i \in 0 .. n /\ i + 1 \in 0 .. n /\ i # c + 1
      BY <1>1, <1>3
    <3>2. CASE i = c
      BY <1>1, <1>3, <1>4, <1>7, <3>1, <3>2
    <3>3. CASE i # c
      <4>1. i \in 0 .. c - 1 /\ i + 1 # c + 1
        BY <1>3, <3>3
      <4> QED BY <1>2, <1>7, <3>1, <4>1 DEF IsLayout
    <3> QED BY <3>2, <3>3
  <2>4. \A i \in 0 .. c : codeOf(i)' = codeOf(i)
    BY <1>1 DEF codeOf
  <2>5. (c + 1) - 1 = c
    BY <1>3
  <2> QED BY <2>1, <2>2, <2>3, <2>4, <2>5 DEF OffsetsKnown, IsLayout
<1>10. TailCursor'
  <2>1. start'[c'] = dp' /\ c' <= n
    BY <1>1, <1>3, <1>7
  <2>2. key' = src'[ki']
    BY <1>1, <1>3
  <2> QED BY <1>1, <1>3, <1>5, <1>6, <2>1, <2>2 DEF TailCursor
<1>11. (Entered /\ ScanCursor /\ KernelCursor /\ Consumed /\ PanicsOnlyWhenTruncated)'
  BY <1>1, <1>2, <1>5 DEF Entered, ScanCursor, KernelCursor, Consumed,
                          PanicsOnlyWhenTruncated
<1> QED BY <1>8, <1>9, <1>10, <1>11 DEF IndInv

LEMMA TailEndInv ==
  ASSUME IndInv, TailPanic \/ TailDone
  PROVE  IndInv'
<1>1. pc = "tail" /\ TypeOK /\ Entered /\ TailCursor /\ IsLayout(c)
  BY DEF TailPanic, TailDone, IndInv, OffsetsKnown, known, Entered, TypeOK
<1>2. CASE TailPanic
  <2>1. Panic /\ c < n /\ ~FitsInt
    BY <1>2 DEF TailPanic
  <2>2. /\ cl \in Nat /\ dp \in Nat /\ cl + dataLen = srcLen /\ dataLen \in Nat
        /\ tailCode = codeOf(c) /\ tailCode \in 0 .. 3 /\ dp = start[c] /\ srcLen \in Nat
    BY <1>1, <2>1, TailFacts DEF TailCursor
  <2>3. cl + start[c] + codeOf(c) >= srcLen
    BY <2>1, <2>2 DEF FitsInt
  <2>4. UNCHANGED <<src, srcLen, n, c, start>> /\ pc' = "panicked" /\ cl' = cl
    BY <2>1 DEF Panic, callVars, tailVars, cl
  <2>5. IsLayout(c)' /\ codeOf(c)' = codeOf(c)
    BY <1>1, <2>4 DEF IsLayout, codeOf
  <2>6. PanicsOnlyWhenTruncated'
    BY <2>1, <2>3, <2>4, <2>5 DEF PanicsOnlyWhenTruncated
  <2> QED BY <1>1, <2>1, <2>6, PanicInv
<1>3. CASE TailDone
  <2>1. Return(cl + dp) /\ c = n
    BY <1>3 DEF TailDone
  <2>2. /\ n \in Nat /\ 0 < n /\ n <= len /\ dp \in Nat /\ dp = start[n] /\ dp <= dataLen
        /\ srcLen \in Nat
    BY <1>1, <2>1 DEF TypeOK, Entered, TailCursor
  <2>3. cl \in Nat
    BY <2>2, GroupCounts
  <2>4. cl + dp \in Nat /\ cl + dp = cl + start[n] /\ cl + dp <= srcLen
    BY <2>2, <2>3 DEF dataLen
  <2> QED BY <1>1, <2>1, <2>2, <2>4, ReturnInv
<1> QED BY <1>2, <1>3

-----------------------------------------------------------------------------

LEMMA StutterInv ==
  ASSUME IndInv, UNCHANGED vars
  PROVE  IndInv'
<1>1. UNCHANGED <<pc, platform, src, srcLen, n, len, old, dst, g, off, safe, c, ki, shift,
                  key, dp, ret, start>>
  BY DEF vars, callVars, groupVars, tailVars
<1>2. TypeOK' /\ Entered'
  BY <1>1 DEF IndInv, TypeOK, Entered, cl
<1>3. OffsetsKnown'
  BY <1>1 DEF IndInv, OffsetsKnown, known, IsLayout, codeOf
<1>4. ScanCursor' /\ KernelCursor'
  BY <1>1 DEF IndInv, ScanCursor, KernelCursor, LoadsFit, groups, dataLen, cl
<1>5. TailCursor' /\ Consumed'
  BY <1>1 DEF IndInv, TailCursor, Consumed, dataLen, cl
<1>6. PanicsOnlyWhenTruncated'
  BY <1>1 DEF IndInv, PanicsOnlyWhenTruncated, IsLayout, codeOf, cl
<1> QED BY <1>2, <1>3, <1>4, <1>5, <1>6 DEF IndInv

LEMMA StepInv == IndInv /\ Step => IndInv'
<1> SUFFICES ASSUME IndInv, Step PROVE IndInv'
  OBVIOUS
<1>1. CASE DecodeEmpty \/ DecodeTooShort \/ NegativeCount \/ BeginScalar \/ BeginScan
  BY <1>1, EntryInv
<1>2. CASE ScanGroup
  BY <1>2, ScanGroupInv
<1>3. CASE ScanToKernel \/ ScanToTail
  BY <1>3, ScanEndInv
<1>4. CASE KernelGroup
  BY <1>4, KernelGroupInv
<1>5. CASE KernelToTail
  BY <1>5, KernelToTailInv
<1>6. CASE TailInt
  BY <1>6, TailIntInv
<1>7. CASE TailPanic \/ TailDone
  BY <1>7, TailEndInv
<1> QED BY <1>1, <1>2, <1>3, <1>4, <1>5, <1>6, <1>7 DEF Step

\* The inductive invariant holds whatever bytes, count and destination Decode is
\* given, on every target.
THEOREM Invariance == Spec => []IndInv
<1>1. Init => IndInv
  BY InitInv
<1>2. IndInv /\ [Next]_vars => IndInv'
  BY CallInv, StepInv, StutterInv DEF Next, Stop
<1> QED BY <1>1, <1>2, PTL DEF Spec

\* Every variable of a call of Decode keeps its type: bytes stay bytes, and every
\* control byte read, table lookup and store is in its array.
THEOREM TypeCorrect == Spec => []TypeOK
<1>1. IndInv => TypeOK
  BY DEF IndInv
<1> QED BY <1>1, Invariance, PTL

\* safeGroups makes the unchecked 16-byte loads safe: whatever the control bytes
\* say, a kernel reads no byte that is not in src.
THEOREM NoLoadBeyondStream == Spec => []LoadInBounds
<1>1. IndInv => LoadInBounds
  <2> SUFFICES ASSUME IndInv, pc = "kernel", g < safe
               PROVE  g < srcLen /\ cl + off + wide <= srcLen
    BY DEF LoadInBounds
  <2>1. /\ srcLen \in Nat /\ g \in Nat /\ off \in Nat /\ cl \in Nat /\ g < cl
        /\ cl + off + wide <= srcLen
    BY KernelFacts
  <2> QED BY <2>1 DEF wide
<1> QED BY <1>1, Invariance, PTL

\* safeGroups gives away none of the groups that could be loaded.
THEOREM SafeGroupsIsLargest == Spec => []SafeIsLargest
<1>1. IndInv => SafeIsLargest
  BY DEF IndInv, SafeIsLargest, KernelCursor, LoadsFit
<1> QED BY <1>1, Invariance, PTL

\* Decode rejects nothing that it could decode: it panics for a destination that
\* is too short, a negative count, or at the integer where the stream ends.
THEOREM PanicsAreJustified == Spec => []PanicsOnlyWhenTruncated
<1>1. IndInv => PanicsOnlyWhenTruncated
  BY DEF IndInv
<1> QED BY <1>1, Invariance, PTL

-----------------------------------------------------------------------------
(* What is decoded.  From here on an RVV register has at most 255 bytes,   *)
(* if RISC-V is among the targets.                                         *)

GathersClear == \A p \in Targets : GatherClears(p)

\* A step that decodes nothing, and keeps the offsets of what is decoded.
LEMMA SamePrefix ==
  ASSUME TypeOK, DecodedPrefix, UNCHANGED <<src, srcLen, n, dst, old>>,
         decoded \in Nat, decoded' = decoded,
         \A i \in 0 .. decoded - 1 : start'[i] = start[i]
  PROVE  DecodedPrefix'
<1>1. cl' = cl
  BY DEF cl
<1>2. \A i \in 0 .. decoded - 1 : IntAt(i)' = IntAt(i)
  BY <1>1 DEF IntAt, codeOf
<1>3. \A i \in DOMAIN dst : i < decoded => i \in 0 .. decoded - 1
  BY DEF TypeOK
<1>4. \A i \in DOMAIN dst : dst[i] = IF i < decoded THEN IntAt(i)' ELSE old[i]
  BY <1>2, <1>3 DEF DecodedPrefix
<1> QED BY <1>4 DEF DecodedPrefix

\* Nothing is decoded before the kernel.
LEMMA NoPrefix ==
  ASSUME TypeOK, dst = old, decoded = 0
  PROVE  DecodedPrefix
BY DEF DecodedPrefix, TypeOK

LEMMA HandOverPrefix ==
  ASSUME IndInv, DecodedPrefix, pc \in {"entry", "scan", "kernel"}, n \in Nat, 0 < n,
         NEW done \in 0 .. groups, NEW consumed, HandOver(done, consumed), UNCHANGED dst,
         decoded = 4 * done, done > 0 => cl <= srcLen
  PROVE  DecodedPrefix'
<1>1. TypeOK /\ Entered /\ groups \in Nat /\ 4 * groups <= n /\ done \in Nat
  BY GroupCounts DEF IndInv
<1>2. CASE groupSize * done >= n /\ Return(cl + consumed)
  <2>1. UNCHANGED <<src, srcLen, n, dst, old, start>> /\ decoded' = n /\ n = 4 * done
    BY <1>1, <1>2 DEF Return, callVars, decoded, groupSize
  <2> QED BY <1>1, <2>1, SamePrefix
<1>3. CASE groupSize * done < n /\ cl > srcLen /\ Panic
  <2>1. cl \in Nat /\ srcLen \in Nat
    BY GroupCounts, <1>1 DEF TypeOK
  <2>2. done = 0
    BY <1>1, <1>3, <2>1
  <2>3. c = 0
    BY <1>1, <1>3, <2>2, <2>1 DEF Entered
  <2>4. UNCHANGED <<src, srcLen, n, dst, old, start>> /\ decoded' = 0 /\ decoded = 0
    BY <1>3, <2>2, <2>3 DEF Panic, callVars, tailVars, decoded
  <2> QED BY <1>1, <2>4, SamePrefix
<1>4. CASE pc' = "tail" /\ c' = groupSize * done /\ UNCHANGED <<callVars, start>>
  <2>1. UNCHANGED <<src, srcLen, n, dst, old, start>> /\ decoded' = 4 * done
    BY <1>4 DEF callVars, decoded, groupSize
  <2>2. 4 * done \in Nat
    BY <1>1
  <2> QED BY <1>1, <2>1, <2>2, SamePrefix
<1> QED BY <1>2, <1>3, <1>4 DEF HandOver, callVars

LEMMA EntryPrefix ==
  ASSUME IndInv, DecodedPrefix,
         DecodeEmpty \/ DecodeTooShort \/ NegativeCount \/ BeginScalar \/ BeginScan
  PROVE  DecodedPrefix'
<1>1. TypeOK /\ Entered /\ pc = "entry" /\ c = 0 /\ decoded = 0
  BY DEF IndInv, Entered, DecodeEmpty, DecodeTooShort, NegativeCount, BeginScalar,
         BeginScan, InDecode, decoded
<1>2. CASE DecodeEmpty
  <2>1. UNCHANGED <<src, srcLen, n, dst, old, start>> /\ decoded' = 0
    BY <1>1, <1>2 DEF DecodeEmpty, Return, callVars, decoded
  <2> QED BY <1>1, <2>1, SamePrefix
<1>3. CASE DecodeTooShort \/ NegativeCount
  <2>1. UNCHANGED <<src, srcLen, n, dst, old, start>> /\ decoded' = 0
    BY <1>1, <1>3 DEF DecodeTooShort, NegativeCount, Panic, callVars, tailVars, decoded
  <2> QED BY <1>1, <2>1, SamePrefix
<1>4. CASE BeginScalar
  <2>1. 0 < n /\ n \in Nat /\ HandOver(0, 0) /\ groups \in Nat
    BY <1>1, <1>4, GroupCounts DEF BeginScalar, InDecode, TypeOK
  <2>2. UNCHANGED dst
    BY <2>1 DEF HandOver, Return, Panic
  <2>3. 0 \in 0 .. groups /\ decoded = 4 * 0
    BY <1>1, <2>1
  <2> QED BY <1>1, <2>1, <2>2, <2>3, HandOverPrefix
<1>5. CASE BeginScan
  <2>1. UNCHANGED <<src, srcLen, n, dst, old, start>> /\ decoded' = 0
    BY <1>1, <1>5 DEF BeginScan, callVars, decoded
  <2> QED BY <1>1, <2>1, SamePrefix
<1> QED BY <1>2, <1>3, <1>4, <1>5

LEMMA ScanPrefix ==
  ASSUME IndInv, IndInv', DecodedPrefix, ScanGroup \/ ScanToKernel \/ ScanToTail
  PROVE  DecodedPrefix'
<1>1. TypeOK /\ TypeOK' /\ Entered /\ Entered' /\ pc = "scan" /\ decoded = 0 /\ dst = old
  BY DEF IndInv, Entered, ScanGroup, ScanToKernel, ScanToTail, ScanEnds, decoded
<1>2. CASE ScanGroup
  <2>1. dst' = old' /\ decoded' = 0
    BY <1>1, <1>2 DEF ScanGroup, callVars, decoded
  <2> QED BY <1>1, <2>1 DEF DecodedPrefix, TypeOK
<1>3. CASE ScanToKernel
  <2>1. UNCHANGED <<src, srcLen, n, dst, old, start>> /\ decoded' = 0
    BY <1>1, <1>3 DEF ScanToKernel, callVars, decoded
  <2> QED BY <1>1, <2>1, SamePrefix
<1>4. CASE ScanToTail
  <2>1. 0 < n /\ n \in Nat /\ HandOver(0, 0) /\ groups \in Nat
    BY <1>1, <1>4, GroupCounts DEF ScanToTail, Entered, TypeOK
  <2>2. UNCHANGED dst
    BY <2>1 DEF HandOver, Return, Panic
  <2>3. 0 \in 0 .. groups /\ decoded = 4 * 0
    BY <1>1, <2>1
  <2> QED BY <1>1, <2>1, <2>2, <2>3, HandOverPrefix
<1> QED BY <1>2, <1>3, <1>4

\* The kernel delivers the four integers of its group.
LEMMA KernelPrefix ==
  ASSUME GathersClear, IndInv, DecodedPrefix, KernelGroup
  PROVE  DecodedPrefix'
<1> DEFINE k == src[g]
           x == wideLoad(off)
<1>1. /\ pc = "kernel" /\ pc' = "kernel" /\ g < safe /\ g' = g + 1
      /\ UNCHANGED <<platform, src, srcLen, n, len, old, start>>
  BY DEF KernelGroup, callVars
<1>2. PICK tail \in TailBytes :
        dst' = [i \in DOMAIN dst |-> IF i \in 4 * g .. 4 * g + 3
                                     THEN decodeGroup(platform, k, x, tail)[i - 4 * g]
                                     ELSE dst[i]]
  BY DEF KernelGroup
<1>3. /\ TypeOK /\ platform \in hasDecodeKernel /\ platform \in Targets
      /\ decoded = 4 * g /\ decoded' = 4 * g'
  BY <1>1 DEF IndInv, Entered, TypeOK, decoded
<1>4. /\ n \in Nat /\ len \in Nat /\ srcLen \in Nat /\ g \in Nat /\ off \in Nat
      /\ cl \in Nat /\ cl + off + 16 <= srcLen /\ k \in Byte
      /\ \A lane \in Lane : start[4 * g + lane] = off + cursor(k, lane)
  BY <1>1, KernelFacts DEF wide
<1>5. x \in Vector
  <2>1. \A i \in Index : cl + off + i \in 0 .. srcLen - 1
    BY <1>4 DEF Index, wide
  <2> QED BY <1>3, <2>1 DEF wideLoad, Vector, TypeOK
<1>6. decodeGroup(platform, k, x, tail) = spreadValues(k, x)
  BY <1>3, <1>4, <1>5, TailBytesAssumption, DecodeGroupValues DEF GathersClear
<1>7. ASSUME NEW lane \in Lane
      PROVE  spreadValues(k, x)[lane] = IntAt(4 * g + lane)
  <2>1. codeOf(4 * g + lane) = laneCode(k, lane)
    <3>1. (4 * g + lane) \div 4 = g /\ (4 * g + lane) % 4 = lane
      BY <1>4 DEF Lane
    <3> QED BY <3>1 DEF codeOf
  <2>2. ASSUME NEW j \in Lane, j <= laneCode(k, lane)
        PROVE  x[cursor(k, lane) + j] = src[cl + start[4 * g + lane] + j]
    <3>1. cursor(k, lane) + j \in Index
      <4>1. j \in 0 .. laneCode(k, lane)
        BY <1>4, <2>2, LaneCodeType DEF Lane
      <4> QED BY <1>4, <4>1, BytePosition
    <3>2. x[cursor(k, lane) + j] = src[cl + off + (cursor(k, lane) + j)]
      BY <3>1 DEF wideLoad
    <3>3. cursor(k, lane) \in 0 .. 16
      BY <1>4, CursorType DEF Lane, wide
    <3>4. cl + off + (cursor(k, lane) + j) = cl + start[4 * g + lane] + j
      <4>1. start[4 * g + lane] = off + cursor(k, lane)
        BY <1>4
      <4> QED BY <1>4, <3>3, <4>1 DEF Lane
    <3> QED BY <3>2, <3>4
  <2> HIDE DEF x, k
  <2>3. spreadValues(k, x)[lane] = [j \in Lane |-> IF j <= laneCode(k, lane)
                                                   THEN x[cursor(k, lane) + j] ELSE 0]
    BY DEF spreadValues
  <2> QED BY <2>1, <2>2, <2>3 DEF IntAt
<1>8. cl' = cl /\ \A i : IntAt(i)' = IntAt(i)
  BY <1>1 DEF cl, IntAt, codeOf
<1> HIDE DEF k, x
<1>9. ASSUME NEW i \in DOMAIN dst
      PROVE  dst'[i] = IF i < 4 * g + 4 THEN IntAt(i) ELSE old[i]
  <2>1. i \in Nat /\ dst[i] = IF i < 4 * g THEN IntAt(i) ELSE old[i]
    BY <1>3 DEF TypeOK, DecodedPrefix
  <2>2. CASE i \in 4 * g .. 4 * g + 3
    <3>1. i - 4 * g \in Lane /\ 4 * g + (i - 4 * g) = i
      BY <1>4, <2>2 DEF Lane
    <3>2. dst'[i] = spreadValues(k, x)[i - 4 * g]
      BY <1>2, <1>6, <2>2
    <3>3. dst'[i] = IntAt(i)
      BY <1>7, <3>1, <3>2
    <3> QED BY <1>4, <2>2, <3>3
  <2>3. CASE i \notin 4 * g .. 4 * g + 3
    <3>1. dst'[i] = dst[i]
      BY <1>2, <2>3
    <3>2. i < 4 * g <=> i < 4 * g + 4
      BY <1>4, <2>1, <2>3
    <3> QED BY <2>1, <3>1, <3>2
  <2> QED BY <2>2, <2>3
<1>10. DOMAIN dst' = DOMAIN dst /\ decoded' = 4 * g + 4
  BY <1>1, <1>2, <1>3, <1>4
<1>11. \A i \in DOMAIN dst' : dst'[i] = IF i < decoded' THEN IntAt(i)' ELSE old'[i]
  BY <1>1, <1>8, <1>9, <1>10
<1> QED BY <1>11 DEF DecodedPrefix

\* decodeTail delivers one integer.
LEMMA TailPrefix ==
  ASSUME IndInv, DecodedPrefix, TailInt
  PROVE  DecodedPrefix'
<1>1. /\ pc = "tail" /\ pc' = "tail" /\ c < n /\ c' = c + 1
      /\ dst' = [dst EXCEPT ![c] = tailValue]
      /\ start' = [start EXCEPT ![c + 1] = dp']
      /\ UNCHANGED <<src, srcLen, n, len, old>>
  BY DEF TailInt, callVars
<1>2. /\ TypeOK /\ decoded = c /\ decoded' = c + 1 /\ dp = start[c]
      /\ start \in [0 .. n -> Nat]
  BY <1>1 DEF IndInv, TypeOK, TailCursor, decoded
<1>3. n \in Nat /\ c \in Nat /\ n <= len /\ len \in Nat /\ tailCode = codeOf(c)
  BY <1>1, TailFacts
<1>4. tailValue = IntAt(c)
  BY <1>2, <1>3 DEF tailValue, IntAt
<1>5. \A i \in 0 .. c : start'[i] = start[i]
  BY <1>1, <1>2, <1>3
<1>6. cl' = cl
  BY <1>1 DEF cl
<1>7. \A i \in 0 .. c : IntAt(i)' = IntAt(i)
  BY <1>1, <1>5, <1>6 DEF IntAt, codeOf
<1>8. ASSUME NEW i \in DOMAIN dst
      PROVE  dst'[i] = IF i < c + 1 THEN IntAt(i)' ELSE old[i]
  <2>1. i \in Nat /\ dst[i] = IF i < c THEN IntAt(i) ELSE old[i]
    BY <1>2 DEF TypeOK, DecodedPrefix
  <2>2. CASE i = c
    <3>1. dst'[i] = IntAt(i) /\ i \in 0 .. c
      BY <1>1, <1>3, <1>4, <2>2
    <3> QED BY <1>3, <1>7, <2>2, <3>1
  <2>3. CASE i < c
    <3>1. dst'[i] = IntAt(i) /\ i \in 0 .. c
      BY <1>1, <1>3, <2>1, <2>3
    <3> QED BY <1>3, <1>7, <2>3, <3>1
  <2>4. CASE i > c
    BY <1>1, <1>3, <2>1, <2>4
  <2> QED BY <1>3, <2>1, <2>2, <2>3, <2>4
<1>9. DOMAIN dst' = DOMAIN dst /\ old' = old
  BY <1>1
<1> QED BY <1>2, <1>8, <1>9 DEF DecodedPrefix

\* A call begins with nothing decoded.
LEMMA InitPrefix == Init => DecodedPrefix
BY DEF Init, DecodedPrefix, decoded

LEMMA CallPrefix ==
  ASSUME IndInv', pc' = "entry", old' = dst'
  PROVE  DecodedPrefix'
BY DEF DecodedPrefix, decoded, IndInv, TypeOK

LEMMA PrefixStep ==
  ASSUME GathersClear, IndInv, IndInv', DecodedPrefix, [Next]_vars
  PROVE  DecodedPrefix'
<1>1. CASE Call
  BY <1>1, CallPrefix DEF Call, CallWith
<1>2. CASE DecodeEmpty \/ DecodeTooShort \/ NegativeCount \/ BeginScalar \/ BeginScan
  BY <1>2, EntryPrefix
<1>3. CASE ScanGroup \/ ScanToKernel \/ ScanToTail
  BY <1>3, ScanPrefix
<1>4. CASE KernelGroup
  BY <1>4, KernelPrefix
<1>5. CASE KernelToTail
  <2>1. /\ pc = "kernel" /\ g = safe /\ HandOver(safe, off)
        /\ TypeOK /\ Entered /\ KernelCursor
    BY <1>5 DEF KernelToTail, IndInv
  <2>2. /\ 0 < n /\ n \in Nat /\ safe \in Nat /\ safe <= groups /\ decoded = 4 * safe
        /\ start[4 * safe] <= dataLen /\ srcLen \in Nat /\ start \in [0 .. n -> Nat]
    BY <2>1 DEF Entered, TypeOK, KernelCursor, decoded
  <2>3. groups \in Nat /\ cl \in Nat /\ 4 * groups <= n
    BY <2>2, GroupCounts
  <2>4. cl <= srcLen
    <3>1. 4 * safe \in 0 .. n
      BY <2>2, <2>3
    <3>2. start[4 * safe] \in Nat
      BY <2>2, <3>1
    <3> QED BY <2>2, <2>3, <3>2 DEF dataLen
  <2>5. safe \in 0 .. groups /\ UNCHANGED dst
    BY <2>1, <2>2, <2>3 DEF HandOver, Return, Panic
  <2> QED BY <2>1, <2>2, <2>4, <2>5, HandOverPrefix
<1>6. CASE TailInt
  BY <1>6, TailPrefix
<1>7. CASE TailPanic \/ TailDone
  <2>1. /\ UNCHANGED <<src, srcLen, n, dst, old, start>>
        /\ TypeOK /\ decoded = c /\ c \in Nat /\ decoded' = c
    BY <1>7 DEF TailPanic, TailDone, Panic, Return, callVars, tailVars, IndInv, TypeOK, decoded
  <2> QED BY <2>1, SamePrefix
<1>8. CASE UNCHANGED vars
  BY <1>8 DEF vars, callVars, groupVars, tailVars, DecodedPrefix, decoded, IntAt, codeOf, cl
<1> QED BY <1>1, <1>2, <1>3, <1>4, <1>5, <1>6, <1>7, <1>8 DEF Next, Step, Stop

\* On any stream, complete or not, dst holds at every moment the integers decoded
\* so far and is untouched beyond them: the kernels of all targets decode what the
\* scalar code decodes, and write neither past n nor past len(dst).
THEOREM DecodesPrefix ==
  ASSUME GathersClear
  PROVE  Spec => []DecodedPrefix
<1>1. Init => DecodedPrefix
  BY InitPrefix
<1>2. IndInv /\ IndInv' /\ DecodedPrefix /\ [Next]_vars => DecodedPrefix'
  BY PrefixStep
<1> QED BY <1>1, <1>2, Invariance, PTL DEF Spec

\* A call that returns has decoded the n integers of the stream, whichever path
\* decoded which of them, and reports how many of its bytes they take.
THEOREM ReadsWholeStream ==
  ASSUME GathersClear
  PROVE  Spec => []ReadsStream
<1>1. IndInv /\ DecodedPrefix => ReadsStream
  <2> SUFFICES ASSUME IndInv, DecodedPrefix, pc = "returned"
               PROVE  /\ IsLayout(n) /\ ret = cl + start[n] /\ ret <= srcLen
                      /\ \A i \in 0 .. n - 1 : dst[i] = IntAt(i)
    BY DEF ReadsStream
  <2>1. IsLayout(n) /\ ret = cl + start[n] /\ ret <= srcLen
    BY DEF IndInv, TypeOK, Entered, OffsetsKnown, known, Consumed
  <2>2. decoded = n /\ n \in Nat /\ len \in Nat /\ n <= len /\ TypeOK
    BY DEF decoded, IndInv, TypeOK, Entered
  <2>3. \A i \in 0 .. n - 1 : i \in DOMAIN dst
    BY <2>2 DEF TypeOK, groupSize
  <2> QED BY <2>1, <2>2, <2>3 DEF DecodedPrefix
<1> QED BY <1>1, Invariance, DecodesPrefix, PTL


-----------------------------------------------------------------------------
(* How a call proceeds, for whoever composes it with something else.       *)

\* A step of the call leaves the stream and the count alone, and the offsets that
\* are known; at most the four of one group are added to them.
LEMMA StepOffsets ==
  ASSUME IndInv, Step
  PROVE  /\ UNCHANGED callVars
         /\ pc \in {"entry", "scan", "kernel", "tail"} /\ pc' \notin {"idle", "entry"}
         /\ known \in Nat /\ known' \in Nat /\ known' <= known + 4
         /\ pc' = "panicked" => known' <= known
         /\ \A i \in 0 .. known : start'[i] = start[i]
<1>1. /\ TypeOK /\ Entered /\ ScanCursor /\ KernelCursor /\ TailCursor
      /\ UNCHANGED callVars /\ n' = n /\ len' = len /\ n \in Int
      /\ pc \in {"entry", "scan", "kernel", "tail"} /\ pc' \notin {"idle", "entry"}
  BY DEF IndInv, TypeOK, Step, DecodeEmpty, DecodeTooShort, NegativeCount, BeginScalar,
         BeginScan, InDecode, ScanGroup, ScanToKernel, ScanToTail, ScanEnds, KernelGroup,
         KernelToTail, TailInt, TailPanic, TailDone, HandOver, Return, Panic, callVars
<1>2. CASE DecodeEmpty \/ DecodeTooShort \/ NegativeCount \/ BeginScalar \/ BeginScan
  <2>1. pc = "entry" /\ c = 0 /\ start' = start
    BY <1>1, <1>2 DEF DecodeEmpty, DecodeTooShort, NegativeCount, BeginScalar, BeginScan,
                      InDecode, HandOver, Return, Panic, Entered
  <2>2. known = 0
    BY <2>1 DEF known
  <2>3. known' = 0
    BY <1>1, <1>2, <2>1 DEF DecodeEmpty, DecodeTooShort, NegativeCount, BeginScalar,
           BeginScan, InDecode, HandOver, Return, Panic, tailVars, known, groupSize
  <2> QED BY <1>1, <2>1, <2>2, <2>3
<1>3. CASE ScanGroup
  <2>1. /\ pc = "scan" /\ g < groups /\ pc' = "scan" /\ g' = g + 1
        /\ start' = knowGroup(g, off)
    BY <1>3 DEF ScanGroup
  <2>2. 0 < n /\ n \in Nat /\ groups \in Nat /\ 4 * groups <= n /\ g \in Nat
    BY <1>1, <2>1, GroupCounts DEF Entered, TypeOK
  <2>3. known = 4 * g /\ known' = 4 * g + 4
    BY <2>1, <2>2 DEF known
  <2>4. \A i \in 0 .. 4 * g : i \in 0 .. n /\ i \notin 4 * g + 1 .. 4 * g + 4
    BY <2>1, <2>2
  <2>5. \A i \in 0 .. 4 * g : start'[i] = start[i]
    BY <2>1, <2>4 DEF knowGroup
  <2>6. UNCHANGED callVars /\ pc' = "scan" /\ pc = "scan" /\ pc' # "panicked"
    BY <1>1, <2>1
  <2> QED BY <2>2, <2>3, <2>5, <2>6
<1>4. CASE ScanToKernel \/ ScanToTail
  <2>1. pc = "scan" /\ g \in Nat /\ 0 < n /\ start' = start
    BY <1>1, <1>4 DEF ScanToKernel, ScanToTail, ScanEnds, HandOver, Return, Panic, TypeOK,
                      Entered
  <2>2. known = 4 * g /\ known' \in {known, 0}
    BY <1>1, <1>4, <2>1 DEF ScanToKernel, ScanToTail, ScanEnds, HandOver, Return, Panic,
                      tailVars, known, groupSize, Entered
  <2> QED BY <1>1, <2>1, <2>2
<1>5. CASE KernelGroup
  BY SMTT(40), <1>1, <1>5 DEF KernelGroup, known, TypeOK
<1>6. CASE KernelToTail
  <2>1. /\ pc = "kernel" /\ g = safe /\ 0 < n /\ n \in Nat /\ safe <= groups
        /\ safe \in Nat /\ start' = start /\ safe' = safe /\ c = 0
    BY <1>1, <1>6 DEF KernelToTail, HandOver, Return, Panic, TypeOK, Entered,
                      KernelCursor, groupVars
  <2>2. 4 * safe <= n
    BY <2>1, GroupCounts
  <2>3. known = 4 * safe
    BY <2>1 DEF known
  <2>4. known' \in {known, 0}
    <3>1. CASE groupSize * safe >= n /\ Return(cl + off)
      BY <1>1, <2>1, <2>2, <2>3, <3>1 DEF Return, known, groupSize
    <3>2. CASE groupSize * safe < n /\ Panic
      BY <1>1, <2>1, <2>3, <3>2 DEF Panic, known, tailVars
    <3>3. CASE groupSize * safe < n /\ pc' = "tail" /\ c' = groupSize * safe
      BY <1>1, <2>1, <2>3, <3>3 DEF known, groupSize
    <3> QED BY <1>6, <2>1, <3>1, <3>2, <3>3 DEF KernelToTail, HandOver
  <2> QED BY <1>1, <2>1, <2>3, <2>4
<1>7. CASE TailInt
  <2>1. pc = "tail" /\ pc' = "tail" /\ c' = c + 1 /\ c \in Nat /\ c < n
        /\ start' = [start EXCEPT ![c + 1] = dp'] /\ start \in [0 .. n -> Nat]
    BY <1>1, <1>7 DEF TailInt, TypeOK
  <2>2. known = c /\ known' = c + 1
    BY <2>1 DEF known
  <2>3. \A i \in 0 .. c : start'[i] = start[i]
    BY <1>1, <2>1
  <2> QED BY <1>1, <2>1, <2>2, <2>3
<1>8. CASE TailPanic \/ TailDone
  BY SMTT(40), <1>1, <1>8 DEF TailPanic, TailDone, Return, Panic, tailVars, known, TypeOK, Entered
<1> QED BY <1>2, <1>3, <1>4, <1>5, <1>6, <1>7, <1>8 DEF Step

\* An integer is decoded once its offset is known, and no more than n are.
LEMMA DecodedIsKnown ==
  ASSUME IndInv, pc # "panicked"
  PROVE  /\ decoded \in Nat /\ known \in Nat /\ decoded <= known
         /\ n \in Nat => known <= n
<1>1. TypeOK /\ Entered /\ ScanCursor /\ KernelCursor /\ TailCursor
  BY DEF IndInv
<1>2. CASE pc \in {"scan", "kernel"}
  <2>1. 0 < n /\ n \in Int /\ g \in Nat /\ safe \in Nat
    BY <1>1, <1>2 DEF TypeOK, Entered
  <2>2. groups \in Nat /\ 4 * groups <= n
    BY <2>1, GroupCounts
  <2> QED BY <1>1, <1>2, <2>1, <2>2 DEF ScanCursor, KernelCursor, decoded, known
<1>3. CASE pc \notin {"scan", "kernel"}
  BY <1>1, <1>3 DEF TypeOK, Entered, TailCursor, decoded, known
<1> QED BY <1>2, <1>3

LEMMA KnownNext == (IndInv /\ pc # "panicked" /\ n \in Nat => known <= n)'
<1>1. IndInv /\ pc # "panicked" /\ n \in Nat => known <= n
  BY DecodedIsKnown
<1> QED BY <1>1, PTL

\* A step that does not end the call leaves the integers decoded so far in place,
\* or adds to them; the call returns when there are n.
LEMMA StepDelivers ==
  ASSUME IndInv, Step
  PROVE  /\ decoded \in Nat /\ decoded <= known
         /\ \/ pc' = "panicked"
            \/ pc' = "returned" /\ decoded = n /\ decoded' = n
            \/ /\ pc' \in {"scan", "kernel", "tail"}
               /\ decoded' = decoded \/ decoded' \in decoded + 1 .. n
<1>1. /\ TypeOK /\ Entered /\ ScanCursor /\ KernelCursor /\ TailCursor
      /\ pc \in {"entry", "scan", "kernel", "tail"} /\ n' = n /\ n \in Int
      /\ g \in Nat /\ safe \in Nat /\ c \in Nat
  BY StepOffsets DEF IndInv, TypeOK, callVars
<1>2. decoded \in Nat /\ decoded <= known
  BY <1>1 DEF decoded, known, KernelCursor
<1>3. CASE DecodeEmpty \/ DecodeTooShort \/ NegativeCount \/ BeginScalar \/ BeginScan
  BY <1>1, <1>2, <1>3 DEF DecodeEmpty, DecodeTooShort, NegativeCount, BeginScalar,
         BeginScan, InDecode, HandOver, Return, Panic, decoded, groupSize
<1>4. CASE ScanGroup \/ ScanToKernel \/ ScanToTail
  BY <1>1, <1>2, <1>4 DEF ScanGroup, ScanToKernel, ScanToTail, ScanEnds, HandOver, Return,
         Panic, decoded, groupSize, Entered
<1>5. CASE KernelGroup
  <2>1. pc = "kernel" /\ pc' = "kernel" /\ g < safe /\ g' = g + 1 /\ safe <= groups /\ 0 < n
    BY <1>1, <1>5 DEF KernelGroup, KernelCursor, Entered
  <2>2. groups \in Nat /\ 4 * groups <= n
    BY <1>1, <2>1, GroupCounts
  <2>3. 4 * g + 4 <= n
    BY <1>1, <2>1, <2>2
  <2>4. decoded = 4 * g /\ decoded' = 4 * g + 4
    BY <1>1, <2>1 DEF decoded
  <2> QED BY <1>1, <1>2, <2>1, <2>3, <2>4
<1>6. CASE KernelToTail
  <2>1. /\ pc = "kernel" /\ g = safe /\ 0 < n /\ safe <= groups
    BY <1>1, <1>6 DEF KernelToTail, Entered, KernelCursor
  <2>2. 4 * safe <= n /\ decoded = 4 * safe
    BY <1>1, <2>1, GroupCounts DEF decoded
  <2>3. CASE groupSize * safe >= n /\ Return(cl + off)
    BY <1>1, <1>2, <2>1, <2>2, <2>3 DEF Return, decoded, groupSize
  <2>4. CASE groupSize * safe < n /\ Panic
    BY <1>2, <2>4 DEF Panic
  <2>5. CASE groupSize * safe < n /\ pc' = "tail" /\ c' = groupSize * safe
    BY <1>1, <1>2, <2>2, <2>5 DEF decoded, groupSize
  <2> QED BY <1>6, <2>3, <2>4, <2>5 DEF KernelToTail, HandOver
<1>7. CASE TailInt
  <2>1. pc = "tail" /\ pc' = "tail" /\ c' = c + 1 /\ c < n
    BY <1>7 DEF TailInt
  <2>2. decoded = c /\ decoded' = c + 1
    BY <2>1 DEF decoded
  <2> QED BY <1>1, <1>2, <2>1, <2>2
<1>8. CASE TailPanic \/ TailDone
  BY <1>1, <1>2, <1>8 DEF TailPanic, TailDone, Return, Panic, decoded
<1> QED BY <1>3, <1>4, <1>5, <1>6, <1>7, <1>8 DEF Step

=============================================================================
