---------------------------- MODULE EncodeProofs ----------------------------
(***************************************************************************)
(* Encode, on every target and for all lengths of source and destination:  *)
(* no byte is written beyond the destination, nor beyond EncodedMaxLen of  *)
(* the source; scan, kernel and tail lay the source out in the same way;   *)
(* and the bytes of a call that returns are the wire format of its source. *)
(***************************************************************************)
EXTENDS Encode, TableProofs

-----------------------------------------------------------------------------
(* Memory: Encode writes nothing beyond its destination.                   *)

\* The counts that the loops run to.
LEMMA Counts ==
  ASSUME n \in Nat, len \in Nat
  PROVE  /\ cl \in Nat /\ groups \in Nat /\ dataLen \in Int
         /\ groups <= cl /\ 4 * groups <= n /\ n < 4 * groups + 4
         /\ n <= 4 * cl /\ 4 * cl < n + 4
         /\ cl + dataLen = len
BY DEF cl, groups, dataLen, controlLen, groupSize

LEMMA InitInv == Init => IndInv
<1> SUFFICES ASSUME Init PROVE IndInv
  OBVIOUS
<1>1. TypeOK
  BY DEF Init, TypeOK, wide, Byte
<1>2. NoOverrun /\ start[0] = 0
  BY DEF Init, NoOverrun
<1>3. Entered /\ KeyFits /\ TailCursor /\ ScanCursor /\ KernelCursor
  BY DEF Init, Entered, KeyFits, TailCursor, ScanCursor, KernelCursor
<1> QED BY <1>1, <1>2, <1>3 DEF IndInv

\* A call on any array of bytes.
LEMMA CallOnInv ==
  ASSUME IndInv, NEW k \in Lengths, NEW l \in Nat, CallOn(k, l),
         dst' \in [0 .. l + wide - 1 -> Byte]
  PROVE  IndInv'
<1> USE DEF IndInv
<1>1. /\ n' = k /\ src' \in [0 .. k - 1 -> Values] /\ len' = l /\ old' = dst'
      /\ start' = [i \in 0 .. k |-> 0] /\ k \in Nat
  BY InputAssumption DEF CallOn
<1>2. TypeOK'
  <2>1. src' \in [0 .. n' - 1 -> Value] /\ start' \in [0 .. n' -> Nat]
    BY <1>1, InputAssumption
  <2> QED BY <1>1, <2>1 DEF CallOn, TypeOK, callVars, groupVars, tailVars
<1>3. NoOverrun' /\ start'[0] = 0
  BY <1>1 DEF NoOverrun
<1>4. (Entered /\ KeyFits /\ TailCursor /\ ScanCursor /\ KernelCursor)'
  BY DEF CallOn, Entered, KeyFits, TailCursor, ScanCursor, KernelCursor, tailVars
<1> QED BY <1>2, <1>3, <1>4

LEMMA CallInv == IndInv /\ Call => IndInv'
<1> SUFFICES ASSUME IndInv, Call PROVE IndInv'
  OBVIOUS
<1>1. PICK k \in Lengths : \E l \in 0 .. EncodedMaxLen(k) + Slack :
        dst' \in [0 .. l + wide - 1 -> OldBytes] /\ CallOn(k, l)
  BY DEF Call
<1>2. EncodedMaxLen(k) + Slack \in Nat
  <2>1. k \in Nat /\ Slack \in Nat
    BY InputAssumption
  <2>2. EncodedMaxLen(k) \in Nat
    BY <2>1 DEF EncodedMaxLen, controlLen
  <2> QED BY <2>1, <2>2
<1>3. PICK l \in Nat : dst' \in [0 .. l + wide - 1 -> OldBytes] /\ CallOn(k, l)
  BY <1>1, <1>2
<1>4. dst' \in [0 .. l + wide - 1 -> Byte]
  BY <1>3, InputAssumption
<1> QED BY <1>3, <1>4, CallOnInv

-----------------------------------------------------------------------------
(* Steps that leave dst alone.                                             *)

\* A step to an end of the call disturbs nothing.
LEMMA EndInv ==
  ASSUME IndInv, pc' \in {"returned", "panicked"}, ret' \in Nat,
         UNCHANGED <<callVars, dst, groupVars, tailVars, start>>
  PROVE  IndInv'
<1> USE DEF IndInv, callVars, groupVars, tailVars
<1>1. TypeOK'
  BY DEF TypeOK
<1>2. NoOverrun' /\ KeyFits' /\ start'[0] = 0
  BY DEF NoOverrun, KeyFits
<1>3. (Entered /\ TailCursor /\ ScanCursor /\ KernelCursor)'
  BY DEF Entered, TailCursor, ScanCursor, KernelCursor
<1> QED BY <1>1, <1>2, <1>3

LEMMA HandOverInv ==
  ASSUME IndInv, 0 < n, cl <= len, NEW done \in Nat, NEW consumed \in Nat,
         HandOver(done, consumed), UNCHANGED dst
  PROVE  IndInv'
<1>1. CASE groupSize * done >= n
  <2>1. n \in Nat /\ len \in Nat
    BY DEF IndInv, TypeOK
  <2>2. cl \in Nat
    BY <2>1, Counts
  <2>3. ~(groupSize * done < n)
    BY <1>1, <2>1 DEF groupSize
  <2>4. /\ pc' = "returned" /\ ret' = cl + consumed
        /\ UNCHANGED <<callVars, groupVars, tailVars, start>>
    BY <1>1, <2>3 DEF HandOver, Return
  <2>5. ret' \in Nat
    BY <2>2, <2>4
  <2> QED BY <2>4, <2>5, EndInv
<1>2. CASE groupSize * done < n
  <2> USE DEF IndInv, callVars, groupVars
  <2>1. /\ pc' = "tail" /\ c' = 4 * done /\ ki' = done /\ dp' = consumed
        /\ key' = 0 /\ shift' = 0 /\ c' < n
        /\ UNCHANGED <<callVars, groupVars, ret, start>>
    BY <1>2 DEF HandOver, groupSize, TypeOK
  <2>2. TypeOK'
    BY SMTT(40), <2>1 DEF TypeOK, Byte
  <2>3. NoOverrun' /\ KeyFits' /\ start'[0] = 0
    BY <2>1 DEF NoOverrun, KeyFits
  <2>4. Entered'
    BY <2>1 DEF Entered, cl
  <2>5. TailCursor'
    BY <2>1 DEF TailCursor, TypeOK
  <2>6. (ScanCursor /\ KernelCursor)'
    BY <2>1 DEF ScanCursor, KernelCursor
  <2> QED BY <2>2, <2>3, <2>4, <2>5, <2>6
<1>3. n \in Nat /\ groupSize * done \in Nat
  BY DEF IndInv, TypeOK, groupSize
<1> QED BY <1>1, <1>2, <1>3

LEMMA EntryInv ==
  ASSUME IndInv, EncodeEmpty \/ EncodeTooShort \/ SlicePanic \/ BeginScalar \/ BeginScan
  PROVE  IndInv'
<1>1. CASE EncodeEmpty
  BY <1>1, EndInv DEF EncodeEmpty, Return
<1>2. CASE EncodeTooShort
  BY <1>2, EndInv DEF EncodeTooShort, Panic, IndInv, TypeOK
<1>3. CASE SlicePanic
  BY <1>3, EndInv DEF SlicePanic, Panic, IndInv, TypeOK
<1>4. CASE BeginScalar
  <2>1. 0 < n /\ cl <= len /\ HandOver(0, 0) /\ UNCHANGED dst
    BY <1>4 DEF BeginScalar, InEncode, IndInv, TypeOK
  <2>2. 0 \in Nat
    OBVIOUS
  <2> QED BY <2>1, <2>2, HandOverInv
<1>5. CASE BeginScan
  <2> USE <1>5 DEF BeginScan, IndInv, callVars, tailVars
  <2>1. n \in Nat /\ len \in Nat /\ 0 < n /\ cl <= len /\ groups \in Nat
    BY Counts DEF TypeOK, InEncode
  <2>2. TypeOK'
    BY <2>1 DEF TypeOK
  <2>3. NoOverrun' /\ KeyFits' /\ start'[0] = 0
    BY DEF NoOverrun, KeyFits
  <2>4. (Entered /\ TailCursor /\ KernelCursor)'
    BY <2>1 DEF Entered, TailCursor, KernelCursor, cl
  <2>5. ScanCursor'
    <3>1. /\ groups' = groups /\ g' = 0 /\ off' = 0 /\ safe' = groups
          /\ start' = start
      BY DEF groups
    <3>2. GroupChain(0)' /\ StoresFit(0)'
      BY DEF GroupChain, StoresFit
    <3> QED BY <2>1, <3>1, <3>2 DEF ScanCursor
  <2> QED BY <2>2, <2>3, <2>4, <2>5
<1> QED BY <1>1, <1>2, <1>3, <1>4, <1>5

-----------------------------------------------------------------------------
(* The scan.                                                               *)

LEMMA ScanGroupInv == IndInv /\ ScanGroup => IndInv'
<1> SUFFICES ASSUME IndInv, ScanGroup PROVE IndInv'
  OBVIOUS
<1> DEFINE k == controlByte(src[4 * g], src[4 * g + 1], src[4 * g + 2], src[4 * g + 3])
<1>1. TypeOK /\ NoOverrun /\ start[0] = 0 /\ Entered /\ KeyFits /\ ScanCursor
  BY DEF IndInv
<1>2. /\ pc = "scan" /\ pc' = "scan" /\ g < groups /\ g' = g + 1
      /\ dst' = [dst EXCEPT ![g] = k]
      /\ safe' = IF safe = groups /\ ~WideFits THEN g ELSE safe
      /\ off' = off + lengthTable[k]
      /\ start' = [i \in 0 .. n |-> IF i \in 4 * g + 1 .. 4 * g + 4
                                    THEN off + cursor(k, i - 4 * g) ELSE start[i]]
      /\ UNCHANGED <<platform, public, src, n, len, old, c, ki, shift, key, dp, ret>>
  BY DEF ScanGroup, callVars, tailVars
<1>3. /\ n \in Nat /\ len \in Nat /\ g \in Nat /\ off \in Nat /\ safe \in Nat
      /\ 0 < n /\ cl <= len
  BY <1>1, <1>2 DEF TypeOK, Entered
<1>4. /\ cl \in Nat /\ groups \in Nat /\ dataLen \in Int /\ groups <= cl
      /\ 4 * groups <= n /\ cl' = cl /\ groups' = groups /\ dataLen' = dataLen
  BY <1>2, <1>3, Counts DEF cl, groups, dataLen
<1>5. k \in Byte
  <2>1. \A j \in 0 .. 3 : src[4 * g + j] \in Value
    BY <1>1, <1>2, <1>3, <1>4 DEF TypeOK
  <2>2. /\ src[4 * g] \in Value /\ src[4 * g + 1] \in Value
        /\ src[4 * g + 2] \in Value /\ src[4 * g + 3] \in Value
    BY <2>1, <1>3
  <2> QED BY <2>2, ControlByteType
<1> HIDE DEF k
<1>6. lengthTable[k] \in 4 .. 16 /\ lengthTable[k] = cursor(k, 4)
      /\ \A l \in 0 .. 4 : cursor(k, l) \in Nat
  BY <1>5, LengthType, CursorType, CursorSteps DEF wide
<1>7. start' \in [0 .. n -> Nat]
  <2>1. \A i \in 4 * g + 1 .. 4 * g + 4 : off + cursor(k, i - 4 * g) \in Nat
    <3> TAKE i \in 4 * g + 1 .. 4 * g + 4
    <3>1. i - 4 * g \in 0 .. 4
      BY <1>3
    <3> QED BY <1>3, <1>6, <3>1
  <2>2. \A i \in 0 .. n : start[i] \in Nat
    BY <1>1 DEF TypeOK
  <2> QED BY <1>2, <2>1, <2>2
<1>8. /\ start'[0] = 0 /\ start'[4 * g + 4] = off + lengthTable[k]
      /\ \A h \in 0 .. g : start'[4 * h] = start[4 * h]
  <2>1. \A i \in 0 .. n : ~(i \in 4 * g + 1 .. 4 * g + 4) => start'[i] = start[i]
    BY <1>2
  <2>2. \A h \in 0 .. g : 4 * h \in 0 .. n /\ ~(4 * h \in 4 * g + 1 .. 4 * g + 4)
    BY <1>2, <1>3, <1>4
  <2>3. 4 * g + 4 \in 0 .. n /\ 4 * g + 4 \in 4 * g + 1 .. 4 * g + 4
        /\ (4 * g + 4) - 4 * g = 4
    BY <1>2, <1>3, <1>4
  <2>4. start'[4 * g + 4] = off + cursor(k, 4)
    BY <1>2, <2>3
  <2> QED BY <1>1, <1>3, <1>6, <2>1, <2>2, <2>4
<1>9. TypeOK'
  <2>1. dst' \in [0 .. len + wide - 1 -> Byte]
    BY <1>1, <1>2, <1>5 DEF TypeOK
  <2>2. off' \in Nat /\ g' \in Nat /\ safe' \in Nat
    BY SMTT(40), <1>2, <1>3, <1>6
  <2> QED BY <1>1, <1>2, <1>7, <2>1, <2>2 DEF TypeOK
<1>10. NoOverrun'
  <2>1. DOMAIN dst' = DOMAIN dst /\ (\A i \in DOMAIN dst : i # g => dst'[i] = dst[i])
    BY <1>2
  <2>2. \A i \in DOMAIN dst : i >= len => i # g
    BY <1>2, <1>3, <1>4
  <2> QED BY <1>1, <1>2, <2>1, <2>2 DEF NoOverrun
<1>11. (Entered /\ KeyFits /\ TailCursor /\ KernelCursor)'
  BY <1>1, <1>2, <1>3, <1>4 DEF Entered, KeyFits, TailCursor, KernelCursor
<1>12. ScanCursor'
  <2>1. g' \in Nat /\ g' <= groups' /\ off' = start'[4 * g']
    BY <1>2, <1>3, <1>4, <1>8
  <2>2. GroupChain(g)'
    <3>1. \A h \in 0 .. g - 1 : start[4 * h + 4] = start[4 * h] + lengthTable[dst[h]]
      BY <1>1, <1>2 DEF ScanCursor, GroupChain
    <3>2. \A h \in 0 .. g - 1 : dst'[h] = dst[h] /\ h + 1 \in 0 .. g
      BY <1>2, <1>3
    <3>3. \A h \in 0 .. g - 1 : start'[4 * h + 4] = start'[4 * h] + lengthTable[dst'[h]]
      <4> TAKE h \in 0 .. g - 1
      <4>1. 4 * (h + 1) = 4 * h + 4 /\ h \in 0 .. g
        BY <1>3
      <4>2. start'[4 * h + 4] = start[4 * h + 4] /\ start'[4 * h] = start[4 * h]
        BY <1>8, <3>2, <4>1
      <4> QED BY <3>1, <3>2, <4>2
    <3>4. dst'[g] = k
      BY <1>1, <1>2, <1>3, <1>4 DEF TypeOK, wide
    <3>5. off = start'[4 * g]
      BY <1>1, <1>2, <1>3, <1>8 DEF ScanCursor
    <3>6. \A h \in 0 .. g' - 1 : start'[4 * h + 4] = start'[4 * h] + lengthTable[dst'[h]]
      <4> TAKE h \in 0 .. g' - 1
      <4>1. h \in 0 .. g - 1 \/ h = g
        BY <1>2, <1>3
      <4>2. start'[4 * g + 4] = start'[4 * g] + lengthTable[dst'[g]]
        BY <1>8, <3>4, <3>5
      <4> QED BY <3>3, <4>1, <4>2
    <3> QED BY <3>6 DEF GroupChain
  <2>3. /\ safe' = groups' => StoresFit(g)'
        /\ safe' # groups' => safe' < g' /\ StoresFit(safe)'
    <3>1. ASSUME NEW m \in Nat, m <= g, StoresFit(m)
          PROVE  \A h \in 0 .. m - 1 : start'[4 * h] + wide <= dataLen
      BY <1>3, <1>8, <3>1 DEF StoresFit
    <3>2. off = start'[4 * g]
      BY <1>1, <1>2, <1>3, <1>8 DEF ScanCursor
    <3>3. CASE safe = groups /\ WideFits
      <4>1. \A h \in 0 .. g - 1 : start'[4 * h] + wide <= dataLen
        BY <1>1, <1>2, <1>3, <3>1, <3>3 DEF ScanCursor
      <4>2. start'[4 * g] + wide <= dataLen
        BY <3>2, <3>3 DEF WideFits
      <4>3. \A h \in 0 .. g' - 1 : h \in 0 .. g - 1 \/ h = g
        BY <1>2, <1>3
      <4>4. \A h \in 0 .. g' - 1 : start'[4 * h] + wide <= dataLen'
        BY <1>4, <4>1, <4>2, <4>3
      <4>5. safe' = groups'
        BY <1>2, <1>4, <3>3
      <4> QED BY <4>4, <4>5 DEF StoresFit
    <3>4. CASE safe = groups /\ ~WideFits
      <4>1. \A h \in 0 .. g - 1 : start'[4 * h] + wide <= dataLen
        BY <1>1, <1>2, <1>3, <3>1, <3>4 DEF ScanCursor
      <4>2. safe' = g /\ safe' # groups' /\ safe' < g'
        BY <1>2, <1>3, <1>4, <3>4
      <4>3. \A h \in 0 .. safe' - 1 : start'[4 * h] + wide <= dataLen'
        BY <1>4, <4>1, <4>2
      <4> QED BY <4>2, <4>3 DEF StoresFit
    <3>5. CASE safe # groups
      <4>1. safe < g
        BY <1>1, <1>2, <3>5 DEF ScanCursor
      <4>2. \A h \in 0 .. safe - 1 : start'[4 * h] + wide <= dataLen
        BY <1>1, <1>2, <1>3, <3>1, <3>5, <4>1 DEF ScanCursor
      <4>3. safe' = safe /\ safe' # groups' /\ safe' < g'
        BY <1>2, <1>3, <1>4, <3>5, <4>1
      <4>4. \A h \in 0 .. safe' - 1 : start'[4 * h] + wide <= dataLen'
        BY <1>4, <4>2, <4>3
      <4> QED BY <4>3, <4>4 DEF StoresFit
    <3> QED BY <3>3, <3>4, <3>5
  <2> QED BY <1>2, <2>1, <2>2, <2>3 DEF ScanCursor
<1> QED BY <1>8, <1>9, <1>10, <1>11, <1>12 DEF IndInv

LEMMA ScanEndInv == IndInv /\ (ScanToKernel \/ ScanToTail) => IndInv'
<1> SUFFICES ASSUME IndInv, ScanToKernel \/ ScanToTail PROVE IndInv'
  OBVIOUS
<1>1. TypeOK /\ NoOverrun /\ start[0] = 0 /\ Entered /\ KeyFits /\ ScanCursor
  BY DEF IndInv
<1>2. /\ n \in Nat /\ len \in Nat /\ g \in Nat /\ safe \in Nat
      /\ pc = "scan" /\ g = groups /\ 0 < n /\ cl <= len
  BY <1>1 DEF TypeOK, Entered, ScanToKernel, ScanToTail
<1>3. CASE ScanToTail
  <2>1. 0 \in Nat /\ HandOver(0, 0) /\ UNCHANGED dst
    BY <1>3 DEF ScanToTail
  <2> QED BY <1>2, <2>1, HandOverInv
<1>4. CASE ScanToKernel
  <2>1. /\ pc' = "kernel" /\ g' = 0 /\ off' = 0
        /\ UNCHANGED <<platform, public, src, n, len, old, dst, safe, c, ki, shift, key,
                       dp, ret, start>>
    BY <1>4 DEF ScanToKernel, callVars, tailVars
  <2>2. groups' = groups /\ dataLen' = dataLen /\ cl' = cl
    BY <2>1 DEF groups, dataLen, cl
  <2>3. TypeOK'
    BY <1>1, <2>1 DEF TypeOK
  <2>4. NoOverrun' /\ start'[0] = 0
    BY <1>1, <2>1 DEF NoOverrun
  <2>5. (Entered /\ KeyFits /\ TailCursor /\ ScanCursor)'
    BY <1>1, <1>2, <2>1, <2>2 DEF Entered, KeyFits, TailCursor, ScanCursor
  <2>6. safe <= groups /\ GroupChain(safe) /\ StoresFit(safe)
    <3>1. safe <= g /\ GroupChain(g) /\ StoresFit(safe)
      BY <1>1, <1>2 DEF ScanCursor
    <3>2. GroupChain(safe)
      BY <1>2, <3>1 DEF GroupChain
    <3> QED BY <1>2, <3>1, <3>2
  <2>7. GroupChain(safe)' /\ StoresFit(safe)'
    BY <2>1, <2>2, <2>6 DEF GroupChain, StoresFit
  <2>8. KernelCursor'
    BY <1>1, <1>2, <2>1, <2>2, <2>6, <2>7 DEF KernelCursor
  <2> QED BY <2>3, <2>4, <2>5, <2>8 DEF IndInv
<1> QED BY <1>3, <1>4

-----------------------------------------------------------------------------
(* The kernel.                                                             *)

LEMMA KernelGroupInv == IndInv /\ KernelGroup => IndInv'
<1> SUFFICES ASSUME IndInv, KernelGroup PROVE IndInv'
  OBVIOUS
<1>1. TypeOK /\ NoOverrun /\ start[0] = 0 /\ Entered /\ KeyFits /\ KernelCursor
  BY DEF IndInv
<1>2. PICK tail \in TailBytes :
        dst' = wideStore(encodeGroup(platform, dst[g],
                                     [lane \in Lane |-> src[4 * g + lane]], tail), off)
  BY DEF KernelGroup
<1>3. /\ pc = "kernel" /\ pc' = "kernel" /\ g < safe /\ g' = g + 1
      /\ off' = off + lengthTable[dst[g]]
      /\ UNCHANGED <<platform, public, src, n, len, old, safe, c, ki, shift, key, dp,
                     ret, start>>
  BY DEF KernelGroup, callVars, tailVars
<1>4. /\ n \in Nat /\ len \in Nat /\ g \in Nat /\ off \in Nat /\ safe \in Nat
      /\ 0 < n /\ cl <= len /\ safe <= groups
  BY <1>1, <1>3 DEF TypeOK, Entered, KernelCursor
<1>5. /\ cl \in Nat /\ groups \in Nat /\ dataLen \in Int /\ groups <= cl
      /\ 4 * groups <= n /\ cl + dataLen = len
      /\ cl' = cl /\ groups' = groups /\ dataLen' = dataLen
  BY <1>3, <1>4, Counts DEF cl, groups, dataLen
<1>6. GroupChain(safe) /\ StoresFit(safe) /\ off = start[4 * g]
  BY <1>1, <1>3 DEF KernelCursor
\* The store ends within dst and begins after the control bytes.
<1>7. cl <= cl + off /\ cl + off + wide <= len
  <2>1. start[4 * g] + wide <= dataLen
    BY <1>3, <1>4, <1>6 DEF StoresFit
  <2> QED BY <1>4, <1>5, <1>6, <2>1 DEF wide
<1>8. \A i \in DOMAIN dst : i < cl \/ i >= len => dst'[i] = dst[i]
  <2>1. DOMAIN dst = 0 .. len + wide - 1
    BY <1>1 DEF TypeOK
  <2>2. \A i \in DOMAIN dst :
          i < cl \/ i >= len => ~(i \in cl + off .. cl + off + wide - 1)
    BY <1>4, <1>5, <1>7, <2>1 DEF wide
  <2> QED BY <1>2, <2>2 DEF wideStore
<1>9. dst' \in [0 .. len + wide - 1 -> Byte]
  <2> DEFINE vals == [lane \in Lane |-> src[4 * g + lane]]
             w == encodeGroup(platform, dst[g], vals, tail)
  <2>1. vals \in [Lane -> Value]
    <3>1. \A lane \in Lane : 4 * g + lane \in 0 .. n - 1
      BY <1>3, <1>4, <1>5 DEF Lane
    <3> QED BY <1>1, <3>1 DEF TypeOK
  <2>2. dst[g] \in Byte /\ tail \in Byte
    <3>1. g \in 0 .. len + wide - 1
      BY <1>3, <1>4, <1>5 DEF wide
    <3> QED BY <1>1, <3>1, TailBytesAssumption DEF TypeOK
  <2>3. w \in Vector
    BY <1>1, <1>3, <2>1, <2>2, EncodeGroupType DEF Entered
  <2> HIDE DEF w
  <2>4. \A i \in cl + off .. cl + off + wide - 1 : i - (cl + off) \in Index
    BY <1>4, <1>5 DEF Index, wide
  <2>5. \A i \in cl + off .. cl + off + wide - 1 : w[i - (cl + off)] \in Byte
    BY <2>3, <2>4 DEF Vector
  <2>6. dst' = wideStore(w, off)
    BY <1>2 DEF w
  <2> QED BY <1>1, <2>5, <2>6 DEF wideStore, TypeOK
<1>10. TypeOK'
  <2>1. g \in 0 .. len + wide - 1
    BY <1>3, <1>4, <1>5 DEF wide
  <2>2. lengthTable[dst[g]] \in 4 .. 16
    BY <1>1, <2>1, LengthType DEF TypeOK, wide
  <2>3. off' \in Nat /\ g' \in Nat
    BY <1>3, <1>4, <2>2
  <2> QED BY <1>1, <1>3, <1>9, <2>3 DEF TypeOK
<1>11. NoOverrun' /\ start'[0] = 0
  <2>1. DOMAIN dst' = DOMAIN dst
    BY <1>1, <1>9 DEF TypeOK
  <2> QED BY <1>1, <1>3, <1>8, <2>1 DEF NoOverrun
<1>12. (Entered /\ KeyFits /\ TailCursor /\ ScanCursor)'
  BY <1>1, <1>3, <1>4, <1>5 DEF Entered, KeyFits, TailCursor, ScanCursor
<1>13. KernelCursor'
  <2>1. \A h \in 0 .. safe - 1 : dst'[h] = dst[h]
    <3>1. \A h \in 0 .. safe - 1 : h \in DOMAIN dst /\ h < cl
      BY <1>1, <1>4, <1>5 DEF TypeOK, wide
    <3> QED BY <1>8, <3>1
  <2>2. GroupChain(safe)' /\ StoresFit(safe)'
    BY <1>3, <1>5, <1>6, <2>1 DEF GroupChain, StoresFit
  <2>3. off' = start'[4 * g']
    <3>1. start[4 * g + 4] = start[4 * g] + lengthTable[dst[g]]
      BY <1>3, <1>4, <1>6 DEF GroupChain
    <3>2. 4 * g' = 4 * g + 4
      BY <1>3, <1>4
    <3> QED BY <1>3, <1>6, <3>1, <3>2
  <2> QED BY <1>1, <1>3, <1>4, <1>5, <2>2, <2>3 DEF KernelCursor
<1> QED BY <1>10, <1>11, <1>12, <1>13 DEF IndInv

LEMMA KernelToTailInv == IndInv /\ KernelToTail => IndInv'
<1> SUFFICES ASSUME IndInv, KernelToTail PROVE IndInv'
  OBVIOUS
<1>1. /\ pc = "kernel" /\ HandOver(safe, off) /\ UNCHANGED dst
  BY DEF KernelToTail
<1>2. /\ safe \in Nat /\ off \in Nat /\ 0 < n /\ cl <= len
  BY <1>1 DEF IndInv, TypeOK, Entered
<1> QED BY <1>1, <1>2, HandOverInv

-----------------------------------------------------------------------------
(* encodeTail.                                                             *)

\* What one integer of encodeTail writes, whether it fits or not.
LEMMA TailBytesInv ==
  ASSUME IndInv, pc = "tail", c < n, dst' = TailBytesWritten, UNCHANGED <<len, old>>
  PROVE  NoOverrun' /\ dst' \in [0 .. len + wide - 1 -> Byte]
<1>1. TypeOK /\ NoOverrun /\ TailCursor
  BY DEF IndInv
<1>2. /\ n \in Nat /\ len \in Nat /\ c \in Nat /\ ki \in Nat /\ dp \in Nat
      /\ key \in Byte /\ src \in [0 .. n - 1 -> Value]
      /\ dst \in [0 .. len + wide - 1 -> Byte]
  BY <1>1 DEF TypeOK
<1>3. cl \in Nat /\ cl <= len /\ n <= 4 * cl
  BY <1>2, Counts DEF IndInv, Entered
<1>4. Flush => ki < cl
  BY <1>1, <1>2, <1>3 DEF Flush, TailCursor
<1>5. src[c] \in Value /\ code(src[c]) \in 0 .. 3
  <2>1. c \in 0 .. n - 1
    BY <1>2
  <2> QED BY <1>2, <2>1, CodeType DEF Lane
<1>6. \A i \in DOMAIN dst : i >= len => dst'[i] = dst[i]
  <2>1. \A i \in DOMAIN dst : i >= len => ~(Flush /\ i = ki) /\ ~(i < len)
    BY <1>2, <1>3, <1>4
  <2> QED BY <2>1 DEF TailBytesWritten
<1>7. \A i \in cl + dp .. cl + dp + code(src[c]) : src[c][i - (cl + dp)] \in Byte
  <2>1. \A i \in cl + dp .. cl + dp + code(src[c]) : i - (cl + dp) \in Lane
    BY <1>2, <1>3, <1>5 DEF Lane
  <2> QED BY <1>5, <2>1 DEF Value
<1>8. dst' \in [0 .. len + wide - 1 -> Byte]
  BY <1>2, <1>7 DEF TailBytesWritten
<1>9. NoOverrun'
  <2>1. DOMAIN dst' = DOMAIN dst
    BY <1>2, <1>8
  <2> QED BY <1>1, <1>6, <2>1 DEF NoOverrun
<1> QED BY <1>8, <1>9

LEMMA TailIntInv == IndInv /\ TailInt => IndInv'
<1> SUFFICES ASSUME IndInv, TailInt PROVE IndInv'
  OBVIOUS
<1>1. TypeOK /\ NoOverrun /\ start[0] = 0 /\ Entered /\ KeyFits /\ TailCursor
  BY DEF IndInv
<1> DEFINE cd == code(src[c])
<1>2. /\ pc = "tail" /\ pc' = "tail" /\ c < n /\ dst' = TailBytesWritten
      /\ dp' = dp + cd + 1 /\ ki' = (IF Flush THEN ki + 1 ELSE ki)
      /\ key' = (IF Flush THEN cd ELSE key + shiftLeft(cd, shift))
      /\ shift' = (IF Flush THEN 0 ELSE shift) + 2 /\ c' = c + 1
      /\ start' = [start EXCEPT ![c + 1] = dp']
      /\ UNCHANGED <<platform, public, src, n, len, old, g, off, safe, ret>>
  BY DEF TailInt, NextShift, callVars, groupVars
<1>3. /\ n \in Nat /\ len \in Nat /\ c \in Nat /\ ki \in Nat /\ dp \in Nat
      /\ shift \in {0, 2, 4, 6, 8} /\ key \in 0 .. 255
      /\ start \in [0 .. n -> Nat]
  BY <1>1 DEF TypeOK, Byte
<1>4. cd \in 0 .. 3
  <2>1. c \in 0 .. n - 1
    BY <1>2, <1>3
  <2> QED BY <1>1, <2>1, CodeType DEF TypeOK, Lane
<1> HIDE DEF cd
<1>5. NoOverrun' /\ dst' \in [0 .. len + wide - 1 -> Byte]
  BY <1>2, TailBytesInv
<1>6. KeyFits' /\ key' \in 0 .. 255 /\ shift' \in {0, 2, 4, 6, 8}
  <2>1. CASE Flush
    BY <1>2, <1>4, <2>1 DEF KeyFits
  <2>2. CASE ~Flush
    <3>1. /\ shiftLeft(cd, 0) = cd /\ shiftLeft(cd, 2) = 4 * cd
          /\ shiftLeft(cd, 4) = 16 * cd /\ shiftLeft(cd, 6) = 64 * cd
      BY <1>4, ShiftType DEF Lane
    <3>2. shift \in {0, 2, 4, 6} /\ key' = key + shiftLeft(cd, shift) /\ shift' = shift + 2
      BY <1>2, <1>3, <2>2 DEF Flush
    <3>3. CASE shift = 0
      <4>1. key = 0 /\ key' = key + cd /\ shift' = 2
        BY <1>1, <3>1, <3>2, <3>3 DEF KeyFits
      <4> QED BY <1>4, <4>1 DEF KeyFits
    <3>4. CASE shift = 2
      <4>1. key < 4 /\ key' = key + 4 * cd /\ shift' = 4
        BY <1>1, <3>1, <3>2, <3>4 DEF KeyFits
      <4> QED BY <1>3, <1>4, <4>1 DEF KeyFits
    <3>5. CASE shift = 4
      <4>1. key < 16 /\ key' = key + 16 * cd /\ shift' = 6
        BY <1>1, <3>1, <3>2, <3>5 DEF KeyFits
      <4> QED BY <1>3, <1>4, <4>1 DEF KeyFits
    <3>6. CASE shift = 6
      <4>1. key < 64 /\ key' = key + 64 * cd /\ shift' = 8
        BY <1>1, <3>1, <3>2, <3>6 DEF KeyFits
      <4> QED BY <1>3, <1>4, <4>1 DEF KeyFits
    <3> QED BY <3>2, <3>3, <3>4, <3>5, <3>6
  <2> QED BY <2>1, <2>2
<1>7. TailCursor'
  <2>1. shift = 2 * (c - 4 * ki)
    BY <1>1, <1>2 DEF TailCursor
  <2>2. shift' = 2 * (c' - 4 * ki')
    BY <1>2, <1>3, <2>1 DEF Flush
  <2>3. c' <= n' /\ shift' # 0
    BY <1>2, <1>3
  <2> QED BY <2>2, <2>3 DEF TailCursor
<1>8. start' \in [0 .. n -> Nat] /\ start'[0] = 0
  <2>1. dp' \in Nat /\ c + 1 # 0
    BY <1>2, <1>3, <1>4
  <2> QED BY <1>1, <1>2, <1>3, <2>1
<1>9. TypeOK'
  <2>1. dp' \in Nat /\ ki' \in Nat /\ c' \in Nat
    BY <1>2, <1>3, <1>4
  <2> QED BY <1>1, <1>2, <1>5, <1>6, <1>8, <2>1 DEF TypeOK, Byte
<1>10. (Entered /\ ScanCursor /\ KernelCursor)'
  BY <1>1, <1>2 DEF Entered, ScanCursor, KernelCursor, cl
<1> QED BY <1>5, <1>6, <1>7, <1>8, <1>9, <1>10 DEF IndInv

LEMMA TailEndInv == IndInv /\ (TailPanic \/ TailDone) => IndInv'
<1> SUFFICES ASSUME IndInv, TailPanic \/ TailDone PROVE IndInv'
  OBVIOUS
<1>1. TypeOK /\ NoOverrun /\ start[0] = 0 /\ Entered /\ KeyFits /\ TailCursor
  BY DEF IndInv
<1>2. /\ n \in Nat /\ len \in Nat /\ c \in Nat /\ ki \in Nat /\ dp \in Nat
      /\ key \in Byte /\ dst \in [0 .. len + wide - 1 -> Byte] /\ ret \in Nat
      /\ shift \in {0, 2, 4, 6, 8}
  BY <1>1 DEF TypeOK
<1>3. pc = "tail" /\ cl \in Nat /\ cl <= len /\ n <= 4 * cl
  BY <1>1, <1>2, Counts DEF Entered, TailPanic, TailDone
<1>4. /\ pc' \in {"returned", "panicked"} /\ ret' \in Nat
      /\ UNCHANGED <<callVars, groupVars, tailVars, start>>
  BY <1>2, <1>3 DEF TailPanic, TailDone, Panic, Return
<1>5. NoOverrun' /\ dst' \in [0 .. len + wide - 1 -> Byte]
  <2>1. CASE TailPanic
    BY <1>3, <1>4, <2>1, TailBytesInv DEF TailPanic, callVars
  <2>2. CASE TailDone
    <3>1. dst' = [dst EXCEPT ![ki] = key] /\ c = n
      BY <2>2 DEF TailDone
    <3>2. ki < len
      BY <1>1, <1>2, <1>3, <3>1 DEF TailCursor
    <3>3. dst' \in [0 .. len + wide - 1 -> Byte]
      BY <1>2, <3>1
    <3>4. \A i \in DOMAIN dst : i >= len => dst'[i] = dst[i]
      BY <1>2, <3>1, <3>2
    <3>5. DOMAIN dst' = DOMAIN dst /\ len' = len /\ old' = old
      BY <1>2, <1>4, <3>3 DEF callVars
    <3> QED BY <1>1, <3>3, <3>4, <3>5 DEF NoOverrun
  <2> QED BY <2>1, <2>2
<1>6. TypeOK'
  BY <1>1, <1>4, <1>5 DEF TypeOK, callVars, groupVars, tailVars
<1>7. (Entered /\ KeyFits /\ TailCursor /\ ScanCursor /\ KernelCursor)' /\ start'[0] = 0
  BY <1>1, <1>4 DEF Entered, KeyFits, TailCursor, ScanCursor, KernelCursor, tailVars
<1> QED BY <1>5, <1>6, <1>7 DEF IndInv

-----------------------------------------------------------------------------

LEMMA NextInv == IndInv /\ [Next]_vars => IndInv'
<1> SUFFICES ASSUME IndInv, [Next]_vars PROVE IndInv'
  OBVIOUS
<1>1. CASE Call
  BY <1>1, CallInv
<1>2. CASE EncodeEmpty \/ EncodeTooShort \/ SlicePanic \/ BeginScalar \/ BeginScan
  BY <1>2, EntryInv
<1>3. CASE ScanGroup
  BY <1>3, ScanGroupInv
<1>4. CASE ScanToKernel \/ ScanToTail
  BY <1>4, ScanEndInv
<1>5. CASE KernelGroup
  BY <1>5, KernelGroupInv
<1>6. CASE KernelToTail
  BY <1>6, KernelToTailInv
<1>7. CASE TailInt
  BY <1>7, TailIntInv
<1>8. CASE TailPanic \/ TailDone
  BY <1>8, TailEndInv
<1>9. CASE UNCHANGED vars
  <2> USE <1>9 DEF vars, callVars, groupVars, tailVars
  <2>1. TypeOK' /\ NoOverrun' /\ start'[0] = 0 /\ KeyFits'
    BY DEF IndInv, TypeOK, NoOverrun, KeyFits
  <2>2. (Entered /\ TailCursor)'
    BY DEF IndInv, Entered, TailCursor, cl
  <2>3. (ScanCursor /\ KernelCursor)'
    BY DEF IndInv, ScanCursor, KernelCursor, GroupChain, StoresFit, groups, dataLen, cl
  <2> QED BY <2>1, <2>2, <2>3 DEF IndInv
<1> QED BY <1>1, <1>2, <1>3, <1>4, <1>5, <1>6, <1>7, <1>8, <1>9 DEF Next, Step, Stop

\* The inductive invariant holds on every target, for all lengths of source
\* and destination.
THEOREM Invariance == Spec => []IndInv
<1>1. Init => IndInv
  BY InitInv
<1>2. IndInv /\ [Next]_vars => IndInv'
  BY NextInv
<1> QED BY <1>1, <1>2, PTL DEF Spec

\* Every variable of a call keeps its type: bytes stay bytes, every table
\* lookup, source read and store stays in the array it is made in.
THEOREM TypeCorrect == Spec => []TypeOK
<1>1. IndInv => TypeOK
  BY DEF IndInv
<1> QED BY <1>1, Invariance, PTL

\* encodeSafeGroups makes the unchecked 16-byte stores safe: no byte beyond
\* len(dst) is written, however tight dst is.
THEOREM NoByteBeyondDst == Spec => []NoOverrun
<1>1. IndInv => NoOverrun
  BY DEF IndInv
<1> QED BY <1>1, Invariance, PTL

-----------------------------------------------------------------------------
(* Nor does Encode write anything beyond EncodedMaxLen of its source,      *)
(* however long its destination is.  Blocks of that size can therefore be  *)
(* encoded side by side in one buffer.                                     *)

LEMMA MaxLenValue ==
  ASSUME n \in Nat, 0 < n
  PROVE  EncodedMaxLen(n) = cl + 4 * n /\ cl \in Nat
BY DEF EncodedMaxLen, cl, controlLen

\* A step that writes below the bound, or nothing.
LEMMA WritesBelow ==
  ASSUME MaxLenInv, pc # "idle", UNCHANGED <<n, old>>, DOMAIN dst' = DOMAIN dst,
         \A i \in DOMAIN dst : i >= EncodedMaxLen(n) => dst'[i] = dst[i]
  PROVE  StaysInMaxLen'
BY DEF MaxLenInv, StaysInMaxLen

LEMMA InitMaxLen == Init => MaxLenInv
BY DEF Init, MaxLenInv, StaysInMaxLen

LEMMA CallMaxLen ==
  ASSUME NEW k, NEW l, CallOn(k, l)
  PROVE  MaxLenInv'
BY DEF CallOn, MaxLenInv, StaysInMaxLen

\* A step that neither touches dst nor enters a loop.
LEMMA PlainMaxLen ==
  ASSUME MaxLenInv, pc # "idle", pc' \notin {"kernel", "tail"},
         UNCHANGED <<callVars, dst>>
  PROVE  MaxLenInv'
<1>1. StaysInMaxLen'
  BY WritesBelow DEF callVars
<1> QED BY <1>1 DEF MaxLenInv

LEMMA HandOverMaxLen ==
  ASSUME MaxLenInv, pc # "idle", NEW done \in Nat, NEW consumed \in Nat,
         consumed <= wide * done, HandOver(done, consumed), UNCHANGED dst
  PROVE  MaxLenInv'
<1>1. CASE pc' = "returned"
  BY <1>1, PlainMaxLen DEF HandOver, Return
<1>2. CASE pc' = "tail"
  <2>1. c' = 4 * done /\ dp' = consumed /\ UNCHANGED callVars
    BY <1>2 DEF HandOver, Return, groupSize
  <2>2. StaysInMaxLen'
    BY <2>1, WritesBelow DEF callVars
  <2>3. dp' <= 4 * c'
    BY <2>1 DEF wide
  <2> QED BY <1>2, <2>2, <2>3 DEF MaxLenInv
<1> QED BY <1>1, <1>2 DEF HandOver, Return

LEMMA EntryMaxLen ==
  ASSUME MaxLenInv,
         EncodeEmpty \/ EncodeTooShort \/ SlicePanic \/ BeginScalar \/ BeginScan
  PROVE  MaxLenInv'
<1>1. CASE EncodeEmpty \/ EncodeTooShort \/ SlicePanic \/ BeginScan
  <2>1. /\ pc = "entry" /\ pc' \in {"returned", "panicked", "scan"}
        /\ UNCHANGED <<callVars, dst>>
    BY <1>1 DEF EncodeEmpty, EncodeTooShort, SlicePanic, BeginScan, InEncode,
                Return, Panic
  <2> QED BY <2>1, PlainMaxLen
<1>2. CASE BeginScalar
  <2>1. pc = "entry" /\ HandOver(0, 0) /\ UNCHANGED dst
    BY <1>2 DEF BeginScalar, InEncode
  <2>2. 0 \in Nat /\ 0 <= wide * 0
    BY DEF wide
  <2> QED BY <2>1, <2>2, HandOverMaxLen
<1> QED BY <1>1, <1>2

\* The scan writes control bytes.
LEMMA ScanMaxLen ==
  ASSUME IndInv, MaxLenInv, ScanGroup \/ ScanToKernel \/ ScanToTail
  PROVE  MaxLenInv'
<1>1. /\ pc = "scan" /\ n \in Nat /\ len \in Nat /\ 0 < n /\ g \in Nat
      /\ dst \in [0 .. len + wide - 1 -> Byte]
  BY DEF IndInv, TypeOK, Entered, ScanGroup, ScanToKernel, ScanToTail
<1>2. groups \in Nat /\ groups <= cl /\ EncodedMaxLen(n) = cl + 4 * n /\ cl \in Nat
  BY <1>1, Counts, MaxLenValue
<1>3. CASE ScanGroup
  <2>1. /\ pc' = "scan" /\ g < groups /\ UNCHANGED <<n, old>>
        /\ DOMAIN dst' = DOMAIN dst /\ \A i \in DOMAIN dst : i # g => dst'[i] = dst[i]
    BY <1>3 DEF ScanGroup, callVars
  <2>2. \A i \in DOMAIN dst : i >= EncodedMaxLen(n) => i # g
    BY <1>1, <1>2, <2>1
  <2>3. StaysInMaxLen'
    BY <1>1, <2>1, <2>2, WritesBelow
  <2> QED BY <2>1, <2>3 DEF MaxLenInv
<1>4. CASE ScanToKernel
  <2>1. pc' = "kernel" /\ g' = 0 /\ off' = 0 /\ UNCHANGED <<callVars, dst>>
    BY <1>4 DEF ScanToKernel
  <2>2. StaysInMaxLen'
    BY <1>1, <2>1, WritesBelow DEF callVars
  <2>3. off' <= wide * g'
    BY <2>1 DEF wide
  <2> QED BY <2>1, <2>2, <2>3 DEF MaxLenInv
<1>5. CASE ScanToTail
  <2>1. HandOver(0, 0) /\ UNCHANGED dst
    BY <1>5 DEF ScanToTail
  <2>2. 0 \in Nat /\ 0 <= wide * 0
    BY DEF wide
  <2> QED BY <1>1, <2>1, <2>2, HandOverMaxLen
<1> QED BY <1>3, <1>4, <1>5

\* The wide store of group g ends at 16*(g+1), and a group is four integers.
LEMMA KernelMaxLen ==
  ASSUME IndInv, MaxLenInv, KernelGroup \/ KernelToTail
  PROVE  MaxLenInv'
<1>1. /\ pc = "kernel" /\ n \in Nat /\ len \in Nat /\ 0 < n /\ cl <= len
      /\ g \in Nat /\ off \in Nat /\ safe \in Nat /\ g <= safe /\ safe <= groups
      /\ dst \in [0 .. len + wide - 1 -> Byte] /\ off <= 16 * g
  BY DEF IndInv, TypeOK, Entered, KernelCursor, MaxLenInv, KernelGroup, KernelToTail, wide
<1>2. /\ groups \in Nat /\ groups <= cl /\ 4 * groups <= n
      /\ EncodedMaxLen(n) = cl + 4 * n /\ cl \in Nat
  BY <1>1, Counts, MaxLenValue
<1>3. CASE KernelGroup
  <2>1. PICK w : dst' = wideStore(w, off)
    BY <1>3 DEF KernelGroup
  <2>2. /\ pc' = "kernel" /\ g < safe /\ g' = g + 1 /\ off' = off + lengthTable[dst[g]]
        /\ UNCHANGED <<n, old>>
    BY <1>3 DEF KernelGroup, callVars
  <2>3. cl + off + 15 < EncodedMaxLen(n)
    BY <1>1, <1>2, <2>2
  <2>4. DOMAIN dst' = DOMAIN dst
    BY <2>1 DEF wideStore
  <2>5. \A i \in DOMAIN dst : i >= EncodedMaxLen(n) => dst'[i] = dst[i]
    <3>1. \A i \in DOMAIN dst :
            i >= EncodedMaxLen(n) => ~(i \in cl + off .. cl + off + wide - 1)
      BY <1>1, <1>2, <2>3 DEF wide
    <3> QED BY <2>1, <3>1 DEF wideStore
  <2>6. StaysInMaxLen'
    BY <1>1, <2>2, <2>4, <2>5, WritesBelow
  <2>7. off' <= wide * g'
    <3>1. dst[g] \in Byte
      BY <1>1, <1>2, <2>2 DEF wide
    <3>2. lengthTable[dst[g]] \in 4 .. 16
      BY <3>1, LengthType DEF wide
    <3>3. lengthTable[dst[g]] \in Nat /\ lengthTable[dst[g]] <= 16
      BY <3>2
    <3> HIDE DEF lengthTable
    <3>4. off + lengthTable[dst[g]] <= 16 * (g + 1)
      BY <1>1, <3>3
    <3> QED BY <2>2, <3>4 DEF wide
  <2> QED BY <2>2, <2>6, <2>7 DEF MaxLenInv
<1>4. CASE KernelToTail
  <2>1. g = safe /\ HandOver(safe, off) /\ UNCHANGED dst
    BY <1>4 DEF KernelToTail
  <2>2. off <= wide * safe
    BY <1>1, <2>1 DEF wide
  <2> QED BY <1>1, <2>1, <2>2, HandOverMaxLen
<1> QED BY <1>3, <1>4

\* encodeTail writes up to four bytes per integer, and control bytes.
LEMMA TailMaxLen ==
  ASSUME IndInv, MaxLenInv, TailInt \/ TailPanic \/ TailDone
  PROVE  MaxLenInv'
<1>1. /\ pc = "tail" /\ n \in Nat /\ len \in Nat /\ 0 < n
      /\ c \in Nat /\ c <= n /\ ki \in Nat /\ dp \in Nat /\ dp <= 4 * c
      /\ shift \in {0, 2, 4, 6, 8} /\ shift = 2 * (c - 4 * ki)
      /\ shift = 0 => c < n
      /\ src \in [0 .. n - 1 -> Value] /\ dst \in [0 .. len + wide - 1 -> Byte]
  BY DEF IndInv, TypeOK, Entered, TailCursor, MaxLenInv, TailInt, TailPanic, TailDone
<1>2. EncodedMaxLen(n) = cl + 4 * n /\ cl \in Nat /\ n <= 4 * cl
  BY <1>1, Counts, MaxLenValue
<1>3. ki < cl
  BY <1>1, <1>2
<1>4. CASE TailInt \/ TailPanic
  <2>1. c < n /\ dst' = TailBytesWritten /\ UNCHANGED <<n, old>>
    BY <1>4 DEF TailInt, TailPanic, Panic, callVars
  <2>2. code(src[c]) \in 0 .. 3
    <3>1. c \in 0 .. n - 1
      BY <1>1, <2>1
    <3> QED BY <1>1, <3>1, CodeType DEF Lane
  <2>3. DOMAIN dst' = DOMAIN dst
    BY <2>1 DEF TailBytesWritten
  <2>4. \A i \in DOMAIN dst : i >= EncodedMaxLen(n) => dst'[i] = dst[i]
    <3>1. \A i \in DOMAIN dst : i >= EncodedMaxLen(n) =>
            i # ki /\ ~(i \in cl + dp .. cl + dp + code(src[c]))
      BY <1>1, <1>2, <1>3, <2>1, <2>2
    <3> QED BY <2>1, <3>1 DEF TailBytesWritten
  <2>5. StaysInMaxLen'
    BY <1>1, <2>1, <2>3, <2>4, WritesBelow
  <2>6. \/ pc' = "panicked"
        \/ pc' = "tail" /\ dp' = dp + code(src[c]) + 1 /\ c' = c + 1
    BY <1>1, <1>4 DEF TailInt, TailPanic, Panic
  <2>7. pc' = "tail" => dp' <= 4 * c'
    BY <1>1, <2>2, <2>6
  <2> QED BY <2>5, <2>6, <2>7 DEF MaxLenInv
<1>5. CASE TailDone
  <2>1. /\ pc' = "returned" /\ UNCHANGED <<n, old>>
        /\ DOMAIN dst' = DOMAIN dst /\ \A i \in DOMAIN dst : i # ki => dst'[i] = dst[i]
    BY <1>5 DEF TailDone, Return, callVars
  <2>2. \A i \in DOMAIN dst : i >= EncodedMaxLen(n) => i # ki
    BY <1>1, <1>2, <1>3
  <2>3. StaysInMaxLen'
    BY <1>1, <2>1, <2>2, WritesBelow
  <2> QED BY <2>1, <2>3 DEF MaxLenInv
<1> QED BY <1>4, <1>5

LEMMA NextMaxLen ==
  ASSUME IndInv, MaxLenInv, [Next]_vars
  PROVE  MaxLenInv'
<1>1. CASE Call
  BY <1>1, CallMaxLen DEF Call
<1>2. CASE EncodeEmpty \/ EncodeTooShort \/ SlicePanic \/ BeginScalar \/ BeginScan
  BY <1>2, EntryMaxLen
<1>3. CASE ScanGroup \/ ScanToKernel \/ ScanToTail
  BY <1>3, ScanMaxLen
<1>4. CASE KernelGroup \/ KernelToTail
  BY <1>4, KernelMaxLen
<1>5. CASE TailInt \/ TailPanic \/ TailDone
  BY <1>5, TailMaxLen
<1>6. CASE UNCHANGED vars
  BY <1>6 DEF vars, callVars, groupVars, tailVars, MaxLenInv, StaysInMaxLen
<1> QED BY <1>1, <1>2, <1>3, <1>4, <1>5, <1>6 DEF Next, Step, Stop

\* No cursor lets a write reach beyond EncodedMaxLen.
LEMMA MaxLenInvariance == Spec => []MaxLenInv
<1>1. Init => MaxLenInv
  BY InitMaxLen
<1>2. IndInv /\ MaxLenInv /\ [Next]_vars => MaxLenInv'
  BY NextMaxLen
<1> QED BY <1>1, <1>2, Invariance, PTL DEF Spec

\* However long dst is, no call writes beyond EncodedMaxLen of its source: a
\* block of that size can be encoded next to others in one buffer.
THEOREM NoByteBeyondMaxLen == Spec => []StaysInMaxLen
<1>1. MaxLenInv => StaysInMaxLen
  BY DEF MaxLenInv
<1> QED BY <1>1, MaxLenInvariance, PTL

-----------------------------------------------------------------------------
(* Layout: where each integer goes, which control bytes announce it, which *)
(* groups the kernel takes, and that no byte that is final is changed.     *)

-----------------------------------------------------------------------------
(* Control bytes.                                                          *)

\* A source integer has a two-bit code.
LEMMA CodeAt ==
  ASSUME TypeOK, NEW i \in 0 .. n - 1
  PROVE  src[i] \in Value /\ code(src[i]) \in 0 .. 3
BY CodeType DEF TypeOK, Lane

\* encodeTail begins a group with no code, and adds the code of one integer.
LEMMA PackedSteps ==
  ASSUME TypeOK, NEW h \in Nat
  PROVE  /\ packed(h, 4 * h) = 0
         /\ \A r \in 0 .. 3 : 4 * h + r < n =>
              packed(h, 4 * h + r + 1)
                = packed(h, 4 * h + r) + shiftLeft(code(src[4 * h + r]), 2 * r)
         /\ \A m \in Nat : m >= 4 * h + 4 /\ 4 * h + 4 <= n => packed(h, m) = groupKey(h)
<1> DEFINE f(i, m) == IF i < m THEN code(src[i]) ELSE 0
<1>1. \A m : packed(h, m) = f(4 * h, m) + 4 * f(4 * h + 1, m) + 16 * f(4 * h + 2, m)
                            + 64 * f(4 * h + 3, m)
  BY DEF packed
<1>2. packed(h, 4 * h) = 0
  BY <1>1
<1>3. n \in Nat
  BY DEF TypeOK
<1>4. ASSUME NEW r \in 0 .. 3, 4 * h + r < n
      PROVE  packed(h, 4 * h + r + 1)
               = packed(h, 4 * h + r) + shiftLeft(code(src[4 * h + r]), 2 * r)
  <2>1. \A q \in 0 .. r : code(src[4 * h + q]) \in 0 .. 3
    <3> TAKE q \in 0 .. r
    <3>1. 4 * h + q \in 0 .. n - 1
      BY <1>3, <1>4
    <3> QED BY <3>1, CodeAt
  <2>2. code(src[4 * h + r]) \in Lane
    BY <2>1 DEF Lane
  <2>3. CASE r = 0
    <3>1. code(src[4 * h]) \in 0 .. 3 /\ 4 * h + r = 4 * h
      BY <2>1, <2>3
    <3>2. shiftLeft(code(src[4 * h]), 0) = code(src[4 * h])
      BY <2>2, <3>1, ShiftType
    <3>3. packed(h, 4 * h + 1) = code(src[4 * h])
      BY <1>1, <3>1
    <3> QED BY <1>2, <2>3, <3>1, <3>2, <3>3
  <2>4. CASE r = 1
    <3>1. code(src[4 * h + 0]) \in 0 .. 3 /\ code(src[4 * h + 1]) \in 0 .. 3
          /\ 4 * h + 0 = 4 * h
      BY <2>1, <2>4
    <3>2. shiftLeft(code(src[4 * h + 1]), 2) = 4 * code(src[4 * h + 1])
      BY <2>2, <2>4, ShiftType
    <3>3. packed(h, 4 * h + 1) = code(src[4 * h])
          /\ packed(h, 4 * h + 2) = code(src[4 * h]) + 4 * code(src[4 * h + 1])
      BY <1>1, <3>1
    <3> QED BY <2>4, <3>1, <3>2, <3>3
  <2>5. CASE r = 2
    <3>1. code(src[4 * h + 0]) \in 0 .. 3 /\ code(src[4 * h + 1]) \in 0 .. 3
          /\ code(src[4 * h + 2]) \in 0 .. 3 /\ 4 * h + 0 = 4 * h
      BY <2>1, <2>5
    <3>2. shiftLeft(code(src[4 * h + 2]), 4) = 16 * code(src[4 * h + 2])
      BY <2>2, <2>5, ShiftType
    <3>3. packed(h, 4 * h + 2) = code(src[4 * h]) + 4 * code(src[4 * h + 1])
          /\ packed(h, 4 * h + 3) = code(src[4 * h]) + 4 * code(src[4 * h + 1])
                                    + 16 * code(src[4 * h + 2])
      BY <1>1, <3>1
    <3> QED BY <2>5, <3>1, <3>2, <3>3
  <2>6. CASE r = 3
    <3>1. code(src[4 * h + 0]) \in 0 .. 3 /\ code(src[4 * h + 1]) \in 0 .. 3
          /\ code(src[4 * h + 2]) \in 0 .. 3 /\ code(src[4 * h + 3]) \in 0 .. 3
          /\ 4 * h + 0 = 4 * h
      BY <2>1, <2>6
    <3>2. shiftLeft(code(src[4 * h + 3]), 6) = 64 * code(src[4 * h + 3])
      BY <2>2, <2>6, ShiftType
    <3>3. packed(h, 4 * h + 3) = code(src[4 * h]) + 4 * code(src[4 * h + 1])
                                 + 16 * code(src[4 * h + 2])
          /\ packed(h, 4 * h + 4) = code(src[4 * h]) + 4 * code(src[4 * h + 1])
                                    + 16 * code(src[4 * h + 2]) + 64 * code(src[4 * h + 3])
      BY <1>1, <3>1
    <3> QED BY <2>6, <3>1, <3>2, <3>3
  <2> QED BY <2>3, <2>4, <2>5, <2>6
<1>5. ASSUME NEW m \in Nat, m >= 4 * h + 4, 4 * h + 4 <= n
      PROVE  packed(h, m) = groupKey(h)
  <2>1. \A q \in 0 .. 3 : f(4 * h + q, m) = f(4 * h + q, n)
    BY <1>3, <1>5
  <2>2. f(4 * h, m) = f(4 * h, n)
    BY <1>3, <1>5
  <2> QED BY <1>1, <2>1, <2>2 DEF groupKey
<1> QED BY <1>2, <1>4, <1>5

\* The control byte of a complete group, and what its lanes say.
LEMMA CompleteGroup ==
  ASSUME TypeOK, NEW h \in Nat, 4 * h + 4 <= n
  PROVE  LET k == controlByte(src[4 * h], src[4 * h + 1], src[4 * h + 2], src[4 * h + 3])
         IN /\ k \in Byte /\ k = groupKey(h)
            /\ \A lane \in Lane : laneCode(k, lane) = code(src[4 * h + lane])
<1> DEFINE k == controlByte(src[4 * h], src[4 * h + 1], src[4 * h + 2], src[4 * h + 3])
<1>1. n \in Nat
  BY DEF TypeOK
<1>2. /\ src[4 * h] \in Value /\ src[4 * h + 1] \in Value
      /\ src[4 * h + 2] \in Value /\ src[4 * h + 3] \in Value
  <2>1. 4 * h \in 0 .. n - 1 /\ 4 * h + 1 \in 0 .. n - 1 /\ 4 * h + 2 \in 0 .. n - 1
        /\ 4 * h + 3 \in 0 .. n - 1
    BY <1>1
  <2> QED BY <2>1, CodeAt
<1>3. k \in Byte
  BY <1>2, ControlByteType
<1>4. /\ laneCode(k, 0) = code(src[4 * h]) /\ laneCode(k, 1) = code(src[4 * h + 1])
      /\ laneCode(k, 2) = code(src[4 * h + 2]) /\ laneCode(k, 3) = code(src[4 * h + 3])
  BY <1>2, ControlByteLanes
<1>5. k = groupKey(h)
  <2>1. /\ code(src[4 * h]) \in Lane /\ code(src[4 * h + 1]) \in Lane
        /\ code(src[4 * h + 2]) \in Lane /\ code(src[4 * h + 3]) \in Lane
    BY <1>2, CodeType
  <2>2. /\ shiftLeft(code(src[4 * h + 1]), 2) = 4 * code(src[4 * h + 1])
        /\ shiftLeft(code(src[4 * h + 2]), 4) = 16 * code(src[4 * h + 2])
        /\ shiftLeft(code(src[4 * h + 3]), 6) = 64 * code(src[4 * h + 3])
    BY <2>1, ShiftType
  <2>3. k = code(src[4 * h]) + 4 * code(src[4 * h + 1]) + 16 * code(src[4 * h + 2])
            + 64 * code(src[4 * h + 3])
    BY <2>2 DEF controlByte
  <2>4. 4 * h < n /\ 4 * h + 1 < n /\ 4 * h + 2 < n /\ 4 * h + 3 < n
    BY <1>1
  <2> HIDE DEF k
  <2> QED BY <2>3, <2>4 DEF groupKey, packed
<1> HIDE DEF k
<1>6. \A lane \in Lane : laneCode(k, lane) = code(src[4 * h + lane])
  <2> TAKE lane \in Lane
  <2>1. lane \in {0, 1, 2, 3} /\ 4 * h + 0 = 4 * h
    BY DEF Lane
  <2> QED BY <1>4, <2>1
<1> QED BY <1>3, <1>5, <1>6 DEF k

\* The control bytes are a function of the source.
LEMMA SameKeys ==
  ASSUME UNCHANGED <<src, n>>
  PROVE  /\ \A h : groupKey(h)' = groupKey(h)
         /\ \A h, m : packed(h, m)' = packed(h, m)
BY DEF groupKey, packed

\* A step that changes neither the source nor the offsets of k integers.
LEMMA SameOffsets ==
  ASSUME NEW k \in Nat, IsLayout(k), Grows(k), src' = src,
         \A i \in 0 .. k : start'[i] = start[i]
  PROVE  IsLayout(k)' /\ Grows(k)'
<1>1. IsLayout(k)'
  BY DEF IsLayout
<1>2. Grows(k)'
  BY DEF Grows
<1> QED BY <1>1, <1>2

-----------------------------------------------------------------------------
(* The beginning and the ends of a call.                                   *)

LEMMA InitLayout == Init => LayoutInv
<1> SUFFICES ASSUME Init PROVE LayoutInv
  OBVIOUS
<1>1. OffsetsKnown
  BY DEF Init, OffsetsKnown, known, IsLayout, Grows
<1>2. Checked /\ ControlsKnown /\ SafeGroups /\ TailOffset /\ Consumed
  BY DEF Init, Checked, ControlsKnown, controlsWritten, SafeGroups, TailOffset, Consumed
<1>3. PanicsOnlyWhenTooShort
  BY DEF Init, PanicsOnlyWhenTooShort
<1> QED BY <1>1, <1>2, <1>3 DEF LayoutInv

LEMMA CallLayout ==
  ASSUME LayoutInv, NEW k \in Lengths, NEW l, CallOn(k, l)
  PROVE  LayoutInv'
<1>1. /\ pc = "idle" /\ pc' = "entry" /\ old' = dst' /\ UNCHANGED <<platform, safe, c>>
      /\ start'[0] = 0
  <2>1. start' = [i \in 0 .. k |-> 0] /\ k \in Nat
    BY InputAssumption DEF CallOn
  <2> QED BY <2>1 DEF CallOn, groupVars, tailVars
<1>2. OffsetsKnown'
  BY <1>1 DEF OffsetsKnown, known, IsLayout, Grows
<1>3. Checked'
  BY <1>1 DEF LayoutInv, Checked
<1>4. (ControlsKnown /\ SafeGroups /\ TailOffset /\ Consumed /\ PanicsOnlyWhenTooShort)'
  BY <1>1 DEF ControlsKnown, controlsWritten, SafeGroups, TailOffset, Consumed,
              PanicsOnlyWhenTooShort
<1> QED BY <1>2, <1>3, <1>4 DEF LayoutInv

LEMMA PanicLayout ==
  ASSUME IndInv, LayoutInv, pc \in {"entry", "tail"}, Panic, UNCHANGED tailVars,
         PanicsOnlyWhenTooShort'
  PROVE  LayoutInv'
<1>1. pc' = "panicked" /\ UNCHANGED <<platform, src, n, start, safe, c>>
  BY DEF Panic, callVars, groupVars, tailVars
<1>2. c \in Nat /\ IsLayout(c) /\ Grows(c)
  BY DEF IndInv, TypeOK, LayoutInv, OffsetsKnown, known, Checked
<1>3. OffsetsKnown'
  <2>1. known' = c
    BY <1>1 DEF known
  <2> QED BY <1>1, <1>2, <2>1, SameOffsets DEF OffsetsKnown
<1>4. Checked'
  BY <1>1 DEF LayoutInv, Checked
<1>5. (ControlsKnown /\ SafeGroups /\ TailOffset /\ Consumed)'
  BY <1>1 DEF ControlsKnown, controlsWritten, SafeGroups, TailOffset, Consumed
<1> QED BY <1>3, <1>4, <1>5 DEF LayoutInv

\* A call that returns has laid out its n integers and written every control byte.
LEMMA ReturnLayout ==
  ASSUME IndInv, LayoutInv, NEW result, Return(result),
         IsLayout(n), Grows(n), result = cl + start[n], result <= len,
         \A h \in 0 .. cl - 1 : dst'[h] = groupKey(h),
         public /\ platform \in hasEncodeKernel => safe = groups
  PROVE  LayoutInv'
<1>1. /\ pc' = "returned" /\ ret' = result
      /\ UNCHANGED <<platform, public, src, n, len, start, safe>> /\ n \in Nat
  BY DEF Return, callVars, groupVars, IndInv, TypeOK
<1>2. cl' = cl /\ groups' = groups
  BY <1>1 DEF cl, groups
<1>3. OffsetsKnown'
  <2>1. known' = n
    BY <1>1 DEF known
  <2> QED BY <1>1, <2>1, SameOffsets DEF OffsetsKnown
<1>4. Checked'
  BY <1>1 DEF LayoutInv, Checked
<1>5. ControlsKnown'
  <2>1. \A h \in 0 .. cl - 1 : dst'[h] = groupKey(h)'
    BY <1>1, SameKeys
  <2> QED BY <1>1, <1>2, <2>1 DEF ControlsKnown
<1>6. (SafeGroups /\ TailOffset /\ Consumed /\ PanicsOnlyWhenTooShort)'
  BY <1>1, <1>2 DEF SafeGroups, TailOffset, Consumed, PanicsOnlyWhenTooShort
<1> QED BY <1>3, <1>4, <1>5, <1>6 DEF LayoutInv

\* encodeTail begins behind the groups of the kernel.
LEMMA HandOverLayout ==
  ASSUME IndInv, LayoutInv, pc \in {"entry", "scan", "kernel"}, 0 < n,
         safe <= groups, NEW consumed \in Nat, HandOver(safe, consumed), UNCHANGED dst,
         IsLayout(4 * safe), Grows(4 * safe),
         consumed = start[4 * safe], consumed <= dataLen,
         public => ~(len < maxLen),
         platform \in hasEncodeKernel =>
           /\ \A h \in 0 .. groups - 1 : dst[h] = groupKey(h)
           /\ safe < groups => start[4 * safe] + wide > dataLen
           /\ public => safe = groups
  PROVE  LayoutInv'
<1>1. /\ TypeOK /\ Checked /\ n \in Nat /\ len \in Nat /\ safe \in Nat
      /\ start \in [0 .. n -> Nat]
  BY DEF IndInv, LayoutInv, TypeOK
<1>2. /\ cl \in Nat /\ groups \in Nat /\ groups <= cl /\ 4 * groups <= n
      /\ n < 4 * groups + 4 /\ n <= 4 * cl /\ 4 * cl < n + 4
  BY <1>1, Counts
<1>3. CASE 4 * safe >= n
  <2>1. safe = groups /\ n = 4 * safe /\ cl = groups /\ safe # 0
    BY <1>1, <1>2, <1>3
  <2>2. Return(cl + consumed)
    BY <1>1, <1>3 DEF HandOver, groupSize
  <2>3. platform \in hasEncodeKernel
    BY <1>1, <2>1 DEF Checked
  <2>4. \A h \in 0 .. cl - 1 : dst'[h] = groupKey(h)
    BY <2>1, <2>3
  <2>5. cl + consumed = cl + start[n] /\ cl + consumed <= len
    BY <1>1, <1>2, <2>1 DEF dataLen
  <2> QED BY <2>1, <2>2, <2>4, <2>5, ReturnLayout
<1>4. CASE ~(4 * safe >= n)
  <2>1. /\ pc' = "tail" /\ c' = 4 * safe /\ ki' = safe /\ dp' = consumed /\ key' = 0
        /\ UNCHANGED <<platform, public, src, n, len, old, dst, safe, start>>
    BY <1>1, <1>4 DEF HandOver, groupSize, callVars, groupVars
  <2>2. cl' = cl /\ groups' = groups /\ dataLen' = dataLen /\ maxLen' = maxLen
    BY <2>1 DEF cl, groups, dataLen, maxLen
  <2>3. OffsetsKnown'
    <3>1. known' = 4 * safe /\ 4 * safe \in Nat
      BY <1>1, <2>1 DEF known
    <3> QED BY <2>1, <3>1, SameOffsets DEF OffsetsKnown
  <2>4. Checked'
    BY <1>1, <2>1, <2>2 DEF Checked
  <2>5. ControlsKnown'
    <3>1. controlsWritten' = IF platform \in hasEncodeKernel THEN groups ELSE 0
      BY <1>1, <2>1, <2>2 DEF controlsWritten, Checked
    <3>2. \A h \in 0 .. controlsWritten' - 1 : dst'[h] = groupKey(h)'
      <4>1. CASE platform \in hasEncodeKernel
        BY <2>1, <3>1, <4>1, SameKeys
      <4>2. CASE platform \notin hasEncodeKernel
        BY <3>1, <4>2
      <4> QED BY <4>1, <4>2
    <3>3. key' = packed(safe, 4 * safe)
      BY <1>1, <2>1, PackedSteps
    <3>4. packed(ki, c)' = packed(safe, 4 * safe)
      BY <2>1, SameKeys
    <3> QED BY <2>1, <3>2, <3>3, <3>4 DEF ControlsKnown
  <2>6. SafeGroups'
    BY <2>1, <2>2 DEF SafeGroups
  <2>7. (TailOffset /\ Consumed /\ PanicsOnlyWhenTooShort)'
    BY <1>1, <2>1, <2>2 DEF TailOffset, Consumed, PanicsOnlyWhenTooShort
  <2> QED BY <2>3, <2>4, <2>5, <2>6, <2>7 DEF LayoutInv
<1> QED BY <1>3, <1>4

LEMMA EntryLayout ==
  ASSUME IndInv, LayoutInv,
         EncodeEmpty \/ EncodeTooShort \/ SlicePanic \/ BeginScalar \/ BeginScan
  PROVE  LayoutInv'
<1>1. /\ TypeOK /\ Checked /\ pc = "entry" /\ dst = old /\ safe = 0 /\ c = 0
      /\ IsLayout(0) /\ Grows(0) /\ start[0] = 0 /\ n \in Nat /\ len \in Nat
      /\ groups \in Nat /\ cl \in Nat
  <2>1. TypeOK /\ Checked /\ pc = "entry" /\ OffsetsKnown
    BY DEF IndInv, LayoutInv, EncodeEmpty, EncodeTooShort, SlicePanic, BeginScalar,
           BeginScan, InEncode
  <2>2. n \in Nat /\ len \in Nat /\ known = 0
    BY <2>1 DEF TypeOK, known
  <2> QED BY <2>1, <2>2, Counts DEF Checked, OffsetsKnown, IsLayout
<1>2. CASE EncodeEmpty
  <2>1. Return(0) /\ n = 0 /\ cl = 0 /\ groups = 0 /\ 0 = cl + start[n] /\ 0 <= len
    BY <1>1, <1>2 DEF EncodeEmpty, cl, groups, controlLen, groupSize
  <2>2. \A h \in 0 .. cl - 1 : dst'[h] = groupKey(h)
    BY <2>1
  <2> QED BY <1>1, <2>1, <2>2, ReturnLayout
<1>3. CASE EncodeTooShort
  <2>1. /\ Panic /\ UNCHANGED tailVars /\ public /\ len < maxLen
        /\ UNCHANGED <<platform, public, n, len, old, dst>>
    BY <1>3 DEF EncodeTooShort, Panic, callVars
  <2>2. PanicsOnlyWhenTooShort'
    BY <1>1, <2>1 DEF PanicsOnlyWhenTooShort, maxLen
  <2> QED BY <1>1, <2>1, <2>2, PanicLayout
<1>4. CASE SlicePanic
  <2>1. /\ Panic /\ UNCHANGED tailVars /\ cl > len /\ 0 < n
        /\ public => ~(len < maxLen)
        /\ UNCHANGED <<platform, public, n, len, old, dst>>
    BY <1>1, <1>4 DEF SlicePanic, InEncode, Panic, callVars
  <2>2. len < EncodedMaxLen(n)
    BY <1>1, <2>1, MaxLenValue
  <2>3. maxLen' = maxLen /\ cl' = cl
    BY <2>1 DEF maxLen, cl
  <2>4. PanicsOnlyWhenTooShort'
    BY <1>1, <2>1, <2>2, <2>3 DEF PanicsOnlyWhenTooShort
  <2> QED BY <1>1, <2>1, <2>4, PanicLayout
<1>5. CASE BeginScalar
  <2>1. /\ 0 < n /\ cl <= len /\ HandOver(safe, 0) /\ UNCHANGED dst
        /\ (public => ~(len < maxLen)) /\ platform \notin hasEncodeKernel
    BY <1>1, <1>5 DEF BeginScalar, InEncode
  <2>2. 0 \in Nat /\ 0 <= dataLen /\ 4 * safe = 0 /\ safe <= groups
    BY <1>1, <2>1 DEF dataLen
  <2> QED BY <1>1, <2>1, <2>2, HandOverLayout
<1>6. CASE BeginScan
  <2>1. /\ pc' = "scan" /\ g' = 0 /\ safe' = groups /\ platform \in hasEncodeKernel
        /\ (public => ~(len < maxLen))
        /\ UNCHANGED <<platform, public, src, n, len, old, dst, start, c>>
    BY <1>1, <1>6 DEF BeginScan, InEncode, callVars, tailVars
  <2>2. groups' = groups /\ maxLen' = maxLen /\ known' = 0 /\ controlsWritten' = 0
    BY <2>1 DEF groups, maxLen, known, controlsWritten
  <2>3. OffsetsKnown'
    BY <1>1, <2>1, <2>2, SameOffsets DEF OffsetsKnown
  <2>4. Checked' /\ ControlsKnown' /\ SafeGroups'
    BY <1>1, <2>1, <2>2 DEF Checked, ControlsKnown, SafeGroups
  <2>5. (TailOffset /\ Consumed /\ PanicsOnlyWhenTooShort)'
    BY <2>1 DEF TailOffset, Consumed, PanicsOnlyWhenTooShort
  <2> QED BY <2>3, <2>4, <2>5 DEF LayoutInv
<1> QED BY <1>2, <1>3, <1>4, <1>5, <1>6

-----------------------------------------------------------------------------
(* The scan.                                                               *)

\* What the scan writes for group g.
LEMMA ScanFacts ==
  ASSUME IndInv, ScanGroup
  PROVE  LET k == groupKey(g)
         IN /\ k \in Byte /\ dst' = [dst EXCEPT ![g] = k] /\ dst'[g] = k
            /\ off = start[4 * g]
            /\ \A i \in 0 .. 4 * g : start'[i] = start[i]
            /\ \A j \in 0 .. 4 : start'[4 * g + j] = off + cursor(k, j)
            /\ \A j \in 0 .. 3 : cursor(k, j + 1) = cursor(k, j) + code(src[4 * g + j]) + 1
            /\ \A j \in 0 .. 4 : cursor(k, j) \in 0 .. 4 * j
            /\ \A j \in 0 .. 3 : code(src[4 * g + j]) \in 0 .. 3
<1> DEFINE k == groupKey(g)
<1>1. /\ TypeOK /\ ScanCursor /\ Entered /\ pc = "scan" /\ g < groups
  BY DEF ScanGroup, IndInv
<1>2. /\ n \in Nat /\ len \in Nat /\ g \in Nat /\ off \in Nat /\ off = start[4 * g]
      /\ start \in [0 .. n -> Nat] /\ dst \in [0 .. len + wide - 1 -> Byte]
      /\ cl <= len
  BY <1>1 DEF TypeOK, ScanCursor, Entered
<1>3. groups \in Nat /\ 4 * groups <= n /\ groups <= cl /\ cl \in Nat
  BY <1>2, Counts
<1>4. 4 * g + 4 <= n
  BY <1>1, <1>2, <1>3
<1>5. /\ k = controlByte(src[4 * g], src[4 * g + 1], src[4 * g + 2], src[4 * g + 3])
      /\ k \in Byte /\ \A lane \in Lane : laneCode(k, lane) = code(src[4 * g + lane])
  BY <1>1, <1>2, <1>4, CompleteGroup
<1>6. /\ dst' = [dst EXCEPT ![g] = k]
      /\ start' = [i \in 0 .. n |-> IF i \in 4 * g + 1 .. 4 * g + 4
                                    THEN off + cursor(k, i - 4 * g) ELSE start[i]]
  BY <1>5 DEF ScanGroup
<1> HIDE DEF k
<1>7. dst'[g] = k
  <2>1. g \in 0 .. len + wide - 1
    BY <1>1, <1>2, <1>3 DEF wide
  <2> QED BY <1>2, <1>6, <2>1
<1>8. \A i \in 0 .. 4 * g : start'[i] = start[i]
  BY <1>2, <1>4, <1>6
<1>9. /\ laneCode(k, 0) \in 0 .. 3 /\ laneCode(k, 1) \in 0 .. 3
      /\ laneCode(k, 2) \in 0 .. 3 /\ laneCode(k, 3) \in 0 .. 3
  BY <1>5, LaneCodeType DEF Lane
<1>10. /\ cursor(k, 0) = 0 /\ cursor(k, 1) = cursor(k, 0) + laneCode(k, 0) + 1
       /\ cursor(k, 2) = cursor(k, 1) + laneCode(k, 1) + 1
       /\ cursor(k, 3) = cursor(k, 2) + laneCode(k, 2) + 1
       /\ cursor(k, 4) = cursor(k, 3) + laneCode(k, 3) + 1
  BY <1>5, CursorSteps
<1>11. \A j \in 0 .. 4 : cursor(k, j) \in 0 .. 4 * j
  <2> TAKE j \in 0 .. 4
  <2>1. j \in {0, 1, 2, 3, 4}
    OBVIOUS
  <2> QED BY <1>9, <1>10, <2>1
<1>12. \A j \in 0 .. 3 : /\ cursor(k, j + 1) = cursor(k, j) + laneCode(k, j) + 1
                         /\ laneCode(k, j) \in 0 .. 3
  <2> TAKE j \in 0 .. 3
  <2>1. j \in {0, 1, 2, 3}
    OBVIOUS
  <2> QED BY <1>9, <1>10, <2>1
<1>13. \A j \in 0 .. 4 : start'[4 * g + j] = off + cursor(k, j)
  <2> TAKE j \in 0 .. 4
  <2>1. 4 * g + j \in 0 .. n
    BY <1>2, <1>4
  <2>2. CASE j = 0
    BY <1>2, <1>6, <1>10, <2>1, <2>2
  <2>3. CASE j \in 1 .. 4
    <3>1. 4 * g + j \in 4 * g + 1 .. 4 * g + 4 /\ (4 * g + j) - 4 * g = j
      BY <1>2, <2>3
    <3> QED BY <1>6, <2>1, <3>1
  <2> QED BY <2>2, <2>3
<1>14. \A j \in 0 .. 3 : laneCode(k, j) = code(src[4 * g + j])
  BY <1>5 DEF Lane
<1> QED BY <1>2, <1>5, <1>6, <1>7, <1>8, <1>11, <1>12, <1>13, <1>14 DEF k

LEMMA ScanGroupLayout ==
  ASSUME IndInv, IndInv', LayoutInv, ScanGroup
  PROVE  LayoutInv'
<1> DEFINE k == groupKey(g)
<1>1. /\ pc = "scan" /\ pc' = "scan" /\ g < groups /\ g' = g + 1
      /\ safe' = (IF safe = groups /\ ~WideFits THEN g ELSE safe)
      /\ UNCHANGED <<platform, public, src, n, len, old, c>>
  BY DEF ScanGroup, callVars, tailVars
<1>2. /\ TypeOK /\ Checked /\ OffsetsKnown /\ ControlsKnown /\ SafeGroups /\ ScanCursor
      /\ Entered
  BY DEF IndInv, LayoutInv
<1>3. /\ n \in Nat /\ len \in Nat /\ g \in Nat /\ off \in Nat /\ safe \in Nat
      /\ start \in [0 .. n -> Nat] /\ platform \in hasEncodeKernel
  BY <1>1, <1>2 DEF TypeOK, Entered
<1>4. /\ groups \in Nat /\ 4 * groups <= n /\ cl \in Nat /\ dataLen \in Int
      /\ groups' = groups /\ dataLen' = dataLen /\ maxLen' = maxLen
      /\ known = 4 * g /\ known' = 4 * g' /\ 4 * g' = 4 * g + 4
      /\ controlsWritten = g /\ controlsWritten' = g + 1
  BY <1>1, <1>3, Counts DEF groups, dataLen, cl, maxLen, known, controlsWritten
<1>5. /\ k \in Byte /\ dst' = [dst EXCEPT ![g] = k] /\ dst'[g] = k /\ off = start[4 * g]
      /\ \A i \in 0 .. 4 * g : start'[i] = start[i]
      /\ \A j \in 0 .. 4 : start'[4 * g + j] = off + cursor(k, j)
      /\ \A j \in 0 .. 3 : cursor(k, j + 1) = cursor(k, j) + code(src[4 * g + j]) + 1
      /\ \A j \in 0 .. 4 : cursor(k, j) \in 0 .. 4 * j
      /\ \A j \in 0 .. 3 : code(src[4 * g + j]) \in 0 .. 3
  BY ScanFacts
<1> HIDE DEF k
<1>6. IsLayout(4 * g) /\ Grows(4 * g)
  BY <1>2, <1>4 DEF OffsetsKnown
\* One integer after the other.
<1>7. \A i \in 0 .. 4 * g + 3 :
        start'[i + 1] = start'[i] + code(src[i]) + 1
  <2> TAKE i \in 0 .. 4 * g + 3
  <2>1. CASE i < 4 * g
    <3>1. i \in 0 .. 4 * g - 1 /\ i \in 0 .. 4 * g /\ i + 1 \in 0 .. 4 * g
      BY <1>3, <2>1
    <3>2. start[i + 1] = start[i] + code(src[i]) + 1
      BY <1>6, <3>1 DEF IsLayout
    <3> QED BY <1>5, <3>1, <3>2
  <2>2. CASE i >= 4 * g
    <3>1. PICK j \in 0 .. 3 : i = 4 * g + j
      <4>1. i - 4 * g \in 0 .. 3 /\ i = 4 * g + (i - 4 * g)
        BY <1>3, <2>2
      <4> QED BY <4>1
    <3>2. j \in 0 .. 4 /\ j + 1 \in 0 .. 4 /\ i + 1 = 4 * g + (j + 1)
      BY <1>3, <3>1
    <3>3. start'[i + 1] = off + cursor(k, j + 1) /\ start'[i] = off + cursor(k, j)
      BY <1>5, <3>1, <3>2
    <3>4. cursor(k, j + 1) = cursor(k, j) + code(src[i]) + 1
      BY <1>5, <3>1
    <3>5. cursor(k, j) \in Nat /\ code(src[i]) \in 0 .. 3
      BY SMTT(40), <1>5, <3>1, <3>2
    <3> QED BY SMTT(40), <1>3, <3>3, <3>4, <3>5
  <2> QED BY <1>3, <2>1, <2>2
<1>8. IsLayout(4 * g)'
  <2>1. start'[0] = 0
    BY SMTT(40), <1>3, <1>5, <1>6 DEF IsLayout
  <2>2. 4 * g' - 1 = 4 * g + 3
    BY <1>3, <1>4
  <2> QED BY <1>1, <1>7, <2>1, <2>2 DEF IsLayout
\* The four new offsets are not below off, which is not below those before it.
<1>9. Grows(4 * g)'
  <2>1. \A i \in 0 .. 4 * g :
          /\ start'[i] = start[i] /\ start[i] \in Nat /\ start[i] <= off /\ start[i] <= 4 * i
    <3> TAKE i \in 0 .. 4 * g
    <3>1. i \in 0 .. n /\ 4 * g \in 0 .. 4 * g /\ i <= 4 * g
      BY <1>1, <1>3, <1>4
    <3>2. start[i] <= start[4 * g] /\ start[i] <= 4 * i
      BY <1>6, <3>1 DEF Grows
    <3> QED BY <1>3, <1>5, <3>1, <3>2
  <2>2. off <= 16 * g
    <3>1. 4 * g \in 0 .. 4 * g
      BY <1>3
    <3> QED BY <1>3, <1>5, <2>1, <3>1
  <2>3. \A j \in 0 .. 4 : /\ start'[4 * g + j] \in Nat /\ off <= start'[4 * g + j]
                          /\ start'[4 * g + j] <= 4 * (4 * g + j)
    <3> TAKE j \in 0 .. 4
    <3>1. cursor(k, j) \in 0 .. 4 * j /\ start'[4 * g + j] = off + cursor(k, j)
      BY <1>5
    <3> QED BY <1>3, <2>2, <3>1
  <2>4. \A j \in 0 .. 3 : cursor(k, j) <= cursor(k, j + 1)
    <3> TAKE j \in 0 .. 3
    <3>1. cursor(k, j) \in Nat /\ code(src[4 * g + j]) \in 0 .. 3
      <4>1. j \in 0 .. 4
        OBVIOUS
      <4> QED BY <1>5, <4>1
    <3> QED BY <1>5, <3>1
  <2>5. \A a, b \in 0 .. 4 : a <= b => start'[4 * g + a] <= start'[4 * g + b]
    <3>1. /\ cursor(k, 0) <= cursor(k, 1) /\ cursor(k, 1) <= cursor(k, 2)
          /\ cursor(k, 2) <= cursor(k, 3) /\ cursor(k, 3) <= cursor(k, 4)
      <4>1. 0 + 1 = 1 /\ 1 + 1 = 2 /\ 2 + 1 = 3 /\ 3 + 1 = 4
        OBVIOUS
      <4> QED BY <2>4, <4>1
    <3>2. /\ cursor(k, 0) \in Nat /\ cursor(k, 1) \in Nat /\ cursor(k, 2) \in Nat
          /\ cursor(k, 3) \in Nat /\ cursor(k, 4) \in Nat
      BY <1>5
    <3>3. \A a, b \in 0 .. 4 : a <= b => cursor(k, a) <= cursor(k, b)
      <4> TAKE a, b \in 0 .. 4
      <4>1. a \in {0, 1, 2, 3, 4} /\ b \in {0, 1, 2, 3, 4}
        OBVIOUS
      <4> QED BY <3>1, <3>2, <4>1
    <3> TAKE a, b \in 0 .. 4
    <3>4. start'[4 * g + a] = off + cursor(k, a) /\ start'[4 * g + b] = off + cursor(k, b)
      BY <1>5
    <3>5. cursor(k, a) \in Nat /\ cursor(k, b) \in Nat
      BY <1>5
    <3> QED BY SMTT(40), <1>3, <3>3, <3>4, <3>5
  <2>6. \A i \in 0 .. 4 * g + 4 : i \in 0 .. 4 * g \/ \E j \in 0 .. 4 : i = 4 * g + j
    <3> TAKE i \in 0 .. 4 * g + 4
    <3>1. i \notin 0 .. 4 * g => i - 4 * g \in 0 .. 4 /\ i = 4 * g + (i - 4 * g)
      BY <1>3
    <3> QED BY <3>1
  <2>7. \A i \in 0 .. 4 * g + 4 : start'[i] <= 4 * i
    BY <2>1, <2>3, <2>6
  <2>8. ASSUME NEW i \in 0 .. 4 * g + 4, NEW j \in 0 .. 4 * g + 4, i <= j
        PROVE  start'[i] <= start'[j]
    <3>1. CASE j \in 0 .. 4 * g
      <4>1. i \in 0 .. 4 * g
        BY <1>3, <2>8, <3>1
      <4>2. start[i] <= start[j]
        BY <1>6, <2>8, <3>1, <4>1 DEF Grows
      <4> QED BY <2>1, <3>1, <4>1, <4>2
    <3>2. CASE i \in 0 .. 4 * g /\ j \notin 0 .. 4 * g
      <4>1. PICK b \in 0 .. 4 : j = 4 * g + b
        BY <2>6, <3>2
      <4>2. /\ start'[i] \in Nat /\ start'[i] <= off /\ off <= start'[j] /\ start'[j] \in Nat
        BY <2>1, <2>3, <3>2, <4>1
      <4> QED BY <1>3, <4>2
    <3>3. CASE i \notin 0 .. 4 * g /\ j \notin 0 .. 4 * g
      <4>1. PICK a \in 0 .. 4 : i = 4 * g + a
        BY <2>6, <3>3
      <4>2. PICK b \in 0 .. 4 : j = 4 * g + b
        BY <2>6, <3>3
      <4>3. a <= b
        BY <1>3, <2>8, <4>1, <4>2
      <4> QED BY <2>5, <4>1, <4>2, <4>3
    <3> QED BY <3>1, <3>2, <3>3
  <2> QED BY <1>4, <2>7, <2>8 DEF Grows
<1>10. OffsetsKnown'
  BY <1>4, <1>8, <1>9 DEF OffsetsKnown
<1>11. ControlsKnown'
  <2>1. \A h \in 0 .. g - 1 : dst'[h] = groupKey(h)
    <3>1. \A h \in 0 .. g - 1 : dst[h] = groupKey(h)
      BY <1>1, <1>2, <1>4 DEF ControlsKnown
    <3>2. \A h \in 0 .. g - 1 : h \in 0 .. len + wide - 1 /\ h # g
      BY <1>1, <1>2, <1>3, <1>4, Counts DEF Entered, wide
    <3>3. dst \in [0 .. len + wide - 1 -> Byte]
      BY <1>2 DEF TypeOK
    <3> QED BY <1>5, <3>1, <3>2, <3>3
  <2>2. \A h \in 0 .. g : dst'[h] = groupKey(h)
    <3>1. \A h \in 0 .. g : h \in 0 .. g - 1 \/ h = g
      BY <1>3
    <3> QED BY <1>5, <2>1, <3>1 DEF k
  <2>3. \A h \in 0 .. controlsWritten' - 1 : dst'[h] = groupKey(h)'
    <3>1. controlsWritten' - 1 = g
      BY <1>3, <1>4
    <3> QED BY <1>1, <2>2, <3>1, SameKeys
  <2> QED BY <1>1, <2>3 DEF ControlsKnown
<1>12. SafeGroups'
  <2>1. safe' <= groups /\ (safe' < groups => start'[4 * safe'] + wide > dataLen)
    <3>1. CASE safe = groups /\ ~WideFits
      <4>1. safe' = g /\ start'[4 * g] = off
        <5>1. 4 * g \in 0 .. 4 * g
          BY <1>3
        <5> QED BY <1>1, <1>5, <3>1, <5>1
      <4>2. off + wide > dataLen
        BY <1>3, <1>4, <3>1 DEF WideFits, wide
      <4> QED BY <1>1, <1>3, <1>4, <4>1, <4>2
    <3>2. CASE safe = groups /\ WideFits
      BY <1>1, <1>3, <1>4, <3>2
    <3>3. CASE safe # groups
      <4>1. safe' = safe /\ safe < g
        BY <1>1, <1>2, <3>3 DEF ScanCursor
      <4>2. start'[4 * safe] = start[4 * safe]
        <5>1. 4 * safe \in 0 .. 4 * g
          BY <1>3, <4>1
        <5> QED BY <1>5, <5>1
      <4>3. safe < groups /\ start[4 * safe] + wide > dataLen
        BY <1>1, <1>2, <1>3, <1>4, <4>1 DEF SafeGroups
      <4> QED BY <4>1, <4>2, <4>3, <1>3, <1>4
    <3> QED BY <3>1, <3>2, <3>3
  <2> QED BY <1>1, <1>4, <2>1 DEF SafeGroups
<1>13. Checked'
  BY <1>1, <1>2, <1>3, <1>4 DEF Checked
<1>14. (TailOffset /\ Consumed /\ PanicsOnlyWhenTooShort)'
  BY <1>1 DEF TailOffset, Consumed, PanicsOnlyWhenTooShort
<1> QED BY <1>10, <1>11, <1>12, <1>13, <1>14 DEF LayoutInv

\* With EncodedMaxLen bytes, the wide store of the last complete group fits too:
\* the data of the groups before it takes at most 16 bytes each.
LEMMA TakesAllGroups ==
  ASSUME IndInv, LayoutInv, pc = "scan", g = groups, public
  PROVE  safe = groups
<1>1. /\ TypeOK /\ Entered /\ Checked /\ OffsetsKnown /\ SafeGroups
  BY DEF IndInv, LayoutInv
<1>2. /\ n \in Nat /\ len \in Nat /\ g \in Nat /\ safe \in Nat /\ 0 < n
      /\ platform \in hasEncodeKernel /\ start \in [0 .. n -> Nat]
  BY <1>1 DEF TypeOK, Entered
<1>3. /\ groups \in Nat /\ 4 * groups <= n /\ cl \in Nat /\ cl + dataLen = len
      /\ dataLen \in Int /\ EncodedMaxLen(n) = cl + 4 * n
  BY <1>2, Counts, MaxLenValue
<1>4. cl + 4 * n <= len
  <2>1. maxLen = cl + 4 * n
    BY <1>2, <1>3 DEF maxLen, hasEncodeKernel
  <2>2. ~(len < maxLen)
    BY <1>1 DEF Checked
  <2> QED BY <1>2, <1>3, <2>1, <2>2
<1>5. ASSUME safe < groups PROVE FALSE
  <2>1. start[4 * safe] + 16 > dataLen
    BY <1>1, <1>2, <1>5 DEF SafeGroups, wide
  <2>2. start[4 * safe] <= 16 * safe /\ start[4 * safe] \in Nat
    <3>1. 4 * safe \in 0 .. 4 * g /\ 4 * safe \in 0 .. n /\ known = 4 * g
      BY <1>2, <1>3, <1>5 DEF known
    <3>2. start[4 * safe] <= 4 * (4 * safe)
      BY <1>1, <3>1 DEF OffsetsKnown, Grows
    <3> QED BY <1>2, <3>1, <3>2
  <2> QED BY <1>2, <1>3, <1>4, <1>5, <2>1, <2>2
<1>6. safe <= groups
  BY <1>1, <1>2 DEF SafeGroups
<1> QED BY <1>2, <1>3, <1>5, <1>6

LEMMA ScanEndLayout ==
  ASSUME IndInv, LayoutInv, ScanToKernel \/ ScanToTail
  PROVE  LayoutInv'
<1>1. /\ pc = "scan" /\ g = groups /\ TypeOK /\ Entered /\ Checked /\ OffsetsKnown
      /\ ControlsKnown /\ SafeGroups
  BY DEF ScanToKernel, ScanToTail, IndInv, LayoutInv
<1>2. /\ n \in Nat /\ len \in Nat /\ safe \in Nat /\ 0 < n /\ cl <= len
      /\ platform \in hasEncodeKernel
  BY <1>1 DEF TypeOK, Entered
<1>3. /\ groups \in Nat /\ cl \in Nat /\ dataLen \in Int /\ cl + dataLen = len
      /\ 4 * groups <= n
  BY <1>2, Counts
<1>4. /\ safe <= groups /\ (safe < groups => start[4 * safe] + wide > dataLen)
      /\ public => safe = groups
  BY <1>1, <1>2, TakesAllGroups DEF SafeGroups
<1>5. IsLayout(4 * groups) /\ Grows(4 * groups)
  BY <1>1 DEF OffsetsKnown, known
<1>6. \A h \in 0 .. groups - 1 : dst[h] = groupKey(h)
  BY <1>1 DEF ControlsKnown, controlsWritten
<1>7. CASE ScanToKernel
  <2>1. /\ pc' = "kernel" /\ safe > 0
        /\ UNCHANGED <<platform, public, src, n, len, old, dst, safe, c, start>>
    BY <1>7 DEF ScanToKernel, callVars, tailVars
  <2>2. groups' = groups /\ dataLen' = dataLen /\ maxLen' = maxLen
    BY <2>1 DEF groups, dataLen, cl, maxLen
  <2>3. known' = 4 * groups /\ controlsWritten' = groups
    BY <1>2, <2>1, <2>2 DEF known, controlsWritten
  <2>4. OffsetsKnown'
    <3>1. 4 * groups \in Nat
      BY <1>3
    <3> QED BY <1>5, <2>1, <2>3, <3>1, SameOffsets DEF OffsetsKnown
  <2>5. ControlsKnown'
    BY <1>6, <2>1, <2>3, SameKeys DEF ControlsKnown
  <2>6. SafeGroups' /\ Checked'
    BY <1>1, <1>4, <2>1, <2>2 DEF SafeGroups, Checked
  <2>7. (TailOffset /\ Consumed /\ PanicsOnlyWhenTooShort)'
    BY <2>1 DEF TailOffset, Consumed, PanicsOnlyWhenTooShort
  <2> QED BY <2>4, <2>5, <2>6, <2>7 DEF LayoutInv
<1>8. CASE ScanToTail
  <2>1. safe = 0 /\ 4 * safe = 0 /\ HandOver(safe, 0) /\ UNCHANGED dst
    BY <1>8 DEF ScanToTail
  <2>2. start[0] = 0 /\ IsLayout(0) /\ Grows(0)
    BY <1>3, <1>5 DEF IsLayout, Grows
  <2>3. 0 \in Nat /\ 0 <= dataLen
    BY <1>2, <1>3
  <2>4. public => ~(len < maxLen)
    BY <1>1 DEF Checked
  <2> QED BY <1>1, <1>2, <1>4, <1>6, <2>1, <2>2, <2>3, <2>4, HandOverLayout
<1> QED BY <1>7, <1>8

-----------------------------------------------------------------------------
(* The kernel.                                                             *)

\* The wide store of a group is in the data region.
LEMMA KernelWrites ==
  ASSUME IndInv, KernelGroup
  PROVE  /\ cl \in Nat /\ off \in Nat /\ off = start[4 * g] /\ cl + off + wide <= len
         /\ DOMAIN dst' = DOMAIN dst
         /\ \A i \in DOMAIN dst : i < cl + off \/ i >= cl + off + wide => dst'[i] = dst[i]
         /\ g < safe /\ safe <= groups /\ groups <= cl /\ groups \in Nat
<1>1. /\ TypeOK /\ KernelCursor /\ Entered /\ pc = "kernel" /\ g < safe
      /\ \E w : dst' = wideStore(w, off)
  BY DEF KernelGroup, IndInv
<1>2. /\ n \in Nat /\ len \in Nat /\ g \in Nat /\ off \in Nat /\ safe \in Nat
      /\ off = start[4 * g] /\ safe <= groups /\ StoresFit(safe)
      /\ dst \in [0 .. len + wide - 1 -> Byte]
  BY <1>1 DEF TypeOK, KernelCursor
<1>3. cl \in Nat /\ cl + dataLen = len /\ dataLen \in Int /\ groups <= cl /\ groups \in Nat
  BY <1>2, Counts
<1>4. off + wide <= dataLen
  <2>1. g \in 0 .. safe - 1
    BY <1>1, <1>2
  <2> QED BY <1>2, <2>1 DEF StoresFit
<1>5. PICK w : dst' = wideStore(w, off)
  BY <1>1
<1>6. /\ DOMAIN dst' = DOMAIN dst
      /\ \A i \in DOMAIN dst : i < cl + off \/ i >= cl + off + wide => dst'[i] = dst[i]
  <2>1. DOMAIN dst' = DOMAIN dst
    BY <1>5 DEF wideStore
  <2>2. \A i \in DOMAIN dst :
          i < cl + off \/ i >= cl + off + wide => ~(i \in cl + off .. cl + off + wide - 1)
    BY <1>2, <1>3 DEF wide
  <2> QED BY <1>5, <2>1, <2>2 DEF wideStore
<1> QED BY <1>1, <1>2, <1>3, <1>4, <1>6 DEF wide

LEMMA KernelGroupLayout ==
  ASSUME IndInv, LayoutInv, KernelGroup
  PROVE  LayoutInv'
<1>1. /\ pc = "kernel" /\ pc' = "kernel"
      /\ UNCHANGED <<platform, public, src, n, len, old, safe, c, start>>
  BY DEF KernelGroup, callVars, tailVars
<1>2. /\ TypeOK /\ Entered /\ Checked /\ OffsetsKnown /\ ControlsKnown /\ SafeGroups
  BY DEF IndInv, LayoutInv
<1>3. groups' = groups /\ dataLen' = dataLen /\ maxLen' = maxLen
  BY <1>1 DEF groups, dataLen, cl, maxLen
<1>4. /\ known = 4 * groups /\ known' = 4 * groups
      /\ controlsWritten = groups /\ controlsWritten' = groups
  BY <1>1, <1>2, <1>3 DEF known, controlsWritten, Entered
<1>5. groups \in Nat /\ groups <= cl /\ cl \in Nat /\ cl <= len /\ len \in Nat
  BY <1>1, <1>2, KernelWrites DEF Entered, TypeOK
<1>6. OffsetsKnown'
  <2>1. 4 * groups \in Nat
    BY <1>5
  <2> QED BY <1>1, <1>2, <1>4, <2>1, SameOffsets DEF OffsetsKnown
<1>7. ControlsKnown'
  <2>1. \A h \in 0 .. groups - 1 : dst[h] = groupKey(h)
    BY <1>1, <1>2, <1>4 DEF ControlsKnown
  <2>2. \A h \in 0 .. groups - 1 : dst'[h] = dst[h]
    <3>1. \A h \in 0 .. groups - 1 : h \in DOMAIN dst /\ h < cl + off
      BY <1>2, <1>5, KernelWrites DEF TypeOK, wide
    <3> QED BY <3>1, KernelWrites
  <2> QED BY <1>1, <1>4, <2>1, <2>2, SameKeys DEF ControlsKnown
<1>8. SafeGroups' /\ Checked'
  BY <1>1, <1>2, <1>3 DEF SafeGroups, Checked
<1>9. (TailOffset /\ Consumed /\ PanicsOnlyWhenTooShort)'
  BY <1>1 DEF TailOffset, Consumed, PanicsOnlyWhenTooShort
<1> QED BY <1>6, <1>7, <1>8, <1>9 DEF LayoutInv

LEMMA KernelToTailLayout ==
  ASSUME IndInv, LayoutInv, KernelToTail
  PROVE  LayoutInv'
<1>1. /\ pc = "kernel" /\ g = safe /\ HandOver(safe, off) /\ UNCHANGED dst
      /\ TypeOK /\ Entered /\ KernelCursor /\ Checked /\ OffsetsKnown /\ ControlsKnown
      /\ SafeGroups
  BY DEF KernelToTail, IndInv, LayoutInv
<1>2. /\ n \in Nat /\ len \in Nat /\ safe \in Nat /\ off \in Nat /\ 0 < n /\ cl <= len
      /\ platform \in hasEncodeKernel /\ off = start[4 * safe] /\ safe > 0
      /\ safe <= groups /\ StoresFit(safe) /\ GroupChain(safe)
      /\ dst \in [0 .. len + wide - 1 -> Byte] /\ start \in [0 .. n -> Nat]
  BY <1>1 DEF TypeOK, Entered, KernelCursor, SafeGroups
<1>3. /\ groups \in Nat /\ cl \in Nat /\ dataLen \in Int /\ cl + dataLen = len
      /\ groups <= cl /\ 4 * groups <= n
  BY <1>2, Counts
<1>4. IsLayout(4 * safe) /\ Grows(4 * safe)
  <2>1. IsLayout(4 * groups) /\ Grows(4 * groups)
    BY <1>1 DEF OffsetsKnown, known
  <2>2. \A i \in 0 .. 4 * safe : i \in 0 .. 4 * groups
    BY <1>2, <1>3
  <2>3. \A i \in 0 .. 4 * safe - 1 : i \in 0 .. 4 * groups - 1
    BY <1>2, <1>3
  <2>4. IsLayout(4 * safe)
    BY <2>1, <2>3 DEF IsLayout
  <2>5. Grows(4 * safe)
    BY <2>1, <2>2 DEF Grows
  <2> QED BY <2>4, <2>5
\* The data of the last group ends within its wide store.
<1>5. off <= dataLen
  <2> DEFINE h == safe - 1
  <2>1. h \in 0 .. safe - 1 /\ 4 * h + 4 = 4 * safe /\ h \in DOMAIN dst /\ 4 * h \in 0 .. n
    BY <1>2, <1>3 DEF wide
  <2>2. start[4 * h + 4] = start[4 * h] + lengthTable[dst[h]] /\ start[4 * h] + 16 <= dataLen
    BY <1>2, <2>1 DEF GroupChain, StoresFit, wide
  <2>3. lengthTable[dst[h]] \in 4 .. 16
    BY <1>2, <2>1, LengthType DEF wide
  <2>4. start[4 * h] \in Nat
    BY <1>2, <2>1
  <2> HIDE DEF h
  <2>5. off = start[4 * h] + lengthTable[dst[h]]
    BY <1>2, <2>1, <2>2
  <2>6. /\ off \in Nat /\ dataLen \in Int /\ start[4 * h] + 16 <= dataLen
    BY <1>2, <1>3, <2>2
  <2>7. lengthTable[dst[h]] \in Nat /\ lengthTable[dst[h]] <= 16
    BY <2>3
  <2> QED BY <2>4, <2>5, <2>6, <2>7
<1>6. /\ safe < groups => start[4 * safe] + wide > dataLen
      /\ public => safe = groups /\ ~(len < maxLen)
      /\ \A h \in 0 .. groups - 1 : dst[h] = groupKey(h)
  BY <1>1, <1>2 DEF SafeGroups, Checked, ControlsKnown, controlsWritten
<1> QED BY <1>1, <1>2, <1>4, <1>5, <1>6, HandOverLayout

-----------------------------------------------------------------------------
(* encodeTail.                                                             *)

\* What encodeTail may rely on at integer c: its offset is the one it is at, and
\* a control byte it flushes is complete.
LEMMA TailFacts ==
  ASSUME IndInv, LayoutInv, pc = "tail"
  PROVE  /\ n \in Nat /\ len \in Nat /\ c \in Nat /\ ki \in Nat /\ dp \in Nat /\ safe \in Nat
         /\ cl \in Nat /\ cl <= len /\ groups \in Nat /\ groups <= cl /\ cl <= groups + 1
         /\ n <= 4 * cl /\ 4 * cl < n + 4 /\ 4 * groups <= n /\ n < 4 * groups + 4
         /\ dataLen \in Nat /\ cl + dataLen = len
         /\ start \in [0 .. n -> Nat] /\ dst \in [0 .. len + wide - 1 -> Byte]
         /\ shift \in {0, 2, 4, 6, 8} /\ shift = 2 * (c - 4 * ki) /\ c <= n
         /\ (shift = 0 => c < n) /\ ki < cl
         /\ IsLayout(c) /\ Grows(c) /\ dp = start[c] /\ dp <= 4 * c /\ dp <= dataLen
         /\ 4 * safe <= c /\ key = packed(ki, c) /\ key \in Byte
         /\ Flush => key = groupKey(ki) /\ c = 4 * ki + 4
<1>1. /\ TypeOK /\ Entered /\ TailCursor /\ OffsetsKnown /\ ControlsKnown /\ TailOffset
  BY DEF IndInv, LayoutInv
<1>2. /\ n \in Nat /\ len \in Nat /\ c \in Nat /\ ki \in Nat /\ dp \in Nat /\ safe \in Nat
      /\ cl <= len
      /\ start \in [0 .. n -> Nat] /\ dst \in [0 .. len + wide - 1 -> Byte]
      /\ shift \in {0, 2, 4, 6, 8} /\ shift = 2 * (c - 4 * ki) /\ c <= n
      /\ (shift = 0 => c < n) /\ key \in Byte
      /\ dp = start[c] /\ dp <= dataLen /\ 4 * safe <= c /\ key = packed(ki, c)
  BY <1>1 DEF TypeOK, Entered, TailCursor, TailOffset, ControlsKnown
<1>3. /\ cl \in Nat /\ groups \in Nat /\ groups <= cl /\ n <= 4 * cl /\ 4 * cl < n + 4
      /\ cl + dataLen = len /\ dataLen \in Int /\ 4 * groups <= n /\ n < 4 * groups + 4
  BY <1>2, Counts
<1>4. IsLayout(c) /\ Grows(c)
  BY <1>1 DEF OffsetsKnown, known
<1>5. dp <= 4 * c
  <2>1. c \in 0 .. c
    BY <1>2
  <2> QED BY <1>2, <1>4, <2>1 DEF Grows
<1>6. ki < cl
  BY <1>2, <1>3
<1>7. Flush => key = groupKey(ki) /\ c = 4 * ki + 4
  <2>1. Flush => c = 4 * ki + 4
    BY <1>2 DEF Flush
  <2>2. Flush => packed(ki, c) = groupKey(ki)
    BY <1>1, <1>2, <2>1, PackedSteps
  <2> QED BY <1>2, <2>1, <2>2
<1> QED BY <1>2, <1>3, <1>4, <1>5, <1>6, <1>7

\* What an integer of encodeTail leaves alone: everything but its own bytes and
\* the control byte it flushes, which may be there already.
LEMMA TailWrites ==
  ASSUME IndInv, LayoutInv, pc = "tail", c < n, dst' = TailBytesWritten
  PROVE  /\ DOMAIN dst' = DOMAIN dst /\ code(src[c]) \in 0 .. 3
         /\ \A i \in DOMAIN dst : i >= cl /\ i < cl + dp => dst'[i] = dst[i]
         /\ \A i \in DOMAIN dst : i >= cl + dp + code(src[c]) + 1 => dst'[i] = dst[i]
         /\ \A h \in 0 .. cl - 1 : dst'[h] = IF Flush /\ h = ki THEN groupKey(h) ELSE dst[h]
         /\ \A j \in 0 .. code(src[c]) :
              cl + dp + j < len => dst'[cl + dp + j] = src[c][j]
<1>1. /\ n \in Nat /\ len \in Nat /\ c \in Nat /\ ki \in Nat /\ dp \in Nat
      /\ cl \in Nat /\ cl <= len /\ ki < cl /\ (Flush => key = groupKey(ki))
      /\ dst \in [0 .. len + wide - 1 -> Byte]
  BY TailFacts
<1>2. code(src[c]) \in 0 .. 3
  <2>1. c \in 0 .. n - 1
    BY <1>1
  <2> QED BY <2>1, CodeAt DEF IndInv
<1> DEFINE cd == code(src[c])
<1> HIDE DEF cd
<1>3. /\ DOMAIN dst' = DOMAIN dst
      /\ \A i \in DOMAIN dst :
           dst'[i] = IF Flush /\ i = ki THEN key
                     ELSE IF i \in cl + dp .. cl + dp + cd /\ i < len
                          THEN src[c][i - (cl + dp)] ELSE dst[i]
  BY DEF TailBytesWritten, cd
<1>4. \A i \in DOMAIN dst : i >= cl /\ i < cl + dp => dst'[i] = dst[i]
  BY <1>1, <1>3
<1>5. \A i \in DOMAIN dst : i >= cl + dp + cd + 1 => dst'[i] = dst[i]
  <2>1. \A i \in DOMAIN dst :
          i >= cl + dp + cd + 1 => i # ki /\ ~(i \in cl + dp .. cl + dp + cd)
    BY <1>1, <1>2 DEF cd
  <2> QED BY <1>3, <2>1
<1>6. \A h \in 0 .. cl - 1 : dst'[h] = IF Flush /\ h = ki THEN groupKey(h) ELSE dst[h]
  <2>1. \A h \in 0 .. cl - 1 : h \in DOMAIN dst /\ ~(h \in cl + dp .. cl + dp + cd)
    BY <1>1 DEF wide
  <2> QED BY <1>1, <1>3, <2>1
<1>7. \A j \in 0 .. cd : cl + dp + j < len => dst'[cl + dp + j] = src[c][j]
  <2> TAKE j \in 0 .. cd
  <2> HAVE cl + dp + j < len
  <2>1. /\ cl + dp + j \in DOMAIN dst /\ cl + dp + j # ki /\ cl + dp + j < len
        /\ cl + dp + j \in cl + dp .. cl + dp + cd /\ (cl + dp + j) - (cl + dp) = j
    BY <1>1, <1>2 DEF wide, cd
  <2> QED BY <1>3, <2>1
<1> QED BY <1>2, <1>3, <1>4, <1>5, <1>6, <1>7 DEF cd

LEMMA TailIntLayout ==
  ASSUME IndInv, IndInv', LayoutInv, TailInt
  PROVE  LayoutInv'
<1> DEFINE cd == code(src[c])
<1>1. /\ pc = "tail" /\ pc' = "tail" /\ c < n /\ dp + cd < dataLen
      /\ dst' = TailBytesWritten
      /\ dp' = dp + cd + 1 /\ ki' = (IF Flush THEN ki + 1 ELSE ki)
      /\ key' = (IF Flush THEN cd ELSE key + shiftLeft(cd, shift)) /\ c' = c + 1
      /\ start' = [start EXCEPT ![c + 1] = dp']
      /\ UNCHANGED <<platform, public, src, n, len, old, g, off, safe, ret>>
  BY DEF TailInt, FitsInt, callVars, groupVars
<1>2. /\ n \in Nat /\ len \in Nat /\ c \in Nat /\ ki \in Nat /\ dp \in Nat /\ safe \in Nat
      /\ cl \in Nat /\ groups \in Nat /\ groups <= cl /\ dataLen \in Nat
      /\ start \in [0 .. n -> Nat]
      /\ shift \in {0, 2, 4, 6, 8} /\ shift = 2 * (c - 4 * ki) /\ ki < cl
      /\ IsLayout(c) /\ Grows(c) /\ dp = start[c] /\ dp <= 4 * c
      /\ 4 * safe <= c /\ key = packed(ki, c)
      /\ Flush => key = groupKey(ki) /\ c = 4 * ki + 4
  BY <1>1, TailFacts
<1>3. /\ TypeOK /\ Checked /\ ControlsKnown /\ SafeGroups
  BY DEF IndInv, LayoutInv
<1>4. cl' = cl /\ groups' = groups /\ dataLen' = dataLen /\ maxLen' = maxLen
  BY <1>1 DEF cl, groups, dataLen, maxLen
<1>5. cd \in 0 .. 3
  BY <1>1, TailWrites
<1> HIDE DEF cd
<1>6. /\ \A i \in 0 .. c : start'[i] = start[i] /\ start[i] \in Nat
      /\ start'[c + 1] = dp' /\ dp' \in Nat /\ dp <= dp' /\ dp' <= dp + 4
  <2>1. dp' \in Nat /\ dp <= dp' /\ dp' <= dp + 4
    <3>1. dp' = dp + cd + 1 /\ dp \in Nat
      BY <1>1, <1>2
    <3> QED BY <1>5, <3>1
  <2>2. c + 1 \in 0 .. n /\ \A i \in 0 .. c : i \in 0 .. n /\ i # c + 1
    BY <1>1, <1>2
  <2>3. \A i \in 0 .. n : start'[i] = IF i = c + 1 THEN dp' ELSE start[i]
    BY <1>1, <1>2
  <2>4. \A i \in 0 .. n : start[i] \in Nat
    BY <1>2
  <2> QED BY <2>1, <2>2, <2>3, <2>4
<1>7. OffsetsKnown'
  <2>1. known' = c + 1
    BY <1>1 DEF known
  <2>2. \A i \in 0 .. c : start'[i + 1] = start'[i] + code(src[i]) + 1
    <3> TAKE i \in 0 .. c
    <3>1. CASE i = c
      BY <1>1, <1>2, <1>6, <3>1 DEF cd
    <3>2. CASE i # c
      <4>1. i \in 0 .. c - 1 /\ i + 1 \in 0 .. c
        BY <1>2, <3>2
      <4>2. start[i + 1] = start[i] + code(src[i]) + 1
        BY <1>2, <4>1 DEF IsLayout
      <4> QED BY <1>6, <4>1, <4>2
    <3> QED BY <3>1, <3>2
  <2>3. IsLayout(c)'
    <3>1. start'[0] = 0
      BY <1>2, <1>6 DEF IsLayout
    <3>2. c' - 1 = c
      BY <1>1, <1>2
    <3> QED BY <1>1, <2>2, <3>1, <3>2 DEF IsLayout
  <2>4. Grows(c)'
    <3>1. \A i \in 0 .. c : start[i] <= dp /\ start[i] <= 4 * i
      <4>1. c \in 0 .. c /\ \A i \in 0 .. c : i <= c
        BY <1>2
      <4> QED BY <1>2, <4>1 DEF Grows
    <3>2. \A i \in 0 .. c + 1 : i \in 0 .. c \/ i = c + 1
      BY <1>2
    <3>3. dp' <= 4 * (c + 1) /\ dp <= dp'
      BY <1>2, <1>6
    <3>4. \A i \in 0 .. c + 1 : start'[i] <= 4 * i
      BY <1>6, <3>1, <3>2, <3>3
    <3>5. \A i \in 0 .. c + 1 : start'[i] <= dp'
      <4> TAKE i \in 0 .. c + 1
      <4>1. CASE i \in 0 .. c
        <5>1. start'[i] \in Nat /\ start'[i] <= dp /\ dp <= dp' /\ dp \in Nat /\ dp' \in Nat
          BY <1>2, <1>6, <3>1, <4>1
        <5> QED BY <5>1
      <4>2. CASE i = c + 1
        BY <1>6, <4>2
      <4> QED BY <3>2, <4>1, <4>2
    <3>6. ASSUME NEW i \in 0 .. c + 1, NEW j \in 0 .. c + 1, i <= j
          PROVE  start'[i] <= start'[j]
      <4>1. CASE j = c + 1
        BY <1>6, <3>5, <4>1
      <4>2. CASE j # c + 1
        <5>1. i \in 0 .. c /\ j \in 0 .. c
          BY <1>2, <3>6, <4>2
        <5> QED BY <1>2, <1>6, <3>6, <5>1 DEF Grows
      <4> QED BY <4>1, <4>2
    <3> QED BY <1>1, <3>4, <3>6 DEF Grows
  <2> QED BY <1>1, <2>1, <2>3, <2>4 DEF OffsetsKnown
<1>8. ControlsKnown'
  <2>1. \A h \in 0 .. cl - 1 : dst'[h] = IF Flush /\ h = ki THEN groupKey(h) ELSE dst[h]
    BY <1>1, TailWrites
  <2>2. \A h \in 0 .. controlsWritten - 1 : dst[h] = groupKey(h)
    BY <1>1, <1>3 DEF ControlsKnown
  <2>3. /\ controlsWritten = (IF platform \in hasEncodeKernel THEN groups ELSE ki)
        /\ controlsWritten' = (IF platform \in hasEncodeKernel THEN groups ELSE ki')
    BY <1>1, <1>4 DEF controlsWritten
  <2>4. \A h \in 0 .. controlsWritten' - 1 : dst'[h] = groupKey(h)
    <3> TAKE h \in 0 .. controlsWritten' - 1
    <3>1. /\ h \in 0 .. cl - 1
          /\ h \in 0 .. controlsWritten - 1 \/ (Flush /\ h = ki)
      <4>1. CASE platform \in hasEncodeKernel
        BY <1>2, <2>3, <4>1
      <4>2. CASE platform \notin hasEncodeKernel /\ Flush
        <5>1. h \in 0 .. ki
          BY <1>1, <1>2, <2>3, <4>2
        <5> QED BY <1>2, <2>3, <4>2, <5>1
      <4>3. CASE platform \notin hasEncodeKernel /\ ~Flush
        <5>1. h \in 0 .. ki - 1
          BY <1>1, <1>2, <2>3, <4>3
        <5> QED BY <1>2, <2>3, <4>3, <5>1
      <4> QED BY <4>1, <4>2, <4>3
    <3> QED BY <2>1, <2>2, <3>1
  <2>5. key' = packed(ki', c + 1)
    <3>1. CASE Flush
      <4>1. ki' = ki + 1 /\ ki + 1 \in Nat /\ 4 * (ki + 1) = c /\ key' = cd
        BY <1>1, <1>2, <3>1
      <4>2. packed(ki + 1, c) = 0
        BY <1>3, <4>1, PackedSteps
      <4>3. packed(ki + 1, c + 1) = packed(ki + 1, c) + shiftLeft(cd, 0)
        <5>1. 4 * (ki + 1) + 0 = c /\ 4 * (ki + 1) + 0 + 1 = c + 1 /\ 2 * 0 = 0
          BY <1>2, <4>1
        <5> QED BY <1>1, <1>3, <4>1, <5>1, PackedSteps DEF cd
      <4>4. shiftLeft(cd, 0) = cd
        BY <1>5, ShiftType DEF Lane
      <4> QED BY <1>5, <4>1, <4>2, <4>3, <4>4
    <3>2. CASE ~Flush
      <4>1. ki' = ki /\ key' = key + shiftLeft(cd, shift)
        BY <1>1, <3>2
      <4>2. PICK r \in 0 .. 3 : c = 4 * ki + r /\ shift = 2 * r
        <5>1. shift \in {0, 2, 4, 6}
          BY <1>2, <3>2 DEF Flush
        <5>2. c - 4 * ki \in 0 .. 3 /\ c = 4 * ki + (c - 4 * ki)
          BY <1>2, <5>1
        <5> QED BY <1>2, <5>2
      <4>3. packed(ki, 4 * ki + r + 1)
              = packed(ki, 4 * ki + r) + shiftLeft(code(src[4 * ki + r]), 2 * r)
        BY <1>1, <1>2, <1>3, <4>2, PackedSteps
      <4>4. packed(ki, c + 1) = packed(ki, c) + shiftLeft(cd, shift)
        BY <4>2, <4>3 DEF cd
      <4> QED BY <1>2, <4>1, <4>4
    <3> QED BY <3>1, <3>2
  <2>6. key' = packed(ki, c)'
    BY <1>1, <2>5, SameKeys
  <2>7. \A h \in 0 .. controlsWritten' - 1 : dst'[h] = groupKey(h)'
    BY <1>1, <2>4, SameKeys
  <2> QED BY <1>1, <2>6, <2>7 DEF ControlsKnown
<1>9. SafeGroups'
  <2>1. start'[4 * safe] = start[4 * safe]
    <3>1. 4 * safe \in 0 .. c
      BY <1>2
    <3> QED BY <1>6, <3>1
  <2> QED BY <1>1, <1>3, <1>4, <2>1 DEF SafeGroups
<1>10. TailOffset'
  <2>1. dp' <= dataLen /\ 4 * safe <= c + 1
    BY SMTT(40), <1>1, <1>2, <1>5
  <2> QED BY <1>1, <1>4, <1>6, <2>1 DEF TailOffset
<1>11. (Checked /\ Consumed /\ PanicsOnlyWhenTooShort)'
  BY <1>1, <1>3, <1>4 DEF Checked, Consumed, PanicsOnlyWhenTooShort
<1> QED BY <1>7, <1>8, <1>9, <1>10, <1>11 DEF LayoutInv

LEMMA TailEndLayout ==
  ASSUME IndInv, LayoutInv, TailPanic \/ TailDone
  PROVE  LayoutInv'
<1>1. /\ pc = "tail" /\ n \in Nat /\ len \in Nat /\ c \in Nat /\ ki \in Nat /\ dp \in Nat
      /\ cl \in Nat /\ groups \in Nat /\ groups <= cl /\ cl <= groups + 1
      /\ n <= 4 * cl /\ 4 * cl < n + 4 /\ 4 * groups <= n
      /\ dataLen \in Nat /\ cl + dataLen = len
      /\ dst \in [0 .. len + wide - 1 -> Byte]
      /\ shift \in {0, 2, 4, 6, 8} /\ shift = 2 * (c - 4 * ki) /\ c <= n
      /\ (shift = 0 => c < n) /\ ki < cl /\ cl <= len
      /\ IsLayout(c) /\ Grows(c) /\ dp = start[c] /\ dp <= 4 * c /\ key = packed(ki, c)
      /\ dp <= dataLen
  BY TailFacts DEF TailPanic, TailDone
<1>2. /\ TypeOK /\ Checked /\ ControlsKnown /\ SafeGroups /\ Entered
  BY DEF IndInv, LayoutInv
<1>3. CASE TailPanic
  <2>1. /\ Panic /\ UNCHANGED tailVars /\ c < n /\ ~FitsInt
        /\ UNCHANGED <<platform, public, src, n, len, old, start, c>> /\ pc' = "panicked"
    BY <1>3 DEF TailPanic, Panic, callVars, tailVars
  <2>2. code(src[c]) \in 0 .. 3
    BY <1>1, <1>3, TailWrites DEF TailPanic
  <2>3. cl + start[c] + code(src[c]) >= len
    BY SMTT(40), <1>1, <2>1, <2>2 DEF FitsInt
  <2>4. public => ~(len < maxLen) /\ len < EncodedMaxLen(n)
    <3>1. 0 < n /\ EncodedMaxLen(n) = cl + 4 * n
      BY <1>1, <2>1, MaxLenValue
    <3>2. len < cl + 4 * n
      BY SMTT(40), <1>1, <2>1, <2>2, <2>3
    <3> QED BY <1>1, <1>2, <3>1, <3>2 DEF Checked
  <2>5. maxLen' = maxLen /\ cl' = cl /\ IsLayout(c)'
    BY <1>1, <2>1 DEF maxLen, cl, IsLayout
  <2>6. PanicsOnlyWhenTooShort'
    BY <2>1, <2>3, <2>4, <2>5 DEF PanicsOnlyWhenTooShort
  <2> QED BY <1>1, <2>1, <2>6, PanicLayout
<1>4. CASE TailDone
  <2>1. c = n /\ dst' = [dst EXCEPT ![ki] = key] /\ Return(cl + dp)
    BY <1>4 DEF TailDone
  <2>2. ki = cl - 1 /\ key = groupKey(ki)
    BY <1>1, <2>1 DEF groupKey
  <2>3. \A h \in 0 .. controlsWritten - 1 : dst[h] = groupKey(h)
    BY <1>1, <1>2 DEF ControlsKnown
  <2>4. \A h \in 0 .. cl - 1 : dst'[h] = groupKey(h)
    <3> TAKE h \in 0 .. cl - 1
    <3>1. h = ki \/ h \in 0 .. controlsWritten - 1
      <4>1. controlsWritten = IF platform \in hasEncodeKernel THEN groups ELSE ki
        BY <1>1 DEF controlsWritten
      <4>2. controlsWritten \in Nat /\ controlsWritten >= ki
        BY <1>1, <2>2, <4>1
      <4> QED BY <1>1, <2>2, <4>2
    <3>2. h \in DOMAIN dst
      BY <1>1 DEF wide
    <3> QED BY <2>1, <2>2, <2>3, <3>1, <3>2
  <2>5. public /\ platform \in hasEncodeKernel => safe = groups
    BY <1>1, <1>2 DEF SafeGroups
  <2>6. cl + dp = cl + start[n] /\ cl + dp <= len
    BY <1>1, <2>1
  <2> QED BY <1>1, <2>1, <2>4, <2>5, <2>6, ReturnLayout
<1> QED BY <1>3, <1>4

-----------------------------------------------------------------------------
(* Every step.                                                             *)

LEMMA StutterLayout ==
  ASSUME LayoutInv, UNCHANGED vars
  PROVE  LayoutInv'
<1> USE DEF vars, callVars, groupVars, tailVars
<1>1. /\ cl' = cl /\ groups' = groups /\ dataLen' = dataLen /\ maxLen' = maxLen
      /\ known' = known
  BY DEF cl, groups, dataLen, maxLen, known
<1>2. controlsWritten' = controlsWritten
  BY <1>1 DEF controlsWritten
<1>3. OffsetsKnown'
  BY <1>1 DEF LayoutInv, OffsetsKnown, IsLayout, Grows
<1>4. ControlsKnown'
  BY <1>1, <1>2, SameKeys DEF LayoutInv, ControlsKnown
<1>5. (Checked /\ SafeGroups /\ TailOffset /\ Consumed)'
  BY <1>1 DEF LayoutInv, Checked, SafeGroups, TailOffset, Consumed
<1>6. PanicsOnlyWhenTooShort'
  BY <1>1 DEF LayoutInv, PanicsOnlyWhenTooShort, IsLayout
<1> QED BY <1>3, <1>4, <1>5, <1>6 DEF LayoutInv

LEMMA NextLayout ==
  ASSUME IndInv, IndInv', LayoutInv, [Next]_vars
  PROVE  LayoutInv'
<1>1. CASE Call
  BY <1>1, CallLayout DEF Call
<1>2. CASE EncodeEmpty \/ EncodeTooShort \/ SlicePanic \/ BeginScalar \/ BeginScan
  BY <1>2, EntryLayout
<1>3. CASE ScanGroup
  BY <1>3, ScanGroupLayout
<1>4. CASE ScanToKernel \/ ScanToTail
  BY <1>4, ScanEndLayout
<1>5. CASE KernelGroup
  BY <1>5, KernelGroupLayout
<1>6. CASE KernelToTail
  BY <1>6, KernelToTailLayout
<1>7. CASE TailInt
  BY <1>7, TailIntLayout
<1>8. CASE TailPanic \/ TailDone
  BY <1>8, TailEndLayout
<1>9. CASE UNCHANGED vars
  BY <1>9, StutterLayout
<1> QED BY <1>1, <1>2, <1>3, <1>4, <1>5, <1>6, <1>7, <1>8, <1>9 DEF Next, Step, Stop

\* The offsets, the control bytes and the groups of the kernel are those of the
\* source at every step of a call, whichever loop is at work.
THEOREM LayoutInvariance == Spec => []LayoutInv
<1>1. Init => LayoutInv
  BY InitLayout
<1>2. IndInv /\ IndInv' /\ LayoutInv /\ [Next]_vars => LayoutInv'
  BY NextLayout
<1> QED BY <1>1, <1>2, Invariance, PTL DEF Spec

-----------------------------------------------------------------------------
(* What follows.                                                           *)

\* encodeSafeGroups gives the kernel all leading groups whose wide stores fit in
\* the data region, and no other.
THEOREM SafeGroupsIsLargest == Spec => []SafeIsLargest
<1>1. IndInv /\ LayoutInv => SafeIsLargest
  BY DEF IndInv, LayoutInv, KernelCursor, StoresFit, SafeGroups, SafeIsLargest
<1> QED BY <1>1, Invariance, LayoutInvariance, PTL

\* Through Encode, the kernel takes every complete group.
THEOREM EncodeTailIsShort == Spec => []RemainderIsShort
<1>1. ASSUME IndInv, LayoutInv PROVE RemainderIsShort
  <2> SUFFICES ASSUME pc = "tail", public, platform \in hasEncodeKernel
               PROVE  c >= n - (n % 4)
    BY DEF RemainderIsShort
  <2>1. safe = groups /\ 4 * safe <= c
    BY <1>1 DEF LayoutInv, SafeGroups, TailOffset
  <2>2. n \in Nat /\ c \in Nat
    BY <1>1 DEF IndInv, TypeOK
  <2>3. 4 * groups = n - (n % 4)
    BY <2>2 DEF groups, groupSize
  <2> QED BY <2>1, <2>2, <2>3
<1> QED BY <1>1, Invariance, LayoutInvariance, PTL

\* Encode panics for a destination shorter than EncodedMaxLen before it writes
\* anything; otherwise a panic means that the next integer does not fit.
THEOREM PanicsAreJustified == Spec => []PanicsOnlyWhenTooShort
<1>1. LayoutInv => PanicsOnlyWhenTooShort
  BY DEF LayoutInv
<1> QED BY <1>1, LayoutInvariance, PTL

\* A byte that a step may not change any more: of the data below the frontier, or
\* of the control bytes written so far.
LEMMA NextKeepsFinal ==
  ASSUME IndInv, LayoutInv, [Next]_vars
  PROVE  /\ \A i \in 0 .. frontier - 1 : dst'[cl + i] = dst[cl + i]
         /\ \A h \in 0 .. controlsWritten - 1 : dst'[h] = dst[h]
<1>1. /\ TypeOK /\ n \in Nat /\ len \in Nat /\ dst \in [0 .. len + wide - 1 -> Byte]
      /\ cl \in Nat /\ groups \in Nat /\ groups <= cl
  BY Counts DEF IndInv, TypeOK
<1>2. CASE dst' = dst
  BY <1>2
<1>3. CASE Call
  BY <1>3 DEF Call, frontier, controlsWritten
<1>4. CASE ScanGroup
  <2>1. /\ pc = "scan" /\ g < groups /\ g \in Nat /\ cl <= len
        /\ \A i \in DOMAIN dst : i # g => dst'[i] = dst[i]
    BY <1>1, <1>4 DEF ScanGroup, TypeOK, IndInv, Entered
  <2>2. \A h \in 0 .. g - 1 : h \in DOMAIN dst /\ h # g
    BY <1>1, <2>1 DEF wide
  <2> QED BY <2>1, <2>2 DEF frontier, controlsWritten
<1>5. CASE KernelGroup
  <2>1. /\ pc = "kernel" /\ off \in Nat /\ off = start[4 * g] /\ cl + off + wide <= len
        /\ \A i \in DOMAIN dst : i < cl + off => dst'[i] = dst[i]
        /\ platform \in hasEncodeKernel
    BY <1>5, KernelWrites DEF KernelGroup, IndInv, Entered
  <2>2. frontier = off /\ controlsWritten = groups
    BY <2>1 DEF frontier, controlsWritten
  <2>3. \A i \in 0 .. off - 1 : cl + i \in DOMAIN dst /\ cl + i < cl + off
    BY SMTT(40), <1>1, <2>1 DEF wide
  <2>4. \A h \in 0 .. groups - 1 : h \in DOMAIN dst /\ h < cl + off
    BY <1>1, <2>1 DEF wide
  <2> QED BY <2>1, <2>2, <2>3, <2>4
<1>6. CASE TailInt \/ TailPanic \/ TailDone
  <2>1. /\ pc = "tail" /\ ki \in Nat /\ ki < cl /\ dp \in Nat /\ dp = start[c]
        /\ dp <= dataLen /\ cl + dataLen = len /\ dataLen \in Nat
        /\ ControlsKnown
    BY <1>6, TailFacts DEF TailInt, TailPanic, TailDone, LayoutInv
  <2>2. /\ frontier = dp
        /\ controlsWritten = IF platform \in hasEncodeKernel THEN groups ELSE ki
    BY <2>1 DEF frontier, controlsWritten
  <2>3. \A i \in 0 .. dp - 1 : /\ cl + i \in DOMAIN dst /\ cl + i >= cl /\ cl + i < cl + dp
                               /\ cl + i # ki
    BY <1>1, <2>1 DEF wide
  <2>4. /\ \A h \in 0 .. controlsWritten - 1 : h \in 0 .. cl - 1 /\ h \in DOMAIN dst
        /\ \A h \in 0 .. controlsWritten - 1 : dst[h] = groupKey(h)
    <3>1. \A h \in 0 .. controlsWritten - 1 : h \in 0 .. cl - 1
      BY <1>1, <2>1, <2>2
    <3>2. \A h \in 0 .. cl - 1 : h \in DOMAIN dst
      BY <1>1, <2>1 DEF wide
    <3> QED BY <2>1, <3>1, <3>2 DEF ControlsKnown
  <2>5. CASE TailInt \/ TailPanic
    <3>1. c < n /\ dst' = TailBytesWritten
      BY <2>5 DEF TailInt, TailPanic
    <3> QED BY <2>1, <2>2, <2>3, <2>4, <3>1, TailWrites
  <2>6. CASE TailDone
    <3>1. c = n /\ dst' = [dst EXCEPT ![ki] = key] /\ key = groupKey(ki)
      BY <2>1, <2>6, TailFacts DEF TailDone, groupKey
    <3>2. \A i \in DOMAIN dst : dst'[i] = IF i = ki THEN groupKey(ki) ELSE dst[i]
      BY <3>1
    <3> QED BY <2>2, <2>3, <2>4, <3>2
  <2> QED BY <1>6, <2>5, <2>6
<1> QED BY <1>2, <1>3, <1>4, <1>5, <1>6
        DEF Next, Step, Stop, vars, EncodeEmpty, EncodeTooShort, SlicePanic, BeginScalar,
            BeginScan, ScanToKernel, ScanToTail, KernelToTail

\* What has been written of the streams is never written with another value: the
\* zeros behind the data of a wide store fall on bytes still to come.
THEOREM FinalBytesAreFinal == Spec => FinalBytesStay
<1>1. IndInv /\ LayoutInv /\ [Next]_vars =>
        [ /\ \A i \in 0 .. frontier - 1 : dst'[cl + i] = dst[cl + i]
          /\ \A h \in 0 .. controlsWritten - 1 : dst'[h] = dst[h] ]_vars
  BY NextKeepsFinal
<1> QED BY <1>1, Invariance, LayoutInvariance, PTL DEF Spec, FinalBytesStay

\* What is final is within the two streams, and within EncodedMaxLen.
LEMMA StreamsInside ==
  ASSUME IndInv, LayoutInv
  PROVE  /\ pc \in {"scan", "kernel", "tail"} => cl + frontier <= len
         /\ pc \notin {"scan", "kernel", "tail"} => frontier = 0 /\ controlsWritten = 0
         /\ frontier \in Nat /\ frontier <= 4 * n
         /\ controlsWritten \in Nat /\ controlsWritten <= cl
<1>1. /\ TypeOK /\ Entered /\ ScanCursor /\ KernelCursor /\ OffsetsKnown /\ SafeGroups
      /\ start[0] = 0
  BY DEF IndInv, LayoutInv
<1>2. /\ n \in Nat /\ len \in Nat /\ g \in Nat /\ safe \in Nat /\ start \in [0 .. n -> Nat]
      /\ dst \in [0 .. len + wide - 1 -> Byte]
      /\ (pc \in {"scan", "kernel", "tail"} => cl <= len)
  BY <1>1 DEF TypeOK, Entered
<1>3. /\ cl \in Nat /\ groups \in Nat /\ groups <= cl /\ 4 * groups <= n
      /\ cl + dataLen = len /\ dataLen \in Int
  BY <1>2, Counts
<1>4. CASE pc = "scan"
  <2>1. frontier = 0 /\ controlsWritten = g /\ g <= groups
    BY <1>1, <1>4 DEF frontier, controlsWritten, ScanCursor
  <2> QED BY <1>2, <1>3, <1>4, <2>1
<1>5. CASE pc = "kernel"
  <2>1. /\ g <= safe /\ safe <= groups /\ safe > 0 /\ GroupChain(safe) /\ StoresFit(safe)
        /\ Grows(4 * groups) /\ platform \in hasEncodeKernel
    BY <1>1, <1>5 DEF KernelCursor, SafeGroups, OffsetsKnown, known, Entered
  <2>2. frontier = start[4 * g] /\ controlsWritten = groups
    BY <1>5, <2>1 DEF frontier, controlsWritten
  <2>3. 4 * g \in 0 .. 4 * groups /\ 4 * g \in 0 .. n
    BY <1>2, <1>3, <2>1
  <2>4. start[4 * g] \in Nat /\ start[4 * g] <= 4 * (4 * g)
    BY <1>2, <2>1, <2>3 DEF Grows
  <2>5. start[4 * g] <= 4 * n
    BY <1>2, <1>3, <2>3, <2>4
  <2>6. start[4 * g] <= start[4 * safe]
    <3>1. 4 * safe \in 0 .. 4 * groups /\ 4 * g <= 4 * safe
      BY <1>2, <1>3, <2>1
    <3> QED BY <2>1, <2>3, <3>1 DEF Grows
  <2>7. start[4 * safe] \in Nat /\ start[4 * safe] <= dataLen
    <3> DEFINE h == safe - 1
    <3>1. h \in 0 .. safe - 1 /\ 4 * h + 4 = 4 * safe /\ h \in 0 .. len + 15
      BY <1>2, <1>3, <1>5, <2>1
    <3>2. start[4 * h + 4] = start[4 * h] + lengthTable[dst[h]] /\ start[4 * h] + 16 <= dataLen
      BY <2>1, <3>1 DEF GroupChain, StoresFit, wide
    <3>3. lengthTable[dst[h]] \in 4 .. 16
      <4>1. dst[h] \in Byte
        BY <1>2, <3>1 DEF wide
      <4> QED BY <4>1, LengthType DEF wide
    <3>4. start[4 * h] \in Nat /\ start[4 * safe] \in Nat
      <4>1. 4 * h \in 0 .. n /\ 4 * safe \in 0 .. n
        BY <1>2, <1>3, <2>1, <3>1
      <4> QED BY <1>2, <4>1
    <3> HIDE DEF h, lengthTable
    <3> QED BY <1>3, <3>1, <3>2, <3>3, <3>4
  <2>8. cl + start[4 * g] <= len
    BY <1>2, <1>3, <2>4, <2>6, <2>7
  <2> QED BY <1>3, <1>5, <2>2, <2>4, <2>5, <2>8
<1>6. CASE pc = "tail"
  <2>1. /\ c \in Nat /\ c <= n /\ ki \in Nat /\ ki < cl /\ start[c] <= 4 * c
        /\ start[c] <= dataLen /\ start[c] \in Nat
    BY <1>6, TailFacts
  <2>2. /\ frontier = start[c]
        /\ controlsWritten = IF platform \in hasEncodeKernel THEN groups ELSE ki
    BY <1>6 DEF frontier, controlsWritten
  <2> QED BY <1>2, <1>3, <1>6, <2>1, <2>2
<1>7. CASE pc \notin {"scan", "kernel", "tail"}
  <2>1. frontier = 0 /\ controlsWritten = 0
    BY <1>7 DEF frontier, controlsWritten
  <2> QED BY <1>2, <1>3, <1>7, <2>1
<1> QED BY <1>4, <1>5, <1>6, <1>7

-----------------------------------------------------------------------------
(* Content: the bytes of the data stream are those of the source, and only *)
(* the last wide store leaves zeros beyond them.                           *)

(* What a step leaves in place.                                            *)

\* A byte of the first k integers is before the offset behind them.
LEMMA BytesBefore ==
  ASSUME TypeOK, NEW k \in 0 .. n, IsLayout(k), Grows(k),
         NEW i \in 0 .. k - 1, NEW j \in 0 .. code(src[i])
  PROVE  start[i] + j \in 0 .. start[k] - 1
<1>1. n \in Nat /\ start \in [0 .. n -> Nat]
  BY DEF TypeOK
<1>2. /\ i \in 0 .. n - 1 /\ i \in 0 .. n /\ i + 1 \in 0 .. k /\ k \in 0 .. k
      /\ k \in 0 .. n /\ i + 1 <= k /\ i + 1 \in 0 .. n
  BY <1>1
<1>3. code(src[i]) \in 0 .. 3
  BY <1>2, CodeAt
<1>4. start[i + 1] = start[i] + code(src[i]) + 1
  BY DEF IsLayout
<1>5. start[i + 1] <= start[k]
  BY <1>2 DEF Grows
<1>6. start[i] \in Nat /\ start[k] \in Nat
  BY <1>1, <1>2
<1>7. j \in Nat /\ j <= code(src[i])
  BY <1>3
<1> QED BY <1>3, <1>4, <1>5, <1>6, <1>7

\* A step that keeps the bytes before the offset behind the first k integers keeps
\* these integers.
LEMMA IntegersStay ==
  ASSUME TypeOK, NEW k \in 0 .. n, IsLayout(k), Grows(k), HoldsIntegers(k),
         \A p \in 0 .. start[k] - 1 : dst'[cl + p] = dst[cl + p]
  PROVE  \A i \in 0 .. k - 1 : \A j \in 0 .. code(src[i]) :
           dst'[cl + start[i] + j] = src[i][j]
<1> TAKE i \in 0 .. k - 1
<1> TAKE j \in 0 .. code(src[i])
<1>1. n \in Nat /\ start \in [0 .. n -> Nat] /\ cl \in Nat
  BY Counts DEF TypeOK
<1>2. start[i] + j \in 0 .. start[k] - 1
  BY BytesBefore
<1>3. dst[cl + start[i] + j] = src[i][j]
  BY DEF HoldsIntegers
<1>4. cl + (start[i] + j) = cl + start[i] + j
  <2>1. i \in 0 .. n
    BY <1>1
  <2>2. start[i] \in Nat /\ j \in Int
    BY <1>1, <2>1
  <2> QED BY <1>1, <2>2
<1> QED BY <1>2, <1>3, <1>4

-----------------------------------------------------------------------------
(* Steps that write no data.                                               *)

\* Outside the loops nothing has been written, and there is nothing to know.
LEMMA NoContent ==
  ASSUME pc' \in {"idle", "entry", "panicked"}
  PROVE  ContentInv'
<1>1. written' = 0
  BY DEF written
<1> QED BY <1>1 DEF ContentInv, HoldsIntegers

\* encodeTail takes over where the data written so far ends.
LEMMA HandOverContent ==
  ASSUME IndInv, NEW consumed \in Nat, HandOver(safe, consumed), UNCHANGED dst,
         safe <= groups,
         HoldsIntegers(4 * safe), ClearedAfter(cl + consumed, safe)
  PROVE  ContentInv'
<1>1. n \in Nat /\ safe \in Nat /\ groups \in Nat /\ 4 * groups <= n
  BY Counts DEF IndInv, TypeOK
<1>2. CASE 4 * safe >= n
  <2>1. /\ pc' = "returned" /\ ret' = cl + consumed
        /\ UNCHANGED <<src, n, old, start, safe, platform>>
    BY <1>1, <1>2 DEF HandOver, groupSize, Return, callVars, groupVars
  <2>2. n = 4 * safe /\ written' = n /\ cl' = cl
    BY <1>1, <1>2, <2>1 DEF written, cl
  <2>3. HoldsIntegers(written)'
    BY <2>1, <2>2 DEF HoldsIntegers
  <2>4. ClearedAfter(ret, safe)'
    BY <2>1, <2>2 DEF ClearedAfter
  <2> QED BY <2>1, <2>3, <2>4 DEF ContentInv
<1>3. CASE ~(4 * safe >= n)
  <2>1. /\ pc' = "tail" /\ c' = 4 * safe /\ dp' = consumed
        /\ UNCHANGED <<src, n, old, start, safe, platform>>
    BY <1>1, <1>3 DEF HandOver, groupSize, callVars, groupVars
  <2>2. written' = 4 * safe /\ cl' = cl
    BY <2>1 DEF written, cl
  <2>3. HoldsIntegers(written)'
    BY <2>1, <2>2 DEF HoldsIntegers
  <2>4. ClearedAfter(cl + dp, safe)'
    BY <2>1, <2>2 DEF ClearedAfter
  <2> QED BY <2>1, <2>3, <2>4 DEF ContentInv
<1> QED BY <1>2, <1>3

LEMMA EntryContent ==
  ASSUME IndInv, LayoutInv,
         EncodeEmpty \/ EncodeTooShort \/ SlicePanic \/ BeginScalar \/ BeginScan
  PROVE  ContentInv'
<1>1. /\ pc = "entry" /\ dst = old /\ safe = 0 /\ n \in Nat /\ cl \in Nat /\ groups \in Nat
      /\ len \in Nat
  BY Counts DEF IndInv, TypeOK, LayoutInv, Checked, EncodeEmpty, EncodeTooShort, SlicePanic,
                BeginScalar, BeginScan, InEncode
<1>2. CASE EncodeEmpty
  <2>1. /\ pc' = "returned" /\ n' = 0 /\ UNCHANGED <<dst, old>>
    BY <1>2 DEF EncodeEmpty, Return, callVars
  <2>2. written' = 0
    BY <2>1 DEF written
  <2> QED BY <1>1, <2>1, <2>2 DEF ContentInv, HoldsIntegers, ClearedAfter
<1>3. CASE EncodeTooShort \/ SlicePanic
  BY <1>3, NoContent DEF EncodeTooShort, SlicePanic, Panic
<1>4. CASE BeginScalar
  <2>1. HandOver(safe, 0) /\ UNCHANGED dst /\ safe <= groups /\ 4 * safe = 0
    BY <1>1, <1>4 DEF BeginScalar
  <2>2. HoldsIntegers(0) /\ ClearedAfter(cl + 0, safe) /\ 0 \in Nat
    BY <1>1 DEF HoldsIntegers, ClearedAfter
  <2> QED BY <2>1, <2>2, HandOverContent
<1>5. CASE BeginScan
  <2>1. pc' = "scan" /\ UNCHANGED <<dst, old>>
    BY <1>5 DEF BeginScan, callVars
  <2>2. written' = 0
    BY <2>1 DEF written
  <2> QED BY <1>1, <2>1, <2>2 DEF ContentInv, HoldsIntegers
<1> QED BY <1>2, <1>3, <1>4, <1>5

LEMMA ScanContent ==
  ASSUME IndInv, ContentInv, ScanGroup \/ ScanToKernel \/ ScanToTail
  PROVE  ContentInv'
<1>1. /\ pc = "scan" /\ n \in Nat /\ len \in Nat /\ g \in Nat /\ safe \in Nat
      /\ cl \in Nat /\ groups \in Nat /\ groups <= cl
      /\ dst \in [0 .. len + wide - 1 -> Byte]
      /\ \A i \in DOMAIN dst : i >= cl => dst[i] = old[i]
  BY Counts DEF IndInv, TypeOK, ContentInv, ScanGroup, ScanToKernel, ScanToTail
<1>2. CASE ScanGroup
  <2>1. /\ pc' = "scan" /\ UNCHANGED <<n, old>> /\ g < groups /\ DOMAIN dst' = DOMAIN dst
        /\ \A i \in DOMAIN dst : i # g => dst'[i] = dst[i]
    BY <1>2 DEF ScanGroup, callVars
  <2>2. written' = 0 /\ cl' = cl
    BY <2>1 DEF written, cl
  <2>3. \A i \in DOMAIN dst : i >= cl => i # g
    BY <1>1, <2>1
  <2> QED BY <1>1, <2>1, <2>2, <2>3 DEF ContentInv, HoldsIntegers
<1>3. CASE ScanToKernel
  <2>1. /\ pc' = "kernel" /\ g' = 0 /\ off' = 0 /\ UNCHANGED <<n, dst, old>>
    BY <1>3 DEF ScanToKernel, callVars
  <2>2. written' = 0 /\ cl' = cl /\ (cl + off)' = cl
    BY <1>1, <2>1 DEF written, cl
  <2>3. \A i \in DOMAIN dst : i >= cl => dst[i] = old[i]
    BY <1>1
  <2> QED BY <2>1, <2>2, <2>3 DEF ContentInv, HoldsIntegers, ClearedAfter
<1>4. CASE ScanToTail
  <2>1. safe = 0 /\ HandOver(safe, 0) /\ UNCHANGED dst /\ safe <= groups /\ 4 * safe = 0
    BY <1>1, <1>4 DEF ScanToTail
  <2>2. HoldsIntegers(0) /\ ClearedAfter(cl + 0, safe) /\ 0 \in Nat
    BY <1>1 DEF HoldsIntegers, ClearedAfter
  <2> QED BY <2>1, <2>2, HandOverContent
<1> QED BY <1>2, <1>3, <1>4

-----------------------------------------------------------------------------
(* The kernel.                                                             *)

\* The wide store of group g holds its four integers where the layout has them,
\* and zeros behind.
LEMMA KernelData ==
  ASSUME IndInv, LayoutInv, KernelGroup
  PROVE  /\ off' = start[4 * g + 4]
         /\ \A lane \in Lane : \A j \in 0 .. code(src[4 * g + lane]) :
              dst'[cl + start[4 * g + lane] + j] = src[4 * g + lane][j]
         /\ GatherClears(platform) =>
              \A i \in DOMAIN dst : i >= cl + off' /\ i < cl + off + wide => dst'[i] = 0
<1>1. /\ TypeOK /\ Entered /\ KernelCursor /\ OffsetsKnown /\ ControlsKnown
      /\ pc = "kernel" /\ platform \in Targets
  BY DEF KernelGroup, IndInv, LayoutInv, TypeOK
<1>2. PICK tail \in TailBytes :
        LET vals == [lane \in Lane |-> src[4 * g + lane]]
        IN dst' = wideStore(encodeGroup(platform, dst[g], vals, tail), off)
  BY DEF KernelGroup
<1> DEFINE k == groupKey(g)
           vals == [lane \in Lane |-> src[4 * g + lane]]
           w == encodeGroup(platform, k, vals, tail)
<1>3. /\ n \in Nat /\ len \in Nat /\ g \in Nat /\ off \in Nat /\ off = start[4 * g]
      /\ platform \in hasEncodeKernel /\ dst \in [0 .. len + wide - 1 -> Byte]
      /\ cl \in Nat /\ cl + off + wide <= len /\ g < groups /\ groups \in Nat
      /\ 4 * groups <= n /\ g < safe /\ safe \in Nat /\ GroupChain(safe)
  <2>1. n \in Nat /\ len \in Nat /\ g \in Nat /\ safe \in Nat
    BY <1>1 DEF TypeOK
  <2>2. g < safe /\ safe <= groups /\ groups \in Nat
    BY KernelWrites
  <2> QED BY <1>1, <2>1, <2>2, KernelWrites, Counts DEF TypeOK, Entered, KernelCursor
<1>4. dst[g] = k
  <2>1. controlsWritten = groups /\ g \in 0 .. groups - 1
    BY <1>1, <1>3 DEF controlsWritten
  <2> QED BY <1>1, <2>1 DEF ControlsKnown
<1>5. /\ k \in Byte /\ 4 * g + 4 <= n
      /\ \A lane \in Lane : laneCode(k, lane) = code(src[4 * g + lane])
  <2>1. 4 * g + 4 <= n
    BY <1>3
  <2> QED BY <1>1, <1>3, <2>1, CompleteGroup
<1>6. vals \in [Lane -> Value]
  <2>1. \A lane \in Lane : src[4 * g + lane] \in Value
    <3> TAKE lane \in Lane
    <3>1. 4 * g + lane \in 0 .. n - 1
      BY <1>3, <1>5 DEF Lane
    <3> QED BY <1>1, <3>1, CodeAt
  <2> QED BY <2>1
<1>7. tail \in Byte
  BY TailBytesAssumption
<1>8. /\ \A lane \in Lane : \A j \in 0 .. laneCode(k, lane) :
           w[cursor(k, lane) + j] = vals[lane][j]
      /\ GatherClears(platform) => \A p \in Index : p >= lengthTable[k] => w[p] = 0
  BY SMTT(40), <1>1, <1>3, <1>5, <1>6, <1>7, EncodeGroupBytes
<1>9. \A i \in DOMAIN dst :
        i \in cl + off .. cl + off + wide - 1 => dst'[i] = w[i - (cl + off)]
  BY <1>2, <1>4 DEF wideStore
<1>10. off' = start[4 * g + 4] /\ off' = off + lengthTable[k]
  <2>1. g \in 0 .. safe - 1
    BY <1>3
  <2> QED BY <1>3, <1>4, <2>1 DEF GroupChain, KernelGroup
<1> HIDE DEF k, w
<1>11. \A lane \in Lane : start[4 * g + lane] = off + cursor(k, lane)
  <2>1. \A lane \in Lane : laneCode(k, lane) \in 0 .. 3
    BY <1>5, LaneCodeType DEF Lane
  <2>2. \A i \in 0 .. 4 * groups - 1 : start[i + 1] = start[i] + code(src[i]) + 1
    BY <1>1 DEF OffsetsKnown, known, IsLayout
  <2>3. \A lane \in 0 .. 2 :
          start[4 * g + lane + 1] = start[4 * g + lane] + laneCode(k, lane) + 1
    <3> TAKE lane \in 0 .. 2
    <3>1. 4 * g + lane \in 0 .. 4 * groups - 1 /\ lane \in Lane
      BY <1>3 DEF Lane
    <3> QED BY <1>5, <2>2, <3>1
  <2>4. /\ cursor(k, 0) = 0
        /\ cursor(k, 1) = cursor(k, 0) + laneCode(k, 0) + 1
        /\ cursor(k, 2) = cursor(k, 1) + laneCode(k, 1) + 1
        /\ cursor(k, 3) = cursor(k, 2) + laneCode(k, 2) + 1
    BY <1>5, CursorSteps
  <2>5. /\ laneCode(k, 0) \in 0 .. 3 /\ laneCode(k, 1) \in 0 .. 3
        /\ laneCode(k, 2) \in 0 .. 3
    BY <2>1 DEF Lane
  <2>6. start[4 * g + 0] = off
    BY <1>3
  <2>7. /\ start[4 * g + 1] = start[4 * g + 0] + laneCode(k, 0) + 1
        /\ start[4 * g + 2] = start[4 * g + 1] + laneCode(k, 1) + 1
        /\ start[4 * g + 3] = start[4 * g + 2] + laneCode(k, 2) + 1
    <3>1. 4 * g + 0 + 1 = 4 * g + 1 /\ 4 * g + 1 + 1 = 4 * g + 2 /\ 4 * g + 2 + 1 = 4 * g + 3
      BY <1>3
    <3> QED BY <2>3, <3>1
  <2> TAKE lane \in Lane
  <2>8. lane \in {0, 1, 2, 3}
    BY DEF Lane
  <2>9. off \in Nat
    BY <1>3
  <2> QED BY <2>4, <2>5, <2>6, <2>7, <2>8, <2>9
<1>12. ASSUME NEW lane \in Lane, NEW j \in 0 .. code(src[4 * g + lane])
       PROVE  dst'[cl + start[4 * g + lane] + j] = src[4 * g + lane][j]
  <2> DEFINE p == cursor(k, lane) + j
  <2>1. j \in 0 .. laneCode(k, lane)
    BY <1>5
  <2>2. p \in Index
    BY <1>5, <2>1, BytePosition
  <2>3. w[p] = src[4 * g + lane][j]
    BY <1>8, <2>1
  <2>4. cursor(k, lane) \in Nat /\ j \in Int
    BY <1>5, CursorType DEF Lane
  <2> DEFINE i == cl + off + p
  <2>5. cl + start[4 * g + lane] + j = i
    <3> DEFINE s   == start[4 * g + lane]
               at  == cursor(k, lane)
    <3>1. s = off + at
      BY <1>11
    <3>2. cl \in Nat /\ off \in Nat /\ at \in Nat /\ j \in Int
      BY <1>3, <2>4
    <3> HIDE DEF s, at
    <3>3. cl + s + j = cl + off + (at + j)
      BY <3>1, <3>2
    <3> QED BY <3>3 DEF s, at
  <2> HIDE DEF p
  <2>6. p \in 0 .. 15
    BY <2>2 DEF Index, wide
  <2>7. i \in DOMAIN dst /\ i \in cl + off .. cl + off + wide - 1 /\ i - (cl + off) = p
    <3>1. cl \in Nat /\ off \in Nat /\ len \in Nat /\ cl + off + 16 <= len
      BY <1>3 DEF wide
    <3>2. i \in cl + off .. cl + off + 15 /\ i \in 0 .. len + 15 /\ i - (cl + off) = p
      BY <2>6, <3>1
    <3>3. DOMAIN dst = 0 .. len + 15 /\ cl + off + wide - 1 = cl + off + 15
      BY <1>3, <3>1 DEF wide
    <3> QED BY <3>2, <3>3
  <2> HIDE DEF i
  <2> QED BY <1>9, <2>3, <2>5, <2>7
<1>13. ASSUME GatherClears(platform), NEW i \in DOMAIN dst, i >= cl + off', i < cl + off + wide
       PROVE  dst'[i] = 0
  <2> DEFINE l == lengthTable[k]
  <2>1. l \in Nat /\ off' = off + l
    BY <1>5, <1>10, LengthType DEF wide
  <2> HIDE DEF l
  <2>2. cl \in Nat /\ off \in Nat
    BY <1>3
  <2>3. i \in Nat
    <3>1. DOMAIN dst = 0 .. len + wide - 1
      BY <1>3
    <3> QED BY <3>1
  <2>4. i >= cl + off + l /\ i <= cl + off + 15
    BY <1>13, <2>1, <2>2, <2>3 DEF wide
  <2>5. i - (cl + off) \in 0 .. 15 /\ i - (cl + off) >= l /\ i \in cl + off .. cl + off + 15
    BY <2>1, <2>2, <2>3, <2>4
  <2>6. /\ i - (cl + off) \in Index /\ i - (cl + off) >= lengthTable[k]
        /\ i \in cl + off .. cl + off + wide - 1
    BY <2>2, <2>5 DEF Index, wide, l
  <2> QED BY <1>8, <1>9, <1>13, <2>6
<1> QED BY <1>10, <1>12, <1>13

LEMMA KernelGroupContent ==
  ASSUME IndInv, LayoutInv, ContentInv, KernelGroup
  PROVE  ContentInv'
<1>1. /\ pc = "kernel" /\ pc' = "kernel" /\ g' = g + 1
      /\ UNCHANGED <<src, n, len, old, safe, start, platform>>
  BY DEF KernelGroup, callVars
<1>2. /\ TypeOK /\ n \in Nat /\ len \in Nat /\ g \in Nat
      /\ start \in [0 .. n -> Nat] /\ dst \in [0 .. len + wide - 1 -> Byte]
      /\ IsLayout(4 * groups) /\ Grows(4 * groups)
      /\ HoldsIntegers(4 * g) /\ ClearedAfter(cl + off, g)
  BY <1>1 DEF IndInv, TypeOK, LayoutInv, OffsetsKnown, known, ContentInv, written
<1>3. /\ cl \in Nat /\ off \in Nat /\ off = start[4 * g] /\ cl + off + wide <= len
      /\ DOMAIN dst' = DOMAIN dst /\ cl' = cl
      /\ \A i \in DOMAIN dst : i < cl + off \/ i >= cl + off + wide => dst'[i] = dst[i]
      /\ g < groups /\ groups \in Nat /\ 4 * groups <= n
  <2>1. g < safe /\ safe <= groups /\ groups \in Nat /\ safe \in Nat /\ 4 * groups <= n
    BY <1>2, KernelWrites, Counts DEF TypeOK
  <2>2. g < groups
    BY <1>2, <2>1
  <2> QED BY <1>1, <2>1, <2>2, KernelWrites DEF cl
<1>4. IsLayout(4 * g) /\ Grows(4 * g) /\ 4 * g \in 0 .. n
  <2>1. \A i \in 0 .. 4 * g : i \in 0 .. 4 * groups
    BY <1>2, <1>3
  <2>2. \A i \in 0 .. 4 * g - 1 : i \in 0 .. 4 * groups - 1
    BY <1>2, <1>3
  <2>3. IsLayout(4 * g)
    BY <1>2, <2>2 DEF IsLayout
  <2>4. Grows(4 * g)
    BY <1>2, <2>1 DEF Grows
  <2> QED BY <1>2, <1>3, <2>3, <2>4
\* The integers of the groups before, and the four of this one.
<1>5. HoldsIntegers(written)'
  <2>1. written' = 4 * g + 4
    BY <1>1, <1>2 DEF written
  <2>2. \A i \in 0 .. 4 * g - 1 : \A j \in 0 .. code(src[i]) :
          dst'[cl + start[i] + j] = src[i][j]
    <3>1. \A p \in 0 .. start[4 * g] - 1 : cl + p \in DOMAIN dst /\ cl + p < cl + off
      <4> TAKE p \in 0 .. start[4 * g] - 1
      <4>1. p \in Nat /\ p < off
        BY <1>3
      <4>2. cl + p \in 0 .. len + 15 /\ cl + p < cl + off
        <5>1. cl \in Nat /\ off \in Nat /\ len \in Nat /\ cl + off + 16 <= len
          BY <1>2, <1>3 DEF wide
        <5> QED BY <4>1, <5>1
      <4>3. DOMAIN dst = 0 .. len + 15
        <5>1. len + wide - 1 = len + 15
          BY <1>2 DEF wide
        <5> QED BY <1>2, <5>1
      <4> QED BY <4>2, <4>3
    <3> QED BY <1>2, <1>3, <1>4, <3>1, IntegersStay
  <2>3. \A lane \in Lane : \A j \in 0 .. code(src[4 * g + lane]) :
          dst'[cl + start[4 * g + lane] + j] = src[4 * g + lane][j]
    BY KernelData
  <2>4. \A i \in 0 .. 4 * g + 3 : i \in 0 .. 4 * g - 1 \/ \E lane \in Lane : i = 4 * g + lane
    <3> TAKE i \in 0 .. 4 * g + 3
    <3>1. i \notin 0 .. 4 * g - 1 => i - 4 * g \in Lane /\ i = 4 * g + (i - 4 * g)
      BY <1>2 DEF Lane
    <3> QED BY <3>1
  <2>5. \A i \in 0 .. 4 * g + 3 : \A j \in 0 .. code(src[i]) :
          dst'[cl + start[i] + j] = src[i][j]
    BY <2>2, <2>3, <2>4
  <2>6. written' - 1 = 4 * g + 3
    BY <1>2, <2>1
  <2> QED BY <1>1, <1>3, <2>5, <2>6 DEF HoldsIntegers
\* Zeros behind the group up to the end of its store, and beyond it nothing new.
<1>6. ClearedAfter(cl + off, g)'
  <2>1. off' = start[4 * g + 4] /\ off' \in Nat /\ off <= off'
    <3>1. off' = start[4 * g + 4] /\ 4 * g + 4 \in 0 .. 4 * groups /\ 4 * g \in 0 .. 4 * groups
          /\ 4 * g + 4 \in 0 .. n /\ 4 * g <= 4 * g + 4
      BY <1>2, <1>3, KernelData
    <3> QED BY <1>2, <1>3, <3>1 DEF Grows
  <2> SUFFICES ASSUME NEW i \in DOMAIN dst, i >= cl + off'
               PROVE  \/ dst'[i] = old[i]
                      \/ /\ GatherClears(platform) => dst'[i] = 0
                         /\ g + 1 > 0 /\ i < cl + start[4 * g] + wide
    <3>1. g' - 1 = g
      BY <1>1, <1>2
    <3> QED BY <1>1, <1>3, <3>1 DEF ClearedAfter
  <2>2. i \in Nat
    <3>1. DOMAIN dst = 0 .. len + wide - 1
      BY <1>2
    <3> QED BY <3>1
  <2>3. CASE i < cl + off + wide
    <3>1. GatherClears(platform) => dst'[i] = 0
      BY <2>3, KernelData
    <3> QED BY <1>2, <1>3, <2>3, <3>1
  <2>4. CASE ~(i < cl + off + wide)
    <3>1. i >= cl + off + 16 /\ i >= cl + off
      BY <1>3, <2>2, <2>4 DEF wide
    <3>2. dst'[i] = dst[i]
      BY <1>3, <3>1 DEF wide
    <3>3. \/ dst[i] = old[i]
          \/ g > 0 /\ i < cl + start[4 * (g - 1)] + wide
      BY <1>2, <3>1 DEF ClearedAfter
    <3>4. g > 0 => ~(i < cl + start[4 * (g - 1)] + wide)
      <4>1. g > 0 => /\ 4 * (g - 1) \in 0 .. 4 * g /\ 4 * g \in 0 .. 4 * g
                     /\ 4 * (g - 1) <= 4 * g /\ 4 * (g - 1) \in 0 .. n
        BY <1>2, <1>4
      <4>2. g > 0 => start[4 * (g - 1)] <= off /\ start[4 * (g - 1)] \in Nat
        BY <1>2, <1>3, <1>4, <4>1 DEF Grows
      <4> QED BY <1>3, <2>2, <3>1, <4>2 DEF wide
    <3> QED BY <3>2, <3>3, <3>4
  <2> QED BY <2>3, <2>4
<1> QED BY <1>1, <1>5, <1>6 DEF ContentInv

LEMMA KernelToTailContent ==
  ASSUME IndInv, ContentInv, KernelToTail
  PROVE  ContentInv'
<1>1. /\ pc = "kernel" /\ g = safe /\ HandOver(safe, off) /\ UNCHANGED dst
      /\ safe <= groups /\ off \in Nat
  BY DEF KernelToTail, IndInv, KernelCursor, TypeOK
<1>2. HoldsIntegers(4 * safe) /\ ClearedAfter(cl + off, safe)
  BY <1>1 DEF ContentInv, written
<1> QED BY <1>1, <1>2, HandOverContent

-----------------------------------------------------------------------------
(* encodeTail.                                                             *)

LEMMA TailContent ==
  ASSUME IndInv, LayoutInv, ContentInv, TailInt \/ TailPanic \/ TailDone
  PROVE  ContentInv'
<1>1. /\ pc = "tail" /\ TypeOK /\ HoldsIntegers(c) /\ ClearedAfter(cl + dp, safe)
  BY DEF IndInv, ContentInv, written, TailInt, TailPanic, TailDone
<1>2. /\ n \in Nat /\ len \in Nat /\ c \in Nat /\ c <= n /\ ki \in Nat /\ ki < cl
      /\ dp \in Nat /\ dp = start[c] /\ dp <= dataLen /\ cl + dataLen = len
      /\ cl \in Nat /\ dataLen \in Nat /\ safe \in Nat /\ 4 * safe <= c
      /\ start \in [0 .. n -> Nat] /\ dst \in [0 .. len + wide - 1 -> Byte]
      /\ IsLayout(c) /\ Grows(c)
  BY <1>1, TailFacts
<1>3. c \in 0 .. n
  BY <1>2
<1>4. CASE TailInt
  <2> DEFINE cd == code(src[c])
  <2>1. /\ pc' = "tail" /\ c < n /\ dp + cd < dataLen /\ dst' = TailBytesWritten
        /\ dp' = dp + cd + 1 /\ c' = c + 1 /\ start' = [start EXCEPT ![c + 1] = dp']
        /\ UNCHANGED <<src, n, old, safe, platform>>
    BY <1>4 DEF TailInt, FitsInt, callVars, groupVars
  <2>2. /\ DOMAIN dst' = DOMAIN dst /\ cd \in 0 .. 3
        /\ \A i \in DOMAIN dst : i >= cl /\ i < cl + dp => dst'[i] = dst[i]
        /\ \A i \in DOMAIN dst : i >= cl + dp + cd + 1 => dst'[i] = dst[i]
        /\ \A j \in 0 .. cd : cl + dp + j < len => dst'[cl + dp + j] = src[c][j]
    BY <1>1, <2>1, TailWrites
  <2>3. cl' = cl /\ written' = c + 1
    BY <2>1 DEF cl, written
  <2> HIDE DEF cd
  <2>4. \A i \in 0 .. c : start'[i] = start[i]
    BY <1>2, <2>1
  <2>5. HoldsIntegers(written)'
    <3>1. \A i \in 0 .. c - 1 : \A j \in 0 .. code(src[i]) :
            dst'[cl + start[i] + j] = src[i][j]
      <4>1. \A p \in 0 .. start[c] - 1 : /\ cl + p \in DOMAIN dst
                                         /\ cl + p >= cl /\ cl + p < cl + dp
        BY <1>2 DEF wide
      <4> QED BY <1>1, <1>2, <1>3, <2>2, <4>1, IntegersStay
    <3>2. \A j \in 0 .. cd : dst'[cl + start[c] + j] = src[c][j]
      <4> TAKE j \in 0 .. cd
      <4>1. cl + dp + j < len
        <5>1. /\ cl \in Nat /\ dp \in Nat /\ len \in Nat /\ dataLen \in Nat
              /\ cl + dataLen = len
          BY <1>2
        <5>2. cd \in 0 .. 3 /\ dp + cd < dataLen
          BY <2>1, <2>2
        <5> QED BY <5>1, <5>2
      <4> QED BY <1>2, <2>2, <4>1
    <3>3. \A i \in 0 .. c : \A j \in 0 .. code(src[i]) :
            dst'[cl + start'[i] + j] = src[i][j]
      <4>1. \A i \in 0 .. c : i \in 0 .. c - 1 \/ i = c
        BY <1>2
      <4> QED BY <2>4, <3>1, <3>2, <4>1 DEF cd
    <3>4. written' - 1 = c
      BY <1>2, <2>3
    <3> QED BY <2>1, <2>3, <3>3, <3>4 DEF HoldsIntegers
  <2>6. ClearedAfter(cl + dp, safe)'
    <3>1. safe > 0 => start'[4 * (safe - 1)] = start[4 * (safe - 1)]
      <4>1. safe > 0 => 4 * (safe - 1) \in 0 .. c
        BY <1>2
      <4> QED BY <2>4, <4>1
    <3>2. \A i \in DOMAIN dst : i >= cl + dp' => dst'[i] = dst[i] /\ i >= cl + dp
      <4> TAKE i \in DOMAIN dst
      <4> HAVE i >= cl + dp'
      <4>1. DOMAIN dst = 0 .. len + wide - 1
        BY <1>2
      <4>2. i \in Nat
        BY <4>1
      <4>3. i >= cl + dp + cd + 1 /\ i >= cl + dp
        <5>1. cl \in Nat /\ dp \in Nat
          BY <1>2
        <5>2. cd \in Nat
          BY <2>2
        <5>3. i >= cl + (dp + cd + 1)
          BY <2>1
        <5> QED BY <4>2, <5>1, <5>2, <5>3
      <4> QED BY <2>2, <4>3
    <3> QED BY <1>1, <2>1, <2>2, <2>3, <3>1, <3>2 DEF ClearedAfter
  <2> QED BY <2>1, <2>5, <2>6 DEF ContentInv
<1>5. CASE TailPanic
  BY <1>5, NoContent DEF TailPanic, Panic
<1>6. CASE TailDone
  <2>1. /\ pc' = "returned" /\ ret' = cl + dp /\ c = n /\ dst' = [dst EXCEPT ![ki] = key]
        /\ UNCHANGED <<src, n, old, start, safe, platform>>
    BY <1>6 DEF TailDone, Return, callVars, groupVars
  <2>2. \A i \in DOMAIN dst : i >= cl => dst'[i] = dst[i]
    <3>1. \A i \in DOMAIN dst : i >= cl => i # ki
      BY <1>2
    <3> QED BY <2>1, <3>1
  <2>3. cl' = cl /\ written' = c /\ DOMAIN dst' = DOMAIN dst
    BY <2>1 DEF cl, written
  <2>4. HoldsIntegers(written)'
    <3>1. \A p \in 0 .. start[c] - 1 : cl + p \in DOMAIN dst /\ cl + p >= cl
      BY <1>2 DEF wide
    <3>2. \A i \in 0 .. c - 1 : \A j \in 0 .. code(src[i]) :
            dst'[cl + start[i] + j] = src[i][j]
      BY <1>1, <1>2, <1>3, <2>2, <3>1, IntegersStay
    <3> QED BY <2>1, <2>3, <3>2 DEF HoldsIntegers
  <2>5. ClearedAfter(ret, safe)'
    <3>1. \A i \in DOMAIN dst : i >= cl + dp => i >= cl
      BY <1>2
    <3> QED BY <1>1, <2>1, <2>2, <2>3, <3>1 DEF ClearedAfter
  <2> QED BY <2>1, <2>4, <2>5 DEF ContentInv
<1> QED BY <1>4, <1>5, <1>6

-----------------------------------------------------------------------------
(* Every step.                                                             *)

LEMMA NextContent ==
  ASSUME IndInv, LayoutInv, ContentInv, [Next]_vars
  PROVE  ContentInv'
<1>1. CASE Call
  BY <1>1, NoContent DEF Call, CallOn
<1>2. CASE EncodeEmpty \/ EncodeTooShort \/ SlicePanic \/ BeginScalar \/ BeginScan
  BY <1>2, EntryContent
<1>3. CASE ScanGroup \/ ScanToKernel \/ ScanToTail
  BY <1>3, ScanContent
<1>4. CASE KernelGroup
  BY <1>4, KernelGroupContent
<1>5. CASE KernelToTail
  BY <1>5, KernelToTailContent
<1>6. CASE TailInt \/ TailPanic \/ TailDone
  BY <1>6, TailContent
<1>7. CASE UNCHANGED vars
  <2>1. cl' = cl /\ written' = written
    BY <1>7 DEF vars, callVars, groupVars, tailVars, cl, written
  <2> QED BY <1>7, <2>1 DEF vars, callVars, groupVars, tailVars, ContentInv, HoldsIntegers,
                            ClearedAfter
<1> QED BY <1>1, <1>2, <1>3, <1>4, <1>5, <1>6, <1>7 DEF Next, Step, Stop

LEMMA InitContent == Init => ContentInv
BY DEF Init, ContentInv, HoldsIntegers, written

\* At every step of a call the integers done so far are in their places, and all
\* that is not final is as it was, or cleared by the last wide store.
THEOREM ContentInvariance == Spec => []ContentInv
<1>1. Init => ContentInv
  BY InitContent
<1>2. IndInv /\ LayoutInv /\ ContentInv /\ [Next]_vars => ContentInv'
  BY NextContent
<1> QED BY <1>1, <1>2, Invariance, LayoutInvariance, PTL DEF Spec

\* The four parts together are an invariant of encode: where its loops are, how far
\* they may write, which offsets and control bytes they have, what dst holds.
THEOREM EncodeHolds == Spec => []EncodeInv
<1>1. IndInv /\ MaxLenInv /\ LayoutInv /\ ContentInv => EncodeInv
  BY DEF EncodeInv
<1> QED BY <1>1, Invariance, MaxLenInvariance, LayoutInvariance, ContentInvariance, PTL

LEMMA FinalEncodes == LayoutInv /\ ContentInv => EncodesSource
BY DEF LayoutInv, OffsetsKnown, known, Consumed, ControlsKnown, ContentInv, written,
       EncodesSource

\* A call that returns has written the control bytes and the data bytes of its
\* source, and reports their number: the wire bytes do not depend on the target,
\* on the path, on the width of its RVV registers, or on the room in dst.
THEOREM WritesWireFormat == Spec => []EncodesSource
BY FinalEncodes, LayoutInvariance, ContentInvariance, PTL

\* Beyond the returned length, dst is as it was, or zero within the wide store of
\* the last group that the kernel took (where GatherClears).
THEOREM ClearsOnlyLastStore == Spec => []ClobberIsBounded
<1>1. ASSUME IndInv, LayoutInv, ContentInv PROVE ClobberIsBounded
  <2> SUFFICES ASSUME pc = "returned", NEW i \in ret .. len - 1
               PROVE  \/ dst[i] = old[i]
                      \/ /\ GatherClears(platform) => dst[i] = 0
                         /\ public => 4 * safe = n - (n % 4)
                         /\ safe > 0 /\ i < cl + start[4 * (safe - 1)] + wide
    BY DEF ClobberIsBounded
  <2>1. /\ n \in Nat /\ len \in Nat /\ ret \in Nat /\ safe \in Nat
        /\ DOMAIN dst = 0 .. len + wide - 1
    BY <1>1 DEF IndInv, TypeOK
  <2>2. i \in DOMAIN dst /\ i >= ret
    BY <2>1 DEF wide
  <2>3. \/ dst[i] = old[i]
        \/ /\ GatherClears(platform) => dst[i] = 0
           /\ safe > 0 /\ i < cl + start[4 * (safe - 1)] + wide
    BY <1>1, <2>2 DEF ContentInv, ClearedAfter
  <2>4. safe > 0 /\ public => 4 * safe = n - (n % 4)
    <3>1. safe > 0 /\ public => safe = groups
      BY <1>1, <2>1 DEF LayoutInv, Checked, SafeGroups
    <3> QED BY <2>1, <3>1 DEF groups, groupSize
  <2> QED BY <2>3, <2>4
<1> QED BY <1>1, Invariance, LayoutInvariance, ContentInvariance, PTL

=============================================================================
