-------------------------------- MODULE Encode --------------------------------
(***************************************************************************)
(* One call of the encoder, from its entry to its return or panic: the     *)
(* public Encode, or the unexported encode it calls, which the tests also  *)
(* call with a destination of the exact encoded size.                      *)
(*                                                                         *)
(*   entry -> scan -> kernel -> tail -> returned                           *)
(*                                                                         *)
(* Each iteration of the three loops is a step.  The scan and the kernel   *)
(* run on targets with an encode kernel only; a call may panic instead.    *)
(* The array behind dst goes on for wide bytes beyond its length: kernels  *)
(* write through unchecked pointers, and those bytes belong to others.     *)
(***************************************************************************)
EXTENDS Kernels

CONSTANTS
  Targets,     \* the platforms on which calls are made
  Lengths,     \* the possible len(src)
  Values,      \* the integers in src
  OldBytes,    \* what the array may hold before the call
  Slack,       \* bound on len(dst): EncodedMaxLen(n) + Slack
  IntBits      \* width of int on "generic32": 32, or fewer to reach its end

ASSUME TargetsAssumption == Targets \subseteq Platforms
ASSUME InputAssumption ==
  /\ Lengths \subseteq Nat
  /\ Values \subseteq Value
  /\ OldBytes \subseteq Byte
  /\ Slack \in Nat
  /\ IntBits \in Nat \ {0}

VARIABLES
  pc,          \* where the call is
  platform,    \* the target it runs on
  public,      \* Encode, or encode called by a test
  src, n,      \* the integers and their number
  len,         \* len(dst)
  dst,         \* the array behind dst
  g, off,      \* loop variables of encodeSafeGroups, then of the kernel
  safe,        \* groups given to the kernel
  c, ki, shift, key, dp,   \* loop variables of encodeTail
  ret,         \* the result of the call
  start,       \* history: start[i] is the data offset of integer i, and
               \* start[i+1] the offset after it, once i has been reached
  old          \* history: dst before the call

callVars  == <<platform, public, src, n, len, old>>
groupVars == <<g, off, safe>>
tailVars  == <<c, ki, shift, key, dp>>
vars      == <<pc, callVars, dst, groupVars, tailVars, ret, start>>

cl      == controlLen(n)
dataLen == len - cl
groups  == n \div groupSize

\* x in an int of "generic32".  (n+3)/4 + 4*n wraps only in its product and its
\* sum: 4*n bytes of src are in the address space.
asInt(x) == ((x + 2 ^ (IntBits - 1)) % 2 ^ IntBits) - 2 ^ (IntBits - 1)

\* EncodedMaxLen(n) as the call gets it.
maxLen == IF platform = "generic32" THEN asInt(EncodedMaxLen(n)) ELSE EncodedMaxLen(n)

\* k integers and l bytes are in memory at the same time, and l is an int.
Addressable(k, l) ==
  platform = "generic32" => 4 * k + l < 2 ^ IntBits /\ l < 2 ^ (IntBits - 1)

-----------------------------------------------------------------------------
(* The call.                                                               *)

Init ==
  /\ pc = "idle"
  /\ platform \in Targets
  /\ public \in BOOLEAN
  /\ n = 0 /\ len = 0
  /\ src = [i \in 0 .. -1 |-> 0]
  /\ dst = [i \in 0 .. wide - 1 |-> 0] /\ old = dst
  /\ g = 0 /\ off = 0 /\ safe = 0
  /\ c = 0 /\ ki = 0 /\ shift = 0 /\ key = 0 /\ dp = 0
  /\ ret = 0
  /\ start = [i \in 0 .. 0 |-> 0]

\* A call with k integers and the first l bytes of the array that dst' is.
\* encode is never called without integers.
CallOn(k, l) ==
  /\ pc = "idle" /\ pc' = "entry"
  /\ public \/ k > 0
  /\ n' = k /\ len' = l
  /\ src' \in [0 .. k - 1 -> Values]
  /\ start' = [i \in 0 .. k |-> 0]
  /\ old' = dst'
  /\ UNCHANGED <<platform, public, groupVars, tailVars, ret>>

Call ==
  /\ pc = "idle"
  /\ \E k \in Lengths : \E l \in 0 .. EncodedMaxLen(k) + Slack :
       /\ Addressable(k, l)
       /\ dst' \in [0 .. l + wide - 1 -> OldBytes]
       /\ CallOn(k, l)

Panic ==
  /\ pc' = "panicked"
  /\ UNCHANGED <<callVars, groupVars, ret, start>>

Return(result) ==
  /\ pc' = "returned"
  /\ ret' = result
  /\ UNCHANGED <<callVars, groupVars, start>>

EncodeEmpty ==
  /\ pc = "entry" /\ public /\ n = 0
  /\ Return(0)
  /\ UNCHANGED <<dst, tailVars>>

EncodeTooShort ==
  /\ pc = "entry" /\ public /\ n # 0
  /\ len < maxLen
  /\ Panic
  /\ UNCHANGED <<dst, tailVars>>

\* The call has got past the checks of Encode and is in encode.
InEncode ==
  /\ pc = "entry" /\ n # 0
  /\ public => ~(len < maxLen)

\* dst[:cl] and dst[cl:] with cl > len(dst).
SlicePanic ==
  /\ InEncode
  /\ cl > len
  /\ Panic
  /\ UNCHANGED <<dst, tailVars>>

-----------------------------------------------------------------------------
(* encodeTail takes over at integer 4*done, data offset consumed.          *)

HandOver(done, consumed) ==
  \/ /\ groupSize * done >= n
     /\ Return(cl + consumed)
     /\ UNCHANGED tailVars
  \/ /\ groupSize * done < n
     /\ pc' = "tail"
     /\ c' = groupSize * done
     /\ ki' = done
     /\ dp' = consumed
     /\ key' = 0 /\ shift' = 0
     /\ UNCHANGED <<callVars, groupVars, ret, start>>

\* No kernel in this build, or its CPU feature is missing.
BeginScalar ==
  /\ InEncode
  /\ cl <= len
  /\ platform \notin hasEncodeKernel
  /\ HandOver(0, 0)
  /\ UNCHANGED dst

BeginScan ==
  /\ InEncode
  /\ cl <= len
  /\ platform \in hasEncodeKernel
  /\ pc' = "scan"
  /\ g' = 0 /\ off' = 0 /\ safe' = groups
  /\ UNCHANGED <<callVars, dst, tailVars, ret, start>>

-----------------------------------------------------------------------------
(* encodeSafeGroups: classify every complete group, write its control      *)
(* byte, and note the first one whose wide store would not fit.            *)

WideFits_Loose == off + wide <= dataLen + 1
WideFits_Strict == off + wide < dataLen

\* A wide store at data offset off stays in the data region.
WideFits == off + wide <= dataLen

ScanGroup ==
  /\ pc = "scan" /\ g < groups
  /\ LET k == controlByte(src[4 * g], src[4 * g + 1], src[4 * g + 2], src[4 * g + 3])
     IN /\ dst' = [dst EXCEPT ![g] = k]
        /\ safe' = IF safe = groups /\ ~WideFits THEN g ELSE safe
        /\ off' = off + lengthTable[k]
        /\ start' = [i \in 0 .. n |-> IF i \in 4 * g + 1 .. 4 * g + 4
                                      THEN off + cursor(k, i - 4 * g)
                                      ELSE start[i]]
  /\ g' = g + 1
  /\ UNCHANGED <<pc, callVars, tailVars, ret>>

ScanToKernel ==
  /\ pc = "scan" /\ g = groups
  /\ safe > 0
  /\ pc' = "kernel"
  /\ g' = 0 /\ off' = 0
  /\ UNCHANGED <<callVars, dst, safe, tailVars, ret, start>>

ScanToTail ==
  /\ pc = "scan" /\ g = groups
  /\ safe = 0
  /\ HandOver(0, 0)
  /\ UNCHANGED dst

-----------------------------------------------------------------------------
(* The kernel: one wide store per group, lengthTable bytes apart.          *)

\* Stores the 16 bytes w at data offset at.
wideStore(w, at) ==
  [i \in DOMAIN dst |-> IF i \in cl + at .. cl + at + wide - 1
                        THEN w[i - (cl + at)] ELSE dst[i]]

KernelGroup ==
  /\ pc = "kernel" /\ g < safe
  /\ \E tail \in TailBytes :
       LET vals == [lane \in Lane |-> src[4 * g + lane]]
       IN dst' = wideStore(encodeGroup(platform, dst[g], vals, tail), off)
  /\ off' = off + lengthTable[dst[g]]
  /\ g' = g + 1
  /\ UNCHANGED <<pc, callVars, safe, tailVars, ret, start>>

KernelToTail_FromStart ==
  /\ pc = "kernel" /\ g = safe
  /\ HandOver(safe, 0)
  /\ UNCHANGED dst

KernelToTail ==
  /\ pc = "kernel" /\ g = safe
  /\ HandOver(safe, off)
  /\ UNCHANGED dst

-----------------------------------------------------------------------------
(* encodeTail: one integer per step.                                       *)

\* The control byte is complete: it is written when the next integer comes.
Flush == shift = 8

\* Bytes of integer c that fit; Go panics at the first that does not, after
\* having stored those before it.
TailBytesWritten ==
  [i \in DOMAIN dst |->
     IF Flush /\ i = ki THEN key
     ELSE IF i \in cl + dp .. cl + dp + code(src[c]) /\ i < len
          THEN src[c][i - (cl + dp)] ELSE dst[i]]

FitsInt_OffByOne == dp + code(src[c]) + 1 < dataLen

FitsInt == dp + code(src[c]) < dataLen

NextShift_NoReset == shift + 2

NextShift == (IF Flush THEN 0 ELSE shift) + 2

TailInt ==
  /\ pc = "tail" /\ c < n
  /\ FitsInt
  /\ dst' = TailBytesWritten
  /\ dp' = dp + code(src[c]) + 1
  /\ ki' = IF Flush THEN ki + 1 ELSE ki
  /\ key' = IF Flush THEN code(src[c]) ELSE key + shiftLeft(code(src[c]), shift)
  /\ shift' = NextShift
  /\ c' = c + 1
  /\ start' = [start EXCEPT ![c + 1] = dp']
  /\ UNCHANGED <<pc, callVars, groupVars, ret>>

TailPanic ==
  /\ pc = "tail" /\ c < n
  /\ ~FitsInt
  /\ dst' = TailBytesWritten
  /\ Panic
  /\ UNCHANGED tailVars

TailDone_ReturnsData ==
  /\ pc = "tail" /\ c = n
  /\ dst' = [dst EXCEPT ![ki] = key]
  /\ Return(dp)
  /\ UNCHANGED tailVars

\* The last control byte, complete or not, is written after the loop.
TailDone ==
  /\ pc = "tail" /\ c = n
  /\ dst' = [dst EXCEPT ![ki] = key]
  /\ Return(cl + dp)
  /\ UNCHANGED tailVars

-----------------------------------------------------------------------------

Step ==
  \/ EncodeEmpty \/ EncodeTooShort \/ SlicePanic \/ BeginScalar \/ BeginScan
  \/ ScanGroup \/ ScanToKernel \/ ScanToTail
  \/ KernelGroup \/ KernelToTail
  \/ TailInt \/ TailPanic \/ TailDone

Ended == pc \in {"returned", "panicked"}

\* The call is over; nothing else happens to its variables.
Stop == Ended /\ UNCHANGED vars

Next == Call \/ Step \/ Stop

Spec == Init /\ [][Next]_vars

\* Nothing in a call blocks, so a call that was made keeps running.
FairSpec == Spec /\ WF_vars(Step)

-----------------------------------------------------------------------------
(* Properties.                                                             *)

TypeOK ==
  /\ pc \in {"idle", "entry", "scan", "kernel", "tail", "returned", "panicked"}
  /\ platform \in Targets
  /\ public \in BOOLEAN
  /\ n \in Nat /\ len \in Nat
  /\ src \in [0 .. n - 1 -> Value]
  /\ dst \in [0 .. len + wide - 1 -> Byte]
  /\ old \in [0 .. len + wide - 1 -> Byte]
  /\ g \in Nat /\ off \in Nat /\ safe \in Nat
  /\ c \in Nat /\ ki \in Nat /\ dp \in Nat
  /\ shift \in {0, 2, 4, 6, 8}
  /\ key \in Byte
  /\ ret \in Nat
  /\ start \in [0 .. n -> Nat]

\* The control byte of group h if it had only the integers before m.
packed(h, m) ==
  LET codeAt(i) == IF i < m THEN code(src[i]) ELSE 0
  IN codeAt(4 * h) + 4 * codeAt(4 * h + 1) + 16 * codeAt(4 * h + 2)
     + 64 * codeAt(4 * h + 3)

\* The control byte of group h of src; a missing integer has code 0.
groupKey(h) == packed(h, n)

\* The first k integers are laid out one after the other from offset 0.
IsLayout(k) ==
  /\ start[0] = 0
  /\ \A i \in 0 .. k - 1 : start[i + 1] = start[i] + code(src[i]) + 1

\* The bytes of the first k integers are in their places.
HoldsIntegers(k) ==
  \A i \in 0 .. k - 1 : \A j \in 0 .. code(src[i]) :
     dst[cl + start[i] + j] = src[i][j]

\* A call that returns has written the control stream and the data stream
\* of src, whichever path wrote which part of it, in whatever buffer, and
\* says how long they are: the wire bytes are identical on every path.
EncodesSource ==
  pc = "returned" =>
    /\ IsLayout(n)
    /\ ret = cl + start[n] /\ ret <= len
    /\ \A h \in 0 .. cl - 1 : dst[h] = groupKey(h)
    /\ HoldsIntegers(n)

\* No byte beyond len(dst) is written, although the kernels store 16 bytes
\* through unchecked pointers: encodeSafeGroups stops them in time.
NoOverrun == \A i \in DOMAIN dst : i >= len => dst[i] = old[i]

\* encodeSafeGroups returns the largest number of leading groups whose wide
\* stores all fit in the data region.
SafeIsLargest ==
  /\ pc = "kernel" => \A h \in 0 .. safe - 1 : start[4 * h] + wide <= dataLen
  /\ pc \in {"kernel", "tail"} /\ platform \in hasEncodeKernel /\ safe < groups
       => start[4 * safe] + wide > dataLen

\* Through Encode the kernel takes every complete group: encodeTail is left
\* with fewer than four integers.
RemainderIsShort ==
  pc = "tail" /\ public /\ platform \in hasEncodeKernel => c >= n - (n % 4)

\* Encode panics for a destination shorter than EncodedMaxLen, before it has
\* written anything; encode, and Encode when its bound has wrapped, panics only
\* when the control stream or an integer does not fit.
PanicsOnlyWhenTooShort ==
  pc = "panicked" =>
    IF public /\ len < maxLen
    THEN dst = old
    ELSE /\ public => len < EncodedMaxLen(n)
         /\ \/ cl > len /\ dst = old
            \/ c < n /\ IsLayout(c) /\ cl + start[c] + code(src[c]) >= len

\* No byte beyond EncodedMaxLen is written, however long dst is: a caller may
\* keep other data there, another goroutine's block for one.
StaysInMaxLen ==
  pc # "idle" =>
    \A i \in DOMAIN dst : i >= EncodedMaxLen(n) => dst[i] = old[i]

\* Beyond the returned length Encode may clear bytes, but only those in the
\* wide store of the last group that the kernel took.  An RVV register of more
\* than 255 bytes puts something else there.
ClobberIsBounded ==
  pc = "returned" =>
    \A i \in ret .. len - 1 :
       \/ dst[i] = old[i]
       \/ /\ GatherClears(platform) => dst[i] = 0
          /\ public => 4 * safe = n - (n % 4)
          /\ safe > 0 /\ i < cl + start[4 * (safe - 1)] + wide

\* The data offset below which all integers have been written.
frontier ==
  CASE pc = "kernel" -> start[4 * g]
    [] pc = "tail" -> start[c]
    [] OTHER -> 0

\* Control bytes already written.
controlsWritten ==
  CASE pc = "scan" -> g
    [] pc \in {"kernel", "tail"} -> IF platform \in hasEncodeKernel THEN groups ELSE ki
    [] OTHER -> 0

\* A byte of the data stream, once its integer has been written, is never
\* written with another value: the zeros at the end of a wide store fall on
\* bytes still to come.  A control byte is written twice (by the scan and,
\* for the groups the kernel did not take, by encodeTail): the same value.
FinalBytesStay ==
  [][ /\ \A i \in 0 .. frontier - 1 : dst'[cl + i] = dst[cl + i]
      /\ \A h \in 0 .. controlsWritten - 1 : dst'[h] = dst[h] ]_vars

\* tables.go: the trailing positions of a mask are "never stored (only
\* lengthTable[key] bytes are written)".
OnlyEncodedBytesWritten ==
  pc = "returned" => \A i \in ret .. len - 1 : dst[i] = old[i]

\* streamvbyte.go: EncodedMaxLen is "an upper bound on the number of bytes
\* Encode needs for n integers".
MaxLenIsUpperBound == pc = "returned" /\ public => ret <= maxLen

-----------------------------------------------------------------------------
(* The inductive invariant behind TypeOK and NoOverrun.                    *)

\* The loops run on integers, once dst has been sliced, and the scan and the
\* kernel where there is one.
Entered ==
  /\ pc \in {"scan", "kernel", "tail"} => 0 < n /\ cl <= len
  /\ pc \in {"scan", "kernel"} => platform \in hasEncodeKernel

\* The codes packed so far fill the bits of key below shift.
KeyFits ==
  /\ shift = 0 => key = 0
  /\ shift = 2 => key < 4
  /\ shift = 4 => key < 16
  /\ shift = 6 => key < 64

\* encodeTail is in group ki; only on entry is nothing of it packed.
TailCursor ==
  pc = "tail" => shift = 2 * (c - 4 * ki) /\ c <= n /\ (shift = 0 => c < n)

\* start advances by the group lengths that the kernel will look up.
GroupChain(k) ==
  \A h \in 0 .. k - 1 : start[4 * h + 4] = start[4 * h] + lengthTable[dst[h]]

StoresFit(k) == \A h \in 0 .. k - 1 : start[4 * h] + wide <= dataLen

ScanCursor ==
  pc = "scan" =>
    /\ g <= groups /\ off = start[4 * g] /\ GroupChain(g)
    /\ safe = groups => StoresFit(g)
    /\ safe # groups => safe < g /\ StoresFit(safe)

KernelCursor ==
  pc = "kernel" =>
    /\ g <= safe /\ safe <= groups
    /\ off = start[4 * g] /\ GroupChain(safe) /\ StoresFit(safe)

\* The kernel looks up the same lengths as the scan, so its wide stores are
\* those that the scan found to fit; encodeTail stays within the streams.
IndInv ==
  /\ TypeOK /\ NoOverrun /\ start[0] = 0
  /\ Entered /\ KeyFits /\ TailCursor /\ ScanCursor /\ KernelCursor

\* What StaysInMaxLen needs besides: a group takes at most 16 data bytes, and an
\* integer four, so that neither cursor runs ahead of its worst case.
MaxLenInv ==
  /\ StaysInMaxLen
  /\ pc = "kernel" => off <= wide * g
  /\ pc = "tail" => dp <= 4 * c

-----------------------------------------------------------------------------
(* The inductive invariant behind the layout of the streams.               *)

\* What the entry has checked, and what no step before the loops has changed.
Checked ==
  /\ pc \in {"idle", "entry"} => dst = old /\ safe = 0
  /\ pc \in {"idle", "entry", "scan", "kernel"} => c = 0
  /\ public /\ pc \in {"scan", "kernel", "tail"} => ~(len < maxLen)
  /\ platform \in hasEncodeKernel \/ safe = 0

\* The number of integers whose offsets are known.
known ==
  CASE pc = "scan" -> 4 * g
    [] pc = "kernel" -> 4 * groups
    [] pc \in {"tail", "panicked"} -> c
    [] pc = "returned" -> n
    [] OTHER -> 0

\* The offsets never decrease, and an integer takes at most four bytes.
Grows(k) ==
  /\ \A i, j \in 0 .. k : i <= j => start[i] <= start[j]
  /\ \A i \in 0 .. k : start[i] <= 4 * i

OffsetsKnown == IsLayout(known) /\ Grows(known)

\* The control bytes that have been written are those of src, and encodeTail has
\* packed the codes of the integers behind it in the one it is at.
ControlsKnown ==
  /\ \A h \in 0 .. (IF pc = "returned" THEN cl ELSE controlsWritten) - 1 :
       dst[h] = groupKey(h)
  /\ pc = "tail" => key = packed(ki, c)

\* The first group left out by encodeSafeGroups would not have fitted, and with
\* EncodedMaxLen bytes there is none.
SafeGroups ==
  /\ pc \in {"scan", "kernel", "tail"} /\ platform \in hasEncodeKernel =>
       safe <= groups /\ (safe < groups => start[4 * safe] + wide > dataLen)
  /\ pc = "kernel" => safe > 0
  /\ public /\ platform \in hasEncodeKernel /\ pc \in {"kernel", "tail", "returned"}
       => safe = groups

TailOffset == pc = "tail" => dp = start[c] /\ dp <= dataLen /\ 4 * safe <= c

Consumed == pc = "returned" => ret = cl + start[n] /\ ret <= len

\* Scan, kernel and tail lay src out in the same way: what one of them leaves to the
\* next is at the offset, and behind the control bytes, where that one goes on.
LayoutInv ==
  /\ Checked /\ OffsetsKnown /\ ControlsKnown /\ SafeGroups /\ TailOffset /\ Consumed
  /\ PanicsOnlyWhenTooShort

-----------------------------------------------------------------------------
(* The inductive invariant behind the bytes of the data stream.            *)

\* The number of integers that have been written.
written ==
  CASE pc = "kernel" -> 4 * g
    [] pc = "tail" -> c
    [] pc = "returned" -> n
    [] OTHER -> 0

\* Beyond what has been written, dst is as it was, or cleared by the last of the
\* first k wide stores (where GatherClears).
ClearedAfter(end, k) ==
  \A i \in DOMAIN dst : i >= end =>
    \/ dst[i] = old[i]
    \/ /\ GatherClears(platform) => dst[i] = 0
       /\ k > 0 /\ i < cl + start[4 * (k - 1)] + wide

\* The integers done so far are in their places, and no byte behind them is lost.
ContentInv ==
  /\ HoldsIntegers(written)
  /\ pc = "scan" => \A i \in DOMAIN dst : i >= cl => dst[i] = old[i]
  /\ pc = "kernel" => ClearedAfter(cl + off, g)
  /\ pc = "tail" => ClearedAfter(cl + dp, safe)
  /\ pc = "returned" => ClearedAfter(ret, safe)

\* All of it: the cursors, their bounds, the layout of the streams, the bytes.
EncodeInv == IndInv /\ MaxLenInv /\ LayoutInv /\ ContentInv

-----------------------------------------------------------------------------

\* Every call ends.
CallEnds == pc = "entry" ~> Ended

=============================================================================
