-------------------------------- MODULE Decode --------------------------------
(***************************************************************************)
(* One call of Decode, from its entry to its return or panic.              *)
(*                                                                         *)
(*   entry -> scan -> kernel -> tail -> returned                           *)
(*                                                                         *)
(* Each iteration of the three loops is a step.  The scan and the kernel   *)
(* run on targets with a decode kernel only.  The input is any byte slice  *)
(* with any count, so the streams need not be complete.  The array behind  *)
(* dst goes on for groupSize integers, wide bytes, beyond its length.      *)
(***************************************************************************)
EXTENDS Kernels

CONSTANTS
  Targets,     \* the platforms on which calls are made
  Counts,      \* the possible counts n, not only positive ones
  Streams,     \* the possible inputs: their length and their bytes
  OldValues,   \* what the array may hold before the call
  Slack        \* bound on len(dst): n + Slack

ASSUME TargetsAssumption == Targets \subseteq Platforms
ASSUME InputAssumption ==
  /\ Counts \subseteq Int
  /\ \A s \in Streams : s.len \in Nat /\ s.at \in [0 .. s.len - 1 -> Byte]
  /\ OldValues \subseteq Value
  /\ Slack \in Nat

VARIABLES
  pc,          \* where the call is
  platform,    \* the target it runs on
  src, srcLen, \* the stream and its length
  n, len,      \* the count asked for, and len(dst)
  dst,         \* the array behind dst
  g, off,      \* loop variables of safeGroups, then of the kernel
  safe,        \* groups given to the kernel
  c, ki, shift, key, dp,   \* loop variables of decodeTail
  ret,         \* the result of the call
  start,       \* history: start[i] is the data offset of integer i, and
               \* start[i+1] the offset after it, once i has been reached
  old          \* history: dst before the call

callVars  == <<platform, src, srcLen, n, len, old>>
groupVars == <<g, off, safe>>
tailVars  == <<c, ki, shift, key, dp>>
vars      == <<pc, callVars, dst, groupVars, tailVars, ret, start>>

cl      == controlLen(n)
dataLen == srcLen - cl      \* negative when the control stream is cut
groups  == n \div groupSize

-----------------------------------------------------------------------------
(* The call.                                                               *)

Init ==
  /\ pc = "idle"
  /\ platform \in Targets
  /\ src = [i \in 0 .. -1 |-> 0] /\ srcLen = 0
  /\ n = 0 /\ len = 0
  /\ dst = [i \in 0 .. groupSize - 1 |-> [j \in Lane |-> 0]] /\ old = dst
  /\ g = 0 /\ off = 0 /\ safe = 0
  /\ c = 0 /\ ki = 0 /\ shift = 0 /\ key = 0 /\ dp = 0
  /\ ret = 0
  /\ start = [i \in 0 .. 0 |-> 0]

\* A call with count k, a destination of l integers holding fill, and the
\* first m bytes of the array at.
CallWith(k, l, fill, m, at) ==
  /\ pc = "idle"
  /\ pc' = "entry"
  /\ n' = k /\ len' = l
  /\ src' = at /\ srcLen' = m
  /\ dst' = [i \in 0 .. l + groupSize - 1 |-> fill] /\ old' = dst'
  /\ start' = [i \in 0 .. k |-> 0]
  /\ UNCHANGED <<platform, groupVars, tailVars, ret>>

Call ==
  /\ pc = "idle"
  /\ \E k \in Counts, s \in Streams, fill \in OldValues :
       \E l \in 0 .. k + Slack : CallWith(k, l, fill, s.len, s.at)

Panic ==
  /\ pc' = "panicked"
  /\ UNCHANGED <<callVars, dst, groupVars, tailVars, ret, start>>

Return(result) ==
  /\ pc' = "returned"
  /\ ret' = result
  /\ UNCHANGED <<callVars, dst, groupVars, tailVars, start>>

DecodeEmpty == pc = "entry" /\ n = 0 /\ Return(0)

DecodeTooShort == pc = "entry" /\ n # 0 /\ len < n /\ Panic

\* dst[:n] with a negative n, which len(dst) < n lets through.
NegativeCount == pc = "entry" /\ n < 0 /\ len >= n /\ Panic

-----------------------------------------------------------------------------
(* decodeTail takes over at integer 4*done, data offset consumed.  It only *)
(* slices src into its two streams when it has something to decode.        *)

HandOver(done, consumed) ==
  \/ groupSize * done >= n /\ Return(cl + consumed)
  \/ groupSize * done < n /\ cl > srcLen /\ Panic
  \/ /\ groupSize * done < n /\ cl <= srcLen
     /\ pc' = "tail"
     /\ c' = groupSize * done
     /\ ki' = done
     /\ dp' = consumed
     /\ key' = src[done] /\ shift' = 0
     /\ UNCHANGED <<callVars, dst, groupVars, ret, start>>

\* The call has got past the checks of Decode and is in decode.
InDecode == pc = "entry" /\ n > 0 /\ len >= n

\* No kernel in this build, or its CPU feature is missing.
BeginScalar ==
  /\ InDecode
  /\ platform \notin hasDecodeKernel
  /\ HandOver(0, 0)

BeginScan ==
  /\ InDecode
  /\ platform \in hasDecodeKernel
  /\ pc' = "scan"
  /\ g' = 0 /\ off' = 0
  /\ UNCHANGED <<callVars, dst, safe, tailVars, ret, start>>

-----------------------------------------------------------------------------
(* safeGroups: add up group lengths as long as the wide load fits.         *)

WideFits_Loose  == off + wide <= dataLen + 1
WideFits_Strict == off + wide < dataLen

\* A wide load at data offset off stays in the stream.
WideFits == off + wide <= dataLen

\* start once the integers of group h, which begins at offset at, are known.
knowGroup(h, at) ==
  [i \in 0 .. n |-> IF i \in 4 * h + 1 .. 4 * h + 4
                    THEN at + cursor(src[h], i - 4 * h) ELSE start[i]]

ScanGroup ==
  /\ pc = "scan" /\ g < groups
  /\ WideFits
  /\ off' = off + lengthTable[src[g]]
  /\ g' = g + 1
  /\ start' = knowGroup(g, off)
  /\ UNCHANGED <<pc, callVars, dst, safe, tailVars, ret>>

\* safeGroups returns g.
ScanEnds == pc = "scan" /\ (g = groups \/ ~WideFits)

ScanToKernel ==
  /\ ScanEnds /\ g > 0
  /\ pc' = "kernel"
  /\ safe' = g
  /\ g' = 0 /\ off' = 0
  /\ UNCHANGED <<callVars, dst, tailVars, ret, start>>

ScanToTail == ScanEnds /\ g = 0 /\ HandOver(0, 0)

-----------------------------------------------------------------------------
(* The kernel: one wide load per group, lengthTable bytes apart.           *)

\* The wide bytes at data offset at.
wideLoad(at) == [i \in Index |-> src[cl + at + i]]

KernelGroup_Stuck ==
  /\ pc = "kernel" /\ g < safe
  /\ \E tail \in TailBytes :
       LET vals == decodeGroup(platform, src[g], wideLoad(off), tail)
       IN dst' = [i \in DOMAIN dst |->
                    IF i \in 4 * g .. 4 * g + 3 THEN vals[i - 4 * g] ELSE dst[i]]
  /\ UNCHANGED <<pc, callVars, groupVars, tailVars, ret, start>>

KernelGroup ==
  /\ pc = "kernel" /\ g < safe
  /\ \E tail \in TailBytes :
       LET vals == decodeGroup(platform, src[g], wideLoad(off), tail)
       IN dst' = [i \in DOMAIN dst |->
                    IF i \in 4 * g .. 4 * g + 3 THEN vals[i - 4 * g] ELSE dst[i]]
  /\ off' = off + lengthTable[src[g]]
  /\ g' = g + 1
  /\ UNCHANGED <<pc, callVars, safe, tailVars, ret, start>>

KernelToTail_FromStart == pc = "kernel" /\ g = safe /\ HandOver(safe, 0)

KernelToTail == pc = "kernel" /\ g = safe /\ HandOver(safe, off)

-----------------------------------------------------------------------------
(* decodeTail: one integer per step.                                       *)

Reload_Late == shift > 8

\* The four integers of the control byte are done: the next one is loaded.
Reload == shift = 8

tailKey   == IF Reload THEN src[ki + 1] ELSE key
tailShift == IF Reload THEN 0 ELSE shift
tailCode  == laneCode(tailKey, tailShift \div 2)

FitsInt_OffByOne == dp + tailCode + 1 < dataLen

\* The bytes of integer c are all in the stream.
FitsInt == dp + tailCode < dataLen

tailValue == [j \in Lane |-> IF j <= tailCode THEN src[cl + dp + j] ELSE 0]

TailInt ==
  /\ pc = "tail" /\ c < n
  /\ FitsInt
  /\ dst' = [dst EXCEPT ![c] = tailValue]
  /\ dp' = dp + tailCode + 1
  /\ ki' = IF Reload THEN ki + 1 ELSE ki
  /\ key' = tailKey
  /\ shift' = tailShift + 2
  /\ c' = c + 1
  /\ start' = [start EXCEPT ![c + 1] = dp']
  /\ UNCHANGED <<pc, callVars, groupVars, ret>>

\* The first missing byte panics, before dst[c] is assigned.
TailPanic == pc = "tail" /\ c < n /\ ~FitsInt /\ Panic

TailDone == pc = "tail" /\ c = n /\ Return(cl + dp)

-----------------------------------------------------------------------------

Step ==
  \/ DecodeEmpty \/ DecodeTooShort \/ NegativeCount \/ BeginScalar \/ BeginScan
  \/ ScanGroup \/ ScanToKernel \/ ScanToTail
  \/ KernelGroup \/ KernelToTail
  \/ TailInt \/ TailPanic \/ TailDone

Ended == pc \in {"returned", "panicked"}

\* The call is over; nothing else happens to its variables.
Stop == Ended /\ UNCHANGED vars

Next == Call \/ Step \/ Stop

Spec == Init /\ [][Next]_vars

\* Nothing in a call blocks, so a call that was made keeps running.
FairSpec == Spec /\ WF_vars(Step)

-----------------------------------------------------------------------------
(* Properties.                                                             *)

TypeOK ==
  /\ pc \in {"idle", "entry", "scan", "kernel", "tail", "returned", "panicked"}
  /\ platform \in Targets
  /\ srcLen \in Nat /\ src \in [0 .. srcLen - 1 -> Byte]
  /\ n \in Int /\ len \in Nat
  /\ dst \in [0 .. len + groupSize - 1 -> Value]
  /\ old \in [0 .. len + groupSize - 1 -> Value]
  /\ g \in Nat /\ off \in Nat /\ safe \in Nat
  /\ c \in Nat /\ ki \in Nat /\ dp \in Nat
  /\ shift \in {0, 2, 4, 6, 8}
  /\ key \in Byte
  /\ ret \in Nat
  /\ start \in [0 .. n -> Nat]

\* The length of integer i, minus one, according to its control byte.
codeOf(i) == laneCode(src[i \div 4], i % 4)

\* The first k integers lie one after the other from offset 0.
IsLayout(k) ==
  start[0] = 0 /\ \A i \in 0 .. k - 1 : start[i + 1] = start[i] + codeOf(i) + 1

\* Integer i of the stream.
IntAt(i) ==
  [j \in Lane |-> IF j <= codeOf(i) THEN src[cl + start[i] + j] ELSE 0]

\* A call that returns has decoded the n integers of the stream, whichever
\* path decoded which of them, and says how many of its bytes they take.
ReadsStream ==
  pc = "returned" =>
    /\ IsLayout(n)
    /\ ret = cl + start[n] /\ ret <= srcLen
    /\ \A i \in 0 .. n - 1 : dst[i] = IntAt(i)

\* Every byte that a kernel loads belongs to src.
LoadInBounds ==
  pc = "kernel" /\ g < safe => g < srcLen /\ cl + off + wide <= srcLen

\* The number of integers decoded so far.
decoded ==
  CASE pc = "kernel" -> 4 * g
    [] pc \in {"tail", "panicked"} -> c
    [] pc = "returned" -> n
    [] OTHER -> 0

\* At any moment, and when a call panics in the middle of a truncated stream,
\* dst holds the integers decoded so far and is untouched beyond them, so a
\* kernel writes neither past n nor past len(dst), and the scalar and the
\* wide path leave the same destination behind.
DecodedPrefix ==
  \A i \in DOMAIN dst : dst[i] = IF i < decoded THEN IntAt(i) ELSE old[i]

\* Decode panics only for a destination that is too short, a negative count,
\* or a stream that ends before integer c does.
PanicsOnlyWhenTruncated ==
  pc = "panicked" =>
    \/ len < n /\ dst = old
    \/ n < 0 /\ dst = old
    \/ cl > srcLen /\ dst = old
    \/ c < n /\ IsLayout(c) /\ cl + start[c] + codeOf(c) >= srcLen

\* safeGroups returns the largest number of leading groups whose wide loads
\* all fit in the stream.
SafeIsLargest ==
  /\ pc = "kernel" => \A h \in 0 .. safe - 1 : start[4 * h] + wide <= dataLen
  /\ pc = "kernel" /\ safe < groups => start[4 * safe] + wide > dataLen

-----------------------------------------------------------------------------
(* The inductive invariant behind these properties.                        *)

\* What the checks at the entry of each loop have established; nothing has been
\* decoded before the kernel, and decodeTail's cursor only moves in it.
Entered ==
  /\ pc \in {"idle", "entry", "scan", "kernel"} => c = 0
  /\ pc \in {"idle", "entry", "scan"} => dst = old
  /\ pc \in {"scan", "kernel", "tail"} => 0 < n /\ n <= len
  /\ pc \in {"scan", "kernel"} => platform \in hasDecodeKernel
  /\ pc = "tail" => cl <= srcLen
  /\ pc = "returned" => n \in 0 .. len

\* The number of integers whose offsets are known.
known ==
  CASE pc = "scan" -> 4 * g
    [] pc = "kernel" -> 4 * safe
    [] pc \in {"tail", "panicked"} -> c
    [] pc = "returned" -> n
    [] OTHER -> 0

\* start has the offsets that the control bytes say, as far as it goes; for a
\* negative count it is empty.
OffsetsKnown == n >= 0 => IsLayout(known)

\* The wide loads of the first k groups stay in the stream.
LoadsFit(k) == \A h \in 0 .. k - 1 : start[4 * h] + wide <= dataLen

ScanCursor ==
  pc = "scan" =>
    /\ g <= groups /\ off = start[4 * g] /\ LoadsFit(g)
    /\ g > 0 => off <= dataLen

\* The kernel follows the offsets of the scan.
KernelCursor ==
  pc = "kernel" =>
    /\ g <= safe /\ 0 < safe /\ safe <= groups
    /\ off = start[4 * g] /\ LoadsFit(safe)
    /\ start[4 * safe] <= dataLen
    /\ safe < groups => start[4 * safe] + wide > dataLen

\* decodeTail holds the control byte of the group it is in.
TailCursor ==
  pc = "tail" =>
    /\ c <= n /\ shift = 2 * (c - 4 * ki) /\ ki < cl /\ key = src[ki]
    /\ dp = start[c] /\ dp <= dataLen

\* The result counts the control bytes and the data of n integers.
Consumed ==
  pc = "returned" => ret = cl + start[n] /\ ret <= srcLen

\* All three loops follow the offsets that the control bytes say, and the scan has
\* left the kernel only groups whose wide loads are in the stream.
IndInv ==
  /\ TypeOK /\ Entered /\ OffsetsKnown /\ ScanCursor /\ KernelCursor
  /\ TailCursor /\ Consumed /\ PanicsOnlyWhenTruncated

-----------------------------------------------------------------------------

\* Every call ends.
CallEnds == pc = "entry" ~> Ended

=============================================================================
