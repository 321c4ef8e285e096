---------------------------- MODULE SharedBuffer ----------------------------
(***************************************************************************)
(* Two calls of Encode that put their blocks into one buffer: the first    *)
(* encodes into buf, the second into buf[second:], on the same machine.    *)
(* Package streamvbyte has no lock and knows nothing of the other call; a  *)
(* destination is longer than its block, and kernels write more than the   *)
(* bytes of a block.  The caller gives the second block the place          *)
(*                                                                         *)
(*   - behind EncodedMaxLen of the first, at any time, from a goroutine of *)
(*     its own: the steps of the two calls interleave; or                  *)
(*   - behind the bytes that the first call has returned.                  *)
(*                                                                         *)
(* The first call is that of Encode; the variables of the second have a w  *)
(* in front.  Each sees the array behind the buffer as its own dst.        *)
(***************************************************************************)
EXTENDS Encode

CONSTANT Room      \* the length of the buffer

ASSUME RoomAssumption == Room \in Nat

VARIABLES
  wpc, wplatform, wpublic, wsrc, wn, wlen, wdst, wg, woff, wsafe,
  wc, wki, wshift, wkey, wdp, wret, wstart, wold,
  second       \* where the second block begins

wCallVars  == <<wplatform, wpublic, wsrc, wn, wlen, wold>>
wOtherVars == <<wpc, wCallVars, wg, woff, wsafe, wc, wki, wshift, wkey, wdp, wret, wstart>>
otherVars  == <<pc, callVars, groupVars, tailVars, ret, start>>
allVars    == <<vars, wOtherVars, wdst, second>>

W == INSTANCE Encode WITH
       pc <- wpc, platform <- wplatform, public <- wpublic, src <- wsrc,
       n <- wn, len <- wlen, dst <- wdst, g <- wg, off <- woff, safe <- wsafe,
       c <- wc, ki <- wki, shift <- wshift, key <- wkey, dp <- wdp,
       ret <- wret, start <- wstart, old <- wold

SBInit == Init /\ W!Init /\ public /\ wpublic /\ wplatform = platform /\ second = 0

FirstCall ==
  /\ pc = "idle"
  /\ dst' \in [0 .. Room + wide - 1 -> OldBytes]
  /\ \E k \in Lengths : CallOn(k, Room)
  /\ UNCHANGED <<wOtherVars, wdst, second>>

PlaceBehindMaxLen == pc \notin {"idle", "panicked"} /\ second' = EncodedMaxLen(n)

PlaceBehindReturned == pc = "returned" /\ second' = ret

SecondCall ==
  /\ wpc = "idle"
  /\ PlaceBehindMaxLen \/ PlaceBehindReturned
  /\ second' <= Room
  /\ wdst' = [i \in 0 .. Room - second' + wide - 1 |-> dst[second' + i]]
  /\ \E k \in Lengths : W!CallOn(k, Room - second')
  /\ UNCHANGED vars

\* A step of either call shows in the other's view of the buffer.
FirstStep ==
  /\ Step
  /\ wdst' = IF wpc = "idle" THEN wdst
             ELSE [i \in DOMAIN wdst |-> dst'[second + i]]
  /\ UNCHANGED <<wOtherVars, second>>

SecondStep ==
  /\ W!Step
  /\ dst' = [i \in DOMAIN dst |-> IF i < second THEN dst[i] ELSE wdst'[i - second]]
  /\ UNCHANGED <<otherVars, second>>

SBStop == Ended /\ W!Ended /\ UNCHANGED allVars

SBNext == FirstCall \/ FirstStep \/ SecondCall \/ SecondStep \/ SBStop

SBSpec == SBInit /\ [][SBNext]_allVars

-----------------------------------------------------------------------------
(* Properties.                                                             *)

\* Once a call has returned, its block is in the buffer, to the last byte,
\* whatever the other call has done, is doing or will do.
BothBlocks == EncodesSource /\ W!EncodesSource

\* Nor does a call, at any moment, damage what the other has finished.
NoDamage == FinalBytesStay /\ W!FinalBytesStay

=============================================================================
