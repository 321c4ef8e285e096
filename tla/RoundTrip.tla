------------------------------ MODULE RoundTrip ------------------------------
(***************************************************************************)
(* A call of Encode followed by a call of Decode on its result, as the     *)
(* repository's checkRoundTrip makes them; the two may run on different    *)
(* machines, since the wire bytes are meant to be the same on all of them. *)
(* The variables of the second call have a d in front.                     *)
(***************************************************************************)
EXTENDS Encode

CONSTANT DecodeTargets   \* the platforms on which the result is decoded

ASSUME DecodeTargetsAssumption == DecodeTargets \subseteq Platforms

VARIABLES
  dpc, dplatform, dsrc, dsrcLen, dn, dlen, ddst, dg, doff, dsafe,
  dc, dki, dshift, dkey, ddp, dret, dstart, dold

decodeVars == <<dpc, dplatform, dsrc, dsrcLen, dn, dlen, ddst, dg, doff, dsafe,
                dc, dki, dshift, dkey, ddp, dret, dstart, dold>>
allVars    == <<vars, decodeVars>>

zero == [j \in Lane |-> 0]

D == INSTANCE Decode WITH
       Targets <- DecodeTargets, Counts <- Lengths, Streams <- {},
       OldValues <- {zero},
       pc <- dpc, platform <- dplatform, src <- dsrc, srcLen <- dsrcLen,
       n <- dn, len <- dlen, dst <- ddst, g <- dg, off <- doff, safe <- dsafe,
       c <- dc, ki <- dki, shift <- dshift, key <- dkey, dp <- ddp, ret <- dret,
       start <- dstart, old <- dold

RTInit == Init /\ D!Init

EncodeStep == (Call \/ Step) /\ UNCHANGED decodeVars

\* out := make([]uint32, n); Decode(out, dst[:w], n)
Receive ==
  /\ pc = "returned"
  /\ D!CallWith(n, n, zero, ret, [i \in 0 .. ret - 1 |-> dst[i]])
  /\ UNCHANGED vars

DecodeStep == D!Step /\ UNCHANGED vars

Over == pc = "panicked" \/ dpc \in {"returned", "panicked"}

\* Nothing happens any more.
RTStop == Over /\ UNCHANGED allVars

RTNext == EncodeStep \/ Receive \/ DecodeStep \/ RTStop

RTSpec == RTInit /\ [][RTNext]_allVars

RTFairSpec == RTSpec /\ WF_allVars(EncodeStep \/ Receive \/ DecodeStep)

-----------------------------------------------------------------------------
(* Properties.                                                             *)

\* Decode reproduces the integers that Encode was given and consumes exactly
\* the bytes that Encode says it wrote, on any two targets.
Reproduces ==
  dpc = "returned" =>
    /\ dret = ret
    /\ \A i \in 0 .. n - 1 : ddst[i] = src[i]

\* What Encode wrote is always complete enough to decode.
NeverCut == dpc # "panicked"

\* The two calls together do what Codec promises.
stage ==
  CASE dpc = "returned" -> "done"
    [] dpc = "panicked" -> "failed"
    [] dpc \in {"entry", "scan", "kernel", "tail"} -> "decoding"
    [] OTHER ->
       CASE pc = "idle" -> "idle"
         [] pc = "returned" -> "encoded"
         [] pc = "panicked" -> "rejected"
         [] OTHER -> "encoding"

C == INSTANCE Codec WITH
       Item <- Values, Sizes <- Lengths, size <- n, sent <- src,
       count <- D!decoded, received <- [i \in 0 .. D!decoded - 1 |-> ddst[i]]

\* Integers are delivered in order, first to last, never a wrong one, on the
\* wide path by groups and on the scalar path one by one.
ImplementsCodec == C!Spec

-----------------------------------------------------------------------------
(* The inductive invariant behind these properties, besides those of the   *)
(* two calls.                                                              *)

\* Decode is given the bytes that Encode said it wrote, and all of the state
\* of that call is still there.
Received ==
  dpc # "idle" =>
    /\ pc = "returned"
    /\ dn = n /\ dlen = n
    /\ dsrcLen = ret /\ dsrc = [i \in 0 .. ret - 1 |-> dst[i]]

\* Decode finds the integers at the offsets where Encode has put them.
OffsetsAgree == \A i \in 0 .. D!known : dstart[i] = start[i]

\* Decode is always at an offset of Encode, and has decoded what is before it.
RTInv == D!IndInv /\ D!DecodedPrefix /\ Received /\ OffsetsAgree

-----------------------------------------------------------------------------

\* Whatever Encode returns is decoded in the end.
GetsThrough == pc = "returned" ~> dpc = "returned"

=============================================================================
