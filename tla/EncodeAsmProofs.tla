-------------------------- MODULE EncodeAsmProofs --------------------------
(***************************************************************************)
(* The six encode programs: their registers hold what the notes say, they  *)
(* stay in their own memory, and they do what the kernels of Encode do.    *)
(*                                                                         *)
(* First the notes of every program, instruction by instruction; then what *)
(* a kernel finds in memory, what its registers hold, and its steps.       *)
(***************************************************************************)
EXTENDS EncodeNotes, EncodeProofs

-----------------------------------------------------------------------------
(* The notes follow from the instructions.                                 *)

\* What the rules look at in sig.
LEMMA SigParts ==
  ASSUME NEW target
  PROVE  /\ Platform(sig(target)) = target /\ SixArgs(sig(target)) /\ Reversal(sig(target)) = revAt
         /\ Arg(sig(target), 1) = "data" /\ Arg(sig(target), 2) = "ctrl" /\ Arg(sig(target), 3) = "ints"
         /\ Arg(sig(target), 4) = "safe" /\ Arg(sig(target), 5) = "masks"
         /\ Arg(sig(target), 6) = "lens"
         /\ LoadsFrom(sig(target)) = "intsAt" /\ StoresTo(sig(target)) = "dataAt"
BY DEF sig, Platform, SixArgs, Reversal, Arg, LoadsFrom, StoresTo

\* The SSE program: its instructions, what they set, what from, and the notes.
LEMMA SSEOps ==
  /\ Size(SSE) = 23 /\ Loop(SSE) = 9 /\ Op(SSE, 1) = "arg" /\ Op(SSE, 2) = "arg"
  /\ Op(SSE, 3) = "arg" /\ Op(SSE, 4) = "arg" /\ Op(SSE, 5) = "arg" /\ Op(SSE, 6) = "arg"
  /\ Op(SSE, 7) = "set" /\ Op(SSE, 8) = "set" /\ Op(SSE, 9) = "jge" /\ Op(SSE, 10) = "byte"
  /\ Op(SSE, 11) = "sum" /\ Op(SSE, 12) = "shl4" /\ Op(SSE, 13) = "sum"
  /\ Op(SSE, 14) = "vload" /\ Op(SSE, 15) = "sum" /\ Op(SSE, 16) = "shl4"
  /\ Op(SSE, 17) = "vload" /\ Op(SSE, 18) = "PSHUFB" /\ Op(SSE, 19) = "vstore"
  /\ Op(SSE, 20) = "byte" /\ Op(SSE, 21) = "sum" /\ Op(SSE, 22) = "inc"
  /\ Op(SSE, 23) = "jmp"
BY DEF Op, Size, Loop, SSE, Program, LoadArgs, LoadArg, Set, Mov, Add, AddImm, Shl4,
       LoadByte, VLoad, VStore, VZero, Shuffle, JumpGE, JumpLoop

LEMMA SSEOuts ==
  /\ SSE.result = "R11" /\ Out(SSE, 1) = "DI" /\ Out(SSE, 2) = "SI" /\ Out(SSE, 3) = "DX"
  /\ Out(SSE, 4) = "CX" /\ Out(SSE, 5) = "R8" /\ Out(SSE, 6) = "R9" /\ Out(SSE, 7) = "R10"
  /\ Out(SSE, 8) = "R11" /\ Out(SSE, 9) = "none" /\ Out(SSE, 10) = "R12"
  /\ Out(SSE, 11) = "R13" /\ Out(SSE, 12) = "R13" /\ Out(SSE, 13) = "R13"
  /\ Out(SSE, 14) = "X1" /\ Out(SSE, 15) = "R14" /\ Out(SSE, 16) = "R14"
  /\ Out(SSE, 17) = "X0" /\ Out(SSE, 18) = "X0" /\ Out(SSE, 19) = "X0"
  /\ Out(SSE, 20) = "R15" /\ Out(SSE, 21) = "R11" /\ Out(SSE, 22) = "R10"
  /\ Out(SSE, 23) = "none"
BY DEF Out, SSE, Program, LoadArgs, LoadArg, Set, Mov, Add, AddImm, Shl4,
       LoadByte, VLoad, VStore, VZero, Shuffle, JumpGE, JumpLoop

LEMMA SSEIns ==
  /\ In(SSE, 1) = 1 /\ In(SSE, 2) = 2 /\ In(SSE, 3) = 3 /\ In(SSE, 4) = 4 /\ In(SSE, 5) = 5
  /\ In(SSE, 6) = 6 /\ In(SSE, 7) = 0 /\ In(SSE, 8) = 0 /\ In(SSE, 9) = Two("R10", "CX")
  /\ In(SSE, 10) = Two("SI", "R10") /\ In(SSE, 11) = One("R12") /\ In(SSE, 12) = One("R13")
  /\ In(SSE, 13) = Two("R8", "R13") /\ In(SSE, 14) = One("R13") /\ In(SSE, 15) = One("R10")
  /\ In(SSE, 16) = One("R14") /\ In(SSE, 17) = Two("DX", "R14")
  /\ In(SSE, 18) = Two("X1", "X0") /\ In(SSE, 19) = Two("DI", "R11")
  /\ In(SSE, 20) = Two("R9", "R12") /\ In(SSE, 21) = Two("R15", "R11") /\ In(SSE, 22) = 1
BY DEF In, One, Two, Three, SSE, Program, LoadArgs, LoadArg, Set, Mov, Add, AddImm, Shl4,
       LoadByte, VLoad, VStore, VZero, Shuffle, JumpGE, JumpLoop

LEMMA SSERoles ==
  /\ Role(notesSSE, 1) = "data" /\ Role(notesSSE, 2) = "ctrl" /\ Role(notesSSE, 3) = "ints"
  /\ Role(notesSSE, 4) = "safe" /\ Role(notesSSE, 5) = "masks"
  /\ Role(notesSSE, 6) = "lens" /\ Role(notesSSE, 7) = "g" /\ Role(notesSSE, 8) = "off"
  /\ Role(notesSSE, 9) = "none" /\ Role(notesSSE, 10) = "key" /\ Role(notesSSE, 11) = "key"
  /\ Role(notesSSE, 12) = "key16" /\ Role(notesSSE, 13) = "maskAt"
  /\ Role(notesSSE, 14) = "mask" /\ Role(notesSSE, 15) = "g" /\ Role(notesSSE, 16) = "g16"
  /\ Role(notesSSE, 17) = "vals" /\ Role(notesSSE, 18) = "out"
  /\ Role(notesSSE, 19) = "out" /\ Role(notesSSE, 20) = "len"
  /\ Role(notesSSE, 21) = "nextOff" /\ Role(notesSSE, 22) = "nextG"
  /\ Role(notesSSE, 23) = "none"
BY DEF Role, notesSSE

\* The registers that the loop of SSE leaves alone.
LEMMA SSEFixed ==
  \A m \in 9 .. 23 : Out(SSE, m) \notin {"DI", "SI", "DX", "CX", "R8", "R9"}
<1> TAKE m \in 9 .. 23
<1>1. m \in {9, 10, 11, 12, 13, 14, 15, 16, 17, 18, 19, 20, 21, 22, 23}
  OBVIOUS
<1> QED BY <1>1, SSEOuts

LEMMA SSEStores == \A m \in 1 .. 23 : Op(SSE, m) \in StoreOps <=> m = 19
<1> TAKE m \in 1 .. 23
<1>1. m \in {1, 2, 3, 4, 5, 6, 7, 8, 9, 10, 11, 12, 13, 14, 15, 16, 17, 18, 19, 20, 21, 22, 23}
  OBVIOUS
<1> QED BY <1>1, SSEOps DEF StoreOps

\* Every note of SSE follows.
LEMMA SSEAnnotated == Annotated(sig("amd64"), SSE, notesSSE)
<1> DEFINE J(i) == Justified(sig("amd64"), SSE, notesSSE, i)
           H(i, x, role) == Has(SSE, notesSSE, i, x, role)
           A(i, x, role) == After(SSE, notesSSE, i, x, role)
<1>1. J(1) /\ H(2, "DI", "data")
  <2>1. J(1)
    BY SSEOps, SSEIns, SSERoles, SigParts, ArgRule
  <2>2. A(1, "DI", "data")
    BY SSEOps, SSEOuts, SSERoles, Behind
  <2> QED BY <2>1, <2>2 DEF After
<1>2. J(2) /\ H(3, "DI", "data") /\ H(3, "SI", "ctrl")
  <2>1. J(2)
    BY SSEOps, SSEIns, SSERoles, SigParts, ArgRule
  <2>2. A(2, "DI", "data") /\ A(2, "SI", "ctrl")
    BY SSEOps, SSEOuts, SSERoles, <1>1, Behind
  <2> QED BY <2>1, <2>2 DEF After
<1>3. J(3) /\ H(4, "DI", "data") /\ H(4, "SI", "ctrl") /\ H(4, "DX", "ints")
  <2>1. J(3)
    BY SSEOps, SSEIns, SSERoles, SigParts, ArgRule
  <2>2. A(3, "DI", "data") /\ A(3, "SI", "ctrl") /\ A(3, "DX", "ints")
    BY SSEOps, SSEOuts, SSERoles, <1>2, Behind
  <2> QED BY <2>1, <2>2 DEF After
<1>4. /\ J(4)
      /\ H(5, "DI", "data") /\ H(5, "SI", "ctrl") /\ H(5, "DX", "ints")
      /\ H(5, "CX", "safe")
  <2>1. J(4)
    BY SSEOps, SSEIns, SSERoles, SigParts, ArgRule
  <2>2. /\ A(4, "DI", "data") /\ A(4, "SI", "ctrl") /\ A(4, "DX", "ints")
        /\ A(4, "CX", "safe")
    BY SSEOps, SSEOuts, SSERoles, <1>3, Behind
  <2> QED BY <2>1, <2>2 DEF After
<1>5. /\ J(5)
      /\ H(6, "DI", "data") /\ H(6, "SI", "ctrl") /\ H(6, "DX", "ints")
      /\ H(6, "CX", "safe") /\ H(6, "R8", "masks")
  <2>1. J(5)
    BY SSEOps, SSEIns, SSERoles, SigParts, ArgRule
  <2>2. /\ A(5, "DI", "data") /\ A(5, "SI", "ctrl") /\ A(5, "DX", "ints")
        /\ A(5, "CX", "safe") /\ A(5, "R8", "masks")
    BY SSEOps, SSEOuts, SSERoles, <1>4, Behind
  <2> QED BY <2>1, <2>2 DEF After
<1>6. /\ J(6)
      /\ H(7, "DI", "data") /\ H(7, "SI", "ctrl") /\ H(7, "DX", "ints")
      /\ H(7, "CX", "safe") /\ H(7, "R8", "masks") /\ H(7, "R9", "lens")
  <2>1. J(6)
    BY SSEOps, SSEIns, SSERoles, SigParts, ArgRule
  <2>2. /\ A(6, "DI", "data") /\ A(6, "SI", "ctrl") /\ A(6, "DX", "ints")
        /\ A(6, "CX", "safe") /\ A(6, "R8", "masks") /\ A(6, "R9", "lens")
    BY SSEOps, SSEOuts, SSERoles, <1>5, Behind
  <2> QED BY <2>1, <2>2 DEF After
<1>7. /\ J(7)
      /\ H(8, "DI", "data") /\ H(8, "SI", "ctrl") /\ H(8, "DX", "ints")
      /\ H(8, "CX", "safe") /\ H(8, "R8", "masks") /\ H(8, "R9", "lens")
      /\ H(8, "R10", "g")
  <2>1. J(7)
    BY SSEOps, SSEIns, SSERoles, SigParts, SetRule
  <2>2. /\ A(7, "DI", "data") /\ A(7, "SI", "ctrl") /\ A(7, "DX", "ints")
        /\ A(7, "CX", "safe") /\ A(7, "R8", "masks") /\ A(7, "R9", "lens")
        /\ A(7, "R10", "g")
    BY SSEOps, SSEOuts, SSERoles, <1>6, Behind
  <2> QED BY <2>1, <2>2 DEF After
<1>8. /\ J(8)
      /\ H(9, "DI", "data") /\ H(9, "SI", "ctrl") /\ H(9, "DX", "ints")
      /\ H(9, "CX", "safe") /\ H(9, "R8", "masks") /\ H(9, "R9", "lens")
      /\ H(9, "R10", "g") /\ H(9, "R11", "off")
  <2>1. J(8)
    BY SSEOps, SSEIns, SSERoles, SigParts, SetRule
  <2>2. /\ A(8, "DI", "data") /\ A(8, "SI", "ctrl") /\ A(8, "DX", "ints")
        /\ A(8, "CX", "safe") /\ A(8, "R8", "masks") /\ A(8, "R9", "lens")
        /\ A(8, "R10", "g") /\ A(8, "R11", "off")
    BY SSEOps, SSEOuts, SSERoles, <1>7, Behind, SSEFixed DEF Cursors, next
  <2> QED BY <2>1, <2>2 DEF After
<1>9. /\ J(9)
      /\ H(10, "DI", "data") /\ H(10, "SI", "ctrl") /\ H(10, "DX", "ints")
      /\ H(10, "R8", "masks") /\ H(10, "R9", "lens") /\ H(10, "R10", "g")
      /\ H(10, "R11", "off")
  <2>1. J(9)
    BY SSEOps, SSEIns, SSERoles, SSEOuts, <1>8, CompareRule
  <2>2. /\ A(9, "DI", "data") /\ A(9, "SI", "ctrl") /\ A(9, "DX", "ints")
        /\ A(9, "R8", "masks") /\ A(9, "R9", "lens") /\ A(9, "R10", "g")
        /\ A(9, "R11", "off")
    BY SSEOps, SSEOuts, SSERoles, <1>8, Behind
  <2> QED BY <2>1, <2>2 DEF After
<1>10. /\ J(10)
       /\ H(11, "DI", "data") /\ H(11, "DX", "ints") /\ H(11, "R8", "masks")
       /\ H(11, "R9", "lens") /\ H(11, "R10", "g") /\ H(11, "R11", "off")
       /\ H(11, "R12", "key")
  <2>1. J(10)
    BY SSEOps, SSEIns, SSERoles, <1>9, TwoAddUp, ByteRule DEF Sums
  <2>2. /\ A(10, "DI", "data") /\ A(10, "DX", "ints") /\ A(10, "R8", "masks")
        /\ A(10, "R9", "lens") /\ A(10, "R10", "g") /\ A(10, "R11", "off")
        /\ A(10, "R12", "key")
    BY SSEOps, SSEOuts, SSERoles, <1>9, Behind
  <2> QED BY <2>1, <2>2 DEF After
<1>11. /\ J(11)
       /\ H(12, "DI", "data") /\ H(12, "DX", "ints") /\ H(12, "R8", "masks")
       /\ H(12, "R9", "lens") /\ H(12, "R10", "g") /\ H(12, "R11", "off")
       /\ H(12, "R12", "key") /\ H(12, "R13", "key")
  <2>1. J(11)
    BY SSEOps, SSEIns, SSERoles, <1>10, OneAddsUp, SumRule
  <2>2. /\ A(11, "DI", "data") /\ A(11, "DX", "ints") /\ A(11, "R8", "masks")
        /\ A(11, "R9", "lens") /\ A(11, "R10", "g") /\ A(11, "R11", "off")
        /\ A(11, "R12", "key") /\ A(11, "R13", "key")
    BY SSEOps, SSEOuts, SSERoles, <1>10, Behind
  <2> QED BY <2>1, <2>2 DEF After
<1>12. /\ J(12)
       /\ H(13, "DI", "data") /\ H(13, "DX", "ints") /\ H(13, "R8", "masks")
       /\ H(13, "R9", "lens") /\ H(13, "R10", "g") /\ H(13, "R11", "off")
       /\ H(13, "R12", "key") /\ H(13, "R13", "key16")
  <2>1. J(12)
    BY SSEOps, SSEIns, SSERoles, <1>11, ScaleRule
  <2>2. /\ A(12, "DI", "data") /\ A(12, "DX", "ints") /\ A(12, "R8", "masks")
        /\ A(12, "R9", "lens") /\ A(12, "R10", "g") /\ A(12, "R11", "off")
        /\ A(12, "R12", "key") /\ A(12, "R13", "key16")
    BY SSEOps, SSEOuts, SSERoles, <1>11, Behind
  <2> QED BY <2>1, <2>2 DEF After
<1>13. /\ J(13)
       /\ H(14, "DI", "data") /\ H(14, "DX", "ints") /\ H(14, "R9", "lens")
       /\ H(14, "R10", "g") /\ H(14, "R11", "off") /\ H(14, "R12", "key")
       /\ H(14, "R13", "maskAt")
  <2>1. J(13)
    BY SSEOps, SSEIns, SSERoles, <1>12, TwoAddUp, SumRule DEF Sums
  <2>2. /\ A(13, "DI", "data") /\ A(13, "DX", "ints") /\ A(13, "R9", "lens")
        /\ A(13, "R10", "g") /\ A(13, "R11", "off") /\ A(13, "R12", "key")
        /\ A(13, "R13", "maskAt")
    BY SSEOps, SSEOuts, SSERoles, <1>12, Behind
  <2> QED BY <2>1, <2>2 DEF After
<1>14. /\ J(14)
       /\ H(15, "DI", "data") /\ H(15, "DX", "ints") /\ H(15, "R9", "lens")
       /\ H(15, "R10", "g") /\ H(15, "R11", "off") /\ H(15, "R12", "key")
       /\ H(15, "X1", "mask")
  <2>1. J(14)
    BY SSEOps, SSEIns, SSERoles, <1>13, SigParts, OneAddsUp, WideRule DEF isPPC
  <2>2. /\ A(14, "DI", "data") /\ A(14, "DX", "ints") /\ A(14, "R9", "lens")
        /\ A(14, "R10", "g") /\ A(14, "R11", "off") /\ A(14, "R12", "key")
        /\ A(14, "X1", "mask")
    BY SSEOps, SSEOuts, SSERoles, <1>13, Behind
  <2> QED BY <2>1, <2>2 DEF After
<1>15. /\ J(15)
       /\ H(16, "DI", "data") /\ H(16, "DX", "ints") /\ H(16, "R9", "lens")
       /\ H(16, "R10", "g") /\ H(16, "R11", "off") /\ H(16, "R12", "key")
       /\ H(16, "X1", "mask") /\ H(16, "R14", "g")
  <2>1. J(15)
    BY SSEOps, SSEIns, SSERoles, <1>14, OneAddsUp, SumRule
  <2>2. /\ A(15, "DI", "data") /\ A(15, "DX", "ints") /\ A(15, "R9", "lens")
        /\ A(15, "R10", "g") /\ A(15, "R11", "off") /\ A(15, "R12", "key")
        /\ A(15, "X1", "mask") /\ A(15, "R14", "g")
    BY SSEOps, SSEOuts, SSERoles, <1>14, Behind
  <2> QED BY <2>1, <2>2 DEF After
<1>16. /\ J(16)
       /\ H(17, "DI", "data") /\ H(17, "DX", "ints") /\ H(17, "R9", "lens")
       /\ H(17, "R10", "g") /\ H(17, "R11", "off") /\ H(17, "R12", "key")
       /\ H(17, "X1", "mask") /\ H(17, "R14", "g16")
  <2>1. J(16)
    BY SSEOps, SSEIns, SSERoles, <1>15, ScaleRule
  <2>2. /\ A(16, "DI", "data") /\ A(16, "DX", "ints") /\ A(16, "R9", "lens")
        /\ A(16, "R10", "g") /\ A(16, "R11", "off") /\ A(16, "R12", "key")
        /\ A(16, "X1", "mask") /\ A(16, "R14", "g16")
    BY SSEOps, SSEOuts, SSERoles, <1>15, Behind
  <2> QED BY <2>1, <2>2 DEF After
<1>17. /\ J(17)
       /\ H(18, "DI", "data") /\ H(18, "R9", "lens") /\ H(18, "R10", "g")
       /\ H(18, "R11", "off") /\ H(18, "R12", "key") /\ H(18, "X1", "mask")
       /\ H(18, "X0", "vals")
  <2>1. J(17)
    BY SSEOps, SSEIns, SSERoles, <1>16, SigParts, TwoAddUp, WideRule DEF Sums, isPPC
  <2>2. /\ A(17, "DI", "data") /\ A(17, "R9", "lens") /\ A(17, "R10", "g")
        /\ A(17, "R11", "off") /\ A(17, "R12", "key") /\ A(17, "X1", "mask")
        /\ A(17, "X0", "vals")
    BY SSEOps, SSEOuts, SSERoles, <1>16, Behind
  <2> QED BY <2>1, <2>2 DEF After
<1>18. /\ J(18)
       /\ H(19, "DI", "data") /\ H(19, "R9", "lens") /\ H(19, "R10", "g")
       /\ H(19, "R11", "off") /\ H(19, "R12", "key") /\ H(19, "X0", "out")
  <2>1. J(18)
    BY SSEOps, SSEIns, SSERoles, <1>17, SigParts, CombineRule DEF isPPC
  <2>2. /\ A(18, "DI", "data") /\ A(18, "R9", "lens") /\ A(18, "R10", "g")
        /\ A(18, "R11", "off") /\ A(18, "R12", "key") /\ A(18, "X0", "out")
    BY SSEOps, SSEOuts, SSERoles, <1>17, Behind
  <2> QED BY <2>1, <2>2 DEF After
<1>19. /\ J(19)
       /\ H(20, "R9", "lens") /\ H(20, "R10", "g") /\ H(20, "R11", "off")
       /\ H(20, "R12", "key")
  <2>1. ~Stored(SSE, 19)
    BY SSEStores DEF Stored, Op
  <2>2. J(19)
    BY SSEOps, SSEIns, SSERoles, SSEOuts, <1>18, <2>1, SigParts, TwoAddUp, StoreRule DEF Sums, isPPC
  <2>3. /\ A(19, "R9", "lens") /\ A(19, "R10", "g") /\ A(19, "R11", "off")
        /\ A(19, "R12", "key")
    BY SSEOps, SSEOuts, SSERoles, <1>18, Behind
  <2> QED BY <2>2, <2>3 DEF After
<1>20. J(20) /\ H(21, "R10", "g") /\ H(21, "R11", "off") /\ H(21, "R15", "len")
  <2>1. J(20)
    BY SSEOps, SSEIns, SSERoles, <1>19, TwoAddUp, ByteRule DEF Sums
  <2>2. A(20, "R10", "g") /\ A(20, "R11", "off") /\ A(20, "R15", "len")
    BY SSEOps, SSEOuts, SSERoles, <1>19, Behind
  <2> QED BY <2>1, <2>2 DEF After
<1>21. J(21) /\ H(22, "R10", "g") /\ H(22, "R11", "nextOff")
  <2>1. J(21)
    BY SSEOps, SSEIns, SSERoles, <1>20, TwoAddUp, SumRule DEF Sums
  <2>2. A(21, "R10", "g") /\ A(21, "R11", "nextOff")
    BY SSEOps, SSEOuts, SSERoles, <1>20, Behind
  <2> QED BY <2>1, <2>2 DEF After
<1>22. J(22) /\ H(23, "R11", "nextOff") /\ H(23, "R10", "nextG")
  <2>1. J(22)
    BY SSEOps, SSEIns, SSERoles, SSEOuts, <1>21, IncRule DEF next
  <2>2. A(22, "R11", "nextOff") /\ A(22, "R10", "nextG")
    BY SSEOps, SSEOuts, SSERoles, <1>21, Behind
  <2> QED BY <2>1, <2>2 DEF After
<1>23. J(23)
  <2>1. Stored(SSE, 23)
    BY SSEStores DEF Stored, Op
  <2>2. J(23)
    BY SSEOps, SSEIns, SSERoles, SSEOuts, <2>1, LoopRule
  <2> QED BY <2>2
<1>24. WellLooped(SSE, notesSSE)
  <2> SUFFICES ASSUME NEW k \in 1 .. 8, Live(SSE, notesSSE, k, 9)
               PROVE  \/ Role(notesSSE, k) \in Fixed
                      \/ /\ Role(notesSSE, k) \in Cursors
                         /\ H(23, Out(SSE, k), next[Role(notesSSE, k)])
    BY SSEOps DEF WellLooped, Role, Out, Loop, Size
  <2>1. k \in {1, 2, 3, 4, 5, 6, 7, 8}
    OBVIOUS
  <2> HIDE DEF H
  <2> QED BY SSEOuts, SSERoles, <1>22, <2>1 DEF Fixed, Cursors, next
<1>25. \A i \in 1 .. 23 : J(i)
  <2> TAKE i \in 1 .. 23
  <2>1. i \in {1, 2, 3, 4, 5, 6, 7, 8, 9, 10, 11, 12, 13, 14, 15, 16, 17, 18, 19, 20, 21, 22, 23}
    OBVIOUS
  <2> HIDE DEF J
  <2> QED BY <2>1, <1>1, <1>2, <1>3, <1>4, <1>5, <1>6, <1>7, <1>8, <1>9, <1>10, <1>11, <1>12, <1>13, <1>14, <1>15, <1>16, <1>17, <1>18, <1>19, <1>20, <1>21, <1>22, <1>23
<1> QED BY SSEOps, SSEOuts, <1>8, <1>24, <1>25 DEF Annotated, Size, Loop, Op

\* The NEON program: its instructions, what they set, what from, and the notes.
LEMMA NEONOps ==
  /\ Size(NEON) = 23 /\ Loop(NEON) = 9 /\ Op(NEON, 1) = "arg" /\ Op(NEON, 2) = "arg"
  /\ Op(NEON, 3) = "arg" /\ Op(NEON, 4) = "arg" /\ Op(NEON, 5) = "arg"
  /\ Op(NEON, 6) = "arg" /\ Op(NEON, 7) = "set" /\ Op(NEON, 8) = "set"
  /\ Op(NEON, 9) = "jge" /\ Op(NEON, 10) = "byte" /\ Op(NEON, 11) = "shl4"
  /\ Op(NEON, 12) = "sum" /\ Op(NEON, 13) = "vload" /\ Op(NEON, 14) = "shl4"
  /\ Op(NEON, 15) = "sum" /\ Op(NEON, 16) = "vload" /\ Op(NEON, 17) = "VTBL"
  /\ Op(NEON, 18) = "sum" /\ Op(NEON, 19) = "vstore" /\ Op(NEON, 20) = "byte"
  /\ Op(NEON, 21) = "sum" /\ Op(NEON, 22) = "inc" /\ Op(NEON, 23) = "jmp"
BY DEF Op, Size, Loop, NEON, Program, LoadArgs, LoadArg, Set, Mov, Add, AddImm, Shl4,
       LoadByte, VLoad, VStore, VZero, Shuffle, JumpGE, JumpLoop

LEMMA NEONOuts ==
  /\ NEON.result = "R7" /\ Out(NEON, 1) = "R0" /\ Out(NEON, 2) = "R1"
  /\ Out(NEON, 3) = "R2" /\ Out(NEON, 4) = "R3" /\ Out(NEON, 5) = "R4"
  /\ Out(NEON, 6) = "R5" /\ Out(NEON, 7) = "R6" /\ Out(NEON, 8) = "R7"
  /\ Out(NEON, 9) = "none" /\ Out(NEON, 10) = "R8" /\ Out(NEON, 11) = "R9"
  /\ Out(NEON, 12) = "R9" /\ Out(NEON, 13) = "V1" /\ Out(NEON, 14) = "R10"
  /\ Out(NEON, 15) = "R10" /\ Out(NEON, 16) = "V0" /\ Out(NEON, 17) = "V2"
  /\ Out(NEON, 18) = "R11" /\ Out(NEON, 19) = "V2" /\ Out(NEON, 20) = "R12"
  /\ Out(NEON, 21) = "R7" /\ Out(NEON, 22) = "R6" /\ Out(NEON, 23) = "none"
BY DEF Out, NEON, Program, LoadArgs, LoadArg, Set, Mov, Add, AddImm, Shl4,
       LoadByte, VLoad, VStore, VZero, Shuffle, JumpGE, JumpLoop

LEMMA NEONIns ==
  /\ In(NEON, 1) = 1 /\ In(NEON, 2) = 2 /\ In(NEON, 3) = 3 /\ In(NEON, 4) = 4
  /\ In(NEON, 5) = 5 /\ In(NEON, 6) = 6 /\ In(NEON, 7) = 0 /\ In(NEON, 8) = 0
  /\ In(NEON, 9) = Two("R6", "R3") /\ In(NEON, 10) = Two("R1", "R6")
  /\ In(NEON, 11) = One("R8") /\ In(NEON, 12) = Two("R4", "R9") /\ In(NEON, 13) = One("R9")
  /\ In(NEON, 14) = One("R6") /\ In(NEON, 15) = Two("R2", "R10")
  /\ In(NEON, 16) = One("R10") /\ In(NEON, 17) = Two("V1", "V0")
  /\ In(NEON, 18) = Two("R0", "R7") /\ In(NEON, 19) = One("R11")
  /\ In(NEON, 20) = Two("R5", "R8") /\ In(NEON, 21) = Two("R12", "R7") /\ In(NEON, 22) = 1
BY DEF In, One, Two, Three, NEON, Program, LoadArgs, LoadArg, Set, Mov, Add, AddImm, Shl4,
       LoadByte, VLoad, VStore, VZero, Shuffle, JumpGE, JumpLoop

LEMMA NEONRoles ==
  /\ Role(notesNEON, 1) = "data" /\ Role(notesNEON, 2) = "ctrl"
  /\ Role(notesNEON, 3) = "ints" /\ Role(notesNEON, 4) = "safe"
  /\ Role(notesNEON, 5) = "masks" /\ Role(notesNEON, 6) = "lens"
  /\ Role(notesNEON, 7) = "g" /\ Role(notesNEON, 8) = "off" /\ Role(notesNEON, 9) = "none"
  /\ Role(notesNEON, 10) = "key" /\ Role(notesNEON, 11) = "key16"
  /\ Role(notesNEON, 12) = "maskAt" /\ Role(notesNEON, 13) = "mask"
  /\ Role(notesNEON, 14) = "g16" /\ Role(notesNEON, 15) = "intsAt"
  /\ Role(notesNEON, 16) = "vals" /\ Role(notesNEON, 17) = "out"
  /\ Role(notesNEON, 18) = "dataAt" /\ Role(notesNEON, 19) = "out"
  /\ Role(notesNEON, 20) = "len" /\ Role(notesNEON, 21) = "nextOff"
  /\ Role(notesNEON, 22) = "nextG" /\ Role(notesNEON, 23) = "none"
BY DEF Role, notesNEON

\* The registers that the loop of NEON leaves alone.
LEMMA NEONFixed ==
  \A m \in 9 .. 23 : Out(NEON, m) \notin {"R0", "R1", "R2", "R3", "R4", "R5"}
<1> TAKE m \in 9 .. 23
<1>1. m \in {9, 10, 11, 12, 13, 14, 15, 16, 17, 18, 19, 20, 21, 22, 23}
  OBVIOUS
<1> QED BY <1>1, NEONOuts

LEMMA NEONStores == \A m \in 1 .. 23 : Op(NEON, m) \in StoreOps <=> m = 19
<1> TAKE m \in 1 .. 23
<1>1. m \in {1, 2, 3, 4, 5, 6, 7, 8, 9, 10, 11, 12, 13, 14, 15, 16, 17, 18, 19, 20, 21, 22, 23}
  OBVIOUS
<1> QED BY <1>1, NEONOps DEF StoreOps

\* Every note of NEON follows.
LEMMA NEONAnnotated == Annotated(sig("arm64"), NEON, notesNEON)
<1> DEFINE J(i) == Justified(sig("arm64"), NEON, notesNEON, i)
           H(i, x, role) == Has(NEON, notesNEON, i, x, role)
           A(i, x, role) == After(NEON, notesNEON, i, x, role)
<1>1. J(1) /\ H(2, "R0", "data")
  <2>1. J(1)
    BY NEONOps, NEONIns, NEONRoles, SigParts, ArgRule
  <2>2. A(1, "R0", "data")
    BY NEONOps, NEONOuts, NEONRoles, Behind
  <2> QED BY <2>1, <2>2 DEF After
<1>2. J(2) /\ H(3, "R0", "data") /\ H(3, "R1", "ctrl")
  <2>1. J(2)
    BY NEONOps, NEONIns, NEONRoles, SigParts, ArgRule
  <2>2. A(2, "R0", "data") /\ A(2, "R1", "ctrl")
    BY NEONOps, NEONOuts, NEONRoles, <1>1, Behind
  <2> QED BY <2>1, <2>2 DEF After
<1>3. J(3) /\ H(4, "R0", "data") /\ H(4, "R1", "ctrl") /\ H(4, "R2", "ints")
  <2>1. J(3)
    BY NEONOps, NEONIns, NEONRoles, SigParts, ArgRule
  <2>2. A(3, "R0", "data") /\ A(3, "R1", "ctrl") /\ A(3, "R2", "ints")
    BY NEONOps, NEONOuts, NEONRoles, <1>2, Behind
  <2> QED BY <2>1, <2>2 DEF After
<1>4. /\ J(4)
      /\ H(5, "R0", "data") /\ H(5, "R1", "ctrl") /\ H(5, "R2", "ints")
      /\ H(5, "R3", "safe")
  <2>1. J(4)
    BY NEONOps, NEONIns, NEONRoles, SigParts, ArgRule
  <2>2. /\ A(4, "R0", "data") /\ A(4, "R1", "ctrl") /\ A(4, "R2", "ints")
        /\ A(4, "R3", "safe")
    BY NEONOps, NEONOuts, NEONRoles, <1>3, Behind
  <2> QED BY <2>1, <2>2 DEF After
<1>5. /\ J(5)
      /\ H(6, "R0", "data") /\ H(6, "R1", "ctrl") /\ H(6, "R2", "ints")
      /\ H(6, "R3", "safe") /\ H(6, "R4", "masks")
  <2>1. J(5)
    BY NEONOps, NEONIns, NEONRoles, SigParts, ArgRule
  <2>2. /\ A(5, "R0", "data") /\ A(5, "R1", "ctrl") /\ A(5, "R2", "ints")
        /\ A(5, "R3", "safe") /\ A(5, "R4", "masks")
    BY NEONOps, NEONOuts, NEONRoles, <1>4, Behind
  <2> QED BY <2>1, <2>2 DEF After
<1>6. /\ J(6)
      /\ H(7, "R0", "data") /\ H(7, "R1", "ctrl") /\ H(7, "R2", "ints")
      /\ H(7, "R3", "safe") /\ H(7, "R4", "masks") /\ H(7, "R5", "lens")
  <2>1. J(6)
    BY NEONOps, NEONIns, NEONRoles, SigParts, ArgRule
  <2>2. /\ A(6, "R0", "data") /\ A(6, "R1", "ctrl") /\ A(6, "R2", "ints")
        /\ A(6, "R3", "safe") /\ A(6, "R4", "masks") /\ A(6, "R5", "lens")
    BY NEONOps, NEONOuts, NEONRoles, <1>5, Behind
  <2> QED BY <2>1, <2>2 DEF After
<1>7. /\ J(7)
      /\ H(8, "R0", "data") /\ H(8, "R1", "ctrl") /\ H(8, "R2", "ints")
      /\ H(8, "R3", "safe") /\ H(8, "R4", "masks") /\ H(8, "R5", "lens")
      /\ H(8, "R6", "g")
  <2>1. J(7)
    BY NEONOps, NEONIns, NEONRoles, SigParts, SetRule
  <2>2. /\ A(7, "R0", "data") /\ A(7, "R1", "ctrl") /\ A(7, "R2", "ints")
        /\ A(7, "R3", "safe") /\ A(7, "R4", "masks") /\ A(7, "R5", "lens")
        /\ A(7, "R6", "g")
    BY NEONOps, NEONOuts, NEONRoles, <1>6, Behind
  <2> QED BY <2>1, <2>2 DEF After
<1>8. /\ J(8)
      /\ H(9, "R0", "data") /\ H(9, "R1", "ctrl") /\ H(9, "R2", "ints")
      /\ H(9, "R3", "safe") /\ H(9, "R4", "masks") /\ H(9, "R5", "lens")
      /\ H(9, "R6", "g") /\ H(9, "R7", "off")
  <2>1. J(8)
    BY NEONOps, NEONIns, NEONRoles, SigParts, SetRule
  <2>2. /\ A(8, "R0", "data") /\ A(8, "R1", "ctrl") /\ A(8, "R2", "ints")
        /\ A(8, "R3", "safe") /\ A(8, "R4", "masks") /\ A(8, "R5", "lens")
        /\ A(8, "R6", "g") /\ A(8, "R7", "off")
    BY NEONOps, NEONOuts, NEONRoles, <1>7, Behind, NEONFixed DEF Cursors, next
  <2> QED BY <2>1, <2>2 DEF After
<1>9. /\ J(9)
      /\ H(10, "R0", "data") /\ H(10, "R1", "ctrl") /\ H(10, "R2", "ints")
      /\ H(10, "R4", "masks") /\ H(10, "R5", "lens") /\ H(10, "R6", "g")
      /\ H(10, "R7", "off")
  <2>1. J(9)
    BY NEONOps, NEONIns, NEONRoles, NEONOuts, <1>8, CompareRule
  <2>2. /\ A(9, "R0", "data") /\ A(9, "R1", "ctrl") /\ A(9, "R2", "ints")
        /\ A(9, "R4", "masks") /\ A(9, "R5", "lens") /\ A(9, "R6", "g")
        /\ A(9, "R7", "off")
    BY NEONOps, NEONOuts, NEONRoles, <1>8, Behind
  <2> QED BY <2>1, <2>2 DEF After
<1>10. /\ J(10)
       /\ H(11, "R0", "data") /\ H(11, "R2", "ints") /\ H(11, "R4", "masks")
       /\ H(11, "R5", "lens") /\ H(11, "R6", "g") /\ H(11, "R7", "off")
       /\ H(11, "R8", "key")
  <2>1. J(10)
    BY NEONOps, NEONIns, NEONRoles, <1>9, TwoAddUp, ByteRule DEF Sums
  <2>2. /\ A(10, "R0", "data") /\ A(10, "R2", "ints") /\ A(10, "R4", "masks")
        /\ A(10, "R5", "lens") /\ A(10, "R6", "g") /\ A(10, "R7", "off")
        /\ A(10, "R8", "key")
    BY NEONOps, NEONOuts, NEONRoles, <1>9, Behind
  <2> QED BY <2>1, <2>2 DEF After
<1>11. /\ J(11)
       /\ H(12, "R0", "data") /\ H(12, "R2", "ints") /\ H(12, "R4", "masks")
       /\ H(12, "R5", "lens") /\ H(12, "R6", "g") /\ H(12, "R7", "off")
       /\ H(12, "R8", "key") /\ H(12, "R9", "key16")
  <2>1. J(11)
    BY NEONOps, NEONIns, NEONRoles, <1>10, ScaleRule
  <2>2. /\ A(11, "R0", "data") /\ A(11, "R2", "ints") /\ A(11, "R4", "masks")
        /\ A(11, "R5", "lens") /\ A(11, "R6", "g") /\ A(11, "R7", "off")
        /\ A(11, "R8", "key") /\ A(11, "R9", "key16")
    BY NEONOps, NEONOuts, NEONRoles, <1>10, Behind
  <2> QED BY <2>1, <2>2 DEF After
<1>12. /\ J(12)
       /\ H(13, "R0", "data") /\ H(13, "R2", "ints") /\ H(13, "R5", "lens")
       /\ H(13, "R6", "g") /\ H(13, "R7", "off") /\ H(13, "R8", "key")
       /\ H(13, "R9", "maskAt")
  <2>1. J(12)
    BY NEONOps, NEONIns, NEONRoles, <1>11, TwoAddUp, SumRule DEF Sums
  <2>2. /\ A(12, "R0", "data") /\ A(12, "R2", "ints") /\ A(12, "R5", "lens")
        /\ A(12, "R6", "g") /\ A(12, "R7", "off") /\ A(12, "R8", "key")
        /\ A(12, "R9", "maskAt")
    BY NEONOps, NEONOuts, NEONRoles, <1>11, Behind
  <2> QED BY <2>1, <2>2 DEF After
<1>13. /\ J(13)
       /\ H(14, "R0", "data") /\ H(14, "R2", "ints") /\ H(14, "R5", "lens")
       /\ H(14, "R6", "g") /\ H(14, "R7", "off") /\ H(14, "R8", "key")
       /\ H(14, "V1", "mask")
  <2>1. J(13)
    BY NEONOps, NEONIns, NEONRoles, <1>12, SigParts, OneAddsUp, WideRule DEF isPPC
  <2>2. /\ A(13, "R0", "data") /\ A(13, "R2", "ints") /\ A(13, "R5", "lens")
        /\ A(13, "R6", "g") /\ A(13, "R7", "off") /\ A(13, "R8", "key")
        /\ A(13, "V1", "mask")
    BY NEONOps, NEONOuts, NEONRoles, <1>12, Behind
  <2> QED BY <2>1, <2>2 DEF After
<1>14. /\ J(14)
       /\ H(15, "R0", "data") /\ H(15, "R2", "ints") /\ H(15, "R5", "lens")
       /\ H(15, "R6", "g") /\ H(15, "R7", "off") /\ H(15, "R8", "key")
       /\ H(15, "V1", "mask") /\ H(15, "R10", "g16")
  <2>1. J(14)
    BY NEONOps, NEONIns, NEONRoles, <1>13, ScaleRule
  <2>2. /\ A(14, "R0", "data") /\ A(14, "R2", "ints") /\ A(14, "R5", "lens")
        /\ A(14, "R6", "g") /\ A(14, "R7", "off") /\ A(14, "R8", "key")
        /\ A(14, "V1", "mask") /\ A(14, "R10", "g16")
    BY NEONOps, NEONOuts, NEONRoles, <1>13, Behind
  <2> QED BY <2>1, <2>2 DEF After
<1>15. /\ J(15)
       /\ H(16, "R0", "data") /\ H(16, "R5", "lens") /\ H(16, "R6", "g")
       /\ H(16, "R7", "off") /\ H(16, "R8", "key") /\ H(16, "V1", "mask")
       /\ H(16, "R10", "intsAt")
  <2>1. J(15)
    BY NEONOps, NEONIns, NEONRoles, <1>14, TwoAddUp, SumRule DEF Sums
  <2>2. /\ A(15, "R0", "data") /\ A(15, "R5", "lens") /\ A(15, "R6", "g")
        /\ A(15, "R7", "off") /\ A(15, "R8", "key") /\ A(15, "V1", "mask")
        /\ A(15, "R10", "intsAt")
    BY NEONOps, NEONOuts, NEONRoles, <1>14, Behind
  <2> QED BY <2>1, <2>2 DEF After
<1>16. /\ J(16)
       /\ H(17, "R0", "data") /\ H(17, "R5", "lens") /\ H(17, "R6", "g")
       /\ H(17, "R7", "off") /\ H(17, "R8", "key") /\ H(17, "V1", "mask")
       /\ H(17, "V0", "vals")
  <2>1. J(16)
    BY NEONOps, NEONIns, NEONRoles, <1>15, SigParts, OneAddsUp, WideRule DEF isPPC
  <2>2. /\ A(16, "R0", "data") /\ A(16, "R5", "lens") /\ A(16, "R6", "g")
        /\ A(16, "R7", "off") /\ A(16, "R8", "key") /\ A(16, "V1", "mask")
        /\ A(16, "V0", "vals")
    BY NEONOps, NEONOuts, NEONRoles, <1>15, Behind
  <2> QED BY <2>1, <2>2 DEF After
<1>17. /\ J(17)
       /\ H(18, "R0", "data") /\ H(18, "R5", "lens") /\ H(18, "R6", "g")
       /\ H(18, "R7", "off") /\ H(18, "R8", "key") /\ H(18, "V2", "out")
  <2>1. J(17)
    BY NEONOps, NEONIns, NEONRoles, <1>16, SigParts, CombineRule DEF isPPC
  <2>2. /\ A(17, "R0", "data") /\ A(17, "R5", "lens") /\ A(17, "R6", "g")
        /\ A(17, "R7", "off") /\ A(17, "R8", "key") /\ A(17, "V2", "out")
    BY NEONOps, NEONOuts, NEONRoles, <1>16, Behind
  <2> QED BY <2>1, <2>2 DEF After
<1>18. /\ J(18)
       /\ H(19, "R5", "lens") /\ H(19, "R6", "g") /\ H(19, "R7", "off")
       /\ H(19, "R8", "key") /\ H(19, "V2", "out") /\ H(19, "R11", "dataAt")
  <2>1. J(18)
    BY NEONOps, NEONIns, NEONRoles, <1>17, TwoAddUp, SumRule DEF Sums
  <2>2. /\ A(18, "R5", "lens") /\ A(18, "R6", "g") /\ A(18, "R7", "off")
        /\ A(18, "R8", "key") /\ A(18, "V2", "out") /\ A(18, "R11", "dataAt")
    BY NEONOps, NEONOuts, NEONRoles, <1>17, Behind
  <2> QED BY <2>1, <2>2 DEF After
<1>19. /\ J(19)
       /\ H(20, "R5", "lens") /\ H(20, "R6", "g") /\ H(20, "R7", "off")
       /\ H(20, "R8", "key")
  <2>1. ~Stored(NEON, 19)
    BY NEONStores DEF Stored, Op
  <2>2. J(19)
    BY NEONOps, NEONIns, NEONRoles, NEONOuts, <1>18, <2>1, SigParts, OneAddsUp, StoreRule DEF isPPC
  <2>3. /\ A(19, "R5", "lens") /\ A(19, "R6", "g") /\ A(19, "R7", "off")
        /\ A(19, "R8", "key")
    BY NEONOps, NEONOuts, NEONRoles, <1>18, Behind
  <2> QED BY <2>2, <2>3 DEF After
<1>20. J(20) /\ H(21, "R6", "g") /\ H(21, "R7", "off") /\ H(21, "R12", "len")
  <2>1. J(20)
    BY NEONOps, NEONIns, NEONRoles, <1>19, TwoAddUp, ByteRule DEF Sums
  <2>2. A(20, "R6", "g") /\ A(20, "R7", "off") /\ A(20, "R12", "len")
    BY NEONOps, NEONOuts, NEONRoles, <1>19, Behind
  <2> QED BY <2>1, <2>2 DEF After
<1>21. J(21) /\ H(22, "R6", "g") /\ H(22, "R7", "nextOff")
  <2>1. J(21)
    BY NEONOps, NEONIns, NEONRoles, <1>20, TwoAddUp, SumRule DEF Sums
  <2>2. A(21, "R6", "g") /\ A(21, "R7", "nextOff")
    BY NEONOps, NEONOuts, NEONRoles, <1>20, Behind
  <2> QED BY <2>1, <2>2 DEF After
<1>22. J(22) /\ H(23, "R7", "nextOff") /\ H(23, "R6", "nextG")
  <2>1. J(22)
    BY NEONOps, NEONIns, NEONRoles, NEONOuts, <1>21, IncRule DEF next
  <2>2. A(22, "R7", "nextOff") /\ A(22, "R6", "nextG")
    BY NEONOps, NEONOuts, NEONRoles, <1>21, Behind
  <2> QED BY <2>1, <2>2 DEF After
<1>23. J(23)
  <2>1. Stored(NEON, 23)
    BY NEONStores DEF Stored, Op
  <2>2. J(23)
    BY NEONOps, NEONIns, NEONRoles, NEONOuts, <2>1, LoopRule
  <2> QED BY <2>2
<1>24. WellLooped(NEON, notesNEON)
  <2> SUFFICES ASSUME NEW k \in 1 .. 8, Live(NEON, notesNEON, k, 9)
               PROVE  \/ Role(notesNEON, k) \in Fixed
                      \/ /\ Role(notesNEON, k) \in Cursors
                         /\ H(23, Out(NEON, k), next[Role(notesNEON, k)])
    BY NEONOps DEF WellLooped, Role, Out, Loop, Size
  <2>1. k \in {1, 2, 3, 4, 5, 6, 7, 8}
    OBVIOUS
  <2> HIDE DEF H
  <2> QED BY NEONOuts, NEONRoles, <1>22, <2>1 DEF Fixed, Cursors, next
<1>25. \A i \in 1 .. 23 : J(i)
  <2> TAKE i \in 1 .. 23
  <2>1. i \in {1, 2, 3, 4, 5, 6, 7, 8, 9, 10, 11, 12, 13, 14, 15, 16, 17, 18, 19, 20, 21, 22, 23}
    OBVIOUS
  <2> HIDE DEF J
  <2> QED BY <2>1, <1>1, <1>2, <1>3, <1>4, <1>5, <1>6, <1>7, <1>8, <1>9, <1>10, <1>11, <1>12, <1>13, <1>14, <1>15, <1>16, <1>17, <1>18, <1>19, <1>20, <1>21, <1>22, <1>23
<1> QED BY NEONOps, NEONOuts, <1>8, <1>24, <1>25 DEF Annotated, Size, Loop, Op

\* The VSX program: its instructions, what they set, what from, and the notes.
LEMMA VSXOps ==
  /\ Size(VSX) = 31 /\ Loop(VSX) = 12 /\ Op(VSX, 1) = "arg" /\ Op(VSX, 2) = "arg"
  /\ Op(VSX, 3) = "arg" /\ Op(VSX, 4) = "arg" /\ Op(VSX, 5) = "arg" /\ Op(VSX, 6) = "arg"
  /\ Op(VSX, 7) = "set" /\ Op(VSX, 8) = "set" /\ Op(VSX, 9) = "vzero"
  /\ Op(VSX, 10) = "set" /\ Op(VSX, 11) = "LXVD2X" /\ Op(VSX, 12) = "jge"
  /\ Op(VSX, 13) = "sum" /\ Op(VSX, 14) = "byte" /\ Op(VSX, 15) = "shl4"
  /\ Op(VSX, 16) = "sum" /\ Op(VSX, 17) = "LXVD2X" /\ Op(VSX, 18) = "VPERM"
  /\ Op(VSX, 19) = "shl4" /\ Op(VSX, 20) = "sum" /\ Op(VSX, 21) = "LXVD2X"
  /\ Op(VSX, 22) = "VPERM" /\ Op(VSX, 23) = "VPERM" /\ Op(VSX, 24) = "sum"
  /\ Op(VSX, 25) = "VPERM" /\ Op(VSX, 26) = "STXVD2X" /\ Op(VSX, 27) = "sum"
  /\ Op(VSX, 28) = "byte" /\ Op(VSX, 29) = "sum" /\ Op(VSX, 30) = "inc"
  /\ Op(VSX, 31) = "jmp"
BY SMTT(40) DEF Op, Size, Loop, VSX, Program, LoadArgs, LoadArg, Set, Mov, Add, AddImm, Shl4,
       LoadByte, VLoad, VStore, VZero, Shuffle, JumpGE, JumpLoop, LXVD2XOf, STXVD2XOf, VMX,
       emitLoadB16, emitStoreB16

LEMMA VSXOuts ==
  /\ VSX.result = "R10" /\ Out(VSX, 1) = "R3" /\ Out(VSX, 2) = "R4" /\ Out(VSX, 3) = "R5"
  /\ Out(VSX, 4) = "R6" /\ Out(VSX, 5) = "R7" /\ Out(VSX, 6) = "R8" /\ Out(VSX, 7) = "R9"
  /\ Out(VSX, 8) = "R10" /\ Out(VSX, 9) = "V2" /\ Out(VSX, 10) = "R11"
  /\ Out(VSX, 11) = "V31" /\ Out(VSX, 12) = "none" /\ Out(VSX, 13) = "R11"
  /\ Out(VSX, 14) = "R12" /\ Out(VSX, 15) = "R14" /\ Out(VSX, 16) = "R14"
  /\ Out(VSX, 17) = "V1" /\ Out(VSX, 18) = "V1" /\ Out(VSX, 19) = "R15"
  /\ Out(VSX, 20) = "R15" /\ Out(VSX, 21) = "V0" /\ Out(VSX, 22) = "V0"
  /\ Out(VSX, 23) = "V3" /\ Out(VSX, 24) = "R16" /\ Out(VSX, 25) = "V30"
  /\ Out(VSX, 26) = "V30" /\ Out(VSX, 27) = "R17" /\ Out(VSX, 28) = "R18"
  /\ Out(VSX, 29) = "R10" /\ Out(VSX, 30) = "R9" /\ Out(VSX, 31) = "none"
BY DEF Out, VSX, Program, LoadArgs, LoadArg, Set, Mov, Add, AddImm, Shl4,
       LoadByte, VLoad, VStore, VZero, Shuffle, JumpGE, JumpLoop, LXVD2XOf, STXVD2XOf, VMX,
       emitLoadB16, emitStoreB16

LEMMA VSXIns ==
  /\ In(VSX, 1) = 1 /\ In(VSX, 2) = 2 /\ In(VSX, 3) = 3 /\ In(VSX, 4) = 4 /\ In(VSX, 5) = 5
  /\ In(VSX, 6) = 6 /\ In(VSX, 7) = 0 /\ In(VSX, 8) = 0 /\ In(VSX, 10) = revAt
  /\ In(VSX, 11) = One("R11") /\ In(VSX, 12) = Two("R9", "R6")
  /\ In(VSX, 13) = Two("R4", "R9") /\ In(VSX, 14) = One("R11") /\ In(VSX, 15) = One("R12")
  /\ In(VSX, 16) = Two("R7", "R14") /\ In(VSX, 17) = One("R14")
  /\ In(VSX, 18) = Three("V1", "V1", "V31") /\ In(VSX, 19) = One("R9")
  /\ In(VSX, 20) = Two("R5", "R15") /\ In(VSX, 21) = One("R15")
  /\ In(VSX, 22) = Three("V0", "V0", "V31") /\ In(VSX, 23) = Three("V0", "V2", "V1")
  /\ In(VSX, 24) = Two("R3", "R10") /\ In(VSX, 25) = Three("V3", "V3", "V31")
  /\ In(VSX, 26) = One("R16") /\ In(VSX, 27) = Two("R8", "R12") /\ In(VSX, 28) = One("R17")
  /\ In(VSX, 29) = Two("R10", "R18") /\ In(VSX, 30) = 1
BY SMTT(40) DEF In, One, Two, Three, VSX, Program, LoadArgs, LoadArg, Set, Mov, Add, AddImm, Shl4,
       LoadByte, VLoad, VStore, VZero, Shuffle, JumpGE, JumpLoop, LXVD2XOf, STXVD2XOf, VMX,
       emitLoadB16, emitStoreB16

LEMMA VSXRoles ==
  /\ Role(notesVSX, 1) = "data" /\ Role(notesVSX, 2) = "ctrl" /\ Role(notesVSX, 3) = "ints"
  /\ Role(notesVSX, 4) = "safe" /\ Role(notesVSX, 5) = "masks"
  /\ Role(notesVSX, 6) = "lens" /\ Role(notesVSX, 7) = "g" /\ Role(notesVSX, 8) = "off"
  /\ Role(notesVSX, 9) = "zero" /\ Role(notesVSX, 10) = "revAt"
  /\ Role(notesVSX, 11) = "rev" /\ Role(notesVSX, 12) = "none"
  /\ Role(notesVSX, 13) = "ctrlAt" /\ Role(notesVSX, 14) = "key"
  /\ Role(notesVSX, 15) = "key16" /\ Role(notesVSX, 16) = "maskAt"
  /\ Role(notesVSX, 17) = "rawMask" /\ Role(notesVSX, 18) = "mask"
  /\ Role(notesVSX, 19) = "g16" /\ Role(notesVSX, 20) = "intsAt"
  /\ Role(notesVSX, 21) = "rawVals" /\ Role(notesVSX, 22) = "vals"
  /\ Role(notesVSX, 23) = "out" /\ Role(notesVSX, 24) = "dataAt"
  /\ Role(notesVSX, 25) = "rawOut" /\ Role(notesVSX, 26) = "rawOut"
  /\ Role(notesVSX, 27) = "lenAt" /\ Role(notesVSX, 28) = "len"
  /\ Role(notesVSX, 29) = "nextOff" /\ Role(notesVSX, 30) = "nextG"
  /\ Role(notesVSX, 31) = "none"
BY DEF Role, notesVSX

\* The registers that the loop of VSX leaves alone.
LEMMA VSXFixed ==
  \A m \in 12 .. 31 : Out(VSX, m) \notin {"R3", "R4", "R5", "R6", "R7", "R8", "V2", "V31"}
<1> TAKE m \in 12 .. 31
<1>1. m \in {12, 13, 14, 15, 16, 17, 18, 19, 20, 21, 22, 23, 24, 25, 26, 27, 28, 29, 30, 31}
  OBVIOUS
<1> QED BY <1>1, VSXOuts

LEMMA VSXStores == \A m \in 1 .. 31 : Op(VSX, m) \in StoreOps <=> m = 26
<1> TAKE m \in 1 .. 31
<1>1. m \in {1, 2, 3, 4, 5, 6, 7, 8, 9, 10, 11, 12, 13, 14, 15, 16, 17, 18, 19, 20, 21, 22, 23, 24, 25, 26, 27, 28, 29, 30, 31}
  OBVIOUS
<1> QED BY <1>1, VSXOps DEF StoreOps

\* Every note of VSX follows.
LEMMA VSXAnnotated == Annotated(sig("power9"), VSX, notesVSX)
<1> DEFINE J(i) == Justified(sig("power9"), VSX, notesVSX, i)
           H(i, x, role) == Has(VSX, notesVSX, i, x, role)
           A(i, x, role) == After(VSX, notesVSX, i, x, role)
<1>1. J(1) /\ H(2, "R3", "data")
  <2>1. J(1)
    BY VSXOps, VSXIns, VSXRoles, SigParts, ArgRule
  <2>2. A(1, "R3", "data")
    BY VSXOps, VSXOuts, VSXRoles, Behind
  <2> QED BY <2>1, <2>2 DEF After
<1>2. J(2) /\ H(3, "R3", "data") /\ H(3, "R4", "ctrl")
  <2>1. J(2)
    BY VSXOps, VSXIns, VSXRoles, SigParts, ArgRule
  <2>2. A(2, "R3", "data") /\ A(2, "R4", "ctrl")
    BY VSXOps, VSXOuts, VSXRoles, <1>1, Behind
  <2> QED BY <2>1, <2>2 DEF After
<1>3. J(3) /\ H(4, "R3", "data") /\ H(4, "R4", "ctrl") /\ H(4, "R5", "ints")
  <2>1. J(3)
    BY VSXOps, VSXIns, VSXRoles, SigParts, ArgRule
  <2>2. A(3, "R3", "data") /\ A(3, "R4", "ctrl") /\ A(3, "R5", "ints")
    BY VSXOps, VSXOuts, VSXRoles, <1>2, Behind
  <2> QED BY <2>1, <2>2 DEF After
<1>4. /\ J(4)
      /\ H(5, "R3", "data") /\ H(5, "R4", "ctrl") /\ H(5, "R5", "ints")
      /\ H(5, "R6", "safe")
  <2>1. J(4)
    BY VSXOps, VSXIns, VSXRoles, SigParts, ArgRule
  <2>2. /\ A(4, "R3", "data") /\ A(4, "R4", "ctrl") /\ A(4, "R5", "ints")
        /\ A(4, "R6", "safe")
    BY VSXOps, VSXOuts, VSXRoles, <1>3, Behind
  <2> QED BY <2>1, <2>2 DEF After
<1>5. /\ J(5)
      /\ H(6, "R3", "data") /\ H(6, "R4", "ctrl") /\ H(6, "R5", "ints")
      /\ H(6, "R6", "safe") /\ H(6, "R7", "masks")
  <2>1. J(5)
    BY VSXOps, VSXIns, VSXRoles, SigParts, ArgRule
  <2>2. /\ A(5, "R3", "data") /\ A(5, "R4", "ctrl") /\ A(5, "R5", "ints")
        /\ A(5, "R6", "safe") /\ A(5, "R7", "masks")
    BY VSXOps, VSXOuts, VSXRoles, <1>4, Behind
  <2> QED BY <2>1, <2>2 DEF After
<1>6. /\ J(6)
      /\ H(7, "R3", "data") /\ H(7, "R4", "ctrl") /\ H(7, "R5", "ints")
      /\ H(7, "R6", "safe") /\ H(7, "R7", "masks") /\ H(7, "R8", "lens")
  <2>1. J(6)
    BY VSXOps, VSXIns, VSXRoles, SigParts, ArgRule
  <2>2. /\ A(6, "R3", "data") /\ A(6, "R4", "ctrl") /\ A(6, "R5", "ints")
        /\ A(6, "R6", "safe") /\ A(6, "R7", "masks") /\ A(6, "R8", "lens")
    BY VSXOps, VSXOuts, VSXRoles, <1>5, Behind
  <2> QED BY <2>1, <2>2 DEF After
<1>7. /\ J(7)
      /\ H(8, "R3", "data") /\ H(8, "R4", "ctrl") /\ H(8, "R5", "ints")
      /\ H(8, "R6", "safe") /\ H(8, "R7", "masks") /\ H(8, "R8", "lens")
      /\ H(8, "R9", "g")
  <2>1. J(7)
    BY VSXOps, VSXIns, VSXRoles, SigParts, SetRule
  <2>2. /\ A(7, "R3", "data") /\ A(7, "R4", "ctrl") /\ A(7, "R5", "ints")
        /\ A(7, "R6", "safe") /\ A(7, "R7", "masks") /\ A(7, "R8", "lens")
        /\ A(7, "R9", "g")
    BY VSXOps, VSXOuts, VSXRoles, <1>6, Behind
  <2> QED BY <2>1, <2>2 DEF After
<1>8. /\ J(8)
      /\ H(9, "R3", "data") /\ H(9, "R4", "ctrl") /\ H(9, "R5", "ints")
      /\ H(9, "R6", "safe") /\ H(9, "R7", "masks") /\ H(9, "R8", "lens")
      /\ H(9, "R9", "g") /\ H(9, "R10", "off")
  <2>1. J(8)
    BY VSXOps, VSXIns, VSXRoles, SigParts, SetRule
  <2>2. /\ A(8, "R3", "data") /\ A(8, "R4", "ctrl") /\ A(8, "R5", "ints")
        /\ A(8, "R6", "safe") /\ A(8, "R7", "masks") /\ A(8, "R8", "lens")
        /\ A(8, "R9", "g") /\ A(8, "R10", "off")
    BY VSXOps, VSXOuts, VSXRoles, <1>7, Behind
  <2> QED BY <2>1, <2>2 DEF After
<1>9. /\ J(9)
      /\ H(10, "R3", "data") /\ H(10, "R4", "ctrl") /\ H(10, "R5", "ints")
      /\ H(10, "R6", "safe") /\ H(10, "R7", "masks") /\ H(10, "R8", "lens")
      /\ H(10, "R9", "g") /\ H(10, "R10", "off") /\ H(10, "V2", "zero")
  <2>1. J(9)
    BY VSXOps, VSXIns, VSXRoles, ZeroRule
  <2>2. /\ A(9, "R3", "data") /\ A(9, "R4", "ctrl") /\ A(9, "R5", "ints")
        /\ A(9, "R6", "safe") /\ A(9, "R7", "masks") /\ A(9, "R8", "lens")
        /\ A(9, "R9", "g") /\ A(9, "R10", "off") /\ A(9, "V2", "zero")
    BY VSXOps, VSXOuts, VSXRoles, <1>8, Behind
  <2> QED BY <2>1, <2>2 DEF After
<1>10. /\ J(10)
       /\ H(11, "R3", "data") /\ H(11, "R4", "ctrl") /\ H(11, "R5", "ints")
       /\ H(11, "R6", "safe") /\ H(11, "R7", "masks") /\ H(11, "R8", "lens")
       /\ H(11, "R9", "g") /\ H(11, "R10", "off") /\ H(11, "V2", "zero")
       /\ H(11, "R11", "revAt")
  <2>1. J(10)
    BY VSXOps, VSXIns, VSXRoles, SigParts, SetRule
  <2>2. /\ A(10, "R3", "data") /\ A(10, "R4", "ctrl") /\ A(10, "R5", "ints")
        /\ A(10, "R6", "safe") /\ A(10, "R7", "masks") /\ A(10, "R8", "lens")
        /\ A(10, "R9", "g") /\ A(10, "R10", "off") /\ A(10, "V2", "zero")
        /\ A(10, "R11", "revAt")
    BY VSXOps, VSXOuts, VSXRoles, <1>9, Behind
  <2> QED BY <2>1, <2>2 DEF After
<1>11. /\ J(11)
       /\ H(12, "R3", "data") /\ H(12, "R4", "ctrl") /\ H(12, "R5", "ints")
       /\ H(12, "R6", "safe") /\ H(12, "R7", "masks") /\ H(12, "R8", "lens")
       /\ H(12, "R9", "g") /\ H(12, "R10", "off") /\ H(12, "V2", "zero")
       /\ H(12, "V31", "rev")
  <2>1. J(11)
    BY VSXOps, VSXIns, VSXRoles, <1>10, SigParts, ReversalRule DEF isPPC
  <2>2. /\ A(11, "R3", "data") /\ A(11, "R4", "ctrl") /\ A(11, "R5", "ints")
        /\ A(11, "R6", "safe") /\ A(11, "R7", "masks") /\ A(11, "R8", "lens")
        /\ A(11, "R9", "g") /\ A(11, "R10", "off") /\ A(11, "V2", "zero")
        /\ A(11, "V31", "rev")
    BY VSXOps, VSXOuts, VSXRoles, <1>10, Behind, VSXFixed DEF Cursors, next
  <2> QED BY <2>1, <2>2 DEF After
<1>12. /\ J(12)
       /\ H(13, "R3", "data") /\ H(13, "R4", "ctrl") /\ H(13, "R5", "ints")
       /\ H(13, "R7", "masks") /\ H(13, "R8", "lens") /\ H(13, "R9", "g")
       /\ H(13, "R10", "off") /\ H(13, "V2", "zero") /\ H(13, "V31", "rev")
  <2>1. J(12)
    BY VSXOps, VSXIns, VSXRoles, VSXOuts, <1>11, CompareRule
  <2>2. /\ A(12, "R3", "data") /\ A(12, "R4", "ctrl") /\ A(12, "R5", "ints")
        /\ A(12, "R7", "masks") /\ A(12, "R8", "lens") /\ A(12, "R9", "g")
        /\ A(12, "R10", "off") /\ A(12, "V2", "zero") /\ A(12, "V31", "rev")
    BY VSXOps, VSXOuts, VSXRoles, <1>11, Behind
  <2> QED BY <2>1, <2>2 DEF After
<1>13. /\ J(13)
       /\ H(14, "R3", "data") /\ H(14, "R5", "ints") /\ H(14, "R7", "masks")
       /\ H(14, "R8", "lens") /\ H(14, "R9", "g") /\ H(14, "R10", "off")
       /\ H(14, "V2", "zero") /\ H(14, "V31", "rev") /\ H(14, "R11", "ctrlAt")
  <2>1. J(13)
    BY VSXOps, VSXIns, VSXRoles, <1>12, TwoAddUp, SumRule DEF Sums
  <2>2. /\ A(13, "R3", "data") /\ A(13, "R5", "ints") /\ A(13, "R7", "masks")
        /\ A(13, "R8", "lens") /\ A(13, "R9", "g") /\ A(13, "R10", "off")
        /\ A(13, "V2", "zero") /\ A(13, "V31", "rev") /\ A(13, "R11", "ctrlAt")
    BY VSXOps, VSXOuts, VSXRoles, <1>12, Behind
  <2> QED BY <2>1, <2>2 DEF After
<1>14. /\ J(14)
       /\ H(15, "R3", "data") /\ H(15, "R5", "ints") /\ H(15, "R7", "masks")
       /\ H(15, "R8", "lens") /\ H(15, "R9", "g") /\ H(15, "R10", "off")
       /\ H(15, "V2", "zero") /\ H(15, "V31", "rev") /\ H(15, "R12", "key")
  <2>1. J(14)
    BY VSXOps, VSXIns, VSXRoles, <1>13, OneAddsUp, ByteRule
  <2>2. /\ A(14, "R3", "data") /\ A(14, "R5", "ints") /\ A(14, "R7", "masks")
        /\ A(14, "R8", "lens") /\ A(14, "R9", "g") /\ A(14, "R10", "off")
        /\ A(14, "V2", "zero") /\ A(14, "V31", "rev") /\ A(14, "R12", "key")
    BY VSXOps, VSXOuts, VSXRoles, <1>13, Behind
  <2> QED BY <2>1, <2>2 DEF After
<1>15. /\ J(15)
       /\ H(16, "R3", "data") /\ H(16, "R5", "ints") /\ H(16, "R7", "masks")
       /\ H(16, "R8", "lens") /\ H(16, "R9", "g") /\ H(16, "R10", "off")
       /\ H(16, "V2", "zero") /\ H(16, "V31", "rev") /\ H(16, "R12", "key")
       /\ H(16, "R14", "key16")
  <2>1. J(15)
    BY VSXOps, VSXIns, VSXRoles, <1>14, ScaleRule
  <2>2. /\ A(15, "R3", "data") /\ A(15, "R5", "ints") /\ A(15, "R7", "masks")
        /\ A(15, "R8", "lens") /\ A(15, "R9", "g") /\ A(15, "R10", "off")
        /\ A(15, "V2", "zero") /\ A(15, "V31", "rev") /\ A(15, "R12", "key")
        /\ A(15, "R14", "key16")
    BY VSXOps, VSXOuts, VSXRoles, <1>14, Behind
  <2> QED BY <2>1, <2>2 DEF After
<1>16. /\ J(16)
       /\ H(17, "R3", "data") /\ H(17, "R5", "ints") /\ H(17, "R8", "lens")
       /\ H(17, "R9", "g") /\ H(17, "R10", "off") /\ H(17, "V2", "zero")
       /\ H(17, "V31", "rev") /\ H(17, "R12", "key") /\ H(17, "R14", "maskAt")
  <2>1. J(16)
    BY VSXOps, VSXIns, VSXRoles, <1>15, TwoAddUp, SumRule DEF Sums
  <2>2. /\ A(16, "R3", "data") /\ A(16, "R5", "ints") /\ A(16, "R8", "lens")
        /\ A(16, "R9", "g") /\ A(16, "R10", "off") /\ A(16, "V2", "zero")
        /\ A(16, "V31", "rev") /\ A(16, "R12", "key") /\ A(16, "R14", "maskAt")
    BY VSXOps, VSXOuts, VSXRoles, <1>15, Behind
  <2> QED BY <2>1, <2>2 DEF After
<1>17. /\ J(17)
       /\ H(18, "R3", "data") /\ H(18, "R5", "ints") /\ H(18, "R8", "lens")
       /\ H(18, "R9", "g") /\ H(18, "R10", "off") /\ H(18, "V2", "zero")
       /\ H(18, "V31", "rev") /\ H(18, "R12", "key") /\ H(18, "V1", "rawMask")
  <2>1. J(17)
    BY VSXOps, VSXIns, VSXRoles, <1>16, SigParts, OneAddsUp, WideRule DEF isPPC
  <2>2. /\ A(17, "R3", "data") /\ A(17, "R5", "ints") /\ A(17, "R8", "lens")
        /\ A(17, "R9", "g") /\ A(17, "R10", "off") /\ A(17, "V2", "zero")
        /\ A(17, "V31", "rev") /\ A(17, "R12", "key") /\ A(17, "V1", "rawMask")
    BY VSXOps, VSXOuts, VSXRoles, <1>16, Behind
  <2> QED BY <2>1, <2>2 DEF After
<1>18. /\ J(18)
       /\ H(19, "R3", "data") /\ H(19, "R5", "ints") /\ H(19, "R8", "lens")
       /\ H(19, "R9", "g") /\ H(19, "R10", "off") /\ H(19, "V2", "zero")
       /\ H(19, "V31", "rev") /\ H(19, "R12", "key") /\ H(19, "V1", "mask")
  <2>1. J(18)
    BY VSXOps, VSXIns, VSXRoles, <1>17, SigParts, ReorderRule DEF isPPC
  <2>2. /\ A(18, "R3", "data") /\ A(18, "R5", "ints") /\ A(18, "R8", "lens")
        /\ A(18, "R9", "g") /\ A(18, "R10", "off") /\ A(18, "V2", "zero")
        /\ A(18, "V31", "rev") /\ A(18, "R12", "key") /\ A(18, "V1", "mask")
    BY VSXOps, VSXOuts, VSXRoles, <1>17, Behind
  <2> QED BY <2>1, <2>2 DEF After
<1>19. /\ J(19)
       /\ H(20, "R3", "data") /\ H(20, "R5", "ints") /\ H(20, "R8", "lens")
       /\ H(20, "R9", "g") /\ H(20, "R10", "off") /\ H(20, "V2", "zero")
       /\ H(20, "V31", "rev") /\ H(20, "R12", "key") /\ H(20, "V1", "mask")
       /\ H(20, "R15", "g16")
  <2>1. J(19)
    BY VSXOps, VSXIns, VSXRoles, <1>18, ScaleRule
  <2>2. /\ A(19, "R3", "data") /\ A(19, "R5", "ints") /\ A(19, "R8", "lens")
        /\ A(19, "R9", "g") /\ A(19, "R10", "off") /\ A(19, "V2", "zero")
        /\ A(19, "V31", "rev") /\ A(19, "R12", "key") /\ A(19, "V1", "mask")
        /\ A(19, "R15", "g16")
    BY VSXOps, VSXOuts, VSXRoles, <1>18, Behind
  <2> QED BY <2>1, <2>2 DEF After
<1>20. /\ J(20)
       /\ H(21, "R3", "data") /\ H(21, "R8", "lens") /\ H(21, "R9", "g")
       /\ H(21, "R10", "off") /\ H(21, "V2", "zero") /\ H(21, "V31", "rev")
       /\ H(21, "R12", "key") /\ H(21, "V1", "mask") /\ H(21, "R15", "intsAt")
  <2>1. J(20)
    BY VSXOps, VSXIns, VSXRoles, <1>19, TwoAddUp, SumRule DEF Sums
  <2>2. /\ A(20, "R3", "data") /\ A(20, "R8", "lens") /\ A(20, "R9", "g")
        /\ A(20, "R10", "off") /\ A(20, "V2", "zero") /\ A(20, "V31", "rev")
        /\ A(20, "R12", "key") /\ A(20, "V1", "mask") /\ A(20, "R15", "intsAt")
    BY VSXOps, VSXOuts, VSXRoles, <1>19, Behind
  <2> QED BY <2>1, <2>2 DEF After
<1>21. /\ J(21)
       /\ H(22, "R3", "data") /\ H(22, "R8", "lens") /\ H(22, "R9", "g")
       /\ H(22, "R10", "off") /\ H(22, "V2", "zero") /\ H(22, "V31", "rev")
       /\ H(22, "R12", "key") /\ H(22, "V1", "mask") /\ H(22, "V0", "rawVals")
  <2>1. J(21)
    BY VSXOps, VSXIns, VSXRoles, <1>20, SigParts, OneAddsUp, WideRule DEF isPPC
  <2>2. /\ A(21, "R3", "data") /\ A(21, "R8", "lens") /\ A(21, "R9", "g")
        /\ A(21, "R10", "off") /\ A(21, "V2", "zero") /\ A(21, "V31", "rev")
        /\ A(21, "R12", "key") /\ A(21, "V1", "mask") /\ A(21, "V0", "rawVals")
    BY VSXOps, VSXOuts, VSXRoles, <1>20, Behind
  <2> QED BY <2>1, <2>2 DEF After
<1>22. /\ J(22)
       /\ H(23, "R3", "data") /\ H(23, "R8", "lens") /\ H(23, "R9", "g")
       /\ H(23, "R10", "off") /\ H(23, "V2", "zero") /\ H(23, "V31", "rev")
       /\ H(23, "R12", "key") /\ H(23, "V1", "mask") /\ H(23, "V0", "vals")
  <2>1. J(22)
    BY VSXOps, VSXIns, VSXRoles, <1>21, SigParts, ReorderRule DEF isPPC
  <2>2. /\ A(22, "R3", "data") /\ A(22, "R8", "lens") /\ A(22, "R9", "g")
        /\ A(22, "R10", "off") /\ A(22, "V2", "zero") /\ A(22, "V31", "rev")
        /\ A(22, "R12", "key") /\ A(22, "V1", "mask") /\ A(22, "V0", "vals")
    BY VSXOps, VSXOuts, VSXRoles, <1>21, Behind
  <2> QED BY <2>1, <2>2 DEF After
<1>23. /\ J(23)
       /\ H(24, "R3", "data") /\ H(24, "R8", "lens") /\ H(24, "R9", "g")
       /\ H(24, "R10", "off") /\ H(24, "V31", "rev") /\ H(24, "R12", "key")
       /\ H(24, "V3", "out")
  <2>1. J(23)
    BY VSXOps, VSXIns, VSXRoles, <1>22, SigParts, CombineRule DEF isPPC
  <2>2. /\ A(23, "R3", "data") /\ A(23, "R8", "lens") /\ A(23, "R9", "g")
        /\ A(23, "R10", "off") /\ A(23, "V31", "rev") /\ A(23, "R12", "key")
        /\ A(23, "V3", "out")
    BY VSXOps, VSXOuts, VSXRoles, <1>22, Behind
  <2> QED BY <2>1, <2>2 DEF After
<1>24. /\ J(24)
       /\ H(25, "R8", "lens") /\ H(25, "R9", "g") /\ H(25, "R10", "off")
       /\ H(25, "V31", "rev") /\ H(25, "R12", "key") /\ H(25, "V3", "out")
       /\ H(25, "R16", "dataAt")
  <2>1. J(24)
    BY VSXOps, VSXIns, VSXRoles, <1>23, TwoAddUp, SumRule DEF Sums
  <2>2. /\ A(24, "R8", "lens") /\ A(24, "R9", "g") /\ A(24, "R10", "off")
        /\ A(24, "V31", "rev") /\ A(24, "R12", "key") /\ A(24, "V3", "out")
        /\ A(24, "R16", "dataAt")
    BY VSXOps, VSXOuts, VSXRoles, <1>23, Behind
  <2> QED BY <2>1, <2>2 DEF After
<1>25. /\ J(25)
       /\ H(26, "R8", "lens") /\ H(26, "R9", "g") /\ H(26, "R10", "off")
       /\ H(26, "R12", "key") /\ H(26, "R16", "dataAt") /\ H(26, "V30", "rawOut")
  <2>1. J(25)
    BY VSXOps, VSXIns, VSXRoles, <1>24, SigParts, ReorderRule DEF isPPC
  <2>2. /\ A(25, "R8", "lens") /\ A(25, "R9", "g") /\ A(25, "R10", "off")
        /\ A(25, "R12", "key") /\ A(25, "R16", "dataAt") /\ A(25, "V30", "rawOut")
    BY VSXOps, VSXOuts, VSXRoles, <1>24, Behind
  <2> QED BY <2>1, <2>2 DEF After
<1>26. /\ J(26)
       /\ H(27, "R8", "lens") /\ H(27, "R9", "g") /\ H(27, "R10", "off")
       /\ H(27, "R12", "key")
  <2>1. ~Stored(VSX, 26)
    BY VSXStores DEF Stored, Op
  <2>2. J(26)
    BY VSXOps, VSXIns, VSXRoles, VSXOuts, <1>25, <2>1, SigParts, OneAddsUp, StoreRule DEF isPPC
  <2>3. /\ A(26, "R8", "lens") /\ A(26, "R9", "g") /\ A(26, "R10", "off")
        /\ A(26, "R12", "key")
    BY VSXOps, VSXOuts, VSXRoles, <1>25, Behind
  <2> QED BY <2>2, <2>3 DEF After
<1>27. J(27) /\ H(28, "R9", "g") /\ H(28, "R10", "off") /\ H(28, "R17", "lenAt")
  <2>1. J(27)
    BY VSXOps, VSXIns, VSXRoles, <1>26, TwoAddUp, SumRule DEF Sums
  <2>2. A(27, "R9", "g") /\ A(27, "R10", "off") /\ A(27, "R17", "lenAt")
    BY VSXOps, VSXOuts, VSXRoles, <1>26, Behind
  <2> QED BY <2>1, <2>2 DEF After
<1>28. J(28) /\ H(29, "R9", "g") /\ H(29, "R10", "off") /\ H(29, "R18", "len")
  <2>1. J(28)
    BY VSXOps, VSXIns, VSXRoles, <1>27, OneAddsUp, ByteRule
  <2>2. A(28, "R9", "g") /\ A(28, "R10", "off") /\ A(28, "R18", "len")
    BY VSXOps, VSXOuts, VSXRoles, <1>27, Behind
  <2> QED BY <2>1, <2>2 DEF After
<1>29. J(29) /\ H(30, "R9", "g") /\ H(30, "R10", "nextOff")
  <2>1. J(29)
    BY VSXOps, VSXIns, VSXRoles, <1>28, TwoAddUp, SumRule DEF Sums
  <2>2. A(29, "R9", "g") /\ A(29, "R10", "nextOff")
    BY VSXOps, VSXOuts, VSXRoles, <1>28, Behind
  <2> QED BY <2>1, <2>2 DEF After
<1>30. J(30) /\ H(31, "R10", "nextOff") /\ H(31, "R9", "nextG")
  <2>1. J(30)
    BY VSXOps, VSXIns, VSXRoles, VSXOuts, <1>29, IncRule DEF next
  <2>2. A(30, "R10", "nextOff") /\ A(30, "R9", "nextG")
    BY VSXOps, VSXOuts, VSXRoles, <1>29, Behind
  <2> QED BY <2>1, <2>2 DEF After
<1>31. J(31)
  <2>1. Stored(VSX, 31)
    BY VSXStores DEF Stored, Op
  <2>2. J(31)
    BY VSXOps, VSXIns, VSXRoles, VSXOuts, <2>1, LoopRule
  <2> QED BY <2>2
<1>32. WellLooped(VSX, notesVSX)
  <2> SUFFICES ASSUME NEW k \in 1 .. 11, Live(VSX, notesVSX, k, 12)
               PROVE  \/ Role(notesVSX, k) \in Fixed
                      \/ /\ Role(notesVSX, k) \in Cursors
                         /\ H(31, Out(VSX, k), next[Role(notesVSX, k)])
    BY VSXOps DEF WellLooped, Role, Out, Loop, Size
  <2>1. k \in {1, 2, 3, 4, 5, 6, 7, 8, 9, 10, 11}
    OBVIOUS
  <2>2. ~Live(VSX, notesVSX, 10, 12)
    <3>1. 13 \in Loop(VSX) .. Size(VSX) /\ Out(VSX, 13) = Out(VSX, 10)
      BY VSXOps, VSXOuts
    <3>2. 10 < Loop(VSX) /\ Loop(VSX) <= 12 /\ Role(notesVSX, 10) \notin Cursors
      BY VSXOps, VSXRoles DEF Cursors, next
    <3> QED BY <3>1, <3>2 DEF Live, Out, Role, Loop, Size
  <2> HIDE DEF H
  <2> QED BY VSXOuts, VSXRoles, <1>30, <2>1, <2>2 DEF Fixed, Cursors, next
<1>33. \A i \in 1 .. 31 : J(i)
  <2> TAKE i \in 1 .. 31
  <2>1. i \in {1, 2, 3, 4, 5, 6, 7, 8, 9, 10, 11, 12, 13, 14, 15, 16, 17, 18, 19, 20, 21, 22, 23, 24, 25, 26, 27, 28, 29, 30, 31}
    OBVIOUS
  <2> HIDE DEF J
  <2> QED BY SMTT(40), <2>1, <1>1, <1>2, <1>3, <1>4, <1>5, <1>6, <1>7, <1>8, <1>9, <1>10, <1>11, <1>12, <1>13, <1>14, <1>15, <1>16, <1>17, <1>18, <1>19, <1>20, <1>21, <1>22, <1>23, <1>24, <1>25, <1>26, <1>27, <1>28, <1>29, <1>30, <1>31
<1> QED BY VSXOps, VSXOuts, <1>11, <1>32, <1>33 DEF Annotated, Size, Loop, Op

\* The VX program: its instructions, what they set, what from, and the notes.
LEMMA VXOps ==
  /\ Size(VX) = 24 /\ Loop(VX) = 10 /\ Op(VX, 1) = "arg" /\ Op(VX, 2) = "arg"
  /\ Op(VX, 3) = "arg" /\ Op(VX, 4) = "arg" /\ Op(VX, 5) = "arg" /\ Op(VX, 6) = "arg"
  /\ Op(VX, 7) = "set" /\ Op(VX, 8) = "sum" /\ Op(VX, 9) = "vzero" /\ Op(VX, 10) = "jge"
  /\ Op(VX, 11) = "byte" /\ Op(VX, 12) = "shl4" /\ Op(VX, 13) = "sum"
  /\ Op(VX, 14) = "vload" /\ Op(VX, 15) = "vload" /\ Op(VX, 16) = "VPERM"
  /\ Op(VX, 17) = "vstore" /\ Op(VX, 18) = "sum" /\ Op(VX, 19) = "byte"
  /\ Op(VX, 20) = "sum" /\ Op(VX, 21) = "sum" /\ Op(VX, 22) = "inc" /\ Op(VX, 23) = "inc"
  /\ Op(VX, 24) = "jmp"
BY DEF Op, Size, Loop, VX, Program, LoadArgs, LoadArg, Set, Mov, Add, AddImm, Shl4,
       LoadByte, VLoad, VStore, VZero, Shuffle, JumpGE, JumpLoop

LEMMA VXOuts ==
  /\ VX.result = "R7" /\ Out(VX, 1) = "R1" /\ Out(VX, 2) = "R2" /\ Out(VX, 3) = "R3"
  /\ Out(VX, 4) = "R4" /\ Out(VX, 5) = "R5" /\ Out(VX, 6) = "R6" /\ Out(VX, 7) = "R7"
  /\ Out(VX, 8) = "R4" /\ Out(VX, 9) = "V1" /\ Out(VX, 10) = "none" /\ Out(VX, 11) = "R9"
  /\ Out(VX, 12) = "R8" /\ Out(VX, 13) = "R8" /\ Out(VX, 14) = "V2" /\ Out(VX, 15) = "V0"
  /\ Out(VX, 16) = "V3" /\ Out(VX, 17) = "V3" /\ Out(VX, 18) = "R8" /\ Out(VX, 19) = "R9"
  /\ Out(VX, 20) = "R1" /\ Out(VX, 21) = "R7" /\ Out(VX, 22) = "R3" /\ Out(VX, 23) = "R2"
  /\ Out(VX, 24) = "none"
BY DEF Out, VX, Program, LoadArgs, LoadArg, Set, Mov, Add, AddImm, Shl4,
       LoadByte, VLoad, VStore, VZero, Shuffle, JumpGE, JumpLoop

LEMMA VXIns ==
  /\ In(VX, 1) = 1 /\ In(VX, 2) = 2 /\ In(VX, 3) = 3 /\ In(VX, 4) = 4 /\ In(VX, 5) = 5
  /\ In(VX, 6) = 6 /\ In(VX, 7) = 0 /\ In(VX, 8) = Two("R2", "R4")
  /\ In(VX, 10) = Two("R2", "R4") /\ In(VX, 11) = One("R2") /\ In(VX, 12) = One("R9")
  /\ In(VX, 13) = Two("R5", "R8") /\ In(VX, 14) = One("R8") /\ In(VX, 15) = One("R3")
  /\ In(VX, 16) = Three("V0", "V1", "V2") /\ In(VX, 17) = One("R1")
  /\ In(VX, 18) = Two("R6", "R9") /\ In(VX, 19) = One("R8") /\ In(VX, 20) = Two("R9", "R1")
  /\ In(VX, 21) = Two("R9", "R7") /\ In(VX, 22) = 16 /\ In(VX, 23) = 1
BY DEF In, One, Two, Three, VX, Program, LoadArgs, LoadArg, Set, Mov, Add, AddImm, Shl4,
       LoadByte, VLoad, VStore, VZero, Shuffle, JumpGE, JumpLoop

LEMMA VXRoles ==
  /\ Role(notesVX, 1) = "dataAt" /\ Role(notesVX, 2) = "ctrlAt"
  /\ Role(notesVX, 3) = "intsAt" /\ Role(notesVX, 4) = "safe" /\ Role(notesVX, 5) = "masks"
  /\ Role(notesVX, 6) = "lens" /\ Role(notesVX, 7) = "off" /\ Role(notesVX, 8) = "ctrlEnd"
  /\ Role(notesVX, 9) = "zero" /\ Role(notesVX, 10) = "none" /\ Role(notesVX, 11) = "key"
  /\ Role(notesVX, 12) = "key16" /\ Role(notesVX, 13) = "maskAt"
  /\ Role(notesVX, 14) = "mask" /\ Role(notesVX, 15) = "vals" /\ Role(notesVX, 16) = "out"
  /\ Role(notesVX, 17) = "out" /\ Role(notesVX, 18) = "lenAt" /\ Role(notesVX, 19) = "len"
  /\ Role(notesVX, 20) = "nextDataAt" /\ Role(notesVX, 21) = "nextOff"
  /\ Role(notesVX, 22) = "nextIntsAt" /\ Role(notesVX, 23) = "nextCtrlAt"
  /\ Role(notesVX, 24) = "none"
BY DEF Role, notesVX

\* The registers that the loop of VX leaves alone.
LEMMA VXFixed ==
  \A m \in 10 .. 24 : Out(VX, m) \notin {"R5", "R6", "R4", "V1"}
<1> TAKE m \in 10 .. 24
<1>1. m \in {10, 11, 12, 13, 14, 15, 16, 17, 18, 19, 20, 21, 22, 23, 24}
  OBVIOUS
<1> QED BY <1>1, VXOuts

LEMMA VXStores == \A m \in 1 .. 24 : Op(VX, m) \in StoreOps <=> m = 17
<1> TAKE m \in 1 .. 24
<1>1. m \in {1, 2, 3, 4, 5, 6, 7, 8, 9, 10, 11, 12, 13, 14, 15, 16, 17, 18, 19, 20, 21, 22, 23, 24}
  OBVIOUS
<1> QED BY <1>1, VXOps DEF StoreOps

\* Every note of VX follows.
LEMMA VXAnnotated == Annotated(sig("s390x"), VX, notesVX)
<1> DEFINE J(i) == Justified(sig("s390x"), VX, notesVX, i)
           H(i, x, role) == Has(VX, notesVX, i, x, role)
           A(i, x, role) == After(VX, notesVX, i, x, role)
<1>1. J(1) /\ H(2, "R1", "dataAt")
  <2>1. J(1)
    BY VXOps, VXIns, VXRoles, SigParts, ArgRule
  <2>2. A(1, "R1", "dataAt")
    BY VXOps, VXOuts, VXRoles, Behind
  <2> QED BY <2>1, <2>2 DEF After
<1>2. J(2) /\ H(3, "R1", "dataAt") /\ H(3, "R2", "ctrlAt")
  <2>1. J(2)
    BY VXOps, VXIns, VXRoles, SigParts, ArgRule
  <2>2. A(2, "R1", "dataAt") /\ A(2, "R2", "ctrlAt")
    BY VXOps, VXOuts, VXRoles, <1>1, Behind
  <2> QED BY <2>1, <2>2 DEF After
<1>3. J(3) /\ H(4, "R1", "dataAt") /\ H(4, "R2", "ctrlAt") /\ H(4, "R3", "intsAt")
  <2>1. J(3)
    BY VXOps, VXIns, VXRoles, SigParts, ArgRule
  <2>2. A(3, "R1", "dataAt") /\ A(3, "R2", "ctrlAt") /\ A(3, "R3", "intsAt")
    BY VXOps, VXOuts, VXRoles, <1>2, Behind
  <2> QED BY <2>1, <2>2 DEF After
<1>4. /\ J(4)
      /\ H(5, "R1", "dataAt") /\ H(5, "R2", "ctrlAt") /\ H(5, "R3", "intsAt")
      /\ H(5, "R4", "safe")
  <2>1. J(4)
    BY VXOps, VXIns, VXRoles, SigParts, ArgRule
  <2>2. /\ A(4, "R1", "dataAt") /\ A(4, "R2", "ctrlAt") /\ A(4, "R3", "intsAt")
        /\ A(4, "R4", "safe")
    BY VXOps, VXOuts, VXRoles, <1>3, Behind
  <2> QED BY <2>1, <2>2 DEF After
<1>5. /\ J(5)
      /\ H(6, "R1", "dataAt") /\ H(6, "R2", "ctrlAt") /\ H(6, "R3", "intsAt")
      /\ H(6, "R4", "safe") /\ H(6, "R5", "masks")
  <2>1. J(5)
    BY VXOps, VXIns, VXRoles, SigParts, ArgRule
  <2>2. /\ A(5, "R1", "dataAt") /\ A(5, "R2", "ctrlAt") /\ A(5, "R3", "intsAt")
        /\ A(5, "R4", "safe") /\ A(5, "R5", "masks")
    BY VXOps, VXOuts, VXRoles, <1>4, Behind
  <2> QED BY <2>1, <2>2 DEF After
<1>6. /\ J(6)
      /\ H(7, "R1", "dataAt") /\ H(7, "R2", "ctrlAt") /\ H(7, "R3", "intsAt")
      /\ H(7, "R4", "safe") /\ H(7, "R5", "masks") /\ H(7, "R6", "lens")
  <2>1. J(6)
    BY VXOps, VXIns, VXRoles, SigParts, ArgRule
  <2>2. /\ A(6, "R1", "dataAt") /\ A(6, "R2", "ctrlAt") /\ A(6, "R3", "intsAt")
        /\ A(6, "R4", "safe") /\ A(6, "R5", "masks") /\ A(6, "R6", "lens")
    BY VXOps, VXOuts, VXRoles, <1>5, Behind
  <2> QED BY <2>1, <2>2 DEF After
<1>7. /\ J(7)
      /\ H(8, "R1", "dataAt") /\ H(8, "R2", "ctrlAt") /\ H(8, "R3", "intsAt")
      /\ H(8, "R4", "safe") /\ H(8, "R5", "masks") /\ H(8, "R6", "lens")
      /\ H(8, "R7", "off")
  <2>1. J(7)
    BY VXOps, VXIns, VXRoles, SigParts, SetRule
  <2>2. /\ A(7, "R1", "dataAt") /\ A(7, "R2", "ctrlAt") /\ A(7, "R3", "intsAt")
        /\ A(7, "R4", "safe") /\ A(7, "R5", "masks") /\ A(7, "R6", "lens")
        /\ A(7, "R7", "off")
    BY VXOps, VXOuts, VXRoles, <1>6, Behind
  <2> QED BY <2>1, <2>2 DEF After
<1>8. /\ J(8)
      /\ H(9, "R1", "dataAt") /\ H(9, "R2", "ctrlAt") /\ H(9, "R3", "intsAt")
      /\ H(9, "R5", "masks") /\ H(9, "R6", "lens") /\ H(9, "R7", "off")
      /\ H(9, "R4", "ctrlEnd")
  <2>1. J(8)
    BY VXOps, VXIns, VXRoles, <1>7, EndRule
  <2>2. /\ A(8, "R1", "dataAt") /\ A(8, "R2", "ctrlAt") /\ A(8, "R3", "intsAt")
        /\ A(8, "R5", "masks") /\ A(8, "R6", "lens") /\ A(8, "R7", "off")
        /\ A(8, "R4", "ctrlEnd")
    BY VXOps, VXOuts, VXRoles, <1>7, Behind
  <2> QED BY <2>1, <2>2 DEF After
<1>9. /\ J(9)
      /\ H(10, "R1", "dataAt") /\ H(10, "R2", "ctrlAt") /\ H(10, "R3", "intsAt")
      /\ H(10, "R5", "masks") /\ H(10, "R6", "lens") /\ H(10, "R7", "off")
      /\ H(10, "R4", "ctrlEnd") /\ H(10, "V1", "zero")
  <2>1. J(9)
    BY VXOps, VXIns, VXRoles, ZeroRule
  <2>2. /\ A(9, "R1", "dataAt") /\ A(9, "R2", "ctrlAt") /\ A(9, "R3", "intsAt")
        /\ A(9, "R5", "masks") /\ A(9, "R6", "lens") /\ A(9, "R7", "off")
        /\ A(9, "R4", "ctrlEnd") /\ A(9, "V1", "zero")
    BY VXOps, VXOuts, VXRoles, <1>8, Behind, VXFixed DEF Cursors, next
  <2> QED BY <2>1, <2>2 DEF After
<1>10. /\ J(10)
       /\ H(11, "R1", "dataAt") /\ H(11, "R2", "ctrlAt") /\ H(11, "R3", "intsAt")
       /\ H(11, "R5", "masks") /\ H(11, "R6", "lens") /\ H(11, "R7", "off")
       /\ H(11, "V1", "zero")
  <2>1. J(10)
    BY VXOps, VXIns, VXRoles, VXOuts, <1>9, CompareRule
  <2>2. /\ A(10, "R1", "dataAt") /\ A(10, "R2", "ctrlAt") /\ A(10, "R3", "intsAt")
        /\ A(10, "R5", "masks") /\ A(10, "R6", "lens") /\ A(10, "R7", "off")
        /\ A(10, "V1", "zero")
    BY VXOps, VXOuts, VXRoles, <1>9, Behind
  <2> QED BY <2>1, <2>2 DEF After
<1>11. /\ J(11)
       /\ H(12, "R1", "dataAt") /\ H(12, "R2", "ctrlAt") /\ H(12, "R3", "intsAt")
       /\ H(12, "R5", "masks") /\ H(12, "R6", "lens") /\ H(12, "R7", "off")
       /\ H(12, "V1", "zero") /\ H(12, "R9", "key")
  <2>1. J(11)
    BY VXOps, VXIns, VXRoles, <1>10, OneAddsUp, ByteRule
  <2>2. /\ A(11, "R1", "dataAt") /\ A(11, "R2", "ctrlAt") /\ A(11, "R3", "intsAt")
        /\ A(11, "R5", "masks") /\ A(11, "R6", "lens") /\ A(11, "R7", "off")
        /\ A(11, "V1", "zero") /\ A(11, "R9", "key")
    BY VXOps, VXOuts, VXRoles, <1>10, Behind
  <2> QED BY <2>1, <2>2 DEF After
<1>12. /\ J(12)
       /\ H(13, "R1", "dataAt") /\ H(13, "R2", "ctrlAt") /\ H(13, "R3", "intsAt")
       /\ H(13, "R5", "masks") /\ H(13, "R6", "lens") /\ H(13, "R7", "off")
       /\ H(13, "V1", "zero") /\ H(13, "R9", "key") /\ H(13, "R8", "key16")
  <2>1. J(12)
    BY VXOps, VXIns, VXRoles, <1>11, ScaleRule
  <2>2. /\ A(12, "R1", "dataAt") /\ A(12, "R2", "ctrlAt") /\ A(12, "R3", "intsAt")
        /\ A(12, "R5", "masks") /\ A(12, "R6", "lens") /\ A(12, "R7", "off")
        /\ A(12, "V1", "zero") /\ A(12, "R9", "key") /\ A(12, "R8", "key16")
    BY VXOps, VXOuts, VXRoles, <1>11, Behind
  <2> QED BY <2>1, <2>2 DEF After
<1>13. /\ J(13)
       /\ H(14, "R1", "dataAt") /\ H(14, "R2", "ctrlAt") /\ H(14, "R3", "intsAt")
       /\ H(14, "R6", "lens") /\ H(14, "R7", "off") /\ H(14, "V1", "zero")
       /\ H(14, "R9", "key") /\ H(14, "R8", "maskAt")
  <2>1. J(13)
    BY VXOps, VXIns, VXRoles, <1>12, TwoAddUp, SumRule DEF Sums
  <2>2. /\ A(13, "R1", "dataAt") /\ A(13, "R2", "ctrlAt") /\ A(13, "R3", "intsAt")
        /\ A(13, "R6", "lens") /\ A(13, "R7", "off") /\ A(13, "V1", "zero")
        /\ A(13, "R9", "key") /\ A(13, "R8", "maskAt")
    BY VXOps, VXOuts, VXRoles, <1>12, Behind
  <2> QED BY <2>1, <2>2 DEF After
<1>14. /\ J(14)
       /\ H(15, "R1", "dataAt") /\ H(15, "R2", "ctrlAt") /\ H(15, "R3", "intsAt")
       /\ H(15, "R6", "lens") /\ H(15, "R7", "off") /\ H(15, "V1", "zero")
       /\ H(15, "R9", "key") /\ H(15, "V2", "mask")
  <2>1. J(14)
    BY VXOps, VXIns, VXRoles, <1>13, SigParts, OneAddsUp, WideRule DEF isPPC
  <2>2. /\ A(14, "R1", "dataAt") /\ A(14, "R2", "ctrlAt") /\ A(14, "R3", "intsAt")
        /\ A(14, "R6", "lens") /\ A(14, "R7", "off") /\ A(14, "V1", "zero")
        /\ A(14, "R9", "key") /\ A(14, "V2", "mask")
    BY VXOps, VXOuts, VXRoles, <1>13, Behind
  <2> QED BY <2>1, <2>2 DEF After
<1>15. /\ J(15)
       /\ H(16, "R1", "dataAt") /\ H(16, "R2", "ctrlAt") /\ H(16, "R3", "intsAt")
       /\ H(16, "R6", "lens") /\ H(16, "R7", "off") /\ H(16, "V1", "zero")
       /\ H(16, "R9", "key") /\ H(16, "V2", "mask") /\ H(16, "V0", "vals")
  <2>1. J(15)
    BY VXOps, VXIns, VXRoles, <1>14, SigParts, OneAddsUp, WideRule DEF isPPC
  <2>2. /\ A(15, "R1", "dataAt") /\ A(15, "R2", "ctrlAt") /\ A(15, "R3", "intsAt")
        /\ A(15, "R6", "lens") /\ A(15, "R7", "off") /\ A(15, "V1", "zero")
        /\ A(15, "R9", "key") /\ A(15, "V2", "mask") /\ A(15, "V0", "vals")
    BY VXOps, VXOuts, VXRoles, <1>14, Behind
  <2> QED BY <2>1, <2>2 DEF After
<1>16. /\ J(16)
       /\ H(17, "R1", "dataAt") /\ H(17, "R2", "ctrlAt") /\ H(17, "R3", "intsAt")
       /\ H(17, "R6", "lens") /\ H(17, "R7", "off") /\ H(17, "R9", "key")
       /\ H(17, "V3", "out")
  <2>1. J(16)
    BY VXOps, VXIns, VXRoles, <1>15, SigParts, CombineRule DEF isPPC
  <2>2. /\ A(16, "R1", "dataAt") /\ A(16, "R2", "ctrlAt") /\ A(16, "R3", "intsAt")
        /\ A(16, "R6", "lens") /\ A(16, "R7", "off") /\ A(16, "R9", "key")
        /\ A(16, "V3", "out")
    BY VXOps, VXOuts, VXRoles, <1>15, Behind
  <2> QED BY <2>1, <2>2 DEF After
<1>17. /\ J(17)
       /\ H(18, "R1", "dataAt") /\ H(18, "R2", "ctrlAt") /\ H(18, "R3", "intsAt")
       /\ H(18, "R6", "lens") /\ H(18, "R7", "off") /\ H(18, "R9", "key")
  <2>1. ~Stored(VX, 17)
    BY VXStores DEF Stored, Op
  <2>2. J(17)
    BY VXOps, VXIns, VXRoles, VXOuts, <1>16, <2>1, SigParts, OneAddsUp, StoreRule DEF isPPC
  <2>3. /\ A(17, "R1", "dataAt") /\ A(17, "R2", "ctrlAt") /\ A(17, "R3", "intsAt")
        /\ A(17, "R6", "lens") /\ A(17, "R7", "off") /\ A(17, "R9", "key")
    BY VXOps, VXOuts, VXRoles, <1>16, Behind
  <2> QED BY <2>2, <2>3 DEF After
<1>18. /\ J(18)
       /\ H(19, "R1", "dataAt") /\ H(19, "R2", "ctrlAt") /\ H(19, "R3", "intsAt")
       /\ H(19, "R7", "off") /\ H(19, "R8", "lenAt")
  <2>1. J(18)
    BY VXOps, VXIns, VXRoles, <1>17, TwoAddUp, SumRule DEF Sums
  <2>2. /\ A(18, "R1", "dataAt") /\ A(18, "R2", "ctrlAt") /\ A(18, "R3", "intsAt")
        /\ A(18, "R7", "off") /\ A(18, "R8", "lenAt")
    BY VXOps, VXOuts, VXRoles, <1>17, Behind
  <2> QED BY <2>1, <2>2 DEF After
<1>19. /\ J(19)
       /\ H(20, "R1", "dataAt") /\ H(20, "R2", "ctrlAt") /\ H(20, "R3", "intsAt")
       /\ H(20, "R7", "off") /\ H(20, "R9", "len")
  <2>1. J(19)
    BY VXOps, VXIns, VXRoles, <1>18, OneAddsUp, ByteRule
  <2>2. /\ A(19, "R1", "dataAt") /\ A(19, "R2", "ctrlAt") /\ A(19, "R3", "intsAt")
        /\ A(19, "R7", "off") /\ A(19, "R9", "len")
    BY VXOps, VXOuts, VXRoles, <1>18, Behind
  <2> QED BY <2>1, <2>2 DEF After
<1>20. /\ J(20)
       /\ H(21, "R2", "ctrlAt") /\ H(21, "R3", "intsAt") /\ H(21, "R7", "off")
       /\ H(21, "R9", "len") /\ H(21, "R1", "nextDataAt")
  <2>1. J(20)
    BY VXOps, VXIns, VXRoles, <1>19, TwoAddUp, SumRule DEF Sums
  <2>2. /\ A(20, "R2", "ctrlAt") /\ A(20, "R3", "intsAt") /\ A(20, "R7", "off")
        /\ A(20, "R9", "len") /\ A(20, "R1", "nextDataAt")
    BY VXOps, VXOuts, VXRoles, <1>19, Behind
  <2> QED BY <2>1, <2>2 DEF After
<1>21. /\ J(21)
       /\ H(22, "R2", "ctrlAt") /\ H(22, "R3", "intsAt") /\ H(22, "R1", "nextDataAt")
       /\ H(22, "R7", "nextOff")
  <2>1. J(21)
    BY VXOps, VXIns, VXRoles, <1>20, TwoAddUp, SumRule DEF Sums
  <2>2. /\ A(21, "R2", "ctrlAt") /\ A(21, "R3", "intsAt") /\ A(21, "R1", "nextDataAt")
        /\ A(21, "R7", "nextOff")
    BY VXOps, VXOuts, VXRoles, <1>20, Behind
  <2> QED BY <2>1, <2>2 DEF After
<1>22. /\ J(22)
       /\ H(23, "R2", "ctrlAt") /\ H(23, "R1", "nextDataAt") /\ H(23, "R7", "nextOff")
       /\ H(23, "R3", "nextIntsAt")
  <2>1. J(22)
    BY VXOps, VXIns, VXRoles, VXOuts, <1>21, IncRule DEF next, wide
  <2>2. /\ A(22, "R2", "ctrlAt") /\ A(22, "R1", "nextDataAt") /\ A(22, "R7", "nextOff")
        /\ A(22, "R3", "nextIntsAt")
    BY VXOps, VXOuts, VXRoles, <1>21, Behind
  <2> QED BY <2>1, <2>2 DEF After
<1>23. /\ J(23)
       /\ H(24, "R1", "nextDataAt") /\ H(24, "R7", "nextOff")
       /\ H(24, "R3", "nextIntsAt") /\ H(24, "R2", "nextCtrlAt")
  <2>1. J(23)
    BY VXOps, VXIns, VXRoles, VXOuts, <1>22, IncRule DEF next
  <2>2. /\ A(23, "R1", "nextDataAt") /\ A(23, "R7", "nextOff")
        /\ A(23, "R3", "nextIntsAt") /\ A(23, "R2", "nextCtrlAt")
    BY VXOps, VXOuts, VXRoles, <1>22, Behind
  <2> QED BY <2>1, <2>2 DEF After
<1>24. J(24)
  <2>1. Stored(VX, 24)
    BY VXStores DEF Stored, Op
  <2>2. J(24)
    BY VXOps, VXIns, VXRoles, VXOuts, <2>1, LoopRule
  <2> QED BY <2>2
<1>25. WellLooped(VX, notesVX)
  <2> SUFFICES ASSUME NEW k \in 1 .. 9, Live(VX, notesVX, k, 10)
               PROVE  \/ Role(notesVX, k) \in Fixed
                      \/ /\ Role(notesVX, k) \in Cursors
                         /\ H(24, Out(VX, k), next[Role(notesVX, k)])
    BY VXOps DEF WellLooped, Role, Out, Loop, Size
  <2>1. k \in {1, 2, 3, 4, 5, 6, 7, 8, 9}
    OBVIOUS
  <2>2. ~Live(VX, notesVX, 4, 10)
    <3>1. 8 \in 4 + 1 .. 10 - 1 /\ Out(VX, 8) = Out(VX, 4)
      BY VXOuts
    <3> QED BY <3>1 DEF Live, Out
  <2> HIDE DEF H
  <2> QED BY VXOuts, VXRoles, <1>23, <2>1, <2>2 DEF Fixed, Cursors, next
<1>26. \A i \in 1 .. 24 : J(i)
  <2> TAKE i \in 1 .. 24
  <2>1. i \in {1, 2, 3, 4, 5, 6, 7, 8, 9, 10, 11, 12, 13, 14, 15, 16, 17, 18, 19, 20, 21, 22, 23, 24}
    OBVIOUS
  <2> HIDE DEF J
  <2> QED BY <2>1, <1>1, <1>2, <1>3, <1>4, <1>5, <1>6, <1>7, <1>8, <1>9, <1>10, <1>11, <1>12, <1>13, <1>14, <1>15, <1>16, <1>17, <1>18, <1>19, <1>20, <1>21, <1>22, <1>23, <1>24
<1> QED BY VXOps, VXOuts, <1>9, <1>25, <1>26 DEF Annotated, Size, Loop, Op

\* The RVV program: its instructions, what they set, what from, and the notes.
LEMMA RVVOps ==
  /\ Size(RVV) = 26 /\ Loop(RVV) = 10 /\ Op(RVV, 1) = "arg" /\ Op(RVV, 2) = "arg"
  /\ Op(RVV, 3) = "arg" /\ Op(RVV, 4) = "arg" /\ Op(RVV, 5) = "arg" /\ Op(RVV, 6) = "arg"
  /\ Op(RVV, 7) = "set" /\ Op(RVV, 8) = "set" /\ Op(RVV, 9) = "set" /\ Op(RVV, 10) = "jge"
  /\ Op(RVV, 11) = "sum" /\ Op(RVV, 12) = "byte" /\ Op(RVV, 13) = "shl4"
  /\ Op(RVV, 14) = "sum" /\ Op(RVV, 15) = "vload" /\ Op(RVV, 16) = "shl4"
  /\ Op(RVV, 17) = "sum" /\ Op(RVV, 18) = "vload" /\ Op(RVV, 19) = "VRGATHERVV"
  /\ Op(RVV, 20) = "sum" /\ Op(RVV, 21) = "vstore" /\ Op(RVV, 22) = "sum"
  /\ Op(RVV, 23) = "byte" /\ Op(RVV, 24) = "sum" /\ Op(RVV, 25) = "inc"
  /\ Op(RVV, 26) = "jmp"
BY DEF Op, Size, Loop, RVV, Program, LoadArgs, LoadArg, Set, Mov, Add, AddImm, Shl4,
       LoadByte, VLoad, VStore, VZero, Shuffle, JumpGE, JumpLoop

LEMMA RVVOuts ==
  /\ RVV.result = "X13" /\ Out(RVV, 1) = "X5" /\ Out(RVV, 2) = "X6" /\ Out(RVV, 3) = "X7"
  /\ Out(RVV, 4) = "X8" /\ Out(RVV, 5) = "X9" /\ Out(RVV, 6) = "X10" /\ Out(RVV, 7) = "X11"
  /\ Out(RVV, 8) = "X12" /\ Out(RVV, 9) = "X13" /\ Out(RVV, 10) = "none"
  /\ Out(RVV, 11) = "X14" /\ Out(RVV, 12) = "X15" /\ Out(RVV, 13) = "X16"
  /\ Out(RVV, 14) = "X16" /\ Out(RVV, 15) = "V2" /\ Out(RVV, 16) = "X17"
  /\ Out(RVV, 17) = "X17" /\ Out(RVV, 18) = "V1" /\ Out(RVV, 19) = "V3"
  /\ Out(RVV, 20) = "X18" /\ Out(RVV, 21) = "V3" /\ Out(RVV, 22) = "X19"
  /\ Out(RVV, 23) = "X20" /\ Out(RVV, 24) = "X13" /\ Out(RVV, 25) = "X12"
  /\ Out(RVV, 26) = "none"
BY DEF Out, RVV, Program, LoadArgs, LoadArg, Set, Mov, Add, AddImm, Shl4,
       LoadByte, VLoad, VStore, VZero, Shuffle, JumpGE, JumpLoop

LEMMA RVVIns ==
  /\ In(RVV, 1) = 1 /\ In(RVV, 2) = 2 /\ In(RVV, 3) = 3 /\ In(RVV, 4) = 4 /\ In(RVV, 5) = 5
  /\ In(RVV, 6) = 6 /\ In(RVV, 7) = wide /\ In(RVV, 8) = 0 /\ In(RVV, 9) = 0
  /\ In(RVV, 10) = Two("X12", "X8") /\ In(RVV, 11) = Two("X6", "X12")
  /\ In(RVV, 12) = One("X14") /\ In(RVV, 13) = One("X15") /\ In(RVV, 14) = Two("X9", "X16")
  /\ In(RVV, 15) = One("X16") /\ In(RVV, 16) = One("X12") /\ In(RVV, 17) = Two("X7", "X17")
  /\ In(RVV, 18) = One("X17") /\ In(RVV, 19) = Two("V2", "V1")
  /\ In(RVV, 20) = Two("X5", "X13") /\ In(RVV, 21) = One("X18")
  /\ In(RVV, 22) = Two("X10", "X15") /\ In(RVV, 23) = One("X19")
  /\ In(RVV, 24) = Two("X13", "X20") /\ In(RVV, 25) = 1
BY DEF In, One, Two, Three, RVV, Program, LoadArgs, LoadArg, Set, Mov, Add, AddImm, Shl4,
       LoadByte, VLoad, VStore, VZero, Shuffle, JumpGE, JumpLoop

LEMMA RVVRoles ==
  /\ Role(notesRVV, 1) = "data" /\ Role(notesRVV, 2) = "ctrl" /\ Role(notesRVV, 3) = "ints"
  /\ Role(notesRVV, 4) = "safe" /\ Role(notesRVV, 5) = "masks"
  /\ Role(notesRVV, 6) = "lens" /\ Role(notesRVV, 7) = "width" /\ Role(notesRVV, 8) = "g"
  /\ Role(notesRVV, 9) = "off" /\ Role(notesRVV, 10) = "none"
  /\ Role(notesRVV, 11) = "ctrlAt" /\ Role(notesRVV, 12) = "key"
  /\ Role(notesRVV, 13) = "key16" /\ Role(notesRVV, 14) = "maskAt"
  /\ Role(notesRVV, 15) = "mask" /\ Role(notesRVV, 16) = "g16"
  /\ Role(notesRVV, 17) = "intsAt" /\ Role(notesRVV, 18) = "vals"
  /\ Role(notesRVV, 19) = "out" /\ Role(notesRVV, 20) = "dataAt"
  /\ Role(notesRVV, 21) = "out" /\ Role(notesRVV, 22) = "lenAt"
  /\ Role(notesRVV, 23) = "len" /\ Role(notesRVV, 24) = "nextOff"
  /\ Role(notesRVV, 25) = "nextG" /\ Role(notesRVV, 26) = "none"
BY DEF Role, notesRVV

\* The registers that the loop of RVV leaves alone.
LEMMA RVVFixed ==
  \A m \in 10 .. 26 : Out(RVV, m) \notin {"X5", "X6", "X7", "X8", "X9", "X10", "X11"}
<1> TAKE m \in 10 .. 26
<1>1. m \in {10, 11, 12, 13, 14, 15, 16, 17, 18, 19, 20, 21, 22, 23, 24, 25, 26}
  OBVIOUS
<1> QED BY <1>1, RVVOuts

LEMMA RVVStores == \A m \in 1 .. 26 : Op(RVV, m) \in StoreOps <=> m = 21
<1> TAKE m \in 1 .. 26
<1>1. m \in {1, 2, 3, 4, 5, 6, 7, 8, 9, 10, 11, 12, 13, 14, 15, 16, 17, 18, 19, 20, 21, 22, 23, 24, 25, 26}
  OBVIOUS
<1> QED BY <1>1, RVVOps DEF StoreOps

\* Every note of RVV follows.
LEMMA RVVAnnotated == Annotated(sig("riscv64"), RVV, notesRVV)
<1> DEFINE J(i) == Justified(sig("riscv64"), RVV, notesRVV, i)
           H(i, x, role) == Has(RVV, notesRVV, i, x, role)
           A(i, x, role) == After(RVV, notesRVV, i, x, role)
<1>1. J(1) /\ H(2, "X5", "data")
  <2>1. J(1)
    BY RVVOps, RVVIns, RVVRoles, SigParts, ArgRule
  <2>2. A(1, "X5", "data")
    BY RVVOps, RVVOuts, RVVRoles, Behind
  <2> QED BY <2>1, <2>2 DEF After
<1>2. J(2) /\ H(3, "X5", "data") /\ H(3, "X6", "ctrl")
  <2>1. J(2)
    BY RVVOps, RVVIns, RVVRoles, SigParts, ArgRule
  <2>2. A(2, "X5", "data") /\ A(2, "X6", "ctrl")
    BY RVVOps, RVVOuts, RVVRoles, <1>1, Behind
  <2> QED BY <2>1, <2>2 DEF After
<1>3. J(3) /\ H(4, "X5", "data") /\ H(4, "X6", "ctrl") /\ H(4, "X7", "ints")
  <2>1. J(3)
    BY RVVOps, RVVIns, RVVRoles, SigParts, ArgRule
  <2>2. A(3, "X5", "data") /\ A(3, "X6", "ctrl") /\ A(3, "X7", "ints")
    BY RVVOps, RVVOuts, RVVRoles, <1>2, Behind
  <2> QED BY <2>1, <2>2 DEF After
<1>4. /\ J(4)
      /\ H(5, "X5", "data") /\ H(5, "X6", "ctrl") /\ H(5, "X7", "ints")
      /\ H(5, "X8", "safe")
  <2>1. J(4)
    BY RVVOps, RVVIns, RVVRoles, SigParts, ArgRule
  <2>2. /\ A(4, "X5", "data") /\ A(4, "X6", "ctrl") /\ A(4, "X7", "ints")
        /\ A(4, "X8", "safe")
    BY RVVOps, RVVOuts, RVVRoles, <1>3, Behind
  <2> QED BY <2>1, <2>2 DEF After
<1>5. /\ J(5)
      /\ H(6, "X5", "data") /\ H(6, "X6", "ctrl") /\ H(6, "X7", "ints")
      /\ H(6, "X8", "safe") /\ H(6, "X9", "masks")
  <2>1. J(5)
    BY RVVOps, RVVIns, RVVRoles, SigParts, ArgRule
  <2>2. /\ A(5, "X5", "data") /\ A(5, "X6", "ctrl") /\ A(5, "X7", "ints")
        /\ A(5, "X8", "safe") /\ A(5, "X9", "masks")
    BY RVVOps, RVVOuts, RVVRoles, <1>4, Behind
  <2> QED BY <2>1, <2>2 DEF After
<1>6. /\ J(6)
      /\ H(7, "X5", "data") /\ H(7, "X6", "ctrl") /\ H(7, "X7", "ints")
      /\ H(7, "X8", "safe") /\ H(7, "X9", "masks") /\ H(7, "X10", "lens")
  <2>1. J(6)
    BY RVVOps, RVVIns, RVVRoles, SigParts, ArgRule
  <2>2. /\ A(6, "X5", "data") /\ A(6, "X6", "ctrl") /\ A(6, "X7", "ints")
        /\ A(6, "X8", "safe") /\ A(6, "X9", "masks") /\ A(6, "X10", "lens")
    BY RVVOps, RVVOuts, RVVRoles, <1>5, Behind
  <2> QED BY <2>1, <2>2 DEF After
<1>7. /\ J(7)
      /\ H(8, "X5", "data") /\ H(8, "X6", "ctrl") /\ H(8, "X7", "ints")
      /\ H(8, "X8", "safe") /\ H(8, "X9", "masks") /\ H(8, "X10", "lens")
  <2>1. J(7)
    BY RVVOps, RVVIns, RVVRoles, SigParts, SetRule
  <2>2. /\ A(7, "X5", "data") /\ A(7, "X6", "ctrl") /\ A(7, "X7", "ints")
        /\ A(7, "X8", "safe") /\ A(7, "X9", "masks") /\ A(7, "X10", "lens")
    BY RVVOps, RVVOuts, RVVRoles, <1>6, Behind
  <2> QED BY <2>1, <2>2 DEF After
<1>8. /\ J(8)
      /\ H(9, "X5", "data") /\ H(9, "X6", "ctrl") /\ H(9, "X7", "ints")
      /\ H(9, "X8", "safe") /\ H(9, "X9", "masks") /\ H(9, "X10", "lens")
      /\ H(9, "X12", "g")
  <2>1. J(8)
    BY RVVOps, RVVIns, RVVRoles, SigParts, SetRule
  <2>2. /\ A(8, "X5", "data") /\ A(8, "X6", "ctrl") /\ A(8, "X7", "ints")
        /\ A(8, "X8", "safe") /\ A(8, "X9", "masks") /\ A(8, "X10", "lens")
        /\ A(8, "X12", "g")
    BY RVVOps, RVVOuts, RVVRoles, <1>7, Behind
  <2> QED BY <2>1, <2>2 DEF After
<1>9. /\ J(9)
      /\ H(10, "X5", "data") /\ H(10, "X6", "ctrl") /\ H(10, "X7", "ints")
      /\ H(10, "X8", "safe") /\ H(10, "X9", "masks") /\ H(10, "X10", "lens")
      /\ H(10, "X12", "g") /\ H(10, "X13", "off")
  <2>1. J(9)
    BY RVVOps, RVVIns, RVVRoles, SigParts, SetRule
  <2>2. /\ A(9, "X5", "data") /\ A(9, "X6", "ctrl") /\ A(9, "X7", "ints")
        /\ A(9, "X8", "safe") /\ A(9, "X9", "masks") /\ A(9, "X10", "lens")
        /\ A(9, "X12", "g") /\ A(9, "X13", "off")
    BY RVVOps, RVVOuts, RVVRoles, <1>8, Behind, RVVFixed DEF Cursors, next
  <2> QED BY <2>1, <2>2 DEF After
<1>10. /\ J(10)
       /\ H(11, "X5", "data") /\ H(11, "X6", "ctrl") /\ H(11, "X7", "ints")
       /\ H(11, "X9", "masks") /\ H(11, "X10", "lens") /\ H(11, "X12", "g")
       /\ H(11, "X13", "off")
  <2>1. J(10)
    BY RVVOps, RVVIns, RVVRoles, RVVOuts, <1>9, CompareRule
  <2>2. /\ A(10, "X5", "data") /\ A(10, "X6", "ctrl") /\ A(10, "X7", "ints")
        /\ A(10, "X9", "masks") /\ A(10, "X10", "lens") /\ A(10, "X12", "g")
        /\ A(10, "X13", "off")
    BY RVVOps, RVVOuts, RVVRoles, <1>9, Behind
  <2> QED BY <2>1, <2>2 DEF After
<1>11. /\ J(11)
       /\ H(12, "X5", "data") /\ H(12, "X7", "ints") /\ H(12, "X9", "masks")
       /\ H(12, "X10", "lens") /\ H(12, "X12", "g") /\ H(12, "X13", "off")
       /\ H(12, "X14", "ctrlAt")
  <2>1. J(11)
    BY RVVOps, RVVIns, RVVRoles, <1>10, TwoAddUp, SumRule DEF Sums
  <2>2. /\ A(11, "X5", "data") /\ A(11, "X7", "ints") /\ A(11, "X9", "masks")
        /\ A(11, "X10", "lens") /\ A(11, "X12", "g") /\ A(11, "X13", "off")
        /\ A(11, "X14", "ctrlAt")
    BY RVVOps, RVVOuts, RVVRoles, <1>10, Behind
  <2> QED BY <2>1, <2>2 DEF After
<1>12. /\ J(12)
       /\ H(13, "X5", "data") /\ H(13, "X7", "ints") /\ H(13, "X9", "masks")
       /\ H(13, "X10", "lens") /\ H(13, "X12", "g") /\ H(13, "X13", "off")
       /\ H(13, "X15", "key")
  <2>1. J(12)
    BY RVVOps, RVVIns, RVVRoles, <1>11, OneAddsUp, ByteRule
  <2>2. /\ A(12, "X5", "data") /\ A(12, "X7", "ints") /\ A(12, "X9", "masks")
        /\ A(12, "X10", "lens") /\ A(12, "X12", "g") /\ A(12, "X13", "off")
        /\ A(12, "X15", "key")
    BY RVVOps, RVVOuts, RVVRoles, <1>11, Behind
  <2> QED BY <2>1, <2>2 DEF After
<1>13. /\ J(13)
       /\ H(14, "X5", "data") /\ H(14, "X7", "ints") /\ H(14, "X9", "masks")
       /\ H(14, "X10", "lens") /\ H(14, "X12", "g") /\ H(14, "X13", "off")
       /\ H(14, "X15", "key") /\ H(14, "X16", "key16")
  <2>1. J(13)
    BY RVVOps, RVVIns, RVVRoles, <1>12, ScaleRule
  <2>2. /\ A(13, "X5", "data") /\ A(13, "X7", "ints") /\ A(13, "X9", "masks")
        /\ A(13, "X10", "lens") /\ A(13, "X12", "g") /\ A(13, "X13", "off")
        /\ A(13, "X15", "key") /\ A(13, "X16", "key16")
    BY RVVOps, RVVOuts, RVVRoles, <1>12, Behind
  <2> QED BY <2>1, <2>2 DEF After
<1>14. /\ J(14)
       /\ H(15, "X5", "data") /\ H(15, "X7", "ints") /\ H(15, "X10", "lens")
       /\ H(15, "X12", "g") /\ H(15, "X13", "off") /\ H(15, "X15", "key")
       /\ H(15, "X16", "maskAt")
  <2>1. J(14)
    BY RVVOps, RVVIns, RVVRoles, <1>13, TwoAddUp, SumRule DEF Sums
  <2>2. /\ A(14, "X5", "data") /\ A(14, "X7", "ints") /\ A(14, "X10", "lens")
        /\ A(14, "X12", "g") /\ A(14, "X13", "off") /\ A(14, "X15", "key")
        /\ A(14, "X16", "maskAt")
    BY RVVOps, RVVOuts, RVVRoles, <1>13, Behind
  <2> QED BY <2>1, <2>2 DEF After
<1>15. /\ J(15)
       /\ H(16, "X5", "data") /\ H(16, "X7", "ints") /\ H(16, "X10", "lens")
       /\ H(16, "X12", "g") /\ H(16, "X13", "off") /\ H(16, "X15", "key")
       /\ H(16, "V2", "mask")
  <2>1. J(15)
    BY RVVOps, RVVIns, RVVRoles, <1>14, SigParts, OneAddsUp, WideRule DEF isPPC
  <2>2. /\ A(15, "X5", "data") /\ A(15, "X7", "ints") /\ A(15, "X10", "lens")
        /\ A(15, "X12", "g") /\ A(15, "X13", "off") /\ A(15, "X15", "key")
        /\ A(15, "V2", "mask")
    BY RVVOps, RVVOuts, RVVRoles, <1>14, Behind
  <2> QED BY <2>1, <2>2 DEF After
<1>16. /\ J(16)
       /\ H(17, "X5", "data") /\ H(17, "X7", "ints") /\ H(17, "X10", "lens")
       /\ H(17, "X12", "g") /\ H(17, "X13", "off") /\ H(17, "X15", "key")
       /\ H(17, "V2", "mask") /\ H(17, "X17", "g16")
  <2>1. J(16)
    BY RVVOps, RVVIns, RVVRoles, <1>15, ScaleRule
  <2>2. /\ A(16, "X5", "data") /\ A(16, "X7", "ints") /\ A(16, "X10", "lens")
        /\ A(16, "X12", "g") /\ A(16, "X13", "off") /\ A(16, "X15", "key")
        /\ A(16, "V2", "mask") /\ A(16, "X17", "g16")
    BY RVVOps, RVVOuts, RVVRoles, <1>15, Behind
  <2> QED BY <2>1, <2>2 DEF After
<1>17. /\ J(17)
       /\ H(18, "X5", "data") /\ H(18, "X10", "lens") /\ H(18, "X12", "g")
       /\ H(18, "X13", "off") /\ H(18, "X15", "key") /\ H(18, "V2", "mask")
       /\ H(18, "X17", "intsAt")
  <2>1. J(17)
    BY RVVOps, RVVIns, RVVRoles, <1>16, TwoAddUp, SumRule DEF Sums
  <2>2. /\ A(17, "X5", "data") /\ A(17, "X10", "lens") /\ A(17, "X12", "g")
        /\ A(17, "X13", "off") /\ A(17, "X15", "key") /\ A(17, "V2", "mask")
        /\ A(17, "X17", "intsAt")
    BY RVVOps, RVVOuts, RVVRoles, <1>16, Behind
  <2> QED BY <2>1, <2>2 DEF After
<1>18. /\ J(18)
       /\ H(19, "X5", "data") /\ H(19, "X10", "lens") /\ H(19, "X12", "g")
       /\ H(19, "X13", "off") /\ H(19, "X15", "key") /\ H(19, "V2", "mask")
       /\ H(19, "V1", "vals")
  <2>1. J(18)
    BY RVVOps, RVVIns, RVVRoles, <1>17, SigParts, OneAddsUp, WideRule DEF isPPC
  <2>2. /\ A(18, "X5", "data") /\ A(18, "X10", "lens") /\ A(18, "X12", "g")
        /\ A(18, "X13", "off") /\ A(18, "X15", "key") /\ A(18, "V2", "mask")
        /\ A(18, "V1", "vals")
    BY RVVOps, RVVOuts, RVVRoles, <1>17, Behind
  <2> QED BY <2>1, <2>2 DEF After
<1>19. /\ J(19)
       /\ H(20, "X5", "data") /\ H(20, "X10", "lens") /\ H(20, "X12", "g")
       /\ H(20, "X13", "off") /\ H(20, "X15", "key") /\ H(20, "V3", "out")
  <2>1. J(19)
    BY RVVOps, RVVIns, RVVRoles, <1>18, SigParts, CombineRule DEF isPPC
  <2>2. /\ A(19, "X5", "data") /\ A(19, "X10", "lens") /\ A(19, "X12", "g")
        /\ A(19, "X13", "off") /\ A(19, "X15", "key") /\ A(19, "V3", "out")
    BY RVVOps, RVVOuts, RVVRoles, <1>18, Behind
  <2> QED BY <2>1, <2>2 DEF After
<1>20. /\ J(20)
       /\ H(21, "X10", "lens") /\ H(21, "X12", "g") /\ H(21, "X13", "off")
       /\ H(21, "X15", "key") /\ H(21, "V3", "out") /\ H(21, "X18", "dataAt")
  <2>1. J(20)
    BY RVVOps, RVVIns, RVVRoles, <1>19, TwoAddUp, SumRule DEF Sums
  <2>2. /\ A(20, "X10", "lens") /\ A(20, "X12", "g") /\ A(20, "X13", "off")
        /\ A(20, "X15", "key") /\ A(20, "V3", "out") /\ A(20, "X18", "dataAt")
    BY RVVOps, RVVOuts, RVVRoles, <1>19, Behind
  <2> QED BY <2>1, <2>2 DEF After
<1>21. /\ J(21)
       /\ H(22, "X10", "lens") /\ H(22, "X12", "g") /\ H(22, "X13", "off")
       /\ H(22, "X15", "key")
  <2>1. ~Stored(RVV, 21)
    BY RVVStores DEF Stored, Op
  <2>2. J(21)
    BY RVVOps, RVVIns, RVVRoles, RVVOuts, <1>20, <2>1, SigParts, OneAddsUp, StoreRule DEF isPPC
  <2>3. /\ A(21, "X10", "lens") /\ A(21, "X12", "g") /\ A(21, "X13", "off")
        /\ A(21, "X15", "key")
    BY RVVOps, RVVOuts, RVVRoles, <1>20, Behind
  <2> QED BY <2>2, <2>3 DEF After
<1>22. J(22) /\ H(23, "X12", "g") /\ H(23, "X13", "off") /\ H(23, "X19", "lenAt")
  <2>1. J(22)
    BY RVVOps, RVVIns, RVVRoles, <1>21, TwoAddUp, SumRule DEF Sums
  <2>2. A(22, "X12", "g") /\ A(22, "X13", "off") /\ A(22, "X19", "lenAt")
    BY RVVOps, RVVOuts, RVVRoles, <1>21, Behind
  <2> QED BY <2>1, <2>2 DEF After
<1>23. J(23) /\ H(24, "X12", "g") /\ H(24, "X13", "off") /\ H(24, "X20", "len")
  <2>1. J(23)
    BY RVVOps, RVVIns, RVVRoles, <1>22, OneAddsUp, ByteRule
  <2>2. A(23, "X12", "g") /\ A(23, "X13", "off") /\ A(23, "X20", "len")
    BY RVVOps, RVVOuts, RVVRoles, <1>22, Behind
  <2> QED BY <2>1, <2>2 DEF After
<1>24. J(24) /\ H(25, "X12", "g") /\ H(25, "X13", "nextOff")
  <2>1. J(24)
    BY RVVOps, RVVIns, RVVRoles, <1>23, TwoAddUp, SumRule DEF Sums
  <2>2. A(24, "X12", "g") /\ A(24, "X13", "nextOff")
    BY RVVOps, RVVOuts, RVVRoles, <1>23, Behind
  <2> QED BY <2>1, <2>2 DEF After
<1>25. J(25) /\ H(26, "X13", "nextOff") /\ H(26, "X12", "nextG")
  <2>1. J(25)
    BY RVVOps, RVVIns, RVVRoles, RVVOuts, <1>24, IncRule DEF next
  <2>2. A(25, "X13", "nextOff") /\ A(25, "X12", "nextG")
    BY RVVOps, RVVOuts, RVVRoles, <1>24, Behind
  <2> QED BY <2>1, <2>2 DEF After
<1>26. J(26)
  <2>1. Stored(RVV, 26)
    BY RVVStores DEF Stored, Op
  <2>2. J(26)
    BY RVVOps, RVVIns, RVVRoles, RVVOuts, <2>1, LoopRule
  <2> QED BY <2>2
<1>27. WellLooped(RVV, notesRVV)
  <2> SUFFICES ASSUME NEW k \in 1 .. 9, Live(RVV, notesRVV, k, 10)
               PROVE  \/ Role(notesRVV, k) \in Fixed
                      \/ /\ Role(notesRVV, k) \in Cursors
                         /\ H(26, Out(RVV, k), next[Role(notesRVV, k)])
    BY RVVOps DEF WellLooped, Role, Out, Loop, Size
  <2>1. k \in {1, 2, 3, 4, 5, 6, 7, 8, 9}
    OBVIOUS
  <2> HIDE DEF H
  <2> QED BY RVVOuts, RVVRoles, <1>25, <2>1 DEF Fixed, Cursors, next
<1>28. \A i \in 1 .. 26 : J(i)
  <2> TAKE i \in 1 .. 26
  <2>1. i \in {1, 2, 3, 4, 5, 6, 7, 8, 9, 10, 11, 12, 13, 14, 15, 16, 17, 18, 19, 20, 21, 22, 23, 24, 25, 26}
    OBVIOUS
  <2> HIDE DEF J
  <2> QED BY <2>1, <1>1, <1>2, <1>3, <1>4, <1>5, <1>6, <1>7, <1>8, <1>9, <1>10, <1>11, <1>12, <1>13, <1>14, <1>15, <1>16, <1>17, <1>18, <1>19, <1>20, <1>21, <1>22, <1>23, <1>24, <1>25, <1>26
<1> QED BY RVVOps, RVVOuts, <1>9, <1>27, <1>28 DEF Annotated, Size, Loop, Op

\* The LSX program: its instructions, what they set, what from, and the notes.
LEMMA LSXOps ==
  /\ Size(LSX) = 26 /\ Loop(LSX) = 10 /\ Op(LSX, 1) = "arg" /\ Op(LSX, 2) = "arg"
  /\ Op(LSX, 3) = "arg" /\ Op(LSX, 4) = "arg" /\ Op(LSX, 5) = "arg" /\ Op(LSX, 6) = "arg"
  /\ Op(LSX, 7) = "set" /\ Op(LSX, 8) = "set" /\ Op(LSX, 9) = "vzero"
  /\ Op(LSX, 10) = "jge" /\ Op(LSX, 11) = "sum" /\ Op(LSX, 12) = "byte"
  /\ Op(LSX, 13) = "shl4" /\ Op(LSX, 14) = "sum" /\ Op(LSX, 15) = "vload"
  /\ Op(LSX, 16) = "shl4" /\ Op(LSX, 17) = "sum" /\ Op(LSX, 18) = "vload"
  /\ Op(LSX, 19) = "VSHUFB" /\ Op(LSX, 20) = "sum" /\ Op(LSX, 21) = "vstore"
  /\ Op(LSX, 22) = "sum" /\ Op(LSX, 23) = "byte" /\ Op(LSX, 24) = "sum"
  /\ Op(LSX, 25) = "inc" /\ Op(LSX, 26) = "jmp"
BY DEF Op, Size, Loop, LSX, Program, LoadArgs, LoadArg, Set, Mov, Add, AddImm, Shl4,
       LoadByte, VLoad, VStore, VZero, Shuffle, JumpGE, JumpLoop

LEMMA LSXOuts ==
  /\ LSX.result = "R11" /\ Out(LSX, 1) = "R4" /\ Out(LSX, 2) = "R5" /\ Out(LSX, 3) = "R6"
  /\ Out(LSX, 4) = "R7" /\ Out(LSX, 5) = "R8" /\ Out(LSX, 6) = "R9" /\ Out(LSX, 7) = "R10"
  /\ Out(LSX, 8) = "R11" /\ Out(LSX, 9) = "V3" /\ Out(LSX, 10) = "none"
  /\ Out(LSX, 11) = "R12" /\ Out(LSX, 12) = "R13" /\ Out(LSX, 13) = "R14"
  /\ Out(LSX, 14) = "R14" /\ Out(LSX, 15) = "V1" /\ Out(LSX, 16) = "R15"
  /\ Out(LSX, 17) = "R15" /\ Out(LSX, 18) = "V0" /\ Out(LSX, 19) = "V2"
  /\ Out(LSX, 20) = "R16" /\ Out(LSX, 21) = "V2" /\ Out(LSX, 22) = "R17"
  /\ Out(LSX, 23) = "R18" /\ Out(LSX, 24) = "R11" /\ Out(LSX, 25) = "R10"
  /\ Out(LSX, 26) = "none"
BY DEF Out, LSX, Program, LoadArgs, LoadArg, Set, Mov, Add, AddImm, Shl4,
       LoadByte, VLoad, VStore, VZero, Shuffle, JumpGE, JumpLoop

LEMMA LSXIns ==
  /\ In(LSX, 1) = 1 /\ In(LSX, 2) = 2 /\ In(LSX, 3) = 3 /\ In(LSX, 4) = 4 /\ In(LSX, 5) = 5
  /\ In(LSX, 6) = 6 /\ In(LSX, 7) = 0 /\ In(LSX, 8) = 0 /\ In(LSX, 10) = Two("R10", "R7")
  /\ In(LSX, 11) = Two("R5", "R10") /\ In(LSX, 12) = One("R12") /\ In(LSX, 13) = One("R13")
  /\ In(LSX, 14) = Two("R8", "R14") /\ In(LSX, 15) = One("R14") /\ In(LSX, 16) = One("R10")
  /\ In(LSX, 17) = Two("R6", "R15") /\ In(LSX, 18) = One("R15")
  /\ In(LSX, 19) = Three("V1", "V0", "V3") /\ In(LSX, 20) = Two("R4", "R11")
  /\ In(LSX, 21) = One("R16") /\ In(LSX, 22) = Two("R9", "R13") /\ In(LSX, 23) = One("R17")
  /\ In(LSX, 24) = Two("R11", "R18") /\ In(LSX, 25) = 1
BY DEF In, One, Two, Three, LSX, Program, LoadArgs, LoadArg, Set, Mov, Add, AddImm, Shl4,
       LoadByte, VLoad, VStore, VZero, Shuffle, JumpGE, JumpLoop

LEMMA LSXRoles ==
  /\ Role(notesLSX, 1) = "data" /\ Role(notesLSX, 2) = "ctrl" /\ Role(notesLSX, 3) = "ints"
  /\ Role(notesLSX, 4) = "safe" /\ Role(notesLSX, 5) = "masks"
  /\ Role(notesLSX, 6) = "lens" /\ Role(notesLSX, 7) = "g" /\ Role(notesLSX, 8) = "off"
  /\ Role(notesLSX, 9) = "zero" /\ Role(notesLSX, 10) = "none"
  /\ Role(notesLSX, 11) = "ctrlAt" /\ Role(notesLSX, 12) = "key"
  /\ Role(notesLSX, 13) = "key16" /\ Role(notesLSX, 14) = "maskAt"
  /\ Role(notesLSX, 15) = "mask" /\ Role(notesLSX, 16) = "g16"
  /\ Role(notesLSX, 17) = "intsAt" /\ Role(notesLSX, 18) = "vals"
  /\ Role(notesLSX, 19) = "out" /\ Role(notesLSX, 20) = "dataAt"
  /\ Role(notesLSX, 21) = "out" /\ Role(notesLSX, 22) = "lenAt"
  /\ Role(notesLSX, 23) = "len" /\ Role(notesLSX, 24) = "nextOff"
  /\ Role(notesLSX, 25) = "nextG" /\ Role(notesLSX, 26) = "none"
BY DEF Role, notesLSX

\* The registers that the loop of LSX leaves alone.
LEMMA LSXFixed ==
  \A m \in 10 .. 26 : Out(LSX, m) \notin {"R4", "R5", "R6", "R7", "R8", "R9", "V3"}
<1> TAKE m \in 10 .. 26
<1>1. m \in {10, 11, 12, 13, 14, 15, 16, 17, 18, 19, 20, 21, 22, 23, 24, 25, 26}
  OBVIOUS
<1> QED BY <1>1, LSXOuts

LEMMA LSXStores == \A m \in 1 .. 26 : Op(LSX, m) \in StoreOps <=> m = 21
<1> TAKE m \in 1 .. 26
<1>1. m \in {1, 2, 3, 4, 5, 6, 7, 8, 9, 10, 11, 12, 13, 14, 15, 16, 17, 18, 19, 20, 21, 22, 23, 24, 25, 26}
  OBVIOUS
<1> QED BY <1>1, LSXOps DEF StoreOps

\* Every note of LSX follows.
LEMMA LSXAnnotated == Annotated(sig("loong64"), LSX, notesLSX)
<1> DEFINE J(i) == Justified(sig("loong64"), LSX, notesLSX, i)
           H(i, x, role) == Has(LSX, notesLSX, i, x, role)
           A(i, x, role) == After(LSX, notesLSX, i, x, role)
<1>1. J(1) /\ H(2, "R4", "data")
  <2>1. J(1)
    BY LSXOps, LSXIns, LSXRoles, SigParts, ArgRule
  <2>2. A(1, "R4", "data")
    BY LSXOps, LSXOuts, LSXRoles, Behind
  <2> QED BY <2>1, <2>2 DEF After
<1>2. J(2) /\ H(3, "R4", "data") /\ H(3, "R5", "ctrl")
  <2>1. J(2)
    BY LSXOps, LSXIns, LSXRoles, SigParts, ArgRule
  <2>2. A(2, "R4", "data") /\ A(2, "R5", "ctrl")
    BY LSXOps, LSXOuts, LSXRoles, <1>1, Behind
  <2> QED BY <2>1, <2>2 DEF After
<1>3. J(3) /\ H(4, "R4", "data") /\ H(4, "R5", "ctrl") /\ H(4, "R6", "ints")
  <2>1. J(3)
    BY LSXOps, LSXIns, LSXRoles, SigParts, ArgRule
  <2>2. A(3, "R4", "data") /\ A(3, "R5", "ctrl") /\ A(3, "R6", "ints")
    BY LSXOps, LSXOuts, LSXRoles, <1>2, Behind
  <2> QED BY <2>1, <2>2 DEF After
<1>4. /\ J(4)
      /\ H(5, "R4", "data") /\ H(5, "R5", "ctrl") /\ H(5, "R6", "ints")
      /\ H(5, "R7", "safe")
  <2>1. J(4)
    BY LSXOps, LSXIns, LSXRoles, SigParts, ArgRule
  <2>2. /\ A(4, "R4", "data") /\ A(4, "R5", "ctrl") /\ A(4, "R6", "ints")
        /\ A(4, "R7", "safe")
    BY LSXOps, LSXOuts, LSXRoles, <1>3, Behind
  <2> QED BY <2>1, <2>2 DEF After
<1>5. /\ J(5)
      /\ H(6, "R4", "data") /\ H(6, "R5", "ctrl") /\ H(6, "R6", "ints")
      /\ H(6, "R7", "safe") /\ H(6, "R8", "masks")
  <2>1. J(5)
    BY LSXOps, LSXIns, LSXRoles, SigParts, ArgRule
  <2>2. /\ A(5, "R4", "data") /\ A(5, "R5", "ctrl") /\ A(5, "R6", "ints")
        /\ A(5, "R7", "safe") /\ A(5, "R8", "masks")
    BY LSXOps, LSXOuts, LSXRoles, <1>4, Behind
  <2> QED BY <2>1, <2>2 DEF After
<1>6. /\ J(6)
      /\ H(7, "R4", "data") /\ H(7, "R5", "ctrl") /\ H(7, "R6", "ints")
      /\ H(7, "R7", "safe") /\ H(7, "R8", "masks") /\ H(7, "R9", "lens")
  <2>1. J(6)
    BY LSXOps, LSXIns, LSXRoles, SigParts, ArgRule
  <2>2. /\ A(6, "R4", "data") /\ A(6, "R5", "ctrl") /\ A(6, "R6", "ints")
        /\ A(6, "R7", "safe") /\ A(6, "R8", "masks") /\ A(6, "R9", "lens")
    BY LSXOps, LSXOuts, LSXRoles, <1>5, Behind
  <2> QED BY <2>1, <2>2 DEF After
<1>7. /\ J(7)
      /\ H(8, "R4", "data") /\ H(8, "R5", "ctrl") /\ H(8, "R6", "ints")
      /\ H(8, "R7", "safe") /\ H(8, "R8", "masks") /\ H(8, "R9", "lens")
      /\ H(8, "R10", "g")
  <2>1. J(7)
    BY LSXOps, LSXIns, LSXRoles, SigParts, SetRule
  <2>2. /\ A(7, "R4", "data") /\ A(7, "R5", "ctrl") /\ A(7, "R6", "ints")
        /\ A(7, "R7", "safe") /\ A(7, "R8", "masks") /\ A(7, "R9", "lens")
        /\ A(7, "R10", "g")
    BY LSXOps, LSXOuts, LSXRoles, <1>6, Behind
  <2> QED BY <2>1, <2>2 DEF After
<1>8. /\ J(8)
      /\ H(9, "R4", "data") /\ H(9, "R5", "ctrl") /\ H(9, "R6", "ints")
      /\ H(9, "R7", "safe") /\ H(9, "R8", "masks") /\ H(9, "R9", "lens")
      /\ H(9, "R10", "g") /\ H(9, "R11", "off")
  <2>1. J(8)
    BY LSXOps, LSXIns, LSXRoles, SigParts, SetRule
  <2>2. /\ A(8, "R4", "data") /\ A(8, "R5", "ctrl") /\ A(8, "R6", "ints")
        /\ A(8, "R7", "safe") /\ A(8, "R8", "masks") /\ A(8, "R9", "lens")
        /\ A(8, "R10", "g") /\ A(8, "R11", "off")
    BY LSXOps, LSXOuts, LSXRoles, <1>7, Behind
  <2> QED BY <2>1, <2>2 DEF After
<1>9. /\ J(9)
      /\ H(10, "R4", "data") /\ H(10, "R5", "ctrl") /\ H(10, "R6", "ints")
      /\ H(10, "R7", "safe") /\ H(10, "R8", "masks") /\ H(10, "R9", "lens")
      /\ H(10, "R10", "g") /\ H(10, "R11", "off") /\ H(10, "V3", "zero")
  <2>1. J(9)
    BY LSXOps, LSXIns, LSXRoles, ZeroRule
  <2>2. /\ A(9, "R4", "data") /\ A(9, "R5", "ctrl") /\ A(9, "R6", "ints")
        /\ A(9, "R7", "safe") /\ A(9, "R8", "masks") /\ A(9, "R9", "lens")
        /\ A(9, "R10", "g") /\ A(9, "R11", "off") /\ A(9, "V3", "zero")
    BY LSXOps, LSXOuts, LSXRoles, <1>8, Behind, LSXFixed DEF Cursors, next
  <2> QED BY <2>1, <2>2 DEF After
<1>10. /\ J(10)
       /\ H(11, "R4", "data") /\ H(11, "R5", "ctrl") /\ H(11, "R6", "ints")
       /\ H(11, "R8", "masks") /\ H(11, "R9", "lens") /\ H(11, "R10", "g")
       /\ H(11, "R11", "off") /\ H(11, "V3", "zero")
  <2>1. J(10)
    BY LSXOps, LSXIns, LSXRoles, LSXOuts, <1>9, CompareRule
  <2>2. /\ A(10, "R4", "data") /\ A(10, "R5", "ctrl") /\ A(10, "R6", "ints")
        /\ A(10, "R8", "masks") /\ A(10, "R9", "lens") /\ A(10, "R10", "g")
        /\ A(10, "R11", "off") /\ A(10, "V3", "zero")
    BY LSXOps, LSXOuts, LSXRoles, <1>9, Behind
  <2> QED BY <2>1, <2>2 DEF After
<1>11. /\ J(11)
       /\ H(12, "R4", "data") /\ H(12, "R6", "ints") /\ H(12, "R8", "masks")
       /\ H(12, "R9", "lens") /\ H(12, "R10", "g") /\ H(12, "R11", "off")
       /\ H(12, "V3", "zero") /\ H(12, "R12", "ctrlAt")
  <2>1. J(11)
    BY LSXOps, LSXIns, LSXRoles, <1>10, TwoAddUp, SumRule DEF Sums
  <2>2. /\ A(11, "R4", "data") /\ A(11, "R6", "ints") /\ A(11, "R8", "masks")
        /\ A(11, "R9", "lens") /\ A(11, "R10", "g") /\ A(11, "R11", "off")
        /\ A(11, "V3", "zero") /\ A(11, "R12", "ctrlAt")
    BY LSXOps, LSXOuts, LSXRoles, <1>10, Behind
  <2> QED BY <2>1, <2>2 DEF After
<1>12. /\ J(12)
       /\ H(13, "R4", "data") /\ H(13, "R6", "ints") /\ H(13, "R8", "masks")
       /\ H(13, "R9", "lens") /\ H(13, "R10", "g") /\ H(13, "R11", "off")
       /\ H(13, "V3", "zero") /\ H(13, "R13", "key")
  <2>1. J(12)
    BY LSXOps, LSXIns, LSXRoles, <1>11, OneAddsUp, ByteRule
  <2>2. /\ A(12, "R4", "data") /\ A(12, "R6", "ints") /\ A(12, "R8", "masks")
        /\ A(12, "R9", "lens") /\ A(12, "R10", "g") /\ A(12, "R11", "off")
        /\ A(12, "V3", "zero") /\ A(12, "R13", "key")
    BY LSXOps, LSXOuts, LSXRoles, <1>11, Behind
  <2> QED BY <2>1, <2>2 DEF After
<1>13. /\ J(13)
       /\ H(14, "R4", "data") /\ H(14, "R6", "ints") /\ H(14, "R8", "masks")
       /\ H(14, "R9", "lens") /\ H(14, "R10", "g") /\ H(14, "R11", "off")
       /\ H(14, "V3", "zero") /\ H(14, "R13", "key") /\ H(14, "R14", "key16")
  <2>1. J(13)
    BY LSXOps, LSXIns, LSXRoles, <1>12, ScaleRule
  <2>2. /\ A(13, "R4", "data") /\ A(13, "R6", "ints") /\ A(13, "R8", "masks")
        /\ A(13, "R9", "lens") /\ A(13, "R10", "g") /\ A(13, "R11", "off")
        /\ A(13, "V3", "zero") /\ A(13, "R13", "key") /\ A(13, "R14", "key16")
    BY LSXOps, LSXOuts, LSXRoles, <1>12, Behind
  <2> QED BY <2>1, <2>2 DEF After
<1>14. /\ J(14)
       /\ H(15, "R4", "data") /\ H(15, "R6", "ints") /\ H(15, "R9", "lens")
       /\ H(15, "R10", "g") /\ H(15, "R11", "off") /\ H(15, "V3", "zero")
       /\ H(15, "R13", "key") /\ H(15, "R14", "maskAt")
  <2>1. J(14)
    BY LSXOps, LSXIns, LSXRoles, <1>13, TwoAddUp, SumRule DEF Sums
  <2>2. /\ A(14, "R4", "data") /\ A(14, "R6", "ints") /\ A(14, "R9", "lens")
        /\ A(14, "R10", "g") /\ A(14, "R11", "off") /\ A(14, "V3", "zero")
        /\ A(14, "R13", "key") /\ A(14, "R14", "maskAt")
    BY LSXOps, LSXOuts, LSXRoles, <1>13, Behind
  <2> QED BY <2>1, <2>2 DEF After
<1>15. /\ J(15)
       /\ H(16, "R4", "data") /\ H(16, "R6", "ints") /\ H(16, "R9", "lens")
       /\ H(16, "R10", "g") /\ H(16, "R11", "off") /\ H(16, "V3", "zero")
       /\ H(16, "R13", "key") /\ H(16, "V1", "mask")
  <2>1. J(15)
    BY LSXOps, LSXIns, LSXRoles, <1>14, SigParts, OneAddsUp, WideRule DEF isPPC
  <2>2. /\ A(15, "R4", "data") /\ A(15, "R6", "ints") /\ A(15, "R9", "lens")
        /\ A(15, "R10", "g") /\ A(15, "R11", "off") /\ A(15, "V3", "zero")
        /\ A(15, "R13", "key") /\ A(15, "V1", "mask")
    BY LSXOps, LSXOuts, LSXRoles, <1>14, Behind
  <2> QED BY <2>1, <2>2 DEF After
<1>16. /\ J(16)
       /\ H(17, "R4", "data") /\ H(17, "R6", "ints") /\ H(17, "R9", "lens")
       /\ H(17, "R10", "g") /\ H(17, "R11", "off") /\ H(17, "V3", "zero")
       /\ H(17, "R13", "key") /\ H(17, "V1", "mask") /\ H(17, "R15", "g16")
  <2>1. J(16)
    BY LSXOps, LSXIns, LSXRoles, <1>15, ScaleRule
  <2>2. /\ A(16, "R4", "data") /\ A(16, "R6", "ints") /\ A(16, "R9", "lens")
        /\ A(16, "R10", "g") /\ A(16, "R11", "off") /\ A(16, "V3", "zero")
        /\ A(16, "R13", "key") /\ A(16, "V1", "mask") /\ A(16, "R15", "g16")
    BY LSXOps, LSXOuts, LSXRoles, <1>15, Behind
  <2> QED BY <2>1, <2>2 DEF After
<1>17. /\ J(17)
       /\ H(18, "R4", "data") /\ H(18, "R9", "lens") /\ H(18, "R10", "g")
       /\ H(18, "R11", "off") /\ H(18, "V3", "zero") /\ H(18, "R13", "key")
       /\ H(18, "V1", "mask") /\ H(18, "R15", "intsAt")
  <2>1. J(17)
    BY LSXOps, LSXIns, LSXRoles, <1>16, TwoAddUp, SumRule DEF Sums
  <2>2. /\ A(17, "R4", "data") /\ A(17, "R9", "lens") /\ A(17, "R10", "g")
        /\ A(17, "R11", "off") /\ A(17, "V3", "zero") /\ A(17, "R13", "key")
        /\ A(17, "V1", "mask") /\ A(17, "R15", "intsAt")
    BY LSXOps, LSXOuts, LSXRoles, <1>16, Behind
  <2> QED BY <2>1, <2>2 DEF After
<1>18. /\ J(18)
       /\ H(19, "R4", "data") /\ H(19, "R9", "lens") /\ H(19, "R10", "g")
       /\ H(19, "R11", "off") /\ H(19, "V3", "zero") /\ H(19, "R13", "key")
       /\ H(19, "V1", "mask") /\ H(19, "V0", "vals")
  <2>1. J(18)
    BY LSXOps, LSXIns, LSXRoles, <1>17, SigParts, OneAddsUp, WideRule DEF isPPC
  <2>2. /\ A(18, "R4", "data") /\ A(18, "R9", "lens") /\ A(18, "R10", "g")
        /\ A(18, "R11", "off") /\ A(18, "V3", "zero") /\ A(18, "R13", "key")
        /\ A(18, "V1", "mask") /\ A(18, "V0", "vals")
    BY LSXOps, LSXOuts, LSXRoles, <1>17, Behind
  <2> QED BY <2>1, <2>2 DEF After
<1>19. /\ J(19)
       /\ H(20, "R4", "data") /\ H(20, "R9", "lens") /\ H(20, "R10", "g")
       /\ H(20, "R11", "off") /\ H(20, "R13", "key") /\ H(20, "V2", "out")
  <2>1. J(19)
    BY LSXOps, LSXIns, LSXRoles, <1>18, SigParts, CombineRule DEF isPPC
  <2>2. /\ A(19, "R4", "data") /\ A(19, "R9", "lens") /\ A(19, "R10", "g")
        /\ A(19, "R11", "off") /\ A(19, "R13", "key") /\ A(19, "V2", "out")
    BY LSXOps, LSXOuts, LSXRoles, <1>18, Behind
  <2> QED BY <2>1, <2>2 DEF After
<1>20. /\ J(20)
       /\ H(21, "R9", "lens") /\ H(21, "R10", "g") /\ H(21, "R11", "off")
       /\ H(21, "R13", "key") /\ H(21, "V2", "out") /\ H(21, "R16", "dataAt")
  <2>1. J(20)
    BY LSXOps, LSXIns, LSXRoles, <1>19, TwoAddUp, SumRule DEF Sums
  <2>2. /\ A(20, "R9", "lens") /\ A(20, "R10", "g") /\ A(20, "R11", "off")
        /\ A(20, "R13", "key") /\ A(20, "V2", "out") /\ A(20, "R16", "dataAt")
    BY LSXOps, LSXOuts, LSXRoles, <1>19, Behind
  <2> QED BY <2>1, <2>2 DEF After
<1>21. /\ J(21)
       /\ H(22, "R9", "lens") /\ H(22, "R10", "g") /\ H(22, "R11", "off")
       /\ H(22, "R13", "key")
  <2>1. ~Stored(LSX, 21)
    BY LSXStores DEF Stored, Op
  <2>2. J(21)
    BY LSXOps, LSXIns, LSXRoles, LSXOuts, <1>20, <2>1, SigParts, OneAddsUp, StoreRule DEF isPPC
  <2>3. /\ A(21, "R9", "lens") /\ A(21, "R10", "g") /\ A(21, "R11", "off")
        /\ A(21, "R13", "key")
    BY LSXOps, LSXOuts, LSXRoles, <1>20, Behind
  <2> QED BY <2>2, <2>3 DEF After
<1>22. J(22) /\ H(23, "R10", "g") /\ H(23, "R11", "off") /\ H(23, "R17", "lenAt")
  <2>1. J(22)
    BY LSXOps, LSXIns, LSXRoles, <1>21, TwoAddUp, SumRule DEF Sums
  <2>2. A(22, "R10", "g") /\ A(22, "R11", "off") /\ A(22, "R17", "lenAt")
    BY LSXOps, LSXOuts, LSXRoles, <1>21, Behind
  <2> QED BY <2>1, <2>2 DEF After
<1>23. J(23) /\ H(24, "R10", "g") /\ H(24, "R11", "off") /\ H(24, "R18", "len")
  <2>1. J(23)
    BY LSXOps, LSXIns, LSXRoles, <1>22, OneAddsUp, ByteRule
  <2>2. A(23, "R10", "g") /\ A(23, "R11", "off") /\ A(23, "R18", "len")
    BY LSXOps, LSXOuts, LSXRoles, <1>22, Behind
  <2> QED BY <2>1, <2>2 DEF After
<1>24. J(24) /\ H(25, "R10", "g") /\ H(25, "R11", "nextOff")
  <2>1. J(24)
    BY LSXOps, LSXIns, LSXRoles, <1>23, TwoAddUp, SumRule DEF Sums
  <2>2. A(24, "R10", "g") /\ A(24, "R11", "nextOff")
    BY LSXOps, LSXOuts, LSXRoles, <1>23, Behind
  <2> QED BY <2>1, <2>2 DEF After
<1>25. J(25) /\ H(26, "R11", "nextOff") /\ H(26, "R10", "nextG")
  <2>1. J(25)
    BY LSXOps, LSXIns, LSXRoles, LSXOuts, <1>24, IncRule DEF next
  <2>2. A(25, "R11", "nextOff") /\ A(25, "R10", "nextG")
    BY LSXOps, LSXOuts, LSXRoles, <1>24, Behind
  <2> QED BY <2>1, <2>2 DEF After
<1>26. J(26)
  <2>1. Stored(LSX, 26)
    BY LSXStores DEF Stored, Op
  <2>2. J(26)
    BY LSXOps, LSXIns, LSXRoles, LSXOuts, <2>1, LoopRule
  <2> QED BY <2>2
<1>27. WellLooped(LSX, notesLSX)
  <2> SUFFICES ASSUME NEW k \in 1 .. 9, Live(LSX, notesLSX, k, 10)
               PROVE  \/ Role(notesLSX, k) \in Fixed
                      \/ /\ Role(notesLSX, k) \in Cursors
                         /\ H(26, Out(LSX, k), next[Role(notesLSX, k)])
    BY LSXOps DEF WellLooped, Role, Out, Loop, Size
  <2>1. k \in {1, 2, 3, 4, 5, 6, 7, 8, 9}
    OBVIOUS
  <2> HIDE DEF H
  <2> QED BY LSXOuts, LSXRoles, <1>25, <2>1 DEF Fixed, Cursors, next
<1>28. \A i \in 1 .. 26 : J(i)
  <2> TAKE i \in 1 .. 26
  <2>1. i \in {1, 2, 3, 4, 5, 6, 7, 8, 9, 10, 11, 12, 13, 14, 15, 16, 17, 18, 19, 20, 21, 22, 23, 24, 25, 26}
    OBVIOUS
  <2> HIDE DEF J
  <2> QED BY <2>1, <1>1, <1>2, <1>3, <1>4, <1>5, <1>6, <1>7, <1>8, <1>9, <1>10, <1>11, <1>12, <1>13, <1>14, <1>15, <1>16, <1>17, <1>18, <1>19, <1>20, <1>21, <1>22, <1>23, <1>24, <1>25, <1>26
<1> QED BY LSXOps, LSXOuts, <1>9, <1>27, <1>28 DEF Annotated, Size, Loop, Op

\* The program of every target with a kernel has its notes.
LEMMA ProgAnnotated == platform \in hasEncodeKernel => Annotated(sig(platform), prog, notes)
<1> SUFFICES ASSUME platform \in hasEncodeKernel
             PROVE  Annotated(sig(platform), prog, notes)
  OBVIOUS
<1>1. platform \in {"amd64", "arm64", "power9", "s390x", "riscv64", "loong64"}
  BY DEF hasEncodeKernel, Platforms
<1>2. CASE platform = "amd64"
  BY <1>2, SSEAnnotated DEF prog, notes
<1>3. CASE platform = "arm64"
  BY <1>3, NEONAnnotated DEF prog, notes
<1>4. CASE platform = "power9"
  BY <1>4, VSXAnnotated DEF prog, notes
<1>5. CASE platform = "s390x"
  BY <1>5, VXAnnotated DEF prog, notes
<1>6. CASE platform = "riscv64"
  BY <1>6, RVVAnnotated DEF prog, notes
<1>7. CASE platform = "loong64"
  BY <1>7, LSXAnnotated DEF prog, notes
<1> QED BY <1>1, <1>2, <1>3, <1>4, <1>5, <1>6, <1>7

-----------------------------------------------------------------------------
(* What the kernels find in memory.                                        *)

\* The objects of a call do not overlap.
LEMMA ObjectsApart ==
  ASSUME NEW s, NEW d, Apart(s, d)
  PROVE  /\ srcAt + s <= dstAt \/ dstAt + d <= srcAt
         /\ srcAt + s <= masksAt \/ masksAt + 256 * wide <= srcAt
         /\ srcAt + s <= lensAt \/ lensAt + 256 <= srcAt
         /\ srcAt + s <= revAt \/ revAt + wide <= srcAt
         /\ dstAt + d <= masksAt \/ masksAt + 256 * wide <= dstAt
         /\ dstAt + d <= lensAt \/ lensAt + 256 <= dstAt
         /\ dstAt + d <= revAt \/ revAt + wide <= dstAt
         /\ masksAt + 256 * wide <= lensAt \/ lensAt + 256 <= masksAt
         /\ masksAt + 256 * wide <= revAt \/ revAt + wide <= masksAt
         /\ lensAt + 256 <= revAt \/ revAt + wide <= lensAt
<1> DEFINE objects == [src |-> <<srcAt, s>>, dst |-> <<dstAt, d>>,
                       masks |-> <<masksAt, 256 * wide>>, lens |-> <<lensAt, 256>>,
                       rev |-> <<revAt, wide>>]
<1>1. \A x, y \in DOMAIN objects : x # y =>
        \/ objects[x][1] + objects[x][2] <= objects[y][1]
        \/ objects[y][1] + objects[y][2] <= objects[x][1]
  BY DEF Apart
<1>2. /\ objects["src"] = <<srcAt, s>> /\ objects["dst"] = <<dstAt, d>>
      /\ objects["masks"] = <<masksAt, 256 * wide>> /\ objects["lens"] = <<lensAt, 256>>
      /\ objects["rev"] = <<revAt, wide>>
      /\ {"src", "dst", "masks", "lens", "rev"} \subseteq DOMAIN objects
  OBVIOUS
<1> HIDE DEF objects
<1> QED BY <1>1, <1>2

\* What the checks and the scan have established for the kernel.
LEMMA AtKernel ==
  ASSUME IndInv, pc = "kernel"
  PROVE  /\ platform \in hasEncodeKernel
         /\ n \in Nat /\ len \in Nat /\ cl \in Nat /\ groups \in Nat /\ cl <= len
         /\ g \in Nat /\ safe \in Nat /\ g <= safe /\ safe <= groups /\ groups <= cl
         /\ 4 * groups <= n /\ cl + dataLen = len /\ dataLen \in Int
         /\ off = start[4 * g] /\ GroupChain(safe) /\ StoresFit(safe)
         /\ dst \in [0 .. len + wide - 1 -> Byte] /\ src \in [0 .. n - 1 -> Value]
         /\ start \in [0 .. n -> Nat]
<1>1. TypeOK /\ Entered /\ KernelCursor
  BY DEF IndInv
<1>2. n \in Nat /\ len \in Nat
  BY <1>1 DEF TypeOK
<1>3. /\ cl \in Nat /\ groups \in Nat /\ dataLen \in Int /\ groups <= cl /\ 4 * groups <= n
      /\ cl + dataLen = len
  BY <1>2, Counts
<1> QED BY <1>1, <1>2, <1>3 DEF TypeOK, Entered, KernelCursor

\* A call is one that Call makes.
Called == n \in Lengths /\ len <= EncodedMaxLen(n) + Slack

\* What each address holds.
LEMMA Memory ==
  ASSUME IndInv, pc = "kernel", Called
  PROVE  /\ \A a \in dstAt .. dstAt + len - 1 : Read(a) = dst[a - dstAt]
         /\ \A a \in srcBytes :
              Read(a) = nativeBytes(platform, [lane \in Lane |-> src[(a - srcAt) \div 4]])
                          [(a - srcAt) % 4]
         /\ \A a \in maskBytes : Read(a) = masks[(a - masksAt) \div wide][(a - masksAt) % wide]
         /\ \A a \in lensBytes : Read(a) = lengthTable[a - lensAt]
         /\ \A a \in revBytes : Read(a) = a - revAt
<1> DEFINE s == 4 * n
           d == EncodedMaxLen(n) + Slack
<1>1. /\ n \in Nat /\ len \in Nat /\ cl \in Nat /\ cl <= len /\ len <= d
      /\ srcAt \in Int /\ dstAt \in Int /\ masksAt \in Int /\ lensAt \in Int /\ revAt \in Int
  BY AtKernel, MemoryAssumption DEF Called
<1>2. Apart(s, d)
  BY MemoryAssumption DEF Called
<1>3. d \in Int
  BY <1>1, InputAssumption DEF EncodedMaxLen, controlLen
<1> HIDE DEF s, d
<1>4. /\ srcAt + s <= dstAt \/ dstAt + d <= srcAt
      /\ srcAt + s <= masksAt \/ masksAt + 256 * wide <= srcAt
      /\ srcAt + s <= lensAt \/ lensAt + 256 <= srcAt
      /\ srcAt + s <= revAt \/ revAt + wide <= srcAt
      /\ dstAt + d <= masksAt \/ masksAt + 256 * wide <= dstAt
      /\ dstAt + d <= lensAt \/ lensAt + 256 <= dstAt
      /\ dstAt + d <= revAt \/ revAt + wide <= dstAt
      /\ masksAt + 256 * wide <= lensAt \/ lensAt + 256 <= masksAt
      /\ masksAt + 256 * wide <= revAt \/ revAt + wide <= masksAt
      /\ lensAt + 256 <= revAt \/ revAt + wide <= lensAt
  BY <1>2, ObjectsApart
<1>5. \A a : a \in ctrlBytes \cup dataBytes <=> a \in dstAt .. dstAt + len - 1
  BY <1>1 DEF ctrlBytes, dataBytes
<1>6. \A a \in srcBytes : a \notin ctrlBytes \cup dataBytes
  BY <1>1, <1>3, <1>4, <1>5 DEF srcBytes, s
<1>7. \A a \in maskBytes : a \notin ctrlBytes \cup dataBytes /\ a \notin srcBytes
  BY <1>1, <1>3, <1>4, <1>5 DEF srcBytes, maskBytes, s, wide
<1>8. \A a \in lensBytes :
        a \notin ctrlBytes \cup dataBytes /\ a \notin srcBytes /\ a \notin maskBytes
  BY <1>1, <1>3, <1>4, <1>5 DEF srcBytes, maskBytes, lensBytes, s, wide
<1>9. \A a \in revBytes : /\ a \notin ctrlBytes \cup dataBytes /\ a \notin srcBytes
                          /\ a \notin maskBytes /\ a \notin lensBytes
  BY <1>1, <1>3, <1>4, <1>5 DEF srcBytes, maskBytes, lensBytes, revBytes, s, wide
<1>10. \A a \in dstAt .. dstAt + len - 1 : Read(a) = dst[a - dstAt]
  BY <1>5, <1>6 DEF Read
<1>11. \A a \in srcBytes :
         Read(a) = nativeBytes(platform, [lane \in Lane |-> src[(a - srcAt) \div 4]])
                     [(a - srcAt) % 4]
  BY <1>6 DEF Read
<1>12. \A a : a \notin ctrlBytes \cup dataBytes /\ a \notin srcBytes =>
                Read(a) = readTables(masks, a)
  BY DEF Read
<1>13. \A a \in maskBytes : Read(a) = masks[(a - masksAt) \div wide][(a - masksAt) % wide]
  <2> TAKE a \in maskBytes
  <2>1. Read(a) = readTables(masks, a) /\ a \notin lensBytes /\ a \notin revBytes
    BY <1>7, <1>8, <1>9, <1>12
  <2> QED BY <2>1 DEF readTables
<1>14. \A a \in lensBytes : Read(a) = lengthTable[a - lensAt]
  <2> TAKE a \in lensBytes
  <2>1. Read(a) = readTables(masks, a) /\ a \notin maskBytes /\ a \notin revBytes
    BY <1>8, <1>9, <1>12
  <2> QED BY <2>1 DEF readTables
<1>15. \A a \in revBytes : Read(a) = a - revAt
  <2> TAKE a \in revBytes
  <2>1. Read(a) = readTables(masks, a) /\ a \notin maskBytes /\ a \notin lensBytes
    BY <1>9, <1>12
  <2> QED BY <2>1 DEF readTables
<1> QED BY <1>10, <1>11, <1>13, <1>14, <1>15

\* The four integers of a group.
groupVals(h) == [lane \in Lane |-> src[4 * h + lane]]

\* What a kernel loads for a group that it takes.
LEMMA GroupMemory ==
  ASSUME IndInv, pc = "kernel", Called, NEW h \in 0 .. safe - 1
  PROVE  /\ Read(dstAt + h) = dst[h] /\ dst[h] \in Byte
         /\ window(srcAt + 16 * h, Read) = nativeBytes(platform, groupVals(h))
<1>1. /\ n \in Nat /\ len \in Nat /\ cl \in Nat /\ cl <= len /\ safe \in Nat
      /\ safe <= groups /\ groups \in Nat /\ groups <= cl /\ 4 * groups <= n
      /\ dst \in [0 .. len + wide - 1 -> Byte]
      /\ srcAt \in Int /\ dstAt \in Int
  BY AtKernel, MemoryAssumption
<1>2. h \in Nat /\ h < safe /\ h < len
  BY <1>1
<1>3. Read(dstAt + h) = dst[h]
  <2>1. dstAt + h \in dstAt .. dstAt + len - 1 /\ (dstAt + h) - dstAt = h
    BY <1>1, <1>2
  <2> QED BY <2>1, Memory
<1>4. dst[h] \in Byte
  BY <1>1, <1>2 DEF wide
<1>5. ASSUME NEW k \in Index
      PROVE  Read(srcAt + 16 * h + k) = nativeBytes(platform, groupVals(h))[k]
  <2> DEFINE a == srcAt + 16 * h + k
             i == 4 * h + (k \div 4)
             one == [lane \in Lane |-> src[(a - srcAt) \div 4]]
  <2>1. /\ k \in 0 .. 15 /\ k \div 4 \in Lane /\ k % 4 \in Lane /\ 3 - (k % 4) \in Lane
    BY DEF Index, wide, Lane
  <2>2. a \in srcBytes
    BY <1>1, <1>2, <2>1 DEF srcBytes
  <2>3. a - srcAt = 16 * h + k
    BY <1>1, <1>2, <2>1
  <2>4. (a - srcAt) \div 4 = i /\ (a - srcAt) % 4 = k % 4
    <3>1. (16 * h + k) \div 4 = i /\ (16 * h + k) % 4 = k % 4
      BY <1>2, <2>1
    <3> QED BY <2>3, <3>1
  <2>5. Read(a) = nativeBytes(platform, one)[k % 4]
    BY <2>2, <2>4, Memory
  <2>6. k % 4 \in Index /\ (k % 4) \div 4 = 0 /\ (k % 4) % 4 = k % 4 /\ 0 \in Lane
    BY <2>1 DEF Index, wide, Lane
  <2>7. one[0] = src[i] /\ groupVals(h)[k \div 4] = src[i]
    BY <2>1, <2>4, <2>6 DEF groupVals
  <2> HIDE DEF a, i, one
  <2>8. nativeBytes(platform, one)[k % 4]
          = IF platform = "s390x" THEN src[i][3 - (k % 4)] ELSE src[i][k % 4]
    BY <2>6, <2>7 DEF nativeBytes
  <2>9. nativeBytes(platform, groupVals(h))[k]
          = IF platform = "s390x" THEN src[i][3 - (k % 4)] ELSE src[i][k % 4]
    BY <2>7 DEF nativeBytes
  <2> QED BY <2>5, <2>8, <2>9 DEF a
<1>6. window(srcAt + 16 * h, Read) = nativeBytes(platform, groupVals(h))
  <2>1. window(srcAt + 16 * h, Read) = [k \in Index |-> nativeBytes(platform, groupVals(h))[k]]
    BY <1>5 DEF window
  <2> QED BY <2>1 DEF nativeBytes
<1> QED BY <1>3, <1>4, <1>6

\* What it finds in the tables.
LEMMA TableMemory ==
  ASSUME IndInv, pc = "kernel", Called
  PROVE  /\ \A k \in Byte : /\ Read(lensAt + k) = lengthTable[k]
                            /\ window(masksAt + 16 * k, Read) = masks[k]
         /\ LXVD2X(window(revAt, Read)) = vrev
<1>1. masksAt \in Int /\ lensAt \in Int /\ revAt \in Int
  BY MemoryAssumption
<1>2. ASSUME NEW k \in Byte PROVE Read(lensAt + k) = lengthTable[k]
  <2>1. lensAt + k \in lensBytes /\ (lensAt + k) - lensAt = k
    BY <1>1 DEF lensBytes, Byte
  <2> QED BY <2>1, Memory
<1>3. ASSUME NEW k \in Byte PROVE window(masksAt + 16 * k, Read) = masks[k]
  <2>1. ASSUME NEW x \in Index PROVE Read(masksAt + 16 * k + x) = masks[k][x]
    <3>1. k \in 0 .. 255 /\ x \in 0 .. 15
      BY DEF Byte, Index, wide
    <3>2. /\ masksAt + 16 * k + x \in maskBytes
          /\ (masksAt + 16 * k + x) - masksAt = 16 * k + x
      BY <1>1, <3>1 DEF maskBytes, wide
    <3>3. (16 * k + x) \div 16 = k /\ (16 * k + x) % 16 = x
      BY <3>1
    <3> QED BY <3>2, <3>3, Memory DEF wide
  <2>2. masks[k] = [x \in Index |-> masks[k][x]]
    <3>1. /\ encodeShuffleTable[k] = [p \in Index |-> encodeShuffleTable[k][p]]
          /\ encodeShuffleTablePerm[k] = [p \in Index |-> encodeShuffleTablePerm[k][p]]
          /\ encodeShuffleTablePermBE[k] = [p \in Index |-> encodeShuffleTablePermBE[k][p]]
      BY DEF encodeShuffleTable, encodeShuffleTablePerm, encodeShuffleTablePermBE
    <3>2. \/ masks = encodeShuffleTable \/ masks = encodeShuffleTablePerm
          \/ masks = encodeShuffleTablePermBE
      BY DEF masks
    <3> QED BY <3>1, <3>2
  <2>3. window(masksAt + 16 * k, Read) = [x \in Index |-> masks[k][x]]
    BY <2>1 DEF window
  <2> QED BY <2>2, <2>3
<1>4. window(revAt, Read) = [k \in Index |-> k]
  <2>1. ASSUME NEW k \in Index PROVE Read(revAt + k) = k
    <3>1. revAt + k \in revBytes /\ (revAt + k) - revAt = k
      BY <1>1 DEF revBytes, Index, wide
    <3> QED BY <3>1, Memory
  <2> QED BY <2>1 DEF window
<1> QED BY <1>2, <1>3, <1>4 DEF vrev

-----------------------------------------------------------------------------
(* The registers: AsmInv is inductive.                                     *)

\* What the roles are about, for the group at hand.
LEMMA EnvFacts ==
  ASSUME IndInv, pc = "kernel", Called, Rolls
  PROVE  /\ group \in 0 .. safe /\ Scalars(env)
         /\ env.data = dstAt + cl /\ env.ctrl = dstAt /\ env.ints = srcAt /\ env.safe = safe
         /\ env.masks = masksAt /\ env.lens = lensAt /\ env.rev = revAt
         /\ env.g = group /\ env.off = start[4 * group] /\ env.reversal = vrev
         /\ group < safe =>
              /\ Loaded(env) /\ env.key = dst[group] /\ env.key \in Byte
              /\ env.len = lengthTable[env.key] /\ env.mask = masks[env.key]
              /\ env.vals = nativeBytes(platform, groupVals(group))
<1>1. /\ n \in Nat /\ cl \in Nat /\ g \in Nat /\ safe \in Nat /\ g <= safe
      /\ safe <= groups /\ groups \in Nat /\ 4 * groups <= n
      /\ start \in [0 .. n -> Nat]
      /\ srcAt \in Int /\ dstAt \in Int /\ masksAt \in Int /\ lensAt \in Int /\ revAt \in Int
  BY AtKernel, MemoryAssumption
<1>2. group \in 0 .. safe
  <2>1. group = g \/ group = g - 1
    BY DEF group
  <2>2. group >= 0
    BY DEF Rolls
  <2> QED BY <1>1, <2>1, <2>2
<1>3. /\ env.data = dstAt + cl /\ env.ctrl = dstAt /\ env.ints = srcAt /\ env.safe = safe
      /\ env.masks = masksAt /\ env.lens = lensAt /\ env.rev = revAt
      /\ env.g = group /\ env.off = start[4 * group]
      /\ env.key = keyRead /\ env.len = Read(lensAt + keyRead)
      /\ env.mask = window(masksAt + 16 * keyRead, Read)
      /\ env.vals = window(srcAt + 16 * group, Read)
      /\ env.reversal = LXVD2X(window(revAt, Read))
  BY DEF env
<1> HIDE DEF env, group
<1>4. start[4 * group] \in Nat
  <2>1. 4 * group \in 0 .. n
    BY <1>1, <1>2
  <2> QED BY <1>1, <2>1
<1>5. Scalars(env)
  BY <1>1, <1>2, <1>3, <1>4 DEF Scalars
<1>6. env.reversal = vrev
  BY <1>3, TableMemory
<1>7. ASSUME group < safe
      PROVE  /\ Loaded(env) /\ env.key = dst[group] /\ env.key \in Byte
             /\ env.len = lengthTable[env.key] /\ env.mask = masks[env.key]
             /\ env.vals = nativeBytes(platform, groupVals(group))
  <2>1. group \in 0 .. safe - 1
    BY <1>1, <1>2, <1>7
  <2>2. /\ keyRead = dst[group] /\ dst[group] \in Byte
        /\ env.vals = nativeBytes(platform, groupVals(group))
    BY <1>3, <2>1, GroupMemory DEF keyRead
  <2>3. env.len = lengthTable[keyRead] /\ env.mask = masks[keyRead]
    BY <1>3, <2>2, TableMemory
  <2>4. lengthTable[keyRead] \in Int /\ keyRead \in Int
    BY SMTT(40), <2>2, LengthType DEF Byte, wide
  <2> QED BY <1>3, <2>2, <2>3, <2>4 DEF Loaded
<1> QED BY <1>2, <1>3, <1>5, <1>6, <1>7

\* A step of the kernel that touches none of Encode's variables leaves memory alone.
LEMMA SameMemory ==
  ASSUME UNCHANGED vars
  PROVE  /\ prog' = prog /\ notes' = notes /\ frame' = frame
         /\ group' = group => env' = env
         /\ (env.reversal)' = env.reversal
<1> USE DEF vars, callVars, groupVars, tailVars
<1>1. prog' = prog /\ notes' = notes /\ frame' = frame
  BY DEF prog, notes, frame, cl
<1>2. ASSUME NEW a PROVE Read(a)' = Read(a)
  BY DEF Read, readTables, masks, ctrlBytes, dataBytes, srcBytes, cl
<1>3. \A a : window(a, Read)' = window(a, Read)
  BY <1>2 DEF window
<1>4. ASSUME group' = group PROVE env' = env
  <2>1. keyRead' = keyRead
    BY <1>2, <1>4 DEF keyRead
  <2>2. cl' = cl /\ start' = start /\ safe' = safe
    BY DEF cl
  <2> QED BY <1>2, <1>3, <1>4, <2>1, <2>2 DEF env
<1>5. (env.reversal)' = env.reversal
  BY <1>3 DEF env
<1> QED BY <1>1, <1>4, <1>5

\* What a scalar or a vector instruction of the kernel puts in its register.
LEMMA Computed ==
  ASSUME NEW p, p = prog, p.code[ip] = fetched,
         \/ ExecuteScalar(fetched, frame, Read) \/ ExecuteVector(fetched, Read)
  PROVE  /\ fetched.op \in ScalarOps \cup VectorOps /\ ip' = ip + 1
         /\ \E val : /\ r' = [x \in DOMAIN r \cup {fetched.out} |->
                                IF x = fetched.out THEN val ELSE r[x]]
                     /\ Computes(sig(platform), p, ip, r, env, frame, val)
<1> DEFINE i == fetched
           e == env
           s == sig(platform)
<1>1. /\ e.ctrl + e.g = dstAt + group /\ e.lens + e.key = lensAt + keyRead
      /\ e.masks + 16 * e.key = masksAt + 16 * keyRead /\ e.rev = revAt
      /\ e.key = Read(dstAt + group) /\ e.len = Read(lensAt + keyRead)
      /\ e.mask = window(masksAt + 16 * keyRead, Read)
      /\ e.vals = window(srcAt + 16 * group, Read)
      /\ e.reversal = LXVD2X(window(revAt, Read))
  BY DEF env, keyRead
<1>2. Means(s.platform, e)[s.load] = {srcAt + 16 * group}
  <2>1. s.load = "intsAt" /\ e.ints = srcAt /\ e.g = group
    BY DEF sig, env
  <2> QED BY <2>1, MeansValues
<1> HIDE DEF e, s
<1>3. CASE ExecuteScalar(i, frame, Read)
  <2> DEFINE val == CASE i.op = "arg"  -> frame[i.in]
                      [] i.op = "set"  -> i.in
                      [] i.op = "sum"  -> sum(i.in)
                      [] i.op = "inc"  -> r[i.out] + i.in
                      [] i.op = "shl4" -> 16 * sum(i.in)
                      [] i.op = "byte" -> Read(sum(i.in))
  <2>1. i.op \in ScalarOps /\ write(i.out, val) /\ ip' = ip + 1
    BY <1>3 DEF ExecuteScalar
  <2>2. /\ i.op = "arg"  => val = frame[i.in]
        /\ i.op = "set"  => val = i.in
        /\ i.op = "sum"  => val = sumOf(r, i.in)
        /\ i.op = "inc"  => val = r[i.out] + i.in
        /\ i.op = "shl4" => val = 16 * sumOf(r, i.in)
        /\ i.op = "byte" => val = Read(sumOf(r, i.in))
    BY DEF sum
  <2> HIDE DEF val
  <2>3. i.op \notin VectorOps
    BY <2>1 DEF ScalarOps, VectorOps, ShuffleOps
  <2>4. Computes(s, p, ip, r, e, frame, val)
    BY <1>1, <2>2, <2>3 DEF Computes, VectorOps, keyRead
  <2> QED BY <2>1, <2>4 DEF write, e, s
<1>4. CASE ExecuteVector(i, Read)
  <2>1. PICK tail \in TailBytes :
          write(i.out, CASE i.op = "vload"  -> window(sum(i.in), Read)
                         [] i.op = "LXVD2X" -> LXVD2X(window(sum(i.in), Read))
                         [] i.op = "vzero"  -> zeroVector
                         [] i.op \in ShuffleOps -> shuffled(i, r, tail))
    BY <1>4 DEF ExecuteVector
  <2> DEFINE val == CASE i.op = "vload"  -> window(sum(i.in), Read)
                      [] i.op = "LXVD2X" -> LXVD2X(window(sum(i.in), Read))
                      [] i.op = "vzero"  -> zeroVector
                      [] i.op \in ShuffleOps -> shuffled(i, r, tail)
  <2>2. i.op \in VectorOps /\ write(i.out, val) /\ ip' = ip + 1
    BY <1>4, <2>1 DEF ExecuteVector
  <2>3. /\ i.op = "vload"  => val = window(sumOf(r, i.in), Read)
        /\ i.op = "LXVD2X" => val = LXVD2X(window(sumOf(r, i.in), Read))
        /\ i.op = "vzero"  => val = zeroVector
        /\ i.op \in ShuffleOps => val = shuffled(i, r, tail)
    BY DEF sum, ShuffleOps
  <2> HIDE DEF val
  <2>4. i.op \notin ScalarOps
    BY <2>2 DEF ScalarOps, VectorOps, ShuffleOps
  <2>5. Computes(s, p, ip, r, e, frame, val)
    BY <1>1, <1>2, <2>3, <2>4 DEF Computes, ScalarOps
  <2> QED BY <2>2, <2>5 DEF write, e, s
<1> QED BY <1>3, <1>4

\* The kernel's arguments are what the signature says.
LEMMA FrameMeans ==
  \A k \in DOMAIN sig(platform).args :
    frame[k] \in Means(sig(platform).platform, env)[sig(platform).args[k]]
<1> DEFINE means == Means(sig(platform).platform, env)
<1>1. /\ means["data"] = {env.data} /\ means["ctrl"] = {env.ctrl} /\ means["ints"] = {env.ints}
      /\ means["safe"] = {env.safe} /\ means["masks"] = {env.masks}
      /\ means["lens"] = {env.lens}
  BY MeansValues
<1>2. /\ env.data = dstAt + cl /\ env.ctrl = dstAt /\ env.ints = srcAt /\ env.safe = safe
      /\ env.masks = masksAt /\ env.lens = lensAt
  BY DEF env
<1>3. sig(platform).args = <<"data", "ctrl", "ints", "safe", "masks", "lens">>
  BY DEF sig
<1> HIDE DEF means
<1>4. /\ frame[1] \in means["data"] /\ frame[2] \in means["ctrl"] /\ frame[3] \in means["ints"]
      /\ frame[4] \in means["safe"] /\ frame[5] \in means["masks"]
      /\ frame[6] \in means["lens"]
  BY <1>1, <1>2 DEF frame
<1> QED BY <1>3, <1>4 DEF means

\* What the invariant says of an instruction that the kernel executes.
LEMMA AtInstruction ==
  ASSUME AsmInv, Running
  PROVE  /\ ip \in 1 .. Len(prog.code) /\ here = ip /\ Len(prog.code) \in Nat
         /\ prog.loop \in 1 .. Len(prog.code) - 1
         /\ Annotated(sig(platform), prog, notes)
         /\ Justified(sig(platform), prog, notes, ip)
         /\ sig(platform).platform = platform
         /\ Holds(prog, notes, ip, r, Means(sig(platform).platform, env))
         /\ Scalars(env)
         /\ ip < prog.loop => env.g = 0 /\ env.off = 0 /\ env.rev = sig(platform).rev
         /\ prog.loop < ip => group < safe /\ Loaded(env)
         /\ group = IF Stored(prog, ip) THEN g - 1 ELSE g
<1>1. /\ pc = "kernel" /\ IndInv /\ Called /\ Rolls /\ ip <= Len(prog.code)
      /\ Holds(prog, notes, here, r, Means(platform, env))
  BY DEF AsmInv, Running, Called
<1>2. Annotated(sig(platform), prog, notes)
  BY <1>1, AtKernel, ProgAnnotated
<1>3. /\ Len(prog.code) \in Nat /\ prog.loop \in 1 .. Len(prog.code) - 1
      /\ \A i \in 1 .. Len(prog.code) : Justified(sig(platform), prog, notes, i)
  BY <1>2 DEF Annotated
<1>4. ip \in 1 .. Len(prog.code) /\ here = ip
  BY <1>1, <1>3 DEF Rolls, here
<1>5. sig(platform).platform = platform /\ sig(platform).rev = revAt
  BY DEF sig
<1>6. group = IF Stored(prog, ip) THEN g - 1 ELSE g
  BY <1>4 DEF group
<1>7. /\ Scalars(env) /\ env.g = group /\ env.off = start[4 * group] /\ env.rev = revAt
      /\ group < safe => Loaded(env)
  BY <1>1, EnvFacts
<1>8. ASSUME ip < prog.loop PROVE env.g = 0 /\ env.off = 0
  <2>0. \A i \in 1 .. Len(prog.code) : i <= prog.loop => ~Stored(prog, i)
    BY <1>2, StoredSteps
  <2>1. ~Stored(prog, ip)
    BY <1>3, <1>4, <1>8, <2>0
  <2>2. group = 0
    BY <1>1, <1>6, <1>8, <2>1 DEF Rolls
  <2>3. start[4 * group] = 0
    BY <1>1, <2>2 DEF IndInv
  <2> QED BY <1>7, <2>2, <2>3
<1>9. prog.loop < ip => group < safe
  BY <1>1 DEF Rolls
<1> QED BY <1>1, <1>2, <1>3, <1>4, <1>5, <1>6, <1>7, <1>8, <1>9

\* The kernel has executed an instruction that changes none of Encode's variables.
LEMMA KeepsInv ==
  ASSUME AsmInv, Running, UNCHANGED vars, Rolls',
         Holds(prog, notes, here', r', Means(platform, env)')
  PROVE  AsmInv'
<1>1. IndInv'
  BY NextInv DEF AsmInv
<1>2. prog' = prog /\ notes' = notes /\ (group' = group => env' = env)
  BY SameMemory
<1>3. /\ platform' = platform /\ pc' = pc /\ n' = n /\ len' = len
  BY DEF vars, callVars
<1>4. (pc # "idle" => n \in Lengths /\ len <= EncodedMaxLen(n) + Slack)'
  BY <1>3 DEF AsmInv
<1> QED BY <1>1, <1>2, <1>3, <1>4 DEF AsmInv

LEMMA RegisterInv ==
  ASSUME AsmInv, Running, UNCHANGED vars,
         ExecuteScalar(fetched, frame, Read) \/ ExecuteVector(fetched, Read)
  PROVE  AsmInv'
<1> DEFINE p == prog
           i == ip
           s == sig(platform)
           means == Means(s.platform, env)
<1>1. /\ i \in 1 .. Len(p.code) /\ here = i /\ Len(p.code) \in Nat
      /\ p.loop \in 1 .. Len(p.code) - 1
      /\ Annotated(s, p, notes) /\ Justified(s, p, notes, i) /\ s.platform = platform
      /\ Holds(p, notes, i, r, means) /\ Scalars(env)
      /\ i < p.loop => env.g = 0 /\ env.off = 0 /\ env.rev = s.rev
      /\ p.loop < i => group < safe /\ Loaded(env)
      /\ group = IF Stored(p, i) THEN g - 1 ELSE g
  BY AtInstruction
<1>2. p.code[i] = fetched
  BY DEF fetched
<1>3. /\ fetched.op \in ScalarOps \cup VectorOps /\ ip' = ip + 1
      /\ \E val : /\ r' = [x \in DOMAIN r \cup {fetched.out} |->
                             IF x = fetched.out THEN val ELSE r[x]]
                  /\ Computes(s, p, i, r, env, frame, val)
  BY <1>2, Computed
<1>4. PICK val : /\ r' = [x \in DOMAIN r \cup {fetched.out} |->
                            IF x = fetched.out THEN val ELSE r[x]]
                 /\ Computes(s, p, i, r, env, frame, val)
  BY <1>3
<1>5. \A k \in DOMAIN s.args : frame[k] \in means[s.args[k]]
  BY FrameMeans
<1>6. prog' = prog
  BY SameMemory
<1>7. i # p.loop /\ i # Len(p.code) /\ fetched.op \notin StoreOps
  <2>1. p.code[p.loop].op = "jge" /\ p.code[Len(p.code)].op = "jmp"
    BY <1>1 DEF Annotated
  <2>2. /\ fetched.op \notin StoreOps /\ fetched.op # "jge" /\ fetched.op # "jmp"
    BY <1>3 DEF ScalarOps, VectorOps, ShuffleOps, StoreOps
  <2> QED BY <1>2, <2>1, <2>2
<1>8. Stored(p, i + 1) <=> Stored(p, i)
  BY <1>1, <1>2, <1>7, StoredSteps
<1>9. g' = g /\ safe' = safe /\ IndInv /\ Rolls
  BY DEF vars, groupVars, AsmInv, Running
<1>10. here' = i + 1 /\ group' = group
  <2>1. here' = i + 1
    BY <1>1, <1>3, <1>6, <1>7 DEF here
  <2> QED BY <1>1, <1>6, <1>8, <1>9, <2>1 DEF group
<1>11. val \in means[notes[i]]
  <2> HIDE DEF p, i, s, means
  <2>1. p.code[i].op \in ScalarOps \cup VectorOps
    BY <1>2, <1>3
  <2>2. means = Means(s.platform, env)
    BY DEF means
  <2> QED BY <1>1, <1>4, <1>5, <2>1, <2>2, ComputedValue
<1>12. Holds(p, notes, i + 1, r', means)
  <2> DEFINE R == r
             Q == r'
  <2>1. /\ \A x \in DOMAIN R : x # p.code[i].out => x \in DOMAIN Q /\ Q[x] = R[x]
        /\ p.code[i].out \in DOMAIN Q /\ Q[p.code[i].out] \in means[notes[i]]
    <3> HIDE DEF means
    <3> QED BY <1>2, <1>4, <1>11
  <2>2. i \in Nat /\ i > 0 /\ p.loop \in Nat
    BY <1>1
  <2> HIDE DEF p, i, means, R, Q
  <2>3. Holds(p, notes, i + 1, Q, means)
    BY <1>1, <2>1, <2>2, StepHolds DEF R
  <2> QED BY <2>3 DEF Q
<1>13. Rolls'
  BY <1>1, <1>3, <1>6, <1>7, <1>9, <1>10 DEF Rolls
<1>14. Means(platform, env)' = means
  BY <1>1, <1>10, SameMemory DEF vars, callVars
<1> QED BY <1>10, <1>12, <1>13, <1>14, KeepsInv

LEMMA JumpInv ==
  ASSUME AsmInv, Running, UNCHANGED vars, Jump(fetched, prog)
  PROVE  AsmInv'
<1> DEFINE p == prog
           i == ip
           s == sig(platform)
           means == Means(s.platform, env)
<1>1. /\ i \in 1 .. Len(p.code) /\ here = i /\ Len(p.code) \in Nat
      /\ p.loop \in 1 .. Len(p.code) - 1
      /\ Annotated(s, p, notes) /\ Justified(s, p, notes, i) /\ s.platform = platform
      /\ Holds(p, notes, i, r, means) /\ Scalars(env)
      /\ p.loop < i => group < safe /\ Loaded(env)
      /\ group = IF Stored(p, i) THEN g - 1 ELSE g
  BY AtInstruction
<1>2. p.code[i] = fetched
  BY DEF fetched
<1>3. /\ fetched.op \in {"jge", "jmp"} /\ r' = r
      /\ ip' = IF fetched.op = "jmp" THEN p.loop
               ELSE IF r[fetched.in[1]] >= r[fetched.in[2]] THEN Len(p.code) + 1 ELSE ip + 1
  BY DEF Jump
<1>4. /\ fetched.out = "none"
      /\ \/ /\ fetched.op = "jge" /\ i = p.loop
            /\ r[fetched.in[1]] >= r[fetched.in[2]] <=> env.g >= env.safe
         \/ fetched.op = "jmp" /\ i = Len(p.code) /\ Stored(p, i)
  <2>1. Jumps(p, notes, i)
    BY <1>1, <1>2, <1>3, StoresAndJumps
  <2> QED BY <1>1, <1>2, <2>1, JumpValue
<1>5. /\ prog' = prog /\ notes' = notes /\ g' = g /\ safe' = safe /\ IndInv /\ Rolls /\ Called
      /\ pc = "kernel"
  BY SameMemory DEF vars, groupVars, AsmInv, Running, Called
<1>6. /\ g \in Nat /\ safe \in Nat /\ g <= safe /\ safe <= groups /\ groups \in Nat
      /\ 4 * groups <= n /\ n \in Nat /\ start \in [0 .. n -> Nat] /\ GroupChain(safe)
  BY <1>5, AtKernel
<1>7. /\ env.g = group /\ env.safe = safe /\ env.off = start[4 * group]
      /\ group \in 0 .. safe
      /\ group < safe => /\ env.key = dst[group] /\ env.len = lengthTable[env.key]
  BY <1>5, EnvFacts
<1>8. /\ ~Stored(p, p.loop) /\ ~Stored(p, p.loop + 1)
  <2>1. p.loop \in 1 .. Len(p.code) /\ p.code[p.loop].op = "jge"
    BY <1>1 DEF Annotated
  <2> QED BY <1>1, <2>1, StoredSteps DEF StoreOps
<1>9. CASE fetched.op = "jge" /\ env.g >= env.safe
  <2>1. i = p.loop /\ ip' = Len(p.code) + 1
    BY <1>3, <1>4, <1>9
  <2>2. here' = p.loop /\ group' = g /\ group = g /\ g = safe
    <3>1. here' = p.loop
      BY <1>1, <1>5, <2>1 DEF here
    <3>2. group' = g
      BY <1>5, <1>8, <3>1 DEF group
    <3>3. group = g
      BY <1>1, <1>8, <2>1
    <3> QED BY <1>6, <1>7, <1>9, <3>1, <3>2, <3>3
  <2>3. Rolls'
    BY SMTT(40), <1>1, <1>5, <1>6, <2>1, <2>2 DEF Rolls
  <2>4. Holds(prog, notes, here', r', means)
    BY <1>1, <1>3, <2>1, <2>2
  <2>5. Means(platform, env)' = means
    BY <1>1, <2>2, SameMemory DEF vars, callVars
  <2> QED BY <2>3, <2>4, <2>5, KeepsInv
<1>10. CASE fetched.op = "jge" /\ ~(env.g >= env.safe)
  <2>1. i = p.loop /\ ip' = p.loop + 1 /\ here' = p.loop + 1
    <3>1. i = p.loop /\ ip' = p.loop + 1
      BY <1>3, <1>4, <1>10
    <3> QED BY <1>1, <1>5, <3>1 DEF here
  <2>2. here' = p.loop + 1 /\ group' = g /\ group = g /\ g < safe
    <3>1. group' = g
      BY <1>5, <1>8, <2>1 DEF group
    <3>2. group = g
      BY <1>1, <1>8, <2>1
    <3> QED BY <1>6, <1>7, <1>10, <2>1, <3>1, <3>2
  <2>3. Rolls'
    BY SMTT(40), <1>1, <1>5, <1>6, <2>1, <2>2 DEF Rolls
  <2>4. Holds(p, notes, i + 1, r, means)
    <3>1. i \in Nat /\ i > 0 /\ p.loop \in Nat /\ p.code[i].out = "none"
      BY <1>1, <1>2, <1>4
    <3> HIDE DEF p, i, means
    <3> QED BY <1>1, <3>1, StepHolds
  <2>5. Means(platform, env)' = means
    BY <1>1, <2>2, SameMemory DEF vars, callVars
  <2>6. Holds(prog, notes, here', r', means)
    BY <1>3, <2>1, <2>2, <2>4
  <2> QED BY <2>3, <2>5, <2>6, KeepsInv
<1>11. CASE fetched.op = "jmp"
  <2>1. i = Len(p.code) /\ Stored(p, i) /\ ip' = p.loop
    BY <1>3, <1>4, <1>11
  <2>2. here' = p.loop /\ group' = g /\ group = g - 1 /\ group < safe /\ Loaded(env)
    <3>1. here' = p.loop
      BY <1>1, <1>5, <2>1 DEF here
    <3>2. group' = g
      BY <1>5, <1>8, <3>1 DEF group
    <3> QED BY <1>1, <2>1, <3>1, <3>2
  <2>3. Rolls'
    BY <1>1, <1>5, <1>6, <2>1, <2>2 DEF Rolls
  <2> DEFINE f == env'
  <2>4. start[4 * g] = start[4 * group] + lengthTable[dst[group]]
    <3>1. group \in 0 .. safe - 1 /\ g = group + 1
      BY <1>6, <1>7, <2>2
    <3>2. start[4 * group + 4] = start[4 * group] + lengthTable[dst[group]]
      BY <1>6, <3>1 DEF GroupChain
    <3>3. 4 * g = 4 * group + 4
      BY <1>6, <3>1
    <3> QED BY <3>2, <3>3
  <2>5. /\ f.g = env.g + 1 /\ f.off = env.off + env.len /\ f.data = env.data
        /\ f.ctrl = env.ctrl /\ f.ints = env.ints /\ f.safe = env.safe /\ f.masks = env.masks
        /\ f.lens = env.lens /\ f.rev = env.rev /\ f.reversal = env.reversal
    <3>1. /\ f.g = g /\ f.off = start[4 * g] /\ f.data = env.data
          /\ f.ctrl = env.ctrl /\ f.ints = env.ints /\ f.safe = env.safe
          /\ f.masks = env.masks /\ f.lens = env.lens /\ f.rev = env.rev
      <4>1. start' = start /\ cl' = cl
        BY DEF vars, callVars, cl
      <4> QED BY <1>5, <2>2, <4>1 DEF env
    <3>2. f.reversal = env.reversal
      BY SameMemory
    <3>3. env.len = lengthTable[dst[group]] /\ g = group + 1
      BY <1>6, <1>7, <2>2
    <3> QED BY <1>7, <2>4, <3>1, <3>2, <3>3
  <2>6. Holds(p, notes, p.loop, r, Means(platform, env'))
    <3> HIDE DEF p, i, s, means, f
    <3>1. /\ \A role \in Fixed : Means(platform, env)[role] \subseteq Means(platform, f)[role]
          /\ \A role \in Cursors :
               Means(platform, env)[next[role]] \subseteq Means(platform, f)[role]
      BY <1>1, <2>2, <2>5, NextMeans
    <3>2. Holds(p, notes, Len(p.code), r, Means(platform, env))
      BY <1>1, <2>1 DEF means
    <3>3. WellLooped(p, notes)
      BY <1>1 DEF Annotated
    <3>4. Holds(p, notes, p.loop, r, Means(platform, f))
      BY <1>1, <3>1, <3>2, <3>3, LoopHolds
    <3> QED BY <3>4 DEF f
  <2>7. Holds(prog, notes, here', r', Means(platform, env)')
    BY <1>3, <2>2, <2>6 DEF vars, callVars
  <2> QED BY <2>3, <2>7, KeepsInv
<1> QED BY <1>3, <1>9, <1>10, <1>11

LEMMA ComputeInv == AsmInv /\ Compute => AsmInv'
BY RegisterInv, JumpInv DEF Compute, Execute

-----------------------------------------------------------------------------
(* The steps that leave the registers alone.                               *)

\* What a kernel stores for a group is what its operator in Kernels gives.
LEMMA OutIsGroup ==
  ASSUME platform \in hasEncodeKernel, NEW k \in Byte, NEW vals, NEW e, NEW v,
         e.vals = nativeBytes(platform, vals), e.mask = masks[k], e.reversal = vrev,
         v \in outs(platform, e)
  PROVE  \E tail \in TailBytes :
           (IF isPPC(platform) THEN STXVD2X(VPERM(v, v, e.reversal)) ELSE v)
             = encodeGroup(platform, k, vals, tail)
<1> DEFINE x == nativeBytes(platform, vals)
<1>1. PICK tail \in TailBytes :
        v = combined(platform, elements(platform, e, e.vals), elements(platform, e, e.mask), tail)
  BY DEF outs
<1>2. platform \in {"amd64", "arm64", "power9", "riscv64", "loong64", "s390x"}
  BY DEF hasEncodeKernel, Platforms
<1>3. CASE platform = "power9"
  <2>1. isPPC(platform)
    BY <1>3 DEF isPPC
  <2>2. masks = encodeShuffleTablePerm
    BY <1>3 DEF masks
  <2>3. elements(platform, e, x) = loadB16(x)
    BY <2>1 DEF elements, loadB16
  <2>4. elements(platform, e, e.mask) = loadB16(encodeShuffleTablePerm[k])
    BY <2>1, <2>2 DEF elements, loadB16
  <2> HIDE DEF x
  <2>5. v = VPERM(loadB16(x), zeroVector, loadB16(encodeShuffleTablePerm[k]))
    BY <1>1, <1>3, <2>3, <2>4 DEF combined, x
  <2>6. STXVD2X(VPERM(v, v, e.reversal)) = storeB16(v)
    BY DEF storeB16
  <2>7. encodeGroup(platform, k, vals, tail) = encodeGroupsVSX(k, x)
    BY <1>3 DEF encodeGroup, x
  <2> QED BY <2>1, <2>5, <2>6, <2>7 DEF encodeGroupsVSX
<1>4. CASE platform # "power9"
  <2>1. ~isPPC(platform)
    BY <1>2, <1>4 DEF isPPC
  <2>2. v = combined(platform, x, masks[k], tail)
    BY <1>1, <2>1 DEF elements
  <2> HIDE DEF x
  <2>3. encodeGroup(platform, k, vals, tail) =
          CASE platform = "amd64"   -> encodeGroupsSSE(k, x)
            [] platform = "arm64"   -> encodeGroupsNEON(k, x)
            [] platform = "power9"  -> encodeGroupsVSX(k, x)
            [] platform = "s390x"   -> encodeGroupsVX(k, x)
            [] platform = "riscv64" -> encodeGroupsRVV(k, x, tail)
            [] platform = "loong64" -> encodeGroupsLSX(k, x)
    BY DEF encodeGroup, x
  <2>4. encodeGroup(platform, k, vals, tail) = v
    <3>1. CASE platform = "amd64"
      BY <3>1, <2>2, <2>3 DEF masks, combined, encodeGroupsSSE
    <3>2. CASE platform = "arm64"
      BY <3>2, <2>2, <2>3 DEF masks, combined, encodeGroupsNEON
    <3>3. CASE platform = "s390x"
      BY <3>3, <2>2, <2>3 DEF masks, combined, encodeGroupsVX
    <3>4. CASE platform = "riscv64"
      BY <3>4, <2>2, <2>3 DEF masks, combined, encodeGroupsRVV
    <3>5. CASE platform = "loong64"
      BY <3>5, <2>2, <2>3 DEF masks, combined, encodeGroupsLSX
    <3> QED BY <1>2, <1>4, <3>1, <3>2, <3>3, <3>4, <3>5
  <2> QED BY <2>1, <2>4
<1> QED BY <1>3, <1>4

\* What the invariant says where the kernel stores a group.
LEMMA AtStore ==
  ASSUME AsmInv, Running, fetched.op \in StoreOps
  PROVE  /\ StoresWide(sig(platform), prog, notes, ip) /\ group = g /\ group < safe
         /\ prog.loop < ip /\ ip < Len(prog.code) /\ ~Stored(prog, ip) /\ Stored(prog, ip + 1)
         /\ fetched.out \in DOMAIN r /\ fetched.out # "none"
         /\ r[fetched.out] \in Means(platform, env)[notes[ip]]
         /\ sum(fetched.in) = dstAt + cl + start[4 * group]
         /\ Reads(prog, ip, r)
         /\ \E tail \in TailBytes :
              storedBytes(fetched) = encodeGroup(platform, dst[group], groupVals(group), tail)
<1> DEFINE p == prog
           s == sig(platform)
<1>1. /\ ip \in 1 .. Len(p.code) /\ Len(p.code) \in Nat
      /\ Annotated(s, p, notes) /\ Justified(s, p, notes, ip) /\ s.platform = platform
      /\ Holds(p, notes, ip, r, Means(s.platform, env)) /\ Scalars(env)
      /\ p.loop < ip => group < safe /\ Loaded(env)
      /\ group = IF Stored(p, ip) THEN g - 1 ELSE g
  BY AtInstruction
<1>2. p.code[ip] = fetched
  BY DEF fetched
<1>3. StoresWide(s, p, notes, ip)
  <2> HIDE DEF p, s
  <2> QED BY <1>1, <1>2, StoresAndJumps
<1>4. p.loop < ip /\ ~Stored(p, ip)
  BY <1>3 DEF StoresWide
<1>5. group < safe /\ group = g /\ Loaded(env)
  BY <1>1, <1>4
<1>6. IndInv /\ pc = "kernel" /\ Called /\ Rolls
  BY DEF AsmInv, Running, Called
<1>7. /\ group \in 0 .. safe /\ env.data = dstAt + cl /\ env.off = start[4 * group]
      /\ env.reversal = vrev /\ env.key = dst[group] /\ env.key \in Byte
      /\ env.mask = masks[env.key] /\ env.vals = nativeBytes(platform, groupVals(group))
  BY <1>5, <1>6, EnvFacts
<1>8. /\ fetched.op = (IF isPPC(platform) THEN "STXVD2X" ELSE "vstore")
      /\ Reads(p, ip, r)
      /\ fetched.out \in DOMAIN r /\ r[fetched.out] \in Means(platform, env)[notes[ip]]
      /\ sumOf(r, fetched.in) \in Means(platform, env)[s.store]
      /\ StoresOut(platform, env, storedBy(fetched, r))
  <2>1. /\ p.code[ip].op = (IF isPPC(s.platform) THEN "STXVD2X" ELSE "vstore")
        /\ Reads(p, ip, r)
        /\ p.code[ip].out \in DOMAIN r
        /\ r[p.code[ip].out] \in Means(s.platform, env)[notes[ip]]
        /\ sumOf(r, p.code[ip].in) \in Means(s.platform, env)[s.store]
        /\ StoresOut(s.platform, env, storedBy(p.code[ip], r))
    <3>1. /\ Scalars(env) /\ Loaded(env) /\ Holds(p, notes, ip, r, Means(s.platform, env))
          /\ StoresWide(s, p, notes, ip)
      BY <1>1, <1>3, <1>5
    <3> HIDE DEF p, s
    <3> QED BY ONLY <3>1, StoreValue
  <2>2. p.code[ip] = fetched /\ s.platform = platform
    BY <1>1, <1>2
  <2> HIDE DEF p, s
  <2> QED BY <2>1, <2>2
<1>9. sum(fetched.in) = dstAt + cl + start[4 * group]
  <2>1. s.store = "dataAt"
    BY DEF sig
  <2> QED BY <1>7, <1>8, <2>1, MeansValues DEF sum
<1>10. \E tail \in TailBytes :
         storedBytes(fetched) = encodeGroup(platform, dst[group], groupVals(group), tail)
  <2>1. PICK v \in outs(platform, env) :
          storedBy(fetched, r) = IF isPPC(platform)
                                 THEN STXVD2X(VPERM(v, v, env.reversal)) ELSE v
    BY <1>8 DEF StoresOut
  <2>2. platform \in hasEncodeKernel
    BY <1>6, AtKernel
  <2> QED BY <1>7, <2>1, <2>2, OutIsGroup DEF storedBytes
<1>11. ip < Len(p.code) /\ Stored(p, ip + 1)
  <2>1. p.code[Len(p.code)].op = "jmp"
    BY <1>1 DEF Annotated
  <2>2. fetched.op # "jmp"
    BY DEF StoreOps
  <2>3. ip < Len(p.code)
    BY <1>1, <1>2, <2>1, <2>2
  <2> QED BY <1>1, <1>2, <2>3 DEF Stored
<1>12. fetched.out # "none"
  BY <1>2, <1>3 DEF StoresWide, Has, Live
<1> QED BY <1>3, <1>4, <1>5, <1>8, <1>9, <1>10, <1>11, <1>12

\* A store is the step that Encode's kernel takes.
LEMMA StoreIsGroup == AsmInv /\ Store => KernelGroup
<1> SUFFICES ASSUME AsmInv, Store
             PROVE  KernelGroup
  OBVIOUS
<1>1. Running /\ fetched.op \in StoreOps /\ pc = "kernel" /\ IndInv
  BY DEF Store, Running, AsmInv
<1>2. /\ group = g /\ group < safe
      /\ sum(fetched.in) = dstAt + cl + start[4 * group]
      /\ \E tail \in TailBytes :
           storedBytes(fetched) = encodeGroup(platform, dst[group], groupVals(group), tail)
  BY <1>1, AtStore
<1>3. off = start[4 * g] /\ off \in Nat /\ cl \in Nat
  <2>1. off \in Nat
    BY <1>1 DEF IndInv, TypeOK
  <2> QED BY <1>1, <2>1, AtKernel
<1>4. sum(fetched.in) - (dstAt + cl) = off
  BY <1>2, <1>3, MemoryAssumption
<1>5. PICK tail \in TailBytes :
        storedBytes(fetched) = encodeGroup(platform, dst[g], groupVals(g), tail)
  BY <1>2
<1>6. dst' = wideStore(encodeGroup(platform, dst[g], [lane \in Lane |-> src[4 * g + lane]], tail), off)
  BY <1>4, <1>5 DEF Store, groupVals
<1> QED BY <1>1, <1>2, <1>6 DEF Store, KernelGroup

\* The facts of EnvFacts, one step later.
LEMMA NextEnv ==
  (IndInv /\ pc = "kernel" /\ Called /\ Rolls =>
     /\ env.data = dstAt + cl /\ env.ctrl = dstAt /\ env.ints = srcAt /\ env.safe = safe
     /\ env.masks = masksAt /\ env.lens = lensAt /\ env.rev = revAt
     /\ env.g = group /\ env.off = start[4 * group] /\ env.reversal = vrev
     /\ group < safe =>
          /\ env.key = dst[group] /\ env.len = lengthTable[env.key]
          /\ env.mask = masks[env.key]
          /\ env.vals = nativeBytes(platform, groupVals(group)))'
<1>1. IndInv /\ pc = "kernel" /\ Called /\ Rolls =>
        /\ env.data = dstAt + cl /\ env.ctrl = dstAt /\ env.ints = srcAt /\ env.safe = safe
        /\ env.masks = masksAt /\ env.lens = lensAt /\ env.rev = revAt
        /\ env.g = group /\ env.off = start[4 * group] /\ env.reversal = vrev
        /\ group < safe =>
             /\ env.key = dst[group] /\ env.len = lengthTable[env.key]
             /\ env.mask = masks[env.key]
             /\ env.vals = nativeBytes(platform, groupVals(group))
  BY EnvFacts
<1> QED BY <1>1, PTL

\* The roles mean what they meant if their parts are the same.
LEMMA SameMeans ==
  ASSUME NEW target, NEW e, NEW f,
         f.data = e.data, f.ctrl = e.ctrl, f.ints = e.ints, f.safe = e.safe,
         f.masks = e.masks, f.lens = e.lens, f.rev = e.rev, f.g = e.g, f.off = e.off,
         f.key = e.key, f.len = e.len, f.mask = e.mask, f.vals = e.vals,
         f.reversal = e.reversal
  PROVE  Means(target, f) = Means(target, e)
<1>1. /\ elements(target, f, f.vals) = elements(target, e, e.vals)
      /\ elements(target, f, f.mask) = elements(target, e, e.mask)
  BY DEF elements
<1>2. outs(target, f) = outs(target, e)
  BY <1>1 DEF outs
<1> QED BY <1>1, <1>2 DEF Means

LEMMA StoreInv == AsmInv /\ Store => AsmInv'
<1> SUFFICES ASSUME AsmInv, Store
             PROVE  AsmInv'
  OBVIOUS
<1> DEFINE p == prog
           s == sig(platform)
           i == ip
           means == Means(platform, env)
<1>1. /\ Running /\ fetched.op \in StoreOps /\ pc = "kernel" /\ IndInv /\ Called /\ Rolls
      /\ pc' = pc /\ platform' = platform /\ n' = n /\ len' = len /\ src' = src
      /\ safe' = safe /\ start' = start /\ g' = g + 1 /\ r' = r /\ ip' = ip + 1
  BY DEF Store, Running, AsmInv, Called, callVars
<1>2. /\ i \in 1 .. Len(p.code) /\ here = i /\ Len(p.code) \in Nat
      /\ p.loop \in 1 .. Len(p.code) - 1
      /\ Annotated(s, p, notes) /\ s.platform = platform
      /\ Holds(p, notes, i, r, Means(s.platform, env))
  BY <1>1, AtInstruction
<1>3. /\ group = g /\ group < safe /\ p.loop < i /\ i < Len(p.code) /\ Stored(p, i + 1)
      /\ fetched.out \in DOMAIN r /\ fetched.out # "none"
      /\ r[fetched.out] \in means[notes[i]]
  BY <1>1, AtStore
<1>4. p.code[i] = fetched
  BY DEF fetched
<1>5. KernelGroup
  BY StoreIsGroup
<1>6. IndInv'
  BY <1>1, <1>5, NextInv DEF Next, Step
<1>7. prog' = prog /\ notes' = notes /\ cl' = cl
  BY <1>1 DEF prog, notes, cl
<1>8. /\ g \in Nat /\ safe \in Nat /\ g <= safe /\ safe <= groups /\ groups \in Nat
      /\ groups <= cl /\ cl <= len /\ n \in Nat /\ len \in Nat /\ cl \in Nat
      /\ 4 * groups <= n /\ start \in [0 .. n -> Nat]
      /\ dst \in [0 .. len + wide - 1 -> Byte] /\ off = start[4 * g]
  BY <1>1, AtKernel
<1>9. here' = i + 1
  BY <1>1, <1>2, <1>3, <1>7 DEF here
<1>10. group' = group
  <2>1. group' = IF Stored(p, i + 1) THEN g' - 1 ELSE g'
    BY <1>7, <1>9 DEF group
  <2> QED BY <1>1, <1>3, <1>8, <2>1
<1>11. Rolls'
  BY <1>1, <1>2, <1>3, <1>7, <1>10 DEF Rolls
<1>12. Called'
  BY <1>1 DEF Called
<1>13. dst'[group] = dst[group]
  <2>1. PICK w, at : dst' = wideStore(w, at) /\ at \in Nat
    <3>1. off \in Nat
      BY <1>1 DEF IndInv, TypeOK
    <3>2. PICK tail \in TailBytes :
            dst' = wideStore(encodeGroup(platform, dst[g], [lane \in Lane |-> src[4 * g + lane]],
                                         tail), off)
      BY <1>5 DEF KernelGroup
    <3> QED BY <3>1, <3>2
  <2>2. group \in Nat /\ group < cl /\ group \in DOMAIN dst
    BY <1>3, <1>8 DEF wide
  <2>3. group \notin cl + at .. cl + at + wide - 1
    BY <1>8, <2>1, <2>2
  <2> QED BY <2>1, <2>2, <2>3 DEF wideStore
<1>14. Means(platform, env)' = means
  <2> DEFINE f == env'
  <2>1. /\ env.data = dstAt + cl /\ env.ctrl = dstAt /\ env.ints = srcAt /\ env.safe = safe
        /\ env.masks = masksAt /\ env.lens = lensAt /\ env.rev = revAt
        /\ env.g = group /\ env.off = start[4 * group] /\ env.reversal = vrev
        /\ env.key = dst[group] /\ env.len = lengthTable[env.key]
        /\ env.mask = masks[env.key] /\ env.vals = nativeBytes(platform, groupVals(group))
    BY <1>1, <1>3, EnvFacts
  <2>2. /\ f.data = dstAt + cl' /\ f.ctrl = dstAt /\ f.ints = srcAt /\ f.safe = safe'
        /\ f.masks = masksAt /\ f.lens = lensAt /\ f.rev = revAt
        /\ f.g = group' /\ f.off = start'[4 * group'] /\ f.reversal = vrev
        /\ group' < safe' =>
             /\ f.key = dst'[group'] /\ f.len = lengthTable[f.key]
             /\ f.mask = masks'[f.key]
             /\ f.vals = nativeBytes(platform', groupVals(group)')
    BY <1>1, <1>6, <1>11, <1>12, NextEnv
  <2>3. masks' = masks /\ groupVals(group)' = groupVals(group)
    BY <1>1, <1>10 DEF masks, groupVals
  <2>4. /\ f.data = env.data /\ f.ctrl = env.ctrl /\ f.ints = env.ints /\ f.safe = env.safe
        /\ f.masks = env.masks /\ f.lens = env.lens /\ f.rev = env.rev /\ f.g = env.g
        /\ f.off = env.off /\ f.key = env.key /\ f.len = env.len /\ f.mask = env.mask
        /\ f.vals = env.vals /\ f.reversal = env.reversal
    <3> HIDE DEF f
    <3> QED BY <1>1, <1>3, <1>7, <1>10, <1>13, <2>1, <2>2, <2>3
  <2>5. Means(platform, f) = means
    <3> HIDE DEF f
    <3> QED BY <2>4, SameMeans
  <2> QED BY <1>1, <2>5
<1>15. Holds(p, notes, i + 1, r, means)
  <2> DEFINE R == r
             Q == r
  <2>1. /\ i \in Nat /\ i > 0 /\ p.loop \in Nat /\ i # p.loop
        /\ p.code[i].out \in DOMAIN Q /\ Q[p.code[i].out] \in means[notes[i]]
        /\ \A x \in DOMAIN R : x # p.code[i].out => x \in DOMAIN Q /\ Q[x] = R[x]
    BY <1>2, <1>3, <1>4
  <2>2. Holds(p, notes, i, R, means)
    BY <1>2
  <2> HIDE DEF p, i, means
  <2> QED BY <2>1, <2>2, StepHolds
<1>16. (pc = "kernel" => Rolls /\ Holds(prog, notes, here, r, Means(platform, env)))'
  BY <1>1, <1>7, <1>9, <1>11, <1>14, <1>15
<1> QED BY <1>6, <1>12, <1>16 DEF AsmInv, Called

\* A kernel begins at its first instruction, with no group stored.
LEMMA EnterInv == AsmInv /\ EnterKernel => AsmInv'
<1> SUFFICES ASSUME AsmInv, EnterKernel
             PROVE  AsmInv'
  OBVIOUS
<1> DEFINE p == prog
<1>1. /\ pc = "scan" /\ pc' = "kernel" /\ g' = 0 /\ ip' = 1
      /\ platform' = platform /\ n' = n /\ len' = len /\ safe' = safe /\ safe > 0
  BY DEF EnterKernel, ScanToKernel, callVars
<1>2. IndInv'
  <2>1. IndInv
    BY DEF AsmInv
  <2> QED BY <2>1, NextInv DEF EnterKernel, Next, Step
<1>3. Called'
  BY <1>1 DEF AsmInv, Called
<1>4. platform \in hasEncodeKernel
  BY <1>1 DEF AsmInv, IndInv, Entered
<1>5. Annotated(sig(platform), p, notes)
  BY <1>4, ProgAnnotated
<1>6. Len(p.code) \in Nat /\ p.loop \in 1 .. Len(p.code) - 1
  BY <1>5 DEF Annotated
<1>7. prog' = prog /\ notes' = notes
  BY <1>1 DEF prog, notes
<1>8. here' = 1
  BY <1>1, <1>6, <1>7 DEF here
<1>9. group' = 0
  <2>1. ~Stored(p, 1)
    BY DEF Stored
  <2> QED BY <1>1, <1>7, <1>8, <2>1 DEF group
<1>10. Rolls'
  BY <1>1, <1>6, <1>7, <1>9 DEF Rolls
<1>11. \A R, means : Holds(p, notes, 1, R, means)
  BY DEF Holds
<1>12. (pc = "kernel" => Rolls /\ Holds(prog, notes, here, r, Means(platform, env)))'
  BY <1>7, <1>8, <1>10, <1>11
<1> QED BY <1>2, <1>3, <1>12 DEF AsmInv, Called

\* It returns the data offset behind its last group.
LEMMA LeaveIsHandOver == AsmInv /\ LeaveKernel => KernelToTail
<1> SUFFICES ASSUME AsmInv, LeaveKernel
             PROVE  KernelToTail
  OBVIOUS
<1> DEFINE p == prog
           s == sig(platform)
           means == Means(platform, env)
<1>1. /\ pc = "kernel" /\ ip = Len(p.code) + 1 /\ IndInv /\ Called /\ Rolls
      /\ Holds(p, notes, here, r, means)
  BY DEF LeaveKernel, AsmInv, Called
<1>2. Annotated(s, p, notes)
  BY <1>1, AtKernel, ProgAnnotated
<1>3. /\ Len(p.code) \in Nat /\ p.loop \in 1 .. Len(p.code) - 1
      /\ Has(p, notes, p.loop, p.result, "off") /\ p.code[p.loop].op = "jge"
  BY <1>2 DEF Annotated
<1>4. here = p.loop /\ g = safe
  BY <1>1, <1>3 DEF here, Rolls
<1>5. r[p.result] = env.off
  <2>1. r[p.result] \in means["off"]
    <3> HIDE DEF p, means
    <3> QED BY <1>1, <1>3, <1>4, HasValue
  <2> QED BY <2>1, MeansValues
<1>6. ~Stored(p, p.loop)
  <2>1. p.loop \in 1 .. Len(p.code)
    BY <1>3
  <2> HIDE DEF p, s
  <2> QED BY <1>2, <1>3, <2>1, StoredSteps
<1>7. group = g
  BY <1>4, <1>6 DEF group
<1>8. env.off = start[4 * g] /\ off = start[4 * g]
  BY <1>1, <1>7, AtKernel, EnvFacts
<1> QED BY <1>1, <1>4, <1>5, <1>8 DEF LeaveKernel, KernelToTail

\* The Go code knows nothing of the registers.
LEMMA OutsideInv ==
  ASSUME AsmInv, [Next]_vars, pc' # "kernel", pc # "idle"
  PROVE  AsmInv'
<1>1. IndInv'
  BY NextInv DEF AsmInv
<1>2. n' = n /\ len' = len
  BY DEF Next, Call, Stop, Step, EncodeEmpty, EncodeTooShort, SlicePanic, BeginScalar,
         BeginScan, ScanGroup, ScanToKernel, ScanToTail, KernelGroup, KernelToTail,
         TailInt, TailPanic, TailDone, HandOver, Return, Panic, vars, callVars
<1> QED BY <1>1, <1>2 DEF AsmInv

LEMMA GoInv == AsmInv /\ GoStep => AsmInv' /\ Step
<1> SUFFICES ASSUME AsmInv, GoStep
             PROVE  AsmInv' /\ Step
  OBVIOUS
<1>1. Step
  BY DEF GoStep, Step
<1>2. pc # "idle" /\ pc' # "kernel"
  BY DEF GoStep, EncodeEmpty, EncodeTooShort, SlicePanic, BeginScalar,
         BeginScan, ScanGroup, ScanToTail, InEncode,
         TailInt, TailPanic, TailDone, HandOver, Return, Panic
<1> QED BY <1>1, <1>2, OutsideInv DEF Next

LEMMA LeaveInv == AsmInv /\ LeaveKernel => AsmInv'
<1> SUFFICES ASSUME AsmInv, LeaveKernel
             PROVE  AsmInv'
  OBVIOUS
<1>1. KernelToTail
  BY LeaveIsHandOver
<1>2. pc # "idle" /\ pc' # "kernel"
  BY DEF LeaveKernel, HandOver, Return
<1> QED BY <1>1, <1>2, OutsideInv DEF Next, Step

\* Call makes a call that there is memory for.
LEMMA CallAsmInv == AsmInv /\ Call => AsmInv'
<1> SUFFICES ASSUME AsmInv, Call
             PROVE  AsmInv'
  OBVIOUS
<1>1. IndInv'
  BY NextInv DEF AsmInv, Next
<1>2. PICK k \in Lengths : \E l \in 0 .. EncodedMaxLen(k) + Slack : CallOn(k, l)
  BY DEF Call
<1>3. PICK l \in 0 .. EncodedMaxLen(k) + Slack : CallOn(k, l)
  BY <1>2
<1>4. n' = k /\ len' = l /\ pc' = "entry"
  BY <1>3 DEF CallOn
<1>5. k \in Nat
  BY InputAssumption
<1>6. n' \in Lengths /\ len' <= EncodedMaxLen(n') + Slack
  BY <1>4, <1>5, InputAssumption DEF EncodedMaxLen, controlLen
<1> QED BY <1>1, <1>4, <1>6 DEF AsmInv

LEMMA StutterAsmInv == AsmInv /\ UNCHANGED asmVars => AsmInv'
<1> SUFFICES ASSUME AsmInv, UNCHANGED asmVars
             PROVE  AsmInv'
  OBVIOUS
<1>1. UNCHANGED vars /\ ip' = ip /\ r' = r
  BY DEF asmVars, machineVars
<1>2. IndInv'
  BY <1>1, NextInv DEF AsmInv
<1>3. /\ prog' = prog /\ notes' = notes /\ (group' = group => env' = env)
  BY <1>1, SameMemory
<1>4. /\ pc' = pc /\ n' = n /\ len' = len /\ g' = g /\ safe' = safe /\ platform' = platform
  BY <1>1 DEF vars, callVars, groupVars
<1>5. here' = here
  BY <1>1, <1>3 DEF here
<1>6. group' = group
  BY <1>3, <1>4, <1>5 DEF group
<1>7. Rolls' <=> Rolls
  BY <1>1, <1>3, <1>4, <1>6 DEF Rolls
<1>8. (pc = "kernel" => Rolls /\ Holds(prog, notes, here, r, Means(platform, env)))'
  BY <1>1, <1>3, <1>4, <1>5, <1>6, <1>7 DEF AsmInv
<1> QED BY <1>2, <1>4, <1>8 DEF AsmInv

-----------------------------------------------------------------------------
(* The theorems.                                                           *)

\* Every step of the machine keeps the invariant, and is a step of Encode or none.
LEMMA AsmStepFacts == AsmInv /\ [AsmNext]_asmVars => AsmInv' /\ [Next]_vars
<1> SUFFICES ASSUME AsmInv, [AsmNext]_asmVars
             PROVE  AsmInv' /\ [Next]_vars
  OBVIOUS
<1>1. CASE Call /\ UNCHANGED machineVars
  BY <1>1, CallAsmInv DEF Next
<1>2. CASE EnterKernel
  BY <1>2, EnterInv DEF EnterKernel, Next, Step
<1>3. CASE Compute
  BY <1>3, ComputeInv DEF Compute
<1>4. CASE Store
  BY <1>4, StoreInv, StoreIsGroup DEF Next, Step
<1>5. CASE LeaveKernel
  BY <1>5, LeaveInv, LeaveIsHandOver DEF Next, Step
<1>6. CASE GoStep
  BY <1>6, GoInv DEF Next
<1>7. CASE Stop /\ UNCHANGED machineVars
  <2>1. UNCHANGED asmVars
    BY <1>7 DEF Stop, asmVars
  <2> QED BY <2>1, StutterAsmInv DEF asmVars
<1>8. CASE UNCHANGED asmVars
  BY <1>8, StutterAsmInv DEF asmVars
<1> QED BY <1>1, <1>2, <1>3, <1>4, <1>5, <1>6, <1>7, <1>8 DEF AsmNext, AsmStep

\* The registers of the six encode kernels hold what the notes of their programs say,
\* at every instruction, for every group, whatever the call and wherever its slices
\* and the tables are in memory.
THEOREM EncodeRegisters == AsmSpec => []AsmInv
<1>1. AsmInit => AsmInv
  <2> SUFFICES ASSUME AsmInit
               PROVE  AsmInv
    OBVIOUS
  <2>1. IndInv
    BY InitInv DEF AsmInit
  <2> QED BY <2>1 DEF AsmInit, Init, AsmInv
<1>2. AsmInv /\ [AsmNext]_asmVars => AsmInv'
  BY AsmStepFacts
<1> QED BY <1>1, <1>2, PTL DEF AsmSpec

\* Encode with its kernels instruction by instruction does what Encode does that takes
\* a group in one step: each program stores, group by group, what its operator in
\* Kernels says where it says, and returns the data offset behind the last group.
THEOREM EncodeProgramsAreKernels == AsmSpec => ImplementsEncode
<1>1. AsmInit => Init
  BY DEF AsmInit
<1>2. AsmInv /\ [AsmNext]_asmVars => [Next]_vars
  BY AsmStepFacts
<1> QED BY <1>1, <1>2, EncodeRegisters, PTL DEF AsmSpec, Spec, ImplementsEncode

\* What a call returns when the emitted programs do its groups is the wire format of
\* its source, on every target.
THEOREM EncodeProgramsWriteWireFormat == AsmSpec => []EncodesSource
BY EncodeProgramsAreKernels, WritesWireFormat, PTL DEF ImplementsEncode

\* No instruction of an encode kernel reads or writes a byte that does not belong to
\* the object that it is meant for.
THEOREM EncodeOwnMemory == AsmSpec => []OwnMemory
<1>1. AsmInv => OwnMemory
  <2> SUFFICES ASSUME AsmInv, Running
               PROVE  LET i  == fetched
                          at == sum(i.in)
                          w  == at .. at + wide - 1
                      IN CASE i.op = "byte" -> at \in ctrlBytes \cup lensBytes
                           [] i.op \in {"vload", "LXVD2X"} ->
                                w \subseteq maskBytes \/ w \subseteq srcBytes \/ w \subseteq revBytes
                           [] i.op \in StoreOps -> w \subseteq dataBytes
                           [] OTHER -> TRUE
    BY DEF OwnMemory
  <2> DEFINE p == prog
             s == sig(platform)
             i == ip
             at == sum(fetched.in)
  <2>1. /\ i \in 1 .. Len(p.code) /\ Annotated(s, p, notes) /\ Justified(s, p, notes, i)
        /\ s.platform = platform
        /\ Holds(p, notes, i, r, Means(s.platform, env)) /\ Scalars(env)
        /\ p.loop < i => group < safe /\ Loaded(env)
    BY AtInstruction
  <2>2. p.code[i] = fetched
    BY DEF fetched
  <2>3. IndInv /\ pc = "kernel" /\ Called /\ Rolls
    BY DEF AsmInv, Running, Called
  <2>4. /\ n \in Nat /\ len \in Nat /\ cl \in Nat /\ groups \in Nat /\ safe \in Nat
        /\ safe <= groups /\ groups <= cl /\ 4 * groups <= n /\ cl + dataLen = len
        /\ StoresFit(safe) /\ dataLen \in Int /\ start \in [0 .. n -> Nat]
        /\ srcAt \in Int /\ dstAt \in Int /\ masksAt \in Int /\ lensAt \in Int /\ revAt \in Int
    BY <2>3, AtKernel, MemoryAssumption
  <2>5. /\ group \in 0 .. safe
        /\ env.ctrl = dstAt /\ env.ints = srcAt /\ env.masks = masksAt /\ env.lens = lensAt
        /\ env.rev = revAt /\ env.g = group /\ (group < safe => env.key \in Byte)
    BY <2>3, EnvFacts
  <2>6. ASSUME fetched.op = "byte"
        PROVE  at \in ctrlBytes \cup lensBytes
    <3>1. LoadsByte(p, notes, i)
      <4> HIDE DEF p, s, i
      <4> QED BY <2>1, <2>2, <2>6, LoadsAre
    <3>2. group < safe /\ Loaded(env)
      BY <2>1, <3>1 DEF LoadsByte
    <3>3. /\ sumOf(r, p.code[i].in) = env.ctrl + env.g \/ sumOf(r, p.code[i].in) = env.lens + env.key
      <4> HIDE DEF p, i
      <4> QED BY <2>1, <3>1, <3>2, ByteValue
    <3>4. at = dstAt + group \/ (at = lensAt + env.key /\ env.key \in 0 .. 255)
      BY <2>2, <2>5, <3>2, <3>3 DEF sum, Byte
    <3>5. group \in 0 .. cl - 1
      BY <2>4, <2>5, <3>2
    <3> HIDE DEF at
    <3>6. CASE at = dstAt + group
      BY <2>4, <3>5, <3>6 DEF ctrlBytes
    <3>7. CASE at = lensAt + env.key /\ env.key \in 0 .. 255
      <4> DEFINE k == env.key
      <4> HIDE DEF k
      <4>1. k \in 0 .. 255 /\ at = lensAt + k
        BY <3>7 DEF k
      <4> QED BY <2>4, <4>1 DEF lensBytes
    <3> QED BY <3>4, <3>6, <3>7
  <2>7. ASSUME fetched.op \in {"vload", "LXVD2X"}
        PROVE  \/ at .. at + wide - 1 \subseteq maskBytes
               \/ at .. at + wide - 1 \subseteq srcBytes
               \/ at .. at + wide - 1 \subseteq revBytes
    <3>1. LoadsWide(s, p, notes, i)
      <4> HIDE DEF p, s, i
      <4> QED BY <2>1, <2>2, <2>7, LoadsAre
    <3>2. \/ p.loop < i /\ at = env.masks + 16 * env.key
          \/ p.loop < i /\ at \in Means(s.platform, env)[s.load]
          \/ at = env.rev
      <4>1. \/ p.loop < i /\ sumOf(r, p.code[i].in) = env.masks + 16 * env.key
            \/ p.loop < i /\ sumOf(r, p.code[i].in) \in Means(s.platform, env)[s.load]
            \/ sumOf(r, p.code[i].in) = env.rev
        <5> HIDE DEF p, s, i
        <5> QED BY <2>1, <3>1, WideAddress
      <4> QED BY <2>2, <4>1 DEF sum
    <3>3. s.load = "intsAt"
      BY DEF sig
    <3>4. Means(s.platform, env)["intsAt"] = {env.ints + 16 * env.g}
      BY MeansValues
    <3>5. \/ group < safe /\ env.key \in 0 .. 255 /\ at = masksAt + 16 * env.key
          \/ group < safe /\ at = srcAt + 16 * group
          \/ at = revAt
      BY <2>1, <2>5, <3>2, <3>3, <3>4 DEF Byte
    <3> HIDE DEF at, p, s, i
    <3>6. CASE env.key \in 0 .. 255 /\ at = masksAt + 16 * env.key
      <4> DEFINE k == env.key
      <4> HIDE DEF k
      <4>1. k \in 0 .. 255 /\ at = masksAt + 16 * k
        BY <3>6 DEF k
      <4> QED BY <2>4, <4>1 DEF maskBytes, wide
    <3>7. CASE group < safe /\ at = srcAt + 16 * group
      <4>1. group \in Nat /\ 16 * group + 16 <= 4 * n
        BY <2>4, <2>5, <3>7
      <4> QED BY <2>4, <3>7, <4>1 DEF srcBytes, wide
    <3>8. CASE at = revAt
      BY <2>4, <3>8 DEF revBytes, wide
    <3> QED BY <3>5, <3>6, <3>7, <3>8
  <2>8. ASSUME fetched.op \in StoreOps
        PROVE  at .. at + wide - 1 \subseteq dataBytes
    <3>1. at = dstAt + cl + start[4 * group] /\ group < safe
      BY <2>8, AtStore
    <3>2. start[4 * group] + wide <= dataLen
      BY <2>4, <2>5, <3>1 DEF StoresFit
    <3>3. start[4 * group] \in Nat
      <4>1. 4 * group \in 0 .. n
        BY <2>4, <2>5, <3>1
      <4> QED BY <2>4, <4>1
    <3> HIDE DEF at
    <3> QED BY SMTT(40), <2>4, <3>1, <3>2, <3>3 DEF dataBytes, wide
  <2> QED BY <2>6, <2>7, <2>8 DEF StoreOps
<1> QED BY <1>1, EncodeRegisters, PTL

\* No instruction of an encode kernel reads a register before one has set it.
THEOREM EncodeRegistersSet == AsmSpec => []RegistersSet
<1>1. AsmInv => RegistersSet
  <2> SUFFICES ASSUME AsmInv, Running
               PROVE  reads(fetched) \subseteq DOMAIN r
    BY DEF RegistersSet
  <2> DEFINE p == prog
             s == sig(platform)
  <2>1. /\ Annotated(s, p, notes) /\ Justified(s, p, notes, ip)
        /\ Holds(p, notes, ip, r, Means(s.platform, env)) /\ Scalars(env)
        /\ ip < p.loop => env.g = 0 /\ env.off = 0 /\ env.rev = s.rev
        /\ p.loop < ip => Loaded(env)
    BY AtInstruction
  <2>2. Reads(p, ip, r)
    <3> HIDE DEF p, s
    <3> QED BY <2>1, JustifiedReads
  <2> QED BY <2>2 DEF Reads, fetched
<1> QED BY <1>1, EncodeRegisters, PTL

=============================================================================
