---------------------------- MODULE Instructions ----------------------------
(***************************************************************************)
(* The instructions that the twelve kernel generators emit, and how they   *)
(* put programs together.                                                  *)
(*                                                                         *)
(* A kernel is a straight prologue and a loop.  An instruction has its     *)
(* sources in the order in which the generator writes them, and the        *)
(* register that it sets; a compare is one step with the branch after it.  *)
(***************************************************************************)
EXTENDS Kernels, Sequences

-----------------------------------------------------------------------------
\* Argument k of the kernel, counted in the order of its signature.
LoadArg(k, d)          == [op |-> "arg",   in |-> k,        out |-> d]
Set(k, d)              == [op |-> "set",   in |-> k,        out |-> d]
Mov(a, d)              == [op |-> "sum",   in |-> <<a>>,    out |-> d]
Add(a, b, d)           == [op |-> "sum",   in |-> <<a, b>>, out |-> d]
AddImm(k, d)           == [op |-> "inc",   in |-> k,        out |-> d]
Shl4(a, d)             == [op |-> "shl4",  in |-> <<a>>,    out |-> d]
LoadByte(addr, d)      == [op |-> "byte",  in |-> addr,     out |-> d]
VLoad(addr, d)         == [op |-> "vload", in |-> addr,     out |-> d]
VStore(s, addr)        == [op |-> "vstore", in |-> addr,    out |-> s]
VZero(d)               == [op |-> "vzero", in |-> <<>>,     out |-> d]
Shuffle(name, regs, d) == [op |-> name,    in |-> regs,     out |-> d]
\* To the label done when a >= b, and to the label loop.
JumpGE(a, b)           == [op |-> "jge",   in |-> <<a, b>>, out |-> "none"]
JumpLoop               == [op |-> "jmp",   in |-> <<>>,     out |-> "none"]

\* The six arguments of a kernel, in the order of the signature.
LoadArgs(regs) ==
  <<LoadArg(1, regs[1]), LoadArg(2, regs[2]), LoadArg(3, regs[3]),
    LoadArg(4, regs[4]), LoadArg(5, regs[5]), LoadArg(6, regs[6])>>

Program_LabelLast(prologue, body, result) ==
  [code |-> prologue \o body, loop |-> Len(prologue \o body), result |-> result]

Program_LabelEarly(prologue, body, result) ==
  [code |-> prologue \o body, loop |-> Len(prologue), result |-> result]

\* A kernel: its code, the label loop, and the register that StoreRet stores.
\* The label done is behind the last instruction.
Program(prologue, body, result) ==
  [code |-> prologue \o body, loop |-> Len(prologue) + 1, result |-> result]

ScalarOps  == {"arg", "set", "sum", "inc", "shl4", "byte"}
ShuffleOps == {"PSHUFB", "VTBL", "VPERM", "VSHUFB", "VRGATHERVV"}
VectorOps  == ShuffleOps \cup {"vload", "vzero", "LXVD2X"}
StoreOps   == {"vstore", "STXVD2X"}

-----------------------------------------------------------------------------
(* ppc64le: the two access sequences of the generators, and the names that *)
(* the VSX instructions have for the VMX registers.                        *)

VMX == [VS32 |-> "V0", VS33 |-> "V1", VS35 |-> "V3", VS62 |-> "V30", VS63 |-> "V31"]

LXVD2XOf(addr, vs)  == [op |-> "LXVD2X",  in |-> addr, out |-> VMX[vs]]
STXVD2XOf(vs, addr) == [op |-> "STXVD2X", in |-> addr, out |-> VMX[vs]]

emitLoadB16_Scratch(addr, vs, v) ==
  <<LXVD2XOf(addr, vs), Shuffle("VPERM", <<v, v, "V30">>, v)>>

emitLoadB16(addr, vs, v) ==
  <<LXVD2XOf(addr, vs), Shuffle("VPERM", <<v, v, "V31">>, v)>>

emitStoreB16_Raw(vs, v, addr) == <<STXVD2XOf(vs, addr)>>

emitStoreB16(vs, v, addr) ==
  <<Shuffle("VPERM", <<v, v, "V31">>, "V30"), STXVD2XOf("VS62", addr)>>

-----------------------------------------------------------------------------
(* What they compute from the registers R.                                 *)

\* An address, or a sum: the sources added up.
sumOf(R, regs) == IF Len(regs) = 2 THEN R[regs[1]] + R[regs[2]] ELSE R[regs[1]]

\* tail is what an RVV register holds behind its 16 elements.
shuffled(i, R, tail) ==
  LET x(k) == R[i.in[k]]
  IN CASE i.op = "PSHUFB" -> PSHUFB(x(2), x(1))
       [] i.op = "VTBL"   -> VTBL(x(2), x(1))
       [] i.op = "VPERM"  -> VPERM(x(1), x(2), x(3))
       [] i.op = "VSHUFB" -> VSHUFB(x(2), x(3), x(1))
       [] i.op = "VRGATHERVV" -> VRGATHER(x(2), x(1), tail)

\* The 16 bytes that a store instruction puts in memory.
storedBy(i, R) == IF i.op = "STXVD2X" THEN STXVD2X(R[i.out]) ELSE R[i.out]

\* The registers that an instruction reads.
reads(i) ==
  CASE i.op \in {"arg", "set", "jmp", "vzero"} -> {}
    [] i.op = "inc" -> {i.out}
    [] i.op \in StoreOps -> {i.out, i.in[1], i.in[Len(i.in)]}
    [] OTHER -> {i.in[k] : k \in DOMAIN i.in}

=============================================================================
