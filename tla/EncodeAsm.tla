------------------------------ MODULE EncodeAsm ------------------------------
(***************************************************************************)
(* Encode with its kernels instruction by instruction: the programs that   *)
(* the encode generators emit, run on Machine, in the place of the action  *)
(* KernelGroup.  The variables g and off of Encode are histories here, they*)
(* count the wide stores; the program keeps its own counters in registers. *)
(*                                                                         *)
(* Everything in Go, the scan and the tail, stays as it is in Encode.      *)
(***************************************************************************)
EXTENDS Encode, Machine

-----------------------------------------------------------------------------
(* The programs.  V-registers of ppc64le are given by their VMX names.     *)

SSE ==
  Program(LoadArgs(<<"DI", "SI", "DX", "CX", "R8", "R9">>) \o
          <<Set(0, "R10"), Set(0, "R11")>>,
    <<JumpGE("R10", "CX"),
      LoadByte(<<"SI", "R10">>, "R12"),
      Mov("R12", "R13"), Shl4("R13", "R13"), Add("R8", "R13", "R13"),
      VLoad(<<"R13">>, "X1"),
      Mov("R10", "R14"), Shl4("R14", "R14"), VLoad(<<"DX", "R14">>, "X0"),
      Shuffle("PSHUFB", <<"X1", "X0">>, "X0"),
      VStore("X0", <<"DI", "R11">>),
      LoadByte(<<"R9", "R12">>, "R15"), Add("R15", "R11", "R11"),
      AddImm(1, "R10"), JumpLoop>>, "R11")

NEON ==
  Program(LoadArgs(<<"R0", "R1", "R2", "R3", "R4", "R5">>) \o
          <<Set(0, "R6"), Set(0, "R7")>>,
    <<JumpGE("R6", "R3"),
      LoadByte(<<"R1", "R6">>, "R8"),
      Shl4("R8", "R9"), Add("R4", "R9", "R9"), VLoad(<<"R9">>, "V1"),
      Shl4("R6", "R10"), Add("R2", "R10", "R10"), VLoad(<<"R10">>, "V0"),
      Shuffle("VTBL", <<"V1", "V0">>, "V2"),
      Add("R0", "R7", "R11"), VStore("V2", <<"R11">>),
      LoadByte(<<"R5", "R8">>, "R12"), Add("R12", "R7", "R7"),
      AddImm(1, "R6"), JumpLoop>>, "R7")

VSX ==
  Program(LoadArgs(<<"R3", "R4", "R5", "R6", "R7", "R8">>) \o
          <<Set(0, "R9"), Set(0, "R10"), VZero("V2"),
            Set(revAt, "R11"), LXVD2XOf(<<"R11">>, "VS63")>>,
    <<JumpGE("R9", "R6"),
      Add("R4", "R9", "R11"), LoadByte(<<"R11">>, "R12"),
      Shl4("R12", "R14"), Add("R7", "R14", "R14")>>
    \o emitLoadB16(<<"R14">>, "VS33", "V1") \o
    <<Shl4("R9", "R15"), Add("R5", "R15", "R15")>>
    \o emitLoadB16(<<"R15">>, "VS32", "V0") \o
    <<Shuffle("VPERM", <<"V0", "V2", "V1">>, "V3"), Add("R3", "R10", "R16")>>
    \o emitStoreB16("VS35", "V3", <<"R16">>) \o
    <<Add("R8", "R12", "R17"), LoadByte(<<"R17">>, "R18"),
      Add("R10", "R18", "R10"), AddImm(1, "R9"), JumpLoop>>, "R10")

VX ==
  Program(LoadArgs(<<"R1", "R2", "R3", "R4", "R5", "R6">>) \o
          <<Set(0, "R7"), Add("R2", "R4", "R4"), VZero("V1")>>,
    <<JumpGE("R2", "R4"), LoadByte(<<"R2">>, "R9"),
      Shl4("R9", "R8"), Add("R5", "R8", "R8"), VLoad(<<"R8">>, "V2"),
      VLoad(<<"R3">>, "V0"), Shuffle("VPERM", <<"V0", "V1", "V2">>, "V3"),
      VStore("V3", <<"R1">>),
      Add("R6", "R9", "R8"), LoadByte(<<"R8">>, "R9"),
      Add("R9", "R1", "R1"), Add("R9", "R7", "R7"),
      AddImm(16, "R3"), AddImm(1, "R2"), JumpLoop>>, "R7")

\* VSETVLI sets the vector length, and X11 to it.
RVV ==
  Program(LoadArgs(<<"X5", "X6", "X7", "X8", "X9", "X10">>) \o
          <<Set(wide, "X11"), Set(0, "X12"), Set(0, "X13")>>,
    <<JumpGE("X12", "X8"),
      Add("X6", "X12", "X14"), LoadByte(<<"X14">>, "X15"),
      Shl4("X15", "X16"), Add("X9", "X16", "X16"), VLoad(<<"X16">>, "V2"),
      Shl4("X12", "X17"), Add("X7", "X17", "X17"), VLoad(<<"X17">>, "V1"),
      Shuffle("VRGATHERVV", <<"V2", "V1">>, "V3"),
      Add("X5", "X13", "X18"), VStore("V3", <<"X18">>),
      Add("X10", "X15", "X19"), LoadByte(<<"X19">>, "X20"),
      Add("X13", "X20", "X13"), AddImm(1, "X12"), JumpLoop>>, "X13")

LSX ==
  Program(LoadArgs(<<"R4", "R5", "R6", "R7", "R8", "R9">>) \o
          <<Set(0, "R10"), Set(0, "R11"), VZero("V3")>>,
    <<JumpGE("R10", "R7"),
      Add("R5", "R10", "R12"), LoadByte(<<"R12">>, "R13"),
      Shl4("R13", "R14"), Add("R8", "R14", "R14"), VLoad(<<"R14">>, "V1"),
      Shl4("R10", "R15"), Add("R6", "R15", "R15"), VLoad(<<"R15">>, "V0"),
      Shuffle("VSHUFB", <<"V1", "V0", "V3">>, "V2"),
      Add("R4", "R11", "R16"), VStore("V2", <<"R16">>),
      Add("R9", "R13", "R17"), LoadByte(<<"R17">>, "R18"),
      Add("R11", "R18", "R11"), AddImm(1, "R10"), JumpLoop>>, "R11")

prog ==
  CASE platform = "amd64"   -> SSE
    [] platform = "arm64"   -> NEON
    [] platform = "power9"  -> VSX
    [] platform = "s390x"   -> VX
    [] platform = "riscv64" -> RVV
    [] platform = "loong64" -> LSX

-----------------------------------------------------------------------------
(* Memory, and the call from encode.                                       *)

\* The table whose address encode passes.
masks ==
  CASE platform \in {"power9", "loong64"} -> encodeShuffleTablePerm
    [] platform = "s390x" -> encodeShuffleTablePermBE
    [] OTHER -> encodeShuffleTable

frame_Swapped == <<dstAt + cl, dstAt, srcAt, safe, lensAt, masksAt>>

\* &data[0], &ctrl[0], &src[0], safe, and the two tables.
frame == <<dstAt + cl, dstAt, srcAt, safe, masksAt, lensAt>>

\* The slices of a call and the tables are different Go objects.
ASSUME MemoryAssumption ==
  /\ srcAt \in Int /\ dstAt \in Int /\ masksAt \in Int /\ lensAt \in Int /\ revAt \in Int
  /\ \A k \in Lengths : Apart(4 * k, EncodedMaxLen(k) + Slack)

srcBytes   == srcAt .. srcAt + 4 * n - 1
ctrlBytes  == dstAt .. dstAt + cl - 1
dataBytes  == dstAt + cl .. dstAt + len - 1

Read(a) ==
  CASE a \in ctrlBytes \cup dataBytes -> dst[a - dstAt]
    [] a \in srcBytes  ->
         LET i == (a - srcAt) \div 4
         IN nativeBytes(platform, [lane \in Lane |-> src[i]])[(a - srcAt) % 4]
    [] OTHER -> readTables(masks, a)

-----------------------------------------------------------------------------

AsmInit == Init /\ ip = 0 /\ r = [x \in {} |-> 0]

\* The instruction that the kernel executes next.
Running == pc = "kernel" /\ ip <= Len(prog.code)
fetched == prog.code[ip]

EnterKernel ==
  /\ ScanToKernel
  /\ ip' = 1
  /\ UNCHANGED r

Compute ==
  /\ Running
  /\ Execute(fetched, prog, frame, Read)
  /\ UNCHANGED vars

Store ==
  /\ Running /\ fetched.op \in StoreOps
  /\ dst' = wideStore(storedBytes(fetched), sum(fetched.in) - (dstAt + cl))
  /\ off' = off + lengthTable[dst[g]]
  /\ g' = g + 1
  /\ ip' = ip + 1
  /\ UNCHANGED <<pc, callVars, safe, tailVars, ret, start, r>>

\* consumed is what the kernel returns.
LeaveKernel ==
  /\ pc = "kernel" /\ ip = Len(prog.code) + 1
  /\ HandOver(safe, r[prog.result])
  /\ UNCHANGED <<dst, machineVars>>

\* Everything else is Go code.
GoStep ==
  /\ \/ EncodeEmpty \/ EncodeTooShort \/ SlicePanic \/ BeginScalar \/ BeginScan
     \/ ScanGroup \/ ScanToTail \/ TailInt \/ TailPanic \/ TailDone
  /\ UNCHANGED machineVars

AsmStep == EnterKernel \/ Compute \/ Store \/ LeaveKernel \/ GoStep

AsmNext == (Call /\ UNCHANGED machineVars) \/ AsmStep \/ (Stop /\ UNCHANGED machineVars)

asmVars == <<vars, machineVars>>

AsmSpec == AsmInit /\ [][AsmNext]_asmVars

AsmFairSpec == AsmSpec /\ WF_asmVars(AsmStep)

-----------------------------------------------------------------------------
(* Properties.                                                             *)

\* The emitted program does to dst what KernelGroup says, group by group, and
\* returns the data bytes written: a call on the machine is a call of Encode.
ImplementsEncode == Spec

\* No instruction of a kernel touches a byte outside of the object that its
\* pointer belongs to: control bytes and lengths by bytes, masks and integers
\* by 16 bytes, and the data stream by stores of 16 bytes.
OwnMemory ==
  Running =>
    LET i  == fetched
        at == sum(i.in)
        w  == at .. at + wide - 1
    IN CASE i.op = "byte" -> at \in ctrlBytes \cup lensBytes
         [] i.op \in {"vload", "LXVD2X"} ->
              w \subseteq maskBytes \/ w \subseteq srcBytes \/ w \subseteq revBytes
         [] i.op \in StoreOps -> w \subseteq dataBytes
         [] OTHER -> TRUE

\* No instruction reads a register that holds what was there before the call.
RegistersSet == Running => reads(fetched) \subseteq DOMAIN r

=============================================================================
