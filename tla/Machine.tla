------------------------------- MODULE Machine -------------------------------
(***************************************************************************)
(* The machine that the assembly kernels run on, cut down to what their    *)
(* generators emit: registers, an instruction pointer, and memory that     *)
(* whoever EXTENDS this module provides by an operator Read.               *)
(*                                                                         *)
(* Addresses and counters are integers: 64 bits are never filled.          *)
(***************************************************************************)
EXTENDS Instructions

CONSTANTS
  srcAt, dstAt,   \* where the two slices of a call are in memory,
  masksAt,        \* the 256 masks of 16 bytes that the kernel is passed,
  lensAt,         \* lengthTable,
  revAt           \* and the constant of the ppc64le kernels, {0..15}

VARIABLES
  ip,          \* the next instruction of the kernel
  r            \* the registers written so far, general and vector ones

machineVars == <<ip, r>>

-----------------------------------------------------------------------------
(* Memory is flat.  The objects that a kernel gets pointers to are apart,  *)
(* so that an access outside its object belongs to none.                   *)

\* No byte belongs to two of them, if src and dst begin at srcAt and dstAt and have
\* so many bytes.
Apart(srcSize, dstSize) ==
  LET objects == [src |-> <<srcAt, srcSize>>, dst |-> <<dstAt, dstSize>>,
                  masks |-> <<masksAt, 256 * wide>>, lens |-> <<lensAt, 256>>,
                  rev |-> <<revAt, wide>>]
  IN \A x, y \in DOMAIN objects : x # y =>
       \/ objects[x][1] + objects[x][2] <= objects[y][1]
       \/ objects[y][1] + objects[y][2] <= objects[x][1]

maskBytes == masksAt .. masksAt + 256 * wide - 1
lensBytes == lensAt .. lensAt + 255
revBytes  == revAt .. revAt + wide - 1

\* A byte of the constants, given the mask table that was passed; bytes that
\* belong to nothing are 0.
readTables(masks, a) ==
  CASE a \in maskBytes -> masks[(a - masksAt) \div wide][(a - masksAt) % wide]
    [] a \in lensBytes -> lengthTable[a - lensAt]
    [] a \in revBytes  -> a - revAt
    [] OTHER -> 0

-----------------------------------------------------------------------------
(* Execution.                                                              *)

sum(regs) == sumOf(r, regs)

write(d, val) ==
  r' = [x \in DOMAIN r \cup {d} |-> IF x = d THEN val ELSE r[x]]

ExecuteScalar(i, frame, Read(_)) ==
  /\ i.op \in ScalarOps
  /\ write(i.out, CASE i.op = "arg"  -> frame[i.in]
                    [] i.op = "set"  -> i.in
                    [] i.op = "sum"  -> sum(i.in)
                    [] i.op = "inc"  -> r[i.out] + i.in
                    [] i.op = "shl4" -> 16 * sum(i.in)
                    [] i.op = "byte" -> Read(sum(i.in)))
  /\ ip' = ip + 1

window(at, Read(_)) == [k \in Index |-> Read(at + k)]

ExecuteVector(i, Read(_)) ==
  /\ i.op \in VectorOps
  /\ \E tail \in TailBytes :
       write(i.out, CASE i.op = "vload"  -> window(sum(i.in), Read)
                      [] i.op = "LXVD2X" -> LXVD2X(window(sum(i.in), Read))
                      [] i.op = "vzero"  -> zeroVector
                      [] i.op \in ShuffleOps -> shuffled(i, r, tail))
  /\ ip' = ip + 1

storedBytes(i) == storedBy(i, r)

Jump(i, prog) ==
  /\ i.op \in {"jge", "jmp"}
  /\ ip' = IF i.op = "jmp" THEN prog.loop
           ELSE IF r[i.in[1]] >= r[i.in[2]] THEN Len(prog.code) + 1 ELSE ip + 1
  /\ UNCHANGED r

\* Everything but a store.
Execute(i, prog, frame, Read(_)) ==
  ExecuteScalar(i, frame, Read) \/ ExecuteVector(i, Read) \/ Jump(i, prog)

=============================================================================
