----------------------------- MODULE StreamVByte -----------------------------
(***************************************************************************)
(* The wire format of package streamvbyte: the size arithmetic, the length *)
(* classification of one integer and the control byte of one group.        *)
(*                                                                         *)
(* A uint32 is modelled by its four bytes, least significant first:        *)
(* v[j] = byte(v >> 8*j).  The comparison v < 1<<(8*(k+1)) of the code is  *)
(* then "every byte above k is zero".  Arrays are functions indexed from   *)
(* 0, like the slices they stand for.                                      *)
(***************************************************************************)
EXTENDS Integers

Byte  == 0 .. 255
Lane  == 0 .. 3               \* the four integers of a group, and the four
                              \* bytes of an integer
Value == [Lane -> Byte]       \* uint32

\* The scalar code of both directions handles one integer at a time, the
\* kernels groupSize integers, and they load and store wide bytes.
groupSize == 4
wide      == 16

-----------------------------------------------------------------------------

\* Number of control bytes for n integers.
controlLen(n) == (n + 3) \div 4

EncodedMaxLen_DataOnly(n) == IF n <= 0 THEN 0 ELSE 4 * n

\* Length a destination must have; 0 for n <= 0.  The arithmetic is that of
\* the integers: Encode has what it is in an int of 32 bits.
EncodedMaxLen(n) == IF n <= 0 THEN 0 ELSE controlLen(n) + 4 * n

\* Byte length of v, minus one.
code(v) ==
  IF v[3] # 0 THEN 3 ELSE IF v[2] # 0 THEN 2 ELSE IF v[1] # 0 THEN 1 ELSE 0

\* cd << shift, for a 2-bit code and one of the four shifts of a byte.
shiftLeft(cd, shift) ==
  CASE shift = 0 -> cd
    [] shift = 2 -> 4 * cd
    [] shift = 4 -> 16 * cd
    [] shift = 6 -> 64 * cd

\* Four codes packed in a byte, the first in the least significant bits.
\* The | of fields that do not overlap is their sum.
controlByte(a, b, c, d) ==
  code(a) + shiftLeft(code(b), 2) + shiftLeft(code(c), 4) + shiftLeft(code(d), 6)

\* (key >> 2*lane) & 3, of the eight bits of a key.
laneCode(key, lane) ==
  CASE lane = 0 -> key % 4
    [] lane = 1 -> (key \div 4) % 4
    [] lane = 2 -> (key \div 16) % 4
    [] lane = 3 -> (key \div 64) % 4
    [] OTHER    -> 0

=============================================================================
