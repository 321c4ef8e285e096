------------------------------- MODULE Kernels -------------------------------
(***************************************************************************)
(* The work of one iteration of each assembly kernel: from one control     *)
(* byte and 16 loaded bytes to the 16 bytes it stores.  The loop around    *)
(* it, common to all of them, is an action of Encode and of Decode.        *)
(*                                                                         *)
(* The vector instructions are not part of the repository: each is given   *)
(* the meaning the generators' comments rely on.                           *)
(***************************************************************************)
EXTENDS ShuffleTables

CONSTANTS
  VLMAX,       \* bytes in one RVV register: VLEN / 8
  TailBytes    \* what RVV may leave in the elements beyond VL = 16

ASSUME VLMAXAssumption     == VLMAX \in Nat /\ VLMAX >= wide
ASSUME TailBytesAssumption == TailBytes \subseteq Byte /\ TailBytes # {}

Vector == [Index -> Byte]

-----------------------------------------------------------------------------
(* Targets, with the features their dispatch tests.  "power8" and "power9" *)
(* are the two ppc64le machines, "generic32" a build whose int has 32 bits.*)

Platforms == {"generic", "generic32", "amd64", "amd64_noSSSE3", "arm64", "power8",
              "power9", "riscv64", "loong64", "s390x"}

hasEncodeKernel == Platforms \ {"generic", "generic32", "amd64_noSSSE3", "power8"}
hasDecodeKernel == Platforms \ {"generic", "generic32", "amd64_noSSSE3"}

\* Four uint32 as the 16 bytes of memory they occupy, and back.
nativeBytes(platform, vals) ==
  [i \in Index |-> IF platform = "s390x" THEN vals[i \div 4][3 - (i % 4)]
                                         ELSE vals[i \div 4][i % 4]]

nativeValues(platform, w) ==
  [lane \in Lane |-> [j \in Lane |-> IF platform = "s390x" THEN w[4 * lane + (3 - j)]
                                                           ELSE w[4 * lane + j]]]

-----------------------------------------------------------------------------
(* The instructions.                                                       *)

PSHUFB(x, mask) ==
  [i \in Index |-> IF mask[i] >= 128 THEN 0 ELSE x[mask[i] % 16]]

VTBL(x, mask) ==
  [i \in Index |-> IF mask[i] < 16 THEN x[mask[i]] ELSE 0]

\* Selects from the 32 bytes of a pair of registers; also s390x VPERM.
VPERM(a, b, mask) ==
  [i \in Index |-> IF mask[i] % 32 < 16 THEN a[mask[i] % 32]
                                        ELSE b[(mask[i] % 32) - 16]]

VSHUFB(lo, hi, mask) == VPERM(lo, hi, mask)

\* The register x holds 16 loaded elements and, up to VLMAX, tail elements.
VRGATHER(x, mask, tail) ==
  [i \in Index |-> IF mask[i] >= VLMAX THEN 0
                   ELSE IF mask[i] < 16 THEN x[mask[i]] ELSE tail]

\* zeroIndex gives zero only where no RVV register reaches it; the other instructions
\* look at fewer bits of it.
GatherClears(platform) == platform = "riscv64" => VLMAX <= zeroIndex

\* On a little-endian machine the two doublewords arrive byte-reversed.
LXVD2X(m)  == [i \in Index |-> m[8 * (i \div 8) + (7 - (i % 8))]]
STXVD2X(v) == [i \in Index |-> v[8 * (i \div 8) + (7 - (i % 8))]]

zeroVector == [i \in Index |-> 0]

-----------------------------------------------------------------------------
(* ppc64le: element-order loads and stores from POWER8 instructions.       *)

vrev_Identity == [i \in Index |-> i]

vrev == LXVD2X([i \in Index |-> i])

loadB16(m)  == VPERM(LXVD2X(m), LXVD2X(m), vrev)
storeB16(v) == STXVD2X(VPERM(v, v, vrev))

-----------------------------------------------------------------------------
(* Encode kernels: key and the 16 source bytes in, 16 data bytes out.      *)

encodeGroupsSSE(key, x) == PSHUFB(x, encodeShuffleTable[key])

encodeGroupsNEON(key, x) == VTBL(x, encodeShuffleTable[key])

encodeGroupsVSX(key, x) ==
  storeB16(VPERM(loadB16(x), zeroVector, loadB16(encodeShuffleTablePerm[key])))

encodeGroupsVX(key, x) == VPERM(x, zeroVector, encodeShuffleTablePermBE[key])

encodeGroupsRVV(key, x, tail) == VRGATHER(x, encodeShuffleTable[key], tail)

encodeGroupsLSX(key, x) == VSHUFB(x, zeroVector, encodeShuffleTablePerm[key])

encodeGroup(platform, key, vals, tail) ==
  LET x == nativeBytes(platform, vals)
  IN CASE platform = "amd64"   -> encodeGroupsSSE(key, x)
       [] platform = "arm64"   -> encodeGroupsNEON(key, x)
       [] platform = "power9"  -> encodeGroupsVSX(key, x)
       [] platform = "s390x"   -> encodeGroupsVX(key, x)
       [] platform = "riscv64" -> encodeGroupsRVV(key, x, tail)
       [] platform = "loong64" -> encodeGroupsLSX(key, x)

-----------------------------------------------------------------------------
(* Decode kernels: key and 16 data bytes in, the memory of four uint32 out.*)

decodeGroupsSSE(key, x) == PSHUFB(x, shuffleTable[key])

decodeGroupsNEON(key, x) == VTBL(x, shuffleTable[key])

decodeGroupsVSX(key, x) ==
  storeB16(VPERM(loadB16(x), zeroVector, loadB16(permTable[key])))

decodeGroupsVX(key, x) == VPERM(x, zeroVector, permTableBE[key])

decodeGroupsRVV(key, x, tail) == VRGATHER(x, shuffleTable[key], tail)

decodeGroupsLSX(key, x) == VSHUFB(x, zeroVector, permTable[key])

decodeGroup(platform, key, x, tail) ==
  nativeValues(platform,
    CASE platform = "amd64"                -> decodeGroupsSSE(key, x)
      [] platform = "arm64"                -> decodeGroupsNEON(key, x)
      [] platform \in {"power8", "power9"} -> decodeGroupsVSX(key, x)
      [] platform = "s390x"                -> decodeGroupsVX(key, x)
      [] platform = "riscv64"              -> decodeGroupsRVV(key, x, tail)
      [] platform = "loong64"              -> decodeGroupsLSX(key, x))

=============================================================================
