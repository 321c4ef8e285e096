# A TLA+ model of go-simd/streamvbyte

Package `streamvbyte` packs `[]uint32` into a control stream (four 2-bit lengths
per byte) and a data stream (1 to 4 bytes per integer), and unpacks it again. It
keeps no state between calls and starts no goroutine. What makes it hard is that
one call runs through up to three loops that were written separately - a Go scan,
an assembly kernel, a Go tail - which share a buffer, two cursors and seven tables,
that the kernels load and store 16 bytes through unchecked pointers where a group
may have only 4, and that six kernels and a scalar path must produce the same bytes.

## Inventory

| Component | State | Operations | Interacts with | What makes it correct |
|---|---|---|---|---|
| Wire format (`streamvbyte.go`) | none | `EncodedMaxLen`, `controlLen`, `code`, `controlByte` | everything | a code names the length; packing four codes loses none |
| Tables (`tables.go`) | seven arrays, filled once by `init` | lookups by control byte | scans (`lengthTable`), kernels (masks) | decode masks spread, encode masks compact, the zero marker yields zero on the target |
| Entry points (`Encode`, `Decode`) | none | length checks, panic or call | dispatch | panics exactly for short destinations; nothing written before |
| Dispatch (`encode_<arch>.go`, `decode_<arch>.go`, `*_generic.go`) | CPU-feature variables | slice, scan, kernel, tail | scan, kernel, tail | hands over group and offset without loss |
| Scans (`simd.go`) | `g`, `off`, `safe` | `safeGroups`, `encodeSafeGroups` | write control bytes (encode) | the largest number of groups whose wide accesses fit |
| Kernels (`*.s`) | group counter, data cursor | 16-byte load, shuffle, 16-byte store | tables, both streams | write the scalar path's bytes, stay in bounds |
| Scalar codec (`scalar.go`) | `c`, `ki`, `shift`, `key`, `dp` | `encodeTail`, `decodeTail` | resumes after the kernel | any remaining count, any group boundary |
| Tests' reference encoder | none | `refEncode` | oracle | - |
| Kernel generators (`*_gen.go`) | - | emit one loop per target and direction | the `.s` files are their output | what they emit does a group's work, in its own memory and with registers it has set |
| Several blocks in one buffer | the buffer | two calls of `Encode`, concurrent or in turn | share one array, no lock | neither damages the other's block |
| Benchmarks | - | timing only | - | not modelled |

Hard behaviours: the order in which wide stores and the tail overwrite each other;
the hand-over between the loops; truncated streams that panic with part of `dst`
written; destinations of the exact encoded size; tables and byte order per target;
hand-written register allocation in twelve kernels; callers that put several blocks
into one buffer; the bound that wraps around in a 32-bit `int`.
`PROJECT.json` lists each hazard at its line with the properties aimed at it.

## Modules

| Module | Models | Notes |
|---|---|---|
| `StreamVByte` | sizes, `code`, `controlByte`, the 2-bit fields of a key | a uint32 is its four bytes, least significant first |
| `ShuffleTables` | the seven tables in closed form; `cursor` is the loop's cursor on entry to a lane | |
| `TableInit` | `init()`: the three loops, six rows filled side by side, seven tables | ends with the closed forms of `ShuffleTables` |
| `Kernels` | the ten targets, the shuffle instructions, one kernel iteration per target | instructions are external: they have the meaning the generators rely on, except `VRGATHER`, which has the meaning of the RVV specification |
| `Encode` | one call of `Encode` or of the unexported `encode` | one action per loop iteration |
| `Decode` | one call of `Decode`, on any byte slice and any count | one action per loop iteration |
| `Instructions` | the instructions that the generators use, with `emitLoadB16` and `emitStoreB16`, how a program is put together, and what an instruction reads and computes | |
| `Machine` | registers, instruction pointer, flat memory, execution | where the slices, the tables and the ppc64le constant lie are constants |
| `EncodeAsm`, `DecodeAsm` | the twelve emitted programs, one step per instruction, in the place of `KernelGroup` | extend `Encode`, `Decode` and `Machine`; implement `Encode`, `Decode` |
| `Notes`, `EncodeNotes`, `DecodeNotes` | no code: what the registers of the twelve programs hold, instruction by instruction, and when that follows from the instructions | `AsmInv`, the inductive invariant of the programs |
| `SharedBuffer` | two calls of `Encode` on one buffer, the second behind `EncodedMaxLen` of the first at any time, or behind its returned bytes | composes `Encode` with itself (EXTENDS and INSTANCE) |
| `Codec` | abstract promise: integers are rejected, or accepted and delivered in order, all of them | |
| `RoundTrip` | `Encode`, then `Decode` on the result, on two targets that may differ; implements `Codec` | composes `Encode` (EXTENDS) and `Decode` (INSTANCE) |
| `TableProofs` | lemmas on codes, masks and kernels, and on what each rule of `Notes` guarantees | extends `Kernels` and `Notes` |
| `EncodeProofs` | theorems on `Encode`: memory, layout, bytes | extends `TableProofs` |
| `DecodeProofs`, `TableInitProofs` | theorems on `Decode` and on `init` | |
| `RoundTripProofs`, `SharedBufferProofs` | theorems on the compositions | extend `EncodeProofs`, and INSTANCE the proofs of the second call |
| `EncodeAsmProofs`, `DecodeAsmProofs` | theorems on the emitted programs | extend the notes and the proofs of `Encode`, `Decode` |
| `MCEncode`, `MCDecode`, `MCRoundTrip`, `MCEncodeAsm`, `MCDecodeAsm`, `MCSharedBuffer` | small values for TLC; `refEncode` of the tests | |

State and code. `pc` is the loop the call is in: `entry` (checks and slicing),
`scan` (`safeGroups`/`encodeSafeGroups`), `kernel`, `tail`
(`encodeTail`/`decodeTail`), `returned`, `panicked`. `g`, `off`, `safe` are the
variables of the scan and then of the kernel, which starts again from 0; `c`, `ki`,
`shift`, `key`, `dp` are those of the tail. `dst` is the array behind the slice and
goes on for 16 bytes beyond `len(dst)`, so that a wide store beyond the slice shows.
`HandOver` is the entry of a tail function with its early return. `start` and `old`
are history variables: data offsets as they become known, and `dst` before the call.
A Go panic is the state `panicked`; what had been written stays.

In `EncodeAsm` and `DecodeAsm` a program is a sequence of instruction records, written
in the order and with the registers of the generator's builder chain; a compare is one
step with the branch behind it. The frame holds the six arguments of the call site.
Source, destination, tables and the ppc64le constant lie apart in one address space
(`MemoryAssumption`), at addresses that are constants: a behaviour has one call,
and `Read` and `Store` give the arrays of `Encode` and `Decode` as bytes in the order
of the target; `OwnMemory` says that no access leaves its object. `g` and `off` are then
histories: they count the stores, while the program keeps its own counters in
registers. `ImplementsEncode` is `Encode`'s `Spec` over the same variables: every store
must be a `KernelGroup`, all other instructions stutter, and what the kernel returns
must be what `KernelToTail` hands over.

Definitions named `<name>_<fault>` are mutants: `PROJECT.json` says for which
property each stands in for `<name>`. They are used by no specification.

## Runs

| Run | Question | Bounds |
|---|---|---|
| `encode_paths` | all safety properties of a call of the encoder | n in {0, 1, 4, 5, 8}: none, part of a group, one and two groups, with and without a tail; every `len(dst)` up to 16 more than needed, one wide store; 1- and 4-byte integers; scalar, scalar with an int of 6 bits (the bound of 8 integers, 34, wraps), POWER9 (load/store fix-ups) and s390x (big endian) |
| `encode_codes` | every control byte, several groups, every target, against the tests' `refEncode` | n in {1, 4}, one integer of each width, so 256 keys; n = 9 of 1- and 4-byte integers, so two flushes and the last key, in `EncodedMaxLen` bytes or 8 less (`CodesCall`), where a kernel may leave a group to the tail |
| `encode_clobber` | finding 1 (expected violation) | one group |
| `encode_int32` | finding 3 (expected violation) | 8 integers, int of 6 bits |
| `decode_paths` | all safety properties of a call of Decode | counts -1 to 9 around group boundaries, `len(dst)` up to n + 1, three control bytes out of {0, 228, 255}, streams cut after any byte |
| `decode_codes` | every control byte on every target | n in {4, 6}, streams just too short, just long enough and longer than one wide load |
| `decode_vlen2048` | finding 2 (expected violation) | all keys, riscv64 with 256-byte registers |
| `table_init` | does `init` build the tables, and do the masks undo each other | all 256 keys, so this run is exhaustive |
| `encode_asm` | do the emitted encode kernels implement `Encode`, with registers that hold what their notes say; does a call end | one group with all 256 keys; two groups, or one and a tail of one, of the shortest, the longest and two mixed shapes; `dst` of `EncodedMaxLen` and 12 less, where the kernel stops early |
| `decode_asm` | do the emitted decode kernels implement `Decode`, with registers that hold what their notes say; does a call end | one group with all 256 keys; up to three groups of 4, 10 or 16 bytes, streams where the second, the third or no wide load is too long |
| `roundtrip_pairs` | decoding gives back the integers, on pairs of targets; refinement of `Codec`; all of it gets decoded | n in {0, 1, 4, 5, 8}, little and big endian in both roles |
| `shared_blocks` | two interleaved calls in one buffer | blocks of 4 and 5 integers, a buffer that just holds a 4 and a 5; scalar and amd64 |

Why the bounds are enough for the interesting cases: with two complete groups the
first wide store overlaps the second group's data, and with n = 5 the tail's; group
lengths 4 and 16 are the extremes at which a wide access fits or not; at every
`len(dst)` the scan stops at each possible group; nine integers make the scalar tail
cross two control bytes. The paths do not depend on byte values other than through
the codes, which the `codes` and `asm` runs exhaust. Two groups make a kernel use all its
cursors, and the third of `decode_asm` shows that nothing of the first is left. A stop
of the kernel depends on `dataLen` only, so 12 bytes less are enough. An int of 6 bits
behaves as one of 32 bits does, at sizes that can be enumerated: the only arithmetic that
wraps is that of `EncodedMaxLen` (`asInt`), and `Addressable` keeps both slices in memory.

Properties worth reading first: `FinalBytesStay` (an action property: no write ever
changes a byte of an integer already written, or a control byte), `ClobberIsBounded`,
`DecodedPrefix` (at every moment, a panic included, `dst` is the decoded integers
followed by its old content), `SafeIsLargest`, `RemainderIsShort`,
`PanicsOnlyWhenTruncated`, `StaysInMaxLen` with `BothBlocks`, `RowsInStep`,
`ImplementsEncode`, `AsmInv` and `ImplementsCodec`. The type invariants are conjuncts of the
inductive invariants that the runs check (`EncodeInv`, `IndInv`, `RTInv`, `BlocksInv`).

Deadlock is checked in all runs; a call that is over stutters (`Stop`, `RTStop`).

**Fairness.** `WF(Step)`: a call is straight-line code that never blocks, so it takes
its next step as long as it has one. `Call` is not fair: nobody has to call. In
`RoundTrip` the caller goes on to decode what it has encoded, as the tests do.
`WF(AsmStep)` is the same for a processor that executes its next instruction, and
`WF(Step)` of `TableInit` for package initialisation, which Go completes before `main`.
`SharedBuffer` has no fairness: its properties are safety.

## Findings

1. `tables.go:52-55` says that the trailing positions of a compaction mask are never
   stored. The kernels store all 16 bytes; `encode_clobber` shows `dst` changed beyond
   the returned length. `ClobberIsBounded` is what does hold: only zeros, only within
   the wide store of the last group the kernel took.
2. `tables.go:26-29` and `decode_riscv64.go:6-7` say that `vrgather` gives zero for an
   index of at least 16. RVV gives zero for an index of at least VLMAX = VLEN/8; with
   VLEN = 2048, within the README's `VLEN >= 128`, index 0xFF reads a tail element of
   the loaded register, and decoded integers are wrong (`decode_vlen2048`). On
   registers of up to 128 bytes (`VLMAX <= 255`) 0xFF is out of range and the code is
   right. The other runs take VLMAX = 16.
3. `streamvbyte.go:23-25` calls `EncodedMaxLen` an upper bound. In a 32-bit `int` it wraps
   to a negative number for more than 505290270 integers, and `Encode`'s check lets any
   `dst` pass (`encode_int32`). Such builds are scalar; `encode_paths` shows that a call
   then still encodes rightly, or panics where the room ends (`PanicsOnlyWhenTooShort`).

## Proofs

The theorems hold for every set of targets, lengths, values and old contents, every
slack, every width of `int`, and every VLMAX of at least 16 - all sizes of source,
stream and destination. The assumptions are those of the constants
(`VLMAXAssumption`, `TailBytesAssumption`, `TargetsAssumption`, `InputAssumption`,
`DecodeTargetsAssumption`, `RoomAssumption`, `MemoryAssumption`), which TLC evaluates in the runs. One
assumption comes on top, and only where `Decode`'s bytes are concerned: `GathersClear`
(`DecoderClears` for the round trip), that a riscv64 machine which decodes has VLMAX of
at most 255. Finding 2 is what happens without it. `MemoryAssumption`, for the programs
only, says that the objects of a call have addresses in `Int` at which they do not
overlap; with more than one length that means lengths up to some maximum, of any size.

| Module | Theorem | States |
|---|---|---|
| `EncodeProofs` | `Invariance`, `TypeCorrect` | `IndInv`, `TypeOK` |
| | `NoByteBeyondDst` | `NoOverrun`: the unchecked wide stores stay in `dst` |
| | `MaxLenInvariance`, `NoByteBeyondMaxLen` | `MaxLenInv`, `StaysInMaxLen`: and in `EncodedMaxLen(n)`, however long `dst` is |
| | `LayoutInvariance` | `LayoutInv` |
| | `SafeGroupsIsLargest`, `EncodeTailIsShort` | `SafeIsLargest`, `RemainderIsShort` |
| | `PanicsAreJustified` | `PanicsOnlyWhenTooShort` |
| | `FinalBytesAreFinal` | `FinalBytesStay` (action property) |
| | `ContentInvariance`, `EncodeHolds` | `ContentInv`, `EncodeInv` |
| | `WritesWireFormat` | `EncodesSource`: the bytes are those of the source on every target and path |
| | `ClearsOnlyLastStore` | `ClobberIsBounded` |
| `DecodeProofs` | `Invariance`, `TypeCorrect` | `IndInv`, `TypeOK` |
| | `NoLoadBeyondStream` | `LoadInBounds`: the unchecked wide loads stay in `src`, whatever it holds |
| | `SafeGroupsIsLargest`, `PanicsAreJustified` | `SafeIsLargest`, `PanicsOnlyWhenTruncated` |
| | `DecodesPrefix`, `ReadsWholeStream` (`GathersClear`) | `DecodedPrefix`, `ReadsStream` |
| `RoundTripProofs` | `RTInvariance`, `RoundTrips` (`DecoderClears`) | `RTInv`, `Reproduces` |
| | `NeverRejected` | `NeverCut` |
| | `Refinement` (`DecoderClears`) | `RTSpec => ImplementsCodec` |
| `SharedBufferProofs` | `BlocksInvariance` | `BlocksInv`, of `SBInv` and `SBContent` |
| | `BothBlocksAreWritten`, `NeitherDamages` | `BothBlocks`, `NoDamage` (action property) |
| `TableInitProofs` | `TablesInvariance`, `RowsHoldMasks`, `TableTypes` | `IndInv`, `RowInv`, `TypeOK` |
| | `RowsStayInStep`, `TablesAreBuilt`, `MasksUndoEachOther` | `RowsInStep`, `BuildsTables`, `MasksUndo` |
| `EncodeAsmProofs` | `EncodeRegisters` | `AsmInv`: what the registers hold at every instruction |
| | `EncodeProgramsAreKernels` | `AsmSpec => ImplementsEncode` |
| | `EncodeProgramsWriteWireFormat` | `EncodesSource` of the programs |
| | `EncodeOwnMemory`, `EncodeRegistersSet` | `OwnMemory`, `RegistersSet` |
| `DecodeAsmProofs` | `DecodeRegisters` | `AsmInv` |
| | `DecodeProgramsAreKernels` | `AsmSpec => ImplementsDecode` |
| | `DecodeProgramsReadStream` (`GathersClear`) | `ReadsStream` of the programs |
| | `DecodeOwnMemory`, `DecodeRegistersSet` | `OwnMemory`, `RegistersSet` |

**Masks and kernels** (`TableProofs`). The code of an integer and the four fields of a
control byte (`CodeType`, `ControlByteLanes`), the cursor and the length of a group
(`CursorSteps`, `LengthType`: 4 to 16); data byte p of a group is byte j of a lane
exactly when the cursor says so (`BytePosition`). From these, instruction by
instruction: an encode kernel stores the bytes that the control byte counts, in order,
and clears the rest (`EncodeGroupBytes`); a decode kernel puts each at its place and
zero elsewhere (`DecodeGroupValues`). The first needs nothing of RVV but VLMAX >= 16,
the zeros need `GatherClears`: so the wire bytes are right on every machine, while what
is cleared behind them, and what is decoded, is not.

**Encode.** `NoOverrun` is not inductive: that a wide store fits was decided by the scan,
a loop earlier. `IndInv` carries that over: `ScanCursor` says that the offsets recorded
in `start` are the scan's, that they grow by the table lengths of the control bytes in
`dst` (`GroupChain`), and that the stores of the groups before `safe` fit
(`StoresFit`); `KernelCursor` says that the kernel, which computes its offsets again
from the control bytes it reads back, is at the same offsets - true because its stores
lie beyond the control bytes, which is itself part of the induction. `TailCursor` and
`KeyFits` keep `encodeTail`'s control-byte index and its key in range. `MaxLenInv` adds
that the kernel is at most 16 bytes per group along, and the tail four per integer.

`LayoutInv` says which offsets and control bytes these are: those of `src`
(`OffsetsKnown`, `ControlsKnown`, with the half-packed key of the tail), that offsets
never decrease and are at most four per integer (`Grows`), and that the scan has stopped
at the first group that does not fit (`SafeGroups`). `FinalBytesStay` follows step by
step: a write starts at the offset behind all that is final. `ContentInv` then says
which bytes lie at the offsets (`HoldsIntegers`), and that everything behind is as it
was, or cleared by the last wide store (`ClearedAfter`): without that, nothing would be
known of the bytes that the tail and the caller find there. `LayoutInv` is relative to
`IndInv`, and `ContentInv` to both; each is shown inductive under the ones before it.
`EncodeInv` is the conjunction of the four, which `encode_paths` checks.

**Decode.** The control bytes are arbitrary, so there is no source to compare with:
`IndInv` says that `start` holds the offsets that they spell out (`OffsetsKnown`), that
all three loops are on them, and what the scan has established for the loads
(`LoadsFit`). `DecodedPrefix` is inductive relative to it.

**Round trip.** The proof instantiates `DecodeProofs` for the second call (`P`) and adds
to the invariants of the two calls that Decode was given the bytes that Encode said it
wrote (`Received`) and that its offsets are those of Encode (`OffsetsAgree`). The latter
needs that the code which Decode reads from a control byte is the one Encode packed
there (`CodeInKey`, `IntegerRead`). Then no integer is missing (`NothingMissing`), and
each is the source's (`DecodesSource`). The refinement maps every step: `Call` to
`Submit`, the return or panic of Encode to `Accept` or `Reject`, `Receive` to `Open`,
a kernel group or an integer of the tail to `Deliver`, the return of Decode to
`Finish`, everything else to a stutter.

**Shared buffer.** Neither call is a behaviour of `Encode`: the other one changes `dst`
under it. The proof shows that each is one on its own part. `shadow` is the buffer with
the second block's part as it was before that call; the first call runs on `shadow` as
`Encode` does (`X`, an instance of `EncodeProofs`), because all it reads and writes lies
before `EncodedMaxLen(n)` (that is what `StaysInMaxLen` is for), or it has returned
already. The second call runs on its slice (`Y`). `Placed` says where that slice is, and
`RunsBefore` and `Own` what belongs to whom. All theorems about `Encode` then apply to
both calls.

**Tables.** `RowsSoFar` says of each of the six rows what it holds where the loops have
been, and what where not; `LoopsInStep` ties the cursor to the closed form of
`ShuffleTables`; `TablesSoFar` is the same for the tables, by key. TLC checks `RowInv`,
the part about one key, at every step; the tables are too large to compare at every
step, so it has those from `BuildsTables`, after each key.

**Programs.** An invariant that spelled out the registers of twelve programs at each of
some 300 instructions would be as long as the programs, and as hard to trust. Instead,
every instruction has a note, the role of what it leaves in its register: `"maskAt"` is
the address of the mask of the group at hand, `"nextOff"` the data offset behind it
(`notesSSE` to `notesLSX`). `Notes` is a type system for such programs. `Live` says that
an instruction's register has not been set again, `Has` that a register holds a role,
and `Justified` has one rule per kind of instruction - an address of a mask is `masks`
plus 16 times the key, a key is a byte loaded from the address of a control byte, the
result of the lookup instruction of the target, with its operands in its order, is
`"out"`. `WellLooped` says that what holds at the head of the loop holds again when the
loop comes back, with the cursors one group on. A program is `Annotated` when all of this
is so; that is a fact about a finite sequence, proved instruction by instruction for each
program (`SSEAnnotated` to `LSXAnnotated`), from lemmas that tabulate its operations,
registers and notes (`SSEOps`, `SSEOuts`, `SSEIns`, `SSERoles`).

`Means` gives each role its values, from the call, the group and what is in memory there
(`env`), and `AsmInv` says that the registers hold them (`Holds`), that the group is in
range (`Rolls`), and that `Decode` or `Encode` is in `IndInv`. The rest is generic in the
program. For every rule, a lemma of `TableProofs` says that an instruction that follows
it computes a value of its role (`SumsValue`, `WideValue`, `CombineValue` and their like);
`StepHolds` carries the other registers along, and `NextMeans` takes the cursors around
the loop. A
store is the step of `KernelGroup` because the address has the role that stores have, the
bytes are `"out"`, and the scan has let the group pass (`StoreIsGroup`); on the encode
side it must also be shown that the store leaves alone what the notes rely on in memory:
the control bytes, which lie before the data. `OwnMemory` follows from the meaning of the
addresses and what `IndInv` says of the scan, `RegistersSet` because each rule names the
registers it reads. What the theorems about `Encode` and `Decode` say then holds of the
emitted programs: `EncodeProgramsWriteWireFormat` and `DecodeProgramsReadStream`.

Only model-checked: liveness (`CallEnds`, `GetsThrough`, `InitEnds`), as this prover has
no ENABLED; and `MatchesRefEncode`, as `refEncode` is a fold, and what a fold computes
takes an induction over data. The wire format that `EncodesSource` states is proved; that
the tests' encoder writes the same is what `encode_codes` checks.

## Abstractions

- A call touches only its arguments and the constant tables. Calls of `Decode` share
  nothing that is written, so concurrent calls are modelled for `Encode` only. `dst`
  and `src` do not overlap. A wide store is one step: the bytes of another goroutine's
  block are not among those it writes, so its parts need not be told apart.
- Addresses in `Machine` are integers and objects lie apart; flags, stack and condition
  registers are folded into one compare-and-branch step. `VSETVLI` is folded into the
  immediate 16 that it sets.
- `Encode` and `Decode` index arrays where the kernels have addresses; `EncodeAsm` and
  `DecodeAsm` show that this is right, and the refinement theorems prove it.
- Sizes are unbounded integers, except the result of `EncodedMaxLen` on `generic32`.
- `cap(dst)` and `cap(src)` do not matter: `dst[:cl]` is followed by `dst[cl:]`,
  which panics for `cl > len(dst)`.
- The initial content of arrays is one non-zero filler, so that cleared bytes show.

Not modelled: how the generators lay out argument frames and write `.s` files (I/O and a
library of another repository), benchmarks, module files.

## State

All components named above are modelled, except the benchmarks. Every safety property,
action property and refinement that the runs check has a theorem, but for
`MatchesRefEncode`.
