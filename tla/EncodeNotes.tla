----------------------------- MODULE EncodeNotes -----------------------------
(***************************************************************************)
(* The registers of the encode kernels: the note of every instruction of   *)
(* the six programs, and the inductive invariant that they give.           *)
(***************************************************************************)
EXTENDS EncodeAsm, Notes

notesSSE ==
  <<"data", "ctrl", "ints", "safe", "masks", "lens", "g", "off",
    "none", "key", "key", "key16", "maskAt", "mask", "g", "g16", "vals",
    "out", "out", "len", "nextOff", "nextG", "none">>

notesNEON ==
  <<"data", "ctrl", "ints", "safe", "masks", "lens", "g", "off",
    "none", "key", "key16", "maskAt", "mask", "g16", "intsAt", "vals",
    "out", "dataAt", "out", "len", "nextOff", "nextG", "none">>

notesVSX ==
  <<"data", "ctrl", "ints", "safe", "masks", "lens", "g", "off", "zero",
    "revAt", "rev",
    "none", "ctrlAt", "key", "key16", "maskAt", "rawMask", "mask", "g16",
    "intsAt", "rawVals", "vals", "out", "dataAt", "rawOut", "rawOut",
    "lenAt", "len", "nextOff", "nextG", "none">>

notesVX ==
  <<"dataAt", "ctrlAt", "intsAt", "safe", "masks", "lens", "off", "ctrlEnd", "zero",
    "none", "key", "key16", "maskAt", "mask", "vals", "out", "out",
    "lenAt", "len", "nextDataAt", "nextOff", "nextIntsAt", "nextCtrlAt", "none">>

notesRVV ==
  <<"data", "ctrl", "ints", "safe", "masks", "lens", "width", "g", "off",
    "none", "ctrlAt", "key", "key16", "maskAt", "mask", "g16", "intsAt",
    "vals", "out", "dataAt", "out", "lenAt", "len", "nextOff", "nextG", "none">>

notesLSX ==
  <<"data", "ctrl", "ints", "safe", "masks", "lens", "g", "off", "zero",
    "none", "ctrlAt", "key", "key16", "maskAt", "mask", "g16", "intsAt",
    "vals", "out", "dataAt", "out", "lenAt", "len", "nextOff", "nextG", "none">>

notes ==
  CASE platform = "amd64"   -> notesSSE
    [] platform = "arm64"   -> notesNEON
    [] platform = "power9"  -> notesVSX
    [] platform = "s390x"   -> notesVX
    [] platform = "riscv64" -> notesRVV
    [] platform = "loong64" -> notesLSX

\* Integers are loaded, and data stored.
sig(target) ==
  [platform |-> target, args |-> <<"data", "ctrl", "ints", "safe", "masks", "lens">>,
   load |-> "intsAt", store |-> "dataAt", rev |-> revAt]

-----------------------------------------------------------------------------
(* The inductive invariant.                                                *)

\* Behind the last instruction the kernel is as it is at the head of its loop.
here == IF ip > Len(prog.code) THEN prog.loop ELSE ip

\* The group that the loop is at; g and off run ahead of it once it is stored.
group == IF Stored(prog, here) THEN g - 1 ELSE g

keyRead == Read(dstAt + group)

env ==
  [data |-> dstAt + cl, ctrl |-> dstAt, ints |-> srcAt, safe |-> safe,
   masks |-> masksAt, lens |-> lensAt, rev |-> revAt,
   g |-> group, off |-> start[4 * group],
   key |-> keyRead, len |-> Read(lensAt + keyRead),
   mask |-> window(masksAt + 16 * keyRead, Read),
   vals |-> window(srcAt + 16 * group, Read),
   reversal |-> LXVD2X(window(revAt, Read))]

Rolls ==
  /\ ip \in 1 .. Len(prog.code) + 1 /\ group >= 0
  /\ ip < prog.loop => g = 0
  /\ ip > Len(prog.code) => g = safe
  /\ prog.loop < ip /\ ip <= Len(prog.code) => group < safe

\* The call is one that Call makes, and the registers hold what the notes say.
AsmInv ==
  /\ IndInv
  /\ pc # "idle" => n \in Lengths /\ len <= EncodedMaxLen(n) + Slack
  /\ pc = "kernel" => Rolls /\ Holds(prog, notes, here, r, Means(platform, env))

=============================================================================
