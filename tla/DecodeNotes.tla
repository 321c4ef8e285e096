----------------------------- MODULE DecodeNotes -----------------------------
(***************************************************************************)
(* The registers of the decode kernels: the note of every instruction of   *)
(* the six programs, and the inductive invariant that they give.           *)
(***************************************************************************)
EXTENDS DecodeAsm, Notes

notesSSE ==
  <<"ints", "ctrl", "data", "safe", "masks", "lens", "g", "off",
    "none", "key", "key", "key16", "maskAt", "mask", "vals", "out",
    "g", "g16", "out", "len", "nextOff", "nextG", "none">>

notesNEON ==
  <<"ints", "ctrl", "data", "safe", "masks", "lens", "g", "off",
    "none", "key", "key16", "maskAt", "mask", "dataAt", "vals", "out",
    "g16", "intsAt", "out", "len", "nextOff", "nextG", "none">>

notesVSX ==
  <<"ints", "ctrl", "data", "safe", "masks", "lens", "g", "off", "zero",
    "revAt", "rev",
    "none", "ctrlAt", "key", "key16", "maskAt", "rawMask", "mask",
    "dataAt", "rawVals", "vals", "out", "g16", "intsAt", "rawOut", "rawOut",
    "lenAt", "len", "nextOff", "nextG", "none">>

notesVX ==
  <<"intsAt", "ctrlAt", "dataAt", "safe", "masks", "lens", "off", "ctrlEnd", "zero",
    "none", "key", "key16", "maskAt", "mask", "vals", "out", "out",
    "lenAt", "len", "nextDataAt", "nextOff", "nextIntsAt", "nextCtrlAt", "none">>

notesRVV ==
  <<"ints", "ctrl", "data", "safe", "masks", "lens", "width", "g", "off",
    "none", "ctrlAt", "key", "key16", "maskAt", "mask", "dataAt", "vals",
    "out", "g16", "intsAt", "out", "lenAt", "len", "nextOff", "nextG", "none">>

notesLSX ==
  <<"ints", "ctrl", "data", "safe", "masks", "lens", "g", "off", "zero",
    "none", "ctrlAt", "key", "key16", "maskAt", "mask", "dataAt", "vals",
    "out", "g16", "intsAt", "out", "lenAt", "len", "nextOff", "nextG", "none">>

notes ==
  CASE platform = "amd64"   -> notesSSE
    [] platform = "arm64"   -> notesNEON
    [] platform \in {"power8", "power9"} -> notesVSX
    [] platform = "s390x"   -> notesVX
    [] platform = "riscv64" -> notesRVV
    [] platform = "loong64" -> notesLSX

\* Data are loaded, and integers stored.
sig(target) ==
  [platform |-> target, args |-> <<"ints", "ctrl", "data", "safe", "masks", "lens">>,
   load |-> "dataAt", store |-> "intsAt", rev |-> revAt]

-----------------------------------------------------------------------------
(* The inductive invariant.                                                *)

\* Behind the last instruction the kernel is as it is at the head of its loop.
here == IF ip > Len(prog.code) THEN prog.loop ELSE ip

\* The group that the loop is at; g and off run ahead of it once it is stored.
group == IF Stored(prog, here) THEN g - 1 ELSE g

keyRead == Read(srcAt + group)

env ==
  [data |-> srcAt + cl, ctrl |-> srcAt, ints |-> dstAt, safe |-> safe,
   masks |-> masksAt, lens |-> lensAt, rev |-> revAt,
   g |-> group, off |-> start[4 * group],
   key |-> keyRead, len |-> Read(lensAt + keyRead),
   mask |-> window(masksAt + 16 * keyRead, Read),
   vals |-> window(srcAt + cl + start[4 * group], Read),
   reversal |-> LXVD2X(window(revAt, Read))]

Rolls ==
  /\ ip \in 1 .. Len(prog.code) + 1 /\ group >= 0
  /\ ip < prog.loop => g = 0
  /\ ip > Len(prog.code) => g = safe
  /\ prog.loop < ip /\ ip <= Len(prog.code) => group < safe

\* The call is one that Call makes, and the registers hold what the notes say.
AsmInv ==
  /\ IndInv
  /\ pc # "idle" => n \in Counts /\ \E s \in Streams : srcLen = s.len
  /\ pc = "kernel" => Rolls /\ Holds(prog, notes, here, r, Means(platform, env))

=============================================================================
