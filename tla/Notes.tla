-------------------------------- MODULE Notes --------------------------------
(***************************************************************************)
(* What the registers of a kernel hold.  Every instruction has a note, the *)
(* role of what its register holds behind it: "maskAt" is the address of   *)
(* the mask of the group at hand, "nextOff" the data offset behind it.  A  *)
(* program is Annotated if each note follows from the notes that are still *)
(* good where its instruction is: a type system for the twelve programs.   *)
(***************************************************************************)
EXTENDS Instructions

\* The registers that go from one group to the next, and what they then become.
next == [g |-> "nextG", off |-> "nextOff", ctrlAt |-> "nextCtrlAt",
         intsAt |-> "nextIntsAt", dataAt |-> "nextDataAt"]

Cursors == DOMAIN next

\* What is the same for all groups.
Fixed == {"data", "ctrl", "ints", "safe", "masks", "lens", "ctrlEnd", "width",
          "zero", "revAt", "rev"}

isPPC(platform) == platform \in {"power8", "power9"}

-----------------------------------------------------------------------------
(* Which notes are good at instruction i of the program p.                 *)

\* The register that instruction k has set still holds the same when i is next.
\* The prologue's are set once, unless the loop moves them on.
Live(p, notes, k, i) ==
  /\ p.code[k].out # "none"
  /\ \A m \in k + 1 .. i - 1 : p.code[m].out # p.code[k].out
  /\ k < p.loop /\ p.loop <= i =>
       \/ notes[k] \in Cursors
       \/ \A m \in p.loop .. Len(p.code) : p.code[m].out # p.code[k].out

Has(p, notes, i, x, role) ==
  \E k \in 1 .. i - 1 : p.code[k].out = x /\ notes[k] = role /\ Live(p, notes, k, i)

\* The store of the group at hand lies behind.
Stored(p, i) == \E k \in 1 .. i - 1 : p.code[k].op \in StoreOps

-----------------------------------------------------------------------------
(* How the note of an instruction follows.  sig says what the arguments    *)
(* are, whether integers are loaded and data stored or data loaded and     *)
(* integers stored, and the address of the constant.                       *)

Sums == {<<"ctrl", "g", "ctrlAt">>, <<"ints", "g16", "intsAt">>,
         <<"data", "off", "dataAt">>, <<"masks", "key16", "maskAt">>,
         <<"lens", "key", "lenAt">>, <<"len", "off", "nextOff">>,
         <<"off", "len", "nextOff">>, <<"len", "dataAt", "nextDataAt">>}

Sources(in, k) == Len(in) = k /\ DOMAIN in = 1 .. k

AddsUp(p, notes, i, role) ==
  LET in == p.code[i].in
  IN \/ Sources(in, 1) /\ Has(p, notes, i, in[1], role)
     \/ /\ Sources(in, 2)
        /\ \E s \in Sums : /\ s[3] = role
                           /\ Has(p, notes, i, in[1], s[1])
                           /\ Has(p, notes, i, in[2], s[2])

\* Cursors begin at the start of what they run through.
TakesArgument(sig, p, notes, i) ==
  /\ p.code[i].op = "arg" /\ i < p.loop /\ p.code[i].in \in DOMAIN sig.args
  /\ \/ notes[i] = sig.args[p.code[i].in]
     \/ \E s \in {<<"ctrl", "ctrlAt">>, <<"ints", "intsAt">>, <<"data", "dataAt">>} :
          sig.args[p.code[i].in] = s[1] /\ notes[i] = s[2]

SetsConstant(sig, p, notes, i) ==
  /\ p.code[i].op = "set" /\ i < p.loop
  /\ \E s \in {<<0, "g">>, <<0, "off">>, <<wide, "width">>, <<sig.rev, "revAt">>} :
       p.code[i].in = s[1] /\ notes[i] = s[2]

AddsOrMoves(p, notes, i) ==
  /\ p.code[i].op = "sum"
  /\ \/ p.loop < i /\ AddsUp(p, notes, i, notes[i])
     \/ /\ i < p.loop /\ notes[i] = "ctrlEnd" /\ Sources(p.code[i].in, 2)
        /\ Has(p, notes, i, p.code[i].in[1], "ctrlAt")
        /\ Has(p, notes, i, p.code[i].in[2], "safe")

Advances(p, notes, i) ==
  /\ p.code[i].op = "inc" /\ p.loop < i
  /\ \E s \in {<<"g", 1>>, <<"ctrlAt", 1>>, <<"intsAt", wide>>} :
       /\ p.code[i].in = s[2] /\ notes[i] = next[s[1]]
       /\ Has(p, notes, i, p.code[i].out, s[1])

Scales(p, notes, i) ==
  /\ p.code[i].op = "shl4" /\ p.loop < i /\ Sources(p.code[i].in, 1)
  /\ \E s \in {<<"g", "g16">>, <<"key", "key16">>} :
       notes[i] = s[2] /\ Has(p, notes, i, p.code[i].in[1], s[1])

LoadsByte(p, notes, i) ==
  /\ p.code[i].op = "byte" /\ p.loop < i
  /\ \/ notes[i] = "key" /\ AddsUp(p, notes, i, "ctrlAt")
     \/ notes[i] = "len" /\ AddsUp(p, notes, i, "lenAt")

LoadsWide(sig, p, notes, i) ==
  /\ p.code[i].op = (IF isPPC(sig.platform) THEN "LXVD2X" ELSE "vload")
  /\ \/ /\ notes[i] = (IF isPPC(sig.platform) THEN "rawMask" ELSE "mask")
        /\ p.loop < i /\ AddsUp(p, notes, i, "maskAt")
     \/ /\ notes[i] = (IF isPPC(sig.platform) THEN "rawVals" ELSE "vals")
        /\ p.loop < i /\ AddsUp(p, notes, i, sig.load)
     \/ /\ notes[i] = "rev" /\ isPPC(sig.platform) /\ i < p.loop
        /\ Sources(p.code[i].in, 1) /\ Has(p, notes, i, p.code[i].in[1], "revAt")

Clears(p, notes, i) == p.code[i].op = "vzero" /\ notes[i] = "zero" /\ i < p.loop

\* From the order in which LXVD2X loads to that of the elements, or back.
Reorders(sig, p, notes, i) ==
  /\ isPPC(sig.platform) /\ p.code[i].op = "VPERM" /\ p.loop < i /\ Sources(p.code[i].in, 3)
  /\ p.code[i].in[2] = p.code[i].in[1] /\ Has(p, notes, i, p.code[i].in[3], "rev")
  /\ \E s \in {<<"rawMask", "mask">>, <<"rawVals", "vals">>, <<"out", "rawOut">>} :
       notes[i] = s[2] /\ Has(p, notes, i, p.code[i].in[1], s[1])

Combines(sig, p, notes, i) ==
  LET op == p.code[i].op
      source(k, role) == Has(p, notes, i, p.code[i].in[k], role)
  IN /\ notes[i] = "out" /\ p.loop < i
     /\ \/ /\ \/ sig.platform = "amd64" /\ op = "PSHUFB"
              \/ sig.platform = "arm64" /\ op = "VTBL"
              \/ sig.platform = "riscv64" /\ op = "VRGATHERVV"
           /\ Sources(p.code[i].in, 2) /\ source(1, "mask") /\ source(2, "vals")
        \/ /\ isPPC(sig.platform) \/ sig.platform = "s390x"
           /\ op = "VPERM" /\ Sources(p.code[i].in, 3)
           /\ source(1, "vals") /\ source(2, "zero") /\ source(3, "mask")
        \/ /\ sig.platform = "loong64" /\ op = "VSHUFB" /\ Sources(p.code[i].in, 3)
           /\ source(1, "mask") /\ source(2, "vals") /\ source(3, "zero")

StoresWide(sig, p, notes, i) ==
  /\ p.code[i].op = (IF isPPC(sig.platform) THEN "STXVD2X" ELSE "vstore")
  /\ notes[i] = (IF isPPC(sig.platform) THEN "rawOut" ELSE "out")
  /\ Has(p, notes, i, p.code[i].out, notes[i])
  /\ AddsUp(p, notes, i, sig.store)
  /\ p.loop < i /\ ~Stored(p, i)

Jumps(p, notes, i) ==
  /\ p.code[i].out = "none"
  /\ \/ /\ p.code[i].op = "jge" /\ i = p.loop /\ Sources(p.code[i].in, 2)
        /\ \E s \in {<<"g", "safe">>, <<"ctrlAt", "ctrlEnd">>} :
             /\ Has(p, notes, i, p.code[i].in[1], s[1])
             /\ Has(p, notes, i, p.code[i].in[2], s[2])
     \/ p.code[i].op = "jmp" /\ i = Len(p.code) /\ Stored(p, i)

Justified(sig, p, notes, i) ==
  \/ TakesArgument(sig, p, notes, i) \/ SetsConstant(sig, p, notes, i)
  \/ AddsOrMoves(p, notes, i) \/ Advances(p, notes, i) \/ Scales(p, notes, i)
  \/ LoadsByte(p, notes, i) \/ LoadsWide(sig, p, notes, i) \/ Clears(p, notes, i)
  \/ Reorders(sig, p, notes, i) \/ Combines(sig, p, notes, i)
  \/ StoresWide(sig, p, notes, i) \/ Jumps(p, notes, i)

\* What is good at the head of the loop is so again when the loop comes back to it.
WellLooped(p, notes) ==
  \A k \in 1 .. p.loop - 1 : Live(p, notes, k, p.loop) =>
    \/ notes[k] \in Fixed
    \/ /\ notes[k] \in Cursors
       /\ Has(p, notes, Len(p.code), p.code[k].out, next[notes[k]])

Annotated(sig, p, notes) ==
  /\ Len(p.code) \in Nat /\ p.loop \in 1 .. Len(p.code) - 1
  /\ p.code[p.loop].op = "jge" /\ p.code[Len(p.code)].op = "jmp"
  /\ \A i \in 1 .. Len(p.code) : Justified(sig, p, notes, i)
  /\ WellLooped(p, notes)
  /\ Has(p, notes, p.loop, p.result, "off")

-----------------------------------------------------------------------------
(* What the roles mean, for the group e.g at hand, whose data begin at     *)
(* e.off: e has the arguments of the kernel, and what is in memory at the  *)
(* group's control byte, its length, its mask and where it is loaded from. *)

combined(platform, x, mask, tail) ==
  CASE platform = "amd64"   -> PSHUFB(x, mask)
    [] platform = "arm64"   -> VTBL(x, mask)
    [] platform = "riscv64" -> VRGATHER(x, mask, tail)
    [] platform = "loong64" -> VSHUFB(x, zeroVector, mask)
    [] OTHER -> VPERM(x, zeroVector, mask)

\* 16 bytes of memory, as a kernel has them in a register.
elements(platform, e, w) ==
  IF isPPC(platform) THEN VPERM(LXVD2X(w), LXVD2X(w), e.reversal) ELSE w

outs(platform, e) ==
  {combined(platform, elements(platform, e, e.vals), elements(platform, e, e.mask), tail) :
     tail \in TailBytes}

Means(platform, e) ==
  [data |-> {e.data}, ctrl |-> {e.ctrl}, ints |-> {e.ints}, safe |-> {e.safe},
   masks |-> {e.masks}, lens |-> {e.lens}, revAt |-> {e.rev}, width |-> {wide},
   g |-> {e.g}, g16 |-> {16 * e.g}, nextG |-> {e.g + 1},
   off |-> {e.off}, nextOff |-> {e.off + e.len},
   ctrlAt |-> {e.ctrl + e.g}, nextCtrlAt |-> {e.ctrl + e.g + 1},
   ctrlEnd |-> {e.ctrl + e.safe},
   intsAt |-> {e.ints + 16 * e.g}, nextIntsAt |-> {e.ints + 16 * e.g + wide},
   dataAt |-> {e.data + e.off}, nextDataAt |-> {e.data + e.off + e.len},
   key |-> {e.key}, key16 |-> {16 * e.key}, maskAt |-> {e.masks + 16 * e.key},
   lenAt |-> {e.lens + e.key}, len |-> {e.len},
   zero |-> {zeroVector}, rev |-> {e.reversal},
   rawMask |-> {LXVD2X(e.mask)}, mask |-> {elements(platform, e, e.mask)},
   rawVals |-> {LXVD2X(e.vals)}, vals |-> {elements(platform, e, e.vals)},
   out |-> outs(platform, e),
   rawOut |-> {VPERM(v, v, e.reversal) : v \in outs(platform, e)}]

\* The registers R hold what the notes say, as far as they are good at i.
Holds(p, notes, i, R, means) ==
  \A k \in 1 .. i - 1 : Live(p, notes, k, i) =>
    p.code[k].out \in DOMAIN R /\ R[p.code[k].out] \in means[notes[k]]

=============================================================================
