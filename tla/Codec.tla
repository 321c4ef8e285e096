-------------------------------- MODULE Codec --------------------------------
(***************************************************************************)
(* What the package promises to whoever encodes integers and decodes them  *)
(* again: the encoder takes the integers or panics; once it has taken      *)
(* them, the decoder delivers them, from the first on, until it has        *)
(* delivered all of them.  Nothing else is ever delivered.                 *)
(***************************************************************************)
EXTENDS Integers

CONSTANTS
  Item,        \* what is sent
  Sizes        \* how many of them

VARIABLES
  stage,
  size, sent,       \* the integers handed to the encoder
  count, received   \* those delivered so far

vars == <<stage, size, sent, count, received>>

prefix(k) == [i \in 0 .. k - 1 |-> sent[i]]

Init ==
  /\ stage = "idle"
  /\ size = 0 /\ sent = [i \in 0 .. -1 |-> 0]
  /\ count = 0 /\ received = sent

Submit ==
  /\ stage = "idle" /\ stage' = "encoding"
  /\ size' \in Sizes
  /\ sent' \in [0 .. size' - 1 -> Item]
  /\ UNCHANGED <<count, received>>

Reject ==
  /\ stage = "encoding" /\ stage' = "rejected"
  /\ UNCHANGED <<size, sent, count, received>>

Accept ==
  /\ stage = "encoding" /\ stage' = "encoded"
  /\ UNCHANGED <<size, sent, count, received>>

Open ==
  /\ stage = "encoded" /\ stage' = "decoding"
  /\ UNCHANGED <<size, sent, count, received>>

\* The next integers arrive, one by one or in groups.
Deliver ==
  /\ stage = "decoding"
  /\ count' \in count + 1 .. size
  /\ received' = prefix(count')
  /\ UNCHANGED <<stage, size, sent>>

Finish ==
  /\ stage = "decoding" /\ stage' = "done"
  /\ count = size
  /\ UNCHANGED <<size, sent, count, received>>

Next == Submit \/ Reject \/ Accept \/ Open \/ Deliver \/ Finish

Spec == Init /\ [][Next]_vars

=============================================================================
