-------------------------------- MODULE WireTypes --------------------------------
(***************************************************************************)
(* The values that follow a key on the wire: how fuzzymonkey.pb.go writes  *)
(* a number, and how it reads a value of each wire type and finds what     *)
(* follows it.  Reading gives a set of one pair, empty when it returns an  *)
(* error.  Numbers are below 2^31, so five bytes are enough for each; the  *)
(* code's own end at ten, and refuse a longer one as is done here.         *)
(***************************************************************************)
EXTENDS Naturals, Sequences

(* What each byte of a number stands for. *)
Weight == <<1, 128, 128 * 128, 128 * 128 * 128, 128 * 128 * 128 * 128>>

sov(n) == CHOOSE k \in 1..5 : /\ k = 5 \/ n < Weight[k + 1]
                              /\ k = 1 \/ n >= Weight[k]

encodeVarint(n) ==
  [i \in 1..sov(n) |-> IF i < sov(n) THEN 128 + ((n \div Weight[i]) % 128) ELSE n \div Weight[i]]

(* A string, a message, or a list that is packed. *)
Delimited(bytes) == encodeVarint(Len(bytes)) \o bytes

-----------------------------------------------------------------------------
From(b, i) == SubSeq(b, i, Len(b))

(* The number that the first bytes of b, up to last, are. *)
Number(b, last) ==
  LET Part(i) == IF i <= last THEN (b[i] % 128) * Weight[i] ELSE 0
  IN Part(1) + Part(2) + Part(3) + Part(4) + Part(5)

(* A number ends at the first byte that does not say it continues. *)
EndsAt(b, last) == last <= Len(b) /\ b[last] < 128 /\ \A i \in 1..(last - 1) : b[i] >= 128

(* The number at the beginning of b and what follows it, if it is whole. *)
TakeVarint(b) ==
  {<<Number(b, last), From(b, last + 1)>> : last \in {k \in 1..5 : EndsAt(b, k)}}

TakeBytes(n, b) == IF n > Len(b) THEN {} ELSE {<<SubSeq(b, 1, n), From(b, n + 1)>>}

(* The value of a wire type at the beginning of b and what follows it. *)
Take(wireType, b) ==
  CASE wireType = 0 -> TakeVarint(b)
    [] wireType = 1 -> TakeBytes(8, b)
    [] wireType = 2 -> UNION {TakeBytes(l[1], l[2]) : l \in TakeVarint(b)}
    [] wireType = 5 -> TakeBytes(4, b)
    [] OTHER        -> {}
================================================================================
