------------------------------ MODULE NativeText ------------------------------
(***************************************************************************)
(* Text from a peer on its way into a fixed field of a native structure    *)
(* (pageant/desktop_windows.go 158-186): the title and body of a notice,   *)
(* arrays of UTF-16 units that end at the first 0.                         *)
(*                                                                         *)
(* A text is a sequence of runes, each its number.                         *)
(***************************************************************************)
EXTENDS Naturals, SequencesExt

CONSTANTS MaxText,    \* 2048
          Controls    \* the runes cleanUIText blanks, 0 and line ends among them

\* Half of a pair, and the first half of one.
Surrogate(u) == 55296 <= u /\ u <= 57343
HighSurrogate(u) == 55296 <= u /\ u <= 56319

\* What ranging over a Go string yields: a code point that is no surrogate.
IsRune(r) == r <= 1114111 /\ ~Surrogate(r)

ASSUME TextAssumption ==
  /\ MaxText \in Nat
  /\ Controls \subseteq Nat
  /\ 0 \in Controls
  /\ 32 \notin Controls
  /\ \A r \in Controls : ~Surrogate(r)

CleanRune(r) == IF r \in Controls THEN 32 ELSE r

CleanUIText(text) ==
  [i \in 1..(IF Len(text) <= MaxText THEN Len(text) ELSE MaxText) |-> CleanRune(text[i])]

\* A rune beyond 16 bits is a pair of surrogates.
UTF16(r) ==
  IF r < 65536 THEN <<r>>
  ELSE <<55296 + (r - 65536) \div 1024, 56320 + ((r - 65536) % 1024)>>

Encoded(text) == FlattenSeq([i \in DOMAIN text |-> UTF16(text[i])])

\* Mutant: cut wherever the field ends.
FitBare(units, limit) == SubSeq(units, 1, limit)

\* What is kept of units that are too many: no first half of a pair at the end.
Fit(units, limit) ==
  IF limit > 0 /\ HighSurrogate(units[limit])
    THEN SubSeq(units, 1, limit - 1) ELSE SubSeq(units, 1, limit)

\* The contents of a field of that size afterwards, its old contents cleared.
CopyUIText(size, text) ==
  LET units == Encoded(CleanUIText(text))
      kept  == IF Len(units) <= size - 1 THEN units ELSE Fit(units, size - 1)
  IN IF size = 0 THEN <<>> ELSE kept \o [i \in 1..size - Len(kept) |-> 0]
=============================================================================
