----------------------------- MODULE WireStrings -----------------------------
(***************************************************************************)
(* Length-prefixed strings, what every message of the agent protocol is    *)
(* made of, and how openssh/keys.go takes them apart.                      *)
(*                                                                         *)
(* A message is a sequence of symbols, each a natural number. A byte of    *)
(* the protocol, a character of a text and a 32-bit word (a length, a      *)
(* count, the flags) are one symbol each: "4 bytes" of the code is "1      *)
(* symbol" here.                                                           *)
(***************************************************************************)
EXTENDS Naturals, Sequences

Message == Seq(Nat)

\* A string on the wire, and a framed message.
Str(s) == <<Len(s)>> \o s
Frame(body) == <<Len(body)>> \o body

From(d, i) == SubSeq(d, i, Len(d))

\* The string d starts with and what follows it.
HasString(d) == Len(d) >= 1 /\ d[1] <= Len(d) - 1

TakeString(d) ==
  [ok    |-> HasString(d),
   value |-> IF HasString(d) THEN SubSeq(d, 2, 1 + d[1]) ELSE <<>>,
   rest  |-> IF HasString(d) THEN From(d, 2 + d[1]) ELSE d]
=============================================================================
