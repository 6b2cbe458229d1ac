----------------------------- MODULE ParserProofs -----------------------------
(***************************************************************************)
(* TLAPS proofs about what the parsers are built from, for messages and    *)
(* command lines of any content and length.                                *)
(*                                                                         *)
(* Loops: induction over the rounds of a loop, and that a loop has a state *)
(* after each of them. Both are stated over sets and functions, which the  *)
(* provers can instantiate. Strings: what takeString cuts off is what was  *)
(* encoded, and what was encoded is cut off, whatever follows it. Command  *)
(* lines: the loop over the words keeps, after each word, what the options *)
(* and the destination before it say (Control).                            *)
(***************************************************************************)
EXTENDS WireStrings, ClientTarget, SequenceTheorems, WellFoundedInduction, TLAPS

\* What takeString has cut off is a string, and what is left follows it.
LEMMA TakeStringSplits ==
  ASSUME NEW d \in Message, TakeString(d).ok
  PROVE  /\ TakeString(d).value \in Message
         /\ TakeString(d).rest \in Message
         /\ d = Str(TakeString(d).value) \o TakeString(d).rest
<1>1. HasString(d)
  BY DEF TakeString
<1>2. PICK n : n = d[1]
  OBVIOUS
<1>3. Len(d) \in Nat /\ n \in Nat /\ 1 <= Len(d) /\ n <= Len(d) - 1
  BY <1>1, <1>2 DEF HasString, Message
<1>4. PICK v : v = SubSeq(d, 2, 1 + n)
  OBVIOUS
<1>5. PICK r : r = SubSeq(d, 2 + n, Len(d))
  OBVIOUS
<1>6. TakeString(d).value = v /\ TakeString(d).rest = r
  BY <1>1, <1>2, <1>4, <1>5, Zenon DEF TakeString, From
<1>7. v \in Seq(Nat) /\ Len(v) = n
  BY <1>3, <1>4 DEF Message
<1>8. r \in Seq(Nat) /\ Len(r) = Len(d) - 1 - n
  BY <1>3, <1>5 DEF Message
<1>9. d = (<<n>> \o v) \o r
  <2>1. <<n>> \o v \in Seq(Nat) /\ Len(<<n>> \o v) = n + 1
    BY <1>3, <1>7
  <2>2. (<<n>> \o v) \o r \in Seq(Nat) /\ Len((<<n>> \o v) \o r) = Len(d)
    <3>1. PICK s : s = <<n>> \o v
      OBVIOUS
    <3>2. s \in Seq(Nat) /\ Len(s) = n + 1
      BY <2>1, <3>1, Zenon
    <3>3. s \o r \in Seq(Nat) /\ Len(s \o r) = Len(s) + Len(r)
      BY <1>8, <3>2, ConcatProperties, Zenon
    <3>4. Len(s) + Len(r) = Len(d)
      BY <1>3, <1>8, <3>2
    <3>5. QED
      BY <3>1, <3>3, <3>4, Zenon
  <2>3. ASSUME NEW i \in 1..Len(d) PROVE ((<<n>> \o v) \o r)[i] = d[i]
    <3>1. CASE i = 1
      BY <1>2, <1>3, <1>7, <1>8, <2>1, <3>1
    <3>2. CASE i \in 2..n + 1
      BY <1>3, <1>4, <1>7, <1>8, <2>1, <3>2 DEF Message
    <3>3. CASE i \in n + 2..Len(d)
      <4>1. PICK s : s = <<n>> \o v
        OBVIOUS
      <4>2. (s \o r)[i] = r[i - (n + 1)]
        BY <1>3, <1>8, <2>1, <3>3, <4>1
      <4>3. r[i - (n + 1)] = d[i]
        BY <1>3, <1>5, <3>3, SMTT(30) DEF Message
      <4>4. QED
        BY <4>1, <4>2, <4>3
    <3>4. i = 1 \/ i \in 2..n + 1 \/ i \in n + 2..Len(d)
      BY <1>3
    <3>5. QED
      BY <3>1, <3>2, <3>3, <3>4
  <2>4. QED
    BY <2>2, <2>3, SeqEqual, Zenon DEF Message
<1>10. QED
  BY <1>6, <1>7, <1>8, <1>9, Zenon DEF Str, Message

\* And the other way round: an encoded string is taken, whatever follows it.
LEMMA TakeStringReads ==
  ASSUME NEW v \in Message, NEW rest \in Message
  PROVE  TakeString(Str(v) \o rest) = [ok |-> TRUE, value |-> v, rest |-> rest]
<1>1. PICK d : d = (<<Len(v)>> \o v) \o rest
  OBVIOUS
<1>2. /\ d \in Seq(Nat) /\ Len(d) = 1 + Len(v) + Len(rest)
      /\ d[1] = Len(v) /\ Len(v) \in Nat /\ Len(rest) \in Nat
  BY <1>1 DEF Message
<1>3. SubSeq(d, 2, 1 + d[1]) = v
  BY <1>1, <1>2 DEF Message
<1>4. SubSeq(d, 2 + d[1], Len(d)) = rest
  <2>1. SubSeq(d, 2 + d[1], Len(d)) \in Seq(Nat) /\ Len(SubSeq(d, 2 + d[1], Len(d))) = Len(rest)
    BY <1>2
  <2>2. ASSUME NEW i \in 1..Len(rest) PROVE SubSeq(d, 2 + d[1], Len(d))[i] = rest[i]
    <3>1. SubSeq(d, 2 + d[1], Len(d))[i] = d[1 + Len(v) + i]
      BY <1>2
    <3>2. d[1 + Len(v) + i] = rest[i]
      BY <1>1, <1>2 DEF Message
    <3>3. QED
      BY <3>1, <3>2
  <2>3. QED
    BY <2>1, <2>2, SeqEqual, Zenon DEF Message
<1>5. HasString(d)
  BY <1>2 DEF HasString
<1>6. QED
  BY <1>1, <1>3, <1>4, <1>5, Zenon DEF TakeString, From, Str

\* The symbol in front, and the rest.
LEMMA FrontSplits ==
  ASSUME NEW d \in Message, d # <<>>
  PROVE  From(d, 2) \in Message /\ d[1] \in Nat /\ d = <<d[1]>> \o From(d, 2)
BY DEF From, Message

\* A symbol put in front is the one that is cut off.
LEMMA FrontReads ==
  ASSUME NEW x \in Nat, NEW d \in Message
  PROVE  /\ <<x>> \o d \in Message /\ <<x>> \o d # <<>>
         /\ (<<x>> \o d)[1] = x /\ From(<<x>> \o d, 2) = d
BY DEF From, Message

\* A symbol in front moves the places of the others by one.
LEMMA Prefixed ==
  ASSUME NEW x \in Nat, NEW m \in Message
  PROVE  /\ <<x>> \o m \in Message /\ Len(<<x>> \o m) = 1 + Len(m)
         /\ (<<x>> \o m)[1] = x
         /\ \A i \in 1..Len(m) : (<<x>> \o m)[i + 1] = m[i]
BY DEF Message

\* Encoded strings and concatenations are messages.
LEMMA StrType == ASSUME NEW v \in Message PROVE Str(v) \in Message
BY DEF Str, Message

LEMMA AppendType == ASSUME NEW v \in Message, NEW w \in Message PROVE v \o w \in Message
BY DEF Message

\* What follows the third symbol is what follows the first of what follows the second.
LEMMA FromFrom ==
  ASSUME NEW f \in Message, Len(f) >= 3
  PROVE  f[3] = From(f, 3)[1] /\ From(f, 4) = From(From(f, 3), 2)
<1>1. PICK n \in Nat : n = Len(f)
  BY DEF Message
<1>2. PICK m : m = SubSeq(f, 3, n)
  OBVIOUS
<1>3. m \in Seq(Nat) /\ Len(m) = n - 2 /\ \A i \in 1..n - 2 : m[i] = f[i + 2]
  BY <1>1, <1>2 DEF Message
<1>4. f[3] = m[1]
  BY <1>1, <1>3
<1>5. PICK a : a = SubSeq(f, 4, n)
  OBVIOUS
<1>6. a \in Seq(Nat) /\ Len(a) = n - 3 /\ \A i \in 1..n - 3 : a[i] = f[i + 3]
  <2>1. \A i \in 4..n : f[i] \in Nat
    BY <1>1 DEF Message
  <2>2. a \in Seq(Nat) /\ Len(a) = n - 3
    BY <1>1, <1>5, <2>1 DEF Message
  <2>3. \A i \in 1..n - 3 : a[i] = f[i + 3]
    BY <1>1, <1>5, <2>1 DEF Message
  <2>4. QED
    BY <2>2, <2>3
<1>7. PICK b : b = SubSeq(m, 2, n - 2)
  OBVIOUS
<1>8. b \in Seq(Nat) /\ Len(b) = n - 3 /\ \A i \in 1..n - 3 : b[i] = m[i + 1]
  BY <1>1, <1>3, <1>7, SMTT(30)
<1>9. \A i \in 1..n - 3 : m[i + 1] = f[i + 3]
  BY <1>1, <1>3
<1>10. a = b
  BY <1>6, <1>8, <1>9, SeqEqual
<1>11. QED
  BY <1>1, <1>2, <1>3, <1>4, <1>5, <1>7, <1>10, Zenon DEF From

\* The order of the fields is that of the message.
LEMMA TakeStringPlaces ==
  ASSUME NEW d \in Message
  PROVE  /\ TakeString(d).ok <=> HasString(d)
         /\ TakeString(d).ok =>
              /\ d[1] = Len(TakeString(d).value)
              /\ Len(d) = 1 + Len(TakeString(d).value) + Len(TakeString(d).rest)
              /\ \A i \in 1..Len(TakeString(d).value) : TakeString(d).value[i] = d[i + 1]
<1>1. TakeString(d).ok <=> HasString(d)
  BY DEF TakeString
<1>2. ASSUME TakeString(d).ok
      PROVE  /\ d[1] = Len(TakeString(d).value)
             /\ Len(d) = 1 + Len(TakeString(d).value) + Len(TakeString(d).rest)
             /\ \A i \in 1..Len(TakeString(d).value) : TakeString(d).value[i] = d[i + 1]
  <2>1. PICK v \in Seq(Nat), r \in Seq(Nat) :
          /\ v = TakeString(d).value /\ r = TakeString(d).rest
          /\ d = (<<Len(v)>> \o v) \o r
    BY <1>2, TakeStringSplits, Zenon DEF Str, Message
  <2>2. PICK s : s = <<Len(v)>> \o v
    OBVIOUS
  <2>3. /\ s \in Seq(Nat) /\ Len(s) = 1 + Len(v) /\ s[1] = Len(v)
        /\ \A i \in 1..Len(v) : s[i + 1] = v[i]
    BY <2>2
  <2>4. d = s \o r
    BY <2>1, <2>2, Zenon
  <2>5. Len(v) \in Nat /\ Len(r) \in Nat
    OBVIOUS
  <2>6. Len(d) = 1 + Len(v) + Len(r) /\ \A i \in 1..1 + Len(v) : d[i] = s[i]
    <3>1. /\ Len(s \o r) = Len(s) + Len(r)
          /\ \A i \in 1..Len(s) + Len(r) :
               (s \o r)[i] = IF i <= Len(s) THEN s[i] ELSE r[i - Len(s)]
      <4>1. v \in Seq(Nat) /\ r \in Seq(Nat)
        OBVIOUS
      <4>2. s \in Seq(Nat)
        BY <2>3
      <4>3. QED
        BY <4>1, <4>2, ConcatProperties, SMTT(30)
    <3>2. QED
      BY <2>3, <2>4, <2>5, <3>1
  <2>7. d[1] = Len(v) /\ \A i \in 1..Len(v) : v[i] = d[i + 1]
    BY <2>3, <2>5, <2>6
  <2>8. QED
    BY <2>1, <2>6, <2>7, Zenon
<1>3. QED
  BY <1>1, <1>2

-----------------------------------------------------------------------------
(* Frames *)

\* A frame whose length is right is a type, and a body that follows it.
LEMMA FrameSplits ==
  ASSUME NEW f \in Message, Len(f) >= 2, f[1] = Len(f) - 1
  PROVE  From(f, 3) \in Message /\ f[2] \in Nat /\ f = Frame(<<f[2]>> \o From(f, 3))
<1>1. PICK m : m = From(f, 3)
  OBVIOUS
<1>2. m \in Seq(Nat) /\ Len(m) = Len(f) - 2 /\ f[2] \in Nat /\ Len(f) \in Nat
  <2>1. Len(f) \in Nat /\ f[2] \in Nat
    BY DEF Message
  <2>2. \A i \in 3..Len(f) : f[i] \in Nat
    BY <2>1 DEF Message
  <2>3. /\ SubSeq(f, 3, Len(f)) \in Seq(Nat)
        /\ Len(SubSeq(f, 3, Len(f))) = IF 3 <= Len(f) THEN Len(f) - 3 + 1 ELSE 0
    BY <2>1, <2>2, SubSeqProperties
  <2>4. m = SubSeq(f, 3, Len(f))
    BY <1>1, Zenon DEF From
  <2>5. m \in Seq(Nat) /\ Len(m) = IF 3 <= Len(f) THEN Len(f) - 3 + 1 ELSE 0
    BY <2>3, <2>4, Zenon
  <2>6. (IF 3 <= Len(f) THEN Len(f) - 3 + 1 ELSE 0) = Len(f) - 2
    <3>1. \A k \in Nat : k >= 2 => (IF 3 <= k THEN k - 3 + 1 ELSE 0) = k - 2
      OBVIOUS
    <3>2. QED
      BY <2>1, <3>1, Zenon
  <2>7. QED
    BY <2>1, <2>5, <2>6, Zenon
<1>3. PICK b : b = <<f[2]>> \o m
  OBVIOUS
<1>4. b \in Seq(Nat) /\ Len(b) = Len(f) - 1
  BY <1>2, <1>3
<1>5. b[1] = f[2] /\ \A i \in 2..Len(b) : b[i] = f[i + 1]
  <2>1. b[1] = f[2]
    BY <1>2, <1>3
  <2>2. ASSUME NEW i \in 2..Len(b) PROVE b[i] = f[i + 1]
    <3>1. b[i] = m[i - 1]
      BY <1>2, <1>3, <1>4
    <3>2. m[i - 1] = f[i + 1]
      BY <1>1, <1>2, <1>4 DEF From, Message
    <3>3. QED
      BY <3>1, <3>2
  <2>3. QED
    BY <2>1, <2>2
<1>6. PICK g : g = <<Len(b)>> \o b
  OBVIOUS
<1>7. g \in Seq(Nat) /\ Len(g) = Len(f)
  BY <1>4, <1>2, <1>6
<1>8. ASSUME NEW i \in 1..Len(f) PROVE g[i] = f[i]
  <2>1. CASE i = 1
    BY <1>4, <1>6, <2>1
  <2>2. CASE i # 1
    <3>1. g[i] = b[i - 1] /\ i - 1 \in 1..Len(b)
      BY <1>2, <1>4, <1>6, <2>2
    <3>2. b[i - 1] = f[i]
      <4>1. CASE i = 2
        BY <1>5, <4>1
      <4>2. CASE i # 2
        <5>1. i - 1 \in 2..Len(b) /\ (i - 1) + 1 = i
          BY <1>2, <1>4, <2>2, <4>2
        <5>2. QED
          BY <1>5, <5>1
      <4>3. QED
        BY <4>1, <4>2
    <3>3. QED
      BY <3>1, <3>2
  <2>3. QED
    BY <2>1, <2>2
<1>9. f = g
  BY <1>7, <1>8, SeqEqual, Zenon DEF Message
<1>10. QED
  BY <1>1, <1>2, <1>3, <1>6, <1>9, Zenon DEF Frame, Message

\* And every body is the body of its frame.
LEMMA FrameReads ==
  ASSUME NEW x \in Nat, NEW m \in Message
  PROVE  LET f == Frame(<<x>> \o m) IN
         /\ f \in Message /\ Len(f) = 2 + Len(m) /\ f[1] = Len(f) - 1
         /\ f[2] = x /\ From(f, 3) = m
<1>1. PICK b : b = <<x>> \o m
  OBVIOUS
<1>2. b \in Seq(Nat) /\ Len(b) = 1 + Len(m) /\ b[1] = x /\ Len(m) \in Nat
  BY <1>1 DEF Message
<1>3. PICK f : f = <<Len(b)>> \o b
  OBVIOUS
<1>4. f \in Seq(Nat) /\ Len(f) = 2 + Len(m) /\ f[1] = Len(b) /\ f[2] = x
  BY <1>2, <1>3
<1>5. PICK r : r = SubSeq(f, 3, Len(f))
  OBVIOUS
<1>6. r \in Seq(Nat) /\ Len(r) = Len(m)
  BY <1>2, <1>4, <1>5, SMTT(30)
<1>7. ASSUME NEW i \in 1..Len(m) PROVE r[i] = m[i]
  <2>1. r[i] = f[i + 2]
    BY <1>2, <1>4, <1>5
  <2>2. f[i + 2] = b[i + 1]
    BY <1>2, <1>3
  <2>3. b[i + 1] = m[i]
    BY <1>1, <1>2 DEF Message
  <2>4. QED
    BY <2>1, <2>2, <2>3
<1>8. r = m
  BY <1>6, <1>7, SeqEqual, Zenon DEF Message
<1>9. f[1] = Len(f) - 1
  BY <1>2, <1>4
<1>10. QED
  BY <1>1, <1>3, <1>4, <1>5, <1>8, <1>9, Zenon DEF Frame, From, Message

-----------------------------------------------------------------------------
(* Induction and loops *)

\* Induction over the naturals, for a set instead of a predicate.
LEMMA NatSetInduction ==
  ASSUME NEW S, 0 \in S, \A n \in Nat : n \in S => n + 1 \in S
  PROVE  Nat \subseteq S
<1> SUFFICES ASSUME ~(Nat \subseteq S) PROVE FALSE
  OBVIOUS
<1>1. PICK T : T = Nat \ S
  OBVIOUS
<1>2. T \subseteq Nat /\ T # {}
  BY <1>1
<1>3. PICK R : R = {p \in Nat \X Nat : p[1] < p[2]}
  OBVIOUS
<1>4. IsWellFoundedOn(R, Nat)
  BY <1>3, NatLessThanWellFounded DEF OpToRel
<1>5. PICK x \in T : \A y \in T : ~(<<y, x>> \in R)
  BY <1>2, <1>4, WFMin, Zenon
<1>6. \A y \in T : ~(y < x)
  <2>1. \A y \in T : y < x => <<y, x>> \in R
    BY <1>2, <1>3
  <2>2. QED
    BY <1>5, <2>1
<1>7. x \in Nat /\ x # 0 /\ x - 1 \in Nat /\ x - 1 < x /\ (x - 1) + 1 = x
  BY <1>1, <1>2
<1>8. x - 1 \notin T
  BY <1>6, <1>7
<1>9. QED
  BY <1>1, <1>2, <1>5, <1>7, <1>8

\* g is a loop of N rounds over S that starts with b: F[n] is the n-th round.
IsLoop(g, N, S, b, F) ==
  /\ g \in [0..N -> S]
  /\ g[0] = b
  /\ \A n \in 1..N : g[n] = F[n][g[n - 1]]

\* Every loop has a state after each of its rounds.
LEMMA Recursion ==
  ASSUME NEW S, NEW b \in S, NEW F \in [Nat -> [S -> S]], NEW N \in Nat
  PROVE  \E g : IsLoop(g, N, S, b, F)
<1>1. PICK T : T = {m \in Nat : \E g \in [0..m -> S] :
                      g[0] = b /\ \A n \in 1..m : g[n] = F[n][g[n - 1]]}
  OBVIOUS
<1>2. 0 \in T
  <2>1. PICK g : g = [n \in 0..0 |-> b]
    OBVIOUS
  <2>2. g \in [0..0 -> S] /\ g[0] = b /\ \A n \in 1..0 : g[n] = F[n][g[n - 1]]
    BY <2>1
  <2>3. QED
    BY <1>1, <2>2
<1>3. ASSUME NEW m \in Nat, m \in T PROVE m + 1 \in T
  <2>1. PICK g \in [0..m -> S] : g[0] = b /\ \A n \in 1..m : g[n] = F[n][g[n - 1]]
    BY <1>1, <1>3
  <2>2. PICK h : h = [n \in 0..m + 1 |-> IF n = m + 1 THEN F[m + 1][g[m]] ELSE g[n]]
    OBVIOUS
  <2>3. F[m + 1][g[m]] \in S
    OBVIOUS
  <2>4. h \in [0..m + 1 -> S]
    BY <2>2, <2>3
  <2>5. h[0] = b
    BY <2>1, <2>2
  <2>6. ASSUME NEW n \in 1..m + 1 PROVE h[n] = F[n][h[n - 1]]
    <3>1. h[n - 1] = g[n - 1]
      BY <2>2
    <3>2. CASE n = m + 1
      BY <2>2, <3>1, <3>2
    <3>3. CASE n # m + 1
      <4>1. n \in 1..m /\ n \in 0..m + 1
        BY <3>3
      <4>2. h[n] = g[n]
        BY <2>2, <3>3, <4>1
      <4>3. QED
        BY <2>1, <3>1, <4>1, <4>2
    <3>4. QED
      BY <3>2, <3>3
  <2>7. QED
    BY <1>1, <2>4, <2>5, <2>6
<1>4. Nat \subseteq T
  BY <1>2, <1>3, NatSetInduction, Zenon
<1>5. N \in T
  BY <1>4
<1>6. QED
  BY <1>1, <1>5, Zenon DEF IsLoop

-----------------------------------------------------------------------------
(* Messages put together from parts *)

\* Nothing put before or after a message leaves it as it is; order is all that counts.
LEMMA ConcatFacts ==
  /\ <<>> \in Message
  /\ \A v \in Message : v \o <<>> = v /\ <<>> \o v = v
  /\ \A v, w \in Message : v \o w \in Message /\ Len(v \o w) = Len(v) + Len(w)
  /\ \A u, v, w \in Message : (u \o v) \o w = u \o (v \o w)
<1>1. \A v \in Message : v \o <<>> = v /\ <<>> \o v = v
  BY DEF Message
<1>2. \A v, w \in Message : v \o w \in Message /\ Len(v \o w) = Len(v) + Len(w)
  BY DEF Message
<1>3. \A u, v, w \in Message : (u \o v) \o w = u \o (v \o w)
  BY SMTT(60) DEF Message
<1>4. <<>> \in Message
  BY DEF Message
<1>5. QED
  BY <1>1, <1>2, <1>3, <1>4, Zenon

\* Every part of a message put together from parts, from the last to the first.
LEMMA FlattenPrefixes ==
  ASSUME NEW s \in Seq(Message)
  PROVE  \E p \in [0..Len(s) -> Message] :
           /\ p[0] = <<>>
           /\ \A n \in 1..Len(s) : p[n] = p[n - 1] \o s[n]
           /\ p[Len(s)] = FlattenSeq(s)
<1>1. Len(s) \in Nat /\ \A n \in 1..Len(s) : s[n] \in Message
  OBVIOUS
<1>2. <<>> \in Message /\ \A v, w \in Message : v \o w \in Message /\ <<>> \o v = v
  BY DEF Message
<1>3. PICK F : F = [n \in Nat |-> [x \in Message |-> IF n \in 1..Len(s) THEN x \o s[n] ELSE x]]
  OBVIOUS
<1>4. F \in [Nat -> [Message -> Message]]
  <2>1. ASSUME NEW n \in Nat PROVE F[n] \in [Message -> Message]
    <3>1. F[n] = [x \in Message |-> IF n \in 1..Len(s) THEN x \o s[n] ELSE x]
      BY <1>3, Zenon
    <3>2. \A x \in Message : (IF n \in 1..Len(s) THEN x \o s[n] ELSE x) \in Message
      BY <1>1, <1>2, Zenon
    <3>3. QED
      BY <3>1, <3>2, Zenon
  <2>2. QED
    BY <1>3, <2>1, Zenon
<1>5. PICK p \in [0..Len(s) -> Message] :
        p[0] = <<>> /\ \A n \in 1..Len(s) : p[n] = F[n][p[n - 1]]
  <2>1. PICK p : IsLoop(p, Len(s), Message, <<>>, F)
    BY <1>1, <1>2, <1>4, Recursion, Zenon
  <2>2. QED
    BY <2>1, Zenon DEF IsLoop
<1>6. \A n \in 1..Len(s) : p[n] = p[n - 1] \o s[n]
  <2>1. ASSUME NEW n \in 1..Len(s) PROVE p[n] = p[n - 1] \o s[n]
    <3>1. n \in Nat /\ n - 1 \in 0..Len(s)
      BY <1>1
    <3>2. p[n - 1] \in Message
      BY <3>1, Zenon
    <3>3. F[n][p[n - 1]] = p[n - 1] \o s[n]
      BY <1>3, <3>1, <3>2, Zenon
    <3>4. QED
      BY <1>5, <3>3, Zenon
  <2>2. QED
    BY <2>1
<1>7. p[Len(s)] = FlattenSeq(s)
  <2>1. CASE Len(s) = 0
    <3>1. s = <<>>
      BY <2>1
    <3>2. QED
      BY <1>5, <2>1, <3>1, Zenon DEF FlattenSeq
  <2>2. CASE Len(s) # 0
    <3> DEFINE Flat(f) == [i \in 1..Len(s) |-> IF i = 1 THEN s[i] ELSE f[i - 1] \o s[i]]
               f0 == CHOOSE f : f = Flat(f)
    <3>1. PICK g : g = [i \in 1..Len(s) |-> p[i]]
      OBVIOUS
    <3>2. g = Flat(g)
      <4>1. ASSUME NEW i \in 1..Len(s)
            PROVE  g[i] = IF i = 1 THEN s[i] ELSE g[i - 1] \o s[i]
        <5>1. CASE i = 1
          <6>1. p[1] = <<>> \o s[1]
            <7>1. 1 \in 1..Len(s) /\ 1 - 1 = 0
              BY <5>1
            <7>2. QED
              BY <1>5, <1>6, <7>1, Zenon
          <6>2. QED
            BY <1>1, <1>2, <3>1, <5>1, <6>1
        <5>2. CASE i # 1
          <6>1. i - 1 \in 1..Len(s)
            BY <1>1, <5>2
          <6>2. QED
            BY <1>6, <3>1, <5>2, <6>1, Zenon
        <5>3. QED
          BY <5>1, <5>2
      <4>2. QED
        BY <3>1, <4>1, Zenon
    <3>3. f0 = Flat(f0)
      BY <3>2, Zenon
    <3>4. FlattenSeq(s) = f0[Len(s)]
      BY <2>2, Zenon DEF FlattenSeq
    <3>5. f0 = [i \in 1..Len(s) |-> IF i = 1 THEN s[i] ELSE f0[i - 1] \o s[i]]
      BY <3>3, Zenon
    <3> HIDE DEF f0, Flat
    <3>6. PICK T : T = {i \in Nat : i + 1 <= Len(s) => f0[i + 1] = p[i + 1]}
      OBVIOUS
    <3>7. 0 \in T
      <4>1. p[1] = <<>> \o s[1] /\ 1 \in 1..Len(s)
        BY <1>1, <1>5, <1>6, <2>2
      <4>2. f0[1] = s[1]
        BY <3>5, <4>1, Zenon
      <4>3. f0[1] = p[1]
        BY <1>1, <1>2, <4>1, <4>2, Zenon
      <4>4. QED
        BY <3>6, <4>3
    <3>8. ASSUME NEW i \in Nat, i \in T PROVE i + 1 \in T
      <4>1. ASSUME i + 2 <= Len(s) PROVE f0[i + 2] = p[i + 2]
        <5>1. /\ i + 2 \in 1..Len(s) /\ (i + 2) - 1 = i + 1 /\ i + 2 # 1
              /\ i + 1 <= Len(s)
          BY <1>1, <4>1
        <5>2. f0[i + 2] = f0[i + 1] \o s[i + 2]
          BY <3>5, <5>1, Zenon
        <5>3. p[i + 2] = p[i + 1] \o s[i + 2]
          BY <1>6, <5>1, Zenon
        <5>4. f0[i + 1] = p[i + 1]
          BY <3>6, <3>8, <5>1, Zenon
        <5>5. QED
          BY <5>2, <5>3, <5>4, Zenon
      <4>2. (i + 1) + 1 = i + 2
        OBVIOUS
      <4>3. QED
        BY <3>6, <4>1, <4>2
    <3>9. Nat \subseteq T
      BY <3>7, <3>8, NatSetInduction, Zenon
    <3>10. Len(s) - 1 \in T /\ (Len(s) - 1) + 1 = Len(s)
      BY <1>1, <2>2, <3>9
    <3>11. f0[Len(s)] = p[Len(s)]
      BY <1>1, <3>6, <3>10
    <3>12. QED
      BY <3>4, <3>11, Zenon
  <2>3. QED
    BY <2>1, <2>2
<1>8. QED
  BY <1>5, <1>6, <1>7, Zenon

\* A message and what follows it.
LEMMA ConcatPlaces ==
  ASSUME NEW a \in Message, NEW b \in Message
  PROVE  /\ Len(a) \in Nat /\ Len(b) \in Nat
         /\ SubSeq(a \o b, 1, Len(a)) = a
         /\ \A i \in 1..Len(a) : (a \o b)[i] = a[i]
         /\ \A i \in 1..Len(b) : (a \o b)[Len(a) + i] = b[i]
<1>1. PICK m \in Nat, n \in Nat : m = Len(a) /\ n = Len(b)
  BY DEF Message
<1>2. PICK c : c = a \o b
  OBVIOUS
<1>3. /\ c \in Seq(Nat) /\ Len(c) = m + n
      /\ \A i \in 1..m : c[i] = a[i]
      /\ \A i \in 1..n : c[m + i] = b[i]
  BY <1>1, <1>2 DEF Message
<1>4. PICK d : d = SubSeq(c, 1, m)
  OBVIOUS
<1>5. d \in Seq(Nat) /\ Len(d) = m /\ \A i \in 1..m : d[i] = c[i]
  BY <1>1, <1>3, <1>4
<1>6. d = a
  BY <1>1, <1>3, <1>5, SeqEqual DEF Message
<1>7. QED
  BY <1>1, <1>2, <1>3, <1>4, <1>6, Zenon

\* What takeString leaves behind, whether or not there is a string.
LEMMA TakeStringType ==
  ASSUME NEW d \in Message
  PROVE  /\ TakeString(d).ok \in BOOLEAN
         /\ TakeString(d).value \in Message
         /\ TakeString(d).rest \in Message
<1>1. TakeString(d).ok = HasString(d) /\ HasString(d) \in BOOLEAN
  BY Zenon DEF TakeString, HasString
<1>2. CASE HasString(d)
  BY <1>1, <1>2, TakeStringSplits, Zenon
<1>3. CASE ~HasString(d)
  <2>1. TakeString(d).value = <<>> /\ TakeString(d).rest = d
    BY <1>3, Zenon DEF TakeString
  <2>2. QED
    BY <1>1, <2>1, ConcatFacts, Zenon
<1>4. QED
  BY <1>2, <1>3

\* The concatenation of messages is a message.
LEMMA FlattenType ==
  ASSUME NEW s \in Seq(Message)
  PROVE  FlattenSeq(s) \in Message
<1>1. PICK p \in [0..Len(s) -> Message] : p[Len(s)] = FlattenSeq(s)
  BY FlattenPrefixes, Zenon
<1>2. Len(s) \in 0..Len(s)
  OBVIOUS
<1>3. QED
  BY <1>1, <1>2, Zenon

\* What is left of a message of parts when the first n have been taken.
LEMMA FlattenSuffixes ==
  ASSUME NEW s \in Seq(Message)
  PROVE  \E q \in [0..Len(s) -> Message] :
           /\ q[0] = FlattenSeq(s)
           /\ \A n \in 1..Len(s) : q[n - 1] = s[n] \o q[n]
           /\ q[Len(s)] = <<>>
<1>1. PICK N \in Nat : N = Len(s)
  OBVIOUS
<1>2. \A n \in 1..N : s[n] \in Message
  BY <1>1
<1>3. PICK F : F = [n \in Nat |-> [x \in Message |-> IF n \in 1..N THEN s[N + 1 - n] \o x ELSE x]]
  OBVIOUS
<1>4. F \in [Nat -> [Message -> Message]]
  <2>1. ASSUME NEW n \in Nat PROVE F[n] \in [Message -> Message]
    <3>1. F[n] = [x \in Message |-> IF n \in 1..N THEN s[N + 1 - n] \o x ELSE x]
      BY <1>3, Zenon
    <3>2. n \in 1..N => N + 1 - n \in 1..N
      OBVIOUS
    <3>3. \A x \in Message : (IF n \in 1..N THEN s[N + 1 - n] \o x ELSE x) \in Message
      BY <1>2, <3>2, ConcatFacts, Zenon
    <3>4. QED
      BY <3>1, <3>3, Zenon
  <2>2. QED
    BY <1>3, <2>1, Zenon
<1>5. PICK g : IsLoop(g, N, Message, <<>>, F)
  BY <1>4, ConcatFacts, Recursion, Zenon
<1>6. PICK q : q = [n \in 0..N |-> g[N - n]]
  OBVIOUS
<1>7. q \in [0..N -> Message]
  <2>1. \A n \in 0..N : N - n \in 0..N
    OBVIOUS
  <2>2. \A n \in 0..N : g[N - n] \in Message
    BY <1>5, <2>1, Zenon DEF IsLoop
  <2>3. QED
    BY <1>6, <2>2, Zenon
<1>8. q[N] = <<>>
  <2>1. N \in 0..N /\ N - N = 0
    OBVIOUS
  <2>2. QED
    BY <1>5, <1>6, <2>1, Zenon DEF IsLoop
<1>9. ASSUME NEW n \in 1..N PROVE q[n - 1] = s[n] \o q[n]
  <2>1. PICK m : m = N - (n - 1)
    OBVIOUS
  <2>2. m \in 1..N /\ m \in Nat /\ m - 1 = N - n /\ N + 1 - m = n /\ m - 1 \in 0..N
    BY <2>1
  <2>3. g[m] = F[m][g[m - 1]] /\ g[m - 1] \in Message
    BY <1>5, <2>2, Zenon DEF IsLoop
  <2>4. F[m][g[m - 1]] = s[N + 1 - m] \o g[m - 1]
    BY <1>3, <2>2, <2>3, Zenon
  <2>5. n \in 0..N /\ n - 1 \in 0..N
    OBVIOUS
  <2>6. q[n] = g[m - 1] /\ q[n - 1] = g[m]
    BY <1>6, <2>1, <2>2, <2>5, Zenon
  <2>7. QED
    BY <2>2, <2>3, <2>4, <2>6, Zenon
<1>10. PICK p \in [0..N -> Message] :
         /\ p[0] = <<>>
         /\ \A n \in 1..N : p[n] = p[n - 1] \o s[n]
         /\ p[N] = FlattenSeq(s)
  BY <1>1, FlattenPrefixes, Zenon
<1>11. PICK T : T = {n \in Nat : n <= N => p[n] \o q[n] = q[0]}
  OBVIOUS
<1>12. 0 \in T
  <2>1. 0 \in 0..N
    OBVIOUS
  <2>2. <<>> \o q[0] = q[0]
    BY <1>7, <2>1, ConcatFacts, Zenon
  <2>3. QED
    BY <1>10, <1>11, <2>2
<1>13. ASSUME NEW n \in Nat, n \in T PROVE n + 1 \in T
  <2>1. ASSUME n + 1 <= N PROVE p[n + 1] \o q[n + 1] = q[0]
    <3>1. /\ n \in 0..N /\ n + 1 \in 1..N /\ n + 1 \in 0..N /\ (n + 1) - 1 = n /\ n <= N
      BY <2>1
    <3>2. p[n + 1] = p[n] \o s[n + 1]
      BY <1>10, <3>1, Zenon
    <3>3. q[n] = s[n + 1] \o q[n + 1]
      BY <1>9, <3>1, Zenon
    <3>4. (p[n] \o s[n + 1]) \o q[n + 1] = p[n] \o (s[n + 1] \o q[n + 1])
      <4>1. p[n] \in Message /\ s[n + 1] \in Message /\ q[n + 1] \in Message
        BY <1>2, <1>7, <1>10, <3>1, Zenon
      <4>2. QED
        BY <4>1, ConcatFacts, Zenon
    <3>5. p[n] \o q[n] = q[0]
      BY <1>11, <1>13, <3>1, Zenon
    <3>6. QED
      BY <3>2, <3>3, <3>4, <3>5, Zenon
  <2>2. QED
    BY <1>11, <2>1
<1>14. N \in T
  BY <1>12, <1>13, NatSetInduction
<1>15. q[0] = FlattenSeq(s)
  <2>1. N \in 0..N /\ N <= N
    OBVIOUS
  <2>2. p[N] \o q[N] = q[0]
    BY <1>11, <1>14, <2>1, Zenon
  <2>3. p[N] \o <<>> = p[N]
    BY <2>1, <1>10, ConcatFacts, Zenon
  <2>4. QED
    BY <1>8, <1>10, <2>2, <2>3, Zenon
<1>16. QED
  BY <1>1, <1>7, <1>8, <1>9, <1>15, Zenon

\* One more message goes to the end.
LEMMA FlattenAppend ==
  ASSUME NEW s \in Seq(Message), NEW e \in Message
  PROVE  FlattenSeq(Append(s, e)) = FlattenSeq(s) \o e
<1>1. PICK N \in Nat : N = Len(s)
  OBVIOUS
<1>2. PICK t : t = Append(s, e)
  OBVIOUS
<1>3. t \in Seq(Message) /\ Len(t) = N + 1 /\ t[N + 1] = e /\ \A n \in 1..N : t[n] = s[n]
  BY <1>1, <1>2
<1>4. PICK p \in [0..N -> Message] :
        /\ p[0] = <<>>
        /\ \A n \in 1..N : p[n] = p[n - 1] \o s[n]
        /\ p[N] = FlattenSeq(s)
  BY <1>1, FlattenPrefixes, Zenon
<1>5. PICK r \in [0..N + 1 -> Message] :
        /\ r[0] = <<>>
        /\ \A n \in 1..N + 1 : r[n] = r[n - 1] \o t[n]
        /\ r[N + 1] = FlattenSeq(t)
  BY <1>3, FlattenPrefixes, Zenon
<1>6. PICK T : T = {n \in Nat : n <= N => r[n] = p[n]}
  OBVIOUS
<1>7. 0 \in T
  BY <1>4, <1>5, <1>6
<1>8. ASSUME NEW n \in Nat, n \in T PROVE n + 1 \in T
  <2>1. ASSUME n + 1 <= N PROVE r[n + 1] = p[n + 1]
    <3>1. n + 1 \in 1..N /\ n + 1 \in 1..N + 1 /\ (n + 1) - 1 = n /\ n <= N
      BY <2>1
    <3>2. r[n + 1] = r[n] \o t[n + 1] /\ p[n + 1] = p[n] \o s[n + 1]
      BY <1>4, <1>5, <3>1, Zenon
    <3>3. r[n] = p[n] /\ t[n + 1] = s[n + 1]
      BY <1>3, <1>6, <1>8, <3>1, Zenon
    <3>4. QED
      BY <3>2, <3>3, Zenon
  <2>2. QED
    BY <1>6, <2>1
<1>9. N \in T
  BY <1>7, <1>8, NatSetInduction
<1>10. r[N] = p[N]
  BY <1>6, <1>9
<1>11. N + 1 \in 1..N + 1 /\ (N + 1) - 1 = N
  OBVIOUS
<1>12. r[N + 1] = r[N] \o t[N + 1]
  BY <1>5, <1>11, Zenon
<1>13. QED
  BY <1>2, <1>3, <1>4, <1>5, <1>10, <1>12, Zenon

\* No messages make none.
LEMMA FlattenEmpty == FlattenSeq(<<>>) = <<>>
BY DEF FlattenSeq

\* Parts of two symbols or more: a count larger than half the message is none.
LEMMA FlattenBlocks ==
  ASSUME NEW s \in Seq(Message), \A n \in 1..Len(s) : Len(s[n]) >= 2
  PROVE  Len(FlattenSeq(s)) >= 2 * Len(s)
<1>1. PICK N \in Nat : N = Len(s)
  OBVIOUS
<1>2. PICK p \in [0..N -> Message] :
        /\ p[0] = <<>>
        /\ \A n \in 1..N : p[n] = p[n - 1] \o s[n]
        /\ p[N] = FlattenSeq(s)
  BY <1>1, FlattenPrefixes, Zenon
<1>3. \A n \in 1..N : s[n] \in Message /\ Len(s[n]) >= 2
  BY <1>1
<1>4. PICK T : T = {n \in Nat : n <= N => Len(p[n]) >= 2 * n}
  OBVIOUS
<1>5. 0 \in T
  <2>1. Len(p[0]) = 0
    BY <1>2
  <2>2. QED
    BY <1>4, <2>1
<1>6. ASSUME NEW n \in Nat, n \in T PROVE n + 1 \in T
  <2>1. ASSUME n + 1 <= N PROVE Len(p[n + 1]) >= 2 * (n + 1)
    <3>1. n \in 0..N /\ n + 1 \in 1..N /\ n + 1 \in 0..N /\ (n + 1) - 1 = n /\ n <= N
      BY <2>1
    <3>2. p[n + 1] = p[n] \o s[n + 1]
      BY <1>2, <3>1, Zenon
    <3>3. Len(p[n] \o s[n + 1]) = Len(p[n]) + Len(s[n + 1])
      BY <1>2, <1>3, <3>1, ConcatFacts, Zenon
    <3>4. Len(p[n]) >= 2 * n
      BY <1>4, <1>6, <3>1, Zenon
    <3>5. Len(s[n + 1]) >= 2
      BY <1>3, <3>1, Zenon
    <3>6. Len(p[n]) \in Nat /\ Len(s[n + 1]) \in Nat
      <4>1. p[n] \in Message /\ s[n + 1] \in Message
        BY <1>2, <1>3, <3>1, Zenon
      <4>2. QED
        BY <4>1 DEF Message
    <3>7. \A a, b \in Nat : a >= 2 * n /\ b >= 2 => a + b >= 2 * (n + 1)
      OBVIOUS
    <3>8. QED
      BY <3>2, <3>3, <3>4, <3>5, <3>6, <3>7, Zenon
  <2>2. QED
    BY <1>4, <2>1
<1>7. N \in T
  BY <1>5, <1>6, NatSetInduction
<1>8. QED
  BY <1>1, <1>2, <1>4, <1>7

-----------------------------------------------------------------------------
(* Positions in a command line *)

\* A set of positions has a first one, and a bounded one has a last.
LEMMA FirstPosition ==
  ASSUME NEW T \in SUBSET Nat, T # {}
  PROVE  Min(T) \in T /\ \A i \in T : Min(T) <= i
<1>1. PICK R : R = {p \in Nat \X Nat : p[1] < p[2]}
  OBVIOUS
<1>2. IsWellFoundedOn(R, Nat)
  BY <1>1, NatLessThanWellFounded DEF OpToRel
<1>3. PICK m \in T : \A i \in T : ~(<<i, m>> \in R)
  BY <1>2, WFMin, Zenon
<1>4. \A i \in T : m <= i
  <2>1. \A i \in T : i < m => <<i, m>> \in R
    BY <1>1
  <2>2. \A i \in T : i \in Nat /\ m \in Nat /\ (m <= i \/ i < m)
    OBVIOUS
  <2>3. QED
    BY <1>3, <2>1, <2>2, Zenon
<1>5. QED
  BY <1>3, <1>4, Zenon DEF Min

\* A set of positions up to n has a last one.
LEMMA LastPosition ==
  ASSUME NEW n \in Nat, NEW T \in SUBSET (1..n), T # {}
  PROVE  Max(T) \in T /\ \A i \in T : Max(T) >= i
<1>1. PICK R : R = {n - i : i \in T}
  OBVIOUS
<1>2. R \in SUBSET Nat /\ R # {}
  <2>1. PICK i \in T : TRUE
    OBVIOUS
  <2>2. n - i \in R
    BY <1>1
  <2>3. \A j \in T : n - j \in Nat
    OBVIOUS
  <2>4. QED
    BY <1>1, <2>2, <2>3, Zenon
<1>3. PICK m : m \in R /\ \A j \in R : m <= j
  BY <1>2, FirstPosition, Zenon
<1>4. PICK i \in T : m = n - i
  BY <1>1, <1>3
<1>5. \A j \in T : i >= j
  <2>1. ASSUME NEW j \in T PROVE i >= j
    <3>1. n - j \in R
      BY <1>1
    <3>2. m <= n - j
      BY <1>3, <3>1
    <3>3. QED
      BY <1>4, <3>2
  <2>2. QED
    BY <2>1
<1>6. QED
  BY <1>5, Zenon DEF Max

\* The last one is the one that none comes after.
LEMMA LastIs ==
  ASSUME NEW n \in Nat, NEW T \in SUBSET (1..n), NEW m \in T, \A i \in T : i <= m
  PROVE  Max(T) = m
<1>1. T # {}
  OBVIOUS
<1>2. PICK x : x = Max(T)
  OBVIOUS
<1>3. x \in T /\ x >= m /\ x <= m
  BY <1>1, <1>2, LastPosition, Zenon
<1>4. QED
  BY <1>2, <1>3

\* What args holds: words, at positions.
LEMMA Words ==
  ASSUME NEW args \in Seq(Vocabulary)
  PROVE  /\ Len(args) \in Nat /\ DOMAIN args = 1..Len(args)
         /\ \A i \in 1..Len(args) : args[i] \in Vocabulary
OBVIOUS

\* Values exist: a position's depends on the one before it.
LEMMA ValuesFacts ==
  ASSUME NEW app, NEW args \in Seq(Vocabulary)
  PROVE  /\ Values(app, args) \subseteq 1..Len(args)
         /\ \A i \in 1..Len(args) :
              i \in Values(app, args) <=>
                i > 1 /\ i - 1 \notin Values(app, args) /\ TakesNext(app, args[i - 1])
<1>1. PICK N \in Nat : N = Len(args) /\ DOMAIN args = 1..N
  BY Words
<1> DEFINE IsValues(X) ==
      \A i \in 1..N : i \in X <=> i > 1 /\ i - 1 \notin X /\ TakesNext(app, args[i - 1])
<1>2. PICK F : F = [n \in Nat |-> [x \in BOOLEAN |->
                     IF n > 1 /\ ~x /\ TakesNext(app, args[n - 1]) THEN TRUE ELSE FALSE]]
  OBVIOUS
<1>3. F \in [Nat -> [BOOLEAN -> BOOLEAN]]
  <2>1. \A n \in Nat, x \in BOOLEAN :
          (IF n > 1 /\ ~x /\ TakesNext(app, args[n - 1]) THEN TRUE ELSE FALSE) \in BOOLEAN
    BY Zenon
  <2>2. QED
    BY <1>2, <2>1, Zenon
<1>4. PICK g : IsLoop(g, N, BOOLEAN, FALSE, F)
  <2>1. FALSE \in BOOLEAN
    BY Zenon
  <2>2. QED
    BY <1>3, <2>1, Recursion, Zenon
<1>5. PICK V : V = {i \in 1..N : g[i] = TRUE}
  OBVIOUS
<1>6. ASSUME NEW i \in 1..N
      PROVE  i \in V <=> i > 1 /\ i - 1 \notin V /\ TakesNext(app, args[i - 1])
  <2>1. g[i] = F[i][g[i - 1]] /\ g \in [0..N -> BOOLEAN]
    BY <1>4, Zenon DEF IsLoop
  <2>2. i \in Nat /\ i - 1 \in 0..N /\ (i > 1 => i - 1 \in 1..N)
    OBVIOUS
  <2>3. g[i - 1] \in BOOLEAN
    BY <2>1, <2>2, Zenon
  <2>4. F[i][g[i - 1]] = IF i > 1 /\ ~g[i - 1] /\ TakesNext(app, args[i - 1]) THEN TRUE ELSE FALSE
    BY <1>2, <2>2, <2>3, Zenon
  <2>5. i > 1 => (i - 1 \notin V <=> ~g[i - 1])
    BY <1>5, <2>2, <2>3, Zenon
  <2>6. g[i] = TRUE <=> i > 1 /\ ~g[i - 1] /\ TakesNext(app, args[i - 1])
    BY <2>1, <2>4, Zenon
  <2>7. QED
    BY <1>5, <2>5, <2>6, Zenon
<1>7. V \in SUBSET (1..N) /\ IsValues(V)
  BY <1>5, <1>6, Zenon
<1>8. Values(app, args) = CHOOSE X \in SUBSET (1..N) : IsValues(X)
  BY <1>1, Zenon DEF Values
<1> HIDE DEF IsValues
<1>9. Values(app, args) \in SUBSET (1..N) /\ IsValues(Values(app, args))
  BY <1>7, <1>8, Zenon
<1> USE DEF IsValues
<1>10. QED
  BY <1>1, <1>9, Zenon

Ends(app, word) == word = "--" \/ (app # "putty.exe" /\ word \notin Dashed)

\* Options end at the first word that ends them, or after the last one.
LEMMA EndFacts ==
  ASSUME NEW app, NEW args \in Seq(Vocabulary)
  PROVE  /\ End(app, args) \in 1..Len(args) + 1
         /\ End(app, args) <= Len(args) =>
              End(app, args) \notin Values(app, args) /\ Ends(app, args[End(app, args)])
         /\ \A i \in 1..Len(args) : i < End(app, args) /\ i \notin Values(app, args) => ~Ends(app, args[i])
<1>1. PICK N \in Nat : N = Len(args) /\ DOMAIN args = 1..N
  BY Words
<1>2. PICK V : V = Values(app, args)
  OBVIOUS
<1>3. PICK T : T = {i \in (1..N) \ V : Ends(app, args[i])}
  OBVIOUS
<1>4. PICK E : E = Min({N + 1} \cup T)
  OBVIOUS
<1>5. End(app, args) = E
  BY <1>1, <1>2, <1>3, <1>4, Zenon DEF End, Ends
<1>6. {N + 1} \cup T \in SUBSET Nat /\ {N + 1} \cup T # {}
  BY <1>3
<1>7. E \in {N + 1} \cup T /\ \A i \in {N + 1} \cup T : E <= i
  BY <1>4, <1>6, FirstPosition, Zenon
<1>8. E \in 1..N + 1
  BY <1>3, <1>7
<1>9. E <= N => E \in T
  BY <1>7
<1>10. ASSUME NEW i \in 1..N, i < E, i \notin V PROVE ~Ends(app, args[i])
  <2>1. i \notin T
    BY <1>7, <1>8, <1>10
  <2>2. QED
    BY <1>3, <1>10, <2>1, Zenon
<1>11. E <= N => E \notin V /\ Ends(app, args[E])
  BY <1>3, <1>9, Zenon
<1>12. QED
  BY <1>1, <1>2, <1>5, <1>8, <1>10, <1>11, Zenon

-----------------------------------------------------------------------------
(* The states of the loop *)

\* STRING: the provers know no literal for a string, so those of the loop are spelt out.
Strings == STRING \cup {"", "-l", "-p"}
Sources == {"", "inferred client arguments", "inferred PuTTY session"}

\* Targets whose fields can be shown, and the states of a scan for one.
Targets == [user : Strings \ UnsafeFields, host : Strings \ (UnsafeFields \cup UnsafeHosts),
            port : Nat, source : Sources, session : Strings]
ScanStates == [phase : {"words", "value", "dash", "done"}, option : Strings,
               placed : BOOLEAN, target : Targets]

\* An absent text is fit for display.
LEMMA EmptySafe == "" \notin UnsafeFields /\ "" \notin UnsafeHosts /\ "" \in Strings
<1>1. "" \notin UnsafeFields \cup UnsafeHosts
  BY TargetAssumption
<1>2. "" \in Strings
  BY Zenon DEF Strings
<1>3. QED
  BY <1>1, <1>2, Zenon

\* What is shown of a text is the text or nothing, and fit for display.
LEMMA SafeTexts ==
  ASSUME NEW t \in Strings
  PROVE  /\ SafeTargetField(t) \in Strings \ UnsafeFields
         /\ SafeHost(t) \in Strings \ (UnsafeFields \cup UnsafeHosts)
         /\ SafeTargetField(t) # "" => SafeTargetField(t) = t
         /\ SafeHost(t) # "" => SafeHost(t) = t
BY EmptySafe, Zenon DEF SafeTargetField, SafeHost

\* The loop starts in a state, and has one for a refused command line.
LEMMA Starts == NoTarget \in Targets /\ Scan0 \in ScanStates /\ Refused \in ScanStates
<1>1. NoTarget \in Targets
  <2>1. "" \in Sources
    BY Zenon DEF Sources
  <2>2. QED
    BY <2>1, EmptySafe DEF NoTarget, NoPort, Targets
<1>2. PICK source \in Sources : source = "inferred client arguments"
  BY Zenon DEF Sources
<1>3. PICK t : t = [NoTarget EXCEPT !.source = source]
  OBVIOUS
<1>4. t \in Targets
  BY <1>1, <1>3 DEF Targets
<1>5. [phase |-> "words", option |-> "", placed |-> FALSE, target |-> t] \in ScanStates
  BY <1>4, EmptySafe DEF ScanStates
<1>6. Scan0 \in ScanStates
  BY <1>2, <1>3, <1>5, Zenon DEF Scan0
<1>7. Refused \in ScanStates
  BY <1>1, EmptySafe DEF Refused, Returned, ScanStates
<1>8. QED
  BY <1>1, <1>6, <1>7

\* A word's place has the parts it is read for; only a URI can have a port.
LEMMA PlaceTyped ==
  ASSUME NEW w \in Vocabulary
  PROVE  /\ Places[w] \in [uri : BOOLEAN, refused : BOOLEAN, user : Strings, host : Strings, port : Nat]
         /\ ~Places[w].uri => Places[w].port = NoPort
BY TargetAssumption DEF Strings

\* What parseDestination returns can be shown.
LEMMA ParseDestinationType ==
  ASSUME NEW t \in Targets, NEW w \in Vocabulary
  PROVE  ParseDestination(t, w) \in Targets
<1>1. PICK p \in [uri : BOOLEAN, refused : BOOLEAN, user : Strings, host : Strings, port : Nat] :
        p = Places[w]
  BY PlaceTyped
<1>2. PICK u \in Strings \ UnsafeFields : u = SafeTargetField(p.user)
  BY <1>1, SafeTexts
<1>3. PICK h \in Strings \ (UnsafeFields \cup UnsafeHosts) : h = SafeHost(p.host)
  BY <1>1, SafeTexts
<1>4. PICK named : named = [t EXCEPT !.user = IF @ = "" THEN u ELSE @,
                                     !.host = IF @ = "" THEN h ELSE @]
  OBVIOUS
<1>5. named \in Targets
  BY <1>4 DEF Targets
<1>6. [named EXCEPT !.host = ""] \in Targets
  BY <1>5, EmptySafe DEF Targets
<1>7. [named EXCEPT !.port = IF @ = NoPort THEN p.port ELSE @] \in Targets
  BY <1>5 DEF Targets
<1>8. ParseDestination(t, w) =
        IF ~p.uri THEN named
        ELSE IF p.refused THEN t
        ELSE IF p.port = BadPort THEN [named EXCEPT !.host = ""]
        ELSE [named EXCEPT !.port = IF @ = NoPort THEN p.port ELSE @]
  BY <1>1, <1>2, <1>3, <1>4, Zenon DEF ParseDestination
<1>9. QED
  BY <1>5, <1>6, <1>7, <1>8, Zenon

\* Setting a port leads to a state.
LEMMA PortSetType ==
  ASSUME NEW s \in ScanStates, NEW port \in Nat
  PROVE  PortSet(s, port) \in ScanStates
<1>1. [s EXCEPT !.target.port = port] \in ScanStates
  BY DEF ScanStates, Targets
<1>2. QED
  BY <1>1, Starts, Zenon DEF PortSet

\* The texts of options are texts of the command line.
LEMMA TextTypes ==
  /\ \A t \in Texts : t \in Strings /\ PortOf[t] \in Nat
  /\ \A w \in DOMAIN Settings : Settings[w].text \in Texts /\ Settings[w].key \in {"user", "hostname", "port"}
  /\ \A w \in DOMAIN Joined : Joined[w].value \in Texts \ {""} /\ Joined[w].option \in {"-l", "-p"}
  /\ Vocabulary \subseteq Texts /\ Vocabulary \subseteq Strings
<1>1. \A w \in DOMAIN Joined : Joined[w].value \in Strings \ {""} /\ Joined[w].option \in {"-l", "-p"}
  BY TargetAssumption DEF Strings
<1>2. \A w \in DOMAIN Settings : Settings[w].text \in Strings /\ Settings[w].key \in {"user", "hostname", "port"}
  BY TargetAssumption DEF Strings
<1>3. /\ \A w \in DOMAIN Settings : Settings[w].text \in Texts
      /\ \A w \in DOMAIN Joined : Joined[w].value \in Texts
      /\ \A t \in Texts : \/ t \in Vocabulary
                          \/ \E w \in DOMAIN Joined : t = Joined[w].value
                          \/ \E w \in DOMAIN Settings : t = Settings[w].text
      /\ Vocabulary \subseteq Texts
  BY Zenon DEF Texts
<1>4. Vocabulary \subseteq Strings /\ \A t \in Texts : PortOf[t] \in Nat
  BY TargetAssumption DEF Strings
<1>5. \A t \in Texts : t \in Strings
  BY <1>1, <1>2, <1>3, <1>4, Zenon
<1>6. QED
  BY <1>1, <1>2, <1>3, <1>4, <1>5, Zenon

\* Reading an option's value leads to a state.
LEMMA SetOptionType ==
  ASSUME NEW app, NEW s \in ScanStates, NEW option \in Strings, NEW value \in Texts
  PROVE  SetOption(app, s, option, value) \in ScanStates
<1>1. value \in Strings /\ PortOf[value] \in Nat
  BY TextTypes, Zenon
<1>2. \A x \in Strings \ UnsafeFields : [s EXCEPT !.target.user = x] \in ScanStates
  BY DEF ScanStates, Targets
<1>3. \A x \in Strings \ (UnsafeFields \cup UnsafeHosts) : [s EXCEPT !.target.host = x] \in ScanStates
  BY DEF ScanStates, Targets
<1>4. \A x \in Strings : [s EXCEPT !.target.session = x] \in ScanStates
  BY DEF ScanStates, Targets
<1>5. PortSet(s, PortOf[value]) \in ScanStates
  BY <1>1, PortSetType, Zenon
<1>6. ASSUME value \in DOMAIN Settings
      PROVE  LET setting == Settings[value] IN
             /\ [s EXCEPT !.target.user = SafeTargetField(setting.text)] \in ScanStates
             /\ [s EXCEPT !.target.host = SafeHost(setting.text)] \in ScanStates
             /\ PortSet(s, PortOf[setting.text]) \in ScanStates
             /\ setting.key \in {"user", "hostname", "port"}
  BY <1>2, <1>3, <1>6, TextTypes, SafeTexts, PortSetType, Zenon
<1>7. [s EXCEPT !.target.user = SafeTargetField(value)] \in ScanStates
  BY <1>1, <1>2, SafeTexts, Zenon
<1>8. [s EXCEPT !.target.session = value] \in ScanStates
  BY <1>1, <1>4, Zenon
<1>9. QED
  BY <1>5, <1>6, <1>7, <1>8 DEF SetOption

\* What is found in a word is an option, with a text or none.
LEMMA OptionInType ==
  ASSUME NEW app, NEW word \in Vocabulary
  PROVE  /\ OptionIn(app, word).option \in Strings
         /\ OptionIn(app, word).value # "" => OptionIn(app, word).value \in Texts
<1>1. "-l" \in Strings /\ "-p" \in Strings
  BY Zenon DEF Strings
<1>2. PICK split : split = [option |-> word, value |-> ""]
  OBVIOUS
<1>3. split.option = word /\ split.value = ""
  BY <1>2
<1>4. CASE app = "ssh.exe" /\ word \in DOMAIN Joined
  <2>1. OptionIn(app, word) = Joined[word]
    BY <1>4, Zenon DEF OptionIn
  <2>2. Joined[word].value \in Texts /\ (Joined[word].option = "-l" \/ Joined[word].option = "-p")
    BY <1>4, TextTypes, Zenon
  <2>3. QED
    BY <1>1, <2>1, <2>2, Zenon
<1>5. CASE ~(app = "ssh.exe" /\ word \in DOMAIN Joined)
  <2>1. OptionIn(app, word) = split
    BY <1>2, <1>5, Zenon DEF OptionIn
  <2>2. word \in Strings
    BY TextTypes, Zenon
  <2>3. QED
    BY <1>3, <2>1, <2>2, Zenon
<1>6. QED
  BY <1>4, <1>5

\* Every word leads to a state.
LEMMA ScanWordType ==
  ASSUME NEW app, NEW s \in ScanStates, NEW word \in Vocabulary
  PROVE  ScanWord(app, s, word) \in ScanStates
<1>1. \A t \in Targets : Returned(t) \in ScanStates
  BY EmptySafe DEF Returned, ScanStates
<1>2. s.target \in Targets /\ s.option \in Strings
  BY DEF ScanStates
<1>3. PICK t \in Targets : t = ParseDestination(s.target, word)
  BY <1>2, ParseDestinationType, Zenon
<1>4. /\ [s EXCEPT !.phase = "dash"] \in ScanStates
      /\ [s EXCEPT !.phase = "words"] \in ScanStates
      /\ [s EXCEPT !.target = t, !.placed = TRUE] \in ScanStates
      /\ \A option \in Strings : [s EXCEPT !.phase = "value", !.option = option] \in ScanStates
  BY DEF ScanStates
<1>5. ReadDestination(app, s, word) \in ScanStates
  BY <1>1, <1>3, <1>4, Starts, Zenon DEF ReadDestination
<1>6. PICK split : split = OptionIn(app, word)
  OBVIOUS
<1>7. split.option \in Strings /\ (split.value # "" => split.value \in Texts)
  BY <1>6, OptionInType, Zenon
<1>8. ReadOption(app, s, word) \in ScanStates
  BY <1>4, <1>6, <1>7, SetOptionType, Starts, Zenon DEF ReadOption
<1>9. SetOption(app, [s EXCEPT !.phase = "words"], s.option, word) \in ScanStates
  BY <1>2, <1>4, TextTypes, SetOptionType, Zenon
<1>10. s.phase \in {"words", "value", "dash", "done"}
  BY DEF ScanStates
<1>11. QED
  BY <1>1, <1>3, <1>4, <1>5, <1>8, <1>9, <1>10 DEF ScanWord

\* The loop has a state after each word.
LEMMA ScanRounds ==
  ASSUME NEW app, NEW args \in Seq(Vocabulary)
  PROVE  \E r \in [0..Len(args) -> ScanStates] :
           /\ r[0] = Scan0
           /\ \A n \in 1..Len(args) : r[n] = ScanWord(app, r[n - 1], args[n])
           /\ r[Len(args)] = Scan(app, args)
<1>1. PICK N \in Nat : N = Len(args) /\ DOMAIN args = 1..N
  BY Words
<1>2. PICK F : F = [n \in Nat |-> [x \in ScanStates |->
                     IF n \in 1..N THEN ScanWord(app, x, args[n]) ELSE x]]
  OBVIOUS
<1>3. F \in [Nat -> [ScanStates -> ScanStates]]
  <2>1. \A n \in Nat, x \in ScanStates :
          (IF n \in 1..N THEN ScanWord(app, x, args[n]) ELSE x) \in ScanStates
    BY <1>1, Words, ScanWordType, Zenon
  <2>2. QED
    BY <1>2, <2>1, Zenon
<1>4. PICK r : IsLoop(r, N, ScanStates, Scan0, F)
  BY <1>3, Starts, Recursion, Zenon
<1>5. r \in [0..N -> ScanStates] /\ r[0] = Scan0
  BY <1>4, Zenon DEF IsLoop
<1>6. ASSUME NEW n \in 1..N PROVE r[n] = ScanWord(app, r[n - 1], args[n])
  <2>1. n \in Nat /\ n - 1 \in 0..N
    OBVIOUS
  <2>2. r[n - 1] \in ScanStates
    BY <1>5, <2>1, Zenon
  <2>3. r[n] = F[n][r[n - 1]]
    BY <1>4, Zenon DEF IsLoop
  <2>4. F[n][r[n - 1]] = ScanWord(app, r[n - 1], args[n])
    BY <1>2, <2>1, <2>2, Zenon
  <2>5. QED
    BY <2>3, <2>4, Zenon
<1>7. r[N] = Scan(app, args)
  <2> DEFINE Step(f) == [n \in 0..N |-> IF n = 0 THEN Scan0 ELSE ScanWord(app, f[n - 1], args[n])]
             f0 == CHOOSE f : f = Step(f)
  <2>1. r = Step(r)
    <3>1. ASSUME NEW n \in 0..N
          PROVE  r[n] = IF n = 0 THEN Scan0 ELSE ScanWord(app, r[n - 1], args[n])
      <4>1. CASE n = 0
        BY <1>5, <4>1, Zenon
      <4>2. CASE n # 0
        <5>1. n \in 1..N
          BY <4>2
        <5>2. QED
          BY <1>6, <4>2, <5>1, Zenon
      <4>3. QED
        BY <4>1, <4>2
    <3>2. QED
      BY <1>5, <3>1, Zenon
  <2>2. f0 = Step(f0)
    BY <2>1, Zenon
  <2>3. Scan(app, args) = f0[N]
    BY <1>1, Zenon DEF Scan
  <2>4. f0 = [n \in 0..N |-> IF n = 0 THEN Scan0 ELSE ScanWord(app, f0[n - 1], args[n])]
    BY <2>2, Zenon
  <2> HIDE DEF f0, Step
  <2>5. PICK T : T = {n \in Nat : n <= N => f0[n] = r[n]}
    OBVIOUS
  <2>6. 0 \in T
    <3>1. 0 \in 0..N
      OBVIOUS
    <3>2. f0[0] = r[0]
      BY <1>5, <2>4, <3>1, Zenon
    <3>3. QED
      BY <2>5, <3>2
  <2>7. ASSUME NEW n \in Nat, n \in T PROVE n + 1 \in T
    <3>1. ASSUME n + 1 <= N PROVE f0[n + 1] = r[n + 1]
      <4>1. /\ n + 1 \in 1..N /\ n + 1 \in 0..N /\ n + 1 # 0
            /\ (n + 1) - 1 = n /\ n <= N
        BY <3>1
      <4>2. f0[n] = r[n]
        BY <2>5, <2>7, <4>1, Zenon
      <4>3. /\ f0[n + 1] = ScanWord(app, f0[n], args[n + 1])
            /\ r[n + 1] = ScanWord(app, r[n], args[n + 1])
        BY <1>6, <2>4, <4>1, Zenon
      <4>4. QED
        BY <4>2, <4>3, Zenon
    <3>2. QED
      BY <2>5, <3>1
  <2>8. N \in T
    BY <2>6, <2>7, NatSetInduction
  <2>9. f0[N] = r[N]
    BY <2>5, <2>8
  <2>10. QED
    BY <2>3, <2>9, Zenon
<1>8. QED
  BY <1>1, <1>5, <1>6, <1>7, Zenon

-----------------------------------------------------------------------------
(* Options *)

\* No option has a value for one word and none for another.
\* The words of the lists.
LEMMA Lists ==
  /\ Range(SshNoValue) \subseteq
       {"-4", "-6", "-A", "-a", "-C", "-f", "-G", "-g", "-K", "-k", "-M", "-N", "-n", "-q",
        "-s", "-T", "-t", "-V", "-v", "-X", "-x", "-Y", "-y"}
  /\ Range(SshValueFlags) \subseteq
       {"-B", "-b", "-c", "-D", "-E", "-e", "-F", "-I", "-i", "-J", "-L", "-l", "-m", "-O",
        "-o", "-P", "-p", "-Q", "-R", "-S", "-W", "-w"}
  /\ Range(PuttyNoValue) \subseteq
       {"-ssh", "-2", "-4", "-6", "-batch", "-agent", "-noagent", "-A", "-a", "-C", "-N", "-T",
        "-t", "-v", "-x", "-X", "-share", "-noshare", "-no-antispoof"}
  /\ Range(PuttyValueFlags) \subseteq
       {"-l", "-P", "-load", "-pw", "-pwfile", "-i", "-m", "-L", "-R", "-D", "-nc",
        "-proxycmd", "-hostkey", "-loghost", "-sercfg", "-sessionlog", "-sshlog", "-sshrawlog"}
  /\ {"-l", "-p", "-o"} \subseteq Range(SshValueFlags)
  /\ {"-l", "-P", "-load"} \subseteq Range(PuttyValueFlags)
BY DEF Range, SshNoValue, SshValueFlags, PuttyNoValue, PuttyValueFlags

\* Lists without a common word accept no common one: of several in one, the first
\* would be in both.
LEMMA AcceptedDisjoint ==
  ASSUME NEW a, NEW b, Len(a) \in Nat, Len(b) \in Nat,
         DOMAIN a = 1..Len(a), DOMAIN b = 1..Len(b),
         Range(a) \cap Range(b) = {},
         \A w \in DOMAIN Quoted : /\ Len(Quoted[w]) \in Nat /\ Len(Quoted[w]) >= 2
                                  /\ DOMAIN Quoted[w] = 1..Len(Quoted[w])
                                  /\ w \notin Range(a) \cup Range(b),
         NEW option \in Accepted(a)
  PROVE  option \notin Accepted(b)
<1>1. CASE option \in Range(a)
  BY <1>1, Zenon DEF Accepted
<1>2. CASE option \notin Range(a)
  <2> SUFFICES ASSUME option \in Accepted(b) PROVE FALSE
    OBVIOUS
  <2>1. option \in DOMAIN Quoted /\ option \notin Range(b)
    BY <1>2, Zenon DEF Accepted
  <2>2. PICK q : q = Quoted[option]
    OBVIOUS
  <2>3. PICK j \in 0..Len(a) - Len(q) : \A i \in DOMAIN q : a[j + i] = q[i]
    BY <1>2, <2>2, Zenon DEF Accepted
  <2>4. PICK k \in 0..Len(b) - Len(q) : \A i \in DOMAIN q : b[k + i] = q[i]
    BY <2>1, <2>2, Zenon DEF Accepted
  <2>5. 1 \in DOMAIN q /\ j + 1 \in DOMAIN a /\ k + 1 \in DOMAIN b
    BY <2>1, <2>2
  <2>6. a[j + 1] \in Range(a) /\ b[k + 1] \in Range(b)
    BY <2>5, Zenon DEF Range
  <2>7. QED
    BY <2>3, <2>4, <2>5, <2>6, Zenon
<1>3. QED
  BY <1>1, <1>2

\* No option has a value for one word and none for another.
LEMMA FlagsDisjoint ==
  ASSUME NEW app, NEW option \in NoValue(app)
  PROVE  option \notin ValueFlags(app)
<1>1. \A w \in DOMAIN Quoted :
        /\ Len(Quoted[w]) \in Nat /\ Len(Quoted[w]) >= 2 /\ DOMAIN Quoted[w] = 1..Len(Quoted[w])
        /\ w \notin Range(SshNoValue) \cup Range(SshValueFlags)
        /\ w \notin Range(PuttyNoValue) \cup Range(PuttyValueFlags)
  <2>1. \A q \in Seq(STRING) : Len(q) \in Nat /\ DOMAIN q = 1..Len(q)
    OBVIOUS
  <2>2. QED
    BY <2>1, TargetAssumption, Zenon
<1>2. CASE app = "ssh.exe"
  <2>1. /\ Len(SshNoValue) \in Nat /\ DOMAIN SshNoValue = 1..Len(SshNoValue)
        /\ Len(SshValueFlags) \in Nat /\ DOMAIN SshValueFlags = 1..Len(SshValueFlags)
    BY DEF SshNoValue, SshValueFlags
  <2>2. Range(SshNoValue) \cap Range(SshValueFlags) = {}
    BY Lists
  <2>3. option \in Accepted(SshNoValue)
    BY <1>2, Zenon DEF NoValue, SshAlone
  <2>4. option \notin Accepted(SshValueFlags)
    BY <1>1, <2>1, <2>2, <2>3, AcceptedDisjoint, Zenon
  <2>5. QED
    BY <1>2, <2>4, Zenon DEF ValueFlags, SshValued
<1>3. CASE app # "ssh.exe"
  <2>1. /\ Len(PuttyNoValue) \in Nat /\ DOMAIN PuttyNoValue = 1..Len(PuttyNoValue)
        /\ Len(PuttyValueFlags) \in Nat /\ DOMAIN PuttyValueFlags = 1..Len(PuttyValueFlags)
    BY DEF PuttyNoValue, PuttyValueFlags
  <2>2. Range(PuttyNoValue) \cap Range(PuttyValueFlags) = {}
    BY Lists
  <2>3. option \in Accepted(PuttyNoValue)
    BY <1>3, Zenon DEF NoValue, PuttyAlone
  <2>4. option \notin Accepted(PuttyValueFlags)
    BY <1>1, <2>1, <2>2, <2>3, AcceptedDisjoint, Zenon
  <2>5. QED
    BY <1>3, <2>4, Zenon DEF ValueFlags, PuttyValued
<1>4. QED
  BY <1>2, <1>3

\* Repeated "v"s are no option with a value.
LEMMA VerboseFlags ==
  ASSUME NEW word \in VerboseRuns
  PROVE  OptionIn("ssh.exe", word).option \notin ValueFlags("ssh.exe")
<1>1. word \notin DOMAIN Joined /\ word \notin ValueFlags("ssh.exe")
  BY TargetAssumption
<1>2. PICK split : split = [option |-> word, value |-> ""]
  OBVIOUS
<1>3. split.option = word
  BY <1>2
<1>4. OptionIn("ssh.exe", word) = split
  BY <1>1, <1>2, Zenon DEF OptionIn
<1>5. QED
  BY <1>1, <1>3, <1>4, Zenon

NoSetting == [key |-> "none", text |-> ""]

\* The value of the option at i.
ValueAt(app, args, i) ==
  IF OptionIn(app, args[i]).value # "" THEN OptionIn(app, args[i]).value ELSE args[i + 1]

\* A scan goes from s to t by a setting.
SetBy(setting, s, t) ==
  /\ setting.key \in {"none", "user", "hostname", "port", "session"}
  /\ setting.key = "none" => t = s
  /\ setting.key = "user" => t = [s EXCEPT !.target.user = SafeTargetField(setting.text)]
  /\ setting.key = "hostname" => t = [s EXCEPT !.target.host = SafeHost(setting.text)]
  /\ setting.key = "port" => t = PortSet(s, PortOf[setting.text])
  /\ setting.key = "session" => t = [s EXCEPT !.target.session = setting.text]

\* An option makes the setting at its position.
LEMMA SetOptionSets ==
  ASSUME NEW app, NEW args, NEW i, NEW s,
         OptionIn(app, args[i]).option \in ValueFlags(app)
  PROVE  SetBy(SettingAt(app, args, i), s,
               SetOption(app, s, OptionIn(app, args[i]).option, ValueAt(app, args, i)))
<1>1. PICK option : option = OptionIn(app, args[i]).option
  OBVIOUS
<1>2. PICK value : value = ValueAt(app, args, i)
  OBVIOUS
<1>3. PICK setting : setting = SettingAt(app, args, i)
  OBVIOUS
<1>4. PICK t : t = SetOption(app, s, option, value)
  OBVIOUS
<1>5. setting =
        CASE option = "-l" -> [key |-> "user", text |-> value]
          [] option = (IF app = "ssh.exe" THEN "-p" ELSE "-P") -> [key |-> "port", text |-> value]
          [] app # "ssh.exe" /\ option = "-load" -> [key |-> "session", text |-> value]
          [] app = "ssh.exe" /\ option = "-o" /\ value \in DOMAIN Settings -> Settings[value]
          [] OTHER -> [key |-> "none", text |-> ""]
  BY <1>1, <1>2, <1>3 DEF SettingAt, ValueAt
<1>6. CASE option = "-l"
  <2>1. setting.key = "user" /\ setting.text = value
    BY <1>5, <1>6
  <2>2. t = [s EXCEPT !.target.user = SafeTargetField(value)]
    BY <1>4, <1>6 DEF SetOption
  <2>3. SetBy(setting, s, t)
    BY <2>1, <2>2, Zenon DEF SetBy
  <2>4. QED
    BY <1>1, <1>2, <1>3, <1>4, <2>3, Zenon
<1>7. CASE option = (IF app = "ssh.exe" THEN "-p" ELSE "-P")
  <2>1. setting.key = "port" /\ setting.text = value
    BY <1>5, <1>7
  <2>2. t = PortSet(s, PortOf[value])
    BY <1>4, <1>7 DEF SetOption
  <2>3. SetBy(setting, s, t)
    BY <2>1, <2>2, Zenon DEF SetBy
  <2>4. QED
    BY <1>1, <1>2, <1>3, <1>4, <2>3, Zenon
<1>8. CASE app # "ssh.exe" /\ option = "-load"
  <2>1. setting.key = "session" /\ setting.text = value
    BY <1>5, <1>8
  <2>2. t = [s EXCEPT !.target.session = value]
    BY <1>4, <1>8 DEF SetOption
  <2>3. SetBy(setting, s, t)
    BY <2>1, <2>2, Zenon DEF SetBy
  <2>4. QED
    BY <1>1, <1>2, <1>3, <1>4, <2>3, Zenon
<1>9. CASE app = "ssh.exe" /\ option = "-o" /\ value \in DOMAIN Settings
  <2>1. setting = Settings[value]
    BY <1>5, <1>9
  <2>2. setting.key = "user" \/ setting.key = "hostname" \/ setting.key = "port"
    BY <1>9, <2>1, TextTypes
  <2>3. /\ setting.key = "user" => t = [s EXCEPT !.target.user = SafeTargetField(setting.text)]
        /\ setting.key = "hostname" => t = [s EXCEPT !.target.host = SafeHost(setting.text)]
        /\ setting.key = "port" => t = PortSet(s, PortOf[setting.text])
    BY <1>4, <1>9, <2>1 DEF SetOption
  <2>4. SetBy(setting, s, t)
    BY <2>2, <2>3, Zenon DEF SetBy
  <2>5. QED
    BY <1>1, <1>2, <1>3, <1>4, <2>4, Zenon
<1>10. CASE /\ option # "-l" /\ option # (IF app = "ssh.exe" THEN "-p" ELSE "-P")
            /\ ~(app # "ssh.exe" /\ option = "-load")
            /\ ~(app = "ssh.exe" /\ option = "-o" /\ value \in DOMAIN Settings)
  <2>1. setting.key = "none"
    BY <1>5, <1>10
  <2>2. t = s
    BY <1>4, <1>10 DEF SetOption
  <2>3. SetBy(setting, s, t)
    BY <2>1, <2>2, Zenon DEF SetBy
  <2>4. QED
    BY <1>1, <1>2, <1>3, <1>4, <2>3, Zenon
<1>11. QED
  BY <1>6, <1>7, <1>8, <1>9, <1>10, Zenon

\* An option without a value sets nothing, and every text it could set is one of the
\* command line's.
LEMMA NothingSet ==
  ASSUME NEW app, NEW args, NEW i, OptionIn(app, args[i]).option \notin ValueFlags(app)
  PROVE  SettingAt(app, args, i).key = "none"
<1>1. PICK split : split = OptionIn(app, args[i])
  OBVIOUS
<1>2. /\ split.option # "-l"
      /\ split.option # (IF app = "ssh.exe" THEN "-p" ELSE "-P")
      /\ ~(app # "ssh.exe" /\ split.option = "-load")
      /\ ~(app = "ssh.exe" /\ split.option = "-o")
  <2>1. CASE app = "ssh.exe"
    <3>1. Range(SshValueFlags) \subseteq ValueFlags(app)
      BY <2>1, Zenon DEF ValueFlags, SshValued, Accepted
    <3>2. QED
      BY <1>1, <2>1, <3>1, Lists
  <2>2. CASE app # "ssh.exe"
    <3>1. Range(PuttyValueFlags) \subseteq ValueFlags(app)
      BY <2>2, Zenon DEF ValueFlags, PuttyValued, Accepted
    <3>2. QED
      BY <1>1, <2>2, <3>1, Lists
  <2>3. QED
    BY <2>1, <2>2
<1>3. PICK setting : setting = [key |-> "none", text |-> ""]
  OBVIOUS
<1>4. SettingAt(app, args, i) = setting
  BY <1>1, <1>2, <1>3, Zenon DEF SettingAt
<1>5. setting.key = "none"
  BY <1>3
<1>6. QED
  BY <1>4, <1>5, Zenon

\* What an option sets is a text of the command line.
LEMMA SettingTexts ==
  ASSUME NEW app, NEW args, NEW i, SettingAt(app, args, i).key # "none",
         ValueAt(app, args, i) \in Texts
  PROVE  SettingAt(app, args, i).text \in Texts
<1>1. PICK option : option = OptionIn(app, args[i]).option
  OBVIOUS
<1>2. PICK value : value = ValueAt(app, args, i)
  OBVIOUS
<1>3. PICK setting : setting = SettingAt(app, args, i)
  OBVIOUS
<1>4. \/ setting.text = value
      \/ value \in DOMAIN Settings /\ setting = Settings[value]
      \/ setting.key = "none"
  <2>1. option \in ValueFlags(app)
    BY <1>1, NothingSet, Zenon
  <2>2. setting =
          CASE option = "-l" -> [key |-> "user", text |-> value]
            [] option = (IF app = "ssh.exe" THEN "-p" ELSE "-P") -> [key |-> "port", text |-> value]
            [] app # "ssh.exe" /\ option = "-load" -> [key |-> "session", text |-> value]
            [] app = "ssh.exe" /\ option = "-o" /\ value \in DOMAIN Settings -> Settings[value]
            [] OTHER -> [key |-> "none", text |-> ""]
    BY <1>1, <1>2, <1>3, <2>1 DEF SettingAt, ValueAt
  <2>3. QED
    BY <2>2
<1>5. QED
  BY <1>2, <1>3, <1>4, TextTypes, Zenon

-----------------------------------------------------------------------------
(* What has been read of a command line *)

\* The last setting of a key before k, and the place before l.
LastText(app, args, k, key) ==
  LET at == {i \in Options(app, args) : i < k /\ SettingAt(app, args, i).key = key} IN
  IF at = {} THEN "" ELSE SettingAt(app, args, Max(at)).text

Nowhere == [user |-> "", host |-> "", port |-> NoPort]

PlaceOf(args, at) == IF at = {} THEN Nowhere ELSE Places[args[CHOOSE i \in at : TRUE]]

PlaceAt(app, args, l) == PlaceOf(args, {i \in Destinations(app, args) : i < l})

PortNamed(text) == IF text = "" THEN NoPort ELSE PortOf[text]

\* A target holds what the options before k and the destinations before l say.
Holds(app, args, t, k, l) ==
  /\ t.user = OrElse(LastText(app, args, k, "user"), PlaceAt(app, args, l).user, "")
  /\ t.host = OrElse(LastText(app, args, k, "hostname"), PlaceAt(app, args, l).host, "")
  /\ t.port = OrElse(PortNamed(LastText(app, args, k, "port")), PlaceAt(app, args, l).port, NoPort)
  /\ t.session = LastText(app, args, k, "session")

\* Options stand before the end, and are no values.
LEMMA OptionFacts ==
  ASSUME NEW app, NEW args \in Seq(Vocabulary), NEW k
  PROVE  k \in Options(app, args) <=>
           /\ k \in 1..Len(args) /\ k \notin Values(app, args)
           /\ k < End(app, args) /\ args[k] \in Dashed
<1>1. DOMAIN args = 1..Len(args)
  BY Words
<1>2. QED
  BY <1>1, Zenon DEF Options

\* Destinations stand before the end, at it, or after "--".
LEMMA DestinationFacts ==
  ASSUME NEW app, NEW args \in Seq(Vocabulary), NEW k
  PROVE  k \in Destinations(app, args) <=>
           /\ k \in 1..Len(args)
           /\ \/ k \notin Values(app, args) /\ k <= End(app, args) /\ args[k] \notin Dashed
              \/ k = End(app, args) + 1 /\ args[End(app, args)] = "--"
<1>1. DOMAIN args = 1..Len(args)
  BY Words
<1>2. QED
  BY <1>1, Zenon DEF Destinations

\* Words that are no options leave the last settings as they are.
LEMMA LastTextSkips ==
  ASSUME NEW app, NEW args \in Seq(Vocabulary), NEW k \in Nat, k \notin Options(app, args), NEW key
  PROVE  LastText(app, args, k + 1, key) = LastText(app, args, k, key)
<1>1. \A i \in Options(app, args) : i < k + 1 <=> i < k
  <2>1. ASSUME NEW i \in Options(app, args) PROVE i < k + 1 <=> i < k
    <3>1. i # k /\ i \in 1..Len(args) /\ Len(args) \in Nat
      BY OptionFacts, Words, Zenon
    <3>2. QED
      BY <3>1
  <2>2. QED
    BY <2>1
<1>2. {i \in Options(app, args) : i < k + 1 /\ SettingAt(app, args, i).key = key}
        = {i \in Options(app, args) : i < k /\ SettingAt(app, args, i).key = key}
  BY <1>1, Zenon
<1>3. QED
  BY <1>2, Zenon DEF LastText

\* An option makes the last setting of its key.
LEMMA LastTextSteps ==
  ASSUME NEW app, NEW args \in Seq(Vocabulary), NEW k \in Options(app, args), NEW key
  PROVE  LastText(app, args, k + 1, key) =
           IF SettingAt(app, args, k).key = key THEN SettingAt(app, args, k).text
                                                ELSE LastText(app, args, k, key)
<1>1. PICK N \in Nat : N = Len(args) /\ k \in 1..N
  BY OptionFacts, Words, Zenon
<1>2. \A i \in Options(app, args) : i \in 1..N
  BY <1>1, OptionFacts, Zenon
<1>3. \A i \in 1..N : i < k + 1 <=> i < k \/ i = k
  BY <1>1
<1>4. PICK at : at = {i \in Options(app, args) : i < k /\ SettingAt(app, args, i).key = key}
  OBVIOUS
<1>5. PICK more : more = {i \in Options(app, args) : i < k + 1 /\ SettingAt(app, args, i).key = key}
  OBVIOUS
<1>6. LastText(app, args, k + 1, key) = IF more = {} THEN "" ELSE SettingAt(app, args, Max(more)).text
  BY <1>5, Zenon DEF LastText
<1>7. LastText(app, args, k, key) = IF at = {} THEN "" ELSE SettingAt(app, args, Max(at)).text
  BY <1>4, Zenon DEF LastText
<1>8. CASE SettingAt(app, args, k).key = key
  <2>1. k \in more
    BY <1>1, <1>3, <1>5, <1>8, Zenon
  <2>2. more \in SUBSET (1..N)
    BY <1>2, <1>5, Zenon
  <2>3. \A i \in more : i <= k
    <3>1. \A i \in more : i \in 1..N /\ i < k + 1
      BY <1>2, <1>5, Zenon
    <3>2. QED
      BY <1>1, <3>1
  <2>4. Max(more) = k
    BY <2>1, <2>2, <2>3, LastIs, Zenon
  <2>5. QED
    BY <1>6, <1>8, <2>1, <2>4, Zenon
<1>9. CASE SettingAt(app, args, k).key # key
  <2>1. more = at
    BY <1>2, <1>3, <1>4, <1>5, <1>9, Zenon
  <2>2. QED
    BY <1>6, <1>7, <1>9, <2>1, Zenon
<1>10. QED
  BY <1>8, <1>9

\* Words that are no destinations leave the place as it is.
LEMMA PlaceAtSkips ==
  ASSUME NEW app, NEW args \in Seq(Vocabulary), NEW l \in Nat, l \notin Destinations(app, args)
  PROVE  PlaceAt(app, args, l + 1) = PlaceAt(app, args, l)
<1>1. \A i \in Destinations(app, args) : i < l + 1 <=> i < l
  <2>1. ASSUME NEW i \in Destinations(app, args) PROVE i < l + 1 <=> i < l
    <3>1. i # l /\ i \in 1..Len(args) /\ Len(args) \in Nat
      BY DestinationFacts, Words, Zenon
    <3>2. QED
      BY <3>1
  <2>2. QED
    BY <2>1
<1>2. PICK at : at = {i \in Destinations(app, args) : i < l}
  OBVIOUS
<1>3. PICK more : more = {i \in Destinations(app, args) : i < l + 1}
  OBVIOUS
<1>4. more = at
  BY <1>1, <1>2, <1>3, Zenon
<1>5. PlaceAt(app, args, l) = PlaceOf(args, at) /\ PlaceAt(app, args, l + 1) = PlaceOf(args, more)
  BY <1>2, <1>3, Zenon DEF PlaceAt
<1>6. QED
  BY <1>4, <1>5, Zenon

\* The only destination gives the place.
LEMMA PlaceAtSteps ==
  ASSUME NEW app, NEW args \in Seq(Vocabulary), NEW l \in Destinations(app, args),
         \A i, j \in Destinations(app, args) : i = j
  PROVE  PlaceAt(app, args, l) = Nowhere /\ PlaceAt(app, args, l + 1) = Places[args[l]]
<1>1. l \in Nat
  BY DestinationFacts
<1>2. ~(l < l) /\ l < l + 1
  BY <1>1
<1>3. {i \in Destinations(app, args) : i < l} = {}
  BY <1>2, Zenon
<1>4. {i \in Destinations(app, args) : i < l + 1} = {l}
  BY <1>2, Zenon
<1>5. (CHOOSE i \in {l} : TRUE) = l /\ {l} # {}
  OBVIOUS
<1>6. QED
  BY <1>3, <1>4, <1>5, Zenon DEF PlaceAt, PlaceOf

-----------------------------------------------------------------------------
(* How a word is read *)

\* The last setting of a key, "" if there is none.
LastSetting(app, args, key) ==
  LET at == Set(app, args, key) IN
  IF at = {} THEN "" ELSE SettingAt(app, args, Max(at)).text

\* What of a clear command line the parser needs to read it: of settings made twice
\* it takes the last.
Readable(app, args) ==
  /\ app \in Apps
  /\ Complete(app, args) /\ FitToShow(app, args)
  /\ \A i, j \in Destinations(app, args) : i = j

Known(app, word) ==
  \/ OptionIn(app, word).option \in NoValue(app) \cup ValueFlags(app)
  \/ app = "ssh.exe" /\ word \in VerboseRuns

GoodOption(app, args, i) ==
  /\ Known(app, args[i])
  /\ TakesNext(app, args[i]) => i < Len(args)
  /\ SettingAt(app, args, i).key = "port" => PortOf[SettingAt(app, args, i).text] # NoPort

\* Nothing before k is broken.
Fine(app, args, k) ==
  /\ \A i \in Options(app, args) : i < k => GoodOption(app, args, i)
  /\ \A i, j \in Destinations(app, args) : ~(i < j /\ j < k)

\* s is what the words before k come to.
Reading(app, args, k, s) ==
  /\ Fine(app, args, k)
  /\ s.placed <=> \E i \in Destinations(app, args) : i < k
  /\ Readable(app, args) => Holds(app, args, s.target, k, k)

\* Options of a clear command line are known, complete, and fit for display.
LEMMA ReadableOptions ==
  ASSUME NEW app, NEW args, Readable(app, args), NEW i \in Options(app, args)
  PROVE  LET setting == SettingAt(app, args, i) IN
         /\ GoodOption(app, args, i)
         /\ setting.key = "user" => SafeTargetField(setting.text) # ""
         /\ setting.key = "hostname" => SafeHost(setting.text) # ""
         /\ setting.key = "port" => PortOf[setting.text] # NoPort
<1>1. Known(app, args[i]) /\ (TakesNext(app, args[i]) => i < Len(args))
  BY Zenon DEF Readable, Complete, Known
<1>2. PICK setting : setting = SettingAt(app, args, i)
  OBVIOUS
<1>3. (CASE setting.key = "user"     -> SafeTargetField(setting.text) # ""
         [] setting.key = "hostname" -> SafeHost(setting.text) # ""
         [] setting.key = "port"     -> PortOf[setting.text] # NoPort
         [] OTHER                    -> TRUE)
  BY <1>2, Zenon DEF Readable, FitToShow
<1>4. /\ setting.key = "user" => SafeTargetField(setting.text) # ""
      /\ setting.key = "hostname" => SafeHost(setting.text) # ""
      /\ setting.key = "port" => PortOf[setting.text] # NoPort
  BY <1>3
<1>5. QED
  BY <1>1, <1>2, <1>4, Zenon DEF GoodOption

\* So is its destination, the only one.
LEMMA ReadablePlaces ==
  ASSUME NEW app, NEW args, Readable(app, args)
  PROVE  /\ app \in Apps
         /\ \A i, j \in Destinations(app, args) : i = j
         /\ \A i \in Destinations(app, args) :
              /\ ~Places[args[i]].refused /\ Places[args[i]].port # BadPort
              /\ SafeHost(Places[args[i]].host) # ""
              /\ SafeTargetField(Places[args[i]].user) = Places[args[i]].user
BY Zenon DEF Readable, FitToShow

\* An option is read: it makes its setting, or ends the scan.
LEMMA OptionRead ==
  ASSUME NEW app, NEW args \in Seq(Vocabulary), NEW k \in Options(app, args),
         Known(app, args[k]), TakesNext(app, args[k]) => k < Len(args),
         NEW s \in ScanStates, NEW t, Reading(app, args, k, s),
         SetBy(SettingAt(app, args, k), s, t)
  PROVE  \/ t = Refused /\ ~Readable(app, args)
         \/ t.phase = s.phase /\ Reading(app, args, k + 1, t)
<1>1. PICK setting : setting = SettingAt(app, args, k)
  OBVIOUS
<1>2. k \in Nat /\ k \in 1..Len(args) /\ Len(args) \in Nat
  BY OptionFacts, Words
<1>3. \A i \in 1..Len(args) : i < k + 1 <=> i < k \/ i = k
  BY <1>2
<1>4. args[k] \in Dashed /\ k < End(app, args)
  BY OptionFacts, Zenon
<1>5. k \notin Destinations(app, args)
  <2>1. End(app, args) \in Nat
    BY <1>2, EndFacts
  <2>2. k # End(app, args) + 1
    BY <1>2, <1>4, <2>1
  <2>3. QED
    BY <1>4, <2>2, DestinationFacts, Zenon
<1>6. CASE setting.key = "port" /\ PortOf[setting.text] = NoPort
  <2>1. t = Refused
    BY <1>1, <1>6, Zenon DEF SetBy, PortSet
  <2>2. ~Readable(app, args)
    BY <1>1, <1>6, ReadableOptions, Zenon
  <2>3. QED
    BY <2>1, <2>2
<1>7. CASE setting.key = "port" => PortOf[setting.text] # NoPort
  <2>1. GoodOption(app, args, k)
    BY <1>1, <1>7, Zenon DEF GoodOption
  <2>2. Fine(app, args, k + 1)
    <3>1. \A i \in Options(app, args) : i < k + 1 => i < k \/ i = k
      BY <1>3, OptionFacts, Zenon
    <3>2. \A i \in Destinations(app, args) : i < k + 1 => i < k
      BY <1>3, <1>5, DestinationFacts, Zenon
    <3>3. QED
      BY <2>1, <3>1, <3>2, Zenon DEF Reading, Fine
  <2>3. t.phase = s.phase /\ t.placed = s.placed
    <3>1. /\ setting.key \in {"none", "user", "hostname", "port", "session"}
          /\ setting.key = "none" => t = s
          /\ setting.key = "user" => t = [s EXCEPT !.target.user = SafeTargetField(setting.text)]
          /\ setting.key = "hostname" => t = [s EXCEPT !.target.host = SafeHost(setting.text)]
          /\ setting.key = "port" => t = [s EXCEPT !.target.port = PortOf[setting.text]]
          /\ setting.key = "session" => t = [s EXCEPT !.target.session = setting.text]
      BY <1>1, <1>7, Zenon DEF SetBy, PortSet
    <3>2. QED
      BY <3>1 DEF ScanStates
  <2>4. (\E i \in Destinations(app, args) : i < k + 1) <=> (\E i \in Destinations(app, args) : i < k)
    BY <1>3, <1>5, DestinationFacts, Zenon
  <2>5. ASSUME Readable(app, args) PROVE Holds(app, args, t.target, k + 1, k + 1)
    <3>1. PICK u \in Targets : u = s.target
      BY DEF ScanStates
    <3>2. PICK text : text = setting.text
      OBVIOUS
    <3>3. /\ setting.key \in {"none", "user", "hostname", "port", "session"}
          /\ setting.key = "none" => t.target = u
          /\ setting.key = "user" => t.target = [u EXCEPT !.user = SafeTargetField(text)]
          /\ setting.key = "hostname" => t.target = [u EXCEPT !.host = SafeHost(text)]
          /\ setting.key = "port" => t.target = [u EXCEPT !.port = PortOf[text]]
          /\ setting.key = "session" => t.target = [u EXCEPT !.session = text]
      <4>1. /\ setting.key \in {"none", "user", "hostname", "port", "session"}
            /\ setting.key = "none" => t = s
            /\ setting.key = "user" => t = [s EXCEPT !.target.user = SafeTargetField(setting.text)]
            /\ setting.key = "hostname" => t = [s EXCEPT !.target.host = SafeHost(setting.text)]
            /\ setting.key = "port" => t = [s EXCEPT !.target.port = PortOf[setting.text]]
            /\ setting.key = "session" => t = [s EXCEPT !.target.session = setting.text]
        BY <1>1, <1>7, Zenon DEF SetBy, PortSet
      <4>2. QED
        BY <3>1, <3>2, <4>1 DEF ScanStates
    <3>4. setting.key # "none" => text \in Texts
      <4>1. ASSUME OptionIn(app, args[k]).value = "", setting.key # "none"
            PROVE  TakesNext(app, args[k])
        <5>1. OptionIn(app, args[k]).option \in ValueFlags(app)
          BY <1>1, <4>1, NothingSet, Zenon
        <5>2. args[k] # "--"
          <6>1. args[k] # "--" \/ Ends(app, args[k])
            BY Zenon DEF Ends
          <6>2. ~Ends(app, args[k])
            BY <1>2, <1>4, EndFacts, OptionFacts, Zenon
          <6>3. QED
            BY <6>1, <6>2
        <5>3. QED
          BY <1>4, <4>1, <5>1, <5>2, Zenon DEF TakesNext
      <4>2. ASSUME setting.key # "none" PROVE ValueAt(app, args, k) \in Texts
        <5>1. CASE OptionIn(app, args[k]).value # ""
          BY <1>2, <5>1, OptionInType, Words, Zenon DEF ValueAt
        <5>2. CASE OptionIn(app, args[k]).value = ""
          <6>1. k < Len(args)
            BY <4>1, <4>2, <5>2
          <6>2. k + 1 \in 1..Len(args)
            BY <1>2, <6>1
          <6>3. args[k + 1] \in Texts
            BY <6>2, Words, TextTypes, Zenon
          <6>4. QED
            BY <5>2, <6>3, Zenon DEF ValueAt
        <5>3. QED
          BY <5>1, <5>2
      <4>3. QED
        BY <1>1, <3>2, <4>2, SettingTexts, Zenon
    <3>5. /\ setting.key = "user" => SafeTargetField(text) = text /\ text # ""
          /\ setting.key = "hostname" => SafeHost(text) = text /\ text # ""
          /\ setting.key = "port" => PortNamed(text) = PortOf[text] /\ PortOf[text] # NoPort
      <4>1. setting.key = "user" => SafeTargetField(text) # ""
        BY <1>1, <2>5, <3>2, ReadableOptions, Zenon
      <4>2. setting.key = "hostname" => SafeHost(text) # ""
        BY <1>1, <2>5, <3>2, ReadableOptions, Zenon
      <4>3. setting.key # "none" => text \in Strings
        BY <3>4, TextTypes, Zenon
      <4>4. PortOf[""] = NoPort
        BY TargetAssumption
      <4>5. setting.key = "user" \/ setting.key = "hostname" => setting.key # "none"
        BY Zenon
      <4>6. setting.key = "user" => SafeTargetField(text) = text
        BY <4>1, <4>3, <4>5, SafeTexts, Zenon
      <4>7. setting.key = "hostname" => SafeHost(text) = text
        BY <4>2, <4>3, <4>5, SafeTexts, Zenon
      <4>8. QED
        BY <1>7, <3>2, <4>1, <4>2, <4>4, <4>6, <4>7, Zenon DEF PortNamed
    <3>6. \A key : LastText(app, args, k + 1, key) =
            IF setting.key = key THEN text ELSE LastText(app, args, k, key)
      BY <1>1, <3>2, LastTextSteps, Zenon
    <3>7. PlaceAt(app, args, k + 1) = PlaceAt(app, args, k)
      BY <1>2, <1>5, PlaceAtSkips, Zenon
    <3>8. Holds(app, args, u, k, k)
      BY <2>5, <3>1, Zenon DEF Reading
    <3>9. QED
      <4>1. PICK place : place = PlaceAt(app, args, k)
        OBVIOUS
      <4>2. PICK user, host, port, session :
              /\ user = LastText(app, args, k, "user")
              /\ host = LastText(app, args, k, "hostname")
              /\ port = LastText(app, args, k, "port")
              /\ session = LastText(app, args, k, "session")
        OBVIOUS
      <4>3. /\ u.user = OrElse(user, place.user, "")
            /\ u.host = OrElse(host, place.host, "")
            /\ u.port = OrElse(PortNamed(port), place.port, NoPort)
            /\ u.session = session
        BY <3>8, <4>1, <4>2, Zenon DEF Holds
      <4>4. /\ LastText(app, args, k + 1, "user") = IF setting.key = "user" THEN text ELSE user
            /\ LastText(app, args, k + 1, "hostname") = IF setting.key = "hostname" THEN text ELSE host
            /\ LastText(app, args, k + 1, "port") = IF setting.key = "port" THEN text ELSE port
            /\ LastText(app, args, k + 1, "session") = IF setting.key = "session" THEN text ELSE session
        BY <3>6, <4>2, Zenon
      <4>5. PICK v : v = t.target
        OBVIOUS
      <4>6. /\ v.user = IF setting.key = "user" THEN text ELSE u.user
            /\ v.host = IF setting.key = "hostname" THEN text ELSE u.host
            /\ v.port = IF setting.key = "port" THEN PortOf[text] ELSE u.port
            /\ v.session = IF setting.key = "session" THEN text ELSE u.session
        <5>1. PICK port2 : port2 = PortOf[text]
          OBVIOUS
        <5>2. CASE setting.key = "none"
          BY <3>3, <4>5, <5>2
        <5>3. CASE setting.key = "user"
          <6>1. v = [u EXCEPT !.user = text]
            BY <3>3, <3>5, <4>5, <5>3, Zenon
          <6>2. QED
            BY <5>3, <6>1 DEF Targets
        <5>4. CASE setting.key = "hostname"
          <6>1. v = [u EXCEPT !.host = text]
            BY <3>3, <3>5, <4>5, <5>4, Zenon
          <6>2. QED
            BY <5>4, <6>1 DEF Targets
        <5>5. CASE setting.key = "port"
          <6>1. v = [u EXCEPT !.port = port2]
            BY <3>3, <4>5, <5>1, <5>5, Zenon
          <6>2. QED
            BY <5>1, <5>5, <6>1 DEF Targets
        <5>6. CASE setting.key = "session"
          <6>1. v = [u EXCEPT !.session = text]
            BY <3>3, <4>5, <5>6, Zenon
          <6>2. QED
            BY <5>6, <6>1 DEF Targets
        <5>7. QED
          BY <3>3, <5>2, <5>3, <5>4, <5>5, <5>6
      <4>7. v.user = OrElse(LastText(app, args, k + 1, "user"), place.user, "")
        BY <3>5, <4>3, <4>4, <4>6, Zenon DEF OrElse
      <4>8. v.host = OrElse(LastText(app, args, k + 1, "hostname"), place.host, "")
        BY <3>5, <4>3, <4>4, <4>6, Zenon DEF OrElse
      <4>9. v.port = OrElse(PortNamed(LastText(app, args, k + 1, "port")), place.port, NoPort)
        BY <3>5, <4>3, <4>4, <4>6, Zenon DEF OrElse
      <4>10. v.session = LastText(app, args, k + 1, "session")
        BY <4>3, <4>4, <4>6, Zenon
      <4>11. QED
        BY <3>7, <4>1, <4>5, <4>7, <4>8, <4>9, <4>10, Zenon DEF Holds
  <2>6. QED
    BY <2>2, <2>3, <2>4, <2>5, Zenon DEF Reading
<1>8. QED
  BY <1>6, <1>7

\* A word that is no option and no destination is passed over.
LEMMA WordSkipped ==
  ASSUME NEW app, NEW args \in Seq(Vocabulary), NEW k \in Nat, NEW s,
         k \notin Options(app, args), k \notin Destinations(app, args), Reading(app, args, k, s)
  PROVE  Reading(app, args, k + 1, s)
<1>1. ASSUME NEW i \in Nat, i # k PROVE i < k + 1 <=> i < k
  BY <1>1
<1>2. \A i \in Options(app, args) \cup Destinations(app, args) : i \in Nat /\ i # k
  <2>1. \A i \in Options(app, args) \cup Destinations(app, args) : i \in 1..Len(args)
    BY OptionFacts, DestinationFacts, Zenon
  <2>2. \A i \in Options(app, args) \cup Destinations(app, args) : i # k
    BY Zenon
  <2>3. Len(args) \in Nat
    BY Words
  <2>4. QED
    BY <2>1, <2>2, <2>3
<1>3. /\ \A i \in Options(app, args) : i < k + 1 => i < k
      /\ \A i \in Destinations(app, args) : i < k + 1 <=> i < k
  BY <1>1, <1>2, Zenon
<1>4. Fine(app, args, k + 1)
  BY <1>3, Zenon DEF Reading, Fine
<1>5. ASSUME Readable(app, args) PROVE Holds(app, args, s.target, k + 1, k + 1)
  <2>1. Holds(app, args, s.target, k, k)
    BY <1>5, Zenon DEF Reading
  <2>2. \A key : LastText(app, args, k + 1, key) = LastText(app, args, k, key)
    BY LastTextSkips, Zenon
  <2>3. PlaceAt(app, args, k + 1) = PlaceAt(app, args, k)
    BY PlaceAtSkips, Zenon
  <2>4. QED
    BY <2>1, <2>2, <2>3, Zenon DEF Holds
<1>6. QED
  BY <1>3, <1>4, <1>5, Zenon DEF Reading

\* The destination adds what options before it have not set.
LEMMA DestinationRead ==
  ASSUME NEW app, NEW args \in Seq(Vocabulary), Readable(app, args),
         NEW t \in Targets, NEW k, NEW l \in Destinations(app, args), Holds(app, args, t, k, l)
  PROVE  Holds(app, args, ParseDestination(t, args[l]), k, l + 1)
<1>1. l \in 1..Len(args) /\ args[l] \in Vocabulary
  BY DestinationFacts, Words, Zenon
<1>2. PICK place \in [uri : BOOLEAN, refused : BOOLEAN, user : STRING, host : STRING, port : Nat] :
        place = Places[args[l]]
  <2>1. Places[args[l]] \in [uri : BOOLEAN, refused : BOOLEAN, user : STRING, host : STRING, port : Nat]
    BY <1>1, TargetAssumption
  <2>2. QED
    BY <2>1
<1>3. /\ ~place.refused /\ place.port # BadPort
      /\ SafeHost(place.host) # "" /\ SafeTargetField(place.user) = place.user
  BY <1>2, ReadablePlaces, Zenon
<1>4. ~place.uri => place.port = NoPort
  BY <1>1, <1>2, PlaceTyped, Zenon
<1>5. SafeHost(place.host) = place.host
  BY <1>3, Zenon DEF SafeHost
<1>6. PlaceAt(app, args, l) = Nowhere /\ PlaceAt(app, args, l + 1) = place
  <2>1. \A i, j \in Destinations(app, args) : i = j
    BY ReadablePlaces, Zenon
  <2>2. PlaceAt(app, args, l) = Nowhere /\ PlaceAt(app, args, l + 1) = Places[args[l]]
    BY <2>1, PlaceAtSteps, ZenonT(60)
  <2>3. QED
    BY <1>2, <2>2, Zenon
<1>7. Nowhere.user = "" /\ Nowhere.host = "" /\ Nowhere.port = NoPort
  BY DEF Nowhere
<1>8. PICK user, host, port, session :
        /\ user = LastText(app, args, k, "user")
        /\ host = LastText(app, args, k, "hostname")
        /\ port = PortNamed(LastText(app, args, k, "port"))
        /\ session = LastText(app, args, k, "session")
  OBVIOUS
<1>9. t.user = user /\ t.host = host /\ t.port = port /\ t.session = session
  BY <1>6, <1>7, <1>8, Zenon DEF Holds, OrElse
<1>10. PICK v : v = ParseDestination(t, args[l])
  OBVIOUS
<1>11. PICK named : named = [t EXCEPT !.user = IF @ = "" THEN place.user ELSE @,
                                      !.host = IF @ = "" THEN place.host ELSE @]
  OBVIOUS
<1>12. v = IF place.uri THEN [named EXCEPT !.port = IF @ = NoPort THEN place.port ELSE @] ELSE named
  BY <1>2, <1>3, <1>5, <1>10, <1>11, Zenon DEF ParseDestination
<1>13. /\ v.user = IF user = "" THEN place.user ELSE user
       /\ v.host = IF host = "" THEN place.host ELSE host
       /\ v.port = IF port = NoPort THEN place.port ELSE port
       /\ v.session = session
  <2>1. /\ named.user = IF user = "" THEN place.user ELSE user
        /\ named.host = IF host = "" THEN place.host ELSE host
        /\ named.port = port
        /\ named.session = session
        /\ named \in [user : {named.user}, host : {named.host}, port : {named.port},
                      source : Sources, session : {session}]
    BY <1>9, <1>11 DEF Targets
  <2>2. CASE place.uri
    BY <1>12, <2>1, <2>2
  <2>3. CASE ~place.uri
    BY <1>4, <1>12, <2>1, <2>3
  <2>4. QED
    BY <2>2, <2>3
<1>14. QED
  BY <1>6, <1>8, <1>10, <1>13, Zenon DEF Holds, OrElse

\* Where the loop is after n words, and what it has read by then.
Control(app, args, n, s) ==
  LET end == End(app, args) IN
  \/ s = Refused /\ ~Readable(app, args)
  \/ /\ s.phase = "words" /\ n < end
     /\ n + 1 \notin Values(app, args) /\ Reading(app, args, n + 1, s)
  \/ /\ s.phase = "value" /\ n \in Options(app, args) /\ TakesNext(app, args[n])
     /\ s.option = OptionIn(app, args[n]).option /\ Reading(app, args, n, s)
  \/ /\ s.phase = "dash" /\ n = end /\ args[n] = "--" /\ Reading(app, args, n, s)
  \/ /\ s.phase = "done" /\ n >= end /\ Fine(app, args, end)
     /\ Readable(app, args) => Holds(app, args, s.target, end, end + 2)

\* Facts about the word at k, if options have not ended before it.
LEMMA WordFacts ==
  ASSUME NEW app, NEW args \in Seq(Vocabulary), NEW k \in 1..Len(args),
         k <= End(app, args), k \notin Values(app, args)
  PROVE  /\ k = End(app, args) <=> Ends(app, args[k])
         /\ k \in Options(app, args) <=> args[k] \in Dashed /\ k # End(app, args)
         /\ k \in Destinations(app, args) <=> args[k] \notin Dashed
         /\ k < Len(args) => (k + 1 \in Values(app, args) <=> TakesNext(app, args[k]))
         /\ k + 1 \notin Values(app, args) \/ k < Len(args)
<1>1. PICK N \in Nat : N = Len(args) /\ k \in 1..N
  BY Words
<1>2. PICK E \in 1..N + 1 : E = End(app, args)
  BY <1>1, EndFacts
<1>3. k = E <=> Ends(app, args[k])
  <2>1. k < E \/ k = E
    BY <1>1, <1>2
  <2>2. k < E => ~Ends(app, args[k])
    BY <1>1, <1>2, EndFacts, Zenon
  <2>3. k = E => Ends(app, args[k])
    <3>1. k <= N
      BY <1>1
    <3>2. QED
      BY <1>1, <1>2, <3>1, EndFacts, Zenon
  <2>4. ~(k < k)
    BY <1>1
  <2>5. QED
    BY <2>1, <2>2, <2>3
<1>4. k < E <=> k # E
  BY <1>1, <1>2
<1>5. k # E + 1
  BY <1>1, <1>2
<1>6. k \in Options(app, args) <=> args[k] \in Dashed /\ k # E
  BY <1>2, <1>4, OptionFacts, Zenon
<1>7. k \in Destinations(app, args) <=> args[k] \notin Dashed
  BY <1>2, <1>5, DestinationFacts, Zenon
<1>8. ASSUME k < N PROVE k + 1 \in Values(app, args) <=> TakesNext(app, args[k])
  <2>1. k + 1 \in 1..N /\ k + 1 > 1 /\ (k + 1) - 1 = k
    BY <1>1, <1>8
  <2>2. QED
    BY <1>1, <2>1, ValuesFacts, Zenon
<1>9. k + 1 \notin Values(app, args) \/ k < N
  <2>1. k + 1 \in 1..N => k < N
    BY <1>1
  <2>2. QED
    BY <1>1, <2>1, ValuesFacts, Zenon
<1>10. QED
  BY <1>1, <1>2, <1>3, <1>6, <1>7, <1>8, <1>9, Zenon

\* A value is no option and no destination, and options do not end with it.
LEMMA ValueFacts ==
  ASSUME NEW app, NEW args \in Seq(Vocabulary), NEW k \in Options(app, args), TakesNext(app, args[k]),
         k < Len(args)
  PROVE  /\ k + 1 < End(app, args)
         /\ k + 1 \notin Options(app, args) /\ k + 1 \notin Destinations(app, args)
         /\ k + 2 \notin Values(app, args)
<1>1. PICK N \in Nat : N = Len(args)
  BY Words
<1>2. PICK E \in 1..N + 1 : E = End(app, args)
  BY <1>1, EndFacts
<1>3. k \in 1..N /\ k \notin Values(app, args) /\ k < E
  BY <1>1, <1>2, OptionFacts, Zenon
<1>4. k + 1 \in 1..N /\ k + 1 > 1 /\ (k + 1) - 1 = k /\ k + 1 <= E /\ k + 1 # E + 1
  BY <1>1, <1>2, <1>3
<1>5. k + 1 \in Values(app, args)
  BY <1>1, <1>3, <1>4, ValuesFacts, Zenon
<1>6. k + 1 # E
  <2>1. k + 1 <= N
    BY <1>4
  <2>2. QED
    BY <1>1, <1>2, <1>5, <2>1, EndFacts, Zenon
<1>7. k + 1 < E
  BY <1>2, <1>3, <1>6
<1>8. k + 2 \notin Values(app, args)
  <2>1. k + 2 \in 1..N => (k + 2) - 1 = k + 1
    BY <1>3
  <2>2. QED
    BY <1>1, <1>5, <2>1, ValuesFacts, Zenon
<1>9. QED
  BY <1>2, <1>4, <1>5, <1>7, <1>8, OptionFacts, DestinationFacts, Zenon

\* "--" looks like an option.
LEMMA DashDashed == "--" \in Dashed
BY TargetAssumption

\* One step for each phase of the loop.
LEMMA DoneKept ==
  ASSUME NEW app, NEW args \in Seq(Vocabulary), NEW n \in Nat, n < Len(args),
         NEW s \in ScanStates, s.phase = "done", Control(app, args, n, s)
  PROVE  Control(app, args, n + 1, ScanWord(app, s, args[n + 1]))
<1>1. ScanWord(app, s, args[n + 1]) = s
  BY DEF ScanWord
<1>2. PICK end \in Nat : end = End(app, args)
  BY Words, EndFacts
<1>3. n >= end => n + 1 >= end
  BY <1>2
<1>4. QED
  BY <1>1, <1>2, <1>3 DEF Control

\* After "--", the next word is a destination, and the last one read.
LEMMA DashRead ==
  ASSUME NEW app, NEW args \in Seq(Vocabulary), NEW n \in Nat, n < Len(args),
         NEW s \in ScanStates, s.phase = "dash", Control(app, args, n, s)
  PROVE  Control(app, args, n + 1, ScanWord(app, s, args[n + 1]))
<1>1. PICK end \in Nat : end = End(app, args) /\ 1 <= end /\ end \in 1..Len(args) + 1
  BY Words, EndFacts
<1>2. n = end /\ args[n] = "--" /\ Reading(app, args, n, s)
  <2>1. Refused.phase = "done"
    BY DEF Refused, Returned
  <2>2. QED
    BY <1>1, <2>1 DEF Control
<1>3. PICK t : t = ParseDestination(s.target, args[n + 1])
  OBVIOUS
<1>4. ScanWord(app, s, args[n + 1]) = Returned(t)
  BY <1>3 DEF ScanWord
<1>5. PICK u : u = Returned(t)
  OBVIOUS
<1>6. u.phase = "done" /\ u.target = t
  BY <1>5 DEF Returned
<1>7. n + 1 >= end /\ n \in 1..Len(args) /\ n + 1 \in 1..Len(args) /\ n <= end /\ n + 2 = (n + 1) + 1
  BY <1>1, <1>2, Words
<1>8. Fine(app, args, end)
  BY <1>2, Zenon DEF Reading
<1>9. ASSUME Readable(app, args) PROVE Holds(app, args, t, end, end + 2)
  <2>1. Holds(app, args, s.target, n, n)
    BY <1>2, <1>9, Zenon DEF Reading
  <2>2. n \notin Destinations(app, args)
    <3>1. n # end + 1
      BY <1>1, <1>2
    <3>2. QED
      BY <1>1, <1>2, <3>1, DashDashed, DestinationFacts, Zenon
  <2>3. n + 1 \in Destinations(app, args)
    BY <1>1, <1>2, <1>7, DestinationFacts, Zenon
  <2>4. PlaceAt(app, args, n + 1) = PlaceAt(app, args, n)
    BY <2>2, PlaceAtSkips, Zenon
  <2>5. Holds(app, args, s.target, n, n + 1)
    BY <2>1, <2>4, Zenon DEF Holds
  <2>6. s.target \in Targets
    BY DEF ScanStates
  <2>7. Holds(app, args, t, n, (n + 1) + 1)
    BY <1>3, <1>9, <2>3, <2>5, <2>6, DestinationRead, Zenon
  <2>8. QED
    BY <1>2, <1>7, <2>7, Zenon
<1>10. QED
  BY <1>1, <1>4, <1>5, <1>6, <1>7, <1>8, <1>9, Zenon DEF Control

\* An option's value makes its setting.
LEMMA ValueRead ==
  ASSUME NEW app, NEW args \in Seq(Vocabulary), NEW n \in Nat, n < Len(args),
         NEW s \in ScanStates, s.phase = "value", Control(app, args, n, s)
  PROVE  Control(app, args, n + 1, ScanWord(app, s, args[n + 1]))
<1>1. /\ n \in Options(app, args) /\ TakesNext(app, args[n])
      /\ s.option = OptionIn(app, args[n]).option /\ Reading(app, args, n, s)
  <2>1. Refused.phase = "done"
    BY DEF Refused, Returned
  <2>2. QED
    BY <2>1 DEF Control
<1>2. PICK s1 : s1 = [s EXCEPT !.phase = "words"]
  OBVIOUS
<1>3. s1 \in ScanStates /\ s1.phase = "words" /\ s1.placed = s.placed /\ s1.target = s.target
  BY <1>2 DEF ScanStates
<1>4. Reading(app, args, n, s1)
  BY <1>1, <1>3, Zenon DEF Reading
<1>5. PICK t : t = ScanWord(app, s, args[n + 1])
  OBVIOUS
<1>6. t = SetOption(app, s1, s.option, args[n + 1])
  BY <1>2, <1>5 DEF ScanWord
<1>7. OptionIn(app, args[n]).option \in ValueFlags(app) /\ OptionIn(app, args[n]).value = ""
  BY <1>1, Zenon DEF TakesNext
<1>8. ValueAt(app, args, n) = args[n + 1]
  BY <1>7, Zenon DEF ValueAt
<1>9. SetBy(SettingAt(app, args, n), s1, t)
  BY <1>1, <1>6, <1>7, <1>8, SetOptionSets, Zenon
<1>10. Known(app, args[n])
  BY <1>7, Zenon DEF Known
<1>11. \/ t = Refused /\ ~Readable(app, args)
       \/ t.phase = "words" /\ Reading(app, args, n + 1, t)
  <2>1. \/ t = Refused /\ ~Readable(app, args)
        \/ t.phase = s1.phase /\ Reading(app, args, n + 1, t)
    BY <1>1, <1>3, <1>4, <1>9, <1>10, OptionRead, Zenon
  <2>2. QED
    BY <1>3, <2>1, Zenon
<1>12. /\ n + 1 < End(app, args)
       /\ n + 1 \notin Options(app, args) /\ n + 1 \notin Destinations(app, args)
       /\ n + 2 \notin Values(app, args)
  BY <1>1, ValueFacts, Zenon
<1>13. n + 1 \in Nat /\ n + 2 = (n + 1) + 1
  OBVIOUS
<1>14. ASSUME Reading(app, args, n + 1, t) PROVE Reading(app, args, (n + 1) + 1, t)
  BY <1>12, <1>13, <1>14, WordSkipped, Zenon
<1>15. QED
  BY <1>5, <1>11, <1>12, <1>13, <1>14, Zenon DEF Control

\* A word ends the options, is one, or is a destination.
LEMMA WordRead ==
  ASSUME NEW app, NEW args \in Seq(Vocabulary), NEW n \in Nat, n < Len(args),
         NEW s \in ScanStates, s.phase = "words", Control(app, args, n, s)
  PROVE  Control(app, args, n + 1, ScanWord(app, s, args[n + 1]))
<1>1. n < End(app, args) /\ n + 1 \notin Values(app, args) /\ Reading(app, args, n + 1, s)
  <2>1. Refused.phase = "done"
    BY DEF Refused, Returned
  <2>2. QED
    BY <2>1 DEF Control
<1>2. PICK k \in Nat : k = n + 1
  OBVIOUS
<1>3. /\ k \in 1..Len(args) /\ k <= End(app, args)
      /\ k = End(app, args) => k >= End(app, args)
      /\ k # End(app, args) => k < End(app, args)
  <2>1. End(app, args) \in Nat /\ Len(args) \in Nat
    BY Words, EndFacts
  <2>2. QED
    BY <1>1, <1>2, <2>1
<1>4. PICK word : word = args[k]
  OBVIOUS
<1>5. word \in Vocabulary
  BY <1>3, <1>4, Words, Zenon
<1>6. PICK t : t = ScanWord(app, s, word)
  OBVIOUS
<1>7. /\ k = End(app, args) <=> Ends(app, word)
      /\ k \in Options(app, args) <=> word \in Dashed /\ k # End(app, args)
      /\ k \in Destinations(app, args) <=> word \notin Dashed
      /\ k < Len(args) => (k + 1 \in Values(app, args) <=> TakesNext(app, word))
      /\ k + 1 \notin Values(app, args) \/ k < Len(args)
  BY <1>1, <1>2, <1>3, <1>4, WordFacts, Zenon
<1>8. Reading(app, args, k, s)
  BY <1>1, <1>2
<1>9. CASE word = "--"
  <2>1. t = [s EXCEPT !.phase = "dash"]
    BY <1>6, <1>9 DEF ScanWord
  <2>2. t.phase = "dash" /\ t.placed = s.placed /\ t.target = s.target
    BY <2>1 DEF ScanStates
  <2>3. Reading(app, args, k, t)
    BY <1>8, <2>2, Zenon DEF Reading
  <2>4. k = End(app, args)
    BY <1>7, <1>9, Zenon DEF Ends
  <2>5. Control(app, args, k, t)
    BY <1>4, <1>9, <2>2, <2>3, <2>4, Zenon DEF Control
  <2>6. QED
    BY <1>2, <1>4, <1>6, <2>5, Zenon
<1>10. CASE word # "--" /\ word \in Dashed
  <2>1. t = ReadOption(app, s, word)
    BY <1>6, <1>10 DEF ScanWord
  <2>2. k # End(app, args) /\ k \in Options(app, args) /\ k < End(app, args)
    BY <1>3, <1>7, <1>10, Zenon DEF Ends
  <2>3. PICK split : split = OptionIn(app, word)
    OBVIOUS
  <2>4. ASSUME Known(app, word), ~TakesNext(app, word), SetBy(SettingAt(app, args, k), s, t)
        PROVE  Control(app, args, k, t)
    <3>1. \/ t = Refused /\ ~Readable(app, args)
          \/ t.phase = s.phase /\ Reading(app, args, k + 1, t)
      BY <1>4, <1>8, <2>2, <2>4, OptionRead, Zenon
    <3>2. k + 1 \notin Values(app, args)
      BY <1>7, <2>4
    <3>3. QED
      BY <2>2, <3>1, <3>2, Zenon DEF Control
  <2>5. CASE (app = "ssh.exe" /\ word \in VerboseRuns) \/ split.option \in NoValue(app)
    <3>1. t = s
      BY <2>1, <2>3, <2>5, Zenon DEF ReadOption
    <3>2. split.option \notin ValueFlags(app)
      BY <2>3, <2>5, FlagsDisjoint, VerboseFlags, Zenon
    <3>3. Known(app, word) /\ ~TakesNext(app, word)
      BY <2>3, <2>5, <3>2, Zenon DEF Known, TakesNext
    <3>4. SettingAt(app, args, k).key = "none"
      BY <1>4, <2>3, <3>2, NothingSet, Zenon
    <3>5. SetBy(SettingAt(app, args, k), s, t)
      BY <3>1, <3>4 DEF SetBy
    <3>6. QED
      BY <1>2, <1>4, <1>6, <2>4, <3>3, <3>5, Zenon
  <2>6. CASE ~(app = "ssh.exe" /\ word \in VerboseRuns) /\ split.option \notin NoValue(app)
               /\ split.option \notin ValueFlags(app)
    <3>1. t = Refused
      BY <2>1, <2>3, <2>6, Zenon DEF ReadOption
    <3>2. ~Known(app, word)
      BY <2>3, <2>6, Zenon DEF Known
    <3>3. ~Readable(app, args)
      BY <1>4, <2>2, <3>2, ReadableOptions, Zenon DEF GoodOption
    <3>4. Control(app, args, k, t)
      BY <3>1, <3>3, Zenon DEF Control
    <3>5. QED
      BY <1>2, <1>4, <1>6, <3>4, Zenon
  <2>7. CASE ~(app = "ssh.exe" /\ word \in VerboseRuns) /\ split.option \notin NoValue(app)
               /\ split.option \in ValueFlags(app) /\ split.value # ""
    <3>1. t = SetOption(app, s, split.option, split.value)
      BY <2>1, <2>3, <2>7, Zenon DEF ReadOption
    <3>2. ValueAt(app, args, k) = split.value
      BY <1>4, <2>3, <2>7, Zenon DEF ValueAt
    <3>3. SetBy(SettingAt(app, args, k), s, t)
      BY <1>4, <2>3, <2>7, <3>1, <3>2, SetOptionSets, Zenon
    <3>4. Known(app, word) /\ ~TakesNext(app, word)
      BY <2>3, <2>7, Zenon DEF Known, TakesNext
    <3>5. QED
      BY <1>2, <1>4, <1>6, <2>4, <3>3, <3>4, Zenon
  <2>8. CASE ~(app = "ssh.exe" /\ word \in VerboseRuns) /\ split.option \notin NoValue(app)
               /\ split.option \in ValueFlags(app) /\ split.value = ""
    <3>1. t = [s EXCEPT !.phase = "value", !.option = split.option]
      BY <2>1, <2>3, <2>8, Zenon DEF ReadOption
    <3>2. /\ t.phase = "value" /\ t.option = split.option
          /\ t.placed = s.placed /\ t.target = s.target
      BY <3>1 DEF ScanStates
    <3>3. Reading(app, args, k, t)
      BY <1>8, <3>2, Zenon DEF Reading
    <3>4. TakesNext(app, word)
      BY <1>10, <2>3, <2>8, Zenon DEF TakesNext
    <3>5. Control(app, args, k, t)
      BY <1>4, <2>2, <2>3, <3>2, <3>3, <3>4, Zenon DEF Control
    <3>6. QED
      BY <1>2, <1>4, <1>6, <3>5, Zenon
  <2>9. QED
    BY <2>5, <2>6, <2>7, <2>8, Zenon
<1>11. CASE word \notin Dashed
  <2>1. word # "--"
    BY <1>11, DashDashed
  <2>2. t = ReadDestination(app, s, word)
    BY <1>6, <1>11, <2>1 DEF ScanWord
  <2>3. k \in Destinations(app, args) /\ k \notin Options(app, args)
    BY <1>7, <1>11, Zenon
  <2>4. ~(k < k) /\ k < k + 1
    OBVIOUS
  <2>5. s.target \in Targets
    BY DEF ScanStates
  <2>6. PICK placed : placed = ParseDestination(s.target, word)
    OBVIOUS
  <2>7. ASSUME Readable(app, args), ~s.placed
        PROVE  Holds(app, args, placed, k, k + 1)
    <3>1. Holds(app, args, s.target, k, k)
      BY <1>8, <2>7, Zenon DEF Reading
    <3>2. QED
      BY <1>4, <2>3, <2>5, <2>6, <2>7, <3>1, DestinationRead, Zenon
  <2>8. CASE s.placed
    <3>1. t = Refused
      BY <2>2, <2>8, Zenon DEF ReadDestination
    <3>2. PICK i \in Destinations(app, args) : i < k
      BY <1>8, <2>8, Zenon DEF Reading
    <3>3. ~Readable(app, args)
      BY <2>3, <2>4, <3>2, ReadablePlaces, Zenon
    <3>4. Control(app, args, k, t)
      BY <3>1, <3>3, Zenon DEF Control
    <3>5. QED
      BY <1>2, <1>4, <1>6, <3>4, Zenon
  <2>9. CASE ~s.placed /\ app = "putty.exe"
    <3>1. t = [s EXCEPT !.target = placed, !.placed = TRUE]
      BY <2>2, <2>6, <2>9, Zenon DEF ReadDestination, GoesOn
    <3>2. t.phase = "words" /\ t.placed = TRUE /\ t.target = placed
      BY <3>1 DEF ScanStates
    <3>3. k # End(app, args) /\ k < End(app, args)
      BY <1>3, <1>7, <2>1, <2>9, Zenon DEF Ends
    <3>4. k + 1 \notin Values(app, args)
      BY <1>7, <1>11, Zenon DEF TakesNext
    <3>5. /\ \A i \in Options(app, args) : i < k + 1 => i < k
          /\ \A i \in Destinations(app, args) : i < k + 1 => i < k \/ i = k
          /\ \A i \in Destinations(app, args) : ~(i < k)
      <4>1. \A i \in Options(app, args) \cup Destinations(app, args) : i \in 1..Len(args)
        BY OptionFacts, DestinationFacts, Zenon
      <4>2. \A i \in 1..Len(args) : i < k + 1 => i < k \/ i = k
        BY Words
      <4>3. \A i \in Destinations(app, args) : ~(i < k)
        BY <1>8, <2>9, Zenon DEF Reading
      <4>4. QED
        BY <2>3, <4>1, <4>2, <4>3, Zenon
    <3>6. Fine(app, args, k + 1)
      <4>1. \A i, j \in Destinations(app, args) : ~(i < j /\ j < k + 1)
        BY <2>4, <3>5, Zenon
      <4>2. QED
        BY <1>8, <3>5, <4>1, Zenon DEF Reading, Fine
    <3>7. ASSUME Readable(app, args) PROVE Holds(app, args, placed, k + 1, k + 1)
      <4>1. \A key : LastText(app, args, k + 1, key) = LastText(app, args, k, key)
        BY <2>3, LastTextSkips, Zenon
      <4>2. Holds(app, args, placed, k, k + 1)
        BY <2>7, <2>9, <3>7
      <4>3. QED
        BY <4>1, <4>2, Zenon DEF Holds
    <3>8. Reading(app, args, k + 1, t)
      BY <2>3, <2>4, <3>2, <3>6, <3>7, Zenon DEF Reading
    <3>9. Control(app, args, k, t)
      BY <3>2, <3>3, <3>4, <3>8, Zenon DEF Control
    <3>10. QED
      BY <1>2, <1>4, <1>6, <3>9, Zenon
  <2>10. CASE ~s.placed /\ app # "putty.exe"
    <3>1. t = Returned(placed)
      BY <2>2, <2>6, <2>10, Zenon DEF ReadDestination, GoesOn
    <3>2. t.phase = "done" /\ t.target = placed
      BY <3>1 DEF Returned
    <3>3. k = End(app, args)
      BY <1>7, <1>11, <2>10, Zenon DEF Ends
    <3>4. Fine(app, args, k)
      BY <1>8, Zenon DEF Reading
    <3>5. ASSUME Readable(app, args) PROVE Holds(app, args, placed, k, k + 2)
      <4>1. k + 1 \notin Destinations(app, args)
        <5>1. ~(k + 1 <= k)
          OBVIOUS
        <5>2. QED
          BY <1>4, <2>1, <3>3, <5>1, DestinationFacts, Zenon
      <4>2. k + 1 \in Nat /\ k + 2 = (k + 1) + 1
        OBVIOUS
      <4>3. PlaceAt(app, args, k + 2) = PlaceAt(app, args, k + 1)
        BY <4>1, <4>2, PlaceAtSkips, Zenon
      <4>4. Holds(app, args, placed, k, k + 1)
        BY <2>7, <2>10, <3>5
      <4>5. QED
        BY <4>3, <4>4, Zenon DEF Holds
    <3>6. Control(app, args, k, t)
      BY <1>3, <3>2, <3>3, <3>4, <3>5, Zenon DEF Control
    <3>7. QED
      BY <1>2, <1>4, <1>6, <3>6, Zenon
  <2>11. QED
    BY <2>8, <2>9, <2>10
<1>12. QED
  BY <1>9, <1>10, <1>11

-----------------------------------------------------------------------------
(* What all words come to *)

\* The loop keeps to it for all words of a command line.
LEMMA ScanControls ==
  ASSUME NEW app, NEW args \in Seq(Vocabulary)
  PROVE  Scan(app, args) \in ScanStates /\ Control(app, args, Len(args), Scan(app, args))
<1>1. PICK N \in Nat : N = Len(args)
  BY Words
<1>2. PICK r \in [0..N -> ScanStates] :
        /\ r[0] = Scan0
        /\ \A n \in 1..N : r[n] = ScanWord(app, r[n - 1], args[n])
        /\ r[N] = Scan(app, args)
  BY <1>1, ScanRounds, Zenon
<1>3. PICK T : T = {n \in Nat : n <= N => Control(app, args, n, r[n])}
  OBVIOUS
<1>4. 0 \in T
  <2>1. End(app, args) \in 1..N + 1
    BY <1>1, EndFacts, Zenon
  <2>2. 0 < End(app, args) /\ 0 + 1 = 1 /\ ~(1 > 1)
    BY <2>1
  <2>3. 1 \notin Values(app, args)
    BY <1>1, <2>2, ValuesFacts, Zenon
  <2>4. \A i \in Options(app, args) \cup Destinations(app, args) : ~(i < 1)
    <3>1. \A i \in Options(app, args) \cup Destinations(app, args) : i \in 1..N
      BY <1>1, OptionFacts, DestinationFacts, Zenon
    <3>2. \A i \in 1..N : ~(i < 1)
      OBVIOUS
    <3>3. QED
      BY <3>1, <3>2, Zenon
  <2>5. Fine(app, args, 1)
    BY <2>4, Zenon DEF Fine
  <2>6. \A key : LastText(app, args, 1, key) = ""
    BY <2>4, Zenon DEF LastText
  <2>7. PlaceAt(app, args, 1) = Nowhere
    BY <2>4, Zenon DEF PlaceAt, PlaceOf
  <2>8. PICK source : source = "inferred client arguments"
    OBVIOUS
  <2>9. PICK t : t = [NoTarget EXCEPT !.source = source]
    OBVIOUS
  <2>10. t.user = "" /\ t.host = "" /\ t.port = NoPort /\ t.session = ""
    BY <2>9 DEF NoTarget
  <2>11. PICK s : s = [phase |-> "words", option |-> "", placed |-> FALSE, target |-> t]
    OBVIOUS
  <2>12. s.phase = "words" /\ s.placed = FALSE /\ s.target = t
    BY <2>11
  <2>13. s = Scan0
    BY <2>8, <2>9, <2>11, Zenon DEF Scan0
  <2>14. Holds(app, args, t, 1, 1)
    <3>1. Nowhere.user = "" /\ Nowhere.host = "" /\ Nowhere.port = NoPort
      BY DEF Nowhere
    <3>2. QED
      BY <2>6, <2>7, <2>10, <3>1, Zenon DEF Holds, OrElse, PortNamed
  <2>15. Reading(app, args, 1, s)
    BY <2>4, <2>5, <2>12, <2>14, Zenon DEF Reading
  <2>16. Control(app, args, 0, s)
    BY <2>2, <2>3, <2>12, <2>15, Zenon DEF Control
  <2>17. 0 \in Nat
    OBVIOUS
  <2>18. QED
    BY <1>2, <1>3, <2>13, <2>16, <2>17, Zenon
<1>5. ASSUME NEW n \in Nat, n \in T PROVE n + 1 \in T
  <2>1. ASSUME n + 1 <= N PROVE Control(app, args, n + 1, r[n + 1])
    <3>1. n <= N /\ n < N /\ n \in 0..N /\ n + 1 \in 1..N /\ (n + 1) - 1 = n
      BY <2>1
    <3>2. PICK s \in ScanStates : s = r[n]
      BY <3>1
    <3>3. Control(app, args, n, s)
      BY <1>3, <1>5, <3>1, <3>2, Zenon
    <3>4. r[n + 1] = ScanWord(app, s, args[n + 1])
      BY <1>2, <3>1, <3>2, Zenon
    <3>5. s.phase \in {"words", "value", "dash", "done"}
      BY DEF ScanStates
    <3>6. Control(app, args, n + 1, ScanWord(app, s, args[n + 1]))
      <4>1. n < Len(args)
        BY <1>1, <3>1
      <4>2. QED
        BY <3>3, <3>5, <4>1, DoneKept, DashRead, ValueRead, WordRead, Zenon
    <3>7. QED
      BY <3>4, <3>6, Zenon
  <2>2. QED
    BY <1>3, <2>1
<1>6. N \in T
  BY <1>4, <1>5, NatSetInduction
<1>7. N <= N /\ N \in 0..N
  OBVIOUS
<1>8. QED
  BY <1>1, <1>2, <1>3, <1>6, <1>7, Zenon

\* What the parser returns for clear command lines and for broken ones.
LEMMA ParsedTarget ==
  ASSUME NEW app, NEW args \in Seq(Vocabulary)
  PROVE  LET t == ParseClientTarget(app, args)
             place == PlaceOf(args, Destinations(app, args))
         IN /\ t \in Targets
            /\ Broken(app, args) => t = NoTarget
            /\ Readable(app, args) =>
                 /\ t.user = OrElse(LastSetting(app, args, "user"), place.user, "")
                 /\ t.host = OrElse(LastSetting(app, args, "hostname"), place.host, "")
                 /\ t.port = OrElse(PortNamed(LastSetting(app, args, "port")), place.port, NoPort)
                 /\ t.session = LastSetting(app, args, "session")
<1>1. PICK N \in Nat : N = Len(args)
  BY Words
<1>2. PICK E \in 1..N + 1 : E = End(app, args)
  BY <1>1, EndFacts
<1>3. PICK s \in ScanStates : s = Scan(app, args)
  BY ScanControls, Zenon
<1>4. PICK t : t = ParseClientTarget(app, args)
  OBVIOUS
<1>5. t = IF app \notin Apps \/ s.phase = "value" THEN NoTarget ELSE s.target
  BY <1>3, <1>4, Zenon DEF ParseClientTarget
<1>6. t \in Targets
  <2>1. s.target \in Targets
    BY DEF ScanStates
  <2>2. QED
    BY <1>5, <2>1, Starts, Zenon
<1>7. Refused.target = NoTarget
  BY DEF Refused, Returned
<1>8. \/ s = Refused /\ ~Readable(app, args)
      \/ s.phase = "value" /\ N \in Options(app, args) /\ TakesNext(app, args[N])
      \/ /\ Fine(app, args, E)
         /\ s.phase # "value"
         /\ Readable(app, args) =>
              \E l \in Nat : /\ \A i \in Destinations(app, args) : i < l
                             /\ Holds(app, args, s.target, E, l)
  <2>1. Control(app, args, N, s)
    BY <1>1, <1>3, ScanControls, Zenon
  <2>2. \A i \in Destinations(app, args) : i \in 1..N
    BY <1>1, DestinationFacts, Zenon
  <2>3. CASE s = Refused /\ ~Readable(app, args)
    BY <2>3
  <2>4. CASE s.phase = "words" /\ N < E /\ Reading(app, args, N + 1, s)
    <3>1. N + 1 = E /\ N + 1 \in Nat
      BY <1>1, <1>2, <2>4
    <3>2. \A i \in Destinations(app, args) : i < N + 1
      BY <2>2
    <3>3. "words" # "value"
      OBVIOUS
    <3>4. QED
      BY <2>4, <3>1, <3>2, <3>3, Zenon DEF Reading
  <2>5. CASE s.phase = "value" /\ N \in Options(app, args) /\ TakesNext(app, args[N])
    BY <2>5
  <2>6. CASE s.phase = "dash" /\ N = E /\ args[N] = "--" /\ Reading(app, args, N, s)
    <3>1. \A i \in Destinations(app, args) : i < N
      <4>1. N # E + 1
        BY <1>2, <2>6
      <4>2. N \notin Destinations(app, args)
        BY <1>2, <2>6, <4>1, DashDashed, DestinationFacts, Zenon
      <4>3. QED
        BY <2>2, <4>2
    <3>2. s.phase # "value"
      BY <2>6
    <3>3. QED
      BY <2>6, <3>1, <3>2, Zenon DEF Reading
  <2>7. CASE /\ s.phase = "done" /\ Fine(app, args, E)
             /\ Readable(app, args) => Holds(app, args, s.target, E, E + 2)
    <3>1. \A i \in Destinations(app, args) : i < E + 2
      <4>1. \A i \in Destinations(app, args) : i <= E \/ i = E + 1
        BY <1>2, DestinationFacts, Zenon
      <4>2. QED
        BY <2>2, <4>1
    <3>2. s.phase # "value" /\ E + 2 \in Nat
      BY <2>7
    <3>3. QED
      BY <2>7, <3>1, <3>2, Zenon
  <2>8. QED
    BY <1>2, <2>1, <2>3, <2>4, <2>5, <2>6, <2>7, Zenon DEF Control
<1>9. \A i \in Options(app, args) : i < E
  BY <1>2, OptionFacts, Zenon
<1>10. ASSUME Broken(app, args) PROVE t = NoTarget
  <2>1. CASE app \notin Apps
    BY <1>5, <2>1
  <2>2. CASE app \in Apps
    <3>1. ASSUME Fine(app, args, E) PROVE FALSE
      <4>1. \A i \in Options(app, args) : GoodOption(app, args, i)
        BY <1>9, <3>1, Zenon DEF Fine
      <4>2. \A i, j \in Destinations(app, args) : ~(i < j /\ j < E)
        BY <3>1, Zenon DEF Fine
      <4>3. Complete(app, args)
        BY <4>1, Zenon DEF Complete, GoodOption, Known
      <4>4. QED
        BY <1>2, <1>10, <2>2, <4>1, <4>2, <4>3, Zenon DEF Broken, GoodOption
    <3>2. QED
      BY <1>5, <1>7, <1>8, <3>1, Zenon
  <2>3. QED
    BY <2>1, <2>2
<1>11. ASSUME Readable(app, args)
       PROVE  LET place == PlaceOf(args, Destinations(app, args)) IN
              /\ t.user = OrElse(LastSetting(app, args, "user"), place.user, "")
              /\ t.host = OrElse(LastSetting(app, args, "hostname"), place.host, "")
              /\ t.port = OrElse(PortNamed(LastSetting(app, args, "port")), place.port, NoPort)
              /\ t.session = LastSetting(app, args, "session")
  <2>1. ~(N \in Options(app, args) /\ TakesNext(app, args[N]))
    <3>1. ~(N < N)
      OBVIOUS
    <3>2. QED
      BY <1>1, <1>11, <3>1, ReadableOptions, Zenon DEF GoodOption
  <2>2. t = s.target
    BY <1>5, <1>8, <1>11, <2>1, ReadablePlaces, Zenon
  <2>3. PICK l \in Nat : /\ \A i \in Destinations(app, args) : i < l
                         /\ Holds(app, args, t, E, l)
    BY <1>8, <1>11, <2>1, <2>2, Zenon
  <2>4. \A key : LastText(app, args, E, key) = LastSetting(app, args, key)
    <3>1. ASSUME NEW key PROVE LastText(app, args, E, key) = LastSetting(app, args, key)
      <4>1. PICK at : at = {i \in Options(app, args) : SettingAt(app, args, i).key = key}
        OBVIOUS
      <4>2. at = {i \in Options(app, args) : i < E /\ SettingAt(app, args, i).key = key}
        BY <1>9, <4>1, Zenon
      <4>3. LastSetting(app, args, key) = IF at = {} THEN "" ELSE SettingAt(app, args, Max(at)).text
        BY <4>1, Zenon DEF LastSetting, Set
      <4>4. LastText(app, args, E, key) = IF at = {} THEN "" ELSE SettingAt(app, args, Max(at)).text
        BY <4>2, Zenon DEF LastText
      <4>5. QED
        BY <4>3, <4>4, Zenon
    <3>2. QED
      BY <3>1, Zenon
  <2>5. PlaceAt(app, args, l) = PlaceOf(args, Destinations(app, args))
    <3>1. {i \in Destinations(app, args) : i < l} = Destinations(app, args)
      BY <2>3, Zenon
    <3>2. QED
      BY <3>1, Zenon DEF PlaceAt
  <2>6. QED
    BY <2>3, <2>4, <2>5, Zenon DEF Holds
<1>12. QED
  BY <1>4, <1>6, <1>10, <1>11, Zenon

\* The parser reads a clear command line, and nothing in it is set twice.
LEMMA ClearReads ==
  ASSUME NEW app, NEW args \in Seq(Vocabulary), Clear(app, args)
  PROVE  /\ Readable(app, args)
         /\ \A key \in {"user", "hostname", "port", "session"} :
              Setting(app, args, key) = LastSetting(app, args, key)
<1>1. Readable(app, args)
  BY Zenon DEF Clear, Readable, Unambiguous
<1>2. ASSUME NEW key \in {"user", "hostname", "port", "session"}
      PROVE  Setting(app, args, key) = LastSetting(app, args, key)
  <2>1. PICK at : at = Set(app, args, key)
    OBVIOUS
  <2>2. \A i, j \in at : i = j
    BY <2>1, Zenon DEF Clear, Unambiguous
  <2>3. PICK n \in Nat : n = Len(args)
    BY Words
  <2>4. at \in SUBSET (1..n)
    BY <2>1, <2>3, OptionFacts, Zenon DEF Set
  <2>5. CASE at = {}
    BY <2>1, <2>5, Zenon DEF Setting, LastSetting
  <2>6. CASE at # {}
    <3>1. PICK m : m = CHOOSE i \in at : TRUE
      OBVIOUS
    <3>2. m \in at
      BY <2>6, <3>1, Zenon
    <3>3. \A i \in at : i <= m
      BY <2>2, <2>4, <3>2
    <3>4. Max(at) = m
      BY <2>4, <3>2, <3>3, LastIs, Zenon
    <3>5. Setting(app, args, key) = SettingAt(app, args, m).text
      BY <2>1, <2>6, <3>1, Zenon DEF Setting
    <3>6. LastSetting(app, args, key) = SettingAt(app, args, m).text
      BY <2>1, <2>6, <3>4, Zenon DEF LastSetting
    <3>7. QED
      BY <3>5, <3>6
  <2>7. QED
    BY <2>5, <2>6
<1>3. QED
  BY <1>1, <1>2

\* What a process's command line comes to, its saved session included.
LEMMA TargetMeant ==
  ASSUME NEW app, NEW args \in Seq(Vocabulary)
  PROVE  LET target == TargetOf(app, args) IN
         /\ Clear(app, args) =>
              [user |-> target.user, host |-> target.host, port |-> target.port] = Meant(app, args)
         /\ Broken(app, args) => target = NoTarget
         /\ target.user \notin UnsafeFields /\ target.host \notin UnsafeFields \cup UnsafeHosts
<1>1. PICK t : t = IF args = <<>> THEN NoTarget ELSE ParseClientTarget(app, args)
  OBVIOUS
<1>2. PICK target : target = TargetOf(app, args)
  OBVIOUS
<1>3. PICK place : place = PlaceOf(args, Destinations(app, args))
  OBVIOUS
<1>4. PICK user, host, port, name :
        /\ user = LastSetting(app, args, "user")
        /\ host = LastSetting(app, args, "hostname")
        /\ port = PortNamed(LastSetting(app, args, "port"))
        /\ name = LastSetting(app, args, "session")
  OBVIOUS
<1>5. Nowhere.user = "" /\ Nowhere.host = "" /\ Nowhere.port = NoPort
  BY DEF Nowhere
<1>6. NoTarget.user = "" /\ NoTarget.host = "" /\ NoTarget.port = NoPort /\ NoTarget.session = ""
  BY DEF NoTarget
<1>7. /\ t \in Targets
      /\ Broken(app, args) => t = NoTarget
      /\ Readable(app, args) =>
           /\ t.user = OrElse(user, place.user, "") /\ t.host = OrElse(host, place.host, "")
           /\ t.port = OrElse(port, place.port, NoPort) /\ t.session = name
  <2>1. CASE args # <<>>
    BY <1>1, <1>3, <1>4, <2>1, ParsedTarget, Zenon
  <2>2. CASE args = <<>>
    <3>1. t = NoTarget
      BY <1>1, <2>2, Zenon
    <3>2. \A i : i \notin 1..Len(args)
      BY <2>2
    <3>3. Options(app, args) = {} /\ Destinations(app, args) = {}
      BY <3>2, OptionFacts, DestinationFacts, Zenon
    <3>4. \A key : LastSetting(app, args, key) = ""
      BY <3>3, Zenon DEF LastSetting, Set
    <3>5. place = Nowhere
      BY <1>3, <3>3, Zenon DEF PlaceOf
    <3>6. user = "" /\ host = "" /\ port = NoPort /\ name = ""
      BY <1>4, <3>4, Zenon DEF PortNamed
    <3>7. QED
      BY <1>5, <1>6, <3>1, <3>5, <3>6, Starts, Zenon DEF OrElse
  <2>3. QED
    BY <2>1, <2>2
<1>8. ASSUME Clear(app, args)
       PROVE  /\ t.user = OrElse(user, place.user, "") /\ t.host = OrElse(host, place.host, "")
              /\ t.port = OrElse(port, place.port, NoPort) /\ t.session = name
              /\ user = Setting(app, args, "user") /\ host = Setting(app, args, "hostname")
              /\ port = PortNamed(Setting(app, args, "port"))
              /\ name = Setting(app, args, "session")
  BY <1>4, <1>7, <1>8, ClearReads, Zenon
<1>9. target = IF t.session # "" THEN ResolvePuttySession(t) ELSE t
  BY <1>1, <1>2, Zenon DEF TargetOf
<1>10. /\ t.user \in Strings \ UnsafeFields
      /\ t.host \in Strings \ (UnsafeFields \cup UnsafeHosts)
  BY <1>7 DEF Targets
<1>11. CASE t.session = "" \/ t.session \notin DOMAIN Sessions \/ ~Sessions[t.session].opens
  <2>1. target = t
    BY <1>9, <1>11, Zenon DEF ResolvePuttySession
  <2>2. ASSUME Clear(app, args)
        PROVE  [user |-> target.user, host |-> target.host, port |-> target.port] = Meant(app, args)
    <3>1. "" \notin DOMAIN Sessions
      BY TargetAssumption
    <3>2. ~(name \in DOMAIN Sessions /\ Sessions[name].opens)
      BY <1>8, <1>11, <2>2, <3>1, Zenon
    <3>3. SafeTargetField("") = "" /\ SafeHost("") = ""
      BY Zenon DEF SafeTargetField, SafeHost
    <3>4. Meant(app, args) =
            [user |-> OrElse(user, OrElse(place.user, SafeTargetField(Nowhere.user), ""), ""),
             host |-> OrElse(host, OrElse(place.host, SafeHost(Nowhere.host), ""), ""),
             port |-> OrElse(port, OrElse(place.port, Nowhere.port, NoPort), NoPort)]
      BY <1>3, <1>8, <2>2, <3>2, Zenon DEF Meant, Nowhere, PlaceOf, PortNamed
    <3>5. /\ t.user = OrElse(user, OrElse(place.user, SafeTargetField(Nowhere.user), ""), "")
          /\ t.host = OrElse(host, OrElse(place.host, SafeHost(Nowhere.host), ""), "")
          /\ t.port = OrElse(port, OrElse(place.port, Nowhere.port, NoPort), NoPort)
      BY <1>5, <1>8, <2>2, <3>3, Zenon DEF OrElse
    <3>6. QED
      BY <2>1, <3>4, <3>5, Zenon
  <2>3. QED
    BY <1>2, <1>7, <1>10, <2>1, <2>2, Zenon
<1>12. CASE t.session # "" /\ t.session \in DOMAIN Sessions /\ Sessions[t.session].opens
  <2>1. PICK saved : saved = Sessions[t.session]
    OBVIOUS
  <2>2. saved.user \in Strings /\ saved.host \in Strings
    BY <1>12, <2>1, TargetAssumption DEF Strings
  <2>3. CASE saved.protocol \notin {"", "ssh"}
    <3>1. target = NoTarget
      BY <1>9, <1>12, <2>1, <2>3, Zenon DEF ResolvePuttySession
    <3>2. ~Clear(app, args)
      BY <1>8, <1>12, <2>1, <2>3, Zenon DEF Clear
    <3>3. QED
      BY <1>2, <1>6, <3>1, <3>2, EmptySafe, Zenon
  <2>4. CASE saved.protocol \in {"", "ssh"}
    <3>1. PICK source : source = "inferred PuTTY session"
      OBVIOUS
    <3>2. PICK u, h, p : /\ u = IF t.user = "" THEN SafeTargetField(saved.user) ELSE t.user
                         /\ h = IF t.host = "" THEN SafeHost(saved.host) ELSE t.host
                         /\ p = IF t.port = NoPort THEN saved.port ELSE t.port
      OBVIOUS
    <3>3. PICK r : r = [user |-> u, host |-> h, port |-> p, source |-> source, session |-> t.session]
      OBVIOUS
    <3>4. r.user = u /\ r.host = h /\ r.port = p
      BY <3>3
    <3>5. target = r
      BY <1>9, <1>12, <2>1, <2>4, <3>1, <3>2, <3>3, Zenon DEF ResolvePuttySession
    <3>6. u \notin UnsafeFields /\ h \notin UnsafeFields \cup UnsafeHosts
      BY <1>10, <2>2, <3>2, SafeTexts, Zenon
    <3>7. ~Broken(app, args)
      BY <1>6, <1>7, <1>12, Zenon
    <3>8. ASSUME Clear(app, args)
          PROVE  [user |-> target.user, host |-> target.host, port |-> target.port] = Meant(app, args)
      <4>1. name \in DOMAIN Sessions /\ Sessions[name].opens /\ saved = Sessions[name]
        BY <1>8, <1>12, <2>1, <3>8, Zenon
      <4>2. Meant(app, args) =
              [user |-> OrElse(user, OrElse(place.user, SafeTargetField(saved.user), ""), ""),
               host |-> OrElse(host, OrElse(place.host, SafeHost(saved.host), ""), ""),
               port |-> OrElse(port, OrElse(place.port, saved.port, NoPort), NoPort)]
        BY <1>3, <1>8, <3>8, <4>1, Zenon DEF Meant, Nowhere, PlaceOf, PortNamed
      <4>3. /\ u = OrElse(user, OrElse(place.user, SafeTargetField(saved.user), ""), "")
            /\ h = OrElse(host, OrElse(place.host, SafeHost(saved.host), ""), "")
            /\ p = OrElse(port, OrElse(place.port, saved.port, NoPort), NoPort)
        BY <1>8, <3>2, <3>8, Zenon DEF OrElse
      <4>4. QED
        BY <3>4, <3>5, <4>2, <4>3, Zenon
    <3>9. QED
      BY <1>2, <3>4, <3>5, <3>6, <3>7, <3>8, Zenon
  <2>5. QED
    BY <2>3, <2>4
<1>13. QED
  BY <1>11, <1>12
=============================================================================
