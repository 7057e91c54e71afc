---------------------------- MODULE SerialProofs ----------------------------
(***************************************************************************)
(* The proofs of Serial: LinesWhole and OutputExact for every script, every *)
(* size of the FIFO and any number of interrupts.                          *)
(***************************************************************************)
EXTENDS Serial, SequenceTheorems, FiniteSetTheorems, NaturalsInduction, WellFoundedInduction, TLAPS

\* A set of naturals has a least element: what the arguments by a least
\* counterexample below start from.
LEMMA LeastNatural ==
  ASSUME NEW S \in SUBSET Nat, S # {}
  PROVE  \E m \in S : \A n \in S : m <= n
<1> DEFINE R == OpToRel(<, Nat)
<1>1. IsWellFoundedOn(R, Nat)
  BY NatLessThanWellFounded
<1>2. \A x, y \in Nat : <<y, x>> \in R <=> y < x
  BY DEF OpToRel
<1> HIDE DEF R
<1>3. PICK m \in S : \A y \in S : ~ (<<y, m>> \in R)
  BY <1>1, WFMin
<1>4. ASSUME NEW n \in S PROVE m <= n
  <2>1. ~ (n < m)
    BY <1>2, <1>3
  <2>2. m \in Nat /\ n \in Nat
    OBVIOUS
  <2> QED BY <2>1, <2>2
<1> QED BY <1>3, <1>4

LEMMA NoLength ==
  ASSUME NEW S, NEW s \in Seq(S), Len(s) = 0
  PROVE  s = <<>>
BY EmptySeq

LEMMA Associative ==
  ASSUME NEW S
  PROVE  \A a, b, c \in Seq(S) : (a \o b) \o c = a \o (b \o c)
<1>1. ASSUME NEW a \in Seq(S), NEW b \in Seq(S), NEW c \in Seq(S)
      PROVE  (a \o b) \o c = a \o (b \o c)
  BY ConcatAssociative
<1> QED BY <1>1, Zenon

-----------------------------------------------------------------------------
(* FlattenSeq: a sequence of sequences, one after the other.               *)

\* What the recursive function of FlattenSeq satisfies, up to n.
Flattens(ss, n, f) ==
  f = [i \in 1 .. n |-> IF i = 1 THEN ss[i] ELSE f[i - 1] \o ss[i]]

LEMMA FlattensExist ==
  ASSUME NEW ss, NEW n \in Nat
  PROVE  \E f : Flattens(ss, n, f)
<1> DEFINE Bad == {m \in Nat : ~ \E f : Flattens(ss, m, f)}
<1> SUFFICES ASSUME Bad # {} PROVE FALSE
  OBVIOUS
<1>1. PICK m \in Bad : \A q \in Bad : m <= q
  BY LeastNatural
<1>2. m \in Nat /\ ~ \E f : Flattens(ss, m, f)
  BY <1>1
<1>3. m # 0
  <2> DEFINE z == [k \in 1 .. 0 |-> 0]
  <2>1. z = [i \in 1 .. 0 |-> IF i = 1 THEN ss[i] ELSE z[i - 1] \o ss[i]]
    OBVIOUS
  <2>2. Flattens(ss, 0, z)
    BY <2>1 DEF Flattens
  <2> QED BY <1>2, <2>2
<1>4. m - 1 \in Nat /\ m - 1 \notin Bad
  BY <1>1, <1>2, <1>3
<1>5. PICK f : Flattens(ss, m - 1, f)
  BY <1>4
<1> DEFINE r == [i \in 1 .. m |-> IF i = m THEN (IF i = 1 THEN ss[i] ELSE f[i - 1] \o ss[i])
                                  ELSE f[i]]
<1>6. f = [i \in 1 .. m - 1 |-> IF i = 1 THEN ss[i] ELSE f[i - 1] \o ss[i]]
  BY <1>5 DEF Flattens
<1>7. \A i \in 1 .. m - 1 : f[i] = IF i = 1 THEN ss[i] ELSE f[i - 1] \o ss[i]
  BY <1>6
<1>8. ASSUME NEW i \in 1 .. m
      PROVE  r[i] = IF i = 1 THEN ss[i] ELSE r[i - 1] \o ss[i]
  <2>1. CASE i = 1
    BY <1>2, <1>7, <2>1
  <2>2. CASE i # 1
    <3>1. i - 1 \in 1 .. m /\ i - 1 # m
      BY <1>2, <2>2
    <3>2. r[i - 1] = f[i - 1]
      BY <3>1
    <3>3. CASE i = m
      BY <2>2, <3>2, <3>3
    <3>4. CASE i # m
      <4>1. i \in 1 .. m - 1
        BY <1>2, <3>4
      <4>2. r[i] = f[i]
        BY <3>4
      <4> QED BY <1>7, <2>2, <3>2, <4>1, <4>2
    <3> QED BY <3>3, <3>4
  <2> QED BY <2>1, <2>2
<1>9. r = [i \in 1 .. m |-> IF i = 1 THEN ss[i] ELSE r[i - 1] \o ss[i]]
  BY <1>8
<1> QED BY <1>2, <1>9 DEF Flattens

\* FlattenSeq without its recursion.
LEMMA FlattenIs ==
  ASSUME NEW S, NEW ss \in Seq(Seq(S)), ss # <<>>
  PROVE  \E f : /\ FlattenSeq(ss) = f[Len(ss)]
                /\ f[1] = ss[1]
                /\ \A i \in 2 .. Len(ss) : f[i] = f[i - 1] \o ss[i]
                /\ \A i \in 1 .. Len(ss) : f[i] \in Seq(S)
<1>0. Len(ss) \in Nat \ {0}
  OBVIOUS
<1>1. \E f : Flattens(ss, Len(ss), f)
  BY <1>0, FlattensExist
<1>2. \E f : Flattens(ss, Len(ss), f) /\ FlattenSeq(ss) = f[Len(ss)]
  BY <1>0, <1>1 DEF Flattens, FlattenSeq
<1>3. PICK f : Flattens(ss, Len(ss), f) /\ FlattenSeq(ss) = f[Len(ss)]
  BY <1>2
<1>4. f = [i \in 1 .. Len(ss) |-> IF i = 1 THEN ss[i] ELSE f[i - 1] \o ss[i]]
  BY <1>3 DEF Flattens
<1>5. \A i \in 1 .. Len(ss) : f[i] = IF i = 1 THEN ss[i] ELSE f[i - 1] \o ss[i]
  BY <1>4
<1>6. f[1] = ss[1] /\ \A i \in 2 .. Len(ss) : f[i] = f[i - 1] \o ss[i]
  <2>1. 1 \in 1 .. Len(ss)
    BY <1>0
  <2>2. ASSUME NEW i \in 2 .. Len(ss) PROVE f[i] = f[i - 1] \o ss[i]
    <3>1. i \in 1 .. Len(ss) /\ i # 1
      BY <1>0
    <3> QED BY <1>5, <3>1
  <2> QED BY <1>5, <2>1, <2>2
<1> DEFINE Bad == {i \in 1 .. Len(ss) : f[i] \notin Seq(S)}
<1>7. ASSUME Bad # {} PROVE FALSE
  <2>1. PICK m \in Bad : \A q \in Bad : m <= q
    <3>1. Bad \in SUBSET Nat
      OBVIOUS
    <3> QED BY <1>7, <3>1, LeastNatural
  <2>2. m \in 1 .. Len(ss) /\ f[m] \notin Seq(S) /\ ss[m] \in Seq(S)
    BY <2>1
  <2>3. m # 1
    BY <1>6, <2>2
  <2>4. m \in 2 .. Len(ss) /\ m - 1 \in 1 .. Len(ss) /\ m - 1 \notin Bad
    BY <2>1, <2>2, <2>3
  <2>5. f[m - 1] \in Seq(S) /\ f[m] = f[m - 1] \o ss[m]
    BY <1>6, <2>4
  <2> QED BY <2>2, <2>5, ConcatProperties
<1> QED BY <1>3, <1>6, <1>7

LEMMA FlattenEmpty == FlattenSeq(<<>>) = <<>>
BY DEF FlattenSeq

LEMMA FlattenType ==
  ASSUME NEW S, NEW ss \in Seq(Seq(S))
  PROVE  FlattenSeq(ss) \in Seq(S)
<1>1. CASE ss = <<>>
  <2>1. FlattenSeq(ss) = <<>>
    BY <1>1, FlattenEmpty
  <2> QED BY <2>1, EmptySeq
<1>2. CASE ss # <<>>
  <2>1. PICK f : FlattenSeq(ss) = f[Len(ss)] /\ \A i \in 1 .. Len(ss) : f[i] \in Seq(S)
    BY <1>2, FlattenIs
  <2> QED BY <1>2, <2>1
<1> QED BY <1>1, <1>2

LEMMA FlattenOne ==
  ASSUME NEW S, NEW ss \in Seq(Seq(S)), Len(ss) = 1
  PROVE  FlattenSeq(ss) = ss[1]
<1>1. PICK f : FlattenSeq(ss) = f[Len(ss)] /\ f[1] = ss[1]
  <2>1. ss # <<>>
    OBVIOUS
  <2> QED BY <2>1, FlattenIs
<1> QED BY <1>1

\* Two sequences that agree on the first n have the same partial results.
LEMMA FlattenStep ==
  ASSUME NEW S, NEW ss \in Seq(Seq(S)), NEW tt \in Seq(Seq(S)), Len(tt) = Len(ss) + 1,
         \A i \in 1 .. Len(ss) : tt[i] = ss[i]
  PROVE  FlattenSeq(tt) = FlattenSeq(ss) \o tt[Len(tt)]
<1>1. CASE ss = <<>>
  <2>1. Len(tt) = 1 /\ tt[1] \in Seq(S)
    BY <1>1
  <2>2. FlattenSeq(tt) = tt[1]
    BY <2>1, FlattenOne
  <2> QED BY <1>1, <2>1, <2>2, FlattenEmpty, ConcatEmptySeq
<1>2. CASE ss # <<>>
  <2>0. Len(ss) \in Nat \ {0} /\ tt # <<>>
    BY <1>2
  <2>1. PICK f : /\ FlattenSeq(ss) = f[Len(ss)]
                 /\ f[1] = ss[1]
                 /\ \A i \in 2 .. Len(ss) : f[i] = f[i - 1] \o ss[i]
                 /\ \A i \in 1 .. Len(ss) : f[i] \in Seq(S)
    BY <1>2, FlattenIs
  <2>2. PICK g : /\ FlattenSeq(tt) = g[Len(tt)]
                 /\ g[1] = tt[1]
                 /\ \A i \in 2 .. Len(tt) : g[i] = g[i - 1] \o tt[i]
                 /\ \A i \in 1 .. Len(tt) : g[i] \in Seq(S)
    BY <2>0, FlattenIs
  <2> DEFINE Bad == {i \in 1 .. Len(ss) : f[i] # g[i]}
  <2>3. ASSUME Bad # {} PROVE FALSE
    <3>1. PICK m \in Bad : \A q \in Bad : m <= q
      <4>1. Bad \in SUBSET Nat
        OBVIOUS
      <4> QED BY <2>3, <4>1, LeastNatural
    <3>2. m \in 1 .. Len(ss) /\ f[m] # g[m] /\ tt[m] = ss[m]
      BY <3>1
    <3>3. m # 1
      BY <2>1, <2>2, <3>2
    <3>4. m \in 2 .. Len(ss) /\ m \in 2 .. Len(tt) /\ m - 1 \in 1 .. Len(ss) /\ m - 1 \notin Bad
      BY <3>1, <3>2, <3>3
    <3>5. f[m - 1] = g[m - 1]
      BY <3>4
    <3> QED BY <2>1, <2>2, <3>2, <3>4, <3>5
  <2>4. f[Len(ss)] = g[Len(ss)]
    BY <2>0, <2>3
  <2>5. Len(tt) \in 2 .. Len(tt) /\ Len(tt) - 1 = Len(ss)
    BY <2>0
  <2> QED BY <2>1, <2>2, <2>4, <2>5
<1> QED BY <1>1, <1>2

LEMMA FlattenTail ==
  ASSUME NEW S, NEW ss \in Seq(Seq(S)), ss # <<>>
  PROVE  FlattenSeq(ss) = Head(ss) \o FlattenSeq(Tail(ss))
<1> DEFINE Wrong(s) == s # <<>> /\ FlattenSeq(s) # Head(s) \o FlattenSeq(Tail(s))
           Bad == {n \in Nat : \E s \in Seq(Seq(S)) : Len(s) = n /\ Wrong(s)}
<1> SUFFICES ASSUME Bad # {} PROVE FALSE
  <2>1. Len(ss) \in Nat
    OBVIOUS
  <2> QED BY <2>1
<1>1. PICK m \in Bad : \A q \in Bad : m <= q
  <2>1. Bad \in SUBSET Nat
    OBVIOUS
  <2> HIDE DEF Bad
  <2> QED BY <2>1, LeastNatural
<1>2. PICK s \in Seq(Seq(S)) : Len(s) = m /\ Wrong(s)
  BY <1>1
<1>3. s # <<>> /\ m \in Nat \ {0} /\ Len(s) = m /\ FlattenSeq(s) # Head(s) \o FlattenSeq(Tail(s))
  BY <1>1, <1>2
<1>8. Head(s) = s[1] /\ s[1] \in Seq(S) /\ Tail(s) \in Seq(Seq(S)) /\ Len(Tail(s)) = m - 1
  BY <1>3, HeadTailProperties
<1>9. \A i \in 1 .. m - 1 : Tail(s)[i] = s[i + 1]
  BY <1>3, <1>8, HeadTailProperties
<1> HIDE DEF Wrong, Bad
<1>4. CASE m = 1
  <2>1. Tail(s) = <<>>
    <3>1. Tail(s) \in Seq(Seq(S)) /\ Len(Tail(s)) = 0
      BY <1>4, <1>8
    <3> QED BY <3>1, NoLength
  <2>2. FlattenSeq(s) = s[1]
    BY <1>3, <1>4, FlattenOne
  <2> QED BY <1>3, <1>8, <2>1, <2>2, FlattenEmpty, ConcatEmptySeq
<1>5. CASE m # 1
  <2> DEFINE p == SubSeq(s, 1, m - 1)
  <2>1. p \in Seq(Seq(S)) /\ Len(p) = m - 1 /\ \A i \in 1 .. m - 1 : p[i] = s[i]
    <3>1. \A i \in 1 .. m - 1 : s[i] \in Seq(S)
      BY <1>3
    <3>2. 1 \in Int /\ m - 1 \in Int /\ 1 <= m - 1
      BY <1>3, <1>5
    <3>3. /\ SubSeq(s, 1, m - 1) \in Seq(Seq(S))
          /\ Len(SubSeq(s, 1, m - 1)) = IF 1 <= m - 1 THEN m - 1 - 1 + 1 ELSE 0
          /\ \A i \in 1 .. m - 1 - 1 + 1 : SubSeq(s, 1, m - 1)[i] = s[1 + i - 1]
      BY <3>1, <3>2, SubSeqProperties, SMTT(60)
    <3> QED BY <1>3, <3>2, <3>3
  <2> HIDE DEF p
  <2>2. p # <<>> /\ m - 1 \in Nat \ {0}
    BY <1>3, <1>5, <2>1
  <2>3. ~Wrong(p)
    <3>1. m - 1 \notin Bad
      <4>1. m - 1 \in Bad => m <= m - 1
        BY <1>1
      <4> QED BY <1>3, <4>1
    <3> QED BY <2>1, <2>2, <3>1 DEF Bad
  <2>4. FlattenSeq(p) = Head(p) \o FlattenSeq(Tail(p))
    BY <2>2, <2>3 DEF Wrong
  <2>5. Head(p) = s[1] /\ Tail(p) \in Seq(Seq(S)) /\ Len(Tail(p)) = m - 2
        /\ \A i \in 1 .. m - 2 : Tail(p)[i] = Tail(s)[i]
    <3>1. Head(p) = p[1] /\ Tail(p) \in Seq(Seq(S)) /\ Len(Tail(p)) = Len(p) - 1
          /\ \A i \in 1 .. Len(Tail(p)) : Tail(p)[i] = p[i + 1]
      BY <2>1, <2>2, HeadTailProperties
    <3>2. Head(p) = s[1] /\ Len(Tail(p)) = m - 2
      BY <1>3, <2>1, <2>2, <3>1
    <3>3. ASSUME NEW i \in 1 .. m - 2 PROVE Tail(p)[i] = Tail(s)[i]
      <4>1. i \in 1 .. Len(Tail(p)) /\ i + 1 \in 1 .. m - 1 /\ i \in 1 .. m - 1
        BY <1>3, <3>2
      <4>2. Tail(p)[i] = p[i + 1] /\ p[i + 1] = s[i + 1]
        BY <2>1, <3>1, <4>1
      <4> QED BY <1>9, <4>1, <4>2
    <3> QED BY <3>1, <3>2, <3>3
  <2>6. FlattenSeq(s) = FlattenSeq(p) \o s[m]
    <3>1. Len(s) = Len(p) + 1 /\ \A i \in 1 .. Len(p) : s[i] = p[i]
      BY <1>3, <2>1
    <3> QED BY <1>3, <2>1, <3>1, FlattenStep
  <2>7. FlattenSeq(Tail(s)) = FlattenSeq(Tail(p)) \o s[m]
    <3>1. Len(Tail(s)) = Len(Tail(p)) + 1
      BY <1>3, <1>8, <2>5
    <3>2. \A i \in 1 .. Len(Tail(p)) : Tail(s)[i] = Tail(p)[i]
      BY <2>5
    <3>3. m - 1 \in 1 .. m - 1 /\ m - 1 + 1 = m
      BY <1>3, <1>5
    <3>4. Tail(s)[Len(Tail(s))] = s[m]
      BY <1>8, <1>9, <3>3
    <3>5. FlattenSeq(Tail(s)) = FlattenSeq(Tail(p)) \o Tail(s)[Len(Tail(s))]
      BY <1>8, <2>5, <3>1, <3>2, FlattenStep
    <3> QED BY <3>4, <3>5
  <2>8. FlattenSeq(Tail(p)) \in Seq(S) /\ s[1] \in Seq(S) /\ s[m] \in Seq(S)
    <3>1. FlattenSeq(Tail(p)) \in Seq(S)
      BY <2>5, FlattenType
    <3>2. s[m] \in Seq(S)
      BY <1>2, <1>3
    <3> QED BY <1>8, <3>1, <3>2
  <2>9. (s[1] \o FlattenSeq(Tail(p))) \o s[m] = s[1] \o (FlattenSeq(Tail(p)) \o s[m])
    <3>1. \A a, b, c \in Seq(S) : (a \o b) \o c = a \o (b \o c)
      BY Associative, SMTT(60)
    <3> QED BY <2>8, <3>1
  <2> QED BY <1>3, <1>8, <2>4, <2>5, <2>6, <2>7, <2>9
<1> QED BY <1>4, <1>5

-----------------------------------------------------------------------------
(* Numbers: printn() writes digits, in base 10 those of the number.        *)

\* What _kprintf() and the handlers print of their own; none is Fault.
Literals ==
  {"0", "1", "2", "3", "4", "5", "6", "7", "8", "9", "A", "B", "C", "D", "E", "F", "0x", "0o",
   "(null)", "Error: Not enough arguments", "Unknown format ", "l", "ticks = ", "kbd: ", "k",
   "#PF: CR2 = ", "\n"}

Chars == STRING \cup Literals

LEMMA LiteralsNoFault == \A c \in Literals : c # Fault
BY DEF Literals, Fault

LEMMA DigitsAre ==
  /\ digits[1] = "0" /\ digits[2] = "1" /\ digits[3] = "2" /\ digits[4] = "3" /\ digits[5] = "4"
  /\ digits[6] = "5" /\ digits[7] = "6" /\ digits[8] = "7" /\ digits[9] = "8" /\ digits[10] = "9"
  /\ digits[11] = "A" /\ digits[12] = "B" /\ digits[13] = "C" /\ digits[14] = "D"
  /\ digits[15] = "E" /\ digits[16] = "F"
BY DEF digits

LEMMA DigitsType ==
  ASSUME NEW k \in 1 .. 16
  PROVE  digits[k] \in Literals /\ digits[k] # Fault
<1> DEFINE Good(j) == digits[j] \in Literals /\ digits[j] # Fault
<1>1. k = 1 \/ k = 2 \/ k = 3 \/ k = 4 \/ k = 5 \/ k = 6 \/ k = 7 \/ k = 8 \/ k = 9 \/ k = 10
      \/ k = 11 \/ k = 12 \/ k = 13 \/ k = 14 \/ k = 15 \/ k = 16
  OBVIOUS
<1>2. Good(1) /\ Good(2) /\ Good(3) /\ Good(4)
  BY DigitsAre DEF Fault, Literals
<1>3. Good(5) /\ Good(6) /\ Good(7) /\ Good(8)
  BY DigitsAre DEF Fault, Literals
<1>4. Good(9) /\ Good(10) /\ Good(11) /\ Good(12)
  BY DigitsAre DEF Fault, Literals
<1>5. Good(13) /\ Good(14) /\ Good(15) /\ Good(16)
  BY DigitsAre DEF Fault, Literals
<1>6. Good(k)
  <2> HIDE DEF Good
  <2> QED BY <1>1, <1>2, <1>3, <1>4, <1>5
<1> QED BY <1>6

LEMMA DigitNotZero ==
  ASSUME NEW k \in 1 .. 15
  PROVE  digits[k + 1] # "0"
<1>1. k = 1 \/ k = 2 \/ k = 3 \/ k = 4 \/ k = 5 \/ k = 6 \/ k = 7 \/ k = 8 \/ k = 9 \/ k = 10
      \/ k = 11 \/ k = 12 \/ k = 13 \/ k = 14 \/ k = 15
  OBVIOUS
<1> QED BY <1>1, DigitsAre

LEMMA DigitsDiffer ==
  ASSUME NEW j \in 0 .. 9, NEW k \in 0 .. 9, digits[j + 1] = digits[k + 1]
  PROVE  j = k
<1> DEFINE Pos(c) == CASE c = "0" -> 0 [] c = "1" -> 1 [] c = "2" -> 2 [] c = "3" -> 3
                       [] c = "4" -> 4 [] c = "5" -> 5 [] c = "6" -> 6 [] c = "7" -> 7
                       [] c = "8" -> 8 [] c = "9" -> 9
<1>1. ASSUME NEW i \in 0 .. 9 PROVE Pos(digits[i + 1]) = i
  <2>1. i = 0 \/ i = 1 \/ i = 2 \/ i = 3 \/ i = 4 \/ i = 5 \/ i = 6 \/ i = 7 \/ i = 8 \/ i = 9
    OBVIOUS
  <2>2. CASE i = 0 BY <2>2, DigitsAre
  <2>3. CASE i = 1 BY <2>3, DigitsAre
  <2>4. CASE i = 2 BY <2>4, DigitsAre
  <2>5. CASE i = 3 BY <2>5, DigitsAre
  <2>6. CASE i = 4 BY <2>6, DigitsAre
  <2>7. CASE i = 5 BY <2>7, DigitsAre
  <2>8. CASE i = 6 BY <2>8, DigitsAre
  <2>9. CASE i = 7 BY <2>9, DigitsAre
  <2>10. CASE i = 8 BY <2>10, DigitsAre
  <2>11. CASE i = 9 BY <2>11, DigitsAre
  <2> QED BY <2>1, <2>2, <2>3, <2>4, <2>5, <2>6, <2>7, <2>8, <2>9, <2>10, <2>11
<1> HIDE DEF Pos
<1> QED BY <1>1

Bases == {8, 10, 16}

LEMMA Divided ==
  ASSUME NEW m \in Nat, NEW base \in Bases
  PROVE  /\ m \div base \in Nat /\ m \div base <= m /\ (m # 0 => m \div base < m)
         /\ m % base \in 0 .. base - 1 /\ m = base * (m \div base) + (m % base)
<1>1. /\ m \div 8 \in Nat /\ m \div 8 <= m /\ (m # 0 => m \div 8 < m)
      /\ m % 8 \in 0 .. 8 - 1 /\ m = 8 * (m \div 8) + (m % 8)
  OBVIOUS
<1>2. /\ m \div 10 \in Nat /\ m \div 10 <= m /\ (m # 0 => m \div 10 < m)
      /\ m % 10 \in 0 .. 10 - 1 /\ m = 10 * (m \div 10) + (m % 10)
  OBVIOUS
<1>3. /\ m \div 16 \in Nat /\ m \div 16 <= m /\ (m # 0 => m \div 16 < m)
      /\ m % 16 \in 0 .. 16 - 1 /\ m = 16 * (m \div 16) + (m % 16)
  OBVIOUS
<1>4. CASE base = 8 BY <1>1, <1>4
<1>5. CASE base = 10 BY <1>2, <1>5
<1>6. CASE base = 16 BY <1>3, <1>6
<1> QED BY <1>4, <1>5, <1>6 DEF Bases

\* What the recursive function of Number satisfies.
Prints(base, n, f) ==
  f = [m \in 0 .. n |->
         (IF m \div base # 0 THEN f[m \div base] ELSE <<>>) \o <<digits[(m % base) + 1]>>]

LEMMA PrintsExist ==
  ASSUME NEW base \in Bases, NEW n \in Nat
  PROVE  \E f : Prints(base, n, f)
<1> DEFINE Bad == {m \in Nat : ~ \E f : Prints(base, m, f)}
           Last_(m) == <<digits[(m % base) + 1]>>
<1> SUFFICES ASSUME Bad # {} PROVE FALSE
  OBVIOUS
<1>1. PICK m \in Bad : \A q \in Bad : m <= q
  BY LeastNatural
<1>2. m \in Nat /\ ~ \E f : Prints(base, m, f)
  BY <1>1
<1>3. m # 0
  <2> DEFINE z == [k \in 0 .. 0 |-> <<>> \o Last_(k)]
  <2>1. \A k \in 0 .. 0 : k \div base = 0
    BY Divided
  <2>2. z = [k \in 0 .. 0 |-> (IF k \div base # 0 THEN z[k \div base] ELSE <<>>) \o Last_(k)]
    BY <2>1
  <2>3. Prints(base, 0, z)
    BY <2>2 DEF Prints
  <2> QED BY <1>2, <2>3
<1>4. m - 1 \in Nat /\ m - 1 \notin Bad
  BY <1>1, <1>2, <1>3
<1>5. PICK f : Prints(base, m - 1, f)
  BY <1>4
<1> DEFINE r == [k \in 0 .. m |-> IF k = m
                                  THEN (IF k \div base # 0 THEN f[k \div base] ELSE <<>>) \o Last_(k)
                                  ELSE f[k]]
<1>6. f = [k \in 0 .. m - 1 |-> (IF k \div base # 0 THEN f[k \div base] ELSE <<>>) \o Last_(k)]
  BY <1>5 DEF Prints
<1>7. \A k \in 0 .. m - 1 : f[k] = (IF k \div base # 0 THEN f[k \div base] ELSE <<>>) \o Last_(k)
  BY <1>6
<1> HIDE DEF Last_
<1>8. ASSUME NEW k \in 0 .. m
      PROVE  r[k] = (IF k \div base # 0 THEN r[k \div base] ELSE <<>>) \o Last_(k)
  <2>1. k \div base # 0 => r[k \div base] = f[k \div base]
    <3>1. SUFFICES ASSUME k \div base # 0 PROVE r[k \div base] = f[k \div base]
      OBVIOUS
    <3>2. k \in Nat /\ k # 0
      <4>1. 0 \div base = 0
        BY Divided
      <4> QED BY <1>2, <3>1, <4>1
    <3>3. k \div base \in 0 .. m /\ k \div base # m
      BY <1>2, <3>2, Divided
    <3> QED BY <3>3
  <2>2. CASE k = m
    BY <1>2, <2>1, <2>2
  <2>3. CASE k # m
    <3>1. k \in 0 .. m - 1 /\ r[k] = f[k]
      BY <1>2, <2>3
    <3> QED BY <1>7, <2>1, <3>1
  <2> QED BY <2>2, <2>3
<1>9. r = [k \in 0 .. m |-> (IF k \div base # 0 THEN r[k \div base] ELSE <<>>) \o Last_(k)]
  BY <1>8
<1>10. Prints(base, m, r)
  BY <1>9 DEF Prints, Last_
<1> QED BY <1>2, <1>10

\* Number without its recursion.
LEMMA NumberIs ==
  ASSUME NEW base \in Bases, NEW n \in Nat
  PROVE  \E f : /\ Number(n, base) = f[n]
                /\ \A m \in 0 .. n : f[m] = (IF m \div base # 0 THEN f[m \div base] ELSE <<>>)
                                              \o <<digits[(m % base) + 1]>>
<1>1. \E f : Prints(base, n, f)
  BY PrintsExist
<1>2. \E f : Prints(base, n, f) /\ Number(n, base) = f[n]
  BY <1>1 DEF Prints, Number
<1>3. PICK f : Prints(base, n, f) /\ Number(n, base) = f[n]
  BY <1>2
<1>4. f = [m \in 0 .. n |->
             (IF m \div base # 0 THEN f[m \div base] ELSE <<>>) \o <<digits[(m % base) + 1]>>]
  BY <1>3 DEF Prints
<1>5. \A m \in 0 .. n : f[m] = (IF m \div base # 0 THEN f[m \div base] ELSE <<>>)
                                 \o <<digits[(m % base) + 1]>>
  BY <1>4
<1> QED BY <1>3, <1>5

DigitValue(c) == CHOOSE v \in 0 .. 9 : digits[v + 1] = c

LEMMA DigitValueIs ==
  ASSUME NEW k \in 0 .. 9
  PROVE  DigitValue(digits[k + 1]) = k
<1>1. \E v \in 0 .. 9 : digits[v + 1] = digits[k + 1]
  OBVIOUS
<1> DEFINE w == DigitValue(digits[k + 1])
<1>2. w \in 0 .. 9 /\ digits[w + 1] = digits[k + 1]
  BY <1>1 DEF DigitValue
<1> HIDE DEF w
<1> QED BY <1>2, DigitsDiffer DEF w

\* What the recursive function of Decimal satisfies, up to n.
Reads(d, n, f) ==
  f = [k \in 0 .. n |-> IF k = 0 THEN 0 ELSE 10 * f[k - 1] + DigitValue(d[k])]

LEMMA ReadsExist ==
  ASSUME NEW d, NEW n \in Nat
  PROVE  \E f : Reads(d, n, f)
<1> DEFINE Bad == {m \in Nat : ~ \E f : Reads(d, m, f)}
<1> SUFFICES ASSUME Bad # {} PROVE FALSE
  OBVIOUS
<1>1. PICK m \in Bad : \A q \in Bad : m <= q
  BY LeastNatural
<1>2. m \in Nat /\ ~ \E f : Reads(d, m, f)
  BY <1>1
<1>3. m # 0
  <2> DEFINE z == [k \in 0 .. 0 |-> 0]
  <2>1. Reads(d, 0, z)
    BY DEF Reads
  <2> QED BY <1>2, <2>1
<1>4. m - 1 \in Nat /\ m - 1 \notin Bad
  BY <1>1, <1>2, <1>3
<1>5. PICK f : Reads(d, m - 1, f)
  BY <1>4
<1> DEFINE r == [k \in 0 .. m |-> IF k = m THEN 10 * f[m - 1] + DigitValue(d[m]) ELSE f[k]]
<1>6. f = [k \in 0 .. m - 1 |-> IF k = 0 THEN 0 ELSE 10 * f[k - 1] + DigitValue(d[k])]
  BY <1>5 DEF Reads
<1>7. \A k \in 0 .. m - 1 : f[k] = IF k = 0 THEN 0 ELSE 10 * f[k - 1] + DigitValue(d[k])
  BY <1>6
<1>8. ASSUME NEW k \in 0 .. m
      PROVE  r[k] = IF k = 0 THEN 0 ELSE 10 * r[k - 1] + DigitValue(d[k])
  <2>1. CASE k = m
    <3>1. m - 1 \in 0 .. m /\ m - 1 # m
      BY <1>2, <1>3
    <3>2. r[m - 1] = f[m - 1]
      BY <3>1
    <3> QED BY <1>3, <2>1, <3>2
  <2>2. CASE k # m
    <3>1. k \in 0 .. m - 1 /\ r[k] = f[k]
      BY <1>2, <2>2
    <3>2. CASE k = 0
      BY <1>7, <3>1, <3>2
    <3>3. CASE k # 0
      <4>1. k - 1 \in 0 .. m /\ k - 1 # m
        BY <1>2, <3>1, <3>3
      <4>2. r[k - 1] = f[k - 1]
        BY <4>1
      <4> QED BY <1>7, <3>1, <3>3, <4>2
    <3> QED BY <3>2, <3>3
  <2> QED BY <2>1, <2>2
<1>9. r = [k \in 0 .. m |-> IF k = 0 THEN 0 ELSE 10 * r[k - 1] + DigitValue(d[k])]
  BY <1>8
<1> QED BY <1>2, <1>9 DEF Reads

\* Decimal without its recursion.
LEMMA DecimalIs ==
  ASSUME NEW S, NEW d \in Seq(S)
  PROVE  \E f : /\ Decimal(d) = f[Len(d)]
                /\ f[0] = 0
                /\ \A k \in 1 .. Len(d) : f[k] = 10 * f[k - 1] + DigitValue(d[k])
<1>0. Len(d) \in Nat
  OBVIOUS
<1>1. \E f : Reads(d, Len(d), f)
  BY <1>0, ReadsExist
<1>2. \E f : Reads(d, Len(d), f) /\ Decimal(d) = f[Len(d)]
  BY <1>1 DEF Reads, Decimal, DigitValue
<1>3. PICK f : Reads(d, Len(d), f) /\ Decimal(d) = f[Len(d)]
  BY <1>2
<1>4. f = [k \in 0 .. Len(d) |-> IF k = 0 THEN 0 ELSE 10 * f[k - 1] + DigitValue(d[k])]
  BY <1>3 DEF Reads
<1>5. \A k \in 0 .. Len(d) : f[k] = IF k = 0 THEN 0 ELSE 10 * f[k - 1] + DigitValue(d[k])
  BY <1>4
<1>6. f[0] = 0
  BY <1>0, <1>5
<1>7. ASSUME NEW k \in 1 .. Len(d) PROVE f[k] = 10 * f[k - 1] + DigitValue(d[k])
  <2>1. k \in 0 .. Len(d) /\ k # 0
    BY <1>0
  <2> QED BY <1>5, <2>1
<1> QED BY <1>3, <1>6, <1>7

LEMMA DecimalEmpty == Decimal(<<>>) = 0
<1>1. <<>> \in Seq({}) /\ Len(<<>>) = 0
  BY EmptySeq
<1>2. PICK f : Decimal(<<>>) = f[Len(<<>>)] /\ f[0] = 0
  BY <1>1, DecimalIs
<1> QED BY <1>1, <1>2

\* One more digit.
LEMMA DecimalStep ==
  ASSUME NEW S, NEW d \in Seq(S), NEW c \in S
  PROVE  Decimal(d \o <<c>>) = 10 * Decimal(d) + DigitValue(c)
<1> DEFINE e == d \o <<c>>
<1>1. e \in Seq(S) /\ Len(e) = Len(d) + 1 /\ e[Len(d) + 1] = c
      /\ \A k \in 1 .. Len(d) : e[k] = d[k]
  OBVIOUS
<1> HIDE DEF e
<1>0. Len(d) \in Nat
  OBVIOUS
<1>2. PICK f : /\ Decimal(d) = f[Len(d)]
               /\ f[0] = 0
               /\ \A k \in 1 .. Len(d) : f[k] = 10 * f[k - 1] + DigitValue(d[k])
  BY DecimalIs
<1>3. PICK g : /\ Decimal(e) = g[Len(e)]
               /\ g[0] = 0
               /\ \A k \in 1 .. Len(e) : g[k] = 10 * g[k - 1] + DigitValue(e[k])
  BY <1>1, DecimalIs
<1> DEFINE Bad == {k \in 0 .. Len(d) : f[k] # g[k]}
<1>4. ASSUME Bad # {} PROVE FALSE
  <2>1. PICK m \in Bad : \A q \in Bad : m <= q
    <3>1. Bad \in SUBSET Nat
      OBVIOUS
    <3> QED BY <1>4, <3>1, LeastNatural
  <2>2. m \in 0 .. Len(d) /\ f[m] # g[m]
    BY <2>1
  <2>3. m # 0
    BY <1>2, <1>3, <2>2
  <2>4. m \in 1 .. Len(d) /\ m \in 1 .. Len(e) /\ m - 1 \in 0 .. Len(d) /\ m - 1 \notin Bad
    BY <1>1, <2>1, <2>2, <2>3
  <2>5. f[m - 1] = g[m - 1] /\ e[m] = d[m]
    BY <1>1, <2>4
  <2> QED BY <1>2, <1>3, <2>2, <2>4, <2>5
<1>5. f[Len(d)] = g[Len(d)]
  BY <1>0, <1>4
<1>6. Len(e) \in 1 .. Len(e) /\ Len(e) - 1 = Len(d)
  BY <1>0, <1>1
<1>7. g[Len(e)] = 10 * g[Len(e) - 1] + DigitValue(e[Len(e)])
  BY <1>3, <1>6
<1> QED BY <1>1, <1>2, <1>3, <1>5, <1>6, <1>7 DEF e

\* What printn() writes of n: digits, no leading zero, in base 10 the value n.
LEMMA NumberReads ==
  ASSUME NEW base \in Bases, NEW n \in Nat
  PROVE  /\ Number(n, base) \in Seq(Literals)
         /\ Len(Number(n, base)) > 0
         /\ n # 0 => Number(n, base)[1] # "0"
         /\ base = 10 => Decimal(Number(n, base)) = n
<1>1. PICK f : /\ Number(n, base) = f[n]
               /\ \A m \in 0 .. n : f[m] = (IF m \div base # 0 THEN f[m \div base] ELSE <<>>)
                                              \o <<digits[(m % base) + 1]>>
  BY NumberIs
<1> DEFINE Good(m) == /\ f[m] \in Seq(Literals)
                      /\ Len(f[m]) > 0
                      /\ m # 0 => f[m][1] # "0"
                      /\ base = 10 => Decimal(f[m]) = m
           Bad == {m \in 0 .. n : ~Good(m)}
<1>2. ASSUME Bad # {} PROVE FALSE
  <2>1. PICK m \in Bad : \A q \in Bad : m <= q
    <3>1. Bad \in SUBSET Nat
      OBVIOUS
    <3> HIDE DEF Bad
    <3> QED BY <1>2, <3>1, LeastNatural
  <2>2. m \in 0 .. n /\ m \in Nat /\ ~Good(m)
    BY <2>1
  <2> DEFINE c == digits[(m % base) + 1]
             q == m \div base
             u == IF q # 0 THEN f[q] ELSE <<>>
  <2>3. /\ q \in Nat /\ q <= m /\ (m # 0 => q < m)
        /\ m % base \in 0 .. base - 1 /\ m = base * q + (m % base)
    BY <2>2, Divided
  <2>4. c \in Literals
    <3>1. (m % base) + 1 \in 1 .. 16
      BY <2>3 DEF Bases
    <3> QED BY <3>1, DigitsType
  <2>5. f[m] = u \o <<c>>
    BY <1>1, <2>2
  <2>6. q # 0 => Good(q)
    <3>1. SUFFICES ASSUME q # 0 PROVE Good(q)
      OBVIOUS
    <3>2. q < m
      <4> HIDE DEF q
      <4> QED BY <2>2, <2>3, <3>1
    <3>3. q \in 0 .. n
      BY <2>2, <2>3
    <3>4. q \notin Bad
      <4>1. q \in Bad => m <= q
        BY <2>1
      <4> HIDE DEF Bad, q
      <4> QED BY <2>2, <2>3, <3>2, <4>1
    <3> HIDE DEF q, Good
    <3> QED BY <3>3, <3>4
  <2>7. base = 10 => DigitValue(c) = m % base
    <3>1. SUFFICES ASSUME base = 10 PROVE DigitValue(digits[(m % base) + 1]) = m % base
      OBVIOUS
    <3>2. m % base \in 0 .. 9
      BY <2>3, <3>1
    <3> QED BY <3>2, DigitValueIs
  <2>8. q = 0 /\ m # 0 => c # "0"
    <3>1. SUFFICES ASSUME q = 0, m # 0 PROVE digits[(m % base) + 1] # "0"
      OBVIOUS
    <3>2. m % base \in 1 .. 15
      BY <2>3, <3>1 DEF Bases
    <3> QED BY <3>2, DigitNotZero
  <2> HIDE DEF c
  <2>9. CASE q = 0
    <3>1. f[m] = <<c>>
      <4>0. u = <<>>
        BY <2>9
      <4>1. <<c>> \in Seq(Literals) /\ f[m] = <<>> \o <<c>>
        <5> HIDE DEF u
        <5>1. f[m] = <<>> \o <<c>>
          BY <2>5, <4>0
        <5>2. <<c>> \in Seq(Literals)
          BY <2>4
        <5> QED BY <5>1, <5>2
      <4>2. <<>> \o <<c>> = <<c>>
        BY <4>1, ConcatEmptySeq
      <4> QED BY <4>1, <4>2
    <3>2. base = 10 => Decimal(f[m]) = m
      <4>1. SUFFICES ASSUME base = 10 PROVE Decimal(f[m]) = m
        OBVIOUS
      <4>2. Decimal(<<>> \o <<c>>) = 10 * Decimal(<<>>) + DigitValue(c)
        BY <2>4, EmptySeq, DecimalStep
      <4>3. Decimal(f[m]) = 10 * 0 + DigitValue(c)
        BY <2>5, <2>9, <4>2, DecimalEmpty
      <4> QED BY <2>2, <2>3, <2>7, <2>9, <4>1, <4>3
    <3>3. f[m] \in Seq(Literals) /\ Len(f[m]) > 0 /\ f[m][1] = c
      BY <2>4, <3>1
    <3> QED BY <2>2, <2>8, <2>9, <3>2, <3>3
  <2>10. CASE q # 0
    <3>1. f[m] = f[q] \o <<c>> /\ Good(q)
      BY <2>5, <2>6, <2>10
    <3>2. base = 10 => Decimal(f[m]) = m
      <4>1. SUFFICES ASSUME base = 10 PROVE Decimal(f[m]) = m
        OBVIOUS
      <4>2. Decimal(f[m]) = 10 * Decimal(f[q]) + DigitValue(c)
        BY <2>4, <3>1, DecimalStep
      <4>3. Decimal(f[q]) = q
        BY <3>1, <4>1
      <4> HIDE DEF q
      <4> QED BY <2>2, <2>3, <2>7, <4>1, <4>2, <4>3
    <3>3. f[m] \in Seq(Literals) /\ Len(f[m]) > 0 /\ f[m][1] = f[q][1]
      <4>1. f[q] \in Seq(Literals) /\ Len(f[q]) > 0
        BY <3>1
      <4> HIDE DEF q
      <4> QED BY <2>4, <3>1, <4>1
    <3>4. f[q][1] # "0"
      BY <2>10, <3>1
    <3> QED BY <2>2, <3>2, <3>3, <3>4
  <2> QED BY <2>9, <2>10
<1>3. n \in 0 .. n
  OBVIOUS
<1>4. Good(n)
  <2> HIDE DEF Good
  <2> QED BY <1>2, <1>3
<1> QED BY <1>1, <1>4

-----------------------------------------------------------------------------
(* Texts: what a call prints, and the lines of the handlers.               *)

Arguments == [n : Nat, s : Seq(STRING)]

LEMMA LiteralsAreChars ==
  ASSUME NEW t \in Seq(Literals)
  PROVE  t \in Seq(Chars)
BY DEF Chars

LEMMA StringsAreChars ==
  ASSUME NEW t \in Seq(STRING)
  PROVE  t \in Seq(Chars)
BY DEF Chars

LEMMA LiteralText ==
  /\ \A c \in Literals : <<c>> \in Seq(Literals)
  /\ <<"0x">> \in Seq(Literals) /\ <<"0o">> \in Seq(Literals) /\ <<"(null)">> \in Seq(Literals)
  /\ <<"Error: Not enough arguments">> \in Seq(Literals)
  /\ <<"Unknown format ", "l">> \in Seq(Literals)
<1>1. /\ "0x" \in Literals /\ "0o" \in Literals /\ "(null)" \in Literals
      /\ "Error: Not enough arguments" \in Literals /\ "Unknown format " \in Literals
      /\ "l" \in Literals
  BY DEF Literals
<1>2. \A c \in Literals : <<c>> \in Seq(Literals)
  OBVIOUS
<1>3. <<"Unknown format ", "l">> \in Seq(Literals)
  <2>1. \A c, d \in Literals : <<c, d>> \in Seq(Literals)
    OBVIOUS
  <2> QED BY <1>1, <2>1
<1> QED BY <1>1, <1>2, <1>3

LEMMA ConvertedType ==
  ASSUME NEW c \in Conversions, NEW a \in Arguments
  PROVE  Converted(c, a) \in Seq(Chars)
<1>1. a.n \in Nat /\ a.s \in Seq(Chars)
  BY StringsAreChars DEF Arguments
<1>2. \A b \in Bases : Number(a.n, b) \in Seq(Literals)
  BY <1>1, NumberReads
<1>3. /\ Number(a.n, 8) \in Seq(Literals) /\ Number(a.n, 10) \in Seq(Literals)
      /\ Number(a.n, 16) \in Seq(Literals)
  BY <1>2 DEF Bases
<1>4. /\ <<"0x">> \o Number(a.n, 16) \in Seq(Literals)
      /\ <<"0o">> \o Number(a.n, 8) \in Seq(Literals)
  BY <1>3, LiteralText, ConcatProperties
<1>5. /\ Number(a.n, 10) \in Seq(Chars) /\ Number(a.n, 16) \in Seq(Chars)
      /\ <<"0x">> \o Number(a.n, 16) \in Seq(Chars) /\ <<"0o">> \o Number(a.n, 8) \in Seq(Chars)
      /\ <<"(null)">> \in Seq(Chars)
  BY <1>3, <1>4, LiteralText, LiteralsAreChars
<1>6. CASE c = "%d"
  BY <1>5, <1>6 DEF Converted
<1>7. CASE c \in {"%x", "%p"}
  <2>1. c # "%d"
    BY <1>7
  <2> QED BY <1>5, <1>7, <2>1 DEF Converted
<1>8. CASE c = "%o"
  BY <1>5, <1>8 DEF Converted
<1>9. CASE c = "%c"
  BY <1>1, <1>9 DEF Converted
<1>10. CASE c = "%s"
  BY <1>1, <1>5, <1>10 DEF Converted
<1>11. CASE c = "%X"
  BY <1>5, <1>11 DEF Converted
<1> QED BY <1>6, <1>7, <1>8, <1>9, <1>10, <1>11 DEF Conversions

LEMMA ArgIndexType ==
  ASSUME NEW call, NEW k \in Nat
  PROVE  arg_index(call, k) \in Nat
<1> DEFINE T == {j \in 1 .. k - 1 : call.fmt[j] \in Conversions}
<1>1. IsFiniteSet(1 .. k - 1) /\ T \subseteq 1 .. k - 1
  BY FS_Interval
<1>2. IsFiniteSet(T)
  BY <1>1, FS_Subset
<1> QED BY <1>2, FS_CardinalityType DEF arg_index

LEMMA PutType ==
  ASSUME NEW call \in Calls, NEW k \in 1 .. Len(call.fmt)
  PROVE  Put(call, k) \in Seq(Chars)
<1>1. /\ call.fmt \in Seq(STRING) /\ call.args \in Seq(Arguments) /\ call.fmt[k] \in STRING
      /\ Len(call.args) \in Nat
  BY DEF Calls, Arguments
<1>2. arg_index(call, k) \in Nat
  BY ArgIndexType
<1>3. CASE call.fmt[k] \notin Conversions \cup Unknown
  <2>1. Put(call, k) = <<call.fmt[k]>>
    BY <1>3 DEF Put
  <2> QED BY <1>1, <2>1 DEF Chars
<1>4. CASE call.fmt[k] \in Conversions \cup Unknown
  <2>1. CASE arg_index(call, k) >= Len(call.args)
    <3>1. Put(call, k) = <<"Error: Not enough arguments">>
      BY <1>4, <2>1 DEF Put
    <3> QED BY <3>1, LiteralText, LiteralsAreChars
  <2>2. CASE ~ (arg_index(call, k) >= Len(call.args)) /\ call.fmt[k] \in Unknown
    <3>1. Put(call, k) = <<"Unknown format ", "l">>
      BY <1>4, <2>2 DEF Put
    <3> QED BY <3>1, LiteralText, LiteralsAreChars
  <2>3. CASE ~ (arg_index(call, k) >= Len(call.args)) /\ call.fmt[k] \notin Unknown
    <3>1. arg_index(call, k) + 1 \in 1 .. Len(call.args)
      BY <1>1, <1>2, <2>3
    <3>2. call.args[arg_index(call, k) + 1] \in Arguments
      BY <1>1, <3>1
    <3>3. Put(call, k) = Converted(call.fmt[k], call.args[arg_index(call, k) + 1])
      BY <1>4, <2>3 DEF Put
    <3> QED BY <1>4, <2>3, <3>2, <3>3, ConvertedType
  <2> QED BY <2>1, <2>2, <2>3
<1> QED BY <1>3, <1>4

LEMMA KprintfType ==
  ASSUME NEW call \in Calls
  PROVE  _kprintf(call) \in Seq(Chars)
<1> DEFINE N == Cardinality(Reached(call))
           ss == [k \in 1 .. N |-> Put(call, k)]
<1>1. Len(call.fmt) \in Nat
  BY DEF Calls
<1>2. IsFiniteSet(1 .. Len(call.fmt)) /\ Reached(call) \subseteq 1 .. Len(call.fmt)
      /\ Cardinality(1 .. Len(call.fmt)) = Len(call.fmt)
  BY <1>1, FS_Interval DEF Reached
<1>3. IsFiniteSet(Reached(call)) /\ N <= Len(call.fmt)
  BY <1>2, FS_Subset
<1>4. N \in Nat
  BY <1>3, FS_CardinalityType
<1> HIDE DEF N
<1>5. \A k \in 1 .. N : Put(call, k) \in Seq(Chars)
  BY <1>1, <1>3, <1>4, PutType
<1>6. ss \in Seq(Seq(Chars))
  BY <1>4, <1>5, IsASeq
<1> HIDE DEF ss
<1>7. FlattenSeq(ss) \in Seq(Chars)
  BY <1>6, FlattenType
<1> QED BY <1>7 DEF _kprintf, ss, N

LEMMA TextType ==
  ASSUME NEW calls \in Seq(Calls)
  PROVE  Text(calls) \in Seq(Chars)
<1> DEFINE ss == [k \in 1 .. Len(calls) |-> _kprintf(calls[k])]
<1>1. Len(calls) \in Nat /\ \A k \in 1 .. Len(calls) : _kprintf(calls[k]) \in Seq(Chars)
  BY KprintfType
<1>2. ss \in Seq(Seq(Chars))
  BY <1>1, IsASeq
<1> HIDE DEF ss
<1>3. FlattenSeq(ss) \in Seq(Chars)
  BY <1>2, FlattenType
<1> QED BY <1>3 DEF Text, ss

LEMMA FlattenThree ==
  ASSUME NEW S, NEW ss \in Seq(Seq(S)), Len(ss) = 3
  PROVE  FlattenSeq(ss) = (ss[1] \o ss[2]) \o ss[3]
<1>1. ss # <<>>
  OBVIOUS
<1>2. PICK f : /\ FlattenSeq(ss) = f[Len(ss)]
               /\ f[1] = ss[1]
               /\ \A i \in 2 .. Len(ss) : f[i] = f[i - 1] \o ss[i]
               /\ \A i \in 1 .. Len(ss) : f[i] \in Seq(S)
  BY <1>1, FlattenIs
<1>3. 2 \in 2 .. Len(ss) /\ 3 \in 2 .. Len(ss) /\ 2 - 1 = 1 /\ 3 - 1 = 2
  OBVIOUS
<1>4. f[2] = f[1] \o ss[2]
  BY <1>2, <1>3
<1>5. f[3] = f[2] \o ss[3]
  BY <1>2, <1>3
<1> QED BY <1>2, <1>4, <1>5

\* A handler prints words around one conversion.
LEMMA LineIs ==
  ASSUME NEW a \in Literals, NEW c \in Conversions, NEW z \in Literals,
         a \notin Conversions \cup Unknown, z \notin Conversions \cup Unknown,
         NEW v, Converted(c, v) \in Seq(Literals)
  PROVE  _kprintf([fmt |-> <<a, c, z>>, args |-> <<v>>]) = (<<a>> \o Converted(c, v)) \o <<z>>
<1> DEFINE call == [fmt |-> <<a, c, z>>, args |-> <<v>>]
<1>1. /\ Len(call.fmt) = 3 /\ call.fmt[1] = a /\ call.fmt[2] = c /\ call.fmt[3] = z
      /\ Len(call.args) = 1 /\ call.args[1] = v
  OBVIOUS
<1> HIDE DEF call
<1>2. arg_index(call, 2) = 0
  <2>1. \A j \in 1 .. 2 - 1 : j = 1
    OBVIOUS
  <2>2. {j \in 1 .. 2 - 1 : call.fmt[j] \in Conversions} = {}
    BY <1>1, <2>1
  <2> QED BY <2>2, FS_EmptySet DEF arg_index
<1>3. c \notin Unknown
  BY DEF Conversions, Unknown
<1>4. ~Returns(call, 1) /\ ~Returns(call, 2)
  <2>1. ~Returns(call, 1)
    BY <1>1 DEF Returns
  <2>2. ~Returns(call, 2)
    BY <1>1, <1>2, <1>3 DEF Returns
  <2> QED BY <2>1, <2>2
<1>5. Reached(call) = 1 .. 3
  <2>1. ASSUME NEW k \in 1 .. 3, NEW j \in 1 .. k - 1 PROVE ~Returns(call, j)
    <3>1. j = 1 \/ j = 2
      OBVIOUS
    <3> QED BY <1>4, <3>1
  <2> QED BY <1>1, <2>1 DEF Reached
<1>6. Cardinality(Reached(call)) = 3
  <2>1. PICK p \in Int, q \in Int : p = 1 /\ q = 3
    OBVIOUS
  <2>2. Cardinality(p .. q) = IF p > q THEN 0 ELSE q - p + 1
    BY FS_Interval
  <2>3. Cardinality(p .. q) = 3 /\ Reached(call) = p .. q
    BY <1>5, <2>1, <2>2
  <2> QED BY <2>3
<1>7. Put(call, 1) = <<a>> /\ Put(call, 3) = <<z>>
  BY <1>1 DEF Put
<1>8. Put(call, 2) = Converted(c, v)
  <2>1. ~ (arg_index(call, 2) >= Len(call.args)) /\ arg_index(call, 2) + 1 = 1
    BY <1>1, <1>2
  <2>2. call.fmt[2] \in Conversions \cup Unknown /\ call.fmt[2] \notin Unknown
    BY <1>1, <1>3
  <2>3. Put(call, 2) = Converted(call.fmt[2], call.args[arg_index(call, 2) + 1])
    BY <2>1, <2>2 DEF Put
  <2> QED BY <1>1, <2>1, <2>3
<1> DEFINE ss == [k \in 1 .. 3 |-> Put(call, k)]
<1>9. ss[1] = <<a>> /\ ss[2] = Converted(c, v) /\ ss[3] = <<z>>
  BY <1>7, <1>8
<1>10. \A k \in 1 .. 3 : Put(call, k) \in Seq(Literals)
  <2>1. \A k \in 1 .. 3 : k = 1 \/ k = 2 \/ k = 3
    OBVIOUS
  <2>2. <<a>> \in Seq(Literals) /\ <<z>> \in Seq(Literals)
    BY LiteralText
  <2> QED BY <1>7, <1>8, <2>1, <2>2
<1>11. ss \in Seq(Seq(Literals)) /\ Len(ss) = 3
  <2>1. ss \in Seq(Seq(Literals))
    BY <1>10, IsASeq
  <2> QED BY <2>1
<1> HIDE DEF ss
<1>12. FlattenSeq(ss) = (ss[1] \o ss[2]) \o ss[3]
  BY <1>11, FlattenThree
<1>13. _kprintf(call) = FlattenSeq(ss)
  BY <1>6 DEF _kprintf, ss
<1> QED BY <1>9, <1>12, <1>13 DEF call

LEMMA TickLineIs ==
  ASSUME NEW t \in Nat
  PROVE  TickLine(t) = (<<"ticks = ">> \o Number(t, 10)) \o <<"\n">> /\ TickLine(t) \in Seq(Literals)
<1>1. "ticks = " \in Literals /\ "\n" \in Literals /\ "%d" \in Conversions
  BY DEF Literals, Conversions
<1>2. "ticks = " \notin Conversions \cup Unknown /\ "\n" \notin Conversions \cup Unknown
  BY DEF Conversions, Unknown
<1>3. Converted("%d", Arg(t, Null)) = Number(t, 10)
  BY DEF Converted, Arg
<1>4. Number(t, 10) \in Seq(Literals)
  BY NumberReads DEF Bases
<1>5. TickLine(t) = (<<"ticks = ">> \o Number(t, 10)) \o <<"\n">>
  <2>1. Converted("%d", Arg(t, Null)) \in Seq(Literals)
    BY <1>3, <1>4
  <2>2. _kprintf([fmt |-> <<"ticks = ", "%d", "\n">>, args |-> <<Arg(t, Null)>>])
          = (<<"ticks = ">> \o Converted("%d", Arg(t, Null))) \o <<"\n">>
    BY <1>1, <1>2, <2>1, LineIs, ZenonT(60)
  <2> QED BY <1>3, <2>2, Zenon DEF TickLine
<1>6. <<"ticks = ">> \in Seq(Literals) /\ <<"\n">> \in Seq(Literals)
  BY <1>1, LiteralText
<1>7. \A p, q \in Seq(Literals) : p \o q \in Seq(Literals)
  BY ConcatProperties, ZenonT(60)
<1>8. (<<"ticks = ">> \o Number(t, 10)) \o <<"\n">> \in Seq(Literals)
  BY <1>4, <1>6, <1>7, ZenonT(60)
<1> QED BY <1>5, <1>8, Zenon

LEMMA KbdLineIs == KbdLine \in Seq(Literals)
<1>1. "kbd: " \in Literals /\ "\n" \in Literals /\ "k" \in Literals /\ "%c" \in Conversions
  BY DEF Literals, Conversions
<1>2. "kbd: " \notin Conversions \cup Unknown /\ "\n" \notin Conversions \cup Unknown
  BY DEF Conversions, Unknown
<1>3. Converted("%c", Arg(0, <<"k">>)) = <<"k">>
  BY DEF Converted, Arg
<1>4. <<"k">> \in Seq(Literals) /\ <<"kbd: ">> \in Seq(Literals) /\ <<"\n">> \in Seq(Literals)
  BY <1>1, LiteralText
<1>5. KbdLine = (<<"kbd: ">> \o <<"k">>) \o <<"\n">>
  <2>1. Converted("%c", Arg(0, <<"k">>)) \in Seq(Literals)
    BY <1>3, <1>4
  <2>2. _kprintf([fmt |-> <<"kbd: ", "%c", "\n">>, args |-> <<Arg(0, <<"k">>)>>])
          = (<<"kbd: ">> \o Converted("%c", Arg(0, <<"k">>))) \o <<"\n">>
    BY <1>1, <1>2, <2>1, LineIs, ZenonT(60)
  <2> QED BY <1>3, <2>2, Zenon DEF KbdLine
<1>6. \A p, q \in Seq(Literals) : p \o q \in Seq(Literals)
  BY ConcatProperties, ZenonT(60)
<1>7. (<<"kbd: ">> \o <<"k">>) \o <<"\n">> \in Seq(Literals)
  BY <1>4, <1>6, ZenonT(60)
<1> QED BY <1>5, <1>7, Zenon

LEMMA PFLineIs == PFLine \in Seq(Literals)
<1>1. "#PF: CR2 = " \in Literals /\ "\n" \in Literals /\ "0x" \in Literals /\ "%x" \in Conversions
  BY DEF Literals, Conversions
<1>2. "#PF: CR2 = " \notin Conversions \cup Unknown /\ "\n" \notin Conversions \cup Unknown
  BY DEF Conversions, Unknown
<1>3. Converted("%x", Arg(11, Null)) = <<"0x">> \o Number(11, 16)
  BY DEF Converted, Arg
<1>4. Number(11, 16) \in Seq(Literals)
  BY NumberReads DEF Bases
<1>5. /\ <<"0x">> \in Seq(Literals) /\ <<"#PF: CR2 = ">> \in Seq(Literals)
      /\ <<"\n">> \in Seq(Literals)
  BY <1>1, LiteralText
<1>6. <<"0x">> \o Number(11, 16) \in Seq(Literals)
  BY <1>4, <1>5, ConcatProperties
<1>7. PFLine = (<<"#PF: CR2 = ">> \o (<<"0x">> \o Number(11, 16))) \o <<"\n">>
  <2>1. Converted("%x", Arg(11, Null)) \in Seq(Literals)
    BY <1>3, <1>6
  <2>2. _kprintf([fmt |-> <<"#PF: CR2 = ", "%x", "\n">>, args |-> <<Arg(11, Null)>>])
          = (<<"#PF: CR2 = ">> \o Converted("%x", Arg(11, Null))) \o <<"\n">>
    BY <1>1, <1>2, <2>1, LineIs, ZenonT(60)
  <2> QED BY <1>3, <2>2, Zenon DEF PFLine
<1>8. \A p, q \in Seq(Literals) : p \o q \in Seq(Literals)
  BY ConcatProperties, ZenonT(60)
<1>9. (<<"#PF: CR2 = ">> \o (<<"0x">> \o Number(11, 16))) \o <<"\n">> \in Seq(Literals)
  BY <1>5, <1>6, <1>8, ZenonT(60)
<1> QED BY <1>7, <1>9, Zenon

\* A line of the timer reads as the tick count.
LEMMA TickLineReads ==
  ASSUME NEW t \in Nat \ {0}
  PROVE  LET d == SubSeq(TickLine(t), 2, Len(TickLine(t)) - 1)
         IN d[1] # "0" /\ Decimal(d) = t
<1> DEFINE n == Number(t, 10)
           x == TickLine(t)
<1>1. n \in Seq(Literals) /\ Len(n) > 0 /\ n[1] # "0" /\ Decimal(n) = t
  BY NumberReads DEF Bases
<1>2. x \in Seq(Literals) /\ \E a, z \in Literals : x = (<<a>> \o n) \o <<z>>
  <2>1. "ticks = " \in Literals /\ "\n" \in Literals
    BY DEF Literals
  <2> QED BY <2>1, TickLineIs, Zenon
<1> HIDE DEF n, x
<1>3. Len(x) = Len(n) + 2 /\ \A i \in 1 .. Len(n) : x[i + 1] = n[i]
  <2>1. PICK a \in Literals, z \in Literals : x = (<<a>> \o n) \o <<z>>
    BY <1>2
  <2> DEFINE y == <<a>> \o n
  <2>2. y \in Seq(Literals) /\ Len(y) = Len(n) + 1 /\ \A i \in 1 .. Len(n) : y[i + 1] = n[i]
    BY <1>1
  <2>3. x = y \o <<z>>
    BY <2>1
  <2> HIDE DEF y
  <2> QED BY <1>1, <2>2, <2>3
<1>4. SubSeq(x, 2, Len(x) - 1) = n
  <2> DEFINE d == SubSeq(x, 2, Len(x) - 1)
  <2>1. \A i \in 2 .. Len(x) - 1 : x[i] \in Literals
    BY <1>2
  <2>2. 2 \in Int /\ Len(x) - 1 \in Int
    BY <1>2
  <2>3. d \in Seq(Literals) /\ Len(d) = (IF 2 <= Len(x) - 1 THEN Len(x) - 1 - 2 + 1 ELSE 0)
        /\ \A i \in 1 .. Len(x) - 1 - 2 + 1 : d[i] = x[2 + i - 1]
    BY <2>1, <2>2, SubSeqProperties, SMTT(60)
  <2> HIDE DEF d
  <2>4. Len(n) \in Nat
    BY <1>1
  <2>5. Len(d) = Len(n) /\ \A i \in 1 .. Len(n) : d[i] = n[i]
    BY <1>1, <1>3, <2>3, <2>4
  <2>6. d = n
    BY <1>1, <2>3, <2>5
  <2> QED BY <2>6 DEF d
<1> QED BY <1>1, <1>4 DEF n, x

-----------------------------------------------------------------------------
(* What is left of a text without the marks of a fault, and what of the    *)
(* characters on the line is a message's.                                  *)

Entries == [msg : Nat, ch : Chars]

CharsIn(A, id) ==
  FlattenSeq([k \in 1 .. Len(A) |-> IF A[k].msg = id THEN <<A[k].ch>> ELSE <<>>])

LEMMA CharsOfIs == \A id : CharsOf(id) = CharsIn(Accepted, id)
BY DEF CharsOf, CharsIn

LEMMA NoFaultEmpty == NoFault(<<>>) = <<>>
<1> DEFINE ss == [k \in 1 .. Len(<<>>) |-> IF <<>>[k] = Fault THEN <<>> ELSE <<<<>>[k]>>]
<1>1. ss = <<>>
  OBVIOUS
<1> HIDE DEF ss
<1>2. FlattenSeq(ss) = <<>>
  BY <1>1, FlattenEmpty
<1> QED BY <1>2 DEF NoFault, ss

Unfaulted(c) == IF c = Fault THEN <<>> ELSE <<c>>

LEMMA NoFaultHead ==
  ASSUME NEW t \in Seq(Chars), t # <<>>
  PROVE  /\ NoFault(t) \in Seq(Chars) /\ NoFault(Tail(t)) \in Seq(Chars)
         /\ NoFault(t) = Unfaulted(Head(t)) \o NoFault(Tail(t))
<1> DEFINE ss == [k \in 1 .. Len(t) |-> Unfaulted(t[k])]
           rr == [k \in 1 .. Len(Tail(t)) |-> Unfaulted(Tail(t)[k])]
<1>1. /\ Len(t) \in Nat \ {0} /\ Tail(t) \in Seq(Chars) /\ Len(Tail(t)) = Len(t) - 1
      /\ Head(t) = t[1]
      /\ \A k \in 1 .. Len(t) - 1 : Tail(t)[k] = t[k + 1]
  BY HeadTailProperties
<1>2. \A c \in Chars : Unfaulted(c) \in Seq(Chars)
  BY DEF Unfaulted
<1>3. ss \in Seq(Seq(Chars)) /\ rr \in Seq(Seq(Chars))
  <2>1. \A k \in 1 .. Len(t) : Unfaulted(t[k]) \in Seq(Chars)
    BY <1>2
  <2>2. \A k \in 1 .. Len(Tail(t)) : Unfaulted(Tail(t)[k]) \in Seq(Chars)
    BY <1>1, <1>2
  <2>3. Len(t) \in Nat /\ Len(Tail(t)) \in Nat
    BY <1>1
  <2> QED BY <2>1, <2>2, <2>3, IsASeq
<1>4. Len(ss) = Len(t) /\ Len(rr) = Len(t) - 1 /\ ss # <<>>
  BY <1>1
<1>5. \A k \in 1 .. Len(t) : ss[k] = Unfaulted(t[k])
  OBVIOUS
<1>6. \A k \in 1 .. Len(t) - 1 : rr[k] = Unfaulted(Tail(t)[k])
  BY <1>1
<1>7. NoFault(t) = FlattenSeq(ss) /\ NoFault(Tail(t)) = FlattenSeq(rr)
  BY DEF NoFault, Unfaulted
<1> HIDE DEF ss, rr
<1>8. Head(ss) = ss[1] /\ Tail(ss) \in Seq(Seq(Chars)) /\ Len(Tail(ss)) = Len(ss) - 1
      /\ \A k \in 1 .. Len(Tail(ss)) : Tail(ss)[k] = ss[k + 1]
  BY <1>3, <1>4, HeadTailProperties
<1>9. Tail(ss) = rr
  <2>1. ASSUME NEW k \in 1 .. Len(t) - 1 PROVE Tail(ss)[k] = rr[k]
    <3>1. k \in 1 .. Len(Tail(ss)) /\ k + 1 \in 1 .. Len(t)
      BY <1>1, <1>4, <1>8
    <3> QED BY <1>1, <1>5, <1>6, <1>8, <3>1
  <2>2. Len(Tail(ss)) = Len(rr) /\ \A k \in 1 .. Len(rr) : Tail(ss)[k] = rr[k]
    BY <1>4, <1>8, <2>1
  <2> QED BY <1>3, <1>8, <2>2, SeqEqual
<1>10. FlattenSeq(ss) = Head(ss) \o FlattenSeq(Tail(ss))
  BY <1>3, <1>4, FlattenTail
<1>11. Head(ss) = Unfaulted(Head(t))
  BY <1>1, <1>5, <1>8
<1>12. FlattenSeq(ss) \in Seq(Chars) /\ FlattenSeq(rr) \in Seq(Chars)
  BY <1>3, FlattenType
<1> QED BY <1>7, <1>9, <1>10, <1>11, <1>12

LEMMA NoFaultType ==
  ASSUME NEW t \in Seq(Chars)
  PROVE  NoFault(t) \in Seq(Chars)
<1>1. CASE t = <<>>
  <2>1. NoFault(t) = <<>>
    BY <1>1, NoFaultEmpty
  <2> QED BY <2>1, EmptySeq
<1>2. CASE t # <<>>
  BY <1>2, NoFaultHead
<1> QED BY <1>1, <1>2

OwnOf(x, id) == IF x.msg = id THEN <<x.ch>> ELSE <<>>

LEMMA OwnType ==
  ASSUME NEW x \in Entries, NEW id
  PROVE  OwnOf(x, id) \in Seq(Chars)
BY DEF Entries, OwnOf

LEMMA CharsAreFlat ==
  ASSUME NEW A \in Seq(Entries), NEW id
  PROVE  LET ss == [k \in 1 .. Len(A) |-> OwnOf(A[k], id)]
         IN /\ ss \in Seq(Seq(Chars)) /\ Len(ss) = Len(A)
            /\ \A k \in 1 .. Len(A) : ss[k] = OwnOf(A[k], id)
            /\ CharsIn(A, id) = FlattenSeq(ss) /\ CharsIn(A, id) \in Seq(Chars)
<1> DEFINE ss == [k \in 1 .. Len(A) |-> OwnOf(A[k], id)]
<1>1. Len(A) \in Nat /\ \A k \in 1 .. Len(A) : OwnOf(A[k], id) \in Seq(Chars)
  BY OwnType
<1>2. ss \in Seq(Seq(Chars))
  BY <1>1, IsASeq
<1>3. Len(ss) = Len(A) /\ \A k \in 1 .. Len(A) : ss[k] = OwnOf(A[k], id)
  BY <1>1
<1>4. CharsIn(A, id) = FlattenSeq(ss)
  BY DEF CharsIn, OwnOf
<1> HIDE DEF ss
<1>5. CharsIn(A, id) \in Seq(Chars)
  BY <1>2, <1>4, FlattenType
<1> QED BY <1>2, <1>3, <1>4, <1>5 DEF ss

LEMMA CharsAppend ==
  ASSUME NEW A \in Seq(Entries), NEW e \in Entries, NEW id
  PROVE  CharsIn(Append(A, e), id) = CharsIn(A, id) \o OwnOf(e, id)
<1> DEFINE B == Append(A, e)
           ss == [k \in 1 .. Len(A) |-> OwnOf(A[k], id)]
           tt == [k \in 1 .. Len(B) |-> OwnOf(B[k], id)]
<1>1. B \in Seq(Entries) /\ Len(B) = Len(A) + 1 /\ B[Len(A) + 1] = e
      /\ \A k \in 1 .. Len(A) : B[k] = A[k]
  BY AppendProperties
<1> HIDE DEF B
<1>2. /\ ss \in Seq(Seq(Chars)) /\ Len(ss) = Len(A)
      /\ \A k \in 1 .. Len(A) : ss[k] = OwnOf(A[k], id)
      /\ CharsIn(A, id) = FlattenSeq(ss)
  BY CharsAreFlat
<1>3. /\ tt \in Seq(Seq(Chars)) /\ Len(tt) = Len(B)
      /\ \A k \in 1 .. Len(B) : tt[k] = OwnOf(B[k], id)
      /\ CharsIn(B, id) = FlattenSeq(tt)
  BY <1>1, CharsAreFlat
<1> HIDE DEF ss, tt
<1>4. Len(A) \in Nat
  OBVIOUS
<1>5. Len(tt) = Len(ss) + 1 /\ \A k \in 1 .. Len(ss) : tt[k] = ss[k]
  BY <1>1, <1>2, <1>3, <1>4
<1>6. tt[Len(tt)] = OwnOf(e, id)
  BY <1>1, <1>3, <1>4
<1>7. FlattenSeq(tt) = FlattenSeq(ss) \o tt[Len(tt)]
  BY <1>2, <1>3, <1>5, FlattenStep
<1> QED BY <1>2, <1>3, <1>6, <1>7 DEF B

LEMMA CharsNone ==
  ASSUME NEW A \in Seq(Entries), NEW id, \A k \in 1 .. Len(A) : A[k].msg # id
  PROVE  CharsIn(A, id) = <<>>
<1> DEFINE ss == [k \in 1 .. Len(A) |-> OwnOf(A[k], id)]
<1>1. /\ ss \in Seq(Seq(Chars)) /\ Len(ss) = Len(A)
      /\ \A k \in 1 .. Len(A) : ss[k] = OwnOf(A[k], id)
      /\ CharsIn(A, id) = FlattenSeq(ss)
  BY CharsAreFlat
<1> HIDE DEF ss
<1>2. \A k \in 1 .. Len(ss) : ss[k] = <<>>
  BY <1>1 DEF OwnOf
<1>3. CASE ss = <<>>
  BY <1>1, <1>3, FlattenEmpty
<1>4. CASE ss # <<>>
  <2>1. PICK f : /\ FlattenSeq(ss) = f[Len(ss)]
                 /\ f[1] = ss[1]
                 /\ \A i \in 2 .. Len(ss) : f[i] = f[i - 1] \o ss[i]
                 /\ \A i \in 1 .. Len(ss) : f[i] \in Seq(Chars)
    BY <1>1, <1>4, FlattenIs
  <2>2. Len(ss) \in Nat \ {0}
    BY <1>1, <1>4
  <2> DEFINE Bad == {i \in 1 .. Len(ss) : f[i] # <<>>}
  <2>3. ASSUME Bad # {} PROVE FALSE
    <3>1. PICK m \in Bad : \A q \in Bad : m <= q
      <4>1. Bad \in SUBSET Nat
        OBVIOUS
      <4> QED BY <2>3, <4>1, LeastNatural
    <3>2. m \in 1 .. Len(ss) /\ f[m] # <<>> /\ ss[m] = <<>>
      BY <1>2, <3>1
    <3>3. m # 1
      BY <2>1, <3>2
    <3>4. m \in 2 .. Len(ss) /\ m - 1 \in 1 .. Len(ss) /\ m - 1 \notin Bad
      BY <3>1, <3>2, <3>3
    <3>5. f[m - 1] = <<>>
      BY <3>4
    <3>6. f[m] = <<>> \o <<>>
      BY <2>1, <3>2, <3>4, <3>5
    <3>7. <<>> \o <<>> = <<>>
      BY EmptySeq, ConcatEmptySeq
    <3> QED BY <3>2, <3>6, <3>7
  <2> QED BY <1>1, <2>1, <2>2, <2>3
<1> QED BY <1>3, <1>4

-----------------------------------------------------------------------------
(* The inductive invariant.                                                *)

Frames == [msg : Nat, text : Seq(Chars), ready : BOOLEAN, ifl : BOOLEAN]

UartTypes ==
  [chip : {"good", "faulty", "absent"}, depth : Nat, loop : BOOLEAN, fifo : Seq(Entries)]

Messages == [text : Seq(Chars), val : Nat]

SerialType ==
  /\ uart \in UartTypes
  /\ line \in Seq(Entries)
  /\ msgs \in Seq(Messages)
  /\ frames \in Seq(Frames)
  /\ intr \in BOOLEAN /\ ticks \in Nat /\ keys \in Nat

\* At most one handler prints: interrupts are disabled in it, and its own line
\* does not fault.  Its message is the last one.
Nesting ==
  /\ frames = <<>> => line = <<>> /\ uart.fifo = <<>> /\ msgs = <<>>
  /\ Len(frames) <= 2
  /\ frames # <<>> => frames[1].msg = 1 /\ Len(msgs) >= 1
  /\ Len(frames) = 2 => /\ ~intr /\ Len(msgs) >= 2
                        /\ frames[2].msg = Len(msgs) /\ frames[2].text \in Seq(Literals)

ChipSetUp ==
  /\ uart.loop => line = <<>>
  /\ frames # <<>> => uart.depth = FifoSize /\ (uart.loop <=> uart.chip # "good")

\* Two characters wait at most: the last one of a handler, and the one the
\* kernel had seen room for before it was interrupted.
Room ==
  uart.chip = "good" /\ frames # <<>> =>
    /\ Len(uart.fifo) <= 2
    /\ frames[1].ready => Len(uart.fifo) <= 1
    /\ Len(frames) = 2 /\ frames[2].ready => Len(uart.fifo) = 0

\* Nothing was printed of a message that has not begun.
Begun == \A j \in 1 .. Len(Accepted) : Accepted[j].msg \in 1 .. Len(msgs)

\* What a handler has printed so far is the end of what was printed.
StillOpen ==
  Len(frames) = 2 =>
    \A j, k \in 1 .. Len(Accepted) :
      j <= k /\ Accepted[j].msg = frames[2].msg => Accepted[k].msg = frames[2].msg

NoneLost ==
  uart.chip = "good" =>
    \A id \in 1 .. Len(msgs) :
      NoFault(msgs[id].text) = CharsOf(id) \o NoFault(StillToPrint(id))

Stamped ==
  \A id \in 1 .. Len(msgs) : msgs[id].val # 0 => msgs[id].text = TickLine(msgs[id].val)

Shape == SerialType /\ Nesting /\ ChipSetUp /\ Room

SerialInv == Shape /\ Begun /\ StillOpen /\ LinesWhole /\ NoneLost /\ Stamped

-----------------------------------------------------------------------------
(* What each step does.                                                    *)

\* The innermost frame now has text x and ready b; nothing else changed.
TopBecomes(F, G, x, b) ==
  /\ G \in Seq(Frames) /\ Len(G) = Len(F)
  /\ \A i \in 1 .. Len(F) - 1 : G[i] = F[i]
  /\ G[Len(F)].msg = F[Len(F)].msg /\ G[Len(F)].text = x
  /\ G[Len(F)].ready = b /\ G[Len(F)].ifl = F[Len(F)].ifl

LEMMA TopSet ==
  ASSUME NEW F \in Seq(Frames), F # <<>>, NEW g \in Frames,
         g.msg = F[Len(F)].msg, g.ifl = F[Len(F)].ifl
  PROVE  TopBecomes(F, [F EXCEPT ![Len(F)] = g], g.text, g.ready)
<1> DEFINE G == [F EXCEPT ![Len(F)] = g]
<1>1. Len(F) \in 1 .. Len(F)
  OBVIOUS
<1>2. G \in Seq(Frames) /\ Len(G) = Len(F) /\ G[Len(F)] = g
      /\ \A i \in 1 .. Len(F) : i # Len(F) => G[i] = F[i]
  BY <1>1, ExceptSeq
<1> HIDE DEF G
<1>3. \A i \in 1 .. Len(F) - 1 : i \in 1 .. Len(F) /\ i # Len(F)
  OBVIOUS
<1> QED BY <1>2, <1>3 DEF TopBecomes, G

LEMMA PollStep ==
  ASSUME SerialType, Poll
  PROVE  /\ frames # <<>> /\ TopBecomes(frames, frames', Top.text, TRUE)
         /\ (uart.chip = "absent" \/ uart.fifo = <<>>)
         /\ UNCHANGED <<uart, line, msgs, intr, ticks, keys>>
<1> DEFINE f == frames[Len(frames)]
           g == [f EXCEPT !.ready = TRUE]
<1>1. frames # <<>> /\ frames \in Seq(Frames)
  BY DEF Poll, Writing, SerialType
<1>2. f \in Frames
  BY <1>1
<1>3. g \in Frames /\ g.msg = f.msg /\ g.text = f.text /\ g.ready = TRUE /\ g.ifl = f.ifl
  BY <1>2 DEF Frames
<1>4. frames' = [frames EXCEPT ![Len(frames)] = g]
  BY DEF Poll
<1> HIDE DEF g
<1>5. TopBecomes(frames, frames', g.text, g.ready)
  BY <1>1, <1>3, <1>4, TopSet
<1> QED BY <1>1, <1>3, <1>5 DEF Poll, serial_ready, Top

LEMMA FaultStep ==
  ASSUME SerialType, TrapPF
  PROVE  /\ frames # <<>> /\ Top.text # <<>> /\ Head(Top.text) = Fault
         /\ \E G : /\ TopBecomes(frames, G, Tail(Top.text), Top.ready)
                   /\ Handle(PFLine, 0, G)
         /\ UNCHANGED <<uart, line, ticks, keys>>
<1> DEFINE f == frames[Len(frames)]
           g == [f EXCEPT !.text = Tail(@)]
           G == [frames EXCEPT ![Len(frames)].text = Tail(@)]
<1>1. frames # <<>> /\ frames \in Seq(Frames) /\ Top.text # <<>> /\ Head(Top.text) = Fault
      /\ Handle(PFLine, 0, G) /\ UNCHANGED <<uart, line, ticks, keys>>
  BY DEF TrapPF, SerialType
<1>2. f \in Frames
  BY <1>1
<1>3. f.text \in Seq(Chars) /\ Tail(f.text) \in Seq(Chars)
  BY <1>1, <1>2, HeadTailProperties DEF Frames, Top
<1>4. g \in Frames /\ g.msg = f.msg /\ g.text = Tail(f.text) /\ g.ready = f.ready /\ g.ifl = f.ifl
  BY <1>2, <1>3 DEF Frames
<1>5. G = [frames EXCEPT ![Len(frames)] = g]
  OBVIOUS
<1> HIDE DEF g, G
<1>6. TopBecomes(frames, G, g.text, g.ready)
  BY <1>1, <1>4, <1>5, TopSet
<1>7. TopBecomes(frames, G, Tail(Top.text), Top.ready)
  BY <1>4, <1>6 DEF Top
<1> QED BY <1>1, <1>7

LEMMA ShiftAccepted ==
  ASSUME NEW S, NEW l \in Seq(S), NEW q \in Seq(S), q # <<>>
  PROVE  Append(l, Head(q)) \o Tail(q) = l \o q
OBVIOUS

LEMMA GrowAccepted ==
  ASSUME NEW S, NEW l \in Seq(S), NEW q \in Seq(S), NEW e \in S
  PROVE  l \o Append(q, e) = Append(l \o q, e)
OBVIOUS

\* A write is taken by the transmitter, or lost when there is none or it is full.
LEMMA PutStep ==
  ASSUME SerialType, serial_putchar
  PROVE  /\ frames # <<>> /\ Top.text # <<>> /\ Head(Top.text) # Fault /\ Top.ready
         /\ TopBecomes(frames, frames', Tail(Top.text), FALSE)
         /\ uart' \in UartTypes
         /\ uart'.chip = uart.chip /\ uart'.depth = uart.depth /\ uart'.loop = uart.loop
         /\ \E e \in Entries :
              /\ e.msg = Top.msg /\ e.ch = Head(Top.text)
              /\ \/ /\ uart.chip = "absent" \/ Len(uart.fifo) >= uart.depth
                    /\ uart'.fifo = uart.fifo /\ Accepted' = Accepted
                 \/ uart'.fifo = Append(uart.fifo, e) /\ Accepted' = Append(Accepted, e)
         /\ UNCHANGED <<line, msgs, intr, ticks, keys>>
<1> DEFINE f == frames[Len(frames)]
           g == [f EXCEPT !.text = Tail(@), !.ready = FALSE]
           e == [msg |-> Top.msg, ch |-> Head(Top.text)]
<1>1. /\ frames # <<>> /\ frames \in Seq(Frames) /\ Top.text # <<>> /\ Head(Top.text) # Fault
      /\ Top.ready /\ UNCHANGED <<line, msgs, intr, ticks, keys>> /\ uart' = Write(e)
  BY DEF serial_putchar, Writing, SerialType
<1>2. f \in Frames
  BY <1>1
<1>3. f.text \in Seq(Chars) /\ Tail(f.text) \in Seq(Chars) /\ Head(f.text) \in Chars /\ f.msg \in Nat
  BY <1>1, <1>2, HeadTailProperties DEF Frames, Top
<1>4. g \in Frames /\ g.msg = f.msg /\ g.text = Tail(f.text) /\ g.ready = FALSE /\ g.ifl = f.ifl
  BY <1>2, <1>3 DEF Frames
<1>5. frames' = [frames EXCEPT ![Len(frames)] = g]
  BY DEF serial_putchar
<1> HIDE DEF g
<1>6. TopBecomes(frames, frames', g.text, g.ready)
  BY <1>1, <1>4, <1>5, TopSet
<1>7. TopBecomes(frames, frames', Tail(Top.text), FALSE)
  BY <1>4, <1>6 DEF Top
<1>8. e \in Entries /\ e.msg = Top.msg /\ e.ch = Head(Top.text)
  BY <1>3 DEF Entries, Top
<1> HIDE DEF e
<1>9. uart \in UartTypes /\ uart.fifo \in Seq(Entries) /\ line \in Seq(Entries) /\ line' = line
  BY <1>1 DEF SerialType, UartTypes
<1>10. CASE uart.chip = "absent" \/ Len(uart.fifo) >= uart.depth
  <2>1. uart' = uart
    BY <1>1, <1>10 DEF Write
  <2>2. Accepted' = Accepted
    BY <1>9, <2>1 DEF Accepted
  <2> QED BY <1>1, <1>7, <1>8, <1>9, <1>10, <2>1, <2>2
<1>11. CASE ~ (uart.chip = "absent" \/ Len(uart.fifo) >= uart.depth)
  <2>1. uart' = [uart EXCEPT !.fifo = Append(@, e)]
    BY <1>1, <1>11 DEF Write
  <2>2. Append(uart.fifo, e) \in Seq(Entries)
    BY <1>8, <1>9, AppendProperties
  <2>3. /\ uart' \in UartTypes /\ uart'.fifo = Append(uart.fifo, e)
        /\ uart'.chip = uart.chip /\ uart'.depth = uart.depth /\ uart'.loop = uart.loop
    BY <1>9, <2>1, <2>2 DEF UartTypes
  <2>4. Accepted' = Append(Accepted, e)
    <3>1. line \o Append(uart.fifo, e) = Append(line \o uart.fifo, e)
      BY <1>8, <1>9, GrowAccepted
    <3> QED BY <1>9, <2>3, <3>1 DEF Accepted
  <2> QED BY <1>1, <1>7, <1>8, <2>3, <2>4
<1> QED BY <1>10, <1>11

\* Sending moves a character, except in loopback mode, where it is dropped.
LEMMA SendStep ==
  ASSUME SerialType, ChipSetUp, Send
  PROVE  /\ uart' \in UartTypes /\ line' \in Seq(Entries)
         /\ uart'.chip = uart.chip /\ uart'.depth = uart.depth /\ uart'.loop = uart.loop
         /\ Len(uart'.fifo) = Len(uart.fifo) - 1 /\ uart.fifo # <<>>
         /\ ~uart.loop => Accepted' = Accepted
         /\ uart.loop => line' = <<>> /\ Accepted # <<>> /\ Accepted' = Tail(Accepted)
         /\ UNCHANGED <<msgs, frames, intr, ticks, keys>>
<1>1. /\ uart \in UartTypes /\ uart.fifo \in Seq(Entries) /\ line \in Seq(Entries)
      /\ uart.fifo # <<>> /\ uart.loop \in BOOLEAN
      /\ UNCHANGED <<msgs, frames, intr, ticks, keys>>
  BY DEF SerialType, UartTypes, Send
<1>2. Head(uart.fifo) \in Entries /\ Tail(uart.fifo) \in Seq(Entries)
      /\ Len(Tail(uart.fifo)) = Len(uart.fifo) - 1
  BY <1>1, HeadTailProperties
<1>3. uart' = [uart EXCEPT !.fifo = Tail(@)]
  BY DEF Send
<1>4. /\ uart' \in UartTypes /\ uart'.fifo = Tail(uart.fifo)
      /\ uart'.chip = uart.chip /\ uart'.depth = uart.depth /\ uart'.loop = uart.loop
  BY <1>1, <1>2, <1>3 DEF UartTypes
<1>5. CASE uart.loop
  <2>1. line' = line /\ line = <<>>
    BY <1>5 DEF Send, ChipSetUp
  <2>2. <<>> \o uart.fifo = uart.fifo /\ <<>> \o Tail(uart.fifo) = Tail(uart.fifo)
    BY <1>1, <1>2, ConcatEmptySeq
  <2>3. Accepted = uart.fifo /\ Accepted' = Tail(uart.fifo)
    BY <1>4, <2>1, <2>2 DEF Accepted
  <2> QED BY <1>1, <1>2, <1>4, <1>5, <2>1, <2>3
<1>6. CASE ~uart.loop
  <2>1. line' = Append(line, Head(uart.fifo))
    BY <1>6 DEF Send
  <2>2. Append(line, Head(uart.fifo)) \o Tail(uart.fifo) = line \o uart.fifo
    BY <1>1, ShiftAccepted
  <2>3. Accepted' = Accepted
    BY <1>4, <2>1, <2>2 DEF Accepted
  <2>4. line' \in Seq(Entries)
    BY <1>1, <1>2, <2>1, AppendProperties
  <2> QED BY <1>1, <1>2, <1>4, <1>6, <2>3, <2>4
<1> QED BY <1>1, <1>5, <1>6

\* A handler enters: one more frame and one more message, interrupts disabled.
Enters(G, text, val) ==
  /\ frames' \in Seq(Frames) /\ Len(frames') = Len(G) + 1
  /\ \A i \in 1 .. Len(G) : frames'[i] = G[i]
  /\ frames'[Len(G) + 1].msg = Len(msgs) + 1 /\ frames'[Len(G) + 1].text = text
  /\ frames'[Len(G) + 1].ready = FALSE
  /\ msgs' \in Seq(Messages) /\ Len(msgs') = Len(msgs) + 1
  /\ \A id \in 1 .. Len(msgs) : msgs'[id] = msgs[id]
  /\ msgs'[Len(msgs) + 1].text = text /\ msgs'[Len(msgs) + 1].val = val
  /\ intr' = FALSE

LEMMA HandleStep ==
  ASSUME SerialType, NEW G \in Seq(Frames), NEW text \in Seq(Chars), NEW val \in Nat,
         Handle(text, val, G)
  PROVE  Enters(G, text, val)
<1> DEFINE h == [msg |-> Len(msgs) + 1, text |-> text, ready |-> FALSE, ifl |-> intr]
           m == [text |-> text, val |-> val]
<1>1. msgs \in Seq(Messages) /\ intr \in BOOLEAN /\ Len(msgs) + 1 \in Nat
  BY DEF SerialType, Messages
<1>2. h \in Frames /\ h.msg = Len(msgs) + 1 /\ h.text = text /\ h.ready = FALSE
  BY <1>1 DEF Frames
<1>3. m \in Messages /\ m.text = text /\ m.val = val
  BY DEF Messages
<1>4. frames' = Append(G, h) /\ msgs' = Append(msgs, m) /\ intr' = FALSE
  BY DEF Handle, HandlerIntr
<1> HIDE DEF h, m
<1>5. /\ frames' \in Seq(Frames) /\ Len(frames') = Len(G) + 1 /\ frames'[Len(G) + 1] = h
      /\ \A i \in 1 .. Len(G) : frames'[i] = G[i]
  BY <1>2, <1>4, AppendProperties
<1>6. /\ msgs' \in Seq(Messages) /\ Len(msgs') = Len(msgs) + 1 /\ msgs'[Len(msgs) + 1] = m
      /\ \A id \in 1 .. Len(msgs) : msgs'[id] = msgs[id]
  BY <1>1, <1>3, <1>4, AppendProperties
<1> QED BY <1>2, <1>3, <1>4, <1>5, <1>6 DEF Enters

\* None, the kernel, or the kernel and a handler.
LEMMA Depths ==
  ASSUME SerialType, Nesting
  PROVE  /\ frames \in Seq(Frames) /\ Len(frames) \in {0, 1, 2}
         /\ frames = <<>> <=> Len(frames) = 0
<1>1. frames \in Seq(Frames) /\ Len(frames) <= 2
  BY DEF SerialType, Nesting
<1>2. Len(frames) \in Nat
  BY <1>1
<1>3. Len(frames) = 0 => frames = <<>>
  BY <1>1, NoLength
<1>4. frames = <<>> => Len(frames) = 0
  BY EmptySeq
<1>5. Len(frames) \in {0, 1, 2}
  <2>1. \A n \in Nat : n <= 2 => n \in {0, 1, 2}
    OBVIOUS
  <2> QED BY <1>1, <1>2, <2>1
<1> QED BY <1>1, <1>3, <1>4, <1>5

LEMMA IretStep ==
  ASSUME SerialType, Nesting, Iret
  PROVE  /\ Len(frames) = 2 /\ frames[2].text = <<>>
         /\ frames' \in Seq(Frames) /\ Len(frames') = 1 /\ frames'[1] = frames[1]
         /\ intr' \in BOOLEAN
         /\ UNCHANGED <<uart, line, msgs, ticks, keys>>
<1>1. frames \in Seq(Frames) /\ Len(frames) = 2
  BY Depths DEF Iret
<1>2. Top = frames[2] /\ frames[2] \in Frames
  BY <1>1 DEF Top
<1>3. frames[2].text = <<>> /\ frames' = Front(frames) /\ intr' = frames[2].ifl
  BY <1>2 DEF Iret
<1>4. intr' \in BOOLEAN
  BY <1>2, <1>3 DEF Frames
<1>5. frames' = SubSeq(frames, 1, 1)
  BY <1>1, <1>3 DEF Front
<1>6. SubSeq(frames, 1, 1) \in Seq(Frames) /\ Len(SubSeq(frames, 1, 1)) = 1
      /\ SubSeq(frames, 1, 1)[1] = frames[1]
  <2>1. \A i \in 1 .. 1 : frames[i] \in Frames
    BY <1>1
  <2> QED BY <1>1, <2>1, SubSeqProperties, SMTT(60)
<1> QED BY <1>1, <1>3, <1>4, <1>5, <1>6 DEF Iret

\* Handlers come while the kernel prints, never while a handler does.
LEMMA HandlersStep ==
  ASSUME Shape, TrapTimer \/ TrapKbd \/ TrapPF
  PROVE  /\ Len(frames) = 1
         /\ UNCHANGED <<uart, line>> /\ ticks' \in Nat /\ keys' \in Nat
         /\ \/ UNCHANGED <<msgs, frames, intr>>
            \/ \E G, text, val :
                 /\ text \in Seq(Literals) /\ val \in Nat
                 /\ val # 0 => text = TickLine(val)
                 /\ G \in Seq(Frames) /\ Len(G) = 1
                 /\ G[1].msg = frames[1].msg /\ G[1].ready = frames[1].ready
                 /\ \/ G[1].text = frames[1].text
                    \/ /\ frames[1].text # <<>> /\ Head(frames[1].text) = Fault
                       /\ G[1].text = Tail(frames[1].text)
                 /\ Enters(G, text, val)
<1>1. /\ SerialType /\ Nesting /\ frames \in Seq(Frames) /\ ticks \in Nat /\ keys \in Nat
      /\ Len(frames) \in {0, 1, 2} /\ (frames = <<>> <=> Len(frames) = 0)
  BY Depths DEF Shape, SerialType
<1>2. ASSUME TrapTimer \/ TrapKbd PROVE Len(frames) = 1 /\ UNCHANGED <<uart, line>>
  <2>1. frames # <<>> /\ intr /\ UNCHANGED <<uart, line>>
    BY <1>2 DEF TrapTimer, TrapKbd
  <2>2. Len(frames) # 2
    BY <1>1, <2>1 DEF Nesting
  <2> QED BY <1>1, <2>1, <2>2
<1>3. CASE TrapTimer
  <2>1. ticks' = ticks + 1 /\ keys' = keys
    BY <1>3 DEF TrapTimer
  <2>2. ticks' \in Nat
    BY <1>1, <2>1
  <2>3. CASE ticks' % TicksPerLine = 0
    <3>1. Handle(TickLine(ticks'), ticks', frames)
      BY <1>3, <2>3 DEF TrapTimer
    <3>2. TickLine(ticks') \in Seq(Literals)
      BY <2>2, TickLineIs
    <3>3. Enters(frames, TickLine(ticks'), ticks')
      BY <1>1, <2>2, <3>1, <3>2, LiteralsAreChars, HandleStep
    <3>4. UNCHANGED <<uart, line>> /\ ticks' \in Nat /\ keys' \in Nat /\ Len(frames) = 1
      BY <1>1, <1>2, <1>3, <2>1, <2>2
    <3> QED BY <1>1, <2>2, <3>2, <3>3, <3>4, ZenonT(60)
  <2>4. CASE ticks' % TicksPerLine # 0
    BY <1>1, <1>2, <1>3, <2>1, <2>2, <2>4 DEF TrapTimer
  <2> QED BY <2>3, <2>4
<1>4. CASE TrapKbd
  <2>1. keys' = keys + 1 /\ ticks' = ticks /\ Handle(KbdLine, 0, frames)
    BY <1>4 DEF TrapKbd
  <2>2. Enters(frames, KbdLine, 0)
    BY <1>1, <2>1, KbdLineIs, LiteralsAreChars, HandleStep
  <2>3. keys' \in Nat /\ 0 \in Nat /\ ticks' \in Nat
    BY <1>1, <2>1
  <2> QED BY <1>1, <1>2, <1>4, <2>2, <2>3, KbdLineIs, Zenon
<1>5. CASE TrapPF
  <2>1. PICK G : TopBecomes(frames, G, Tail(Top.text), Top.ready) /\ Handle(PFLine, 0, G)
    BY <1>1, <1>5, FaultStep
  <2>2. /\ frames # <<>> /\ Top.text # <<>> /\ Head(Top.text) = Fault
        /\ UNCHANGED <<uart, line, ticks, keys>>
    BY <1>1, <1>5, FaultStep
  <2>3. Len(frames) # 2
    <3>1. SUFFICES ASSUME Len(frames) = 2 PROVE FALSE
      OBVIOUS
    <3>2. Top.text \in Seq(Literals)
      BY <1>1, <3>1 DEF Nesting, Top
    <3>3. Head(Top.text) \in Literals
      BY <2>2, <3>2, HeadTailProperties
    <3> QED BY <2>2, <3>3, LiteralsNoFault
  <2>4. Len(frames) = 1
    BY <1>1, <2>2, <2>3
  <2>5. /\ G \in Seq(Frames) /\ Len(G) = 1 /\ G[1].msg = frames[1].msg
        /\ G[1].ready = frames[1].ready /\ G[1].text = Tail(frames[1].text)
        /\ frames[1].text # <<>> /\ Head(frames[1].text) = Fault
    BY <2>1, <2>2, <2>4 DEF TopBecomes, Top
  <2>6. Enters(G, PFLine, 0)
    BY <1>1, <2>1, <2>5, PFLineIs, LiteralsAreChars, HandleStep
  <2>7. 0 \in Nat /\ ticks' \in Nat /\ keys' \in Nat
    BY <1>1, <2>2
  <2> QED BY <2>2, <2>4, <2>5, <2>6, <2>7, PFLineIs, Zenon
<1> QED BY <1>3, <1>4, <1>5

LEMMA BootStep ==
  ASSUME SerialType, Nesting, NEW s \in Scripts, serial_init(s)
  PROVE  /\ frames = <<>> /\ line = <<>> /\ uart.fifo = <<>> /\ msgs = <<>>
         /\ uart' \in UartTypes /\ uart'.chip = uart.chip /\ uart'.fifo = <<>>
         /\ uart'.depth = FifoSize /\ (uart'.loop <=> uart.chip # "good")
         /\ frames' \in Seq(Frames) /\ Len(frames') = 1
         /\ frames'[1].msg = 1 /\ frames'[1].text = Text(s.calls) /\ frames'[1].ready = FALSE
         /\ msgs' \in Seq(Messages) /\ Len(msgs') = 1
         /\ msgs'[1].text = Text(s.calls) /\ msgs'[1].val = 0
         /\ intr' \in BOOLEAN /\ Text(s.calls) \in Seq(Chars)
         /\ UNCHANGED <<line, ticks, keys>>
<1>1. frames = <<>> /\ line = <<>> /\ uart.fifo = <<>> /\ msgs = <<>> /\ uart \in UartTypes
  BY DEF serial_init, Nesting, SerialType
<1>2. s.intr \in BOOLEAN /\ s.calls \in Seq(Calls) /\ FifoSize \in Nat
  BY SerialAssumption
<1>3. Text(s.calls) \in Seq(Chars)
  BY <1>2, TextType
<1> DEFINE x == Text(s.calls)
           f == [msg |-> 1, text |-> x, ready |-> FALSE, ifl |-> s.intr]
           m == [text |-> x, val |-> 0]
<1>4. frames' = <<f>> /\ msgs' = <<m>> /\ intr' = s.intr /\ UNCHANGED <<line, ticks, keys>>
      /\ uart' = [uart EXCEPT !.depth = FifoSize, !.loop = uart.chip # "good"]
  BY DEF serial_init, FifoEnabled
<1>5. /\ uart' \in UartTypes /\ uart'.chip = uart.chip /\ uart'.fifo = uart.fifo
      /\ uart'.depth = FifoSize /\ (uart'.loop <=> uart.chip # "good")
  BY <1>1, <1>2, <1>4 DEF UartTypes
<1>6. f \in Frames /\ f.msg = 1 /\ f.text = x /\ f.ready = FALSE
  BY <1>2, <1>3 DEF Frames
<1>7. m \in Messages /\ m.text = x /\ m.val = 0
  BY <1>3 DEF Messages
<1> HIDE DEF f, m
<1>8. frames' \in Seq(Frames) /\ Len(frames') = 1 /\ frames'[1] = f
  BY <1>4, <1>6
<1>9. msgs' \in Seq(Messages) /\ Len(msgs') = 1 /\ msgs'[1] = m
  BY <1>4, <1>7
<1>10. intr' \in BOOLEAN
  BY <1>2, <1>4
<1> QED BY <1>1, <1>3, <1>4, <1>5, <1>6, <1>7, <1>8, <1>9, <1>10

-----------------------------------------------------------------------------
(* Shape is preserved.                                                     *)

LEMMA ShapeBoot ==
  ASSUME Shape, NEW s \in Scripts, serial_init(s)
  PROVE  Shape'
<1>1. SerialType /\ Nesting
  BY DEF Shape
<1>2. /\ line = <<>> /\ uart' \in UartTypes /\ uart'.chip = uart.chip /\ uart'.fifo = <<>>
      /\ uart'.depth = FifoSize /\ (uart'.loop <=> uart.chip # "good")
      /\ frames' \in Seq(Frames) /\ Len(frames') = 1
      /\ frames'[1].msg = 1 /\ frames'[1].ready = FALSE
      /\ msgs' \in Seq(Messages) /\ Len(msgs') = 1
      /\ intr' \in BOOLEAN /\ UNCHANGED <<line, ticks, keys>>
  BY <1>1, BootStep
<1>3. SerialType'
  BY <1>1, <1>2 DEF SerialType
<1>4. Len(frames') # 2 /\ Len(frames') <= 2 /\ Len(msgs') >= 1 /\ frames' # <<>>
  <2>0. Len(frames') # 0
    BY <1>2
  <2>1. frames' # <<>>
    BY <2>0, EmptySeq, Zenon
  <2> QED BY <1>2, <2>1
<1>5. Nesting'
  BY <1>2, <1>4 DEF Nesting
<1>6. ChipSetUp'
  BY <1>2 DEF ChipSetUp
<1>7. Room'
  <2>1. Len(uart'.fifo) = 0
    BY <1>2, EmptySeq
  <2> QED BY <2>1 DEF Room
<1> QED BY <1>3, <1>5, <1>6, <1>7 DEF Shape

LEMMA ShapePoll ==
  ASSUME Shape, Poll
  PROVE  Shape'
<1>0. SerialType /\ Nesting /\ ChipSetUp /\ Room
  BY DEF Shape
<1>1. /\ frames # <<>> /\ TopBecomes(frames, frames', Top.text, TRUE)
      /\ (uart.chip = "absent" \/ uart.fifo = <<>>)
      /\ UNCHANGED <<uart, line, msgs, intr, ticks, keys>>
  BY <1>0, PollStep
<1>2. Len(frames) \in {1, 2} /\ frames \in Seq(Frames)
  BY <1>0, <1>1, Depths
<1>3. /\ frames' \in Seq(Frames) /\ Len(frames') = Len(frames) /\ frames' # <<>>
      /\ frames'[1].msg = frames[1].msg
      /\ Len(frames) = 2 => frames'[2].msg = frames[2].msg /\ frames'[2].text = frames[2].text
  <2>1. CASE Len(frames) = 1
    BY <1>1, <2>1 DEF TopBecomes
  <2>2. CASE Len(frames) = 2
    BY <1>1, <2>2 DEF TopBecomes, Top
  <2> QED BY <1>2, <2>1, <2>2
<1>4. SerialType'
  BY <1>0, <1>1, <1>3 DEF SerialType
<1>5. Nesting'
  BY <1>0, <1>1, <1>3 DEF Nesting
<1>6. ChipSetUp'
  BY <1>0, <1>1, <1>3 DEF ChipSetUp
<1>7. Room'
  <2>1. uart.chip = "good" => Len(uart.fifo) = 0
    BY <1>1, EmptySeq
  <2> QED BY <1>1, <2>1 DEF Room
<1> QED BY <1>4, <1>5, <1>6, <1>7 DEF Shape

LEMMA ShapePut ==
  ASSUME Shape, serial_putchar
  PROVE  Shape'
<1>0. SerialType /\ Nesting /\ ChipSetUp /\ Room
  BY DEF Shape
<1>1. /\ frames # <<>> /\ Top.text # <<>> /\ Top.ready
      /\ TopBecomes(frames, frames', Tail(Top.text), FALSE)
      /\ uart' \in UartTypes
      /\ uart'.chip = uart.chip /\ uart'.depth = uart.depth /\ uart'.loop = uart.loop
      /\ UNCHANGED <<line, msgs, intr, ticks, keys>>
  BY <1>0, PutStep
<1>2. Len(frames) \in {1, 2} /\ frames \in Seq(Frames)
  BY <1>0, <1>1, Depths
<1>3. /\ frames' \in Seq(Frames) /\ Len(frames') = Len(frames) /\ frames' # <<>>
      /\ frames'[1].msg = frames[1].msg
      /\ Len(frames) = 1 => Top = frames[1] /\ frames'[1].ready = FALSE
      /\ Len(frames) = 2 => /\ Top = frames[2] /\ frames'[2].msg = frames[2].msg
                            /\ frames'[1] = frames[1] /\ frames'[2].ready = FALSE
                            /\ frames'[2].text = Tail(frames[2].text)
  <2>1. CASE Len(frames) = 1
    BY <1>1, <2>1 DEF TopBecomes, Top
  <2>2. CASE Len(frames) = 2
    BY <1>1, <2>2 DEF TopBecomes, Top
  <2> QED BY <1>2, <2>1, <2>2
<1>4. SerialType'
  BY <1>0, <1>1, <1>3 DEF SerialType
<1>5. Nesting'
  <2>1. Len(frames) = 2 => frames'[2].text \in Seq(Literals)
    <3>1. SUFFICES ASSUME Len(frames) = 2 PROVE frames'[2].text \in Seq(Literals)
      OBVIOUS
    <3>2. frames[2].text \in Seq(Literals) /\ frames[2].text # <<>>
      BY <1>0, <1>1, <1>3, <3>1 DEF Nesting
    <3>3. Tail(frames[2].text) \in Seq(Literals)
      BY <3>2, HeadTailProperties
    <3> QED BY <1>3, <3>1, <3>3
  <2> QED BY <1>0, <1>1, <1>3, <2>1 DEF Nesting
<1>6. ChipSetUp'
  BY <1>0, <1>1, <1>3 DEF ChipSetUp
<1>7. Room'
  <2>1. SUFFICES ASSUME uart.chip = "good"
                 PROVE  /\ Len(uart'.fifo) <= 2
                        /\ frames'[1].ready => Len(uart'.fifo) <= 1
                        /\ Len(frames') = 2 /\ frames'[2].ready => Len(uart'.fifo) = 0
    BY <1>1 DEF Room
  <2>2. uart.fifo \in Seq(Entries) /\ Len(uart.fifo) \in Nat
    BY <1>0 DEF SerialType, UartTypes
  <2>3. Len(uart'.fifo) \in Nat /\ Len(uart'.fifo) <= Len(uart.fifo) + 1
    <3>1. PICK e \in Entries : uart'.fifo = uart.fifo \/ uart'.fifo = Append(uart.fifo, e)
      BY <1>0, PutStep
    <3>2. Len(Append(uart.fifo, e)) = Len(uart.fifo) + 1
      BY <2>2, AppendProperties
    <3> QED BY <2>2, <3>1, <3>2
  <2>4. CASE Len(frames) = 1
    <3>1. Len(uart.fifo) <= 1 /\ Len(frames') # 2 /\ ~frames'[1].ready
      BY <1>0, <1>1, <1>3, <2>1, <2>4 DEF Room
    <3> QED BY <2>2, <2>3, <3>1
  <2>5. CASE Len(frames) = 2
    <3>1. Len(uart.fifo) = 0 /\ ~frames'[2].ready
      BY <1>0, <1>1, <1>3, <2>1, <2>5 DEF Room
    <3> QED BY <2>2, <2>3, <3>1
  <2> QED BY <1>2, <2>4, <2>5
<1> QED BY <1>4, <1>5, <1>6, <1>7 DEF Shape

LEMMA ShapeSend ==
  ASSUME Shape, Send
  PROVE  Shape'
<1>0. SerialType /\ Nesting /\ ChipSetUp /\ Room
  BY DEF Shape
<1>1. /\ uart' \in UartTypes /\ line' \in Seq(Entries)
      /\ uart'.chip = uart.chip /\ uart'.depth = uart.depth /\ uart'.loop = uart.loop
      /\ Len(uart'.fifo) = Len(uart.fifo) - 1 /\ uart.fifo # <<>>
      /\ uart.loop => line' = <<>>
      /\ UNCHANGED <<msgs, frames, intr, ticks, keys>>
  BY <1>0, SendStep
<1>2. SerialType'
  BY <1>0, <1>1 DEF SerialType
<1>3. frames # <<>>
  BY <1>0, <1>1 DEF Nesting
<1>4. Nesting'
  BY <1>0, <1>1, <1>3 DEF Nesting
<1>5. ChipSetUp'
  BY <1>0, <1>1, <1>3 DEF ChipSetUp
<1>6. Room'
  <2>1. Len(uart.fifo) \in Nat \ {0}
    <3>1. uart.fifo \in Seq(Entries)
      BY <1>0 DEF SerialType, UartTypes
    <3> QED BY <1>1, <3>1, EmptySeq
  <2>2. Len(uart'.fifo) <= Len(uart.fifo) /\ Len(uart.fifo) # 0
        /\ (Len(uart.fifo) <= 2 => Len(uart'.fifo) <= 2)
        /\ (Len(uart.fifo) <= 1 => Len(uart'.fifo) <= 1)
    BY <1>1, <2>1
  <2> QED BY <1>0, <1>1, <1>3, <2>2 DEF Room
<1> QED BY <1>2, <1>4, <1>5, <1>6 DEF Shape

LEMMA ShapeHandlers ==
  ASSUME Shape, TrapTimer \/ TrapKbd \/ TrapPF
  PROVE  Shape'
<1>0. SerialType /\ Nesting /\ ChipSetUp /\ Room /\ Len(msgs) \in Nat
  BY DEF Shape, SerialType
<1>1. Len(frames) = 1 /\ UNCHANGED <<uart, line>> /\ ticks' \in Nat /\ keys' \in Nat
  BY HandlersStep
<1>2. CASE UNCHANGED <<msgs, frames, intr>>
  <2>1. SerialType'
    BY <1>0, <1>1, <1>2 DEF SerialType
  <2>2. Nesting' /\ ChipSetUp' /\ Room'
    BY <1>0, <1>1, <1>2 DEF Nesting, ChipSetUp, Room
  <2> QED BY <2>1, <2>2 DEF Shape
<1>3. CASE ~ UNCHANGED <<msgs, frames, intr>>
  <2>1. PICK G, text, val : /\ text \in Seq(Literals) /\ val \in Nat
                            /\ G \in Seq(Frames) /\ Len(G) = 1
                            /\ G[1].msg = frames[1].msg /\ G[1].ready = frames[1].ready
                            /\ Enters(G, text, val)
    BY <1>3, HandlersStep
  <2>2. /\ frames' \in Seq(Frames) /\ Len(frames') = 2 /\ frames'[1] = G[1]
        /\ frames'[2].msg = Len(msgs) + 1 /\ frames'[2].text = text /\ frames'[2].ready = FALSE
        /\ msgs' \in Seq(Messages) /\ Len(msgs') = Len(msgs) + 1 /\ intr' = FALSE
    BY <2>1 DEF Enters
  <2>3. frames # <<>> /\ frames' # <<>>
    <3>1. Len(frames) # 0 /\ Len(frames') # 0
      BY <1>1, <2>2
    <3> QED BY <3>1, EmptySeq, Zenon
  <2>4. SerialType'
    BY <1>0, <1>1, <2>2 DEF SerialType
  <2>5. frames[1].msg = 1 /\ Len(msgs) >= 1
    BY <1>0, <2>3 DEF Nesting
  <2>6. Len(msgs') >= 2 /\ Len(msgs') >= 1 /\ Len(frames') <= 2
    <3>1. \A n \in Nat : n >= 1 => n + 1 >= 2 /\ n + 1 >= 1
      OBVIOUS
    <3> QED BY <1>0, <2>2, <2>5, <3>1
  <2>7. Nesting'
    BY <2>1, <2>2, <2>3, <2>5, <2>6 DEF Nesting
  <2>8. ChipSetUp'
    BY <1>0, <1>1, <2>3 DEF ChipSetUp
  <2>9. Room'
    BY <1>0, <1>1, <2>1, <2>2, <2>3 DEF Room
  <2> QED BY <2>4, <2>7, <2>8, <2>9 DEF Shape
<1> QED BY <1>2, <1>3

LEMMA ShapeIret ==
  ASSUME Shape, Iret
  PROVE  Shape'
<1>0. SerialType /\ Nesting /\ ChipSetUp /\ Room
  BY DEF Shape
<1>1. /\ Len(frames) = 2 /\ frames' \in Seq(Frames) /\ Len(frames') = 1 /\ frames'[1] = frames[1]
      /\ intr' \in BOOLEAN /\ UNCHANGED <<uart, line, msgs, ticks, keys>>
  BY <1>0, IretStep
<1>2. frames # <<>> /\ frames' # <<>> /\ Len(frames') # 2 /\ Len(frames') <= 2
  <2>1. Len(frames) # 0 /\ Len(frames') # 0 /\ Len(frames') # 2 /\ Len(frames') <= 2
    BY <1>1
  <2> QED BY <2>1, EmptySeq, Zenon
<1>3. SerialType'
  BY <1>0, <1>1 DEF SerialType
<1>4. Nesting' /\ ChipSetUp' /\ Room'
  BY <1>0, <1>1, <1>2 DEF Nesting, ChipSetUp, Room
<1> QED BY <1>3, <1>4 DEF Shape

LEMMA ShapeStep ==
  ASSUME Shape, [SerialNext]_serialVars
  PROVE  Shape'
<1>1. CASE Cpu
  BY <1>1, ShapePoll, ShapePut, ShapeHandlers, ShapeIret, ShapeBoot DEF Cpu
<1>2. CASE Send \/ TrapTimer \/ TrapKbd
  BY <1>2, ShapeSend, ShapeHandlers
<1>3. CASE UNCHANGED serialVars
  BY <1>3 DEF serialVars, Shape, SerialType, Nesting, ChipSetUp, Room
<1> QED BY <1>1, <1>2, <1>3 DEF SerialNext, PollAgain, Spin

-----------------------------------------------------------------------------
(* Lines stay whole.                                                       *)

Whole(A) ==
  \A j, k \in 1 .. Len(A) :
    A[j].msg = A[k].msg /\ A[j].msg # 1 => \A l \in j .. k : A[l].msg = A[j].msg

\* From the first character of message m on, all are its own.
Closing(A, m) ==
  \A j, k \in 1 .. Len(A) : j <= k /\ A[j].msg = m => A[k].msg = m

Known(A, n) == \A j \in 1 .. Len(A) : A[j].msg \in 1 .. n

LEMMA OrderOf ==
  /\ LinesWhole <=> Whole(Accepted)
  /\ Begun <=> Known(Accepted, Len(msgs))
  /\ StillOpen <=> (Len(frames) = 2 => Closing(Accepted, frames[2].msg))
BY DEF LinesWhole, Whole, Begun, Known, StillOpen, Closing

LEMMA OrderOfNext ==
  /\ LinesWhole' <=> Whole(Accepted')
  /\ Begun' <=> Known(Accepted', Len(msgs'))
  /\ StillOpen' <=> (Len(frames') = 2 => Closing(Accepted', frames'[2].msg))
BY DEF LinesWhole, Whole, Begun, Known, StillOpen, Closing

LEMMA AppendOrder ==
  ASSUME NEW A \in Seq(Entries), NEW e \in Entries, NEW n \in Nat, e.msg \in 1 .. n,
         Known(A, n), Whole(A), e.msg = 1 \/ Closing(A, e.msg)
  PROVE  /\ Known(Append(A, e), n) /\ Whole(Append(A, e))
         /\ Closing(A, e.msg) => Closing(Append(A, e), e.msg)
<1> DEFINE B == Append(A, e)
<1>1. Len(A) \in Nat /\ Len(B) = Len(A) + 1 /\ B[Len(A) + 1] = e
      /\ \A k \in 1 .. Len(A) : B[k] = A[k]
  BY AppendProperties
<1> HIDE DEF B
<1>2. Known(B, n)
  BY <1>1 DEF Known
<1>3. Closing(A, e.msg) => Closing(B, e.msg)
  <2>1. SUFFICES ASSUME Closing(A, e.msg), NEW j \in 1 .. Len(B), NEW k \in 1 .. Len(B),
                        j <= k, B[j].msg = e.msg
                 PROVE  B[k].msg = e.msg
    BY DEF Closing
  <2>2. CASE k = Len(A) + 1
    BY <1>1, <2>2
  <2>3. CASE k # Len(A) + 1
    <3>1. k \in 1 .. Len(A) /\ j \in 1 .. Len(A)
      BY <1>1, <2>1, <2>3
    <3> QED BY <1>1, <2>1, <3>1 DEF Closing
  <2> QED BY <2>2, <2>3
<1>4. Whole(B)
  <2>1. SUFFICES ASSUME NEW j \in 1 .. Len(B), NEW k \in 1 .. Len(B), B[j].msg = B[k].msg,
                        B[j].msg # 1, NEW l \in j .. k
                 PROVE  B[l].msg = B[j].msg
    BY DEF Whole
  <2>2. l \in 1 .. Len(B) /\ j <= l /\ l <= k
    BY <1>1
  <2>3. CASE k = Len(A) + 1
    <3>1. B[j].msg = e.msg /\ Closing(A, e.msg)
      BY <1>1, <2>1, <2>3
    <3> QED BY <1>3, <2>2, <3>1 DEF Closing
  <2>4. CASE k # Len(A) + 1
    <3>1. j \in 1 .. Len(A) /\ k \in 1 .. Len(A) /\ l \in 1 .. Len(A)
      BY <1>1, <2>2, <2>4
    <3>2. A[j].msg = A[k].msg /\ A[j].msg # 1
      BY <1>1, <2>1, <3>1
    <3>3. A[l].msg = A[j].msg
      BY <2>1, <3>1, <3>2 DEF Whole
    <3> QED BY <1>1, <3>1, <3>3
  <2> QED BY <2>3, <2>4
<1> QED BY <1>2, <1>3, <1>4 DEF B

LEMMA TailOrder ==
  ASSUME NEW A \in Seq(Entries), A # <<>>, NEW n \in Nat, Known(A, n), Whole(A)
  PROVE  /\ Known(Tail(A), n) /\ Whole(Tail(A))
         /\ \A m : Closing(A, m) => Closing(Tail(A), m)
<1> DEFINE B == Tail(A)
<1>1. Len(A) \in Nat \ {0} /\ Len(B) = Len(A) - 1 /\ \A k \in 1 .. Len(B) : B[k] = A[k + 1]
  BY HeadTailProperties, EmptySeq
<1> HIDE DEF B
<1>2. \A k \in 1 .. Len(B) : k + 1 \in 1 .. Len(A)
  BY <1>1
<1>3. Known(B, n)
  BY <1>1, <1>2 DEF Known
<1>4. ASSUME NEW m, Closing(A, m) PROVE Closing(B, m)
  <2>1. SUFFICES ASSUME NEW j \in 1 .. Len(B), NEW k \in 1 .. Len(B), j <= k, B[j].msg = m
                 PROVE  B[k].msg = m
    BY DEF Closing
  <2>2. j + 1 \in 1 .. Len(A) /\ k + 1 \in 1 .. Len(A) /\ j + 1 <= k + 1 /\ A[j + 1].msg = m
    BY <1>1, <1>2, <2>1
  <2>3. A[k + 1].msg = m
    BY <1>4, <2>2 DEF Closing
  <2> QED BY <1>1, <2>3
<1>5. Whole(B)
  <2>1. SUFFICES ASSUME NEW j \in 1 .. Len(B), NEW k \in 1 .. Len(B), B[j].msg = B[k].msg,
                        B[j].msg # 1, NEW l \in j .. k
                 PROVE  B[l].msg = B[j].msg
    BY DEF Whole
  <2>2. /\ j + 1 \in 1 .. Len(A) /\ k + 1 \in 1 .. Len(A) /\ l + 1 \in j + 1 .. k + 1
        /\ l \in 1 .. Len(B)
    BY <1>1, <1>2
  <2>3. A[j + 1].msg = A[k + 1].msg /\ A[j + 1].msg # 1
    BY <1>1, <2>1
  <2>4. A[l + 1].msg = A[j + 1].msg
    BY <2>2, <2>3 DEF Whole
  <2> QED BY <1>1, <2>2, <2>4
<1> QED BY <1>3, <1>4, <1>5 DEF B

Order == Begun /\ StillOpen /\ LinesWhole

LEMMA AcceptedType ==
  ASSUME SerialType
  PROVE  Accepted \in Seq(Entries)
<1>1. line \in Seq(Entries) /\ uart.fifo \in Seq(Entries)
  BY DEF SerialType, UartTypes
<1> QED BY <1>1, ConcatProperties DEF Accepted

LEMMA OrderPut ==
  ASSUME Shape, Order, serial_putchar
  PROVE  Order'
<1>0. SerialType /\ Nesting /\ Len(msgs) \in Nat
  BY DEF Shape, SerialType
<1>1. /\ frames # <<>> /\ TopBecomes(frames, frames', Tail(Top.text), FALSE) /\ msgs' = msgs
  BY <1>0, PutStep
<1>2. PICK e \in Entries : /\ e.msg = Top.msg
                           /\ Accepted' = Accepted \/ Accepted' = Append(Accepted, e)
  BY <1>0, PutStep
<1>3. Len(frames) \in {1, 2} /\ frames \in Seq(Frames)
  BY <1>0, <1>1, Depths
<1>4. Accepted \in Seq(Entries) /\ Known(Accepted, Len(msgs)) /\ Whole(Accepted)
      /\ (Len(frames) = 2 => Closing(Accepted, frames[2].msg))
  BY <1>0, AcceptedType, OrderOf DEF Order
<1>5. CASE Len(frames) = 1
  <2>1. Len(frames') # 2 /\ e.msg = 1
    BY <1>0, <1>1, <1>2, <1>5 DEF TopBecomes, Top, Nesting
  <2>2. 1 \in 1 .. Len(msgs)
    BY <1>0, <1>1 DEF Nesting
  <2>3. Known(Accepted', Len(msgs)) /\ Whole(Accepted')
    BY <1>0, <1>2, <1>4, <2>1, <2>2, AppendOrder
  <2> QED BY <1>1, <2>1, <2>3, OrderOfNext DEF Order
<1>6. CASE Len(frames) = 2
  <2>1. Len(frames') = 2 /\ frames'[2].msg = frames[2].msg /\ e.msg = frames[2].msg
    BY <1>1, <1>2, <1>6 DEF TopBecomes, Top
  <2>2. e.msg \in 1 .. Len(msgs)
    BY <1>0, <1>6, <2>1 DEF Nesting
  <2>3. Known(Accepted', Len(msgs)) /\ Whole(Accepted') /\ Closing(Accepted', e.msg)
    BY <1>0, <1>2, <1>4, <1>6, <2>1, <2>2, AppendOrder
  <2> QED BY <1>1, <2>1, <2>3, OrderOfNext DEF Order
<1> QED BY <1>3, <1>5, <1>6

LEMMA OrderSend ==
  ASSUME Shape, Order, Send
  PROVE  Order'
<1>0. SerialType /\ ChipSetUp /\ Len(msgs) \in Nat /\ uart.loop \in BOOLEAN
  BY DEF Shape, SerialType, UartTypes
<1>1. /\ ~uart.loop => Accepted' = Accepted
      /\ uart.loop => Accepted # <<>> /\ Accepted' = Tail(Accepted)
      /\ UNCHANGED <<msgs, frames>>
  BY <1>0, SendStep
<1>2. Accepted \in Seq(Entries) /\ Known(Accepted, Len(msgs)) /\ Whole(Accepted)
      /\ (Len(frames) = 2 => Closing(Accepted, frames[2].msg))
  BY <1>0, AcceptedType, OrderOf DEF Order
<1>3. Known(Accepted', Len(msgs)) /\ Whole(Accepted')
      /\ (Len(frames) = 2 => Closing(Accepted', frames[2].msg))
  <2>1. CASE uart.loop
    BY <1>0, <1>1, <1>2, <2>1, TailOrder
  <2>2. CASE ~uart.loop
    BY <1>1, <1>2, <2>2
  <2> QED BY <1>0, <2>1, <2>2
<1> QED BY <1>1, <1>3, OrderOfNext DEF Order

LEMMA OrderHandlers ==
  ASSUME Shape, Order, TrapTimer \/ TrapKbd \/ TrapPF
  PROVE  Order'
<1>0. SerialType /\ Len(msgs) \in Nat
  BY DEF Shape, SerialType
<1>1. UNCHANGED <<uart, line>> /\ Len(frames) = 1
  BY HandlersStep
<1>2. Accepted' = Accepted
  BY <1>1 DEF Accepted
<1>3. Accepted \in Seq(Entries) /\ Known(Accepted, Len(msgs)) /\ Whole(Accepted)
  BY <1>0, AcceptedType, OrderOf DEF Order
<1>4. CASE UNCHANGED <<msgs, frames, intr>>
  BY <1>1, <1>2, <1>3, <1>4, OrderOfNext DEF Order
<1>5. CASE ~ UNCHANGED <<msgs, frames, intr>>
  <2>1. PICK G, text, val : Len(G) = 1 /\ Enters(G, text, val)
    BY <1>5, HandlersStep
  <2>2. frames'[2].msg = Len(msgs) + 1 /\ Len(msgs') = Len(msgs) + 1
    BY <2>1 DEF Enters
  <2>3. Known(Accepted, Len(msgs) + 1)
    BY <1>0, <1>3 DEF Known
  <2>4. Closing(Accepted, Len(msgs) + 1)
    <3>1. \A j \in 1 .. Len(Accepted) : Accepted[j].msg # Len(msgs) + 1
      BY <1>0, <1>3 DEF Known
    <3> QED BY <3>1 DEF Closing
  <2> QED BY <1>2, <1>3, <2>2, <2>3, <2>4, OrderOfNext DEF Order
<1> QED BY <1>4, <1>5

LEMMA OrderStep ==
  ASSUME Shape, Order, [SerialNext]_serialVars
  PROVE  Order'
<1>0. SerialType /\ Nesting
  BY DEF Shape
<1>1. CASE serial_putchar
  BY <1>1, OrderPut
<1>2. CASE Send
  BY <1>2, OrderSend
<1>3. CASE TrapTimer \/ TrapKbd \/ TrapPF
  BY <1>3, OrderHandlers
<1>4. Known(Accepted, Len(msgs)) /\ Whole(Accepted)
      /\ (Len(frames) = 2 => Closing(Accepted, frames[2].msg))
  BY OrderOf DEF Order
<1>5. CASE Poll
  <2>1. /\ frames # <<>> /\ TopBecomes(frames, frames', Top.text, TRUE)
        /\ UNCHANGED <<uart, line, msgs>>
    BY <1>0, <1>5, PollStep
  <2>2. Accepted' = Accepted
    BY <2>1 DEF Accepted
  <2>3. Len(frames') = Len(frames) /\ (Len(frames) = 2 => frames'[2].msg = frames[2].msg)
    BY <2>1 DEF TopBecomes
  <2> QED BY <1>4, <2>1, <2>2, <2>3, OrderOfNext DEF Order
<1>6. CASE Iret
  <2>1. Len(frames') = 1 /\ UNCHANGED <<uart, line, msgs>>
    BY <1>0, <1>6, IretStep
  <2>2. Accepted' = Accepted
    BY <2>1 DEF Accepted
  <2> QED BY <1>4, <2>1, <2>2, OrderOfNext DEF Order
<1>7. ASSUME NEW s \in Scripts, serial_init(s) PROVE Order'
  <2>1. line' = <<>> /\ uart'.fifo = <<>> /\ Len(frames') = 1
    BY <1>0, <1>7, BootStep
  <2>2. Accepted' = <<>>
    BY <2>1, EmptySeq, ConcatEmptySeq DEF Accepted
  <2>3. Len(Accepted') = 0
    BY <2>2, EmptySeq
  <2>4. \A j \in 1 .. Len(Accepted') : FALSE
    BY <2>3
  <2>5. Known(Accepted', Len(msgs')) /\ Whole(Accepted')
    BY <2>4 DEF Known, Whole
  <2> QED BY <2>1, <2>5, OrderOfNext DEF Order
<1>8. CASE UNCHANGED serialVars
  <2>1. UNCHANGED <<uart, line, msgs, frames>>
    BY <1>8 DEF serialVars
  <2>2. Accepted' = Accepted
    BY <2>1 DEF Accepted
  <2> QED BY <1>4, <2>1, <2>2, OrderOfNext DEF Order
<1> QED BY <1>1, <1>2, <1>3, <1>5, <1>6, <1>7, <1>8 DEF SerialNext, Cpu, PollAgain, Spin

-----------------------------------------------------------------------------
(* No character is lost.                                                   *)

Still(F, id) ==
  LET at == {k \in 1 .. Len(F) : F[k].msg = id}
  IN IF at = {} THEN <<>> ELSE F[CHOOSE k \in at : TRUE].text

\* Message id, begun with text x, is accounted for.
Exact(A, F, id, x) == NoFault(x) = CharsIn(A, id) \o NoFault(Still(F, id))

LEMMA ExactOf ==
  /\ NoneLost <=> (uart.chip = "good" =>
                     \A id \in 1 .. Len(msgs) : Exact(Accepted, frames, id, msgs[id].text))
  /\ NoneLost' <=> (uart'.chip = "good" =>
                     \A id \in 1 .. Len(msgs') : Exact(Accepted', frames', id, msgs'[id].text))
<1>1. NoneLost <=> (uart.chip = "good" =>
                      \A id \in 1 .. Len(msgs) : Exact(Accepted, frames, id, msgs[id].text))
  BY DEF NoneLost, Exact, StillToPrint, Still, CharsOf, CharsIn
<1>2. NoneLost' <=> (uart'.chip = "good" =>
                      \A id \in 1 .. Len(msgs') : Exact(Accepted', frames', id, msgs'[id].text))
  BY DEF NoneLost, Exact, StillToPrint, Still, CharsOf, CharsIn
<1> QED BY <1>1, <1>2

\* The messages of the frames differ, so a message has one rest.
LEMMA StillAt ==
  ASSUME NEW F, NEW k \in 1 .. Len(F), NEW id, F[k].msg = id,
         \A j \in 1 .. Len(F) : F[j].msg = id => j = k
  PROVE  Still(F, id) = F[k].text
<1> DEFINE at == {j \in 1 .. Len(F) : F[j].msg = id}
<1>1. at = {k}
  OBVIOUS
<1>2. at # {} /\ (CHOOSE j \in at : TRUE) = k
  BY <1>1
<1> QED BY <1>2 DEF Still

LEMMA StillNone ==
  ASSUME NEW F, NEW id, \A j \in 1 .. Len(F) : F[j].msg # id
  PROVE  Still(F, id) = <<>>
BY DEF Still

LEMMA StillOne ==
  ASSUME NEW F, Len(F) = 1, F[1].msg = 1
  PROVE  /\ Still(F, 1) = F[1].text
         /\ \A id : id # 1 => Still(F, id) = <<>>
<1>1. \A j \in 1 .. Len(F) : j = 1
  OBVIOUS
<1>2. 1 \in 1 .. Len(F)
  OBVIOUS
<1>3. Still(F, 1) = F[1].text
  BY <1>1, <1>2, StillAt
<1>4. ASSUME NEW id, id # 1 PROVE Still(F, id) = <<>>
  <2>1. \A j \in 1 .. Len(F) : F[j].msg # id
    BY <1>1, <1>4
  <2> QED BY <2>1, StillNone
<1> QED BY <1>3, <1>4

LEMMA StillTwo ==
  ASSUME NEW F, Len(F) = 2, F[1].msg = 1, F[2].msg # 1
  PROVE  /\ Still(F, 1) = F[1].text
         /\ Still(F, F[2].msg) = F[2].text
         /\ \A id : id # 1 /\ id # F[2].msg => Still(F, id) = <<>>
<1>1. \A j \in 1 .. Len(F) : j = 1 \/ j = 2
  OBVIOUS
<1>2. 1 \in 1 .. Len(F) /\ 2 \in 1 .. Len(F)
  OBVIOUS
<1>3. Still(F, 1) = F[1].text
  <2>1. \A j \in 1 .. Len(F) : F[j].msg = 1 => j = 1
    BY <1>1
  <2> QED BY <1>2, <2>1, StillAt
<1>4. Still(F, F[2].msg) = F[2].text
  <2>1. \A j \in 1 .. Len(F) : F[j].msg = F[2].msg => j = 2
    BY <1>1
  <2> QED BY <1>2, <2>1, StillAt
<1>5. ASSUME NEW id, id # 1 /\ id # F[2].msg PROVE Still(F, id) = <<>>
  <2>1. \A j \in 1 .. Len(F) : F[j].msg # id
    BY <1>1, <1>5
  <2> QED BY <2>1, StillNone
<1> QED BY <1>3, <1>4, <1>5

LEMMA StillType ==
  ASSUME NEW F \in Seq(Frames), NEW id
  PROVE  Still(F, id) \in Seq(Chars)
<1> DEFINE at == {j \in 1 .. Len(F) : F[j].msg = id}
<1>1. CASE at = {}
  <2>1. Still(F, id) = <<>>
    BY <1>1 DEF Still
  <2> QED BY <2>1, EmptySeq
<1>2. CASE at # {}
  <2> DEFINE k == CHOOSE j \in at : TRUE
  <2>1. k \in at
    BY <1>2
  <2>2. k \in 1 .. Len(F) /\ Still(F, id) = F[k].text
    BY <1>2, <2>1 DEF Still
  <2> HIDE DEF k
  <2>3. F[k] \in Frames
    BY <2>2
  <2> QED BY <2>2, <2>3 DEF Frames
<1> QED BY <1>1, <1>2

\* The character written is the next one of the message.
LEMMA ExactPut ==
  ASSUME NEW A \in Seq(Entries), NEW e \in Entries, NEW F \in Seq(Frames), NEW G \in Seq(Frames),
         NEW id, NEW x, Exact(A, F, id, x),
         \/ /\ e.msg = id /\ Still(F, id) # <<>> /\ Still(G, id) = Tail(Still(F, id))
            /\ e.ch = Head(Still(F, id)) /\ e.ch # Fault
         \/ e.msg # id /\ Still(G, id) = Still(F, id)
  PROVE  Exact(Append(A, e), G, id, x)
<1>1. CharsIn(Append(A, e), id) = CharsIn(A, id) \o OwnOf(e, id)
  BY CharsAppend
<1>2. CharsIn(A, id) \in Seq(Chars)
  BY CharsAreFlat
<1>3. Still(F, id) \in Seq(Chars)
  BY StillType
<1>4. NoFault(x) = CharsIn(A, id) \o NoFault(Still(F, id))
  BY DEF Exact
<1>5. CASE e.msg = id /\ Still(F, id) # <<>> /\ Still(G, id) = Tail(Still(F, id))
           /\ e.ch = Head(Still(F, id)) /\ e.ch # Fault
  <2>1. NoFault(Tail(Still(F, id))) \in Seq(Chars)
        /\ NoFault(Still(F, id)) = Unfaulted(Head(Still(F, id))) \o NoFault(Tail(Still(F, id)))
    BY <1>3, <1>5, NoFaultHead
  <2>2. Unfaulted(Head(Still(F, id))) = <<e.ch>> /\ OwnOf(e, id) = <<e.ch>>
    BY <1>5 DEF Unfaulted, OwnOf
  <2>3. <<e.ch>> \in Seq(Chars)
    BY DEF Entries
  <2>4. \A p, q, r \in Seq(Chars) : (p \o q) \o r = p \o (q \o r)
    BY Associative, SMTT(60)
  <2>5. (CharsIn(A, id) \o <<e.ch>>) \o NoFault(Tail(Still(F, id)))
          = CharsIn(A, id) \o (<<e.ch>> \o NoFault(Tail(Still(F, id))))
    BY <1>2, <2>1, <2>3, <2>4
  <2> QED BY <1>1, <1>4, <1>5, <2>1, <2>2, <2>5 DEF Exact
<1>6. CASE e.msg # id /\ Still(G, id) = Still(F, id)
  <2>1. OwnOf(e, id) = <<>>
    BY <1>6 DEF OwnOf
  <2>2. CharsIn(A, id) \o <<>> = CharsIn(A, id)
    BY <1>2, ConcatEmptySeq
  <2> QED BY <1>1, <1>4, <1>6, <2>1, <2>2 DEF Exact
<1> QED BY <1>5, <1>6

\* A read that faulted is not a character.
LEMMA ExactFault ==
  ASSUME NEW A \in Seq(Entries), NEW F \in Seq(Frames), NEW G \in Seq(Frames),
         NEW id, NEW x, Exact(A, F, id, x),
         \/ Still(G, id) = Still(F, id)
         \/ /\ Still(F, id) # <<>> /\ Head(Still(F, id)) = Fault
            /\ Still(G, id) = Tail(Still(F, id))
  PROVE  Exact(A, G, id, x)
<1>1. CASE Still(G, id) = Still(F, id)
  BY <1>1 DEF Exact
<1>2. CASE /\ Still(F, id) # <<>> /\ Head(Still(F, id)) = Fault
           /\ Still(G, id) = Tail(Still(F, id))
  <2>1. Still(F, id) \in Seq(Chars)
    BY StillType
  <2>2. NoFault(Tail(Still(F, id))) \in Seq(Chars)
        /\ NoFault(Still(F, id)) = Unfaulted(Head(Still(F, id))) \o NoFault(Tail(Still(F, id)))
    BY <1>2, <2>1, NoFaultHead
  <2>3. Unfaulted(Head(Still(F, id))) = <<>>
    BY <1>2 DEF Unfaulted
  <2>4. <<>> \o NoFault(Tail(Still(F, id))) = NoFault(Tail(Still(F, id)))
    BY <2>2, ConcatEmptySeq
  <2> QED BY <1>2, <2>2, <2>3, <2>4 DEF Exact
<1> QED BY <1>1, <1>2

\* A message that begins.
LEMMA ExactNew ==
  ASSUME NEW A \in Seq(Entries), NEW F \in Seq(Frames), NEW id, NEW x \in Seq(Chars),
         \A k \in 1 .. Len(A) : A[k].msg # id, Still(F, id) = x
  PROVE  Exact(A, F, id, x)
<1>1. CharsIn(A, id) = <<>>
  BY CharsNone
<1>2. <<>> \o NoFault(x) = NoFault(x)
  BY NoFaultType, ConcatEmptySeq
<1> QED BY <1>1, <1>2 DEF Exact

\* A chip that works takes what is written: there is room for it.
LEMMA PutTaken ==
  ASSUME Shape, serial_putchar, uart.chip = "good"
  PROVE  \E e \in Entries : e.msg = Top.msg /\ e.ch = Head(Top.text) /\ Accepted' = Append(Accepted, e)
<1>0. SerialType /\ Nesting /\ ChipSetUp /\ Room
  BY DEF Shape
<1>1. frames # <<>> /\ Top.ready
  BY <1>0, PutStep
<1>2. Len(frames) \in {1, 2}
  BY <1>0, <1>1, Depths
<1>3. Len(uart.fifo) <= 1
  <2>1. CASE Len(frames) = 1
    BY <1>0, <1>1, <2>1 DEF Room, Top
  <2>2. CASE Len(frames) = 2
    <3>1. Len(uart.fifo) = 0
      BY <1>0, <1>1, <2>2 DEF Room, Top
    <3> QED BY <3>1
  <2> QED BY <1>2, <2>1, <2>2
<1>4. Len(uart.fifo) \in Nat /\ uart.depth = FifoSize /\ FifoSize \in Nat \ {0, 1}
  BY <1>0, <1>1, SerialAssumption DEF SerialType, UartTypes, ChipSetUp
<1>5. ~ (uart.chip = "absent" \/ Len(uart.fifo) >= uart.depth)
  <2>1. \A a \in Nat, b \in Nat \ {0, 1} : a <= 1 => ~ (a >= b)
    OBVIOUS
  <2> QED BY <1>3, <1>4, <2>1
<1> QED BY <1>0, <1>5, PutStep

LEMMA NoneLostPut ==
  ASSUME Shape, Order, NoneLost, serial_putchar
  PROVE  NoneLost'
<1>0. SerialType /\ Nesting
  BY DEF Shape
<1>1. /\ frames # <<>> /\ Top.text # <<>> /\ Head(Top.text) # Fault
      /\ TopBecomes(frames, frames', Tail(Top.text), FALSE)
      /\ uart'.chip = uart.chip /\ msgs' = msgs
  BY <1>0, PutStep
<1>2. SUFFICES ASSUME uart.chip = "good", NEW id \in 1 .. Len(msgs)
               PROVE  Exact(Accepted', frames', id, msgs[id].text)
  BY <1>1, ExactOf
<1>3. PICK e \in Entries : /\ e.msg = Top.msg /\ e.ch = Head(Top.text)
                           /\ Accepted' = Append(Accepted, e)
  BY <1>2, PutTaken
<1>4. Accepted \in Seq(Entries) /\ frames \in Seq(Frames) /\ frames' \in Seq(Frames)
      /\ Len(frames) \in {1, 2} /\ Len(frames') = Len(frames)
  BY <1>0, <1>1, AcceptedType, Depths DEF TopBecomes
<1>5. Exact(Accepted, frames, id, msgs[id].text)
  BY <1>2, ExactOf
<1>6. \/ /\ e.msg = id /\ Still(frames, id) # <<>> /\ Still(frames', id) = Tail(Still(frames, id))
         /\ e.ch = Head(Still(frames, id)) /\ e.ch # Fault
      \/ e.msg # id /\ Still(frames', id) = Still(frames, id)
  <2>1. CASE Len(frames) = 1
    <3>1. /\ Top = frames[1] /\ frames[1].msg = 1 /\ frames'[1].msg = 1
          /\ frames'[1].text = Tail(frames[1].text) /\ Len(frames') = 1
      BY <1>0, <1>1, <1>4, <2>1 DEF TopBecomes, Top, Nesting
    <3>2. /\ Still(frames, 1) = frames[1].text /\ Still(frames', 1) = frames'[1].text
          /\ id # 1 => Still(frames, id) = <<>> /\ Still(frames', id) = <<>>
      BY <2>1, <3>1, StillOne
    <3> QED BY <1>1, <1>3, <3>1, <3>2
  <2>2. CASE Len(frames) = 2
    <3>1. /\ Top = frames[2] /\ frames[1].msg = 1 /\ frames'[1] = frames[1]
          /\ frames[2].msg # 1 /\ frames'[2].msg = frames[2].msg
          /\ frames'[2].text = Tail(frames[2].text) /\ Len(frames') = 2
      BY <1>0, <1>1, <1>4, <2>2 DEF TopBecomes, Top, Nesting
    <3>2. /\ Still(frames, 1) = frames[1].text /\ Still(frames, frames[2].msg) = frames[2].text
          /\ id # 1 /\ id # frames[2].msg => Still(frames, id) = <<>>
      BY <2>2, <3>1, StillTwo
    <3>3. /\ Still(frames', 1) = frames[1].text
          /\ Still(frames', frames[2].msg) = frames'[2].text
          /\ id # 1 /\ id # frames[2].msg => Still(frames', id) = <<>>
      BY <2>2, <3>1, StillTwo
    <3> QED BY <1>1, <1>3, <3>1, <3>2, <3>3
  <2> QED BY <1>4, <2>1, <2>2
<1>7. Exact(Append(Accepted, e), frames', id, msgs[id].text)
  BY <1>4, <1>5, <1>6, ExactPut
<1> QED BY <1>3, <1>7

LEMMA NoneLostHandlers ==
  ASSUME Shape, Order, NoneLost, TrapTimer \/ TrapKbd \/ TrapPF
  PROVE  NoneLost'
<1>0. SerialType /\ Nesting /\ Len(msgs) \in Nat /\ frames \in Seq(Frames) /\ Accepted \in Seq(Entries)
  BY AcceptedType DEF Shape, SerialType
<1>1. UNCHANGED <<uart, line>> /\ Len(frames) = 1
  BY HandlersStep
<1>2. Accepted' = Accepted
  BY <1>1 DEF Accepted
<1>3. CASE UNCHANGED <<msgs, frames, intr>>
  BY <1>1, <1>2, <1>3, ExactOf
<1>4. CASE ~ UNCHANGED <<msgs, frames, intr>>
  <2>1. PICK G, text, val :
               /\ text \in Seq(Literals) /\ val \in Nat
               /\ val # 0 => text = TickLine(val)
               /\ G \in Seq(Frames) /\ Len(G) = 1
               /\ G[1].msg = frames[1].msg /\ G[1].ready = frames[1].ready
               /\ \/ G[1].text = frames[1].text
                  \/ /\ frames[1].text # <<>> /\ Head(frames[1].text) = Fault
                     /\ G[1].text = Tail(frames[1].text)
               /\ Enters(G, text, val)
    BY <1>4, HandlersStep
  <2>2. /\ frames' \in Seq(Frames) /\ Len(frames') = 2 /\ frames'[1] = G[1]
        /\ frames'[2].msg = Len(msgs) + 1 /\ frames'[2].text = text
        /\ Len(msgs') = Len(msgs) + 1 /\ msgs'[Len(msgs) + 1].text = text
        /\ \A id \in 1 .. Len(msgs) : msgs'[id] = msgs[id]
    BY <2>1 DEF Enters
  <2>3. frames # <<>>
    <3>1. Len(frames) # 0
      BY <1>1
    <3> QED BY <3>1, EmptySeq, Zenon
  <2>4. frames[1].msg = 1 /\ Len(msgs) >= 1
    BY <1>0, <2>3 DEF Nesting
  <2>5. frames'[1].msg = 1 /\ frames'[2].msg # 1
    BY <1>0, <2>1, <2>2, <2>4
  <2>6. /\ Still(frames, 1) = frames[1].text
        /\ \A id : id # 1 => Still(frames, id) = <<>>
    BY <1>1, <2>4, StillOne
  <2>7. /\ Still(frames', 1) = frames'[1].text
        /\ Still(frames', Len(msgs) + 1) = text
        /\ \A id : id # 1 /\ id # Len(msgs) + 1 => Still(frames', id) = <<>>
    BY <2>2, <2>5, StillTwo
  <2>8. ASSUME uart.chip = "good", NEW id \in 1 .. Len(msgs')
        PROVE  Exact(Accepted', frames', id, msgs'[id].text)
    <3>1. CASE id = Len(msgs) + 1
      <4>1. \A k \in 1 .. Len(Accepted) : Accepted[k].msg # id
        BY <1>0, <3>1 DEF Order, Begun
      <4>2. text \in Seq(Chars)
        BY <2>1, LiteralsAreChars
      <4>3. Exact(Accepted, frames', id, text)
        BY <1>0, <2>2, <2>7, <3>1, <4>1, <4>2, ExactNew
      <4> QED BY <1>2, <2>2, <3>1, <4>3
    <3>2. CASE id # Len(msgs) + 1
      <4>1. id \in 1 .. Len(msgs)
        BY <1>0, <2>2, <2>8, <3>2
      <4>2. Exact(Accepted, frames, id, msgs[id].text)
        BY <2>8, <4>1, ExactOf
      <4>3. \/ Still(frames', id) = Still(frames, id)
            \/ /\ Still(frames, id) # <<>> /\ Head(Still(frames, id)) = Fault
               /\ Still(frames', id) = Tail(Still(frames, id))
        <5>1. CASE id = 1
          BY <2>1, <2>2, <2>6, <2>7, <5>1
        <5>2. CASE id # 1
          BY <2>6, <2>7, <3>2, <5>2
        <5> QED BY <5>1, <5>2
      <4>4. Exact(Accepted, frames', id, msgs[id].text)
        BY <1>0, <2>2, <4>2, <4>3, ExactFault
      <4> QED BY <1>2, <2>2, <4>1, <4>4
    <3> QED BY <3>1, <3>2
  <2> QED BY <1>1, <2>8, ExactOf
<1> QED BY <1>3, <1>4

\* Steps that write nothing and end no text but an empty one.
LEMMA NoneLostSame ==
  ASSUME NoneLost, uart'.chip = uart.chip, msgs' = msgs,
         uart.chip = "good" => Accepted' = Accepted,
         \A id : Still(frames', id) = Still(frames, id)
  PROVE  NoneLost'
<1>1. SUFFICES ASSUME uart.chip = "good", NEW id \in 1 .. Len(msgs)
               PROVE  Exact(Accepted', frames', id, msgs[id].text)
  BY ExactOf
<1>2. Exact(Accepted, frames, id, msgs[id].text)
  BY <1>1, ExactOf
<1> QED BY <1>1, <1>2 DEF Exact

LEMMA NoneLostStep ==
  ASSUME Shape, Order, NoneLost, [SerialNext]_serialVars
  PROVE  NoneLost'
<1>0. SerialType /\ Nesting /\ ChipSetUp
  BY DEF Shape
<1>1. CASE serial_putchar
  BY <1>1, NoneLostPut
<1>2. CASE TrapTimer \/ TrapKbd \/ TrapPF
  BY <1>2, NoneLostHandlers
<1>3. CASE Send
  <2>1. /\ uart'.chip = uart.chip /\ uart.fifo # <<>> /\ UNCHANGED <<msgs, frames>>
        /\ ~uart.loop => Accepted' = Accepted
    BY <1>0, <1>3, SendStep
  <2>2. frames # <<>>
    BY <1>0, <2>1 DEF Nesting
  <2>3. uart.chip = "good" => ~uart.loop
    BY <1>0, <2>2 DEF ChipSetUp
  <2> QED BY <2>1, <2>3, NoneLostSame
<1>4. CASE Poll
  <2>1. /\ frames # <<>> /\ TopBecomes(frames, frames', Top.text, TRUE)
        /\ UNCHANGED <<uart, line, msgs>>
    BY <1>0, <1>4, PollStep
  <2>2. Accepted' = Accepted
    BY <2>1 DEF Accepted
  <2>3. Len(frames) \in {1, 2}
    BY <1>0, <2>1, Depths
  <2>4. ASSUME NEW id PROVE Still(frames', id) = Still(frames, id)
    <3>1. CASE Len(frames) = 1
      <4>1. /\ frames[1].msg = 1 /\ frames'[1].msg = 1 /\ Len(frames') = 1
            /\ frames'[1].text = frames[1].text
        BY <1>0, <2>1, <3>1 DEF TopBecomes, Top, Nesting
      <4> QED BY <3>1, <4>1, StillOne
    <3>2. CASE Len(frames) = 2
      <4>1. /\ frames[1].msg = 1 /\ frames'[1] = frames[1] /\ Len(frames') = 2
            /\ frames[2].msg # 1 /\ frames'[2].msg = frames[2].msg
            /\ frames'[2].text = frames[2].text
        BY <1>0, <2>1, <3>2 DEF TopBecomes, Top, Nesting
      <4>2. /\ Still(frames, 1) = frames[1].text /\ Still(frames, frames[2].msg) = frames[2].text
            /\ id # 1 /\ id # frames[2].msg => Still(frames, id) = <<>>
        BY <3>2, <4>1, StillTwo
      <4>3. /\ Still(frames', 1) = frames[1].text
            /\ Still(frames', frames[2].msg) = frames[2].text
            /\ id # 1 /\ id # frames[2].msg => Still(frames', id) = <<>>
        BY <4>1, StillTwo
      <4> QED BY <4>2, <4>3
    <3> QED BY <2>3, <3>1, <3>2
  <2> QED BY <2>1, <2>2, <2>4, NoneLostSame
<1>5. CASE Iret
  <2>1. /\ Len(frames) = 2 /\ frames[2].text = <<>> /\ Len(frames') = 1 /\ frames'[1] = frames[1]
        /\ UNCHANGED <<uart, line, msgs>>
    BY <1>0, <1>5, IretStep
  <2>2. Accepted' = Accepted
    BY <2>1 DEF Accepted
  <2>3. frames # <<>>
    <3>1. Len(frames) # 0
      BY <2>1
    <3> QED BY <3>1, EmptySeq, Zenon
  <2>4. frames[1].msg = 1 /\ frames[2].msg # 1
    BY <1>0, <2>1, <2>3 DEF Nesting
  <2>5. ASSUME NEW id PROVE Still(frames', id) = Still(frames, id)
    <3>1. /\ Still(frames', 1) = frames[1].text
          /\ id # 1 => Still(frames', id) = <<>>
      BY <2>1, <2>4, StillOne
    <3>2. /\ Still(frames, 1) = frames[1].text /\ Still(frames, frames[2].msg) = <<>>
          /\ id # 1 /\ id # frames[2].msg => Still(frames, id) = <<>>
      BY <2>1, <2>4, StillTwo
    <3> QED BY <3>1, <3>2
  <2> QED BY <2>1, <2>2, <2>5, NoneLostSame
<1>6. ASSUME NEW s \in Scripts, serial_init(s) PROVE NoneLost'
  <2>1. /\ line' = <<>> /\ uart'.fifo = <<>> /\ frames' \in Seq(Frames) /\ Len(frames') = 1
        /\ frames'[1].msg = 1 /\ frames'[1].text = Text(s.calls) /\ Len(msgs') = 1
        /\ msgs'[1].text = Text(s.calls) /\ Text(s.calls) \in Seq(Chars)
    BY <1>0, <1>6, BootStep
  <2>2. Accepted' = <<>>
    BY <2>1, EmptySeq, ConcatEmptySeq DEF Accepted
  <2>3. Still(frames', 1) = Text(s.calls)
    BY <2>1, StillOne
  <2>4. Exact(Accepted', frames', 1, Text(s.calls))
    <3>1. Accepted' \in Seq(Entries) /\ \A k \in 1 .. Len(Accepted') : Accepted'[k].msg # 1
      BY <2>2, EmptySeq
    <3> QED BY <2>1, <2>3, <3>1, ExactNew
  <2>5. \A id \in 1 .. Len(msgs') : id = 1
    BY <2>1
  <2> QED BY <2>1, <2>4, <2>5, ExactOf
<1>7. CASE UNCHANGED serialVars
  <2>1. UNCHANGED <<uart, line, msgs, frames>>
    BY <1>7 DEF serialVars
  <2>2. Accepted' = Accepted
    BY <2>1 DEF Accepted
  <2> QED BY <2>1, <2>2, NoneLostSame
<1> QED BY <1>1, <1>2, <1>3, <1>4, <1>5, <1>6, <1>7 DEF SerialNext, Cpu, PollAgain, Spin

LEMMA StampedStep ==
  ASSUME Shape, Stamped, [SerialNext]_serialVars
  PROVE  Stamped'
<1>0. SerialType /\ Nesting /\ ChipSetUp /\ Len(msgs) \in Nat
  BY DEF Shape, SerialType
<1>1. CASE msgs' = msgs
  BY <1>1 DEF Stamped
<1>2. CASE TrapTimer \/ TrapKbd \/ TrapPF
  <2>1. CASE UNCHANGED <<msgs, frames, intr>>
    BY <1>1, <2>1
  <2>2. CASE ~ UNCHANGED <<msgs, frames, intr>>
    <3>1. PICK G, text, val : /\ val # 0 => text = TickLine(val)
                              /\ Enters(G, text, val)
      BY <1>2, <2>2, HandlersStep
    <3>2. /\ Len(msgs') = Len(msgs) + 1
          /\ msgs'[Len(msgs) + 1].text = text /\ msgs'[Len(msgs) + 1].val = val
          /\ \A id \in 1 .. Len(msgs) : msgs'[id] = msgs[id]
      BY <3>1 DEF Enters
    <3>3. ASSUME NEW id \in 1 .. Len(msgs'), msgs'[id].val # 0
          PROVE  msgs'[id].text = TickLine(msgs'[id].val)
      <4>1. CASE id = Len(msgs) + 1
        BY <3>1, <3>2, <3>3, <4>1
      <4>2. CASE id # Len(msgs) + 1
        <5>1. id \in 1 .. Len(msgs)
          BY <1>0, <3>2, <4>2
        <5> QED BY <3>2, <3>3, <5>1 DEF Stamped
      <4> QED BY <4>1, <4>2
    <3> QED BY <3>3 DEF Stamped
  <2> QED BY <2>1, <2>2
<1>3. ASSUME NEW s \in Scripts, serial_init(s) PROVE Stamped'
  <2>1. Len(msgs') = 1 /\ msgs'[1].val = 0
    BY <1>0, <1>3, BootStep
  <2>2. \A id \in 1 .. Len(msgs') : id = 1
    BY <2>1
  <2> QED BY <2>1, <2>2 DEF Stamped
<1>4. CASE serial_putchar \/ Poll \/ Send \/ Iret \/ UNCHANGED serialVars
  <2>1. msgs' = msgs
    BY <1>4 DEF serial_putchar, Poll, Send, Iret, serialVars
  <2> QED BY <1>1, <2>1
<1> QED BY <1>2, <1>3, <1>4 DEF SerialNext, Cpu, PollAgain, Spin

-----------------------------------------------------------------------------
(* The theorems.                                                           *)

LEMMA SerialInvInit == SerialInit => SerialInv
<1> SUFFICES ASSUME SerialInit PROVE SerialInv
  OBVIOUS
<1>1. /\ line = <<>> /\ msgs = <<>> /\ frames = <<>> /\ intr = FALSE /\ ticks = 0 /\ keys = 0
      /\ uart \in [chip : {"good", "faulty", "absent"}, depth : {1}, loop : {FALSE}, fifo : {<<>>}]
  BY DEF SerialInit
<1>2. /\ uart.fifo = <<>> /\ uart.loop = FALSE /\ uart \in UartTypes
  <2>1. <<>> \in Seq(Entries)
    BY EmptySeq
  <2>2. uart.fifo = <<>> /\ uart.loop = FALSE /\ uart.depth = 1
    BY <1>1
  <2>3. ASSUME NEW C, NEW D, NEW D2, NEW L, NEW L2, NEW Q, NEW Q2,
               D \subseteq D2, L \subseteq L2, Q \subseteq Q2
        PROVE  [chip : C, depth : D, loop : L, fifo : Q]
                 \subseteq [chip : C, depth : D2, loop : L2, fifo : Q2]
    BY <2>3
  <2>4. {1} \subseteq Nat /\ {FALSE} \subseteq BOOLEAN /\ {<<>>} \subseteq Seq(Entries)
    BY <2>1
  <2>5. uart \in UartTypes
    BY <1>1, <2>3, <2>4, Zenon DEF UartTypes
  <2> QED BY <2>2, <2>5
<1>3. Len(frames) = 0 /\ Len(msgs) = 0
  BY <1>1, EmptySeq
<1>4. Shape
  <2>0. <<>> \in Seq(Entries) /\ <<>> \in Seq(Messages) /\ <<>> \in Seq(Frames)
    BY EmptySeq
  <2>1. SerialType
    BY <1>1, <1>2, <2>0 DEF SerialType
  <2>2. Nesting /\ ChipSetUp /\ Room
    BY <1>1, <1>2, <1>3 DEF Nesting, ChipSetUp, Room
  <2> QED BY <2>1, <2>2 DEF Shape
<1>5. Accepted = <<>>
  BY <1>1, <1>2, EmptySeq, ConcatEmptySeq DEF Accepted
<1>6. Len(Accepted) = 0
  BY <1>5, EmptySeq
<1>7. (\A j \in 1 .. Len(Accepted) : FALSE) /\ (\A id \in 1 .. Len(msgs) : FALSE)
  BY <1>3, <1>6
<1>8. Begun /\ StillOpen /\ LinesWhole
  BY <1>3, <1>7 DEF Begun, StillOpen, LinesWhole
<1>9. NoneLost /\ Stamped
  BY <1>7 DEF NoneLost, Stamped
<1> QED BY <1>4, <1>8, <1>9 DEF SerialInv

LEMMA SerialInvStep == SerialInv /\ [SerialNext]_serialVars => SerialInv'
<1> SUFFICES ASSUME SerialInv, [SerialNext]_serialVars PROVE SerialInv'
  OBVIOUS
<1>1. Shape /\ Order /\ NoneLost /\ Stamped
  BY DEF SerialInv, Order
<1>2. Shape' /\ Order' /\ NoneLost' /\ Stamped'
  BY <1>1, ShapeStep, OrderStep, NoneLostStep, StampedStep
<1> QED BY <1>2 DEF SerialInv, Order

LEMMA SerialInductive == SerialSpec => []SerialInv
BY SerialInvInit, SerialInvStep, PTL DEF SerialSpec

\* A handler's line is never split, whatever the kernel prints, however many
\* interrupts come, and with a UART that works, is faulty or is absent.
THEOREM LinesStayWhole == SerialSpec => []LinesWhole
BY SerialInductive, PTL DEF SerialInv

\* With a chip that works no character of any message is lost, doubled or
\* reordered, as long as the FIFO holds two; and the lines of the timer read
\* as the tick count, of however many digits.
THEOREM OutputIsExact == SerialSpec => []OutputExact
<1>1. SerialInv => OutputExact
  <2> SUFFICES ASSUME SerialInv PROVE OutputExact
    OBVIOUS
  <2>1. NoneLost /\ Stamped /\ msgs \in Seq(Messages)
    BY DEF SerialInv, Shape, SerialType
  <2>2. ASSUME NEW id \in 1 .. Len(msgs), msgs[id].val # 0
        PROVE  LET d == SubSeq(msgs[id].text, 2, Len(msgs[id].text) - 1)
               IN d[1] # "0" /\ Decimal(d) = msgs[id].val
    <3>1. msgs[id] \in Messages
      BY <2>1
    <3>2. msgs[id].val \in Nat \ {0} /\ msgs[id].text = TickLine(msgs[id].val)
      BY <2>1, <2>2, <3>1 DEF Messages, Stamped
    <3> QED BY <3>2, TickLineReads
  <2> QED BY <2>1, <2>2 DEF OutputExact, NoneLost
<1> QED BY <1>1, SerialInductive, PTL
=============================================================================
