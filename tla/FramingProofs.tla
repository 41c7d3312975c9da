--------------------------- MODULE FramingProofs ----------------------------
(***************************************************************************)
(* Theorems about Framing: numbers and requests survive being written and  *)
(* read, Decode finds the first frame and nothing before it is there, and  *)
(* StreamKept, for any requests and payloads, any number of frames and any *)
(* width of int, wherever the stream is cut.                               *)
(***************************************************************************)
EXTENDS Framing, SequenceTheorems, NaturalsInduction, WellFoundedInduction,
        TLAPS

(* Induction on the natural numbers, as the existence of a least one.      *)
LEMMA LeastNatural ==
  ASSUME NEW T \in SUBSET Nat, T # {}
  PROVE  \E m \in T : \A k \in T : m <= k
<1>1. IsWellFoundedOn(OpToRel(<, Nat), Nat)
  BY NatLessThanWellFounded
<1>2. PICK m \in T : \A k \in T : ~(<<k, m>> \in OpToRel(<, Nat))
  BY <1>1, WFMin
<1>3. ASSUME NEW k \in T
      PROVE  m <= k
  <2>1. ~(k < m)
    BY <1>2 DEF OpToRel
  <2> QED
    BY <2>1
<1> QED
  BY <1>3

LEMMA MinOf ==
  ASSUME NEW S, NEW m \in S, S \subseteq Int, \A k \in S : m <= k
  PROVE  Min(S) = m
<1>1. \E x \in S : \A y \in S : x <= y
  OBVIOUS
<1>2. Min(S) \in S /\ \A y \in S : Min(S) <= y
  BY <1>1, Zenon DEF Min
<1>3. Min(S) \in Int /\ m \in Int /\ Min(S) <= m /\ m <= Min(S)
  BY <1>2
<1> QED
  BY <1>3

LEMMA MaxOf ==
  ASSUME NEW S, NEW m \in S, S \subseteq Int, \A k \in S : k <= m
  PROVE  Max(S) = m
<1>1. \E x \in S : \A y \in S : x >= y
  OBVIOUS
<1>2. Max(S) \in S /\ \A y \in S : Max(S) >= y
  BY <1>1, Zenon DEF Max
<1>3. Max(S) \in Int /\ m \in Int /\ Max(S) >= m /\ Max(S) <= m
  BY <1>2
<1> QED
  BY <1>3

-----------------------------------------------------------------------------
(* Numbers.                                                                *)
Digit == Zero..(Zero + 9)

(* The function behind Decimal(n), and that there is one.                  *)
Writes(f, n) ==
  f = [m \in 0..n |-> IF m < 10 THEN <<Zero + m>>
                      ELSE Append(f[m \div 10], Zero + (m % 10))]

LEMMA Tenth ==
  ASSUME NEW m \in Nat, m >= 10
  PROVE  /\ m \div 10 \in Nat /\ m \div 10 < m /\ m \div 10 > 0
         /\ m % 10 \in 0..9
         /\ 10 * (m \div 10) + (m % 10) = m
OBVIOUS

LEMMA SomethingWrites ==
  ASSUME NEW n \in Nat
  PROVE  \E f : Writes(f, n)
<1> DEFINE T == {k \in Nat : ~ \E f : Writes(f, k)}
<1>1. SUFFICES ASSUME T # {}
               PROVE  FALSE
  OBVIOUS
<1>2. PICK k \in T : \A j \in T : k <= j
  BY <1>1, LeastNatural
<1>3. CASE k = 0
  <2> DEFINE g == [m \in 0..0 |-> <<Zero + m>>]
  <2>1. Writes(g, 0)
    BY DEF Writes
  <2> QED
    BY <1>3, <2>1
<1>4. CASE k # 0
  <2>1. k - 1 \in Nat /\ k - 1 \notin T
    BY <1>2, <1>4
  <2>2. PICK f : Writes(f, k - 1)
    BY <2>1
  <2> DEFINE Body(m) == IF m < 10 THEN <<Zero + m>>
                        ELSE Append(f[m \div 10], Zero + (m % 10))
             g == [m \in 0..k |-> Body(m)]
  <2>3. \A m \in 0..(k - 1) : g[m] = f[m]
    <3>1. \A m \in 0..(k - 1) : f[m] = Body(m)
      BY <2>2 DEF Writes
    <3> HIDE DEF Body
    <3>2. \A m \in 0..(k - 1) : m \in 0..k
      BY <1>2
    <3> QED
      BY <3>1, <3>2
  <2>4. ASSUME NEW m \in 0..k
        PROVE  Body(m) = IF m < 10 THEN <<Zero + m>>
                         ELSE Append(g[m \div 10], Zero + (m % 10))
    <3>1. CASE m < 10
      BY <3>1
    <3>2. CASE m >= 10
      <4>1. m \div 10 \in 0..(k - 1)
        BY <3>2, Tenth
      <4> QED
        BY <2>3, <3>2, <4>1
    <3> QED
      BY <3>1, <3>2
  <2>5. Writes(g, k)
    BY <2>4, Zenon DEF Writes
  <2> QED
    BY <2>5
<1> QED
  BY <1>3, <1>4

(* Of two numbers, the functions agree as far as both go.                  *)
LEMMA WritesSame ==
  ASSUME NEW n \in Nat, NEW k \in Nat, NEW f, NEW g, Writes(f, n), Writes(g, k),
         NEW j \in Nat, j <= n, j <= k
  PROVE  f[j] = g[j]
<1> DEFINE T == {i \in Nat : i <= n /\ i <= k /\ f[i] # g[i]}
<1>1. SUFFICES ASSUME T # {}
               PROVE  FALSE
  OBVIOUS
<1>2. PICK i \in T : \A h \in T : i <= h
  BY <1>1, LeastNatural
<1>3. i \in 0..n /\ i \in 0..k
  BY <1>2
<1>4. /\ f[i] = IF i < 10 THEN <<Zero + i>>
                ELSE Append(f[i \div 10], Zero + (i % 10))
      /\ g[i] = IF i < 10 THEN <<Zero + i>>
                ELSE Append(g[i \div 10], Zero + (i % 10))
  BY <1>3 DEF Writes
<1>5. CASE i < 10
  BY <1>2, <1>4, <1>5
<1>6. CASE i >= 10
  <2>1. i \div 10 \in Nat /\ i \div 10 < i
    BY <1>6, Tenth
  <2>2. i \div 10 \notin T
    BY <1>2, <2>1
  <2>3. f[i \div 10] = g[i \div 10]
    BY <1>3, <2>1, <2>2
  <2> QED
    BY <1>2, <1>4, <1>6, <2>3
<1> QED
  BY <1>5, <1>6

LEMMA DecimalOf ==
  ASSUME NEW n \in Nat
  PROVE  Decimal(n) = IF n < 10 THEN <<Zero + n>>
                      ELSE Append(Decimal(n \div 10), Zero + (n % 10))
<1> DEFINE Text(k) == CHOOSE f : Writes(f, k)
<1>1. \A k \in Nat : Writes(Text(k), k) /\ Decimal(k) = Text(k)[k]
  <2> SUFFICES ASSUME NEW k \in Nat
               PROVE  Writes(Text(k), k) /\ Decimal(k) = Text(k)[k]
    OBVIOUS
  <2>1. Writes(Text(k), k)
    BY SomethingWrites
  <2>2. Decimal(k) = Text(k)[k]
    BY DEF Decimal, Writes
  <2> QED
    BY <2>1, <2>2
<1>2. Text(n)[n] = IF n < 10 THEN <<Zero + n>>
                   ELSE Append(Text(n)[n \div 10], Zero + (n % 10))
  <2> HIDE DEF Text
  <2>1. Writes(Text(n), n) /\ n \in 0..n
    BY <1>1
  <2> QED
    BY <2>1 DEF Writes
<1>3. CASE n < 10
  BY <1>1, <1>2, <1>3
<1>4. CASE n >= 10
  <2>1. n \div 10 \in Nat /\ n \div 10 <= n
    BY <1>4, Tenth
  <2>2. Text(n)[n \div 10] = Text(n \div 10)[n \div 10]
    BY <1>1, <2>1, WritesSame
  <2> QED
    BY <1>1, <1>2, <1>4, <2>1, <2>2
<1> QED
  BY <1>3, <1>4

LEMMA DecimalDigits ==
  ASSUME NEW n \in Nat
  PROVE  Decimal(n) \in Seq(Digit) /\ Decimal(n) # <<>>
<1> DEFINE T == {k \in Nat : ~(Decimal(k) \in Seq(Digit) /\ Decimal(k) # <<>>)}
<1>1. SUFFICES ASSUME T # {}
               PROVE  FALSE
  OBVIOUS
<1>2. PICK k \in T : \A j \in T : k <= j
  BY <1>1, LeastNatural
<1>3. CASE k < 10
  <2>1. Zero + k \in Digit
    BY <1>3 DEF Digit, Zero
  <2>2. Decimal(k) = <<Zero + k>>
    BY <1>3, DecimalOf
  <2>3. \A b \in Digit : <<b>> \in Seq(Digit) /\ <<b>> # <<>>
    OBVIOUS
  <2> QED
    BY <1>2, <2>1, <2>2, <2>3
<1>4. CASE k >= 10
  <2>1. k \div 10 \in Nat /\ k \div 10 < k /\ k % 10 \in 0..9
    BY <1>4, Tenth
  <2>2. k \div 10 \notin T
    BY <1>2, <2>1
  <2>3. Zero + (k % 10) \in Digit
    BY <2>1 DEF Digit, Zero
  <2>4. Decimal(k) = Append(Decimal(k \div 10), Zero + (k % 10))
    BY <1>4, DecimalOf
  <2>5. Decimal(k) \in Seq(Digit) /\ Decimal(k) # <<>>
    BY <2>1, <2>2, <2>3, <2>4, AppendProperties
  <2> QED
    BY <1>2, <2>5
<1> QED
  BY <1>3, <1>4

(* The function behind Value(s), for the first k digits.                   *)
Reads(f, s, k) ==
  f = [i \in 0..k |-> IF i = 0 THEN 0 ELSE 10 * f[i - 1] + (s[i] - Zero)]

LEMMA SomethingReads ==
  ASSUME NEW s, NEW k \in Nat
  PROVE  \E f : Reads(f, s, k)
<1> DEFINE T == {n \in Nat : ~ \E f : Reads(f, s, n)}
<1>1. SUFFICES ASSUME T # {}
               PROVE  FALSE
  OBVIOUS
<1>2. PICK n \in T : \A j \in T : n <= j
  BY <1>1, LeastNatural
<1>3. CASE n = 0
  <2> DEFINE g == [i \in 0..0 |-> 0]
  <2>1. Reads(g, s, 0)
    BY DEF Reads
  <2> QED
    BY <1>3, <2>1
<1>4. CASE n # 0
  <2>1. n - 1 \in Nat /\ n - 1 \notin T
    BY <1>2, <1>4
  <2>2. PICK f : Reads(f, s, n - 1)
    BY <2>1
  <2> DEFINE Body(i) == IF i = 0 THEN 0 ELSE 10 * f[i - 1] + (s[i] - Zero)
             g == [i \in 0..n |-> Body(i)]
  <2>3. \A i \in 0..(n - 1) : g[i] = f[i]
    <3>1. \A i \in 0..(n - 1) : f[i] = Body(i)
      BY <2>2 DEF Reads
    <3> HIDE DEF Body
    <3>2. \A i \in 0..(n - 1) : i \in 0..n
      BY <1>2
    <3> QED
      BY <3>1, <3>2
  <2>4. ASSUME NEW i \in 0..n
        PROVE  Body(i) = IF i = 0 THEN 0 ELSE 10 * g[i - 1] + (s[i] - Zero)
    <3>1. CASE i = 0
      BY <3>1
    <3>2. CASE i # 0
      <4>1. i - 1 \in 0..(n - 1)
        BY <3>2
      <4> QED
        BY <2>3, <3>2, <4>1
    <3> QED
      BY <3>1, <3>2
  <2>5. Reads(g, s, n)
    BY <2>4, Zenon DEF Reads
  <2> QED
    BY <2>5
<1> QED
  BY <1>3, <1>4

(* It looks at the digits up to k only.                                    *)
LEMMA ReadsSame ==
  ASSUME NEW s, NEW t, NEW k \in Nat, NEW n \in Nat, NEW f, NEW g,
         Reads(f, s, k), Reads(g, t, n), k <= n, \A i \in 1..k : s[i] = t[i]
  PROVE  f[k] = g[k]
<1> DEFINE T == {i \in Nat : i <= k /\ f[i] # g[i]}
<1>1. SUFFICES ASSUME T # {}
               PROVE  FALSE
  OBVIOUS
<1>2. PICK i \in T : \A h \in T : i <= h
  BY <1>1, LeastNatural
<1>3. i \in 0..k /\ i \in 0..n
  BY <1>2
<1>4. /\ f[i] = IF i = 0 THEN 0 ELSE 10 * f[i - 1] + (s[i] - Zero)
      /\ g[i] = IF i = 0 THEN 0 ELSE 10 * g[i - 1] + (t[i] - Zero)
  BY <1>3 DEF Reads
<1>5. CASE i = 0
  BY <1>2, <1>4, <1>5
<1>6. CASE i # 0
  <2>1. i - 1 \in Nat /\ i - 1 <= k /\ i - 1 < i /\ i \in 1..k
    BY <1>3, <1>6
  <2>2. i - 1 \notin T
    BY <1>2, <2>1
  <2>3. f[i - 1] = g[i - 1] /\ s[i] = t[i]
    BY <2>1, <2>2
  <2> QED
    BY <1>2, <1>4, <1>6, <2>3
<1> QED
  BY <1>5, <1>6

LEMMA ValueOf ==
  ASSUME NEW s \in Seq(Digit), NEW d \in Digit
  PROVE  /\ Value(<<>>) = 0
         /\ Value(Append(s, d)) = 10 * Value(s) + (d - Zero)
<1> DEFINE F(t) == CHOOSE f : Reads(f, t, Len(t))
           t1 == Append(s, d)
           n == Len(s)
<1>1. \A t : Len(t) \in Nat => Reads(F(t), t, Len(t)) /\ Value(t) = F(t)[Len(t)]
  <2> SUFFICES ASSUME NEW t, Len(t) \in Nat
               PROVE  Reads(F(t), t, Len(t)) /\ Value(t) = F(t)[Len(t)]
    OBVIOUS
  <2>1. Reads(F(t), t, Len(t))
    BY SomethingReads
  <2>2. Value(t) = F(t)[Len(t)]
    BY DEF Value, Reads
  <2> QED
    BY <2>1, <2>2
<1>2. n \in Nat /\ Len(t1) = n + 1 /\ t1[n + 1] = d
  BY AppendProperties
<1>3. \A i \in 1..n : s[i] = t1[i]
  BY AppendProperties
<1> HIDE DEF F, t1, n
<1>4. Len(<<>>) = 0
  OBVIOUS
<1>5. Value(<<>>) = 0
  <2>1. Reads(F(<<>>), <<>>, 0) /\ Value(<<>>) = F(<<>>)[0]
    BY <1>1, <1>4
  <2>2. F(<<>>)[0] = 0
    BY <2>1 DEF Reads
  <2> QED
    BY <2>1, <2>2
<1>6. /\ Reads(F(s), s, n) /\ Value(s) = F(s)[n]
      /\ Reads(F(t1), t1, n + 1) /\ Value(t1) = F(t1)[n + 1]
  BY <1>1, <1>2 DEF n
<1>7. F(s)[n] = F(t1)[n]
  <2>1. n + 1 \in Nat /\ n <= n + 1
    BY <1>2
  <2> QED
    BY <1>2, <1>3, <1>6, <2>1, ReadsSame
<1>8. F(t1)[n + 1] = 10 * F(t1)[n] + (d - Zero)
  <2>1. n + 1 \in 0..(n + 1) /\ n + 1 # 0 /\ (n + 1) - 1 = n
    BY <1>2
  <2>2. F(t1)[n + 1] = 10 * F(t1)[(n + 1) - 1] + (t1[n + 1] - Zero)
    BY <1>6, <2>1 DEF Reads
  <2> QED
    BY <1>2, <2>1, <2>2
<1> QED
  BY <1>5, <1>6, <1>7, <1>8 DEF t1, n

(* What is written is read, for numbers of any length.                     *)
LEMMA DecimalValue ==
  ASSUME NEW n \in Nat
  PROVE  Value(Decimal(n)) = n
<1> DEFINE T == {k \in Nat : Value(Decimal(k)) # k}
<1>1. SUFFICES ASSUME T # {}
               PROVE  FALSE
  OBVIOUS
<1>2. PICK k \in T : \A j \in T : k <= j
  BY <1>1, LeastNatural
<1>3. CASE k < 10
  <2>1. Decimal(k) = Append(<<>>, Zero + k)
    BY <1>3, DecimalOf
  <2>2. <<>> \in Seq(Digit) /\ Zero + k \in Digit
    BY <1>3 DEF Digit, Zero
  <2>3. /\ Value(<<>>) = 0
        /\ Value(Append(<<>>, Zero + k)) = 10 * Value(<<>>) + ((Zero + k) - Zero)
    BY <2>2, ValueOf
  <2> QED
    BY <1>2, <2>1, <2>3 DEF Zero
<1>4. CASE k >= 10
  <2>1. /\ k \div 10 \in Nat /\ k \div 10 < k /\ k % 10 \in 0..9
        /\ 10 * (k \div 10) + (k % 10) = k
    BY <1>4, Tenth
  <2>2. Value(Decimal(k \div 10)) = k \div 10
    BY <1>2, <2>1
  <2>3. Decimal(k) = Append(Decimal(k \div 10), Zero + (k % 10))
    BY <1>4, DecimalOf
  <2>4. Decimal(k \div 10) \in Seq(Digit) /\ Zero + (k % 10) \in Digit
    BY <2>1, DecimalDigits DEF Digit, Zero
  <2>5. Value(Decimal(k)) = 10 * (k \div 10) + ((Zero + (k % 10)) - Zero)
    <3>1. Value(Decimal(k))
            = 10 * Value(Decimal(k \div 10)) + ((Zero + (k % 10)) - Zero)
      BY <2>3, <2>4, ValueOf
    <3> QED
      BY <2>2, <3>1
  <2> QED
    BY <1>2, <2>1, <2>5 DEF Zero
<1> QED
  BY <1>3, <1>4

(* An int, with its sign.  What stoi() makes of it is the int again.       *)
LEMMA ReadBack ==
  ASSUME NEW n \in Int
  PROVE  /\ IntToText(n) \in Seq(Digit \cup {MINUS}) /\ IntToText(n) # <<>>
         /\ Stoi(IntToText(n)) = n
         /\ ~Throws(IntToText(n))
<1> DEFINE Plain(text) == /\ text \in Seq(Digit) /\ text # <<>>
                          /\ Digits(text) = text /\ Unsigned(text) = text
                          /\ text[1] # MINUS
<1>1. ASSUME NEW m \in Nat
      PROVE  Plain(Decimal(m))
  <2> DEFINE d == Decimal(m)
  <2>1. d \in Seq(Digit) /\ d # <<>>
    BY DecimalDigits
  <2>2. d[1] \in Digit /\ \A i \in 1..Len(d) : d[i] \in Digit
    BY <2>1
  <2>3. d[1] # MINUS
    BY <2>2 DEF Digit, Zero, MINUS
  <2>4. {i \in 1..Len(d) : d[i] \notin Zero..(Zero + 9)} = {}
    BY <2>2 DEF Digit
  <2>5. SubSeq(d, 1, Len(d)) = d
    BY <2>1
  <2>6. SelectInSeq(d, LAMBDA b : b \notin Zero..(Zero + 9)) = 0
    BY <2>4 DEF SelectInSeq
  <2>7. Digits(d) = d
    BY <2>5, <2>6 DEF Digits
  <2> QED
    BY <2>1, <2>3, <2>7 DEF Unsigned
<1>2. CASE n >= 0
  <2>1. n \in Nat /\ IntToText(n) = Decimal(n)
    BY <1>2 DEF IntToText
  <2>2. Plain(Decimal(n)) /\ Value(Decimal(n)) = n
    BY <1>1, <2>1, DecimalValue
  <2> DEFINE d == Decimal(n)
  <2>3. d \in Seq(Digit \cup {MINUS})
    BY <2>2
  <2>4. Stoi(d) = n
    BY <2>2 DEF Stoi
  <2>5. ~Throws(d)
    BY <2>2 DEF Throws
  <2> QED
    BY <2>1, <2>2, <2>3, <2>4, <2>5
<1>3. CASE n < 0
  <2> DEFINE d == Decimal(-n)
  <2>1. -n \in Nat /\ IntToText(n) = <<MINUS>> \o d
    BY <1>3 DEF IntToText
  <2>2. Plain(d) /\ Value(d) = -n
    BY <1>1, <2>1, DecimalValue
  <2> HIDE DEF d
  <2>3. /\ <<MINUS>> \o d \in Seq(Digit \cup {MINUS})
        /\ <<MINUS>> \o d # <<>>
        /\ (<<MINUS>> \o d)[1] = MINUS
        /\ Tail(<<MINUS>> \o d) = d
    BY <2>2
  <2>4. Unsigned(IntToText(n)) = d
    BY <2>1, <2>3 DEF Unsigned
  <2> QED
    <3>1. Stoi(IntToText(n)) = -Value(d)
      BY <2>1, <2>2, <2>3, <2>4 DEF Stoi
    <3>2. ~Throws(IntToText(n))
      BY <2>1, <2>2, <2>3, <2>4 DEF Throws
    <3> QED
      BY <1>3, <2>1, <2>2, <2>3, <3>1, <3>2
<1> QED
  BY <1>2, <1>3

(* The same of a length, which has no sign.                                *)
LEMMA LengthReadBack ==
  ASSUME NEW n \in Nat
  PROVE  Stoi(Decimal(n)) = n
BY ReadBack DEF IntToText

-----------------------------------------------------------------------------
(* Frames.                                                                 *)
LEMMA Bytes ==
  ASSUME NEW s \in Seq(Int), NEW t \in Seq(Int)
  PROVE  /\ s \o t \in Seq(Int) /\ Len(s \o t) = Len(s) + Len(t)
         /\ \A i \in 1..Len(s) : (s \o t)[i] = s[i]
         /\ \A i \in 1..Len(t) : (s \o t)[Len(s) + i] = t[i]
<1>1. Len(s) \in Nat /\ Len(t) \in Nat
  OBVIOUS
<1>2. \A i \in 1..Len(s) + Len(t) :
        (s \o t)[i] = IF i <= Len(s) THEN s[i] ELSE t[i - Len(s)]
  BY ConcatProperties
<1>3. ASSUME NEW i \in 1..Len(t)
      PROVE  (s \o t)[Len(s) + i] = t[i]
  <2>1. Len(s) + i \in 1..Len(s) + Len(t) /\ ~(Len(s) + i <= Len(s))
        /\ (Len(s) + i) - Len(s) = i
    BY <1>1
  <2> QED
    BY <1>2, <2>1
<1>4. ASSUME NEW i \in 1..Len(s)
      PROVE  (s \o t)[i] = s[i]
  BY <1>1, <1>2
<1> QED
  BY <1>3, <1>4, ConcatProperties

LEMMA Regroup ==
  ASSUME NEW s \in Seq(Int), NEW t \in Seq(Int), NEW u \in Seq(Int)
  PROVE  (s \o t) \o u = s \o (t \o u)
BY ConcatAssociative, SMTT(30)

(* Concatenation, where only its laws matter: they are stated once, of an  *)
(* operator that no backend expands.                                       *)
Cat(s, t) == s \o t

LEMMA CatLaws ==
  ASSUME NEW s \in Seq(Int), NEW t \in Seq(Int), NEW u \in Seq(Int)
  PROVE  /\ Cat(s, t) \in Seq(Int)
         /\ Cat(Cat(s, t), u) = Cat(s, Cat(t, u))
         /\ Cat(s, <<>>) = s /\ Cat(<<>>, s) = s
         /\ Cat(s, t) = <<>> => s = <<>> /\ t = <<>>
<1>1. Cat(s, t) \in Seq(Int)
  BY DEF Cat
<1>2. Cat(Cat(s, t), u) = Cat(s, Cat(t, u))
  BY Regroup DEF Cat
<1>3. Cat(s, <<>>) = s /\ Cat(<<>>, s) = s
  BY ConcatEmptySeq DEF Cat
<1>4. Cat(s, t) = <<>> => s = <<>> /\ t = <<>>
  BY ConcatSimplifications DEF Cat
<1> QED
  BY <1>1, <1>2, <1>3, <1>4

(* A part of a sequence.                                                   *)
LEMMA Slice ==
  ASSUME NEW s \in Seq(Int), NEW i \in Int, NEW j \in Int,
         1 <= i, i <= j, j <= Len(s)
  PROVE  /\ SubSeq(s, i, j) \in Seq(Int) /\ Len(SubSeq(s, i, j)) = j - i + 1
         /\ \A h \in 1..(j - i + 1) : SubSeq(s, i, j)[h] = s[i + h - 1]
<1>1. \A h \in i..j : s[h] \in Int
  OBVIOUS
<1> QED
  BY <1>1, SubSeqProperties

LEMMA Middle ==
  ASSUME NEW b \in Int, NEW c \in Int
  PROVE  Cat(Cat(<<b>>, <<c>>), <<b>>) = <<b, c, b>>
<1> DEFINE x == <<b>>
           y == <<c>>
           xy == x \o y
           all == <<b, c, b>>
<1>1. /\ x \in Seq(Int) /\ Len(x) = 1 /\ x[1] = b
      /\ y \in Seq(Int) /\ Len(y) = 1 /\ y[1] = c
      /\ all \in Seq(Int) /\ Len(all) = 3
      /\ all[1] = b /\ all[2] = c /\ all[3] = b
  OBVIOUS
<1>2. xy \o x = Cat(Cat(<<b>>, <<c>>), <<b>>)
  BY Zenon DEF Cat
<1>3. /\ 1 \in 1..1 /\ 1 \in 1..2 /\ 2 \in 1..2
      /\ 1 + 1 = 2 /\ 2 + 1 = 3
  OBVIOUS
<1> HIDE DEF x, y, all
<1>4. xy \in Seq(Int) /\ Len(xy) = 2 /\ xy[1] = b /\ xy[2] = c
  <2>1. /\ xy \in Seq(Int) /\ Len(xy) = Len(x) + Len(y)
        /\ \A i \in 1..Len(x) : xy[i] = x[i]
        /\ \A i \in 1..Len(y) : xy[Len(x) + i] = y[i]
    BY <1>1, Bytes
  <2> HIDE DEF xy
  <2> QED
    BY <1>1, <1>3, <2>1
<1> HIDE DEF xy
<1>5. /\ xy \o x \in Seq(Int) /\ Len(xy \o x) = 3
      /\ (xy \o x)[1] = b /\ (xy \o x)[2] = c /\ (xy \o x)[3] = b
  <2>1. /\ xy \o x \in Seq(Int) /\ Len(xy \o x) = Len(xy) + Len(x)
        /\ \A i \in 1..Len(xy) : (xy \o x)[i] = xy[i]
        /\ \A i \in 1..Len(x) : (xy \o x)[Len(xy) + i] = x[i]
    BY <1>1, <1>4, Bytes
  <2> DEFINE z == xy \o x
  <2>2. z = xy \o x
    OBVIOUS
  <2> HIDE DEF z
  <2>3. z \in Seq(Int) /\ Len(z) = 3 /\ z[1] = b /\ z[2] = c /\ z[3] = b
    BY <1>1, <1>3, <1>4, <2>1, <2>2
  <2> QED
    BY <2>2, <2>3
<1>6. xy \o x = all
  <2>1. \A i \in 1..3 : (xy \o x)[i] = all[i]
    <3>1. \A i \in 1..3 : i = 1 \/ i = 2 \/ i = 3
      OBVIOUS
    <3> QED
      BY <1>1, <1>5, <3>1, Zenon
  <2> QED
    BY <1>1, <1>5, <2>1, SeqEqual
<1> QED
  BY <1>2, <1>6 DEF all

(* What comes behind the same bytes is the same.                           *)
LEMMA Cancel ==
  ASSUME NEW s \in Seq(Int), NEW t \in Seq(Int), NEW v \in Seq(Int),
         Cat(s, t) = Cat(s, v)
  PROVE  t = v
BY ConcatSimplifications DEF Cat

(* The bytes behind the i-th, as many as t has.                            *)
LEMMA Piece ==
  ASSUME NEW s \in Seq(Int), NEW t \in Seq(Int), NEW i \in Nat,
         i + Len(t) <= Len(s), \A h \in 1..Len(t) : s[i + h] = t[h]
  PROVE  SubSeq(s, i + 1, i + Len(t)) = t
<1> DEFINE j == Len(t)
           r == SubSeq(s, i + 1, i + j)
<1>1. j \in Nat /\ Len(s) \in Nat
  OBVIOUS
<1>2. \A h \in (i + 1)..(i + j) : s[h] \in Int
  BY <1>1
<1>3. /\ r \in Seq(Int)
      /\ Len(r) = IF i + 1 <= i + j THEN (i + j) - (i + 1) + 1 ELSE 0
      /\ \A h \in 1..((i + j) - (i + 1) + 1) : r[h] = s[(i + 1) + h - 1]
  <2>1. i + 1 \in Int /\ i + j \in Int
    BY <1>1
  <2> HIDE DEF j
  <2> QED
    BY <1>2, <2>1, SubSeqProperties
<1> HIDE DEF r, j
<1>4. Len(r) = j /\ \A h \in 1..j : r[h] = s[i + h]
  <2>1. (i + j) - (i + 1) + 1 = j /\ (i + 1 <= i + j <=> j # 0)
    BY <1>1
  <2>2. \A h \in 1..j : (i + 1) + h - 1 = i + h
    BY <1>1
  <2> QED
    BY <1>1, <1>3, <2>1, <2>2
<1>5. r = t
  BY <1>3, <1>4, SeqEqual DEF j
<1> QED
  BY <1>5 DEF r, j

(* A frame, byte by byte.                                                  *)
LEMMA FrameBytes ==
  ASSUME NEW p \in Seq(Int)
  PROVE  LET d == Decimal(Len(p))
         IN  /\ Encode(p) \in Seq(Int)
             /\ Len(Encode(p)) = Len(d) + 4 + Len(p)
             /\ \A i \in 1..Len(d) : Encode(p)[i] = d[i]
             /\ Encode(p)[Len(d) + 1] = CR /\ Encode(p)[Len(d) + 2] = LF
             /\ \A i \in 1..Len(p) : Encode(p)[Len(d) + 2 + i] = p[i]
<1> DEFINE d == Decimal(Len(p))
           a == d \o SEP
           b == a \o p
<1>1. Len(p) \in Nat
  OBVIOUS
<1>2. d \in Seq(Int)
  <2>1. d \in Seq(Digit) /\ Digit \subseteq Int
    BY <1>1, DecimalDigits DEF Digit, Zero
  <2> QED
    BY <2>1, SeqMonotonic
<1>3. SEP \in Seq(Int) /\ Len(SEP) = 2 /\ SEP[1] = CR /\ SEP[2] = LF
  BY DEF SEP, CR, LF
<1> HIDE DEF d
<1>4. /\ a \in Seq(Int) /\ Len(a) = Len(d) + 2
      /\ \A i \in 1..Len(d) : a[i] = d[i]
      /\ a[Len(d) + 1] = CR /\ a[Len(d) + 2] = LF
  <2>1. 1 \in 1..Len(SEP) /\ 2 \in 1..Len(SEP)
    BY <1>3
  <2>2. /\ a \in Seq(Int) /\ Len(a) = Len(d) + Len(SEP)
        /\ \A i \in 1..Len(d) : a[i] = d[i]
        /\ \A i \in 1..Len(SEP) : a[Len(d) + i] = SEP[i]
    BY <1>2, <1>3, Bytes
  <2> HIDE DEF a
  <2> QED
    BY <1>3, <2>1, <2>2
<1> HIDE DEF a
<1>5. /\ b \in Seq(Int) /\ Len(b) = Len(d) + 2 + Len(p)
      /\ \A i \in 1..(Len(d) + 2) : b[i] = a[i]
      /\ \A i \in 1..Len(p) : b[Len(d) + 2 + i] = p[i]
  <2>1. /\ b \in Seq(Int) /\ Len(b) = Len(a) + Len(p)
        /\ \A i \in 1..Len(a) : b[i] = a[i]
        /\ \A i \in 1..Len(p) : b[Len(a) + i] = p[i]
    BY <1>4, Bytes
  <2> HIDE DEF b
  <2> QED
    BY <1>4, <2>1
<1> HIDE DEF b
<1>6. /\ Encode(p) = b \o SEP
      /\ Encode(p) \in Seq(Int) /\ Len(Encode(p)) = Len(d) + 2 + Len(p) + 2
      /\ \A i \in 1..(Len(d) + 2 + Len(p)) : Encode(p)[i] = b[i]
  <2>1. Encode(p) = b \o SEP
    BY DEF Encode, b, a, d
  <2>2. /\ b \o SEP \in Seq(Int) /\ Len(b \o SEP) = Len(b) + Len(SEP)
        /\ \A i \in 1..Len(b) : (b \o SEP)[i] = b[i]
    BY <1>3, <1>5, Bytes
  <2> QED
    BY <1>3, <1>5, <2>1, <2>2
<1>7. Len(d) \in Nat
  BY <1>2
<1>8. /\ \A i \in 1..Len(d) : i \in 1..(Len(d) + 2) /\ i \in 1..(Len(d) + 2 + Len(p))
      /\ \A j \in {1, 2} :
           Len(d) + j \in 1..(Len(d) + 2) /\ Len(d) + j \in 1..(Len(d) + 2 + Len(p))
      /\ \A i \in 1..Len(p) : Len(d) + 2 + i \in 1..(Len(d) + 2 + Len(p))
  BY <1>1, <1>7
<1>9. \A i \in 1..Len(d) : Encode(p)[i] = d[i]
  BY <1>4, <1>5, <1>6, <1>8
<1>10. Encode(p)[Len(d) + 1] = CR /\ Encode(p)[Len(d) + 2] = LF
  BY <1>4, <1>5, <1>6, <1>8
<1>11. \A i \in 1..Len(p) : Encode(p)[Len(d) + 2 + i] = p[i]
  BY <1>5, <1>6, <1>8
<1>12. Len(Encode(p)) = Len(d) + 4 + Len(p)
  BY <1>1, <1>6, <1>7
<1> QED
  BY <1>6, <1>9, <1>10, <1>11, <1>12 DEF d

(* What is left of a buffer behind what it begins with.                    *)
LEMMA Remainders ==
  ASSUME NEW buf \in Seq(Int), NEW w \in Seq(Int),
         NEW e \in Seq(Int), NEW more \in Seq(Int),
         Cat(buf, w) = Cat(e, more), Len(e) <= Len(buf),
         \A i \in 1..Len(e) : buf[i] = e[i]
  PROVE  /\ SubSeq(buf, Len(e) + 1, Len(buf)) \in Seq(Int)
         /\ Cat(SubSeq(buf, Len(e) + 1, Len(buf)), w) = more
<1> DEFINE n == Len(buf)
           rest == SubSeq(buf, Len(e) + 1, n)
<1>1. /\ Len(e) \in Nat /\ n \in Nat /\ 1 \in 1..(n + 1)
      /\ Len(e) \in (1 - 1)..n /\ n \in Len(e)..n
  OBVIOUS
<1>2. Cat(SubSeq(buf, 1, Len(e)), rest) = SubSeq(buf, 1, n)
  BY <1>1, ConcatAdjacentSubSeq DEF Cat
<1>3. SubSeq(buf, 1, n) = buf
  BY SubSeqFull
<1>4. SubSeq(buf, 1, Len(e)) = e
  <2>1. \A i \in 1..Len(e) : buf[0 + i] = e[i]
    BY <1>1
  <2>2. SubSeq(buf, 0 + 1, 0 + Len(e)) = e
    BY <1>1, <2>1, Piece
  <2> QED
    BY <1>1, <2>2
<1>5. rest \in Seq(Int)
  <2>1. \A i \in (Len(e) + 1)..n : buf[i] \in Int
    BY <1>1
  <2> QED
    BY <1>1, <2>1, SubSeqProperties
<1> HIDE DEF n, rest
<1>6. Cat(e, Cat(rest, w)) = Cat(e, more) /\ Cat(rest, w) \in Seq(Int)
  <2>1. Cat(e, rest) = buf
    BY <1>2, <1>3, <1>4
  <2>2. Cat(Cat(e, rest), w) = Cat(e, Cat(rest, w)) /\ Cat(rest, w) \in Seq(Int)
    BY <1>5, CatLaws
  <2> QED
    BY <2>1, <2>2, Zenon
<1>7. Cat(rest, w) = more
  BY <1>6, Cancel
<1> QED
  BY <1>5, <1>7 DEF n, rest

(* Wherever the stream of a frame and what follows is cut, Decode finds    *)
(* the frame if all of it is in the buffer, with nothing taken from what   *)
(* follows, and otherwise it finds nothing.                                *)
THEOREM FrameFound ==
  ASSUME NEW p \in Seq(Int), p # <<>>, NEW more \in Seq(Int),
         NEW buf \in Seq(Int), NEW w \in Seq(Int),
         Cat(buf, w) = Cat(Encode(p), more)
  PROVE  IF Len(buf) >= Len(Encode(p))
         THEN /\ Decode(buf).payload = p
              /\ Decode(buf).rest \in Seq(Int)
              /\ Cat(Decode(buf).rest, w) = more
         ELSE Decode(buf).payload = <<>>
<1> DEFINE d == Decimal(Len(p))
           e == Encode(p)
           k == Len(d)
           m == Len(p)
           n == Len(buf)
<1>1. /\ m \in Nat \ {0} /\ n \in Nat /\ k \in Nat \ {0}
      /\ d \in Seq(Digit)
  <2>1. Len(p) \in Nat \ {0} /\ Len(buf) \in Nat
    BY EmptySeq
  <2>2. d \in Seq(Digit) /\ d # <<>>
    BY <2>1, DecimalDigits
  <2> QED
    BY <2>1, <2>2, EmptySeq
<1>2. /\ e \in Seq(Int) /\ Len(e) = k + 4 + m
      /\ \A i \in 1..k : e[i] = d[i]
      /\ e[k + 1] = CR /\ e[k + 2] = LF
      /\ \A i \in 1..m : e[k + 2 + i] = p[i]
  BY FrameBytes
<1>3. \A i \in 1..k : d[i] \in Digit
  BY <1>1, ElementOfSeq
<1>4. Stoi(d) = m
  BY <1>1, LengthReadBack
<1> HIDE DEF d, e, k
<1>5. \A i \in 1..n : i <= Len(e) => buf[i] = e[i]
  <2> SUFFICES ASSUME NEW i \in 1..n, i <= Len(e)
               PROVE  buf[i] = e[i]
    OBVIOUS
  <2>1. i \in 1..Len(e) /\ i \in 1..Len(buf)
    BY <1>1, <1>2
  <2>2. Cat(buf, w)[i] = buf[i]
    BY <2>1, Bytes DEF Cat
  <2>3. Cat(e, more)[i] = e[i]
    BY <1>2, <2>1, Bytes DEF Cat
  <2> QED
    BY <2>2, <2>3 DEF e
<1> HIDE DEF n, m
<1> DEFINE at == {i \in 1..(Len(buf) - 1) : buf[i] = CR /\ buf[i + 1] = LF}
<1>6. \A i \in at : i \in Int /\ k + 1 <= i
  <2> SUFFICES ASSUME NEW i \in 1..(n - 1), buf[i] = CR
               PROVE  k + 1 <= i
    BY <1>1 DEF n
  <2>1. ASSUME i <= k
        PROVE  FALSE
    <3>1. i \in 1..n /\ i <= Len(e) /\ i \in 1..k
      BY <1>1, <1>2, <2>1
    <3>2. buf[i] \in Digit
      BY <1>2, <1>3, <1>5, <3>1
    <3> QED
      BY <3>2 DEF Digit, Zero, CR
  <2> QED
    BY <1>1, <2>1
<1>7. CASE n < k + 2
  <2>1. at = {}
    <3>1. ASSUME NEW i \in at
          PROVE  FALSE
      <4>1. i \in 1..(n - 1) /\ k + 1 <= i
        BY <1>6 DEF n
      <4> QED
        BY <1>1, <1>7, <4>1
    <3> QED
      BY <3>1, Zenon
  <2>2. Find(buf) = 0
    BY <2>1 DEF Find
  <2>3. Decode(buf).payload = <<>> /\ ~(n >= Len(e))
    BY <1>1, <1>2, <1>7, <2>2 DEF Decode
  <2> QED
    BY <2>3 DEF n, e
<1>8. CASE n >= k + 2
  <2>1. Find(buf) = k + 1
    <3>1. k + 1 \in 1..n /\ k + 2 \in 1..n /\ k + 1 <= Len(e) /\ k + 2 <= Len(e)
          /\ k + 1 \in 1..(n - 1) /\ (k + 1) + 1 = k + 2
      BY <1>1, <1>2, <1>8
    <3>2. k + 1 \in at
      BY <1>2, <1>5, <3>1 DEF n
    <3>3. Min(at) = k + 1
      BY <1>6, <3>2, MinOf
    <3> QED
      BY <3>2, <3>3 DEF Find
  <2>2. SubSeq(buf, 1, k) = d
    <3>1. \A i \in 1..k : buf[0 + i] = d[i]
      <4>0. \A i \in 1..k : 0 + i = i
        BY <1>1
      <4> SUFFICES ASSUME NEW i \in 1..k
                   PROVE  buf[i] = d[i]
        BY <4>0
      <4>1. i \in 1..n /\ i <= Len(e)
        BY <1>1, <1>2, <1>8
      <4> QED
        BY <1>2, <1>5, <4>1
    <3>2. d \in Seq(Int)
      <4>1. Digit \subseteq Int
        BY DEF Digit, Zero
      <4> QED
        BY <1>1, <4>1, SeqMonotonic
    <3>3. 0 + k <= n
      BY <1>1, <1>8
    <3>4. SubSeq(buf, 0 + 1, 0 + k) = d
      BY <3>1, <3>2, <3>3, Piece DEF k, n
    <3> QED
      BY <1>1, <3>4
  <2>3. Stoi(SubSeq(buf, 1, (k + 1) - 1)) = m /\ k + 1 > 1
    <3>1. (k + 1) - 1 = k /\ k + 1 > 1
      BY <1>1
    <3> QED
      BY <1>4, <2>2, <3>1
  <2>4. Total(k + 1, m) = Len(e) /\ Len(SEP) = 2
    BY <1>1, <1>2 DEF Total, SEP
  <2>5. CASE n < Len(e)
    <3>1. ~Complete(buf, k + 1, m)
      BY <1>1, <1>2, <2>4, <2>5 DEF Complete, n
    <3>2. Decode(buf).payload = <<>>
      BY <2>1, <2>3, <3>1 DEF Decode
    <3>3. ~(n >= Len(e))
      BY <1>1, <1>2, <2>5
    <3> QED
      BY <3>2, <3>3 DEF n, e
  <2>6. CASE n >= Len(e)
    <3> DEFINE rest == SubSeq(buf, Len(e) + 1, n)
    <3>1. /\ Decode(buf).payload = Substr(buf, k + 3, m)
          /\ Decode(buf).rest = rest
      <4>1. Complete(buf, k + 1, m) /\ (k + 1) + 2 = k + 3
        BY <1>1, <2>4, <2>6 DEF Complete, n
      <4> QED
        BY <2>1, <2>3, <2>4, <4>1 DEF Decode, n
    <3>2. Substr(buf, k + 3, m) = p
      <4>1. /\ (k + 3) + m - 1 = (k + 2) + m /\ (k + 2) + m <= n
            /\ (k + 2) + 1 = k + 3 /\ k + 2 \in Nat
        <5>1. k \in Nat /\ m \in Nat /\ n \in Nat /\ n >= k + 4 + m
          BY <1>1, <1>2, <2>6
        <5> QED
          BY <5>1
      <4>2. Min({(k + 3) + m - 1, Len(buf)}) = (k + 2) + m
        <5> DEFINE S == {(k + 3) + m - 1, Len(buf)}
        <5>1. /\ (k + 2) + m \in S /\ S \subseteq Int
              /\ \A j \in S : (k + 2) + m <= j
          BY <1>1, <4>1 DEF n
        <5> HIDE DEF S
        <5>2. Min(S) = (k + 2) + m
          BY <5>1, MinOf
        <5> QED
          BY <5>2 DEF S
      <4>3. \A i \in 1..m : buf[(k + 2) + i] = p[i]
        <5> SUFFICES ASSUME NEW i \in 1..m
                     PROVE  buf[(k + 2) + i] = p[i]
          OBVIOUS
        <5>1. (k + 2) + i \in 1..n /\ (k + 2) + i <= Len(e)
          BY <1>1, <1>2, <2>6
        <5> QED
          BY <1>2, <1>5, <5>1
      <4>4. SubSeq(buf, (k + 2) + 1, (k + 2) + m) = p
        BY <4>1, <4>3, Piece DEF m, n
      <4> QED
        BY <4>1, <4>2, <4>4 DEF Substr
    <3>3. rest \in Seq(Int) /\ Cat(rest, w) = more
      <4>1. /\ Len(e) <= Len(buf) /\ Cat(buf, w) = Cat(e, more) /\ e \in Seq(Int)
            /\ \A i \in 1..Len(e) : buf[i] = e[i]
        BY <1>1, <1>2, <1>5, <2>6 DEF n, e
      <4> QED
        BY <4>1, Remainders DEF n
    <3> QED
      BY <2>6, <3>1, <3>2, <3>3 DEF n, e
  <2>7. n < Len(e) \/ n >= Len(e)
    BY <1>1, <1>2
  <2> QED
    BY <2>5, <2>6, <2>7, Zenon
<1>9. n < k + 2 \/ n >= k + 2
  BY <1>1
<1> QED
  BY <1>7, <1>8, <1>9, Zenon

-----------------------------------------------------------------------------
(* Requests and responses.  Three fields with blanks between them, the     *)
(* middle one of a single byte.                                            *)
Fields(a, c, b) == a \o <<BLANK, c, BLANK>> \o b

LEMMA FieldsType ==
  ASSUME NEW a \in Seq(Int), NEW b \in Seq(Int), NEW c \in Int
  PROVE  Fields(a, c, b) \in Seq(Int)
<1>1. <<BLANK, c, BLANK>> \in Seq(Int)
  BY DEF BLANK
<1> QED
  BY <1>1, ConcatProperties DEF Fields

(* Where the bytes of the fields are.                                      *)
Layout(text, a, c, b) ==
  /\ Len(text) = Len(a) + 3 + Len(b)
  /\ \A i \in 1..Len(a) : text[i] = a[i]
  /\ text[Len(a) + 1] = BLANK /\ text[Len(a) + 2] = c
  /\ text[Len(a) + 3] = BLANK
  /\ \A i \in 1..Len(b) : text[Len(a) + 3 + i] = b[i]

LEMMA FieldBytes ==
  ASSUME NEW a \in Seq(Int), NEW b \in Seq(Int), NEW c \in Int,
         NEW text \in Seq(Int), text = Fields(a, c, b)
  PROVE  Layout(text, a, c, b)
<1> DEFINE m == <<BLANK, c, BLANK>>
           f == a \o m
<1>1. m \in Seq(Int) /\ Len(m) = 3 /\ m[1] = BLANK /\ m[2] = c /\ m[3] = BLANK
  BY DEF BLANK
<1> HIDE DEF m
<1>2. /\ f \in Seq(Int) /\ Len(f) = Len(a) + Len(m)
      /\ \A i \in 1..Len(a) : f[i] = a[i]
      /\ \A i \in 1..Len(m) : f[Len(a) + i] = m[i]
  BY <1>1, Bytes
<1> HIDE DEF f
<1>3. /\ f \o b \in Seq(Int) /\ Len(f \o b) = Len(f) + Len(b)
      /\ \A i \in 1..Len(f) : (f \o b)[i] = f[i]
      /\ \A i \in 1..Len(b) : (f \o b)[Len(f) + i] = b[i]
  BY <1>2, Bytes
<1>4. Fields(a, c, b) = f \o b
  BY DEF Fields, f, m
<1>5. Len(a) \in Nat /\ Len(b) \in Nat /\ Len(f) = Len(a) + 3
  BY <1>1, <1>2
<1>6. /\ text \in Seq(Int) /\ Len(text) = Len(f) + Len(b)
      /\ \A i \in 1..Len(f) : text[i] = f[i]
      /\ \A i \in 1..Len(b) : text[Len(f) + i] = b[i]
  BY <1>3, <1>4
<1>7. Len(text) = Len(a) + 3 + Len(b)
  BY <1>5, <1>6
<1>8. \A i \in 1..Len(a) : text[i] = a[i]
  <2>1. \A i \in 1..Len(a) : i \in 1..Len(f)
    BY <1>5
  <2> QED
    BY <1>2, <1>6, <2>1
<1>9. /\ text[Len(a) + 1] = BLANK /\ text[Len(a) + 2] = c
      /\ text[Len(a) + 3] = BLANK
  <2>1. \A i \in 1..3 : Len(a) + i \in 1..Len(f) /\ i \in 1..Len(m)
    BY <1>1, <1>5
  <2>2. \A i \in 1..3 : text[Len(a) + i] = m[i]
    BY <1>2, <1>6, <2>1
  <2>3. 1 \in 1..3 /\ 2 \in 1..3 /\ 3 \in 1..3
    OBVIOUS
  <2> QED
    BY <1>1, <2>2, <2>3
<1>10. \A i \in 1..Len(b) : text[Len(a) + 3 + i] = b[i]
  BY <1>5, <1>6
<1> QED
  BY <1>7, <1>8, <1>9, <1>10 DEF Layout

LEMMA FirstBlankIs ==
  ASSUME NEW text \in Seq(Int), NEW i \in 1..Len(text), text[i] = BLANK,
         \A j \in 1..Len(text) : text[j] = BLANK => i <= j
  PROVE  LeftBlank(text) = i
<1> DEFINE S == {j \in 1..Len(text) : text[j] = BLANK}
<1>1. i \in S /\ S \subseteq Int /\ \A j \in S : i <= j
  OBVIOUS
<1> HIDE DEF S
<1>2. S # {} /\ Min(S) = i
  BY <1>1, MinOf
<1> QED
  BY <1>2 DEF S, LeftBlank, SelectInSeq

LEMMA LastBlankIs ==
  ASSUME NEW text \in Seq(Int), NEW i \in 1..Len(text), text[i] = BLANK,
         \A j \in 1..Len(text) : text[j] = BLANK => j <= i
  PROVE  LastBlank(text) = i
<1> DEFINE S == {j \in 1..Len(text) : text[j] = BLANK}
<1>1. i \in S /\ S \subseteq Int /\ \A j \in S : j <= i
  OBVIOUS
<1> HIDE DEF S
<1>2. S # {} /\ Max(S) = i
  BY <1>1, MaxOf
<1> QED
  BY <1>2 DEF S, LastBlank, SelectLastInSeq

(* Something without blanks.                                               *)
Word(a) == a # <<>> /\ \A i \in 1..Len(a) : a[i] # BLANK

(* Fields are found again, if the first two hold no blank.                 *)
LEMMA FieldsFound ==
  ASSUME NEW a \in Seq(Int), NEW b \in Seq(Int), NEW c \in Int,
         Word(a), Len(b) # 0, c # BLANK
  PROVE  LET text == Fields(a, c, b)
         IN  /\ LeftBlank(text) = Len(a) + 1
             /\ SecondBlank(text) = Len(a) + 3
             /\ Word(b) => LastBlank(text) = Len(a) + 3
             /\ WellFormed(text, Len(a) + 1, Len(a) + 3)
             /\ Before(text, Len(a) + 1) = a
             /\ Behind(text, Len(a) + 3) = b
             /\ text[Len(a) + 2] = c
<1> DEFINE text == Fields(a, c, b)
           k == Len(a)
           m == Len(b)
<1>1. k \in Nat \ {0} /\ m \in Nat \ {0}
  BY EmptySeq DEF Word
<1>2. /\ text \in Seq(Int) /\ Len(text) = k + 3 + m
      /\ \A i \in 1..k : text[i] = a[i]
      /\ text[k + 1] = BLANK /\ text[k + 2] = c /\ text[k + 3] = BLANK
      /\ \A i \in 1..m : text[k + 3 + i] = b[i]
  <2>1. text \in Seq(Int) /\ text = Fields(a, c, b)
    BY FieldsType
  <2> HIDE DEF text, k, m
  <2>2. Layout(text, a, c, b)
    BY <2>1, FieldBytes
  <2> QED
    BY <2>1, <2>2 DEF k, m, Layout
<1> HIDE DEF text, k, m
<1>3. LeftBlank(text) = k + 1
  <2>1. k + 1 \in 1..Len(text)
    BY <1>1, <1>2
  <2>2. ASSUME NEW j \in 1..Len(text), text[j] = BLANK
        PROVE  k + 1 <= j
    <3>1. j \notin 1..k
      BY <1>2, <2>2 DEF k, Word
    <3> QED
      BY <1>1, <3>1
  <2> QED
    BY <1>2, <2>1, <2>2, FirstBlankIs
<1>4. SecondBlank(text) = k + 3
  <2> DEFINE s == SubSeq(text, (k + 1) + 1, Len(text))
  <2>1. /\ s \in Seq(Int) /\ Len(s) = m + 2 /\ s[1] = c /\ s[2] = BLANK
    <3> DEFINE from == (k + 1) + 1
               to == Len(text)
    <3> HIDE DEF s
    <3>1. from \in Int /\ to \in Int /\ 1 <= from /\ to <= Len(text)
          /\ from <= to /\ text \in Seq(Int)
      BY <1>1, <1>2
    <3>2. /\ from <= to /\ to - from + 1 = m + 2
          /\ 1 \in 1..(m + 2) /\ 2 \in 1..(m + 2)
          /\ from + 1 - 1 = k + 2 /\ from + 2 - 1 = k + 3
      BY <1>1, <1>2
    <3> HIDE DEF from, to
    <3>3. /\ SubSeq(text, from, to) \in Seq(Int)
          /\ Len(SubSeq(text, from, to)) = to - from + 1
          /\ \A i \in 1..(to - from + 1) :
               SubSeq(text, from, to)[i] = text[from + i - 1]
      BY <3>1, Slice
    <3>4. s = SubSeq(text, from, to)
      BY DEF s, from, to
    <3>5. /\ s \in Seq(Int) /\ Len(s) = m + 2
          /\ \A i \in 1..(m + 2) : s[i] = text[from + i - 1]
      BY <3>2, <3>3, <3>4
    <3> QED
      BY <1>2, <3>2, <3>5
  <2> HIDE DEF s
  <2>2. LeftBlank(s) = 2
    <3>1. 2 \in 1..Len(s)
      BY <1>1, <2>1
    <3>2. \A j \in 1..Len(s) : s[j] = BLANK => 2 <= j
      BY <1>1, <2>1
    <3> QED
      BY <2>1, <3>1, <3>2, FirstBlankIs
  <2>3. SecondBlank(text) = (k + 1) + 2
    BY <1>3, <2>2 DEF SecondBlank, s
  <2> QED
    BY <1>1, <2>3
<1>5. ASSUME Word(b)
      PROVE  LastBlank(text) = k + 3
  <2>1. k + 3 \in 1..Len(text)
    BY <1>1, <1>2
  <2>2. ASSUME NEW j \in 1..Len(text), text[j] = BLANK
        PROVE  j <= k + 3
    <3>1. ASSUME j > k + 3
          PROVE  FALSE
      <4>1. j - (k + 3) \in 1..m /\ k + 3 + (j - (k + 3)) = j
        BY <1>1, <1>2, <3>1
      <4>2. text[k + 3 + (j - (k + 3))] = b[j - (k + 3)]
        BY <1>2, <4>1
      <4> QED
        BY <1>5, <2>2, <4>1, <4>2 DEF Word, m
    <3> QED
      BY <1>1, <3>1
  <2> QED
    BY <1>2, <2>1, <2>2, LastBlankIs
<1>6. WellFormed(text, k + 1, k + 3)
  BY <1>1, <1>2 DEF WellFormed
<1>7. Before(text, k + 1) = a
  <2>1. \A i \in 1..k : text[0 + i] = a[i]
    BY <1>1, <1>2
  <2>2. 0 + k <= Len(text)
    BY <1>1, <1>2
  <2>3. SubSeq(text, 0 + 1, 0 + k) = a
    BY <1>2, <2>1, <2>2, Piece DEF k
  <2>4. (k + 1) - 1 = 0 + k
    BY <1>1
  <2> QED
    BY <2>3, <2>4 DEF Before
<1>8. Behind(text, k + 3) = b
  <2>1. \A i \in 1..m : text[(k + 3) + i] = b[i]
    BY <1>2
  <2>2. k + 3 \in Nat /\ (k + 3) + m <= Len(text) /\ (k + 3) + m = Len(text)
    BY <1>1, <1>2
  <2>3. SubSeq(text, (k + 3) + 1, (k + 3) + m) = b
    BY <1>2, <2>1, <2>2, Piece DEF m
  <2> QED
    BY <2>2, <2>3 DEF Behind
<1> QED
  BY <1>2, <1>3, <1>4, <1>5, <1>6, <1>7, <1>8 DEF text, k, m

(* A number is written without blanks.                                     *)
LEMMA NumberText ==
  ASSUME NEW n \in Int
  PROVE  /\ IntToText(n) \in Seq(Int) /\ Word(IntToText(n))
         /\ Stoi(IntToText(n)) = n /\ ~Throws(IntToText(n))
<1> DEFINE t == IntToText(n)
           B == Digit \cup {MINUS}
<1>1. /\ t \in Seq(B) /\ t # <<>>
      /\ Stoi(t) = n /\ ~Throws(t)
  BY ReadBack
<1>2. B \subseteq Int /\ BLANK \notin B
  BY DEF Digit, Zero, MINUS, BLANK
<1> HIDE DEF t, B
<1>3. t \in Seq(Int)
  BY <1>1, <1>2, SeqMonotonic
<1>4. \A i \in 1..Len(t) : t[i] \in B
  BY <1>1, ElementOfSeq
<1>5. Word(t)
  BY <1>1, <1>2, <1>4 DEF Word
<1> QED
  BY <1>1, <1>3, <1>5 DEF t

LEMMA CharProperties ==
  /\ \A oper \in Opers : Char[oper] \in Int /\ Char[oper] # BLANK
  /\ \A o1, o2 \in Opers : Char[o1] = Char[o2] => o1 = o2
BY DEF Char, Opers, BLANK, MINUS

(* A request is read as it was written.                                    *)
THEOREM RequestReadBack ==
  ASSUME NEW r \in Requests
  PROVE  /\ Serialize(r) \in Seq(Int) /\ Serialize(r) # <<>>
         /\ IsRequest(Serialize(r)) /\ ~RequestThrows(Serialize(r))
         /\ DeSerialize(Serialize(r)) = r
<1> DEFINE a == IntToText(r.x)
           b == IntToText(r.y)
           c == Char[r.oper]
           text == Fields(a, c, b)
<1>1. /\ r.x \in Int /\ r.y \in Int /\ r.oper \in Opers
      /\ r = [x |-> r.x, y |-> r.y, oper |-> r.oper]
  BY CalculateAssumption DEF Requests, Ints, IntMin
<1>2. Serialize(r) = text
  BY DEF Serialize, Fields
<1>3. /\ a \in Seq(Int) /\ Word(a) /\ Stoi(a) = r.x /\ ~Throws(a)
      /\ b \in Seq(Int) /\ Word(b) /\ Stoi(b) = r.y /\ ~Throws(b)
  BY <1>1, NumberText
<1>4. c \in Int /\ c # BLANK
  BY <1>1, CharProperties
<1>5. (CHOOSE oper \in Opers : Char[oper] = c) = r.oper
  BY <1>1, CharProperties
<1> HIDE DEF a, b, c
<1>6. text \in Seq(Int)
  BY <1>3, <1>4, FieldsType
<1>7. /\ LeftBlank(text) = Len(a) + 1 /\ LastBlank(text) = Len(a) + 3
      /\ WellFormed(text, Len(a) + 1, Len(a) + 3)
      /\ Before(text, Len(a) + 1) = a /\ Behind(text, Len(a) + 3) = b
      /\ text[Len(a) + 2] = c
  <2>1. Len(b) # 0
    BY <1>3, EmptySeq DEF Word
  <2> QED
    BY <1>3, <1>4, <2>1, FieldsFound
<1> HIDE DEF text
<1>8. (Len(a) + 3) - 1 = Len(a) + 2 /\ text # <<>>
  BY <1>3, <1>6, <1>7 DEF WellFormed
<1>9. IsRequest(text) /\ ~RequestThrows(text)
  BY <1>3, <1>7 DEF IsRequest, RequestThrows
<1>10. DeSerialize(text) = [x |-> r.x, y |-> r.y, oper |-> r.oper]
  BY <1>3, <1>5, <1>7, <1>8 DEF DeSerialize
<1> QED
  BY <1>1, <1>2, <1>6, <1>8, <1>9, <1>10

(* Execute answers with an int of any size and one of four flags.          *)
LEMMA ExecuteType ==
  ASSUME NEW r \in Requests
  PROVE  Execute(r) \in [flag : Flags, result : Int]
<1>1. /\ r.x \in Int /\ r.y \in Int /\ r.oper \in Opers
      /\ IntMin \in Int /\ IntMax \in Nat \ {0}
  BY CalculateAssumption DEF Requests, Ints, IntMin
<1>2. ASSUME NEW n \in Int
      PROVE  Wrap(n) \in Int
  <2>1. n - IntMin \in Int /\ 2 * (IntMax + 1) \in Nat \ {0}
    BY <1>1
  <2>2. (n - IntMin) % (2 * (IntMax + 1)) \in Int
    BY <2>1
  <2> QED
    BY <1>1, <2>2 DEF Wrap
<1>3. r.x + r.y \in Int /\ r.x - r.y \in Int /\ r.x * r.y \in Int
  BY <1>1
<1>4. ASSUME r.y # 0
      PROVE  Quotient(r.x, r.y) \in Int /\ Remainder(r.x, r.y) \in Int
  <2>1. Abs(r.x) \in Nat /\ Abs(r.y) \in Nat \ {0}
    BY <1>1, <1>4 DEF Abs
  <2>2. Abs(r.x) \div Abs(r.y) \in Int /\ Abs(r.x) % Abs(r.y) \in Int
    BY <2>1
  <2> QED
    BY <2>2 DEF Quotient, Remainder
<1>5. ASSUME NEW n \in Int
      PROVE  Right(n) \in [flag : Flags, result : Int]
  BY DEF Right, Flags
<1>6. ASSUME NEW f \in Flags
      PROVE  Wrong(f) \in [flag : Flags, result : Int]
  BY DEF Wrong
<1>7. 1 \in Flags /\ 2 \in Flags /\ 3 \in Flags
  BY DEF Flags
<1>8. \/ \E n \in Int : Execute(r) = Right(n)
      \/ \E f \in Flags : Execute(r) = Wrong(f)
  <2>1. CASE r.oper \in {"+", "-", "*"}
    <3>1. \E n \in Int : Execute(r) = Right(Wrap(n))
      BY <1>3, <2>1 DEF Execute
    <3> QED
      BY <1>2, <3>1
  <2>2. CASE r.oper \in {"/", "%"}
    BY <1>4, <1>7, <2>2 DEF Execute
  <2>3. CASE r.oper \notin {"+", "-", "*", "/", "%"}
    BY <1>7, <2>3 DEF Execute
  <2> QED
    BY <2>1, <2>2, <2>3
<1> QED
  BY <1>5, <1>6, <1>8

(* An answer is read as it was written, whatever its equation holds.       *)
LEMMA ResponseReadBack ==
  ASSUME NEW n \in Int, NEW f \in Flags, NEW eq \in Seq(Int), Len(eq) # 0
  PROVE  LET text == SerializeResponse([flag |-> f, result |-> n], eq)
         IN  DeSerializeResponse(text)
               = <<[result |-> n, flag |-> f, equation |-> eq]>>
<1> DEFINE a == IntToText(n)
           c == Zero + f
           text == Fields(a, c, eq)
<1>1. a \in Seq(Int) /\ Word(a) /\ Stoi(a) = n
  BY NumberText
<1>2. f \in Int /\ c \in Int /\ c # BLANK /\ c - Zero = f /\ f \in Nat /\ f < 10
  BY DEF Flags, Zero, BLANK
<1>3. Decimal(f) = <<c>>
  BY <1>2, DecimalOf
<1> HIDE DEF a, c
<1>4. SerializeResponse([flag |-> f, result |-> n], eq) = text
  <2>1. a \o <<BLANK>> \o <<c>> \o <<BLANK>> = a \o <<BLANK, c, BLANK>>
    <3> DEFINE x == <<BLANK>>
               y == <<c>>
    <3>1. x \in Seq(Int) /\ y \in Seq(Int) /\ BLANK \in Int
      BY <1>2 DEF BLANK
    <3>2. Cat(Cat(x, y), x) = <<BLANK, c, BLANK>>
      BY <1>2, <3>1, Middle
    <3> HIDE DEF x, y
    <3>3. /\ Cat(Cat(a, x), y) = Cat(a, Cat(x, y))
          /\ Cat(x, y) \in Seq(Int)
      BY <1>1, <3>1, CatLaws
    <3>4. Cat(Cat(a, Cat(x, y)), x) = Cat(a, Cat(Cat(x, y), x))
      BY <1>1, <3>1, <3>3, CatLaws
    <3>5. Cat(Cat(Cat(a, x), y), x) = Cat(a, <<BLANK, c, BLANK>>)
      BY <3>2, <3>3, <3>4, Zenon
    <3> QED
      BY <3>5, Zenon DEF Cat, x, y
  <2>2. SerializeResponse([flag |-> f, result |-> n], eq)
          = a \o <<BLANK>> \o <<c>> \o <<BLANK>> \o eq
    BY <1>3, Zenon DEF SerializeResponse, a
  <2> QED
    BY <2>1, <2>2, Zenon DEF Fields
<1>5. /\ LeftBlank(text) = Len(a) + 1 /\ SecondBlank(text) = Len(a) + 3
      /\ WellFormed(text, Len(a) + 1, Len(a) + 3)
      /\ Before(text, Len(a) + 1) = a /\ Behind(text, Len(a) + 3) = eq
      /\ text[Len(a) + 2] = c
  BY <1>1, <1>2, FieldsFound
<1> HIDE DEF text
<1>6. (Len(a) + 3) - 1 = Len(a) + 2
  BY <1>1
<1>7. DeSerializeResponse(text) = <<[result |-> n, flag |-> f, equation |-> eq]>>
  BY <1>1, <1>2, <1>5, <1>6 DEF DeSerializeResponse
<1> QED
  BY <1>4, <1>7

(* A client reads the answer that was written for its request.             *)
LEMMA AnswerReadBack ==
  ASSUME NEW r \in Requests
  PROVE  Read(SerializeResponse(Execute(r), Equation(r, Execute(r))), r)
<1> DEFINE resp == Execute(r)
           n == resp.result
           f == resp.flag
           eq == Equation(r, resp)
<1>1. n \in Int /\ f \in Flags /\ resp = [flag |-> f, result |-> n]
  BY ExecuteType
<1>2. eq \in Seq(Int) /\ Len(eq) # 0
  <2> HIDE DEF resp
  <2>1. CASE resp.flag # 0
    BY <2>1 DEF Equation
  <2>2. CASE resp.flag = 0
    <3> DEFINE s == Serialize(r)
               m == <<BLANK, 61, BLANK>>
               t == IntToText(resp.result)
    <3>1. s \in Seq(Int) /\ Len(s) # 0
      BY RequestReadBack, EmptySeq
    <3>2. m \in Seq(Int)
      BY DEF BLANK
    <3>3. t \in Seq(Int)
      BY <1>1, NumberText
    <3> HIDE DEF s, m, t
    <3>4. s \o m \in Seq(Int) /\ Len(s \o m) = Len(s) + Len(m)
      BY <3>1, <3>2, Bytes
    <3>5. (s \o m) \o t \in Seq(Int) /\ Len((s \o m) \o t) = Len(s \o m) + Len(t)
      BY <3>3, <3>4, Bytes
    <3>6. eq = (s \o m) \o t
      BY <2>2 DEF Equation, s, m, t
    <3>7. Len(s) \in Nat /\ Len(m) \in Nat /\ Len(t) \in Nat
      BY <3>1, <3>2, <3>3
    <3>8. Len((s \o m) \o t) # 0
      <4> DEFINE all == Len((s \o m) \o t)
      <4>1. all = (Len(s) + Len(m)) + Len(t)
        BY <3>4, <3>5
      <4> HIDE DEF all
      <4>2. all # 0
        BY <3>1, <3>7, <4>1
      <4> QED
        BY <4>2 DEF all
    <3> QED
      BY <3>5, <3>6, <3>8, Zenon
  <2> QED
    BY <2>1, <2>2
<1> HIDE DEF n, f, eq
<1>3. DeSerializeResponse(SerializeResponse([flag |-> f, result |-> n], eq))
        = <<[result |-> n, flag |-> f, equation |-> eq]>>
  BY <1>1, <1>2, ResponseReadBack
<1> HIDE DEF resp
<1>4. DeSerializeResponse(SerializeResponse(resp, eq))
        = <<[result |-> resp.result, flag |-> resp.flag, equation |-> eq]>>
  BY <1>1, <1>3, Zenon DEF n, f
<1> QED
  BY <1>4, Zenon DEF Read, resp, eq

-----------------------------------------------------------------------------
(* The stream.  What may be sent:                                          *)
Messages == {Asks(r) : r \in Requested} \cup {Says(text) : text \in Strange}

LEMMA MessageProperties ==
  ASSUME NEW m \in Messages
  PROVE  /\ m.payload \in Seq(Int) /\ m.payload # <<>>
         /\ m.request # <<>> =>
              \E r \in Requests : m.request = <<r>> /\ m.payload = Serialize(r)
<1>1. CASE \E r \in Requested : m = Asks(r)
  <2>1. PICK r \in Requests : m = Asks(r)
    BY <1>1, FramingAssumption
  <2>2. m.payload = Serialize(r) /\ m.request = <<r>>
    BY <2>1 DEF Asks
  <2> QED
    BY <2>2, RequestReadBack
<1>2. CASE \E text \in Strange : m = Says(text)
  <2>1. PICK text \in Strange : m = Says(text)
    BY <1>2
  <2>2. m.payload = text /\ m.request = <<>>
    BY <2>1 DEF Says
  <2>3. text \in Seq(1..127) /\ text # <<>>
    BY FramingAssumption
  <2>4. text \in Seq(Int)
    <3>1. 1..127 \subseteq Int
      OBVIOUS
    <3> QED
      BY <2>3, <3>1, SeqMonotonic
  <2> QED
    BY <2>2, <2>3, <2>4
<1> QED
  BY <1>1, <1>2 DEF Messages

(* The function behind Encoded(s), from the j-th frame on.                 *)
Streams(f, s, j) ==
  f = [i \in j..(Len(s) + 1) |->
         IF i > Len(s) THEN <<>> ELSE Encode(s[i].payload) \o f[i + 1]]

LEMMA SomethingStreams ==
  ASSUME NEW s, Len(s) \in Nat, NEW k \in Nat, k <= Len(s)
  PROVE  \E f : Streams(f, s, Len(s) + 1 - k)
<1> DEFINE n == Len(s)
           T == {j \in Nat : j <= n /\ ~ \E f : Streams(f, s, n + 1 - j)}
<1>0. SUFFICES ASSUME T # {}
               PROVE  FALSE
  OBVIOUS
<1>1. PICK j \in T : \A h \in T : j <= h
  BY <1>0, LeastNatural
<1>2. n \in Nat /\ j \in Nat /\ j <= n
  BY <1>1
<1>3. CASE j = 0
  <2> DEFINE g == [i \in (n + 1)..(n + 1) |-> <<>>]
  <2>1. Streams(g, s, n + 1)
    <3>1. \A i \in (n + 1)..(n + 1) : i > n
      BY <1>2
    <3> QED
      BY <3>1 DEF Streams
  <2>2. n + 1 - j = n + 1
    BY <1>2, <1>3
  <2>3. \E f : Streams(f, s, n + 1 - j)
    BY <2>1, <2>2
  <2> QED
    BY <1>1, <2>3
<1>4. CASE j # 0
  <2> DEFINE from == n + 1 - j
  <2>1. j - 1 \in Nat /\ j - 1 \notin T /\ n + 1 - (j - 1) = from + 1
    BY <1>1, <1>2, <1>4
  <2>2. PICK f : Streams(f, s, from + 1)
    BY <1>2, <2>1
  <2> DEFINE Body(i) == IF i > n THEN <<>> ELSE Encode(s[i].payload) \o f[i + 1]
             g == [i \in from..(n + 1) |-> Body(i)]
  <2>3. \A i \in (from + 1)..(n + 1) : g[i] = f[i]
    <3>1. \A i \in (from + 1)..(n + 1) : f[i] = Body(i)
      <4> HIDE DEF from
      <4> QED
        BY <2>2 DEF Streams
    <3> HIDE DEF Body
    <3>2. \A i \in (from + 1)..(n + 1) : i \in from..(n + 1)
      BY <1>2
    <3> QED
      BY <3>1, <3>2
  <2>4. ASSUME NEW i \in from..(n + 1)
        PROVE  Body(i) = IF i > n THEN <<>> ELSE Encode(s[i].payload) \o g[i + 1]
    <3>1. CASE i > n
      BY <3>1
    <3>2. CASE ~(i > n)
      <4>1. i + 1 \in (from + 1)..(n + 1)
        BY <1>2, <3>2
      <4>2. g[i + 1] = f[i + 1]
        BY <2>3, <4>1
      <4> HIDE DEF g
      <4> QED
        BY <3>2, <4>2, Zenon
    <3> QED
      BY <3>1, <3>2
  <2>5. Streams(g, s, from)
    <3> HIDE DEF from
    <3> QED
      BY <2>4, Zenon DEF Streams
  <2>6. \E h : Streams(h, s, n + 1 - j)
    BY <2>5, Zenon
  <2> QED
    BY <1>1, <2>6
<1> QED
  BY <1>3, <1>4

LEMMA EncodedOf ==
  ASSUME NEW s, Len(s) \in Nat
  PROVE  /\ Encoded(s)[Len(s) + 1] = <<>>
         /\ \A i \in 1..Len(s) :
              Encoded(s)[i] = Cat(Encode(s[i].payload), Encoded(s)[i + 1])
<1> DEFINE n == Len(s)
           F == CHOOSE f : Streams(f, s, 1)
<1>1. Encoded(s) = F
  BY DEF Encoded, Streams
<1>2. Streams(F, s, 1)
  <2>1. n <= n /\ n + 1 - n = 1
    OBVIOUS
  <2>2. \E f : Streams(f, s, n + 1 - n)
    BY SomethingStreams
  <2>3. \E f : Streams(f, s, 1)
    BY <2>1, <2>2
  <2> QED
    BY <2>3, Zenon
<1> HIDE DEF F
<1>3. n + 1 \in 1..(n + 1) /\ n + 1 > n
  OBVIOUS
<1>4. \A i \in 1..n : i \in 1..(n + 1) /\ ~(i > n)
  OBVIOUS
<1>5. \A i \in 1..(n + 1) :
        F[i] = IF i > n THEN <<>> ELSE Encode(s[i].payload) \o F[i + 1]
  BY <1>2, Zenon DEF Streams
<1>6. F[n + 1] = <<>>
  BY <1>3, <1>5, Zenon
<1>7. \A i \in 1..n : F[i] = Encode(s[i].payload) \o F[i + 1]
  BY <1>4, <1>5, Zenon
<1> QED
  BY <1>1, <1>6, <1>7, Zenon DEF Cat

LEMMA EncodedType ==
  ASSUME NEW s \in Seq(Messages), NEW i \in 1..(Len(s) + 1)
  PROVE  Encoded(s)[i] \in Seq(Int)
<1> DEFINE n == Len(s)
           T == {k \in Nat : k <= n /\ Encoded(s)[n + 1 - k] \notin Seq(Int)}
<1>1. n \in Nat
  OBVIOUS
<1>2. ASSUME T # {}
      PROVE  FALSE
  <2>1. PICK k \in T : \A h \in T : k <= h
    BY <1>2, LeastNatural
  <2>2. CASE k = 0
    <3>1. n + 1 - k = n + 1
      BY <1>1, <2>2
    <3>2. Encoded(s)[n + 1] = <<>>
      BY <1>1, EncodedOf
    <3>3. <<>> \in Seq(Int)
      BY EmptySeq
    <3> QED
      BY <2>1, <3>1, <3>2, <3>3
  <2>3. CASE k # 0
    <3> DEFINE j == n + 1 - k
    <3>1. j \in 1..n /\ k - 1 \in Nat /\ k - 1 < k /\ k - 1 <= n
          /\ n + 1 - (k - 1) = j + 1
      BY <1>1, <2>1, <2>3
    <3>2. k - 1 \notin T
      <4>1. ~(k <= k - 1)
        BY <2>1
      <4> HIDE DEF T
      <4> QED
        BY <2>1, <4>1
    <3>3. Encoded(s)[j + 1] \in Seq(Int)
      BY <3>1, <3>2
    <3> HIDE DEF j
    <3>4. s[j] \in Messages
      BY <3>1, ElementOfSeq
    <3>5. Encode(s[j].payload) \in Seq(Int)
      BY <3>4, MessageProperties, FrameBytes
    <3>6. Cat(Encode(s[j].payload), Encoded(s)[j + 1]) \in Seq(Int)
      BY <3>3, <3>5, CatLaws
    <3>7. Encoded(s)[j] \in Seq(Int)
      BY <1>1, <3>1, <3>6, EncodedOf
    <3> QED
      BY <2>1, <3>7 DEF j
  <2> QED
    BY <2>2, <2>3
<1>3. n + 1 - i \in Nat /\ n + 1 - i <= n /\ n + 1 - (n + 1 - i) = i
  BY <1>1
<1>4. n + 1 - i \notin T
  BY <1>2
<1> QED
  BY <1>3, <1>4

(* What is sent next comes at the end, whichever frame one begins with.    *)
LEMMA EncodedAppend ==
  ASSUME NEW s \in Seq(Messages), NEW m \in Messages,
         NEW i \in 1..(Len(s) + 1)
  PROVE  Encoded(Append(s, m))[i] = Cat(Encoded(s)[i], Encode(m.payload))
<1> DEFINE n == Len(s)
           t == Append(s, m)
           x == Encode(m.payload)
           T == {k \in Nat : k <= n
                   /\ Encoded(t)[n + 1 - k] # Cat(Encoded(s)[n + 1 - k], x)}
<1>1. n \in Nat
  OBVIOUS
<1>2. /\ t \in Seq(Messages) /\ Len(t) = n + 1 /\ t[n + 1] = m
      /\ \A j \in 1..n : t[j] = s[j]
  BY AppendProperties
<1>3. x \in Seq(Int)
  BY MessageProperties, FrameBytes
<1> HIDE DEF t, x
<1>4. ASSUME T # {}
      PROVE  FALSE
  <2>1. PICK k \in T : \A h \in T : k <= h
    BY <1>4, LeastNatural
  <2>2. CASE k = 0
    <3>1. n + 1 - k = n + 1 /\ n + 1 \in 1..Len(t) /\ Len(t) \in Nat
          /\ Len(t) = n + 1
      BY <1>1, <1>2, <2>2
    <3>2. /\ Encoded(t)[n + 1] = Cat(Encode(t[n + 1].payload), Encoded(t)[(n + 1) + 1])
          /\ Encoded(t)[(n + 1) + 1] = <<>>
      BY <3>1, EncodedOf
    <3>3. Encoded(t)[n + 1] = Cat(x, <<>>)
      BY <1>2, <3>2, Zenon DEF x
    <3>4. Encoded(s)[n + 1] = <<>>
      BY <1>1, EncodedOf
    <3>5. Cat(x, <<>>) = Cat(<<>>, x)
      BY <1>3, CatLaws
    <3>6. Encoded(t)[n + 1] = Cat(Encoded(s)[n + 1], x)
      BY <3>3, <3>4, <3>5, Zenon
    <3> QED
      BY <2>1, <3>1, <3>6
  <2>3. CASE k # 0
    <3> DEFINE j == n + 1 - k
    <3>1. j \in 1..n /\ j + 1 \in 1..(n + 1) /\ k - 1 \in Nat /\ k - 1 < k /\ k - 1 <= n
          /\ n + 1 - (k - 1) = j + 1
      BY <1>1, <2>1, <2>3
    <3>2. k - 1 \notin T
      <4>1. ~(k <= k - 1)
        BY <2>1
      <4> HIDE DEF T
      <4> QED
        BY <2>1, <4>1
    <3>3. Encoded(t)[j + 1] = Cat(Encoded(s)[j + 1], x)
      BY <3>1, <3>2
    <3> HIDE DEF j
    <3> DEFINE e == Encode(s[j].payload)
               rest == Encoded(s)[j + 1]
    <3>4. e \in Seq(Int)
      <4>1. s[j] \in Messages
        BY <3>1, ElementOfSeq
      <4> QED
        BY <4>1, MessageProperties, FrameBytes
    <3>5. rest \in Seq(Int)
      BY <3>1, EncodedType
    <3>6. Encoded(s)[j] = Cat(e, rest)
      BY <1>1, <3>1, EncodedOf
    <3>7. Encoded(t)[j] = Cat(e, Encoded(t)[j + 1])
      <4>1. Len(t) \in Nat /\ j \in 1..Len(t) /\ t[j] = s[j]
        BY <1>1, <1>2, <3>1
      <4> QED
        BY <4>1, EncodedOf
    <3> HIDE DEF e, rest
    <3>8. Cat(Cat(e, rest), x) = Cat(e, Cat(rest, x))
      BY <1>3, <3>4, <3>5, CatLaws
    <3>9. Encoded(t)[j] = Cat(Encoded(s)[j], x)
      BY <3>3, <3>6, <3>7, <3>8, Zenon DEF rest
    <3> QED
      BY <2>1, <3>9 DEF j
  <2> QED
    BY <2>2, <2>3
<1>5. n + 1 - i \in Nat /\ n + 1 - i <= n /\ n + 1 - (n + 1 - i) = i
  BY <1>1
<1>6. n + 1 - i \notin T
  BY <1>4
<1> QED
  BY <1>5, <1>6 DEF t, x

(* Nothing is found in an empty buffer.                                    *)
LEMMA NothingFound == Decode(<<>>).payload = <<>>
<1>1. {i \in 1..(Len(<<>>) - 1) : <<>>[i] = CR /\ <<>>[i + 1] = LF} = {}
  OBVIOUS
<1>2. Find(<<>>) = 0
  BY <1>1 DEF Find
<1> QED
  BY <1>2 DEF Decode

-----------------------------------------------------------------------------
(* StreamKept, by parts.                                                   *)
Kept == Cat(inbuffer, wire) = Encoded(sent)[Len(executed) + 1]

Answered(i) ==
  sent[i].request # <<>> =>
    executed[i] = sent[i].request /\ Read(answers[i], executed[i][1])

Emptied ==
  stage = "recv" /\ Len(executed) < Len(sent) =>
    Len(inbuffer) < Len(Encode(sent[Len(executed) + 1].payload))

Typed ==
  /\ sent \in Seq(Messages)
  /\ inbuffer \in Seq(Int) /\ wire \in Seq(Int)
  /\ \E S : executed \in Seq(S)
  /\ \E S : answers \in Seq(S)
  /\ Len(answers) = Len(executed) /\ Len(executed) <= Len(sent)

Whole ==
  Typed /\ Kept /\ (\A i \in 1..Len(executed) : Answered(i)) /\ Emptied

LEMMA WholeSuffices == Whole => StreamKept
<1> SUFFICES ASSUME Whole
             PROVE  StreamKept
  OBVIOUS
<1>1. inbuffer \o wire = Encoded(sent)[Len(executed) + 1]
  BY Zenon DEF Whole, Kept, Cat
<1>2. \A i \in 1..Len(executed) :
        sent[i].request # <<>> =>
          executed[i] = sent[i].request /\ Read(answers[i], executed[i][1])
  BY Zenon DEF Whole, Answered
<1>3. stage = "recv" /\ Len(executed) < Len(sent) =>
        Len(inbuffer) < Len(Encode(sent[Len(executed) + 1].payload))
  BY Zenon DEF Whole, Emptied
<1> QED
  BY <1>1, <1>2, <1>3, Zenon DEF StreamKept

LEMMA WholeInit == FramingInit => Whole
<1> SUFFICES ASSUME FramingInit
             PROVE  Whole
  OBVIOUS
<1>1. /\ sent = <<>> /\ wire = <<>> /\ inbuffer = <<>>
      /\ executed = <<>> /\ answers = <<>>
  BY DEF FramingInit
<1>2. Len(<<>>) = 0 /\ \A S : <<>> \in Seq(S)
  BY EmptySeq
<1>3. Typed
  BY <1>1, <1>2 DEF Typed
<1>4. Kept
  <2>1. Encoded(<<>>)[0 + 1] = <<>>
    <3>1. Len(<<>>) \in Nat /\ Len(<<>>) + 1 = 0 + 1
      BY <1>2
    <3>2. Encoded(<<>>)[Len(<<>>) + 1] = <<>>
      BY <3>1, EncodedOf
    <3> QED
      BY <3>1, <3>2
  <2>2. Cat(<<>>, <<>>) = <<>>
    BY <1>2, CatLaws
  <2> QED
    BY <1>1, <1>2, <2>1, <2>2 DEF Kept
<1>5. Emptied
  BY <1>1, <1>2 DEF Emptied
<1>6. \A i \in 1..Len(executed) : FALSE
  BY <1>1, <1>2
<1> QED
  BY <1>3, <1>4, <1>5, <1>6 DEF Whole

(* The frame that comes next.                                              *)
LEMMA NextFrame ==
  ASSUME Typed, Kept, Len(executed) < Len(sent)
  PROVE  LET n == Len(executed)
             p == sent[n + 1].payload
             more == Encoded(sent)[(n + 1) + 1]
         IN  /\ n \in Nat /\ n + 1 \in 1..Len(sent) /\ sent[n + 1] \in Messages
             /\ p \in Seq(Int) /\ p # <<>> /\ more \in Seq(Int)
             /\ Cat(inbuffer, wire) = Cat(Encode(p), more)
<1> DEFINE n == Len(executed)
           p == sent[n + 1].payload
           more == Encoded(sent)[(n + 1) + 1]
<1>1. /\ sent \in Seq(Messages) /\ Len(sent) \in Nat /\ n \in Nat
      /\ n + 1 \in 1..Len(sent) /\ (n + 1) + 1 \in 1..(Len(sent) + 1)
  <2>1. sent \in Seq(Messages) /\ \E S : executed \in Seq(S)
    BY DEF Typed
  <2>2. Len(sent) \in Nat /\ n \in Nat
    BY <2>1
  <2> HIDE DEF n
  <2> QED
    BY <2>1, <2>2 DEF n
<1>2. sent[n + 1] \in Messages
  BY <1>1, ElementOfSeq
<1>3. p \in Seq(Int) /\ p # <<>>
  BY <1>2, MessageProperties
<1> HIDE DEF p
<1>4. more \in Seq(Int)
  BY <1>1, EncodedType
<1>5. Encoded(sent)[n + 1] = Cat(Encode(p), more)
  BY <1>1, EncodedOf DEF p
<1>6. Cat(inbuffer, wire) = Cat(Encode(p), more)
  BY <1>5, Zenon DEF Kept
<1> QED
  BY <1>1, <1>2, <1>3, <1>4, <1>6, Zenon DEF p

LEMMA SendWhole ==
  ASSUME Whole, NEW m \in Messages, SendFrame(m)
  PROVE  Whole'
<1> DEFINE n == Len(executed)
           x == Encode(m.payload)
<1>1. /\ sent' = Append(sent, m) /\ wire' = Cat(wire, x)
      /\ inbuffer' = inbuffer /\ executed' = executed /\ answers' = answers
      /\ stage' = stage
  BY Zenon DEF SendFrame, Cat
<1>2. Typed /\ Kept /\ Emptied /\ \A i \in 1..n : Answered(i)
  BY Zenon DEF Whole
<1>3. /\ sent \in Seq(Messages) /\ Len(sent) \in Nat /\ n \in Nat
      /\ inbuffer \in Seq(Int) /\ wire \in Seq(Int) /\ n <= Len(sent)
  <2>1. /\ sent \in Seq(Messages) /\ \E S : executed \in Seq(S)
        /\ inbuffer \in Seq(Int) /\ wire \in Seq(Int) /\ n <= Len(sent)
    BY <1>2 DEF Typed
  <2> QED
    BY <2>1
<1>4. x \in Seq(Int)
  BY MessageProperties, FrameBytes
<1>5. /\ sent' \in Seq(Messages) /\ Len(sent') = Len(sent) + 1
      /\ \A i \in 1..Len(sent) : sent'[i] = sent[i]
      /\ sent'[Len(sent) + 1] = m
  BY <1>1, <1>3, AppendProperties
<1> HIDE DEF n
<1>6. n + 1 \in 1..(Len(sent) + 1) /\ n <= Len(sent')
  BY <1>3, <1>5
<1>7. Typed'
  <2>1. wire' \in Seq(Int)
    BY <1>1, <1>3, <1>4, CatLaws
  <2> QED
    BY <1>1, <1>2, <1>5, <1>6, <2>1 DEF Typed, n
<1>8. Kept'
  <2> HIDE DEF x
  <2>1. Encoded(sent')[n + 1] = Cat(Encoded(sent)[n + 1], x)
    BY <1>1, <1>3, <1>6, EncodedAppend DEF x
  <2>2. Encoded(sent)[n + 1] = Cat(inbuffer, wire)
    BY <1>2 DEF Kept, n
  <2>3. Cat(Cat(inbuffer, wire), x) = Cat(inbuffer, Cat(wire, x))
    BY <1>3, <1>4, CatLaws
  <2>4. Cat(inbuffer', wire') = Encoded(sent')[n + 1]
    BY <1>1, <2>1, <2>2, <2>3, Zenon
  <2> QED
    BY <1>1, <2>4, Zenon DEF Kept, n
<1>9. ASSUME NEW i \in 1..n
      PROVE  Answered(i)'
  <2>1. i \in 1..Len(sent)
    BY <1>3
  <2>2. sent'[i] = sent[i]
    BY <1>5, <2>1
  <2>3. Answered(i)
    BY <1>2 DEF n
  <2> QED
    BY <1>1, <2>2, <2>3, Zenon DEF Answered
<1>10. Emptied'
  <2>1. CASE n < Len(sent)
    <3>1. n + 1 \in 1..Len(sent)
      BY <1>3, <2>1
    <3>2. sent'[n + 1] = sent[n + 1]
      BY <1>5, <3>1
    <3>3. stage = "recv" => Len(inbuffer) < Len(Encode(sent[n + 1].payload))
      BY <1>2, <2>1 DEF Emptied, n
    <3> QED
      BY <1>1, <3>2, <3>3, Zenon DEF Emptied, n
  <2>2. CASE n = Len(sent)
    <3>1. sent'[n + 1] = m
      BY <1>5, <2>2
    <3>2. Encoded(sent)[n + 1] = <<>>
      BY <1>3, <2>2, EncodedOf
    <3>3. Cat(inbuffer, wire) = <<>>
      BY <1>2, <3>2, Zenon DEF Kept, n
    <3>4. inbuffer = <<>>
      BY <1>3, <3>3, CatLaws
    <3>5. Len(inbuffer) = 0
      BY <3>4
    <3>6. 0 < Len(x)
      <4>1. /\ m.payload \in Seq(Int)
            /\ Len(x) = Len(Decimal(Len(m.payload))) + 4 + Len(m.payload)
        BY MessageProperties, FrameBytes
      <4>2. Len(m.payload) \in Nat
        BY <4>1
      <4>3. Len(Decimal(Len(m.payload))) \in Nat
        BY <4>2, DecimalDigits
      <4>4. \A a, b, c \in Nat : c = a + 4 + b => 0 < c
        OBVIOUS
      <4>5. Len(x) \in Nat
        BY <1>4
      <4> HIDE DEF x
      <4> QED
        BY <4>1, <4>2, <4>3, <4>4, <4>5, Zenon
    <3>7. Len(inbuffer') < Len(Encode(sent'[n + 1].payload))
      BY <1>1, <3>1, <3>5, <3>6, Zenon
    <3> QED
      BY <1>1, <3>7, Zenon DEF Emptied, n
  <2> QED
    BY <1>3, <2>1, <2>2
<1> QED
  <2>1. \A i \in 1..Len(executed') : Answered(i)'
    BY <1>1, <1>9, Zenon DEF n
  <2> QED
    BY <1>7, <1>8, <1>10, <2>1, Zenon DEF Whole

(* What is neither sent nor executed changes nothing.                      *)
LEMMA SameAnswers ==
  ASSUME Whole, UNCHANGED <<sent, executed, answers>>
  PROVE  \A i \in 1..Len(executed') : Answered(i)'
BY Zenon DEF Whole, Answered

LEMMA RecvWhole ==
  ASSUME Whole, NEW n \in Nat, RecvBytes(n)
  PROVE  Whole'
<1> DEFINE first == SubSeq(wire, 1, n)
           rest == SubSeq(wire, n + 1, Len(wire))
<1>1. /\ n <= Len(wire) /\ inbuffer' = Cat(inbuffer, first) /\ wire' = rest
      /\ sent' = sent /\ executed' = executed /\ answers' = answers
      /\ stage' = "decode"
  BY Zenon DEF RecvBytes, Cat
<1>2. Typed /\ Kept
  BY Zenon DEF Whole
<1>3. inbuffer \in Seq(Int) /\ wire \in Seq(Int)
  BY <1>2 DEF Typed
<1>4. /\ first \in Seq(Int) /\ rest \in Seq(Int)
      /\ Cat(first, rest) = wire
  <2>1. /\ Len(wire) \in Nat /\ 1 \in 1..(Len(wire) + 1)
        /\ n \in (1 - 1)..Len(wire) /\ Len(wire) \in n..Len(wire)
    BY <1>1, <1>3
  <2>2. Cat(first, rest) = SubSeq(wire, 1, Len(wire))
    BY <1>3, <2>1, ConcatAdjacentSubSeq DEF Cat
  <2>3. SubSeq(wire, 1, Len(wire)) = wire
    BY <1>3, SubSeqFull
  <2>4. \A i \in 1..n : wire[i] \in Int
    BY <1>3, <2>1
  <2>5. \A i \in (n + 1)..Len(wire) : wire[i] \in Int
    BY <1>3, <2>1
  <2>6. first \in Seq(Int)
    BY <2>1, <2>4, SubSeqProperties
  <2>7. rest \in Seq(Int)
    BY <2>1, <2>5, SubSeqProperties
  <2> QED
    BY <2>2, <2>3, <2>6, <2>7, Zenon
<1> HIDE DEF first, rest
<1>5. /\ Cat(Cat(inbuffer, first), rest) = Cat(inbuffer, Cat(first, rest))
      /\ Cat(inbuffer, first) \in Seq(Int)
  BY <1>3, <1>4, CatLaws
<1>6. Typed'
  BY <1>1, <1>2, <1>4, <1>5 DEF Typed
<1>7. Kept'
  BY <1>1, <1>2, <1>4, <1>5, Zenon DEF Kept
<1>8. Emptied'
  BY <1>1 DEF Emptied
<1>9. \A i \in 1..Len(executed') : Answered(i)'
  BY <1>1, SameAnswers
<1> QED
  BY <1>6, <1>7, <1>8, <1>9, Zenon DEF Whole

(* No frame is left behind: there is none, or Decode would have found it.  *)
LEMMA ParseDoneWhole ==
  ASSUME Whole, ParseDone
  PROVE  Whole'
<1>1. /\ inbuffer' = inbuffer /\ wire' = wire /\ sent' = sent
      /\ executed' = executed /\ answers' = answers
      /\ Decode(inbuffer).payload = <<>>
  BY DEF ParseDone
<1>2. Typed /\ Kept
  BY Zenon DEF Whole
<1>3. Typed' /\ Kept'
  BY <1>1, <1>2 DEF Typed, Kept
<1>4. ASSUME Len(executed) < Len(sent)
      PROVE  Len(inbuffer) < Len(Encode(sent[Len(executed) + 1].payload))
  <2> DEFINE p == sent[Len(executed) + 1].payload
             more == Encoded(sent)[(Len(executed) + 1) + 1]
  <2>1. /\ p \in Seq(Int) /\ p # <<>> /\ more \in Seq(Int)
        /\ Cat(inbuffer, wire) = Cat(Encode(p), more)
    BY <1>2, <1>4, NextFrame
  <2>2. inbuffer \in Seq(Int) /\ wire \in Seq(Int)
    BY <1>2 DEF Typed
  <2> HIDE DEF p, more
  <2>3. ~(Len(inbuffer) >= Len(Encode(p)))
    BY <1>1, <2>1, <2>2, FrameFound
  <2>4. Len(inbuffer) \in Nat /\ Len(Encode(p)) \in Nat
    <3>1. Encode(p) \in Seq(Int)
      BY <2>1, FrameBytes
    <3> QED
      BY <2>2, <3>1
  <2>5. Len(inbuffer) < Len(Encode(p))
    BY <2>3, <2>4
  <2> QED
    BY <2>5 DEF p
<1>5. Emptied'
  BY <1>1, <1>4, Zenon DEF Emptied
<1>6. \A i \in 1..Len(executed') : Answered(i)'
  BY <1>1, SameAnswers
<1> QED
  BY <1>3, <1>5, <1>6, Zenon DEF Whole

(* A frame is taken off the stream and nothing else is; if it is a request,*)
(* that request is executed and its client reads the answer to it.         *)
LEMMA ParseWhole ==
  ASSUME Whole, Parse
  PROVE  Whole'
<1> DEFINE n == Len(executed)
           frame == Decode(inbuffer)
           text == frame.payload
           answer == IF req' = <<>> THEN <<>>
                     ELSE SerializeResponse(Execute(req'[1]),
                                            Equation(req'[1], Execute(req'[1])))
<1>1. /\ text # <<>> /\ inbuffer' = frame.rest
      /\ req' = (IF IsRequest(text) THEN <<DeSerialize(text)>> ELSE req)
      /\ executed' = Append(executed, req') /\ answers' = Append(answers, answer)
      /\ sent' = sent /\ wire' = wire /\ stage' = stage /\ stage = "decode"
  BY Zenon DEF Parse
<1>2. Typed /\ Kept /\ \A i \in 1..n : Answered(i)
  BY Zenon DEF Whole
<1>3. /\ inbuffer \in Seq(Int) /\ wire \in Seq(Int) /\ sent \in Seq(Messages)
      /\ n <= Len(sent) /\ Len(answers) = n
  BY <1>2 DEF Typed
<1>4. PICK S : executed \in Seq(S)
  BY <1>2 DEF Typed
<1>5. PICK A : answers \in Seq(A)
  BY <1>2 DEF Typed
<1>6. n \in Nat /\ Len(sent) \in Nat
  BY <1>3, <1>4
<1> HIDE DEF n, frame, answer
<1>7. n < Len(sent)
  <2>1. ASSUME n = Len(sent)
        PROVE  FALSE
    <3>1. Encoded(sent)[n + 1] = <<>>
      BY <1>6, <2>1, EncodedOf
    <3>2. Cat(inbuffer, wire) = <<>>
      BY <1>2, <3>1, Zenon DEF Kept, n
    <3>3. inbuffer = <<>>
      BY <1>3, <3>2, CatLaws
    <3> QED
      BY <1>1, <3>3, NothingFound, Zenon DEF frame
  <2> QED
    BY <1>3, <1>6, <2>1
<1> DEFINE p == sent[n + 1].payload
           more == Encoded(sent)[(n + 1) + 1]
<1>8. /\ n + 1 \in 1..Len(sent) /\ sent[n + 1] \in Messages
      /\ p \in Seq(Int) /\ p # <<>> /\ more \in Seq(Int)
      /\ Cat(inbuffer, wire) = Cat(Encode(p), more)
  BY <1>2, <1>7, NextFrame DEF n
<1> HIDE DEF p, more
<1>9. text = p /\ frame.rest \in Seq(Int) /\ Cat(frame.rest, wire) = more
  BY <1>1, <1>3, <1>8, FrameFound DEF frame
<1>10. /\ executed' \in Seq(S \cup {req'}) /\ Len(executed') = n + 1
       /\ executed'[n + 1] = req'
       /\ \A i \in 1..n : executed'[i] = executed[i]
  <2>1. executed \in Seq(S \cup {req'}) /\ req' \in S \cup {req'}
    BY <1>4, SeqMonotonic
  <2> QED
    BY <1>1, <2>1, AppendProperties DEF n
<1>11. /\ answers' \in Seq(A \cup {answer}) /\ Len(answers') = n + 1
       /\ answers'[n + 1] = answer
       /\ \A i \in 1..n : answers'[i] = answers[i]
  <2>1. answers \in Seq(A \cup {answer}) /\ answer \in A \cup {answer}
    BY <1>5, SeqMonotonic
  <2> QED
    BY <1>1, <1>3, <2>1, AppendProperties
<1>12. Typed'
  <2>1. n + 1 <= Len(sent)
    BY <1>6, <1>7
  <2> QED
    BY <1>1, <1>3, <1>9, <1>10, <1>11, <2>1 DEF Typed
<1>13. Kept'
  BY <1>1, <1>9, <1>10, Zenon DEF Kept, more
<1>14. ASSUME NEW i, i = n + 1
       PROVE  Answered(i)'
  <2> SUFFICES ASSUME sent[n + 1].request # <<>>
               PROVE  /\ req' = sent[n + 1].request
                      /\ Read(answer, req'[1])
    BY <1>1, <1>10, <1>11, <1>14, Zenon DEF Answered
  <2>1. PICK r \in Requests : sent[n + 1].request = <<r>> /\ p = Serialize(r)
    BY <1>8, MessageProperties DEF p
  <2>2. IsRequest(text) /\ DeSerialize(text) = r
    BY <1>9, <2>1, RequestReadBack
  <2>3. req' = <<r>>
    BY <1>1, <2>2
  <2>4. req' # <<>> /\ req'[1] = r
    BY <2>3
  <2>5. answer = SerializeResponse(Execute(r), Equation(r, Execute(r)))
    BY <2>4, Zenon DEF answer
  <2>6. Read(answer, r)
    BY <2>5, AnswerReadBack
  <2> QED
    BY <2>1, <2>3, <2>4, <2>6, Zenon
<1>15. ASSUME NEW i \in 1..n
       PROVE  Answered(i)'
  <2>1. Answered(i)
    BY <1>2
  <2>2. executed'[i] = executed[i] /\ answers'[i] = answers[i]
    BY <1>10, <1>11
  <2> QED
    BY <1>1, <2>1, <2>2, Zenon DEF Answered
<1>16. \A i \in 1..Len(executed') : Answered(i)'
  <2>1. \A i \in 1..(n + 1) : i \in 1..n \/ i = n + 1
    BY <1>6
  <2> QED
    BY <1>10, <1>14, <1>15, <2>1, Zenon
<1>17. Emptied'
  BY <1>1, Zenon DEF Emptied
<1> QED
  BY <1>12, <1>13, <1>16, <1>17, Zenon DEF Whole

LEMMA ParseEndsWhole ==
  ASSUME Whole, ParseEnds
  PROVE  Whole'
<1>1. /\ stage' = "ended" /\ inbuffer' = inbuffer /\ wire' = wire
      /\ sent' = sent /\ executed' = executed /\ answers' = answers
  BY DEF ParseEnds
<1>2. Typed /\ Kept
  BY Zenon DEF Whole
<1>3. Typed' /\ Kept'
  BY <1>1, <1>2 DEF Typed, Kept
<1>4. Emptied'
  BY <1>1 DEF Emptied
<1>5. \A i \in 1..Len(executed') : Answered(i)'
  BY <1>1, SameAnswers
<1> QED
  BY <1>3, <1>4, <1>5, Zenon DEF Whole

LEMMA WholeNext ==
  ASSUME Whole, [FramingNext]_framingVars
  PROVE  Whole'
<1>1. CASE \E r \in Requested : SendFrame(Asks(r))
  <2>1. PICK r \in Requested : SendFrame(Asks(r))
    BY <1>1
  <2>2. Asks(r) \in Messages
    BY DEF Messages
  <2> QED
    BY <2>1, <2>2, SendWhole
<1>2. CASE \E text \in Strange : SendFrame(Says(text))
  <2>1. PICK text \in Strange : SendFrame(Says(text))
    BY <1>2
  <2>2. Says(text) \in Messages
    BY DEF Messages
  <2> QED
    BY <2>1, <2>2, SendWhole
<1>3. CASE \E n \in 1..MaxChunk : RecvBytes(n)
  <2>1. PICK n \in 1..MaxChunk : RecvBytes(n)
    BY <1>3
  <2>2. n \in Nat
    BY FramingAssumption
  <2> QED
    BY <2>1, <2>2, RecvWhole
<1>4. CASE Parse
  BY <1>4, ParseWhole
<1>5. CASE ParseDone
  BY <1>5, ParseDoneWhole
<1>6. CASE ParseEnds
  BY <1>6, ParseEndsWhole
<1>7. CASE UNCHANGED framingVars
  <2>1. /\ sent' = sent /\ wire' = wire /\ inbuffer' = inbuffer /\ stage' = stage
        /\ executed' = executed /\ answers' = answers
    BY <1>7 DEF framingVars
  <2>2. Typed' /\ Kept' /\ Emptied'
    BY <2>1 DEF Whole, Typed, Kept, Emptied
  <2>3. \A i \in 1..Len(executed') : Answered(i)'
    BY <2>1, SameAnswers
  <2> QED
    BY <2>2, <2>3, Zenon DEF Whole
<1> QED
  BY <1>1, <1>2, <1>3, <1>4, <1>5, <1>6, <1>7 DEF FramingNext

(* Wherever the stream is cut, the receiver and its client stay in step    *)
(* (StreamKept), for any requests and any payloads that are none.          *)
THEOREM StreamIsKept == FramingSpec => []StreamKept
<1>1. FramingInit => Whole
  BY WholeInit
<1>2. Whole /\ [FramingNext]_framingVars => Whole'
  BY WholeNext
<1>3. Whole => StreamKept
  BY WholeSuffices
<1> QED
  BY <1>1, <1>2, <1>3, PTL DEF FramingSpec
=============================================================================
