--------------------------- MODULE SocketMarkProofs ---------------------------
(***************************************************************************)
(* Proofs about SocketMark, for marks of any width and arguments of any     *)
(* length.  ParseUint and Digits are recursive functions; what they compute *)
(* is proved by induction over a set of numbers.                            *)
(***************************************************************************)
EXTENDS SocketMark, SequenceTheorems, WellFoundedInduction, NaturalsInduction, TLAPS

\* The bases of a mark.
Bases == {10, 16}

-----------------------------------------------------------------------------
(***************************************************************************)
(* Induction.                                                               *)
(***************************************************************************)

\* A set that holds a number whenever it holds all smaller ones holds them all.
LEMMA StrongInduction ==
    ASSUME NEW S, \A n \in Nat : (\A m \in 0..(n - 1) : m \in S) => n \in S
    PROVE  Nat \subseteq S
<1> SUFFICES ASSUME Nat \ S # {} PROVE FALSE
  OBVIOUS
<1>1. \A m, n \in Nat : m < n => <<m, n>> \in OpToRel(<, Nat)
  BY Zenon DEF OpToRel
<1>2. PICK n \in Nat \ S : \A m \in Nat \ S : ~(<<m, n>> \in OpToRel(<, Nat))
  <2>1. Nat \ S \subseteq Nat
    OBVIOUS
  <2> QED BY <2>1, NatLessThanWellFounded, WFMin
<1>3. ASSUME NEW m \in 0..(n - 1) PROVE m \in S
  <2>1. m \in Nat /\ m < n
    OBVIOUS
  <2> QED BY <1>1, <1>2, <2>1, Zenon
<1> QED BY <1>2, <1>3

\* A set that holds 0, and with a number the next, holds all numbers.
LEMMA Induction ==
    ASSUME NEW S, 0 \in S, \A n \in Nat : n \in S => n + 1 \in S
    PROVE  Nat \subseteq S
<1>1. ASSUME NEW n \in Nat, \A m \in 0..(n - 1) : m \in S PROVE n \in S
  <2>1. CASE n = 0
    BY <2>1
  <2>2. CASE n # 0
    <3>1. n - 1 \in Nat /\ n - 1 \in S /\ (n - 1) + 1 = n
      BY <1>1, <2>2
    <3>2. (n - 1) + 1 \in S
      BY <3>1
    <3> QED BY <3>1, <3>2
  <2> QED BY <2>1, <2>2
<1> QED BY <1>1, StrongInduction

-----------------------------------------------------------------------------
(***************************************************************************)
(* ParseUint.                                                               *)
(***************************************************************************)

\* f is the loop of ParseUint: its value before each digit, and at the end.
Loop(f, digits, base) ==
    f = [n \in 0..Len(digits) |-> IF n = 0 THEN 0 ELSE f[n - 1] * base + digits[n]]

\* Multiplying by a base stays within the numbers.
LEMMA StepType == \A b \in Bases, v, d \in Nat : v * b + d \in Nat
BY DEF Bases

\* The loop has values.
LEMMA LoopExists ==
    ASSUME NEW d \in Seq(Nat), NEW b \in Bases
    PROVE  \E f : Loop(f, d, b)
<1> DEFINE Upto(n) == \E f : f = [m \in 0..n |-> IF m = 0 THEN 0 ELSE f[m - 1] * b + d[m]]
           S == {n \in Nat : Upto(n)}
<1>1. 0 \in S
  <2> DEFINE f == [m \in 0..0 |-> 0]
  <2>1. f = [m \in 0..0 |-> IF m = 0 THEN 0 ELSE f[m - 1] * b + d[m]]
    OBVIOUS
  <2> QED BY <2>1
<1>2. ASSUME NEW n \in Nat, n \in S PROVE n + 1 \in S
  <2>1. PICK f : f = [m \in 0..n |-> IF m = 0 THEN 0 ELSE f[m - 1] * b + d[m]]
    BY <1>2
  <2> DEFINE g == [m \in 0..(n + 1) |-> IF m = n + 1 THEN f[n] * b + d[n + 1] ELSE f[m]]
  <2>2. ASSUME NEW m \in 0..(n + 1)
        PROVE  g[m] = IF m = 0 THEN 0 ELSE g[m - 1] * b + d[m]
    <3>1. CASE m = n + 1
      BY <3>1
    <3>2. CASE m = 0
      BY <2>1, <3>2
    <3>3. CASE m \in 1..n
      <4>1. f[m] = f[m - 1] * b + d[m]
        BY <2>1, <3>3
      <4> QED BY <3>3, <4>1
    <3> QED BY <3>1, <3>2, <3>3
  <2>3. g = [m \in 0..(n + 1) |-> IF m = 0 THEN 0 ELSE g[m - 1] * b + d[m]]
    BY <2>2
  <2>4. Upto(n + 1)
    BY <2>3
  <2>5. n + 1 \in Nat
    OBVIOUS
  <2> HIDE DEF Upto
  <2> QED BY <2>4, <2>5
<1> HIDE DEF Upto
<1>3. \A n \in Nat : Upto(n)
  <2> HIDE DEF S
  <2>1. Nat \subseteq S
    BY <1>1, <1>2, Induction
  <2> QED BY <2>1 DEF S
<1>4. Upto(Len(d))
  BY <1>3, LenProperties
<1> QED BY <1>4 DEF Upto, Loop

\* ParseUint is the last value of its loop.
LEMMA ParseUintIs ==
    ASSUME NEW d \in Seq(Nat), NEW b \in Bases
    PROVE  \E f : Loop(f, d, b) /\ ParseUint(d, b) = f[Len(d)]
<1> DEFINE f == CHOOSE g : Loop(g, d, b)
<1>1. Loop(f, d, b)
  BY LoopExists
<1>2. ParseUint(d, b) = f[Len(d)]
  BY DEF ParseUint, Loop
<1> QED BY <1>1, <1>2

\* Two strings of digits have the first k digits in common.
Common(d, e, k) == k <= Len(d) /\ k <= Len(e) /\ \A i \in 1..k : d[i] = e[i]

\* Its values are numbers, and depend only on the digits behind them.
LEMMA LoopValues ==
    ASSUME NEW d \in Seq(Nat), NEW e \in Seq(Nat), NEW b \in Bases, NEW f, NEW g,
           Loop(f, d, b), Loop(g, e, b), NEW k \in Nat, Common(d, e, k)
    PROVE  f[k] \in Nat /\ f[k] = g[k]
<1>0. Len(d) \in Nat /\ Len(e) \in Nat /\ k <= Len(d) /\ k <= Len(e) /\ \A i \in 1..k : d[i] = e[i]
  BY LenProperties DEF Common
<1> DEFINE S == {n \in Nat : n <= k => f[n] \in Nat /\ f[n] = g[n]}
<1>1. 0 \in S
  BY <1>0 DEF Loop
<1>2. ASSUME NEW n \in Nat, n \in S PROVE n + 1 \in S
  <2> SUFFICES ASSUME n + 1 <= k PROVE f[n + 1] \in Nat /\ f[n + 1] = g[n + 1]
    OBVIOUS
  <2>1. f[n] \in Nat /\ f[n] = g[n] /\ n + 1 \in 1..k /\ n + 1 \in 1..Len(d)
    BY <1>0, <1>2
  <2>2. d[n + 1] \in Nat /\ d[n + 1] = e[n + 1]
    BY <1>0, <2>1, ElementOfSeq
  <2>3. f[n + 1] = f[n] * b + d[n + 1]
    BY <1>0, <2>1 DEF Loop
  <2>4. g[n + 1] = g[n] * b + e[n + 1]
    BY <1>0, <2>1 DEF Loop
  <2> QED BY <2>1, <2>2, <2>3, <2>4, StepType
<1>3. Nat \subseteq S
  <2> HIDE DEF S
  <2> QED BY <1>1, <1>2, Induction
<1> QED BY <1>3

\* ParseUint, digit by digit.
LEMMA ParseUintStep ==
    ASSUME NEW b \in Bases
    PROVE  /\ ParseUint(<<>>, b) = 0
           /\ \A d \in Seq(Nat), x \in Nat :
                ParseUint(d, b) \in Nat /\ ParseUint(Append(d, x), b) = ParseUint(d, b) * b + x
<1>1. ParseUint(<<>>, b) = 0
  <2>1. <<>> \in Seq(Nat) /\ Len(<<>>) = 0
    BY EmptySeq
  <2>2. PICK f : Loop(f, <<>>, b) /\ ParseUint(<<>>, b) = f[0]
    BY <2>1, ParseUintIs
  <2> QED BY <2>1, <2>2 DEF Loop
<1>2. ASSUME NEW d \in Seq(Nat), NEW x \in Nat, NEW e, e = Append(d, x), NEW n, n = Len(d)
      PROVE  ParseUint(d, b) \in Nat /\ ParseUint(e, b) = ParseUint(d, b) * b + x
  <2>1. /\ e \in Seq(Nat) /\ n \in Nat /\ Len(e) = n + 1
        /\ e[n + 1] = x /\ Common(d, e, n)
    BY <1>2, AppendProperties, LenProperties DEF Common
  <2>2. PICK f : Loop(f, d, b) /\ ParseUint(d, b) = f[n]
    BY <1>2, ParseUintIs
  <2>3. PICK g : Loop(g, e, b) /\ ParseUint(e, b) = g[n + 1]
    BY <2>1, ParseUintIs
  <2>4. f[n] \in Nat /\ f[n] = g[n]
    BY <2>1, <2>2, <2>3, LoopValues
  <2>5. g[n + 1] = g[n] * b + e[n + 1]
    BY <2>1, <2>3 DEF Loop
  <2> QED BY <2>1, <2>2, <2>3, <2>4, <2>5
<1> QED BY <1>1, <1>2

-----------------------------------------------------------------------------
(***************************************************************************)
(* Digits.                                                                  *)
(***************************************************************************)

\* A number without its last digit, and that digit.
Quotient(n, b) == n \div b
Remainder(n, b) == n % b

\* Division by a base takes the last digit off.
LEMMA Division ==
    ASSUME NEW b \in Bases
    PROVE  /\ \A n \in Nat : /\ Quotient(n, b) \in Nat /\ Remainder(n, b) \in 0..(b - 1)
                             /\ Quotient(n, b) * b + Remainder(n, b) = n
                             /\ n > 0 => Quotient(n, b) < n
           /\ \A n \in Nat, d \in 0..(b - 1) :
                Quotient(n * b + d, b) = n /\ Remainder(n * b + d, b) = d
<1>1. CASE b = 10
  BY <1>1 DEF Quotient, Remainder
<1>2. CASE b = 16
  BY <1>2 DEF Quotient, Remainder
<1> QED BY <1>1, <1>2 DEF Bases

\* A string of digits with the last digit of a number behind it.
Extend(s, n, b) == Append(s, Remainder(n, b))

\* f is the table of the digits of 0 to v.
Table(f, v, b) ==
    f = [n \in 0..v |-> IF n = 0 THEN <<>> ELSE Extend(f[Quotient(n, b)], n, b)]

\* There is one.
LEMMA TableExists ==
    ASSUME NEW b \in Bases
    PROVE  \A v \in Nat : \E f : Table(f, v, b)
<1> DEFINE S == {n \in Nat : \E f : Table(f, n, b)}
<1>1. 0 \in S
  <2> DEFINE f == [m \in 0..0 |-> <<>>]
  <2>1. Table(f, 0, b)
    BY DEF Table
  <2> QED BY <2>1
<1>2. ASSUME NEW n \in Nat, n \in S PROVE n + 1 \in S
  <2>1. PICK f : Table(f, n, b)
    BY <1>2
  <2>2. Quotient(n + 1, b) \in 0..n
    BY Division
  <2> DEFINE Entry == Extend(f[Quotient(n + 1, b)], n + 1, b)
             g == [m \in 0..(n + 1) |-> IF m = n + 1 THEN Entry ELSE f[m]]
  <2>3. ASSUME NEW m \in 0..(n + 1)
        PROVE  g[m] = IF m = 0 THEN <<>> ELSE Extend(g[Quotient(m, b)], m, b)
    <3>1. CASE m = n + 1
      <4>1. g[Quotient(m, b)] = f[Quotient(m, b)]
        BY <2>2, <3>1
      <4> QED BY <3>1, <4>1
    <3>2. CASE m = 0
      BY <2>1, <3>2 DEF Table
    <3>3. CASE m \in 1..n
      <4>1. Quotient(m, b) \in 0..n
        BY <3>3, Division
      <4>2. g[Quotient(m, b)] = f[Quotient(m, b)] /\ g[m] = f[m]
        BY <3>3, <4>1
      <4>3. f[m] = Extend(f[Quotient(m, b)], m, b)
        BY <2>1, <3>3 DEF Table
      <4> QED BY <3>3, <4>2, <4>3
    <3> QED BY <3>1, <3>2, <3>3
  <2> HIDE DEF Entry
  <2>4. Table(g, n + 1, b)
    BY <2>3 DEF Table
  <2> QED BY <2>4
<1>3. Nat \subseteq S
  <2> HIDE DEF S
  <2> QED BY <1>1, <1>2, Induction
<1> QED BY <1>3

\* The tables of two numbers agree.
LEMMA TablesAgree ==
    ASSUME NEW b \in Bases, NEW v \in Nat, NEW w \in Nat, NEW f, NEW g,
           Table(f, v, b), Table(g, w, b)
    PROVE  \A n \in Nat : n <= v /\ n <= w => f[n] = g[n]
<1> DEFINE S == {n \in Nat : n <= v /\ n <= w => f[n] = g[n]}
<1>1. ASSUME NEW n \in Nat, \A m \in 0..(n - 1) : m \in S PROVE n \in S
  <2> SUFFICES ASSUME n <= v, n <= w PROVE f[n] = g[n]
    OBVIOUS
  <2>1. CASE n = 0
    BY <2>1 DEF Table
  <2>2. CASE n > 0
    <3>1. Quotient(n, b) \in 0..(n - 1)
      BY <2>2, Division
    <3>2. f[Quotient(n, b)] = g[Quotient(n, b)]
      BY <1>1, <3>1
    <3>3. f[n] = Extend(f[Quotient(n, b)], n, b) /\ g[n] = Extend(g[Quotient(n, b)], n, b)
      BY <2>2 DEF Table
    <3> QED BY <3>2, <3>3
  <2> QED BY <2>1, <2>2
<1>2. Nat \subseteq S
  <2> HIDE DEF S
  <2> QED BY <1>1, StrongInduction
<1> QED BY <1>2

\* Digits is the last entry of its table.
LEMMA DigitsIs ==
    ASSUME NEW b \in Bases, NEW v \in Nat
    PROVE  \E f : Table(f, v, b) /\ Digits(v, b) = f[v]
<1> DEFINE f == CHOOSE g : Table(g, v, b)
<1>1. Table(f, v, b)
  BY TableExists
<1>2. Digits(v, b) = f[v]
  BY DEF Digits, Table, Quotient, Remainder, Extend
<1> QED BY <1>1, <1>2

\* Digits, digit by digit.
LEMMA DigitsStep ==
    ASSUME NEW b \in Bases
    PROVE  /\ Digits(0, b) = <<>>
           /\ \A v \in Nat : v > 0 => Digits(v, b) = Append(Digits(Quotient(v, b), b), Remainder(v, b))
<1>1. Digits(0, b) = <<>>
  BY DigitsIs DEF Table
<1>2. ASSUME NEW v \in Nat, v > 0, NEW w, w = Quotient(v, b)
      PROVE  Digits(v, b) = Append(Digits(w, b), Remainder(v, b))
  <2>1. w \in Nat /\ w < v
    BY <1>2, Division
  <2>2. PICK f : Table(f, v, b) /\ Digits(v, b) = f[v]
    BY DigitsIs
  <2>3. PICK g : Table(g, w, b) /\ Digits(w, b) = g[w]
    BY <2>1, DigitsIs
  <2>4. f[w] = g[w]
    BY <2>1, <2>2, <2>3, TablesAgree
  <2>5. f[v] = Extend(f[Quotient(v, b)], v, b)
    BY <1>2, <2>2 DEF Table
  <2> QED BY <1>2, <2>2, <2>3, <2>4, <2>5 DEF Extend
<1> QED BY <1>1, <1>2

-----------------------------------------------------------------------------
(***************************************************************************)
(* The two are inverse to each other.                                       *)
(***************************************************************************)

\* ParseUint reads the digits of a number as that number.
LEMMA ParseOfDigits ==
    ASSUME NEW b \in Bases
    PROVE  \A v \in Nat :
             /\ Digits(v, b) \in Seq(0..(b - 1))
             /\ ParseUint(Digits(v, b), b) = v
             /\ v > 0 => Digits(v, b) # <<>> /\ Digits(v, b)[1] # 0
<1> DEFINE Good(v) == /\ Digits(v, b) \in Seq(0..(b - 1))
                      /\ ParseUint(Digits(v, b), b) = v
                      /\ v > 0 => Digits(v, b) # <<>> /\ Digits(v, b)[1] # 0
           S == {v \in Nat : Good(v)}
<1>1. ASSUME NEW v \in Nat, \A m \in 0..(v - 1) : m \in S PROVE v \in S
  <2>1. CASE v = 0
    <3>1. Digits(0, b) = <<>> /\ ParseUint(<<>>, b) = 0
      BY DigitsStep, ParseUintStep
    <3>2. <<>> \in Seq(0..(b - 1))
      BY EmptySeq
    <3>3. Digits(0, b) \in Seq(0..(b - 1)) /\ ParseUint(Digits(0, b), b) = 0
      BY <3>1, <3>2, Zenon
    <3>4. ~(0 > 0)
      OBVIOUS
    <3>5. Good(0)
      BY <3>3, <3>4, Zenon
    <3> HIDE DEF Good
    <3> QED BY <2>1, <3>5
  <2>2. CASE v > 0
    <3> SUFFICES ASSUME NEW w, w = Quotient(v, b), NEW x, x = Remainder(v, b) PROVE Good(v)
      OBVIOUS
    <3>1. w \in 0..(v - 1) /\ w \in Nat /\ x \in 0..(b - 1) /\ x \in Nat /\ w * b + x = v
      <4>1. b \in Nat
        BY DEF Bases
      <4> QED BY <2>2, <4>1, Division
    <3>2. Good(w)
      BY <1>1, <3>1
    <3> HIDE DEF Good
    <3>3. /\ Digits(w, b) \in Seq(0..(b - 1)) /\ ParseUint(Digits(w, b), b) = w
          /\ w > 0 => Digits(w, b) # <<>> /\ Digits(w, b)[1] # 0
      BY <3>2 DEF Good
    <3>4. Digits(v, b) = Append(Digits(w, b), x)
      BY <2>2, DigitsStep
    <3>5. Digits(w, b) \in Seq(Nat)
      <4>1. 0..(b - 1) \subseteq Nat
        OBVIOUS
      <4> QED BY <3>3, <4>1, SeqMonotonic
    <3>6. ParseUint(Append(Digits(w, b), x), b) = ParseUint(Digits(w, b), b) * b + x
      BY <3>1, <3>5, ParseUintStep
    <3>7. Append(Digits(w, b), x) \in Seq(0..(b - 1)) /\ Append(Digits(w, b), x) # <<>>
      BY <3>1, <3>3, AppendProperties
    <3>8. Append(Digits(w, b), x)[1] # 0
      <4>1. CASE w > 0
        <5>1. Digits(w, b) # <<>> /\ Digits(w, b)[1] # 0
          BY <3>3, <4>1
        <5> QED BY <3>5, <5>1
      <4>2. CASE w = 0
        <5>1. x # 0
          BY <2>2, <3>1, <4>2 DEF Bases
        <5>2. Append(Digits(w, b), x) = Append(<<>>, x)
          BY <4>2, DigitsStep
        <5>3. Append(<<>>, x)[1] = x
          OBVIOUS
        <5> QED BY <5>1, <5>2, <5>3
      <4> QED BY <3>1, <4>1, <4>2
    <3> QED BY <3>1, <3>3, <3>4, <3>6, <3>7, <3>8 DEF Good
  <2> QED BY <2>1, <2>2
<1>2. Nat \subseteq S
  <2> HIDE DEF S
  <2> QED BY <1>1, StrongInduction
<1> QED BY <1>2

\* A string that is not empty has a last digit.
LEMMA LastDigit ==
    ASSUME NEW T, NEW d \in Seq(T), NEW n \in Nat, Len(d) = n + 1
    PROVE  \E s \in Seq(T), x \in T : d = Append(s, x) /\ Len(s) = n
<1>1. d # <<>>
  BY EmptySeq
<1>2. PICK s \in Seq(T), x \in T : d = Append(s, x)
  BY <1>1, SequenceEmptyOrAppend
<1>3. Len(d) = Len(s) + 1 /\ Len(s) \in Nat
  BY <1>2, AppendProperties, LenProperties
<1> QED BY <1>2, <1>3

\* Leading zeros.
Zeros(z) == [i \in 1..z |-> 0]

\* A string of digits behind another grows with it.
LEMMA ConcatAppend ==
    ASSUME NEW s \in Seq(Nat), NEW t \in Seq(Nat), NEW x \in Nat
    PROVE  s \o Append(t, x) = Append(s \o t, x)
<1>1. <<x>> \in Seq(Nat)
  OBVIOUS
<1>2. Append(t, x) = t \o <<x>>
  BY AppendIsConcat
<1>3. Append(s \o t, x) = (s \o t) \o <<x>>
  BY AppendIsConcat, ConcatProperties
<1> QED BY <1>1, <1>2, <1>3, ConcatAssociative

\* Zeros, one by one.
LEMMA ZerosStep ==
    /\ Zeros(0) = <<>>
    /\ \A z \in Nat : Zeros(z) \in Seq({0}) /\ Len(Zeros(z)) = z
                        /\ Zeros(z) \in Seq(Nat) /\ Zeros(z + 1) = Append(Zeros(z), 0)
<1>1. ASSUME NEW z \in Nat
      PROVE  Zeros(z) \in Seq({0}) /\ Zeros(z) \in Seq(Nat) /\ Len(Zeros(z)) = z
  BY DEF Zeros
<1>2. ASSUME NEW z \in Nat PROVE Zeros(z + 1) = Append(Zeros(z), 0)
  <2>1. /\ Zeros(z + 1) \in Seq(Nat) /\ Len(Zeros(z + 1)) = z + 1
        /\ Append(Zeros(z), 0) \in Seq(Nat) /\ Len(Append(Zeros(z), 0)) = z + 1
        /\ \A i \in 1..z : Append(Zeros(z), 0)[i] = Zeros(z)[i]
        /\ Append(Zeros(z), 0)[z + 1] = 0
    <3>1. z + 1 \in Nat /\ 0 \in Nat
      OBVIOUS
    <3>2. Zeros(z + 1) \in Seq(Nat) /\ Len(Zeros(z + 1)) = z + 1
      BY <1>1, <3>1
    <3> HIDE DEF Zeros
    <3>3. Zeros(z) \in Seq(Nat) /\ Len(Zeros(z)) = z
      BY <1>1
    <3> QED BY <3>1, <3>2, <3>3, AppendProperties
  <2>2. \A i \in 1..(z + 1) : Zeros(z + 1)[i] = 0
    BY DEF Zeros
  <2>3. \A i \in 1..z : Zeros(z)[i] = 0
    BY DEF Zeros
  <2>4. \A i \in 1..(z + 1) : Append(Zeros(z), 0)[i] = 0
    BY <2>1, <2>3
  <2> QED BY <2>1, <2>2, <2>4, SeqEqual
<1>3. Zeros(0) = <<>>
  BY DEF Zeros
<1> QED BY <1>1, <1>2, <1>3

\* Zeros are worth nothing.
LEMMA ZerosValue == ASSUME NEW b \in Bases PROVE \A z \in Nat : ParseUint(Zeros(z), b) = 0
<1> DEFINE S == {z \in Nat : ParseUint(Zeros(z), b) = 0}
<1>1. 0 \in S
  BY ZerosStep, ParseUintStep
<1>2. ASSUME NEW z \in Nat, z \in S PROVE z + 1 \in S
  <2>1. Zeros(z + 1) = Append(Zeros(z), 0) /\ Zeros(z) \in Seq(Nat)
    BY ZerosStep, Zenon
  <2>3. ParseUint(Append(Zeros(z), 0), b) = ParseUint(Zeros(z), b) * b + 0
    BY <2>1, ParseUintStep
  <2>2. ParseUint(Zeros(z), b) = 0 /\ 0 * b + 0 = 0
    BY <1>2 DEF Bases
  <2>4. ParseUint(Zeros(z + 1), b) = 0
    BY <2>1, <2>2, <2>3, Zenon
  <2>5. z + 1 \in Nat
    OBVIOUS
  <2> QED BY <2>4, <2>5
<1>3. Nat \subseteq S
  <2> HIDE DEF S
  <2> QED BY <1>1, <1>2, Induction
<1> QED BY <1>3

\* Leading zeros leave the value as it is.
LEMMA LeadingZeros ==
    ASSUME NEW b \in Bases, NEW z \in Nat
    PROVE  \A d \in Seq(Nat) : ParseUint(Zeros(z) \o d, b) = ParseUint(d, b)
<1> DEFINE S == {n \in Nat : \A d \in Seq(Nat) :
                   Len(d) = n => ParseUint(Zeros(z) \o d, b) = ParseUint(d, b)}
<1>0. Zeros(z) \in Seq(Nat)
  BY ZerosStep
<1>1. 0 \in S
  <2>1. ASSUME NEW d \in Seq(Nat), Len(d) = 0 PROVE d = <<>>
    BY <2>1, EmptySeq
  <2>2. ParseUint(Zeros(z) \o <<>>, b) = 0 /\ ParseUint(<<>>, b) = 0
    BY <1>0, ConcatEmptySeq, ZerosValue, ParseUintStep
  <2> QED BY <2>1, <2>2
<1>2. ASSUME NEW n \in Nat, n \in S PROVE n + 1 \in S
  <2>1. ASSUME NEW d \in Seq(Nat), Len(d) = n + 1
        PROVE  ParseUint(Zeros(z) \o d, b) = ParseUint(d, b)
    <3>1. PICK s \in Seq(Nat), x \in Nat : d = Append(s, x) /\ Len(s) = n
      BY <2>1, LastDigit
    <3>3. Zeros(z) \o d = Append(Zeros(z) \o s, x) /\ Zeros(z) \o s \in Seq(Nat)
      BY <1>0, <3>1, ConcatAppend, ConcatProperties
    <3>4. ParseUint(Zeros(z) \o d, b) = ParseUint(Zeros(z) \o s, b) * b + x
      BY <3>3, ParseUintStep
    <3>5. ParseUint(d, b) = ParseUint(s, b) * b + x
      BY <3>1, ParseUintStep
    <3>6. ParseUint(Zeros(z) \o s, b) = ParseUint(s, b)
      BY <1>2, <3>1
    <3> QED BY <3>4, <3>5, <3>6
  <2> QED BY <2>1
<1>3. Nat \subseteq S
  <2> HIDE DEF S
  <2> QED BY <1>1, <1>2, Induction
<1> QED BY <1>3, LenProperties

\* A digit more, behind the digits of a number.
LEMMA DigitsAppend ==
    ASSUME NEW b \in Bases, NEW p \in Nat, NEW x \in 0..(b - 1), NEW v, v = p * b + x
    PROVE  /\ v > 0 => Digits(v, b) = Append(Digits(p, b), x)
           /\ v = 0 => p = 0 /\ x = 0
<1>1. v \in Nat /\ Quotient(v, b) = p /\ Remainder(v, b) = x
  BY StepType, Division
<1>2. v > 0 => Digits(v, b) = Append(Digits(Quotient(v, b), b), Remainder(v, b))
  BY <1>1, DigitsStep
<1>3. v = 0 => p = 0 /\ x = 0
  BY DEF Bases
<1> QED BY <1>1, <1>2, <1>3

\* d is the digits of its value, behind some zeros.
Splits(d, b) == \E z \in 0..Len(d) : d = Zeros(z) \o Digits(ParseUint(d, b), b)

\* If a string is, so is the string with a digit more.
LEMMA SplitsAppend ==
    ASSUME NEW b \in Bases, NEW s \in Seq(0..(b - 1)), NEW x \in 0..(b - 1), Splits(s, b)
    PROVE  Splits(Append(s, x), b)
<1>0. 0..(b - 1) \subseteq Nat
  OBVIOUS
<1> SUFFICES ASSUME NEW d, d = Append(s, x), NEW p, p = ParseUint(s, b),
                    NEW v, v = ParseUint(d, b)
             PROVE  Splits(d, b)
  OBVIOUS
<1>1. s \in Seq(Nat) /\ x \in Nat
  BY <1>0, SeqMonotonic
<1>2. p \in Nat /\ v = p * b + x
  BY <1>1, ParseUintStep
<1>3. Len(d) = Len(s) + 1 /\ Len(s) \in Nat
  BY AppendProperties, LenProperties
<1>4. PICK z \in 0..Len(s) : s = Zeros(z) \o Digits(p, b)
  BY DEF Splits
<1>5. z \in Nat /\ z \in 0..Len(d) /\ z + 1 \in 0..Len(d) /\ z + 1 \in Nat
  BY <1>3
<1>6. Zeros(z) \in Seq(Nat) /\ Zeros(z + 1) \in Seq(Nat) /\ Zeros(z + 1) = Append(Zeros(z), 0)
  BY <1>5, ZerosStep
<1>7. Digits(p, b) \in Seq(Nat)
  <2>1. Digits(p, b) \in Seq(0..(b - 1))
    BY <1>2, ParseOfDigits
  <2> QED BY <1>0, <2>1, SeqMonotonic
<1>8. CASE v > 0
  <2>1. Digits(v, b) = Append(Digits(p, b), x)
    BY <1>2, <1>8, DigitsAppend
  <2>2. Zeros(z) \o Append(Digits(p, b), x) = Append(Zeros(z) \o Digits(p, b), x)
    BY <1>1, <1>6, <1>7, ConcatAppend
  <2>3. d = Zeros(z) \o Digits(v, b)
    BY <1>4, <2>1, <2>2, Zenon
  <2> QED BY <1>5, <2>3 DEF Splits
<1>9. CASE v = 0
  <2>1. p = 0 /\ x = 0
    BY <1>2, <1>9, DigitsAppend
  <2>2. Zeros(z) \o <<>> = Zeros(z) /\ Zeros(z + 1) \o <<>> = Zeros(z + 1)
    BY <1>6, ConcatEmptySeq
  <2>3. Digits(p, b) = <<>> /\ Digits(v, b) = <<>>
    BY <1>9, <2>1, DigitsStep
  <2>4. s = Zeros(z)
    BY <1>4, <2>2, <2>3, Zenon
  <2>5. d = Append(Zeros(z), 0)
    BY <2>1, <2>4, Zenon
  <2>6. d = Zeros(z + 1) \o Digits(v, b)
    BY <1>6, <2>2, <2>3, <2>5, Zenon
  <2> QED BY <1>5, <2>6 DEF Splits
<1>10. v > 0 \/ v = 0
  BY <1>1, <1>2, StepType
<1> QED BY <1>8, <1>9, <1>10

\* Any string of digits is.
LEMMA DigitsOfParse ==
    ASSUME NEW b \in Bases
    PROVE  \A d \in Seq(0..(b - 1)) : Splits(d, b)
<1> DEFINE S == {n \in Nat : \A d \in Seq(0..(b - 1)) : Len(d) = n => Splits(d, b)}
<1>1. 0 \in S
  <2>1. ASSUME NEW d \in Seq(0..(b - 1)), Len(d) = 0 PROVE d = <<>>
    BY <2>1, EmptySeq
  <2>2. Digits(ParseUint(<<>>, b), b) = <<>> /\ Zeros(0) = <<>> /\ Len(<<>>) = 0
    BY ParseUintStep, DigitsStep, ZerosStep, EmptySeq
  <2>3. <<>> = <<>> \o <<>>
    BY ConcatEmptySeq, EmptySeq
  <2>4. Splits(<<>>, b)
    BY <2>2, <2>3 DEF Splits
  <2> QED BY <2>1, <2>4
<1>2. ASSUME NEW n \in Nat, n \in S PROVE n + 1 \in S
  <2>1. ASSUME NEW d \in Seq(0..(b - 1)), Len(d) = n + 1 PROVE Splits(d, b)
    <3>1. PICK s \in Seq(0..(b - 1)), x \in 0..(b - 1) : d = Append(s, x) /\ Len(s) = n
      <4> DEFINE T == 0..(b - 1)
      <4>1. d \in Seq(T)
        OBVIOUS
      <4>2. \E s \in Seq(T), x \in T : d = Append(s, x) /\ Len(s) = n
        <5> HIDE DEF T
        <5> QED BY <2>1, <4>1, LastDigit
      <4> QED BY <4>2
    <3>2. Splits(s, b)
      BY <1>2, <3>1
    <3>3. Splits(Append(s, x), b)
      BY <3>2, SplitsAppend
    <3> QED BY <3>1, <3>3
  <2>2. n + 1 \in Nat
    OBVIOUS
  <2> QED BY <2>1, <2>2
<1>3. Nat \subseteq S
  <2> HIDE DEF S
  <2> QED BY <1>1, <1>2, Induction
<1> QED BY <1>3, LenProperties

-----------------------------------------------------------------------------
(***************************************************************************)
(* The parser of marks.                                                     *)
(***************************************************************************)

\* What parseSocketMark reads an argument as.
IsHex(arg) == Len(arg) >= 2 /\ arg[1] = 0 /\ arg[2] = X
Body(arg) == IF IsHex(arg) THEN SubSeq(arg, 3, Len(arg)) ELSE arg
Base(arg) == IF IsHex(arg) THEN 16 ELSE 10
Refused(d, b) == \/ d = <<>>
                 \/ \E i \in DOMAIN d : d[i] >= b
                 \/ b = 10 /\ d[1] = 0
                 \/ ParseUint(d, b) \notin Marks

\* It is refused, or read as the value of its digits.
LEMMA ParserIs ==
    ASSUME NEW arg
    PROVE  parseSocketMark(arg) = IF Refused(Body(arg), Base(arg)) THEN 0
                                  ELSE ParseUint(Body(arg), Base(arg))
BY DEF parseSocketMark, IsHex, Body, Base, Refused, inRange, Marks

\* What is behind the first two characters.
LEMMA Rest ==
    ASSUME NEW arg \in Seq(Nat), NEW n \in Nat, Len(arg) = n + 2,
           NEW e, e = SubSeq(arg, 3, Len(arg))
    PROVE  e \in Seq(Nat) /\ Len(e) = n /\ \A i \in 1..n : e[i] = arg[i + 2]
<1>1. \A i \in 3..Len(arg) : arg[i] \in Nat
  <2>1. ASSUME NEW i \in 3..Len(arg) PROVE i \in 1..Len(arg)
    OBVIOUS
  <2> QED BY <2>1, ElementOfSeq
<1>2. /\ SubSeq(arg, 3, Len(arg)) \in Seq(Nat)
      /\ Len(SubSeq(arg, 3, Len(arg))) = n
      /\ \A i \in 1..n : SubSeq(arg, 3, Len(arg))[i] = arg[i + 2]
  BY <1>1, SubSeqProperties
<1> QED BY <1>2

\* Behind the prefix 0x is the rest of the argument.
LEMMA Prefixed ==
    ASSUME NEW e \in Seq(Nat), NEW arg, arg = <<0, X>> \o e
    PROVE  /\ Len(arg) = Len(e) + 2 /\ arg[1] = 0 /\ arg[2] = X
           /\ SubSeq(arg, 3, Len(arg)) = e
<1>1. <<0, X>> \in Seq(Nat) /\ Len(<<0, X>>) = 2 /\ Len(e) \in Nat
  BY LenProperties DEF X
<1>2. /\ Len(arg) = Len(e) + 2 /\ arg \in Seq(Nat)
      /\ \A i \in 1..(Len(e) + 2) : arg[i] = IF i <= 2 THEN <<0, X>>[i] ELSE e[i - 2]
  BY <1>1, ConcatProperties
<1>3. arg[1] = 0 /\ arg[2] = X
  BY <1>1, <1>2
<1>4. /\ SubSeq(arg, 3, Len(arg)) \in Seq(Nat)
      /\ Len(SubSeq(arg, 3, Len(arg))) = Len(e)
      /\ \A i \in 1..Len(e) : SubSeq(arg, 3, Len(arg))[i] = arg[i + 2]
  BY <1>1, <1>2, Rest
<1>5. \A i \in 1..Len(e) : SubSeq(arg, 3, Len(arg))[i] = e[i]
  BY <1>1, <1>2, <1>4
<1> QED BY <1>2, <1>3, <1>4, <1>5, SeqEqual

\* An argument with the prefix is the prefix and its body.
LEMMA BodyOf ==
    ASSUME NEW arg \in Seq(Nat), NEW e, e = Body(arg)
    PROVE  /\ e \in Seq(Nat) /\ Len(e) <= Len(arg)
           /\ IsHex(arg) => arg = <<0, X>> \o e
<1>0. Len(arg) \in Nat
  BY LenProperties
<1>1. CASE ~IsHex(arg)
  BY <1>0, <1>1 DEF Body
<1>2. CASE IsHex(arg)
  <2>1. Len(arg) >= 2 /\ arg[1] = 0 /\ arg[2] = X
    BY <1>2 DEF IsHex
  <2>2. PICK n \in Nat : Len(arg) = n + 2
    <3>1. Len(arg) - 2 \in Nat /\ Len(arg) = (Len(arg) - 2) + 2
      BY <1>0, <2>1
    <3> QED BY <3>1
  <2>3. e = SubSeq(arg, 3, Len(arg))
    BY <1>2 DEF Body
  <2>4. e \in Seq(Nat) /\ Len(e) = n /\ \A i \in 1..n : e[i] = arg[i + 2]
    BY <2>2, <2>3, Rest
  <2>5. <<0, X>> \in Seq(Nat) /\ Len(<<0, X>>) = 2
    BY DEF X
  <2>6. /\ <<0, X>> \o e \in Seq(Nat) /\ Len(<<0, X>> \o e) = Len(arg)
        /\ \A i \in 1..(2 + n) :
             (<<0, X>> \o e)[i] = IF i <= 2 THEN <<0, X>>[i] ELSE e[i - 2]
    BY <2>2, <2>4, <2>5, ConcatProperties
  <2>7. \A i \in 1..Len(arg) : (<<0, X>> \o e)[i] = arg[i]
    BY <2>1, <2>2, <2>4, <2>6
  <2>8. arg = <<0, X>> \o e
    BY <2>6, <2>7, SeqEqual
  <2>9. Len(e) <= Len(arg)
    BY <2>2, <2>4
  <2> QED BY <2>4, <2>8, <2>9, Zenon
<1> QED BY <1>1, <1>2

\* Every spelling of a mark is read as that mark.
LEMMA SpellingsAreRead ==
    ASSUME NEW v \in Marks, NEW arg \in Spellings(v)
    PROVE  parseSocketMark(arg) = v
<1>0. v \in Nat /\ v > 0
  BY DEF Marks
<1>1. CASE arg = Digits(v, 10)
  <2>1. /\ arg \in Seq(0..9) /\ arg # <<>> /\ arg[1] # 0
        /\ ParseUint(arg, 10) = v
    <3>1. 10 \in Bases /\ 10 - 1 = 9
      BY DEF Bases
    <3> QED BY <1>0, <1>1, <3>1, ParseOfDigits
  <2>2. \A i \in DOMAIN arg : ~(arg[i] >= 10)
    <3>1. \A i \in DOMAIN arg : arg[i] \in 0..9
      BY <2>1, LenProperties, ElementOfSeq
    <3> QED BY <3>1
  <2>3. ~IsHex(arg)
    BY <2>1 DEF IsHex
  <2>4. Body(arg) = arg /\ Base(arg) = 10 /\ ~Refused(arg, 10)
    BY <2>1, <2>2, <2>3 DEF Body, Base, Refused
  <2> QED BY <2>1, <2>4, ParserIs
<1>2. CASE \E z \in 0..MaxLength : arg = <<0, X>> \o Zeros(z) \o Digits(v, 16)
  <2>1. PICK z \in 0..MaxLength : arg = <<0, X>> \o Zeros(z) \o Digits(v, 16)
    BY <1>2
  <2> SUFFICES ASSUME NEW t, t = Digits(v, 16), NEW e, e = Zeros(z) \o t
               PROVE  parseSocketMark(arg) = v
    OBVIOUS
  <2>2. t \in Seq(0..15) /\ t # <<>> /\ ParseUint(t, 16) = v
    <3>1. 16 \in Bases /\ 16 - 1 = 15
      BY DEF Bases
    <3> QED BY <1>0, <3>1, ParseOfDigits
  <2>3. t \in Seq(Nat) /\ Zeros(z) \in Seq(Nat) /\ Zeros(z) \in Seq(0..15) /\ z \in Nat
    <3>1. 0..15 \subseteq Nat /\ {0} \subseteq 0..15 /\ z \in Nat
      OBVIOUS
    <3> QED BY <2>2, <3>1, ZerosStep, SeqMonotonic
  <2>4. e \in Seq(0..15) /\ e \in Seq(Nat) /\ e # <<>>
    BY <2>2, <2>3, ConcatProperties, ConcatEqualIffEmpty
  <2>5. ParseUint(e, 16) = v
    BY <2>2, <2>3, LeadingZeros DEF Bases
  <2>6. arg = <<0, X>> \o e
    <3>1. <<0, X>> \in Seq(Nat)
      BY DEF X
    <3> QED BY <2>1, <2>3, <3>1, ConcatAssociative
  <2>7. Len(arg) = Len(e) + 2 /\ arg[1] = 0 /\ arg[2] = X /\ SubSeq(arg, 3, Len(arg)) = e
    BY <2>4, <2>6, Prefixed
  <2>8. IsHex(arg) /\ Body(arg) = e /\ Base(arg) = 16
    BY <2>4, <2>7, LenProperties DEF IsHex, Body, Base
  <2>9. \A i \in DOMAIN e : ~(e[i] >= 16)
    <3>1. ASSUME NEW i \in DOMAIN e PROVE e[i] \in 0..15
      BY <2>4, LenProperties, ElementOfSeq
    <3>2. ASSUME NEW x \in 0..15 PROVE ~(x >= 16)
      OBVIOUS
    <3> QED BY <3>1, <3>2, Zenon
  <2>10. ~Refused(e, 16)
    BY <2>4, <2>5, <2>9 DEF Refused
  <2> QED BY <2>5, <2>8, <2>10, ParserIs
<1> QED BY <1>1, <1>2 DEF Spellings, Zeros

\* Strings are put together in any order.
LEMMA Associative == \A t, u, w \in Seq(Nat) : (t \o u) \o w = t \o (u \o w)
BY ConcatAssociative

\* A string of smaller digits.
LEMMA Retyped ==
    ASSUME NEW d \in Seq(Nat), NEW T, \A i \in 1..Len(d) : d[i] \in T PROVE d \in Seq(T)
<1>1. Len(d) \in Nat /\ d \in [1..Len(d) -> Nat]
  BY LenProperties
<1>2. d \in [1..Len(d) -> T]
  BY <1>1
<1> QED BY <1>1, <1>2, SeqDef

\* What is read as a mark spells it.
LEMMA MarksAreSpelled ==
    ASSUME NEW arg \in Seq(Nat), MaxLength \in Nat, Len(arg) <= MaxLength,
           parseSocketMark(arg) # 0
    PROVE  /\ parseSocketMark(arg) \in Marks
           /\ arg \in Spellings(parseSocketMark(arg))
<1> SUFFICES ASSUME NEW d, d = Body(arg), NEW b, b = Base(arg), NEW v, v = ParseUint(d, b)
             PROVE  parseSocketMark(arg) \in Marks /\ arg \in Spellings(parseSocketMark(arg))
  OBVIOUS
<1>1. ~Refused(d, b) /\ parseSocketMark(arg) = v
  BY ParserIs
<1>2. b \in Bases /\ (IsHex(arg) => b = 16) /\ (~IsHex(arg) => b = 10 /\ d = arg)
  BY DEF Base, Bases, Body
<1>3. d \in Seq(Nat) /\ Len(d) \in Nat /\ Len(d) <= MaxLength /\ (IsHex(arg) => arg = <<0, X>> \o d)
  <2>1. d \in Seq(Nat) /\ Len(d) <= Len(arg) /\ (IsHex(arg) => arg = <<0, X>> \o d)
    BY BodyOf
  <2>2. Len(d) \in Nat /\ Len(arg) \in Nat
    BY <2>1, LenProperties
  <2> QED BY <2>1, <2>2
<1>4. d \in Seq(0..(b - 1))
  <2>1. ASSUME NEW i \in 1..Len(d) PROVE d[i] \in 0..(b - 1)
    <3>1. d[i] \in Nat /\ ~(d[i] >= b)
      BY <1>1, <1>3, LenProperties, ElementOfSeq DEF Refused
    <3> QED BY <1>2, <3>1 DEF Bases
  <2> QED BY <1>3, <2>1, Retyped
<1>5. PICK z \in 0..Len(d) : d = Zeros(z) \o Digits(v, b)
  BY <1>2, <1>4, DigitsOfParse DEF Splits
<1>6. z \in Nat /\ z \in 0..MaxLength
  BY <1>3
<1>7. v \in Nat /\ Zeros(z) \in Seq(Nat) /\ Len(Zeros(z)) = z /\ Digits(v, b) \in Seq(Nat)
  <2>1. 0..(b - 1) \subseteq Nat
    OBVIOUS
  <2>2. v \in Nat
    BY <1>2, <1>3, ParseUintStep
  <2> QED BY <1>2, <1>6, <2>1, <2>2, ZerosStep, ParseOfDigits, SeqMonotonic
<1>8. CASE IsHex(arg)
  <2>1. <<0, X>> \in Seq(Nat)
    BY DEF X
  <2>2. arg = <<0, X>> \o Zeros(z) \o Digits(v, 16)
    <3>1. (<<0, X>> \o Zeros(z)) \o Digits(v, b) = <<0, X>> \o (Zeros(z) \o Digits(v, b))
      BY <1>7, <2>1, Associative, Zenon
    <3>2. b = 16 /\ arg = <<0, X>> \o d
      BY <1>2, <1>3, <1>8
    <3> QED BY <1>5, <3>1, <3>2, Zenon
  <2> QED BY <1>1, <1>6, <2>2 DEF Spellings, Zeros, Refused
<1>9. CASE ~IsHex(arg)
  <2>1. d[1] # 0
    BY <1>1, <1>2, <1>9 DEF Refused
  <2>2. z = 0
    <3>1. ASSUME z > 0 PROVE d[1] = 0
      <4>1. (Zeros(z) \o Digits(v, b))[1] = Zeros(z)[1]
        BY <1>6, <1>7, <3>1, ConcatProperties, LenProperties
      <4>2. Zeros(z)[1] = 0
        BY <1>6, <3>1 DEF Zeros
      <4> QED BY <1>5, <4>1, <4>2, Zenon
    <3> QED BY <1>6, <2>1, <3>1
  <2>3. Zeros(z) = <<>> /\ <<>> \o Digits(v, b) = Digits(v, b)
    BY <1>7, <2>2, ZerosStep, ConcatEmptySeq
  <2>4. d = Digits(v, b)
    BY <1>5, <2>3, Zenon
  <2> QED BY <1>1, <1>2, <1>9, <2>4 DEF Spellings, Refused
<1> QED BY <1>8, <1>9

\* An argument is a string of characters within the bound.
ArgumentInv == raw \in Seq(Chars) /\ Len(raw) <= MaxLength

\* parseSocketMark returns a mark exactly for its spellings, and the mark they
\* spell, for marks of any width and arguments of any length.
THEOREM MarksAreParsed ==
    ASSUME MaxLength \in Nat, Chars \subseteq Nat
    PROVE  Spec => []ParsesExactly
<1>1. Init => ArgumentInv
  BY EmptySeq DEF Init, ArgumentInv
<1>2. ArgumentInv /\ [Next]_raw => ArgumentInv'
  <2> SUFFICES ASSUME ArgumentInv, [Next]_raw PROVE ArgumentInv'
    OBVIOUS
  <2>1. CASE Type
    <3>1. PICK c \in Chars : raw' = Append(raw, c)
      BY <2>1 DEF Type
    <3>2. raw' \in Seq(Chars) /\ Len(raw') = Len(raw) + 1 /\ Len(raw) \in Nat
      BY <3>1, AppendProperties, LenProperties DEF ArgumentInv
    <3> QED BY <2>1, <3>2 DEF ArgumentInv, Type
  <2>2. CASE UNCHANGED raw
    BY <2>2 DEF ArgumentInv
  <2> QED BY <2>1, <2>2 DEF Next, Typed
<1>3. ArgumentInv => ParsesExactly
  <2> SUFFICES ASSUME ArgumentInv PROVE ParsesExactly
    OBVIOUS
  <2>1. raw \in Seq(Nat) /\ Len(raw) <= MaxLength
    BY SeqMonotonic DEF ArgumentInv
  <2>2. ASSUME NEW v \in Marks, raw \in Spellings(v) PROVE parseSocketMark(raw) # 0
    <3>1. parseSocketMark(raw) = v
      BY <2>2, SpellingsAreRead
    <3> QED BY <3>1 DEF Marks
  <2>3. parseSocketMark(raw) # 0 => /\ parseSocketMark(raw) \in Marks
                                    /\ raw \in Spellings(parseSocketMark(raw))
    BY <2>1, MarksAreSpelled
  <2> QED BY <2>2, <2>3 DEF ParsesExactly
<1> QED BY <1>1, <1>2, <1>3, PTL DEF Spec
=============================================================================
