-------------------------- MODULE AddressingLemmas --------------------------
(***************************************************************************)
(* What pod subnets are, for any network and any id: the proofs about      *)
(* BuildPodSubnetPrefix, from the digits of a number to the address that   *)
(* ParseIP makes of the text.                                              *)
(*                                                                         *)
(* Digits and Number are recursive functions.  What they do is proved by   *)
(* induction, in the form that a set of natural numbers has a least        *)
(* element: there is a function that satisfies the recursive equation, and *)
(* any two agree.                                                          *)
(***************************************************************************)
EXTENDS Addressing, FiniteSetTheorems, SequenceTheorems,
        WellFoundedInduction, TLAPS

-----------------------------------------------------------------------------
(* Natural numbers *)

(* A set of natural numbers that is not empty has a least element: the     *)
(* well-foundedness of < on Nat, which stands in for induction below.      *)
LEMMA Smallest ==
  ASSUME NEW T, T \subseteq Nat, T # {}
  PROVE  \E n \in T : \A m \in T : n <= m
<1>1. PICK n \in T : \A m \in T : ~(<<m, n>> \in OpToRel(<, Nat))
  BY WFMin, NatLessThanWellFounded, Zenon
<1>2. \A m \in T : ~(m < n)
  BY <1>1 DEF OpToRel
<1> QED BY <1>2, SMT, Zenon

(* Induction over all numbers, for a set: a number is in it if all smaller *)
(* ones are.                                                               *)
LEMMA Induction ==
  ASSUME NEW T,
         \A n \in Nat : (\A k \in Nat : k < n => k \in T) => n \in T
  PROVE  Nat \subseteq T
<1> SUFFICES ASSUME Nat \ T # {} PROVE FALSE
  OBVIOUS
<1>1. PICK n \in Nat \ T : \A k \in Nat \ T : n <= k
  <2>1. Nat \ T \subseteq Nat OBVIOUS
  <2> QED BY <2>1, Smallest, Zenon
<1>2. \A k \in Nat : k < n => k \in T BY <1>1
<1> QED BY <1>1, <1>2

(* The bases of numbers, in IPv4 and IPv6.                                 *)
Bases == {10, 16}

(* Division by a base.                                                     *)
LEMMA Division ==
  ASSUME NEW base \in Bases, NEW n \in Nat
  PROVE  /\ n \div base \in Nat /\ n % base \in 0..(base - 1)
         /\ n = (n \div base) * base + (n % base)
         /\ n >= base => n \div base < n /\ n \div base >= 1
<1>1. CASE base = 10
  <2>1. n \div 10 \in Nat BY SMT
  <2>2. n % 10 \in 0..9 BY SMT
  <2>3. n = 10 * (n \div 10) + (n % 10) BY SMT
  <2> QED BY <1>1, <2>1, <2>2, <2>3
<1>2. CASE base = 16
  <2>1. n \div 16 \in Nat BY SMT
  <2>2. n % 16 \in 0..15 BY SMT
  <2>3. n = 16 * (n \div 16) + (n % 16) BY SMT
  <2> QED BY <1>2, <2>1, <2>2, <2>3
<1> QED BY <1>1, <1>2 DEF Bases

-----------------------------------------------------------------------------
(* Digits *)

(* One step of FormatInt, with what `f` has for smaller numbers, and the   *)
(* functions that give the digits of all numbers up to `m`.                *)
DigitStep(f, k, base) ==
  IF k < base THEN <<k>> ELSE Append(f[k \div base], k % base)

DigitFns(m, base) ==
  {f \in [0..m -> Seq(0..(base - 1))] : \A k \in 0..m : f[k] = DigitStep(f, k, base)}

(* There is such a function: induction over the numbers it covers.         *)
LEMMA DigitsExist ==
  ASSUME NEW base \in Bases, NEW m \in Nat
  PROVE  DigitFns(m, base) # {}
<1> DEFINE T == {n \in Nat : DigitFns(n, base) # {}}
<1>0. base \in Nat /\ base >= 10 BY DEF Bases
<1>1. ASSUME NEW n \in Nat, \A k \in Nat : k < n => k \in T
      PROVE  n \in T
  <2>1. CASE n = 0
    <3> DEFINE f == [k \in 0..0 |-> <<k>>]
    <3>1. f \in [0..0 -> Seq(0..(base - 1))] BY <1>0
    <3>2. \A k \in 0..0 : f[k] = DigitStep(f, k, base) BY <1>0 DEF DigitStep
    <3>3. f \in DigitFns(0, base) BY <3>1, <3>2 DEF DigitFns
    <3> QED BY <2>1, <3>3
  <2>2. CASE n # 0
    <3>1. n - 1 \in T BY <1>1, <2>2
    <3>2. PICK f : f \in DigitFns(n - 1, base) BY <3>1
    <3>3. /\ f \in [0..(n - 1) -> Seq(0..(base - 1))]
          /\ \A k \in 0..(n - 1) : f[k] = DigitStep(f, k, base)
      BY <3>2 DEF DigitFns
    <3> DEFINE last == DigitStep(f, n, base)
               g == [k \in 0..n |-> IF k < n THEN f[k] ELSE last]
    <3>4. last \in Seq(0..(base - 1))
      <4>1. CASE n < base BY <4>1, <1>0 DEF DigitStep
      <4>2. CASE ~(n < base)
        <5>1. /\ n \div base \in Nat /\ n \div base < n
              /\ n % base \in 0..(base - 1)
          BY <4>2, <1>0, Division
        <5>2. f[n \div base] \in Seq(0..(base - 1))
          <6>1. n \div base \in 0..(n - 1) BY <5>1
          <6> QED BY <3>3, <6>1
        <5>3. last = Append(f[n \div base], n % base) BY <4>2 DEF DigitStep
        <5> HIDE DEF last
        <5> QED BY <5>1, <5>2, <5>3
      <4> QED BY <4>1, <4>2
    <3>5. g \in [0..n -> Seq(0..(base - 1))]
      <4> HIDE DEF last
      <4> QED BY <3>3, <3>4
    <3>6. ASSUME NEW k \in 0..n PROVE g[k] = DigitStep(g, k, base)
      <4>1. g[k] = DigitStep(f, k, base)
        <5>1. CASE k < n BY <5>1, <3>3
        <5>2. CASE k = n BY <5>2
        <5> QED BY <5>1, <5>2
      <4>2. k >= base => k \div base \in Nat /\ k \div base < k BY Division
      <4>3. k >= base => g[k \div base] = f[k \div base]
        <5> HIDE DEF last
        <5>1. k >= base => k \div base \in 0..n /\ k \div base < n BY <4>2
        <5> QED BY <5>1
      <4> HIDE DEF g
      <4> QED BY <4>1, <4>3, <1>0 DEF DigitStep
    <3>7. g \in DigitFns(n, base) BY <3>5, <3>6 DEF DigitFns
    <3> QED BY <3>7
  <2> QED BY <2>1, <2>2
<1>2. Nat \subseteq T
  <2> HIDE DEF T
  <2> QED BY <1>1, Induction
<1> QED BY <1>2

(* All of these functions have the same values.                            *)
LEMMA DigitsAgree ==
  ASSUME NEW base \in Bases, NEW m \in Nat, NEW f \in DigitFns(m, base),
         NEW j \in Nat, NEW g,
         \A k \in 0..j : g[k] = DigitStep(g, k, base),
         NEW n \in Nat, n <= m, n <= j
  PROVE  f[n] = g[n]
<1> DEFINE T == {k \in Nat : k <= m /\ k <= j => f[k] = g[k]}
<1>0. base \in Nat /\ base >= 10 BY DEF Bases
<1>1. \A k \in 0..m : f[k] = DigitStep(f, k, base) BY DEF DigitFns
<1>2. ASSUME NEW k \in Nat, \A i \in Nat : i < k => i \in T
      PROVE  k \in T
  <2> SUFFICES ASSUME k <= m, k <= j PROVE f[k] = g[k] OBVIOUS
  <2>1. f[k] = DigitStep(f, k, base) /\ g[k] = DigitStep(g, k, base) BY <1>1
  <2>2. k >= base => k \div base \in Nat /\ k \div base < k BY Division
  <2>3. k >= base => f[k \div base] = g[k \div base]
    BY <2>2, <1>2
  <2> QED BY <2>1, <2>3, <1>0 DEF DigitStep
<1>3. Nat \subseteq T
  <2> HIDE DEF T
  <2> QED BY <1>2, Induction
<1> QED BY <1>3

(* Digits takes its value from one.                                        *)
LEMMA DigitsFn ==
  ASSUME NEW base \in Bases, NEW n \in Nat
  PROVE  \E f \in DigitFns(n, base) : Digits(n, base) = f[n]
<1> DEFINE Is(f) == f = [k \in 0..n |-> IF k < base THEN <<k>>
                                        ELSE Append(f[k \div base], k % base)]
           digits == CHOOSE f : Is(f)
<1>1. PICK f : f \in DigitFns(n, base) BY DigitsExist
<1>2. Is(f) BY <1>1 DEF DigitFns, DigitStep
<1>3. Is(digits) BY <1>2, Zenon
<1>4. \A k \in 0..n : digits[k] = DigitStep(digits, k, base)
  <2> HIDE DEF digits
  <2> QED BY <1>3 DEF DigitStep
<1> HIDE DEF digits
<1>5. f[n] = digits[n] BY <1>1, <1>4, DigitsAgree
<1>6. Digits(n, base) = digits[n] BY Zenon DEF Digits, digits
<1> QED BY <1>1, <1>5, <1>6

(* What FormatInt gives, one digit at a time.                              *)
LEMMA DigitsUnfold ==
  ASSUME NEW base \in Bases, NEW n \in Nat
  PROVE  /\ Digits(n, base) \in Seq(0..(base - 1))
         /\ n < base => Digits(n, base) = <<n>>
         /\ n >= base => Digits(n, base) = Append(Digits(n \div base, base), n % base)
<1>0. base \in Nat /\ base >= 10 BY DEF Bases
<1>1. PICK f \in DigitFns(n, base) : Digits(n, base) = f[n] BY DigitsFn
<1>2. f[n] \in Seq(0..(base - 1)) /\ f[n] = DigitStep(f, n, base)
  BY DEF DigitFns
<1>3. ASSUME n >= base
      PROVE  Digits(n, base) = Append(Digits(n \div base, base), n % base)
  <2>1. n \div base \in Nat /\ n \div base <= n BY <1>3, Division
  <2>2. PICK g \in DigitFns(n \div base, base) :
          Digits(n \div base, base) = g[n \div base]
    BY <2>1, DigitsFn
  <2>3. \A k \in 0..(n \div base) : g[k] = DigitStep(g, k, base)
    BY DEF DigitFns
  <2>4. f[n \div base] = g[n \div base]
    BY <2>1, <2>3, <1>0, DigitsAgree
  <2> QED BY <1>0, <1>1, <1>2, <1>3, <2>2, <2>4, SMTT(30) DEF DigitStep
<1> QED BY <1>0, <1>1, <1>2, <1>3 DEF DigitStep

-----------------------------------------------------------------------------
(* Numbers *)

(* One step of the value of digits, and the functions that give the values *)
(* of the first digits of a word.                                          *)
NumberStep(word, base, f, k) ==
  IF k = 0 THEN 0 ELSE f[k - 1] * base + word[k]

NumberFn(word, base, f) ==
  /\ f \in [0..Len(word) -> Nat]
  /\ \A k \in 0..Len(word) : f[k] = NumberStep(word, base, f, k)

(* A multiple of a base is a natural number: a fact of its own, as it is   *)
(* not a linear one.                                                       *)
LEMMA Product ==
  ASSUME NEW base \in Bases, NEW n \in Nat
  PROVE  n * base \in Nat
BY SMT DEF Bases

(* One more digit.                                                         *)
LEMMA NumberFnAppend ==
  ASSUME NEW base \in Bases, NEW word \in Seq(Nat), NEW d \in Nat,
         NEW f, NumberFn(word, base, f)
  PROVE  NumberFn(Append(word, d), base,
                  [k \in 0..(Len(word) + 1) |->
                     IF k <= Len(word) THEN f[k] ELSE f[Len(word)] * base + d])
<1> DEFINE w == Append(word, d)
           last == f[Len(word)] * base + d
           g == [k \in 0..(Len(word) + 1) |-> IF k <= Len(word) THEN f[k] ELSE last]
<1>1. Len(word) \in Nat /\ Len(w) = Len(word) + 1 /\ w \in Seq(Nat)
      /\ w[Len(word) + 1] = d /\ \A k \in 1..Len(word) : w[k] = word[k]
  OBVIOUS
<1>2. /\ f \in [0..Len(word) -> Nat]
      /\ \A k \in 0..Len(word) : f[k] = NumberStep(word, base, f, k)
  BY DEF NumberFn
<1>3. last \in Nat
  <2> DEFINE p == f[Len(word)] * base
  <2>1. f[Len(word)] \in Nat BY <1>1, <1>2
  <2>2. p \in Nat BY <2>1, Product
  <2> HIDE DEF p
  <2>3. p + d \in Nat BY <2>2
  <2> QED BY <2>3 DEF p
<1>4. g \in [0..Len(w) -> Nat]
  <2> HIDE DEF last
  <2> QED BY <1>1, <1>2, <1>3
<1>5. ASSUME NEW k \in 0..Len(w) PROVE g[k] = NumberStep(w, base, g, k)
  <2>1. CASE k = 0
    <3>1. g[0] = f[0] /\ 0 \in 0..Len(word) BY <1>1
    <3> HIDE DEF g
    <3> QED BY <2>1, <3>1, <1>2 DEF NumberStep
  <2>2. CASE k \in 1..Len(word)
    <3>1. g[k] = f[k] /\ g[k - 1] = f[k - 1] /\ w[k] = word[k]
      BY <2>2, <1>1
    <3>2. k # 0 /\ k \in 0..Len(word) BY <2>2, <1>1
    <3> HIDE DEF g, w
    <3> QED BY <3>1, <3>2, <1>2 DEF NumberStep
  <2>3. CASE k = Len(word) + 1
    <3>1. g[k] = last /\ g[k - 1] = f[Len(word)] /\ w[k] = d /\ k # 0
      BY <2>3, <1>1
    <3> HIDE DEF g, w
    <3> QED BY <3>1 DEF NumberStep
  <2>4. k = 0 \/ k \in 1..Len(word) \/ k = Len(word) + 1 BY <1>1
  <2> QED BY <2>1, <2>2, <2>3, <2>4
<1> QED BY <1>1, <1>4, <1>5, Zenon DEF NumberFn

(* There is such a function: induction over the length of the word.        *)
LEMMA NumberFnExists ==
  ASSUME NEW base \in Bases, NEW word \in Seq(Nat)
  PROVE  \E f : NumberFn(word, base, f)
<1> DEFINE T == {n \in Nat : \A w \in Seq(Nat) :
                   Len(w) = n => \E f : NumberFn(w, base, f)}
<1>1. ASSUME NEW n \in Nat, \A k \in Nat : k < n => k \in T
      PROVE  n \in T
  <2> SUFFICES ASSUME NEW w \in Seq(Nat), Len(w) = n
               PROVE  \E f : NumberFn(w, base, f)
    OBVIOUS
  <2>1. CASE n = 0
    <3> DEFINE f == [k \in 0..0 |-> 0]
    <3>1. NumberFn(w, base, f) BY <2>1 DEF NumberFn, NumberStep
    <3> QED BY <3>1
  <2>2. CASE n # 0
    <3> DEFINE v == SubSeq(w, 1, n - 1)
    <3>1. /\ v \in Seq(Nat) /\ Len(v) = n - 1
          /\ w[n] \in Nat /\ w = Append(v, w[n])
      BY <2>2
    <3>2. n - 1 \in T BY <1>1, <2>2
    <3> HIDE DEF v
    <3>3. PICK f : NumberFn(v, base, f) BY <3>1, <3>2
    <3> QED BY <3>1, <3>3, NumberFnAppend
  <2> QED BY <2>1, <2>2
<1>2. Nat \subseteq T
  <2> HIDE DEF T
  <2> QED BY <1>1, Induction
<1>3. Len(word) \in T BY <1>2
<1> QED BY <1>3

(* Number takes its value from one.                                        *)
LEMMA NumberFnValue ==
  ASSUME NEW base \in Bases, NEW word \in Seq(Nat), NEW f,
         NumberFn(word, base, f)
  PROVE  Number(word, base) = f[Len(word)]
<1> DEFINE Is(g) == g = [k \in 0..Len(word) |->
                           IF k = 0 THEN 0 ELSE g[k - 1] * base + word[k]]
           number == CHOOSE g : Is(g)
           T == {k \in Nat : k <= Len(word) => number[k] = f[k]}
<1>0. Len(word) \in Nat OBVIOUS
<1>1. Is(f) BY DEF NumberFn, NumberStep
<1>2. Is(number) BY <1>1, Zenon
<1>3. \A k \in 0..Len(word) : number[k] = NumberStep(word, base, number, k)
  <2> HIDE DEF number
  <2> QED BY <1>2 DEF NumberStep
<1> HIDE DEF number
<1>4. ASSUME NEW n \in Nat, \A k \in Nat : k < n => k \in T
      PROVE  n \in T
  <2> SUFFICES ASSUME n <= Len(word) PROVE number[n] = f[n] OBVIOUS
  <2>1. n \in 0..Len(word) BY <1>0
  <2>2. f[n] = NumberStep(word, base, f, n) /\ number[n] = NumberStep(word, base, number, n)
    BY <1>3, <2>1 DEF NumberFn
  <2>3. n # 0 => number[n - 1] = f[n - 1] BY <1>0, <1>4
  <2> QED BY <2>2, <2>3 DEF NumberStep
<1>5. Nat \subseteq T
  <2> HIDE DEF T
  <2> QED BY <1>4, Induction
<1>6. number[Len(word)] = f[Len(word)] BY <1>0, <1>5
<1>7. Number(word, base) = number[Len(word)] BY Zenon DEF Number, number
<1> QED BY <1>6, <1>7

(* What the digits of a number are worth, one digit at a time.             *)
LEMMA NumberUnfold ==
  ASSUME NEW base \in Bases, NEW word \in Seq(Nat), NEW d \in Nat
  PROVE  /\ Number(word, base) \in Nat
         /\ Number(<<>>, base) = 0
         /\ Number(Append(word, d), base) = Number(word, base) * base + d
<1>0. Len(word) \in Nat OBVIOUS
<1>1. PICK f : NumberFn(word, base, f) BY NumberFnExists
<1>2. Number(word, base) = f[Len(word)] BY <1>1, NumberFnValue
<1>3. f[Len(word)] \in Nat BY <1>0, <1>1 DEF NumberFn
<1>4. Number(<<>>, base) = 0
  <2>1. <<>> \in Seq(Nat) /\ Len(<<>>) = 0 OBVIOUS
  <2>2. PICK g : NumberFn(<<>>, base, g) BY <2>1, NumberFnExists
  <2>3. Number(<<>>, base) = g[0] BY <2>1, <2>2, NumberFnValue
  <2>4. g[0] = 0 BY <2>1, <2>2 DEF NumberFn, NumberStep
  <2> QED BY <2>3, <2>4
<1>5. Number(Append(word, d), base) = f[Len(word)] * base + d
  <2> DEFINE last == f[Len(word)] * base + d
             g == [k \in 0..(Len(word) + 1) |->
                     IF k <= Len(word) THEN f[k] ELSE last]
  <2>1. NumberFn(Append(word, d), base, g) BY <1>1, NumberFnAppend
  <2>2. Append(word, d) \in Seq(Nat) /\ Len(Append(word, d)) = Len(word) + 1
    OBVIOUS
  <2>3. g[Len(word) + 1] = last
    <3> HIDE DEF last
    <3> QED BY <1>0
  <2> HIDE DEF g
  <2> QED BY <2>1, <2>2, <2>3, NumberFnValue
<1> QED BY <1>2, <1>3, <1>4, <1>5

(* The digits of a number are worth that number.                           *)
LEMMA NumberOfDigits ==
  ASSUME NEW base \in Bases, NEW n \in Nat
  PROVE  Number(Digits(n, base), base) = n
<1> DEFINE T == {k \in Nat : Number(Digits(k, base), base) = k}
<1>0. base \in Nat /\ base >= 10 BY DEF Bases
<1>1. ASSUME NEW m \in Nat, \A k \in Nat : k < m => k \in T
      PROVE  m \in T
  <2>1. CASE m < base
    <3>1. Digits(m, base) = Append(<<>>, m) BY <2>1, DigitsUnfold
    <3>2. <<>> \in Seq(Nat) OBVIOUS
    <3>3. Number(Append(<<>>, m), base) = Number(<<>>, base) * base + m
      BY <3>2, NumberUnfold
    <3>4. Number(<<>>, base) = 0 BY <3>2, NumberUnfold
    <3> QED BY <1>0, <3>1, <3>3, <3>4
  <2>2. CASE ~(m < base)
    <3>1. m >= base BY <2>2, <1>0
    <3> DEFINE q == m \div base
               d == m % base
    <3>2. q \in Nat /\ q < m /\ d \in Nat /\ m = q * base + d
      BY <3>1, <1>0, Division
    <3>3. Digits(m, base) = Append(Digits(q, base), d)
      BY <3>1, DigitsUnfold
    <3> HIDE DEF q, d
    <3>4. Digits(q, base) \in Seq(Nat)
      <4>1. Digits(q, base) \in Seq(0..(base - 1)) BY <3>2, DigitsUnfold
      <4>2. 0..(base - 1) \subseteq Nat BY <1>0
      <4> QED BY <4>1, <4>2, SeqMonotonic
    <3>5. Number(Digits(q, base), base) = q BY <3>2, <1>1
    <3> QED BY <3>2, <3>3, <3>4, <3>5, NumberUnfold
  <2> QED BY <2>1, <2>2
<1>2. Nat \subseteq T
  <2> HIDE DEF T
  <2> QED BY <1>1, Induction
<1> QED BY <1>2

(* Hexadecimal numbers of up to four digits, and how long they are.        *)
LEMMA HexLength ==
  ASSUME NEW n \in Nat
  PROVE  /\ Hex(n) \in Seq(0..15) /\ Len(Hex(n)) \in Nat \ {0}
         /\ (n < 16) <=> (Len(Hex(n)) = 1)
         /\ (n < 256) <=> (Len(Hex(n)) <= 2)
         /\ (n < 4096) <=> (Len(Hex(n)) <= 3)
         /\ (n < 65536) <=> (Len(Hex(n)) <= 4)
<1> DEFINE L == [k \in Nat |-> Len(Digits(k, 16))]
<1>0. 16 \in Bases BY DEF Bases
<1>1. ASSUME NEW k \in Nat
      PROVE  /\ Digits(k, 16) \in Seq(0..15) /\ L[k] \in Nat
             /\ k < 16 => L[k] = 1
             /\ k >= 16 => L[k] = L[k \div 16] + 1
             /\ k \div 16 \in Nat
  <2>1. k \div 16 \in Nat BY SMT
  <2>2. Digits(k, 16) \in Seq(0..15) /\ Digits(k \div 16, 16) \in Seq(0..15)
    <3>1. 0..(16 - 1) = 0..15 OBVIOUS
    <3> QED BY <1>0, <2>1, <3>1, DigitsUnfold
  <2>3. k >= 16 => Digits(k, 16) = Append(Digits(k \div 16, 16), k % 16)
    BY <1>0, DigitsUnfold
  <2>4. k < 16 => Digits(k, 16) = <<k>> BY <1>0, DigitsUnfold
  <2> QED BY <2>1, <2>2, <2>3, <2>4
<1> HIDE DEF L
<1>2. \A k \in Nat : L[k] \in Nat BY <1>1
<1>3. \A k \in Nat : k < 16 => L[k] = 1 BY <1>1
<1>4. \A k \in Nat : k >= 16 => k \div 16 \in Nat /\ L[k] = L[k \div 16] + 1
  BY <1>1
<1>5. \A k \in Nat : L[k] >= 1
  <2> DEFINE T == {j \in Nat : L[j] >= 1}
  <2>1. ASSUME NEW j \in Nat, \A i \in Nat : i < j => i \in T PROVE j \in T
    <3>1. CASE j < 16 BY <3>1, <1>3
    <3>2. CASE j >= 16
      <4>1. j \div 16 \in Nat /\ j \div 16 < j BY <3>2, SMT
      <4>2. L[j \div 16] >= 1 BY <4>1, <2>1
      <4>3. L[j \div 16] \in Nat BY <4>1, <1>2
      <4>4. L[j] = L[j \div 16] + 1 BY <3>2, <1>4
      <4> QED BY <4>2, <4>3, <4>4
    <3> QED BY <3>1, <3>2
  <2>2. Nat \subseteq T
    <3> HIDE DEF T
    <3> QED BY <2>1, Induction
  <2> QED BY <2>2
<1>6. \A k \in Nat : (k < 16) <=> (L[k] <= 1)
  <2> SUFFICES ASSUME NEW k \in Nat PROVE (k < 16) <=> (L[k] <= 1) OBVIOUS
  <2>1. CASE k < 16 BY <2>1, <1>3
  <2>2. CASE k >= 16
    <3>1. k \div 16 \in Nat /\ L[k] = L[k \div 16] + 1 BY <2>2, <1>4
    <3>2. L[k \div 16] >= 1 /\ L[k \div 16] \in Nat BY <3>1, <1>2, <1>5
    <3> QED BY <2>2, <3>1, <3>2
  <2> QED BY <2>1, <2>2
<1>7. ASSUME NEW b \in Nat, NEW c \in Nat, NEW k \in Nat, b >= 1, c >= 1,
             k >= 16 => ((k \div 16 < b) <=> (L[k \div 16] <= c))
      PROVE  (k < 16 * b) <=> (L[k] <= c + 1)
  <2>1. CASE k < 16
    <3>1. L[k] = 1 BY <2>1, <1>3
    <3> QED BY <2>1, <3>1, <1>7
  <2>2. CASE k >= 16
    <3>1. (k < 16 * b) <=> (k \div 16 < b) BY SMT
    <3>2. k \div 16 \in Nat /\ L[k] = L[k \div 16] + 1 BY <2>2, <1>4
    <3>3. L[k \div 16] \in Nat BY <3>2, <1>2
    <3> QED BY <2>2, <3>1, <3>2, <3>3, <1>7
  <2> QED BY <2>1, <2>2
<1>9. \A k \in Nat : (k < 256) <=> (L[k] <= 2)
  <2> SUFFICES ASSUME NEW k \in Nat PROVE (k < 256) <=> (L[k] <= 2) OBVIOUS
  <2>1. k >= 16 => ((k \div 16 < 16) <=> (L[k \div 16] <= 1)) BY <1>4, <1>6
  <2>2. (k < 16 * 16) <=> (L[k] <= 1 + 1) BY <2>1, <1>7
  <2> QED BY <2>2
<1>10. \A k \in Nat : (k < 4096) <=> (L[k] <= 3)
  <2> SUFFICES ASSUME NEW k \in Nat PROVE (k < 4096) <=> (L[k] <= 3) OBVIOUS
  <2>1. k >= 16 => ((k \div 16 < 256) <=> (L[k \div 16] <= 2)) BY <1>4, <1>9
  <2>2. (k < 16 * 256) <=> (L[k] <= 2 + 1) BY <2>1, <1>7
  <2> QED BY <2>2
<1>11. \A k \in Nat : (k < 65536) <=> (L[k] <= 4)
  <2> SUFFICES ASSUME NEW k \in Nat PROVE (k < 65536) <=> (L[k] <= 4) OBVIOUS
  <2>1. k >= 16 => ((k \div 16 < 4096) <=> (L[k \div 16] <= 3)) BY <1>4, <1>10
  <2>2. (k < 16 * 4096) <=> (L[k] <= 3 + 1) BY <2>1, <1>7
  <2> QED BY <2>2
<1>8. Len(Hex(n)) = L[n] /\ Hex(n) = Digits(n, 16) BY DEF Hex, L
<1>12. Digits(n, 16) \in Seq(0..15) BY <1>1
<1>13. L[n] \in Nat /\ L[n] >= 1 BY <1>2, <1>5
<1>14. (n < 16) <=> (L[n] = 1) BY <1>6, <1>13
<1> QED BY <1>8, <1>9, <1>10, <1>11, <1>12, <1>13, <1>14

(* The hexadecimal digits of a number are worth that number.               *)
LEMMA HexNumber ==
  ASSUME NEW n \in Nat
  PROVE  Number(Hex(n), 16) = n /\ Hex(n) \in Seq(Nat)
<1>1. 16 \in Bases BY DEF Bases
<1>2. Hex(n) \in Seq(0..15) BY HexLength
<1>3. 0..15 \subseteq Nat OBVIOUS
<1> QED BY <1>1, <1>2, <1>3, NumberOfDigits, SeqMonotonic DEF Hex

(* What digits are worth by their place.                                   *)
Weights == {1, 16, 256, 4096}

(* Digits `d` of weight `w` after a word `u`.                              *)
Shifts(u, w, d) == Number(u \o d, 16) = Number(u, 16) * w + Number(d, 16)

(* The value of a word that up to four digits were added to.               *)
LEMMA ConcatStep ==
  ASSUME NEW u \in Seq(Nat), NEW d \in Seq(Nat), NEW k \in Nat,
         NEW w \in Weights,
         Number(u \o d, 16) = Number(u, 16) * w + Number(d, 16)
  PROVE  Number(u \o Append(d, k), 16)
           = Number(u, 16) * (16 * w) + Number(Append(d, k), 16)
<1>0. 16 \in Bases BY DEF Bases
<1>1. u \o Append(d, k) = Append(u \o d, k) /\ u \o d \in Seq(Nat)
  <2>1. u \o d \in Seq(Nat) /\ <<k>> \in Seq(Nat) OBVIOUS
  <2>2. Append(d, k) = d \o <<k>> BY AppendIsConcat, Zenon
  <2>3. Append(u \o d, k) = (u \o d) \o <<k>> BY <2>1, AppendIsConcat, Zenon
  <2>4. (u \o d) \o <<k>> = u \o (d \o <<k>>)
    BY <2>1, ConcatAssociative, SMTT(30)
  <2> QED BY <2>1, <2>2, <2>3, <2>4, Zenon
<1>2. Number(Append(u \o d, k), 16) = Number(u \o d, 16) * 16 + k
  BY <1>0, <1>1, NumberUnfold
<1>3. Number(Append(d, k), 16) = Number(d, 16) * 16 + k
  BY <1>0, NumberUnfold
<1>4. Number(u, 16) \in Nat /\ Number(d, 16) \in Nat BY <1>0, NumberUnfold
<1> DEFINE x == Number(u, 16)
           y == Number(d, 16)
<1>5. (x * w + y) * 16 + k = x * (16 * w) + (y * 16 + k)
  <2> HIDE DEF x, y
  <2> QED BY ONLY <1>4, k \in Nat, w \in Weights DEF Weights, x, y
<1> QED BY <1>1, <1>2, <1>3, <1>5

(* The value of a word followed by one to four digits.                     *)
LEMMA ConcatNumber ==
  ASSUME NEW u \in Seq(Nat), NEW d \in Seq(Nat)
  PROVE  /\ Number(u, 16) \in Nat /\ Number(d, 16) \in Nat
         /\ Len(d) = 1 => Number(u \o d, 16) = Number(u, 16) * 16 + Number(d, 16)
         /\ Len(d) = 2 => Number(u \o d, 16) = Number(u, 16) * 256 + Number(d, 16)
         /\ Len(d) = 3 => Number(u \o d, 16) = Number(u, 16) * 4096 + Number(d, 16)
         /\ Len(d) = 4 => Number(u \o d, 16) = Number(u, 16) * 65536 + Number(d, 16)
<1>0. 16 \in Bases BY DEF Bases
<1>1. \A e \in Seq(Nat) : Number(e, 16) \in Nat /\ Number(<<>>, 16) = 0
  BY <1>0, NumberUnfold
<1>2. ASSUME NEW e \in Seq(Nat), Len(e) # 0
      PROVE  \E f \in Seq(Nat), k \in Nat : e = Append(f, k) /\ Len(f) = Len(e) - 1
  <2>1. e # <<>> BY <1>2
  <2>2. PICK f \in Seq(Nat), k \in Nat : e = Append(f, k)
    BY <2>1, SequenceEmptyOrAppend
  <2> QED BY <2>2, SMTT(30)
<1>3. ASSUME NEW w \in Weights, NEW e \in Seq(Nat), Len(e) # 0,
             \A f \in Seq(Nat) : Len(f) = Len(e) - 1 => Shifts(u, w, f),
             NEW v, v = 16 * w
      PROVE  Shifts(u, v, e)
  <2>1. PICK f \in Seq(Nat), k \in Nat : e = Append(f, k) /\ Len(f) = Len(e) - 1
    BY <1>2, <1>3
  <2>2. Shifts(u, w, f) BY <1>3, <2>1
  <2>3. Shifts(u, 16 * w, Append(f, k)) BY <2>2, ConcatStep DEF Shifts
  <2> QED BY <2>1, <2>3, <1>3, Zenon
<1>4. \A e \in Seq(Nat) : Len(e) = 0 => Shifts(u, 1, e)
  <2> SUFFICES ASSUME NEW e \in Seq(Nat), Len(e) = 0 PROVE Shifts(u, 1, e)
    OBVIOUS
  <2>1. e = <<>> /\ u \o e = u OBVIOUS
  <2> QED BY <2>1, <1>1 DEF Shifts
<1> DEFINE w1 == 16
           w2 == 256
           w3 == 4096
           w4 == 65536
<1>w. /\ 1 \in Weights /\ w1 \in Weights /\ w2 \in Weights /\ w3 \in Weights
      /\ w1 = 16 * 1 /\ w2 = 16 * w1 /\ w3 = 16 * w2 /\ w4 = 16 * w3
  BY DEF Weights
<1> HIDE DEF w1, w2, w3, w4
<1>5. \A e \in Seq(Nat) : Len(e) = 1 => Shifts(u, w1, e)
  <2> SUFFICES ASSUME NEW e \in Seq(Nat), Len(e) = 1 PROVE Shifts(u, w1, e)
    OBVIOUS
  <2>1. ASSUME NEW f \in Seq(Nat), Len(f) = Len(e) - 1 PROVE Shifts(u, 1, f)
    <3>1. Len(f) = 1 - 1 BY <2>1
    <3>2. Len(f) = 0 BY <3>1
    <3> QED BY <3>2, <1>4
  <2>2. Len(e) # 0 OBVIOUS
  <2> QED BY <2>1, <2>2, <1>w, <1>3
<1>6. \A e \in Seq(Nat) : Len(e) = 2 => Shifts(u, w2, e)
  <2> SUFFICES ASSUME NEW e \in Seq(Nat), Len(e) = 2 PROVE Shifts(u, w2, e)
    OBVIOUS
  <2>1. ASSUME NEW f \in Seq(Nat), Len(f) = Len(e) - 1 PROVE Shifts(u, w1, f)
    <3>1. Len(f) = 2 - 1 BY <2>1
    <3>2. Len(f) = 1 BY <3>1
    <3> QED BY <3>2, <1>5
  <2>2. Len(e) # 0 OBVIOUS
  <2> QED BY <2>1, <2>2, <1>w, <1>3
<1>7. \A e \in Seq(Nat) : Len(e) = 3 => Shifts(u, w3, e)
  <2> SUFFICES ASSUME NEW e \in Seq(Nat), Len(e) = 3 PROVE Shifts(u, w3, e)
    OBVIOUS
  <2>1. ASSUME NEW f \in Seq(Nat), Len(f) = Len(e) - 1 PROVE Shifts(u, w2, f)
    <3>1. Len(f) = 3 - 1 BY <2>1
    <3>2. Len(f) = 2 BY <3>1
    <3> QED BY <3>2, <1>6
  <2>2. Len(e) # 0 OBVIOUS
  <2> QED BY <2>1, <2>2, <1>w, <1>3
<1>8. \A e \in Seq(Nat) : Len(e) = 4 => Shifts(u, w4, e)
  <2> SUFFICES ASSUME NEW e \in Seq(Nat), Len(e) = 4 PROVE Shifts(u, w4, e)
    OBVIOUS
  <2>1. ASSUME NEW f \in Seq(Nat), Len(f) = Len(e) - 1 PROVE Shifts(u, w3, f)
    <3>1. Len(f) = 4 - 1 BY <2>1
    <3>2. Len(f) = 3 BY <3>1
    <3> QED BY <3>2, <1>7
  <2>2. Len(e) # 0 OBVIOUS
  <2> QED BY <2>1, <2>2, <1>w, <1>3
<1>9. w1 = 16 /\ w2 = 256 /\ w3 = 4096 /\ w4 = 65536 BY DEF w1, w2, w3, w4
<1> QED BY <1>1, <1>5, <1>6, <1>7, <1>8, <1>9 DEF Shifts

-----------------------------------------------------------------------------
(* Texts *)

(* The fields of a text.                                                   *)
TextFields == {"base", "words", "gaps", "open"}

(* A text by its fields, all but `open`.                                   *)
IsText(text, base, words, gaps) ==
  /\ DOMAIN text = TextFields
  /\ text.base = base /\ text.words = words /\ text.gaps = gaps

(* Digits, and the words of a text.                                        *)
DigitSeq  == Seq(Nat)
TextWords == Seq(DigitSeq)

(* AddDigits and AddGap by their fields.                                   *)
LEMMA DigitsAdded ==
  ASSUME NEW text, NEW base, NEW words, NEW gaps, NEW digits,
         IsText(text, base, words, gaps)
  PROVE  /\ text.open => IsText(AddDigits(text, digits), base,
                                Append(words, digits), gaps)
         /\ ~text.open => IsText(AddDigits(text, digits), base,
                                 [words EXCEPT ![Len(words)] = @ \o digits], gaps)
<1>1. ASSUME text.open
      PROVE  IsText(AddDigits(text, digits), base, Append(words, digits), gaps)
  BY <1>1 DEF IsText, TextFields, AddDigits
<1>2. ASSUME ~text.open
      PROVE  IsText(AddDigits(text, digits), base,
                    [words EXCEPT ![Len(words)] = @ \o digits], gaps)
  BY <1>2 DEF IsText, TextFields, AddDigits
<1> QED BY <1>1, <1>2

(* A "::" added to a text.                                                 *)
LEMMA GapAdded ==
  ASSUME NEW text, NEW base, NEW words, NEW gaps,
         IsText(text, base, words, gaps)
  PROVE  /\ IsText(AddGap(text), base, words, gaps \union {Len(words)})
         /\ AddGap(text).open
<1>1. IsText(AddGap(text), base, words, gaps \union {Len(words)})
  BY DEF IsText, TextFields, AddGap
<1>2. AddGap(text).open BY DEF IsText, TextFields, AddGap
<1> QED BY <1>1, <1>2

(* What ParseIP makes of a text with a "::" at its end.                    *)
Parsed(words) ==
  [i \in 1..8 |-> IF i <= Len(words) THEN Number(words[i], 16) ELSE 0]

(* Words of at most four digits, all that ParseIP takes.                   *)
ShortWords(words) == \A i \in DOMAIN words : ~(Len(words[i]) > 4)

(* The same for any place of the gap.                                      *)
PartAt(words, gaps, i) ==
  LET before == CHOOSE k \in gaps : TRUE
      after  == Len(words) - before
  IN  CASE i <= before -> Number(words[i], 16)
        [] i > 8 - after -> Number(words[i - 8 + Len(words)], 16)
        [] OTHER -> 0

PartsAt(words, gaps) == [i \in 1..8 |-> PartAt(words, gaps, i)]

(* The words of a text are where they were when its "::" is at its end.    *)
LEMMA GapAtEnd ==
  ASSUME NEW words \in TextWords, Len(words) < 8, NEW i \in 1..8
  PROVE  PartAt(words, {Len(words)}, i)
           = IF i <= Len(words) THEN Number(words[i], 16) ELSE 0
<1> DEFINE n == Len(words)
           before == CHOOSE k \in {n} : TRUE
           after  == n - before
<1>0. n \in Nat BY DEF TextWords
<1>1. before = n OBVIOUS
<1>2. after = 0 BY <1>0, <1>1
<1>5. PartAt(words, {n}, i) =
        CASE i <= before -> Number(words[i], 16)
          [] i > 8 - after -> Number(words[i - 8 + n], 16)
          [] OTHER -> 0
  BY Zenon DEF PartAt
<1> HIDE DEF before, after, n
<1>3. ~(i > 8 - after) BY <1>2
<1>6. PartAt(words, {n}, i) = IF i <= n THEN Number(words[i], 16) ELSE 0
  <2>1. CASE i <= n BY <1>3, <1>5, <1>1, <2>1
  <2>2. CASE ~(i <= n) BY <1>3, <1>5, <1>1, <2>2
  <2> QED BY <2>1, <2>2
<1> QED BY <1>6 DEF n

(* ParseIPv6 of a text that ends in a "::".                                *)
LEMMA ParseCases ==
  ASSUME NEW text, NEW words, NEW gaps,
         text.open, text.words = words, text.gaps = gaps
  PROVE  ParseIPv6(text) =
           IF ~ShortWords(words) THEN Malformed
           ELSE IF /\ Cardinality(gaps) = 1 /\ Len(words) < 8
                   /\ gaps = {Len(words)}
           THEN PartsAt(words, gaps) ELSE Malformed
<1> DEFINE long == \E i \in DOMAIN words : Len(words[i]) > 4
           full == text.gaps = {} /\ Len(words) = 8 /\ ~text.open
           gapped == /\ Cardinality(text.gaps) = 1 /\ Len(words) < 8
                     /\ text.open => text.gaps = {Len(words)}
           here == /\ Cardinality(gaps) = 1 /\ Len(words) < 8
                   /\ gaps = {Len(words)}
           all == [i \in 1..8 |-> Number(words[i], 16)]
           parts == [i \in 1..8 |-> PartAt(words, gaps, i)]
<1>1. ParseIPv6(text) = IF long THEN Malformed
                        ELSE CASE full -> all [] gapped -> parts
                               [] OTHER -> Malformed
  BY DEF ParseIPv6, PartAt
<1>2. ~full OBVIOUS
<1>3. gapped <=> here OBVIOUS
<1> HIDE DEF full, gapped, all, parts, long, here
<1>4. (CASE full -> all [] gapped -> parts [] OTHER -> Malformed)
        = IF here THEN parts ELSE Malformed
  <2>1. CASE here BY <1>2, <1>3, <2>1
  <2>2. CASE ~here BY <1>2, <1>3, <2>2
  <2> QED BY <2>1, <2>2
<1>5. ParseIPv6(text) = IF long THEN Malformed
                        ELSE IF here THEN parts ELSE Malformed
  BY <1>1, <1>4
<1>6. long <=> ~ShortWords(words) BY Zenon DEF ShortWords, long
<1>7. parts = PartsAt(words, gaps) BY Zenon DEF parts, PartsAt
<1> QED BY <1>5, <1>6, <1>7 DEF here

(* The same, with the "::" that was added last named apart.                *)
LEMMA ParseGapped ==
  ASSUME NEW text, NEW words \in TextWords, NEW gaps,
         IsText(text, 16, words, gaps \union {Len(words)}), text.open
  PROVE  ParseIP(text) =
           IF /\ ShortWords(words) /\ Len(words) < 8
              /\ gaps \subseteq {Len(words)}
           THEN Parsed(words) ELSE Malformed
<1> DEFINE all  == gaps \union {Len(words)}
           here == Len(words) < 8 /\ gaps \subseteq {Len(words)}
<1>0. text.base = 16 /\ text.words = words /\ text.gaps = all BY DEF IsText
<1>1. ParseIP(text) = ParseIPv6(text) BY <1>0 DEF ParseIP
<1>2. all = {Len(words)} <=> gaps \subseteq {Len(words)} OBVIOUS
<1>3. Cardinality({Len(words)}) = 1 BY FS_Singleton
<1> HIDE DEF all
<1>4. ParseIPv6(text) =
        IF ~ShortWords(words) THEN Malformed
        ELSE IF Cardinality(all) = 1 /\ Len(words) < 8 /\ all = {Len(words)}
        THEN PartsAt(words, all) ELSE Malformed
  BY <1>0, ParseCases
<1>5. here => PartsAt(words, all) = Parsed(words)
  <2> SUFFICES ASSUME here PROVE PartsAt(words, all) = Parsed(words)
    OBVIOUS
  <2>1. all = {Len(words)} /\ Len(words) < 8 BY <1>2
  <2>2. \A i \in 1..8 : PartAt(words, all, i)
          = IF i <= Len(words) THEN Number(words[i], 16) ELSE 0
    BY <2>1, GapAtEnd
  <2> QED BY <2>2, Zenon DEF Parsed, PartsAt
<1>7. ParseIP(text) =
        IF /\ ShortWords(words) /\ Len(words) < 8
           /\ gaps \subseteq {Len(words)}
        THEN Parsed(words) ELSE Malformed
  <2>1. CASE ~ShortWords(words) BY <2>1, <1>1, <1>4
  <2>2. CASE ShortWords(words) /\ here BY <2>2, <1>1, <1>2, <1>3, <1>4, <1>5
  <2>3. CASE ShortWords(words) /\ ~here BY <2>3, <1>1, <1>2, <1>4
  <2> QED BY <2>1, <2>2, <2>3
<1> QED BY <1>7 DEF all

-----------------------------------------------------------------------------
(* IPv6 networks as text *)

(* The numbers that a word can be.                                         *)
LEMMA WordRange ==
  ASSUME NEW p \in Words PROVE p \in Nat /\ p < 65536
BY SMT DEF Words

(* A word of an address in hexadecimal.                                    *)
LEMMA WordFacts ==
  ASSUME NEW p \in Words
  PROVE  /\ p \in Nat /\ Hex(p) \in Seq(Nat) /\ ~(Len(Hex(p)) > 4)
         /\ Number(Hex(p), 16) = p
<1>1. p \in Nat /\ p < 65536 BY WordRange
<1>2. Len(Hex(p)) \in Nat /\ Len(Hex(p)) <= 4 BY <1>1, HexLength
<1>3. ~(Len(Hex(p)) > 4) BY <1>2
<1> QED BY <1>1, <1>3, HexNumber

(* The first words of an address, and the last ones.                       *)
LEMMA FirstWords ==
  ASSUME NEW parts \in [1..8 -> Words], NEW n \in 0..8
  PROVE  /\ HexWords(parts, 1, n) \in TextWords /\ Len(HexWords(parts, 1, n)) = n
         /\ \A i \in 1..n : HexWords(parts, 1, n)[i] = Hex(parts[i])
<1> DEFINE f == HexWords(parts, 1, n)
<1>1. f = [i \in 1..(n - 1 + 1) |-> Hex(parts[1 + i - 1])] BY Zenon DEF HexWords
<1>2. n - 1 + 1 = n OBVIOUS
<1> HIDE DEF f
<1>3. DOMAIN f = 1..n BY <1>1, <1>2
<1>4. ASSUME NEW i \in 1..n PROVE f[i] = Hex(parts[i])
  <2>1. 1 + i - 1 = i OBVIOUS
  <2>2. f[i] = Hex(parts[1 + i - 1]) BY <1>1, <1>2
  <2> QED BY <2>1, <2>2
<1>5. ASSUME NEW i \in 1..n PROVE f[i] \in DigitSeq
  <2>1. parts[i] \in Words OBVIOUS
  <2> QED BY <2>1, <1>4, WordFacts DEF DigitSeq
<1>6. f \in TextWords /\ Len(f) = n
  <2>1. f = [i \in 1..n |-> f[i]] BY <1>1, <1>2
  <2>2. f \in [1..n -> DigitSeq] BY <2>1, <1>5
  <2>3. n \in Nat OBVIOUS
  <2>4. f \in TextWords BY <2>2, <2>3, SeqDef DEF TextWords
  <2> QED BY <1>3, <2>3, <2>4 DEF TextWords
<1> QED BY <1>4, <1>6 DEF f

(* And the last words.                                                     *)
LEMMA LastWords ==
  ASSUME NEW parts \in [1..8 -> Words], NEW k \in 0..8
  PROVE  /\ HexWords(parts, k + 1, 8) \in TextWords
         /\ Len(HexWords(parts, k + 1, 8)) = 8 - k
         /\ \A i \in 1..(8 - k) :
              HexWords(parts, k + 1, 8)[i] = Hex(parts[k + i])
<1> DEFINE f == HexWords(parts, k + 1, 8)
           n == 8 - k
<1>1. f = [i \in 1..(8 - (k + 1) + 1) |-> Hex(parts[k + 1 + i - 1])]
  BY Zenon DEF HexWords
<1>2. 8 - (k + 1) + 1 = n /\ n \in Nat OBVIOUS
<1> HIDE DEF f
<1>3. DOMAIN f = 1..n BY <1>1, <1>2
<1>5. ASSUME NEW i \in 1..n PROVE f[i] \in DigitSeq /\ f[i] = Hex(parts[k + i])
  <2>1. k + i \in 1..8 /\ k + 1 + i - 1 = k + i OBVIOUS
  <2>2. parts[k + i] \in Words BY <2>1
  <2>3. f[i] = Hex(parts[k + 1 + i - 1]) BY <1>1, <1>2
  <2> QED BY <2>1, <2>2, <2>3, WordFacts DEF DigitSeq
<1> HIDE DEF n
<1>6. f \in TextWords /\ Len(f) = n
  <2>1. f = [i \in 1..n |-> f[i]] BY <1>1, <1>2
  <2>2. f \in [1..n -> DigitSeq] BY <2>1, <1>5
  <2>4. f \in TextWords BY <2>2, <1>2, SeqDef DEF TextWords
  <2> QED BY <1>3, <1>2, <2>4 DEF TextWords
<1> QED BY <1>5, <1>6 DEF f, n

(* LongestRun exists: the run whose length and place make the smallest     *)
(* number.                                                                 *)
LEMMA LongestRunFacts ==
  ASSUME NEW parts, ZeroRuns(parts) # {}
  PROVE  /\ LongestRun(parts) \in ZeroRuns(parts)
         /\ \A s \in ZeroRuns(parts) :
              s[2] - s[1] <= LongestRun(parts)[2] - LongestRun(parts)[1]
<1> DEFINE R == ZeroRuns(parts)
           Key(r) == (7 - (r[2] - r[1])) * 8 + r[1]
           T == {Key(r) : r \in R}
           Best(r) == \A s \in R : \/ r[2] - r[1] > s[2] - s[1]
                                   \/ r[2] - r[1] = s[2] - s[1] /\ r[1] <= s[1]
<1>1. \A r \in R : r[1] \in 1..8 /\ r[2] \in 1..8 /\ r[1] < r[2] BY DEF ZeroRuns
<1>2. \A r \in R : Key(r) \in Nat BY <1>1
<1> HIDE DEF R
<1>3. T \subseteq Nat /\ T # {} BY <1>2 DEF R
<1>4. PICK n \in T : \A m \in T : n <= m BY <1>3, Smallest
<1>5. PICK r \in R : n = Key(r) OBVIOUS
<1>6. ASSUME NEW s \in R
      PROVE  \/ r[2] - r[1] > s[2] - s[1]
             \/ r[2] - r[1] = s[2] - s[1] /\ r[1] <= s[1]
  <2>1. Key(r) <= Key(s) BY <1>4, <1>5
  <2>2. /\ r[1] \in 1..8 /\ r[2] \in 1..8 /\ s[1] \in 1..8 /\ s[2] \in 1..8
    BY <1>1
  <2> QED BY <2>1, <2>2
<1>7. Best(r) BY <1>6
<1> HIDE DEF Best
<1>8. Best(CHOOSE x \in R : Best(x)) /\ (CHOOSE x \in R : Best(x)) \in R
  BY <1>5, <1>7, Zenon
<1>9. LongestRun(parts) = CHOOSE x \in R : Best(x)
  BY Zenon DEF LongestRun, Best, R
<1>10. Best(LongestRun(parts)) /\ LongestRun(parts) \in R BY <1>8, <1>9, Zenon
<1>11. ASSUME NEW s \in R
       PROVE  s[2] - s[1] <= LongestRun(parts)[2] - LongestRun(parts)[1]
  BY <1>1, <1>10 DEF Best
<1> QED BY <1>10, <1>11 DEF R

(* IPv6Text by its fields.                                                 *)
LEMMA IPv6TextFields ==
  ASSUME NEW parts \in [1..8 -> Words]
  PROVE  LET r == LongestRun(parts)
         IN  IF ZeroRuns(parts) = {}
             THEN /\ IsText(IPv6Text(parts), 16, HexWords(parts, 1, 8), {})
                  /\ ~IPv6Text(parts).open
             ELSE /\ IsText(IPv6Text(parts), 16,
                            HexWords(parts, 1, r[1] - 1)
                              \o HexWords(parts, r[2] + 1, 8),
                            {r[1] - 1})
                  /\ IPv6Text(parts).open <=> r[2] = 8
<1> DEFINE r == LongestRun(parts)
<1>1. CASE ZeroRuns(parts) = {}
  BY <1>1 DEF IPv6Text, IsText, TextFields
<1>2. CASE ZeroRuns(parts) # {}
  <2> HIDE DEF r
  <2> DEFINE w == HexWords(parts, 1, r[1] - 1) \o HexWords(parts, r[2] + 1, 8)
  <2>1. IPv6Text(parts) = [base |-> 16, words |-> w, gaps |-> {r[1] - 1},
                           open |-> r[2] = 8]
    BY <1>2, Zenon DEF IPv6Text, r
  <2> HIDE DEF w
  <2>2. IsText(IPv6Text(parts), 16, w, {r[1] - 1})
    BY <2>1 DEF IsText, TextFields
  <2>3. IPv6Text(parts).open <=> r[2] = 8
    <3> DEFINE o == r[2] = 8
    <3>1. IPv6Text(parts).open = o BY <2>1
    <3> QED BY <3>1
  <2> QED BY <1>2, <2>2, <2>3 DEF w, r
<1> QED BY <1>1, <1>2

(* The gaps that MakePrefixFromNetwork leaves.                             *)
Gaps(text) == IF text.open THEN {} ELSE text.gaps

(* MakePrefixFromNetwork by its fields: a text with enough words, one with *)
(* a "::" before its end, and one that gets zeros.                         *)
LEMMA PrefixFields ==
  ASSUME NEW text, NEW words, NEW gaps, IsText(text, 16, words, gaps),
         NEW s, NEW c, c = Cardinality(Gaps(text))
  PROVE  LET P == MakePrefixFromNetwork(text, s)
             m == s \div 16
         IN  /\ Gaps(text) = {} /\ Len(words) + c > m =>
                  /\ IsText(P, 16, [words EXCEPT ![m + 1] = TrimZeros(@)], {})
                  /\ ~P.open
             /\ Gaps(text) # {} /\ Len(words) + c > m => P = text
             /\ ~(Len(words) + c > m) =>
                  /\ IsText(P, 16, words \o [i \in 1..(m - (Len(words) + c)) |-> <<0>>],
                            Gaps(text))
                  /\ P.open
<1> DEFINE P == MakePrefixFromNetwork(text, s)
           m == s \div 16
           have == Len(words) + c
           zeros == [i \in 1..(m - have) |-> <<0>>]
           g == Gaps(text)
           first == [text EXCEPT !.words[m + 1] = TrimZeros(@), !.gaps = {},
                                 !.open = FALSE]
           last == [text EXCEPT !.words = @ \o zeros, !.gaps = g, !.open = TRUE]
<1>0. text.words = words /\ text.base = 16 /\ DOMAIN text = TextFields
  BY DEF IsText
<1>1. P = CASE have > m /\ g = {} -> first
            [] have > m /\ g # {} -> text
            [] OTHER -> last
  BY <1>0, Zenon DEF MakePrefixFromNetwork, Gaps
<1> HIDE DEF P, g, have, zeros
<1>2. /\ IsText(first, 16, [words EXCEPT ![m + 1] = TrimZeros(@)], {})
      /\ ~first.open
  <2>1. IsText(first, 16, [words EXCEPT ![m + 1] = TrimZeros(@)], {})
    BY <1>0 DEF IsText, TextFields
  <2>2. ~first.open BY <1>0 DEF TextFields
  <2> QED BY <2>1, <2>2
<1>3. IsText(last, 16, words \o zeros, g) /\ last.open
  <2>1. IsText(last, 16, words \o zeros, g) BY <1>0 DEF IsText, TextFields
  <2>2. last.open BY <1>0 DEF TextFields
  <2> QED BY <2>1, <2>2
<1> HIDE DEF first, last
<1>4. g = {} /\ have > m => P = first BY <1>1
<1>5. g # {} /\ have > m => P = text BY <1>1
<1>6. ~(have > m) => P = last BY <1>1
<1> QED BY <1>2, <1>3, <1>4, <1>5, <1>6, Zenon DEF P, g, have, zeros

(* The words that MakePrefixFromNetwork adds.                              *)
Zeros(n) == [i \in 1..n |-> <<0>>]

(* The three cases one by one: enough words and no "::" among them,        *)
LEMMA PrefixTrimmed ==
  ASSUME NEW text, NEW words, NEW gaps, IsText(text, 16, words, gaps),
         NEW s, NEW m, m = s \div 16, NEW n \in Nat, n = Len(words),
         Gaps(text) = {}, n > m
  PROVE  LET P == MakePrefixFromNetwork(text, s)
         IN  /\ IsText(P, 16, [words EXCEPT ![m + 1] = TrimZeros(@)], {})
             /\ ~P.open
<1>1. Cardinality(Gaps(text)) = 0 BY FS_EmptySet
<1>2. n + 0 > m BY ONLY n > m, n \in Nat
<1> QED BY <1>1, <1>2, PrefixFields

(* a "::" that stays where it is,                                          *)
LEMMA PrefixKept ==
  ASSUME NEW text, NEW words, NEW gaps, IsText(text, 16, words, gaps),
         NEW s, NEW m, m = s \div 16, NEW n \in Nat, n = Len(words),
         NEW g, Gaps(text) = {g}, n + 1 > m
  PROVE  MakePrefixFromNetwork(text, s) = text
<1>1. Cardinality(Gaps(text)) = 1 BY FS_Singleton
<1>2. Gaps(text) # {} OBVIOUS
<1> QED BY <1>1, <1>2, PrefixFields

(* and a text that needs more words.                                       *)
LEMMA PrefixPadded ==
  ASSUME NEW text, NEW words, NEW gaps, IsText(text, 16, words, gaps),
         NEW s, NEW m, m = s \div 16, NEW n, n = Len(words),
         NEW c, c = Cardinality(Gaps(text)), ~(n + c > m)
  PROVE  LET P == MakePrefixFromNetwork(text, s)
         IN  /\ IsText(P, 16, words \o Zeros(m - (n + c)), Gaps(text))
             /\ P.open
BY PrefixFields DEF Zeros

(* TrimZeros gives digits.                                                 *)
LEMMA TrimZerosType ==
  ASSUME NEW word \in DigitSeq
  PROVE  TrimZeros(word) \in DigitSeq
<1>1. CASE TrimZeros(word) = word BY <1>1
<1>2. CASE TrimZeros(word) # word
  <2>1. Len(word) >= 2 /\ TrimZeros(word) = SubSeq(word, 1, Len(word) - 2)
    BY <1>2 DEF TrimZeros
  <2>2. Len(word) - 2 \in Nat /\ Len(word) - 2 <= Len(word) BY <2>1 DEF DigitSeq
  <2> QED BY <2>1, <2>2 DEF DigitSeq
<1> QED BY <1>1, <1>2

(* A text with another word in it.                                         *)
LEMMA WordChanged ==
  ASSUME NEW words \in TextWords, NEW i \in 1..Len(words), NEW w \in DigitSeq
  PROVE  /\ [words EXCEPT ![i] = w] \in TextWords
         /\ Len([words EXCEPT ![i] = w]) = Len(words)
BY DEF TextWords

(* Digits and a "::" added to a text, and what ParseIP makes of it.        *)
LEMMA ParseAdded ==
  ASSUME NEW text, NEW w \in TextWords, NEW gaps, NEW n, Len(w) = n,
         IsText(text, 16, w, gaps)
  PROVE  ParseIP(AddGap(text))
           = IF ShortWords(w) /\ n < 8 /\ gaps \subseteq {n}
             THEN Parsed(w) ELSE Malformed
<1>1. IsText(AddGap(text), 16, w, gaps \union {Len(w)}) /\ AddGap(text).open
  BY GapAdded
<1> QED BY <1>1, ParseGapped

(* The same of a text that ends in a separator, where the digits become a  *)
(* word,                                                                   *)
LEMMA ParseOpen ==
  ASSUME NEW text, NEW words \in TextWords, NEW gaps, NEW d \in DigitSeq,
         IsText(text, 16, words, gaps), text.open,
         NEW n \in Nat, Len(words) = n
  PROVE  /\ Append(words, d) \in TextWords /\ Len(Append(words, d)) = n + 1
         /\ ParseIP(AddGap(AddDigits(text, d)))
              = IF ShortWords(Append(words, d)) /\ n + 1 < 8
                   /\ gaps \subseteq {n + 1}
                THEN Parsed(Append(words, d)) ELSE Malformed
<1>1. Append(words, d) \in TextWords /\ Len(Append(words, d)) = n + 1
  BY DEF TextWords
<1>2. IsText(AddDigits(text, d), 16, Append(words, d), gaps) BY DigitsAdded
<1> DEFINE v == Append(words, d)
           t == AddDigits(text, d)
<1> HIDE DEF v, t
<1>3. v \in TextWords /\ Len(v) = n + 1 /\ IsText(t, 16, v, gaps)
  BY <1>1, <1>2 DEF v, t
<1>4. ParseIP(AddGap(t))
        = IF ShortWords(v) /\ n + 1 < 8 /\ gaps \subseteq {n + 1}
          THEN Parsed(v) ELSE Malformed
  BY <1>3, ParseAdded
<1> QED BY <1>1, <1>4 DEF v, t

(* A text with digits added to its last word.                              *)
Extended(words, n, d) == [words EXCEPT ![n] = words[n] \o d]

(* and of one that ends in a word, where the digits complete it.           *)
LEMMA ParseClosed ==
  ASSUME NEW text, NEW words \in TextWords, NEW gaps, NEW d \in DigitSeq,
         IsText(text, 16, words, gaps), ~text.open,
         NEW n \in Nat, Len(words) = n, n > 0
  PROVE  /\ Extended(words, n, d) \in TextWords
         /\ Len(Extended(words, n, d)) = n
         /\ ParseIP(AddGap(AddDigits(text, d)))
              = IF ShortWords(Extended(words, n, d)) /\ n < 8 /\ gaps \subseteq {n}
                THEN Parsed(Extended(words, n, d)) ELSE Malformed
<1> DEFINE x == words[n] \o d
           w == Extended(words, n, d)
<1>0. w = [words EXCEPT ![n] = x] BY DEF Extended
<1>1. w \in TextWords /\ Len(w) = n
  <2>1. n \in 1..Len(words) OBVIOUS
  <2>2. words[n] \in DigitSeq BY <2>1 DEF TextWords
  <2>3. x \in DigitSeq BY <2>2 DEF DigitSeq
  <2> HIDE DEF x, w
  <2> QED BY <1>0, <2>1, <2>3, WordChanged
<1>2. IsText(AddDigits(text, d), 16, w, gaps) BY DigitsAdded DEF Extended
<1> HIDE DEF w
<1>4. ParseIP(AddGap(AddDigits(text, d)))
        = IF ShortWords(w) /\ n < 8 /\ gaps \subseteq {n}
          THEN Parsed(w) ELSE Malformed
  BY <1>1, <1>2, ParseAdded
<1> QED BY <1>1, <1>4, Zenon DEF w

(* No address comes out when there is a "::" before the end.               *)
LEMMA MalformedClosed ==
  ASSUME NEW text, NEW words \in TextWords, NEW gaps, NEW d \in DigitSeq,
         IsText(text, 16, words, gaps), ~text.open,
         NEW n \in Nat, Len(words) = n, n > 0,
         ~(n < 8 /\ gaps \subseteq {n})
  PROVE  ParseIP(AddGap(AddDigits(text, d))) = Malformed
BY ParseClosed

(* The same for a text that ends in a separator.                           *)
LEMMA MalformedOpen ==
  ASSUME NEW text, NEW words \in TextWords, NEW gaps, NEW d \in DigitSeq,
         IsText(text, 16, words, gaps), text.open,
         NEW n \in Nat, Len(words) = n, ~(gaps \subseteq {n + 1})
  PROVE  ParseIP(AddGap(AddDigits(text, d))) = Malformed
BY ParseOpen

(* The zeros are words.                                                    *)
LEMMA ZerosFacts ==
  ASSUME NEW n \in Nat
  PROVE  Zeros(n) \in TextWords /\ Len(Zeros(n)) = n
<1>1. <<0>> \in DigitSeq BY DEF DigitSeq
<1>2. Zeros(n) \in [1..n -> DigitSeq] BY <1>1 DEF Zeros
<1>3. DOMAIN Zeros(n) = 1..n BY DEF Zeros
<1> QED BY <1>2, <1>3, SeqDef DEF TextWords

(* Words after words.                                                      *)
LEMMA Concatenated ==
  ASSUME NEW v \in TextWords, NEW w \in TextWords, NEW k \in Nat, NEW n \in Nat,
         Len(v) = k, Len(w) = n
  PROVE  v \o w \in TextWords /\ Len(v \o w) = k + n
BY DEF TextWords

(* A network without a "::" has no pod subnets.                            *)
LEMMA NoGapNoSubnets ==
  ASSUME NEW parts \in [1..8 -> Words], NEW s \in 0..127, NEW d \in DigitSeq,
         ZeroRuns(parts) = {}
  PROVE  ParseIP(AddGap(AddDigits(MakePrefixFromNetwork(IPv6Text(parts), s), d)))
           = Malformed
<1> DEFINE text == IPv6Text(parts)
           P == MakePrefixFromNetwork(text, s)
           m == s \div 16
           words == HexWords(parts, 1, 8)
           w == [words EXCEPT ![m + 1] = TrimZeros(@)]
<1>0. m \in 0..7 OBVIOUS
<1>1. IsText(text, 16, words, {}) /\ ~text.open BY IPv6TextFields
<1>2. words \in TextWords /\ Len(words) = 8
  <2>1. 8 \in 0..8 OBVIOUS
  <2> QED BY <2>1, FirstWords
<1>3. Gaps(text) = {} BY <1>1 DEF Gaps, IsText
<1> HIDE DEF words, m, text
<1>4. IsText(P, 16, w, {}) /\ ~P.open
  <2>1. 8 > m BY <1>0
  <2> QED BY <2>1, <1>1, <1>2, <1>3, PrefixTrimmed DEF m
<1>5. w \in TextWords /\ Len(w) = 8
  <2>1. m + 1 \in 1..8 BY <1>0
  <2> DEFINE k == m + 1
  <2> HIDE DEF k
  <2>2. k \in 1..Len(words) BY <2>1, <1>2 DEF k
  <2>3. words[k] \in DigitSeq
    <3>1. words \in Seq(DigitSeq) BY <1>2 DEF TextWords
    <3> QED BY <2>2, <3>1
  <2>4. TrimZeros(words[k]) \in DigitSeq BY <2>3, TrimZerosType
  <2> QED BY <1>2, <2>2, <2>4, WordChanged DEF k
<1> HIDE DEF w, P
<1>6. ParseIP(AddGap(AddDigits(P, d))) = Malformed
  <2>1. 8 > 0 /\ ~(8 < 8) OBVIOUS
  <2> QED BY <1>4, <1>5, <2>1, MalformedClosed
<1> QED BY <1>6 DEF P, text

(* Nor has one whose "::" is not at its end.                               *)
LEMMA GapInsideNoSubnets ==
  ASSUME NEW parts \in [1..8 -> Words], NEW s \in 0..127, NEW d \in DigitSeq,
         ZeroRuns(parts) # {}, LongestRun(parts)[2] # 8
  PROVE  ParseIP(AddGap(AddDigits(MakePrefixFromNetwork(IPv6Text(parts), s), d)))
           = Malformed
<1> DEFINE text == IPv6Text(parts)
           P == MakePrefixFromNetwork(text, s)
           m == s \div 16
           r == LongestRun(parts)
           w1 == HexWords(parts, 1, r[1] - 1)
           w2 == HexWords(parts, r[2] + 1, 8)
           words == w1 \o w2
           g == r[1] - 1
           n == g + (8 - r[2])
           z == Zeros(m - (n + 1))
<1>0. m \in 0..7 OBVIOUS
<1>1. r[1] \in 1..8 /\ r[2] \in 1..7 /\ r[1] < r[2]
  <2>1. r \in ZeroRuns(parts) BY LongestRunFacts
  <2> QED BY <2>1 DEF ZeroRuns
<1>2. IsText(text, 16, words, {g}) /\ ~text.open BY IPv6TextFields
<1> HIDE DEF r
<1>3. g \in 0..7 /\ n \in 1..8 /\ g < n BY <1>1
<1>4. w1 \in TextWords /\ Len(w1) = g
  <2>1. r[1] - 1 \in 0..8 BY <1>1
  <2> QED BY <2>1, FirstWords
<1>5. w2 \in TextWords /\ Len(w2) = 8 - r[2]
  <2>1. r[2] \in 0..8 BY <1>1
  <2> QED BY <2>1, LastWords
<1> HIDE DEF w1, w2, g
<1>6. words \in TextWords /\ Len(words) = n
  <2>1. g \in Nat /\ 8 - r[2] \in Nat BY <1>1, <1>3
  <2> QED BY <2>1, <1>4, <1>5, Concatenated
<1>7. Gaps(text) = {g} BY <1>2 DEF Gaps, IsText
<1>8. Cardinality(Gaps(text)) = 1 BY <1>7, FS_Singleton
<1> HIDE DEF words, m, text, n
<1>9. n \in Nat /\ n > 0 BY <1>3
<1>10. CASE n + 1 > m
  <2>1. P = text BY <1>2, <1>6, <1>7, <1>9, <1>10, PrefixKept DEF m
  <2>2. ~({g} \subseteq {n}) BY <1>3
  <2> HIDE DEF P
  <2>3. ParseIP(AddGap(AddDigits(P, d))) = Malformed
    BY <1>2, <1>6, <1>9, <2>1, <2>2, MalformedClosed
  <2> QED BY <2>3 DEF P, text
<1>11. CASE ~(n + 1 > m)
  <2>1. IsText(P, 16, words \o z, {g}) /\ P.open
    BY <1>2, <1>6, <1>7, <1>8, <1>11, PrefixPadded, ZenonT(30) DEF m
  <2>2. m - (n + 1) \in Nat BY <1>0, <1>3, <1>11
  <2> DEFINE k == m - (n + 1)
             v == words \o z
  <2>3. z \in TextWords /\ Len(z) = k BY <2>2, ZerosFacts
  <2> HIDE DEF k, P, z
  <2>4. k \in Nat BY <2>2 DEF k
  <2>5. v \in TextWords /\ Len(v) = n + k BY <1>6, <1>9, <2>3, <2>4, Concatenated
  <2> HIDE DEF v
  <2>6. IsText(P, 16, v, {g}) /\ P.open BY <2>1 DEF v
  <2> DEFINE l == n + k
  <2>7. ~({g} \subseteq {l + 1}) BY <1>3, <2>4
  <2>8. l \in Nat /\ Len(v) = l BY <1>9, <2>4, <2>5
  <2> HIDE DEF l
  <2>9. ParseIP(AddGap(AddDigits(P, d))) = Malformed
    BY <2>5, <2>6, <2>7, <2>8, MalformedOpen
  <2> QED BY <2>9 DEF P, text
<1> QED BY <1>10, <1>11

(* The host bits of an IPv6 network's parts: none before its size, all     *)
(* after it.                                                               *)
LEMMA PartsCut ==
  ASSUME NEW net, net.mode = "ipv6", net.parts \in [1..8 -> Words],
         IsCut(net), NEW s \in 0..127, net.size = s, NEW k \in 1..8
  PROVE  /\ (k - 1) * 16 >= s => net.parts[k] = 0
         /\ s - (k - 1) * 16 = 8 => net.parts[k] % 256 = 0
<1> DEFINE bits == s - (k - 1) * 16
           p == net.parts[k]
<1>1. PartBits(net) = 16 BY DEF PartBits
<1>2. p \in Nat /\ p < 65536
  <2>1. p \in Words OBVIOUS
  <2> HIDE DEF p
  <2> QED BY ONLY <2>1, WordRange
<1>3. HostBits(net, k) = CASE bits <= 0 -> 16 [] bits >= 16 -> 0
                           [] OTHER -> 16 - bits
  BY <1>1 DEF HostBits
<1>4. k \in DOMAIN net.parts OBVIOUS
<1>5. p % 2^HostBits(net, k) = 0 BY <1>4, Zenon DEF IsCut
<1> HIDE DEF p
<1>6. ASSUME bits <= 0 PROVE p = 0
  <2>1. HostBits(net, k) = 16 BY <1>3, <1>6
  <2>2. p % 2^16 = 0 BY <1>5, <2>1
  <2>3. p % 65536 = 0 BY <2>2
  <2> QED BY ONLY <1>2, <2>3
<1>7. ASSUME bits = 8 PROVE p % 256 = 0
  <2>1. HostBits(net, k) = 8 BY <1>3, <1>7
  <2>2. p % 2^8 = 0 BY <1>5, <2>1
  <2> QED BY <2>2
<1>8. (k - 1) * 16 >= s => bits <= 0 OBVIOUS
<1> QED BY <1>6, <1>7, <1>8 DEF p

(* The "::" at the end of a network's text stands for its parts from some  *)
(* place on, at the latest two after the network's size.                   *)
LEMMA TrailingRun ==
  ASSUME NEW net, net.mode = "ipv6", net.parts \in [1..8 -> Words],
         IsCut(net), NEW s \in 0..127, net.size = s, NEW m \in 0..7,
         m = s \div 16, ZeroRuns(net.parts) # {},
         LongestRun(net.parts)[2] = 8
  PROVE  /\ LongestRun(net.parts)[1] \in 1..7
         /\ LongestRun(net.parts)[1] <= m + 2
         /\ \A k \in LongestRun(net.parts)[1]..8 : net.parts[k] = 0
         /\ (net.parts[m + 1] = 0) <=> (LongestRun(net.parts)[1] <= m + 1)
<1> DEFINE r == LongestRun(net.parts)
           parts == net.parts
<1>1. r \in ZeroRuns(parts)
      /\ \A z \in ZeroRuns(parts) : z[2] - z[1] <= r[2] - r[1]
  BY LongestRunFacts
<1>2. r[1] \in 1..7 /\ r[2] = 8 /\ \A k \in r[1]..8 : parts[k] = 0
  BY <1>1 DEF ZeroRuns
<1> HIDE DEF r
<1>3. ASSUME r[1] > 1 PROVE parts[r[1] - 1] # 0
  <2> SUFFICES ASSUME parts[r[1] - 1] = 0 PROVE FALSE OBVIOUS
  <2> DEFINE z == <<r[1] - 1, 8>>
  <2>1. \A k \in (r[1] - 1)..8 : parts[k] = 0 BY <1>2
  <2>2. z \in ZeroRuns(parts) BY <1>2, <1>3, <2>1 DEF ZeroRuns
  <2>3. z[2] - z[1] <= r[2] - r[1] BY <1>1, <2>2
  <2> QED BY <1>2, <2>3
<1>4. \A k \in 1..8 : k >= m + 2 => parts[k] = 0
  <2> TAKE k \in 1..8
  <2>1. k >= m + 2 => (k - 1) * 16 >= s OBVIOUS
  <2> QED BY <2>1, PartsCut, SMTT(60)
<1> HIDE DEF parts
<1>5. r[1] <= m + 2
  <2> SUFFICES ASSUME r[1] > m + 2 PROVE FALSE BY <1>2
  <2>1. r[1] > 1 /\ r[1] - 1 \in 1..8 /\ r[1] - 1 >= m + 2 BY <1>2
  <2> QED BY <1>3, <1>4, <2>1
<1>6. (parts[m + 1] = 0) <=> (r[1] <= m + 1)
  <2>1. ASSUME r[1] <= m + 1 PROVE parts[m + 1] = 0 BY <1>2, <2>1
  <2>2. ASSUME ~(r[1] <= m + 1) PROVE parts[m + 1] # 0
    <3>1. r[1] = m + 2 BY <1>2, <1>5, <2>2
    <3>2. r[1] > 1 /\ r[1] - 1 = m + 1 BY <3>1
    <3> QED BY <1>3, <3>2
  <2> QED BY <2>1, <2>2
<1> QED BY <1>2, <1>5, <1>6 DEF r, parts

(* The digits of a part that stay when the lower byte makes room.          *)
Lead(p) == IF p = 0 THEN <<>> ELSE TrimZeros(Hex(p))

(* They are digits.                                                        *)
LEMMA LeadType ==
  ASSUME NEW p \in Words
  PROVE  Lead(p) \in DigitSeq
<1>1. CASE p = 0 BY <1>1 DEF Lead, DigitSeq
<1>2. CASE p # 0
  <2>1. Hex(p) \in DigitSeq BY WordFacts DEF DigitSeq
  <2> QED BY <1>2, <2>1, TrimZerosType DEF Lead
<1> QED BY <1>1, <1>2

(* There are no words after the last one.                                  *)
LEMMA NoLastWords ==
  ASSUME NEW parts
  PROVE  HexWords(parts, 8 + 1, 8) = <<>>
<1>1. 8 - (8 + 1) + 1 = 0 OBVIOUS
<1>2. HexWords(parts, 8 + 1, 8)
        = [i \in 1..(8 - (8 + 1) + 1) |-> Hex(parts[8 + 1 + i - 1])]
  BY Zenon DEF HexWords
<1>3. 1..(8 - (8 + 1) + 1) = {} BY <1>1
<1> QED BY <1>2, <1>3

(* The words of the parts before a gap, and zeros for those in it.         *)
LEMMA PaddedWords ==
  ASSUME NEW parts \in [1..8 -> Words], NEW g \in 0..7, NEW m \in 0..7, g <= m,
         \A k \in (g + 1)..8 : parts[k] = 0
  PROVE  HexWords(parts, 1, g) \o Zeros(m - g) = HexWords(parts, 1, m)
<1> DEFINE v == HexWords(parts, 1, g)
           w == HexWords(parts, 1, m)
           z == Zeros(m - g)
<1>0. g \in 0..8 /\ m \in 0..8 OBVIOUS
<1>1. v \in TextWords /\ Len(v) = g /\ \A i \in 1..g : v[i] = Hex(parts[i])
  BY <1>0, FirstWords
<1>2. w \in TextWords /\ Len(w) = m /\ \A i \in 1..m : w[i] = Hex(parts[i])
  BY <1>0, FirstWords
<1>3. z \in TextWords /\ Len(z) = m - g
  <2>1. m - g \in Nat OBVIOUS
  <2> QED BY <2>1, ZerosFacts
<1>4. \A i \in 1..(m - g) : z[i] = <<0>> BY DEF Zeros
<1>5. Hex(0) = <<0>>
  <2>1. 16 \in Bases /\ 0 \in Nat /\ 0 < 16 BY DEF Bases
  <2> QED BY <2>1, DigitsUnfold DEF Hex
<1> HIDE DEF v, w, z
<1>6. ASSUME NEW i \in 1..m PROVE (v \o z)[i] = w[i]
  <2>1. CASE i <= g
    <3>1. i \in 1..g BY <2>1
    <3>2. (v \o z)[i] = v[i] BY <1>1, <1>3, <3>1 DEF TextWords
    <3> QED BY <3>1, <3>2, <1>1, <1>2
  <2>2. CASE ~(i <= g)
    <3>1. i - g \in 1..(m - g) /\ i \in (g + 1)..8 BY <2>2
    <3>2. (v \o z)[i] = z[i - g] BY <1>1, <1>3, <3>1, SMTT(30) DEF TextWords
    <3>3. parts[i] = 0 BY <3>1
    <3> QED BY <3>1, <3>2, <3>3, <1>2, <1>4, <1>5
  <2> QED BY <2>1, <2>2
<1>7. v \o z \in TextWords /\ Len(v \o z) = m
  BY <1>1, <1>3 DEF TextWords
<1> DEFINE u == v \o z
<1> HIDE DEF u
<1>8. u = w
  <2>1. u \in TextWords /\ Len(u) = m /\ \A i \in 1..m : u[i] = w[i]
    BY <1>6, <1>7 DEF u
  <2>2. u \in Seq(DigitSeq) /\ w \in Seq(DigitSeq) /\ Len(u) = Len(w)
    BY <1>2, <2>1 DEF TextWords
  <2>3. \A i \in 1..Len(u) : u[i] = w[i] BY <2>1
  <2> QED BY <2>2, <2>3, SeqEqual
<1> QED BY <1>8 DEF u, v, w, z

(* Another last word, and the words before it with that word added.        *)
LEMMA LastChanged ==
  ASSUME NEW words \in TextWords, NEW w \in TextWords, NEW m \in Nat,
         Len(words) = m + 1, Len(w) = m, \A i \in 1..m : words[i] = w[i],
         NEW x \in DigitSeq
  PROVE  [words EXCEPT ![m + 1] = x] = Append(w, x)
<1> DEFINE u == [words EXCEPT ![m + 1] = x]
           v == Append(w, x)
<1>1. u \in Seq(DigitSeq) /\ Len(u) = m + 1
  <2>1. m + 1 \in 1..Len(words) OBVIOUS
  <2> QED BY <2>1, WordChanged DEF TextWords
<1>2. v \in Seq(DigitSeq) /\ Len(v) = m + 1 BY DEF TextWords
<1>3. ASSUME NEW i \in 1..(m + 1) PROVE u[i] = v[i]
  <2>0. DOMAIN words = 1..(m + 1) BY DEF TextWords
  <2>1. CASE i = m + 1 BY <2>0, <2>1 DEF TextWords
  <2>2. CASE i # m + 1
    <3>1. i \in 1..m BY <2>2
    <3>2. u[i] = words[i] BY <2>0, <2>2
    <3>3. v[i] = w[i] BY <3>1 DEF TextWords
    <3> QED BY <3>1, <3>2, <3>3
  <2> QED BY <2>1, <2>2
<1> HIDE DEF u, v
<1>4. u = v
  <2>1. Len(u) = Len(v) /\ \A i \in 1..Len(u) : u[i] = v[i]
    BY <1>1, <1>2, <1>3
  <2> QED BY <1>1, <1>2, <2>1, SeqEqual
<1> QED BY <1>4 DEF u, v

(* A network whose "::" is at its end: the words up to its size, each as   *)
(* it is, and what stays of the part that the node's id goes to.           *)
LEMMA PlainPrefix ==
  ASSUME NEW net, net.mode = "ipv6", net.parts \in [1..8 -> Words],
         IsCut(net), NEW s \in 0..127, net.size = s, NEW m \in 0..7,
         m = s \div 16, ZeroRuns(net.parts) # {},
         LongestRun(net.parts)[2] = 8
  PROVE  LET P == MakePrefixFromNetwork(IPv6Text(net.parts), s)
             w == HexWords(net.parts, 1, m)
             p == net.parts[m + 1]
         IN  /\ p = 0 => IsText(P, 16, w, {}) /\ P.open
             /\ p # 0 => IsText(P, 16, Append(w, Lead(p)), {}) /\ ~P.open
<1> DEFINE parts == net.parts
           text == IPv6Text(parts)
           P == MakePrefixFromNetwork(text, s)
           w == HexWords(parts, 1, m)
           p == parts[m + 1]
           r == LongestRun(parts)
           g == r[1] - 1
           words == HexWords(parts, 1, g)
<1>1. /\ r[1] \in 1..7 /\ r[1] <= m + 2 /\ \A k \in r[1]..8 : parts[k] = 0
      /\ (p = 0) <=> (r[1] <= m + 1)
  BY TrailingRun
<1>2. g \in 0..6 /\ g <= m + 1 /\ ((p = 0) <=> (g <= m))
      /\ \A k \in (g + 1)..8 : parts[k] = 0
  <2> HIDE DEF r, p
  <2>1. g \in 0..6 /\ g <= m + 1 /\ ((p = 0) <=> (g <= m)) BY <1>1
  <2>2. g + 1 = r[1] BY <1>1
  <2> QED BY <1>1, <2>1, <2>2
<1>3. words \in TextWords /\ Len(words) = g
  <2>1. g \in 0..8 BY <1>2
  <2> QED BY <2>1, FirstWords
<1>4. IsText(text, 16, words, {g}) /\ text.open
  <2>1. /\ IsText(text, 16, words \o HexWords(parts, r[2] + 1, 8), {g})
        /\ text.open
    BY IPv6TextFields
  <2>2. HexWords(parts, r[2] + 1, 8) = <<>> BY NoLastWords
  <2>3. words \o <<>> = words BY <1>3 DEF TextWords
  <2> QED BY <2>1, <2>2, <2>3
<1>5. Gaps(text) = {} BY <1>4 DEF Gaps
<1>6. Cardinality(Gaps(text)) = 0 BY <1>5, FS_EmptySet
<1> HIDE DEF text, words, r
<1>7. CASE p = 0
  <2>1. g <= m /\ g + 0 = g BY <1>2, <1>7
  <2> DEFINE c == Cardinality(Gaps(text))
  <2>2. ~(g + c > m) /\ g + c = g BY <1>2, <1>6, <2>1
  <2> HIDE DEF c, g
  <2>3. IsText(P, 16, words \o Zeros(m - (g + c)), {}) /\ P.open
    <3>1. c = Cardinality(Gaps(text)) /\ Len(words) = g BY <1>3 DEF c
    <3> HIDE DEF w, p, parts
    <3>2. IsText(text, 16, words, {g}) BY <1>4
    <3>3. /\ IsText(P, 16, words \o Zeros(m - (g + c)), Gaps(text))
          /\ P.open
      BY ONLY <2>2, <3>1, <3>2, m = s \div 16, PrefixPadded
    <3> QED BY <1>5, <3>3
  <2>4. words \o Zeros(m - g) = w
    <3>1. g \in 0..7 BY <1>2
    <3> QED BY <1>2, <2>1, <3>1, PaddedWords DEF words
  <2> HIDE DEF P, w, p
  <2>5. IsText(P, 16, w, {}) /\ P.open BY <2>2, <2>3, <2>4
  <2> QED BY <1>7, <2>5 DEF P, w, p, text
<1>8. CASE p # 0
  <2>1. g = m + 1 /\ g \in Nat /\ g > m BY <1>2, <1>8
  <2>2. IsText(P, 16, [words EXCEPT ![m + 1] = TrimZeros(@)], {}) /\ ~P.open
    BY <1>3, <1>4, <1>5, <2>1, PrefixTrimmed
  <2>3. [words EXCEPT ![m + 1] = TrimZeros(@)] = Append(w, Lead(p))
    <3>1. w \in TextWords /\ Len(w) = m /\ \A i \in 1..m : w[i] = Hex(parts[i])
      <4>1. m \in 0..8 OBVIOUS
      <4> QED BY <4>1, FirstWords
    <3>2. /\ Len(words) = m + 1
          /\ \A i \in 1..(m + 1) : words[i] = Hex(parts[i])
      <4>1. g \in 0..8 BY <1>2
      <4>2. Len(words) = g /\ \A i \in 1..g : words[i] = Hex(parts[i])
        BY <4>1, FirstWords DEF words
      <4> HIDE DEF g
      <4> QED BY <2>1, <4>2
    <3>3. words[m + 1] = Hex(p) BY <3>2
    <3>4. Lead(p) = TrimZeros(Hex(p)) BY <1>8 DEF Lead
    <3> HIDE DEF w, p, g
    <3>5. \A i \in 1..m : words[i] = w[i] BY <3>1, <3>2
    <3> DEFINE x == TrimZeros(Hex(p))
    <3>6. x \in DigitSeq
      <4>1. p \in Words BY DEF p
      <4> QED BY <4>1, WordFacts, TrimZerosType DEF DigitSeq
    <3> HIDE DEF x
    <3>7. [words EXCEPT ![m + 1] = x] = Append(w, x)
      BY <1>3, <3>1, <3>2, <3>5, <3>6, LastChanged
    <3> QED BY <3>3, <3>4, <3>7 DEF x
  <2> HIDE DEF P, w, p, g
  <2>4. IsText(P, 16, Append(w, Lead(p)), {}) /\ ~P.open BY <2>2, <2>3
  <2> QED BY <1>8, <2>4 DEF P, w, p, text
<1> QED BY <1>7, <1>8

(* The first parts of a network, a word of its own, and zeros.             *)
SubnetParts(parts, m, word) ==
  [i \in 1..8 |-> IF i <= m THEN parts[i]
                  ELSE IF i = m + 1 THEN Number(word, 16) ELSE 0]

(* These are the parts of the network's words with one more.               *)
LEMMA SubnetWords ==
  ASSUME NEW parts \in [1..8 -> Words], NEW m \in 0..7, NEW x \in DigitSeq
  PROVE  LET w == HexWords(parts, 1, m)
         IN  /\ ShortWords(Append(w, x)) <=> ~(Len(x) > 4)
             /\ Parsed(Append(w, x)) = SubnetParts(parts, m, x)
<1> DEFINE w == HexWords(parts, 1, m)
           v == Append(w, x)
<1>1. w \in TextWords /\ Len(w) = m /\ \A i \in 1..m : w[i] = Hex(parts[i])
  <2>1. m \in 0..8 OBVIOUS
  <2> QED BY <2>1, FirstWords
<1> HIDE DEF w
<1>2. Len(v) = m + 1 /\ DOMAIN v = 1..(m + 1) /\ v[m + 1] = x
  BY <1>1 DEF TextWords
<1>3. \A i \in 1..m : v[i] = w[i] BY <1>1 DEF TextWords
<1> HIDE DEF v
<1>4. ASSUME NEW i \in 1..m
      PROVE  ~(Len(v[i]) > 4) /\ Number(v[i], 16) = parts[i]
  <2>1. parts[i] \in Words OBVIOUS
  <2>2. v[i] = Hex(parts[i]) BY <1>1, <1>3
  <2> QED BY <2>1, <2>2, WordFacts
<1>5. ShortWords(v) <=> ~(Len(x) > 4)
  <2>1. ASSUME ~(Len(x) > 4), NEW i \in 1..(m + 1) PROVE ~(Len(v[i]) > 4)
    <3>1. i \in 1..m \/ i = m + 1 OBVIOUS
    <3> QED BY <1>2, <1>4, <2>1, <3>1
  <2>2. m + 1 \in 1..(m + 1) OBVIOUS
  <2> QED BY <1>2, <2>1, <2>2 DEF ShortWords
<1>6. Parsed(v) = SubnetParts(parts, m, x)
  <2>1. ASSUME NEW i \in 1..8
        PROVE  (IF i <= Len(v) THEN Number(v[i], 16) ELSE 0)
                 = IF i <= m THEN parts[i]
                   ELSE IF i = m + 1 THEN Number(x, 16) ELSE 0
    <3>1. CASE i <= m
      <4>1. i \in 1..m /\ i <= m + 1 BY <3>1
      <4> QED BY <1>2, <1>4, <3>1, <4>1
    <3>2. CASE i = m + 1
      <4>1. i <= m + 1 /\ ~(i <= m) BY <3>2
      <4> QED BY <1>2, <3>2, <4>1
    <3>3. CASE i > m + 1
      <4>1. ~(i <= m + 1) /\ ~(i <= m) /\ i # m + 1 BY <3>3
      <4> QED BY <1>2, <4>1
    <3> QED BY <3>1, <3>2, <3>3
  <2> QED BY <2>1 DEF Parsed, SubnetParts
<1> QED BY <1>5, <1>6 DEF v, w

(* The pod subnet that comes from a text with its "::" at the end.         *)
LEMMA PlainSubnet ==
  ASSUME NEW net, net.mode = "ipv6", net.parts \in [1..8 -> Words],
         IsCut(net), NEW s \in 0..127, net.size = s, NEW m \in 0..7,
         m = s \div 16, ZeroRuns(net.parts) # {},
         LongestRun(net.parts)[2] = 8, NEW d \in DigitSeq,
         NEW x, x = Lead(net.parts[m + 1]) \o d
  PROVE  ParseIP(AddGap(AddDigits(
                   MakePrefixFromNetwork(IPv6Text(net.parts), s), d)))
           = IF ~(Len(x) > 4) /\ m < 7 THEN SubnetParts(net.parts, m, x)
             ELSE Malformed
<1> DEFINE parts == net.parts
           P == MakePrefixFromNetwork(IPv6Text(parts), s)
           w == HexWords(parts, 1, m)
           p == parts[m + 1]
<1>1. /\ p = 0 => IsText(P, 16, w, {}) /\ P.open
      /\ p # 0 => IsText(P, 16, Append(w, Lead(p)), {}) /\ ~P.open
  BY PlainPrefix, ZenonT(40)
<1>2. w \in TextWords /\ Len(w) = m
  <2>1. m \in 0..8 OBVIOUS
  <2> QED BY <2>1, FirstWords
<1>3. p \in Words
  <2>1. m + 1 \in 1..8 OBVIOUS
  <2> QED BY <2>1
<1>4. Lead(p) \in DigitSeq BY <1>3, LeadType
<1>5. x = Lead(p) \o d BY DEF p
<1> HIDE DEF P, w, p
<1>6. x \in DigitSeq BY <1>4, <1>5 DEF DigitSeq
<1>7. /\ ShortWords(Append(w, x)) <=> ~(Len(x) > 4)
      /\ Parsed(Append(w, x)) = SubnetParts(parts, m, x)
  BY <1>6, SubnetWords DEF w
<1>8. m \in Nat /\ m + 1 \in Nat /\ m + 1 > 0 /\ (m + 1 < 8 <=> m < 7) OBVIOUS
<1>9. CASE p = 0
  <2>1. x = d BY <1>5, <1>9 DEF Lead, DigitSeq
  <2>2. ParseIP(AddGap(AddDigits(P, d)))
          = IF ShortWords(Append(w, d)) /\ m + 1 < 8 /\ {} \subseteq {m + 1}
            THEN Parsed(Append(w, d)) ELSE Malformed
    BY <1>1, <1>2, <1>8, <1>9, ParseOpen
  <2> QED BY <2>1, <2>2, <1>7, <1>8 DEF P
<1>10. CASE p # 0
  <2> DEFINE v == Append(w, Lead(p))
  <2>1. /\ v \in TextWords /\ Len(v) = m + 1 /\ v[m + 1] = Lead(p)
        /\ \A i \in 1..m : v[i] = w[i]
    BY <1>2, <1>4 DEF TextWords
  <2> HIDE DEF v
  <2>2. Extended(v, m + 1, d) = [v EXCEPT ![m + 1] = x]
    BY <1>5, <2>1 DEF Extended
  <2>3. Extended(v, m + 1, d) = Append(w, x)
    <3>1. [v EXCEPT ![m + 1] = x] = Append(w, x)
      BY <1>2, <1>6, <1>8, <2>1, LastChanged
    <3> QED BY <2>2, <3>1
  <2> DEFINE n == m + 1
  <2>4. n \in Nat /\ n > 0 /\ Len(v) = n BY <1>8, <2>1
  <2> HIDE DEF n
  <2>5. ParseIP(AddGap(AddDigits(P, d)))
          = IF ShortWords(Extended(v, n, d)) /\ n < 8 /\ {} \subseteq {n}
            THEN Parsed(Extended(v, n, d)) ELSE Malformed
    <3>1. IsText(P, 16, v, {}) /\ ~P.open BY <1>1, <1>10 DEF v
    <3> QED BY ONLY <2>1, <2>4, <3>1, d \in DigitSeq, ParseClosed
  <2>6. Extended(v, n, d) = Append(w, x) /\ (n < 8 <=> m < 7)
    BY <1>8, <2>3 DEF n
  <2> QED BY <2>5, <2>6, <1>7 DEF P
<1> QED BY <1>9, <1>10

(* The digits that BuildPodSubnetPrefix adds to an IPv6 prefix.            *)
NodeDigits(size, open, id) ==
  CASE size % 16 # 0 -> Hex(id * 256)
    [] size % 16 = 0 /\ ~open /\ id < 16 -> <<0, id>>
    [] OTHER -> Hex(id)

(* A digit after a zero.                                                   *)
LEMMA LastDigit ==
  ASSUME NEW id \in Nat
  PROVE  Append(<<0>>, id) = <<0, id>>
<1> DEFINE v == Append(<<0>>, id)
           w == <<0, id>>
<1>1. v \in Seq(Nat) /\ Len(v) = 2 /\ v[1] = 0 /\ v[2] = id OBVIOUS
<1>2. w \in Seq(Nat) /\ Len(w) = 2 /\ w[1] = 0 /\ w[2] = id OBVIOUS
<1> HIDE DEF v, w
<1>3. \A i \in 1..Len(v) : v[i] = w[i] BY <1>1, <1>2
<1>4. v = w BY <1>1, <1>2, <1>3, SeqEqual
<1> QED BY <1>4 DEF v, w

(* An id of one digit with a zero before it.                               *)
LEMMA TwoDigits ==
  ASSUME NEW id \in Nat, id < 16
  PROVE  /\ <<0, id>> \in DigitSeq /\ Len(<<0, id>>) = 2
         /\ Number(<<0, id>>, 16) = id
<1>0. 16 \in Bases BY DEF Bases
<1>1. <<>> \in Seq(Nat) /\ <<0>> \in Seq(Nat) /\ 0 \in Nat OBVIOUS
<1>2. Number(<<>>, 16) = 0 /\ Number(Append(<<>>, 0), 16) = Number(<<>>, 16) * 16 + 0
  BY <1>0, <1>1, NumberUnfold
<1>3. Append(<<>>, 0) = <<0>> /\ Append(<<0>>, id) = <<0, id>>
  <2>1. Append(<<>>, 0) = <<0>> OBVIOUS
  <2> QED BY <2>1, LastDigit
<1>4. Number(<<0>>, 16) = 0 BY <1>2, <1>3
<1>5. Number(Append(<<0>>, id), 16) = Number(<<0>>, 16) * 16 + id
  BY <1>0, <1>1, NumberUnfold
<1>6. Number(<<0, id>>, 16) = id
  <2>1. Number(Append(<<0>>, id), 16) = 0 * 16 + id BY <1>4, <1>5
  <2>2. 0 * 16 + id = id OBVIOUS
  <2> QED BY <1>3, <2>1, <2>2, Zenon
<1>7. <<0, id>> \in DigitSeq /\ Len(<<0, id>>) = 2 BY DEF DigitSeq
<1> QED BY <1>6, <1>7

(* What they are worth.                                                    *)
LEMMA NodeDigitsFacts ==
  ASSUME NEW size \in Nat, NEW open, NEW id \in Nat
  PROVE  /\ NodeDigits(size, open, id) \in DigitSeq
         /\ Len(NodeDigits(size, open, id)) \in Nat \ {0}
         /\ Number(NodeDigits(size, open, id), 16)
              = IF size % 16 # 0 THEN id * 256 ELSE id
<1>0. id * 256 \in Nat OBVIOUS
<1>1. CASE size % 16 # 0
  <2>1. NodeDigits(size, open, id) = Hex(id * 256) BY <1>1 DEF NodeDigits
  <2> QED BY <1>0, <1>1, <2>1, HexLength, HexNumber DEF DigitSeq
<1>2. CASE size % 16 = 0 /\ ~open /\ id < 16
  <2>1. NodeDigits(size, open, id) = <<0, id>> BY <1>2 DEF NodeDigits
  <2> QED BY <1>2, <2>1, TwoDigits
<1>3. CASE size % 16 = 0 /\ ~(~open /\ id < 16)
  <2>1. NodeDigits(size, open, id) = Hex(id) BY <1>3 DEF NodeDigits
  <2> QED BY <1>3, <2>1, HexLength, HexNumber DEF DigitSeq
<1> QED BY <1>1, <1>2, <1>3

(* A number has no more digits than a greater one: the arithmetic, for     *)
(* numbers of up to four digits, and what it means for Hex.                *)
LEMMA Lengths ==
  ASSUME NEW i \in Nat, NEW j \in Nat, i < j,
         NEW k \in Nat \ {0}, NEW l \in Nat \ {0}, l <= 4,
         i < 16 => k <= 1, i < 256 => k <= 2, i < 4096 => k <= 3,
         i < 65536 => k <= 4,
         l <= 1 => j < 16, l <= 2 => j < 256, l <= 3 => j < 4096,
         l <= 4 => j < 65536
  PROVE  k <= l
  OBVIOUS

(* Hex gives no more digits for a number than for a greater one.           *)
LEMMA HexGrows ==
  ASSUME NEW i \in Nat, NEW j \in Nat, i < j, Len(Hex(j)) <= 4
  PROVE  Len(Hex(i)) <= Len(Hex(j))
<1>0. ASSUME NEW n \in Nat
      PROVE  /\ Len(Hex(n)) \in Nat \ {0}
             /\ (n < 16) <=> (Len(Hex(n)) = 1)
             /\ (n < 256) <=> (Len(Hex(n)) <= 2)
             /\ (n < 4096) <=> (Len(Hex(n)) <= 3)
             /\ (n < 65536) <=> (Len(Hex(n)) <= 4)
  BY HexLength
<1> DEFINE k == Len(Hex(i))
           l == Len(Hex(j))
<1>1. /\ k \in Nat \ {0}
      /\ (i < 16) <=> (k = 1)
      /\ (i < 256) <=> (k <= 2)
      /\ (i < 4096) <=> (k <= 3)
      /\ (i < 65536) <=> (k <= 4)
  BY ONLY i \in Nat, <1>0
<1>2. /\ l \in Nat \ {0}
      /\ (j < 16) <=> (l = 1)
      /\ (j < 256) <=> (l <= 2)
      /\ (j < 4096) <=> (l <= 3)
      /\ (j < 65536) <=> (l <= 4)
  BY ONLY j \in Nat, <1>0
<1>3. l <= 4 OBVIOUS
<1> HIDE DEF k, l
<1>4. (i < 16 => k <= 1) /\ (l <= 1 => j < 16) BY ONLY <1>1, <1>2
<1>5. k <= l
  BY ONLY i \in Nat, j \in Nat, i < j, <1>1, <1>2, <1>3, <1>4, Lengths
<1> QED BY <1>5 DEF k, l

(* The same of the digits that are added for a node.                       *)
LEMMA NodeDigitsGrow ==
  ASSUME NEW size \in Nat, NEW open, NEW i \in Nat, NEW j \in Nat, i < j,
         Len(NodeDigits(size, open, j)) <= 4
  PROVE  Len(NodeDigits(size, open, i)) <= Len(NodeDigits(size, open, j))
<1>1. CASE size % 16 # 0
  <2>1. /\ NodeDigits(size, open, i) = Hex(i * 256)
        /\ NodeDigits(size, open, j) = Hex(j * 256)
    BY <1>1 DEF NodeDigits
  <2>2. i * 256 \in Nat /\ j * 256 \in Nat /\ i * 256 < j * 256 OBVIOUS
  <2> QED BY <2>1, <2>2, HexGrows
<1>2. CASE size % 16 = 0 /\ ~(~open /\ i < 16)
  <2>1. /\ NodeDigits(size, open, i) = Hex(i)
        /\ NodeDigits(size, open, j) = Hex(j)
    BY <1>2 DEF NodeDigits
  <2> QED BY <2>1, HexGrows
<1>3. CASE size % 16 = 0 /\ ~open /\ i < 16
  <2>1. Len(NodeDigits(size, open, i)) = 2 BY <1>3, TwoDigits DEF NodeDigits
  <2>2. CASE j < 16
    <3>1. Len(NodeDigits(size, open, j)) = 2
      BY <1>3, <2>2, TwoDigits DEF NodeDigits
    <3> QED BY <2>1, <3>1
  <2>3. CASE ~(j < 16)
    <3>1. NodeDigits(size, open, j) = Hex(j) BY <1>3, <2>3 DEF NodeDigits
    <3>2. Len(Hex(j)) \in Nat \ {0} /\ Len(Hex(j)) # 1 BY <2>3, HexLength
    <3> DEFINE l == Len(Hex(j))
    <3>3. l \in Nat \ {0} /\ l # 1 BY <3>2
    <3>4. Len(NodeDigits(size, open, j)) = l BY <3>1
    <3> HIDE DEF l
    <3>5. 2 <= l BY ONLY <3>3
    <3> QED BY ONLY <2>1, <3>4, <3>5
  <2> QED BY <2>2, <2>3
<1> QED BY <1>1, <1>2, <1>3

(* Words with a common start differ by as much as their ends: the          *)
(* arithmetic, and what it means for Number.                               *)
LEMMA Values ==
  ASSUME NEW N \in Nat, NEW x \in Nat, NEW y \in Nat, NEW X, NEW Y,
         NEW k \in 1..4, NEW l \in 1..4, k <= l,
         k = 1 => X = N * 16 + x, k = 2 => X = N * 256 + x,
         k = 3 => X = N * 4096 + x, k = 4 => X = N * 65536 + x,
         l = 1 => Y = N * 16 + y, l = 2 => Y = N * 256 + y,
         l = 3 => Y = N * 4096 + y, l = 4 => Y = N * 65536 + y
  PROVE  x + (Y - X) >= y
<1>1. CASE l = 1 BY <1>1
<1>2. CASE l = 2 BY <1>2
<1>3. CASE l = 3 BY <1>3
<1>4. CASE l = 4 BY <1>4
<1> QED BY <1>1, <1>2, <1>3, <1>4

(* Words with a common start differ by as much as their ends.              *)
LEMMA WordsApart ==
  ASSUME NEW u \in DigitSeq, NEW d \in DigitSeq, NEW e \in DigitSeq,
         Len(d) \in Nat \ {0}, Len(d) <= Len(e), Len(e) <= 4
  PROVE  Number(d, 16) + (Number(u \o e, 16) - Number(u \o d, 16))
           >= Number(e, 16)
<1> DEFINE N == Number(u, 16)
           x == Number(d, 16)
           y == Number(e, 16)
           X == Number(u \o d, 16)
           Y == Number(u \o e, 16)
           k == Len(d)
           l == Len(e)
<1>1. u \in Seq(Nat) /\ d \in Seq(Nat) /\ e \in Seq(Nat) BY DEF DigitSeq
<1>2. /\ N \in Nat /\ x \in Nat
      /\ k = 1 => X = N * 16 + x
      /\ k = 2 => X = N * 256 + x
      /\ k = 3 => X = N * 4096 + x
      /\ k = 4 => X = N * 65536 + x
  BY <1>1, ConcatNumber
<1>3. /\ y \in Nat
      /\ l = 1 => Y = N * 16 + y
      /\ l = 2 => Y = N * 256 + y
      /\ l = 3 => Y = N * 4096 + y
      /\ l = 4 => Y = N * 65536 + y
  BY <1>1, ConcatNumber
<1>4. k \in 1..4 /\ l \in 1..4 /\ k <= l
  <2>1. l \in Nat BY <1>1
  <2>2. k \in Nat \ {0} /\ k <= l /\ l <= 4 OBVIOUS
  <2> HIDE DEF k, l
  <2> QED BY ONLY <2>1, <2>2
<1> HIDE DEF N, x, y, X, Y, k, l
<1>5. x + (Y - X) >= y BY ONLY <1>2, <1>3, <1>4, Values
<1> QED BY <1>5 DEF x, y, X, Y

(* The fields that are derived from an IPv6 pod network.                   *)
LEMMA PodNetFields ==
  ASSUME NEW net, net.mode = "ipv6"
  PROVE  /\ PodNetInfo(net).mode = "ipv6"
         /\ PodNetInfo(net).size = net.size + 8
         /\ PodNetInfo(net).prefix
              = MakePrefixFromNetwork(IPv6Text(net.parts), net.size)
<1> DEFINE info == NetInfo(net)
           P == MakePrefixFromNetwork(info.prefix, info.size)
<1>1. net # NoNet BY DEF NoNet
<1>2. info = [prefix |-> IPv6Text(net.parts), size |-> net.size, mode |-> net.mode]
  BY <1>1 DEF NetInfo
<1>3. PodNetInfo(net) = [info EXCEPT !.size = @ + 8, !.prefix = P]
  BY <1>1, Zenon DEF PodNetInfo
<1>4. /\ info.mode = "ipv6" /\ info.size = net.size
      /\ info.prefix = IPv6Text(net.parts)
      /\ DOMAIN info = {"prefix", "size", "mode"}
  BY <1>2
<1>5. P = MakePrefixFromNetwork(IPv6Text(net.parts), net.size) BY <1>4
<1> HIDE DEF info, P
<1> QED BY <1>3, <1>4, <1>5

(* The text of an IPv6 pod subnet.                                         *)
SubnetText(net, id) ==
  AddGap(AddDigits(MakePrefixFromNetwork(IPv6Text(net.parts), net.size),
                   NodeDigits(net.size + 8, PodNetInfo(net).prefix.open, id)))

LEMMA IPv6SubnetText ==
  ASSUME NEW net, net.mode = "ipv6", NEW id
  PROVE  PodSubnet(PodNetInfo(net), id)
           = IF ParseIP(SubnetText(net, id)) = Malformed \/ net.size + 8 > 128
             THEN NoNet
             ELSE [mode |-> "ipv6", parts |-> ParseIP(SubnetText(net, id)),
                   size |-> net.size + 8]
<1> DEFINE info == PodNetInfo(net)
           s == net.size
           P == MakePrefixFromNetwork(IPv6Text(net.parts), s)
           t == SubnetText(net, id)
<1>1. info.mode = "ipv6" /\ info.size = s + 8 /\ info.prefix = P
  BY PodNetFields
<1>2. BuildPodSubnetPrefix(info, id) = t
  <2>1. info.mode # "ipv4" BY <1>1
  <2>2. BuildPodSubnetPrefix(info, id)
          = AddGap(AddDigits(info.prefix,
                             NodeDigits(info.size, info.prefix.open, id)))
    BY <2>1, Zenon DEF BuildPodSubnetPrefix, NodeDigits
  <2> QED BY <1>1, <2>2 DEF SubnetText
<1>3. Suffixed(info, t) = t BY <1>1 DEF Suffixed
<1> HIDE DEF info, t
<1>4. PodSubnet(info, id)
        = IF ParseIP(t) = Malformed \/ s + 8 > 128 THEN NoNet
          ELSE [mode |-> "ipv6", parts |-> ParseIP(t), size |-> s + 8]
  BY <1>1, <1>2, <1>3 DEF PodSubnet
<1> QED BY <1>4 DEF info, t

(* The pod subnet of a node, in IPv6.                                      *)
LEMMA IPv6Subnet ==
  ASSUME NEW net, IsNetwork(net), net.mode = "ipv6", NEW id \in Nat,
         PodSubnet(PodNetInfo(net), id) # NoNet
  PROVE  LET q == PodSubnet(PodNetInfo(net), id)
             m == net.size \div 16
             d == NodeDigits(net.size + 8, PodNetInfo(net).prefix.open, id)
             x == Lead(net.parts[m + 1]) \o d
         IN  /\ net.parts \in [1..8 -> Words] /\ IsCut(net)
             /\ net.size \in 0..111 /\ m \in 0..6
             /\ ZeroRuns(net.parts) # {} /\ LongestRun(net.parts)[2] = 8
             /\ q = [mode |-> "ipv6", parts |-> SubnetParts(net.parts, m, x),
                     size |-> net.size + 8]
             /\ ~(Len(x) > 4)
<1> DEFINE info == PodNetInfo(net)
           q == PodSubnet(info, id)
           s == net.size
           m == s \div 16
           P == MakePrefixFromNetwork(IPv6Text(net.parts), s)
           d == NodeDigits(s + 8, info.prefix.open, id)
           x == Lead(net.parts[m + 1]) \o d
           t == AddGap(AddDigits(P, d))
<1>1. net.parts \in [1..8 -> Words] /\ IsCut(net) /\ s \in 0..128
  BY DEF IsNetwork
<1> HIDE DEF info
<1>5. q = IF ParseIP(t) = Malformed \/ s + 8 > 128 THEN NoNet
          ELSE [mode |-> "ipv6", parts |-> ParseIP(t), size |-> s + 8]
  BY IPv6SubnetText DEF SubnetText, info
<1>6. ParseIP(t) # Malformed /\ ~(s + 8 > 128)
  BY <1>5 DEF info
<1>7. q = [mode |-> "ipv6", parts |-> ParseIP(t), size |-> s + 8]
  BY <1>5, <1>6
<1>8. s \in 0..127 /\ s \in Nat /\ m \in 0..7 BY <1>1, <1>6
<1>9. d \in DigitSeq
  <2>1. s + 8 \in Nat BY <1>8
  <2> QED BY <2>1, NodeDigitsFacts
<1> HIDE DEF q, P, d
<1>10. ZeroRuns(net.parts) # {} /\ LongestRun(net.parts)[2] = 8
  BY <1>1, <1>6, <1>8, <1>9, NoGapNoSubnets, GapInsideNoSubnets DEF P
<1>11. ParseIP(t) = IF ~(Len(x) > 4) /\ m < 7
                    THEN SubnetParts(net.parts, m, x) ELSE Malformed
  <2> HIDE DEF x, t
  <2>1. x = Lead(net.parts[m + 1]) \o d BY DEF x
  <2> HIDE DEF m
  <2>2. m = s \div 16 BY DEF m
  <2> HIDE DEF s
  <2>3. net.size = s BY DEF s
  <2> QED
    BY <1>1, <1>8, <1>9, <1>10, <2>1, <2>2, <2>3, PlainSubnet, ZenonT(30) DEF t, P
<1>12. ~(Len(x) > 4) /\ m < 7 BY <1>6, <1>11
<1>13. s \in 0..111 /\ m \in 0..6
  <2>1. m < 7 BY <1>12
  <2> HIDE DEF s
  <2> QED BY ONLY <1>8, <2>1 DEF m
<1>14. q = [mode |-> "ipv6", parts |-> SubnetParts(net.parts, m, x),
            size |-> s + 8]
  BY <1>7, <1>11, <1>12
<1> QED BY <1>1, <1>10, <1>12, <1>13, <1>14, Zenon DEF q, d, x, m, s, info

(* The value of digits is a natural number.                                *)
LEMMA NumberType ==
  ASSUME NEW x \in DigitSeq
  PROVE  Number(x, 16) \in Nat
<1>1. 16 \in Bases BY DEF Bases
<1>2. x \in Seq(Nat) /\ 0 \in Nat BY DEF DigitSeq
<1> QED BY <1>1, <1>2, NumberUnfold

(* Numbers so far apart differ in the bits above.                          *)
LEMMA BitsApart ==
  ASSUME NEW a \in Nat, NEW b \in Nat, NEW h \in 0..8,
         a < b, h # 0 => a + 256 <= b
  PROVE  a \div 2^h # b \div 2^h
<1>0. /\ 2^0 = 1 /\ 2^1 = 2 /\ 2^2 = 4 /\ 2^3 = 8 /\ 2^4 = 16 /\ 2^5 = 32
      /\ 2^6 = 64 /\ 2^7 = 128 /\ 2^8 = 256
  OBVIOUS
<1>1. CASE h = 0
  <2>1. a \div 1 = a /\ b \div 1 = b OBVIOUS
  <2> QED BY <1>0, <1>1, <2>1
<1>2. CASE h # 0
  <2>0. a + 256 <= b BY <1>2
  <2>1. a \div 2 # b \div 2 BY <2>0
  <2>2. a \div 4 # b \div 4 BY <2>0
  <2>3. a \div 8 # b \div 8 BY <2>0
  <2>4. a \div 16 # b \div 16 BY <2>0
  <2>5. a \div 32 # b \div 32 BY <2>0
  <2>6. a \div 64 # b \div 64 BY <2>0
  <2>7. a \div 128 # b \div 128 BY <2>0
  <2>8. a \div 256 # b \div 256 BY <2>0
  <2>9. h \in {1, 2, 3, 4, 5, 6, 7, 8} BY <1>2
  <2>10. CASE h = 1
    <3>1. 2^h = 2 BY <1>0, <2>10
    <3> QED BY ONLY <3>1, <2>1
  <2>11. CASE h = 2
    <3>1. 2^h = 4 BY <1>0, <2>11
    <3> QED BY ONLY <3>1, <2>2
  <2>12. CASE h = 3
    <3>1. 2^h = 8 BY <1>0, <2>12
    <3> QED BY ONLY <3>1, <2>3
  <2>13. CASE h = 4
    <3>1. 2^h = 16 BY <1>0, <2>13
    <3> QED BY ONLY <3>1, <2>4
  <2>14. CASE h = 5
    <3>1. 2^h = 32 BY <1>0, <2>14
    <3> QED BY ONLY <3>1, <2>5
  <2>15. CASE h = 6
    <3>1. 2^h = 64 BY <1>0, <2>15
    <3> QED BY ONLY <3>1, <2>6
  <2>16. CASE h = 7
    <3>1. 2^h = 128 BY <1>0, <2>16
    <3> QED BY ONLY <3>1, <2>7
  <2>17. CASE h = 8
    <3>1. 2^h = 256 BY <1>0, <2>17
    <3> QED BY ONLY <3>1, <2>8
  <2> QED BY <2>9, <2>10, <2>11, <2>12, <2>13, <2>14, <2>15, <2>16, <2>17
<1> QED BY <1>1, <1>2

(* The bits of an IPv6 pod subnet's part with the id that are not in its   *)
(* prefix.                                                                 *)
LEMMA SubnetHostBits ==
  ASSUME NEW net, net.mode = "ipv6", NEW s \in 0..111, net.size = s + 8,
         NEW m, m = s \div 16
  PROVE  /\ HostBits(net, m + 1) \in 0..8
         /\ (s + 8) % 16 = 0 => HostBits(net, m + 1) = 0
<1> DEFINE bits == (s + 8) - m * 16
<1>1. m \in 0..6 /\ bits \in 8..23 /\ ((s + 8) % 16 = 0 => bits = 16)
  OBVIOUS
<1>2. PartBits(net) = 16 BY DEF PartBits
<1>3. (m + 1) - 1 = m BY <1>1
<1>4. HostBits(net, m + 1) =
        CASE bits <= 0 -> 16 [] bits >= 16 -> 0 [] OTHER -> 16 - bits
  BY <1>2, <1>3 DEF HostBits
<1> HIDE DEF bits
<1>5. CASE bits >= 16 BY <1>1, <1>4, <1>5
<1>6. CASE ~(bits >= 16) BY <1>1, <1>4, <1>6
<1> QED BY <1>5, <1>6

(* Subnets for different ids have no address in common, in IPv6.           *)
LEMMA IPv6SubnetsApart ==
  ASSUME NEW net, IsNetwork(net), net.mode = "ipv6",
         NEW i \in Nat, NEW j \in Nat, i < j,
         PodSubnet(PodNetInfo(net), i) # NoNet,
         PodSubnet(PodNetInfo(net), j) # NoNet
  PROVE  LET p == PodSubnet(PodNetInfo(net), i)
             q == PodSubnet(PodNetInfo(net), j)
         IN  ~InNet(p.parts, q) /\ ~InNet(q.parts, p)
<1> DEFINE p == PodSubnet(PodNetInfo(net), i)
           q == PodSubnet(PodNetInfo(net), j)
           s == net.size
           m == s \div 16
           open == PodNetInfo(net).prefix.open
           d == NodeDigits(s + 8, open, i)
           e == NodeDigits(s + 8, open, j)
           u == Lead(net.parts[m + 1])
           x == u \o d
           y == u \o e
           k == IF (s + 8) % 16 # 0 THEN 256 ELSE 1
           h == HostBits(p, m + 1)
           X == Number(x, 16)
           Y == Number(y, 16)
<1>1. /\ net.parts \in [1..8 -> Words] /\ s \in 0..111 /\ m \in 0..6
      /\ p = [mode |-> "ipv6", parts |-> SubnetParts(net.parts, m, x),
              size |-> s + 8]
  BY IPv6Subnet
<1>2. /\ q = [mode |-> "ipv6", parts |-> SubnetParts(net.parts, m, y),
              size |-> s + 8]
      /\ ~(Len(y) > 4)
  BY IPv6Subnet
<1>3. /\ p.mode = "ipv6" /\ p.size = s + 8 /\ q.mode = "ipv6" /\ q.size = s + 8
      /\ p.parts = SubnetParts(net.parts, m, x)
      /\ q.parts = SubnetParts(net.parts, m, y)
  BY <1>1, <1>2
<1>4. DOMAIN p.parts = 1..8 /\ DOMAIN q.parts = 1..8 /\ m + 1 \in 1..8
  <2>1. m + 1 \in 1..8 BY <1>1
  <2> QED BY <1>3, <2>1 DEF SubnetParts
<1>5. p.parts[m + 1] = X /\ q.parts[m + 1] = Y
  <2>1. ~(m + 1 <= m) /\ m + 1 \in 1..8 BY <1>1
  <2> HIDE DEF p, q, m
  <2> QED BY <1>3, <2>1 DEF SubnetParts
<1>6. net.parts[m + 1] \in Words BY <1>1, <1>4
<1>7. u \in DigitSeq BY <1>6, LeadType
<1>8. s + 8 \in Nat BY <1>1
<1>9. /\ d \in DigitSeq /\ Len(d) \in Nat \ {0}
      /\ e \in DigitSeq /\ Len(e) \in Nat \ {0}
      /\ Number(d, 16) + k <= Number(e, 16)
  <2> HIDE DEF s
  <2>1. CASE (s + 8) % 16 # 0
    <3>1. Number(d, 16) = i * 256 /\ Number(e, 16) = j * 256
      BY <1>8, <2>1, NodeDigitsFacts
    <3>2. k = 256 BY <2>1
    <3> HIDE DEF d, e, k
    <3>3. Number(d, 16) + k <= Number(e, 16) BY <3>1, <3>2
    <3> QED BY <1>8, <3>3, NodeDigitsFacts DEF d, e
  <2>2. CASE ~((s + 8) % 16 # 0)
    <3>1. Number(d, 16) = i /\ Number(e, 16) = j
      BY <1>8, <2>2, NodeDigitsFacts
    <3>2. k = 1 BY <2>2
    <3> HIDE DEF d, e, k
    <3>3. Number(d, 16) + k <= Number(e, 16) BY <3>1, <3>2
    <3> QED BY <1>8, <3>3, NodeDigitsFacts DEF d, e
  <2> QED BY <2>1, <2>2
<1>10. k \in {1, 256} OBVIOUS
<1>11. h \in 0..8 /\ HostBits(q, m + 1) = h /\ (k = 1 => h = 0)
  <2>1. h \in 0..8 /\ ((s + 8) % 16 = 0 => h = 0)
    <3> HIDE DEF p, s
    <3> QED BY <1>1, <1>3, SubnetHostBits
  <2>2. HostBits(q, m + 1) = h
    <3> HIDE DEF p, q
    <3> QED BY <1>3 DEF HostBits, PartBits
  <2> QED BY <2>1, <2>2
<1>12. X + k <= Y /\ X \in Nat /\ Y \in Nat
  <2>1. Len(e) <= 4
    <3>1. Len(y) = Len(u) + Len(e) BY <1>7, <1>9 DEF DigitSeq
    <3>2. Len(u) \in Nat BY <1>7 DEF DigitSeq
    <3> HIDE DEF u, e, y
    <3> QED BY <1>2, <1>9, <3>1, <3>2
  <2>2. Len(d) <= Len(e) BY <1>8, <2>1, NodeDigitsGrow
  <2> HIDE DEF d, e, u, k, p, q
  <2>3. Number(d, 16) + (Y - X) >= Number(e, 16)
    BY <1>7, <1>9, <2>1, <2>2, WordsApart
  <2>4. X \in Nat /\ Y \in Nat
    <3>1. x \in DigitSeq /\ y \in DigitSeq BY <1>7, <1>9 DEF DigitSeq
    <3> HIDE DEF x, y
    <3> QED BY <3>1, NumberType DEF X, Y
  <2>5. Number(d, 16) \in Nat /\ Number(e, 16) \in Nat
    BY <1>9, ConcatNumber DEF DigitSeq
  <2> HIDE DEF X, Y
  <2> QED BY <1>9, <1>10, <2>3, <2>4, <2>5
<1> HIDE DEF p, q, X, Y, h, k, m
<1>13. X \div 2^h # Y \div 2^h 
  <2>1. X < Y /\ (h # 0 => X + 256 <= Y) BY <1>10, <1>11, <1>12
  <2> QED BY <1>11, <1>12, <2>1, BitsApart
<1>14. ~InNet(p.parts, q) BY <1>4, <1>5, <1>11, <1>13, Zenon DEF InNet
<1>15. ~InNet(q.parts, p)
  BY <1>4, <1>5, <1>11, <1>13, Zenon DEF InNet, h
<1> QED BY <1>14, <1>15 DEF p, q

-----------------------------------------------------------------------------
(* IPv4 *)

(* Octets in decimal.                                                      *)
LEMMA DecFacts ==
  ASSUME NEW n \in Nat
  PROVE  /\ Number(Dec(n), 10) = n /\ Dec(n) \in DigitSeq
         /\ \A j \in DOMAIN Dec(n) : Dec(n)[j] < 10
<1>1. 10 \in Bases BY DEF Bases
<1>2. Dec(n) \in Seq(0..(10 - 1)) BY <1>1, DigitsUnfold DEF Dec
<1>3. Dec(n) \in Seq(0..9) BY <1>2
<1>4. \A j \in DOMAIN Dec(n) : Dec(n)[j] \in 0..9 BY <1>3
<1>5. 0..9 \subseteq Nat OBVIOUS
<1>6. Dec(n) \in DigitSeq BY <1>3, <1>5, SeqMonotonic DEF DigitSeq
<1>7. \A j \in DOMAIN Dec(n) : Dec(n)[j] < 10 BY <1>4
<1> QED BY <1>1, <1>6, <1>7, NumberOfDigits DEF Dec

(* A sequence of three with another third part, and with one more part.    *)
LEMMA ThreeWords ==
  ASSUME NEW a, NEW b, NEW c, NEW d, NEW w,
         w = [i \in 1..3 |-> IF i = 1 THEN a ELSE IF i = 2 THEN b ELSE w[3]]
  PROVE  [w EXCEPT ![3] = c] = <<a, b, c>>
<1>1. DOMAIN w = 1..3 /\ w[1] = a /\ w[2] = b OBVIOUS
<1> DEFINE v == [w EXCEPT ![3] = c]
<1>2. DOMAIN v = 1..3 /\ v[1] = a /\ v[2] = b /\ v[3] = c BY <1>1
<1>3. v = [i \in 1..3 |-> v[i]] OBVIOUS
<1> HIDE DEF v
<1>4. v = <<a, b, c>> BY <1>2, <1>3
<1> QED BY <1>4 DEF v

(* And three words with a fourth.                                          *)
LEMMA FourWords ==
  ASSUME NEW a, NEW b, NEW c, NEW d
  PROVE  Append(<<a, b, c>>, d) = <<a, b, c, d>>
<1> DEFINE S == {a, b, c, d}
           s == <<a, b, c>>
           t == Append(s, d)
           u == <<a, b, c, d>>
<1>1. s \in Seq(S) /\ Len(s) = 3 /\ s[1] = a /\ s[2] = b /\ s[3] = c OBVIOUS
<1>2. u \in Seq(S) /\ Len(u) = 4 /\ u[1] = a /\ u[2] = b /\ u[3] = c /\ u[4] = d
  OBVIOUS
<1>3. d \in S OBVIOUS
<1> HIDE DEF s, u, S
<1>4. t \in Seq(S) /\ Len(t) = 4
  <2>1. Append(s, d) \in Seq(S) /\ Len(Append(s, d)) = Len(s) + 1
    BY <1>1, <1>3, AppendProperties, ZenonT(40)
  <2> QED BY <2>1, <1>1
<1>5. t[1] = a /\ t[2] = b /\ t[3] = c /\ t[4] = d
  <2>1. \A i \in 1..Len(s) : Append(s, d)[i] = s[i]
    BY <1>1, <1>3, AppendProperties, SMTT(30)
  <2>2. Append(s, d)[Len(s) + 1] = d BY <1>1, <1>3, AppendProperties
  <2>3. 1 \in 1..Len(s) /\ 2 \in 1..Len(s) /\ 3 \in 1..Len(s) BY <1>1
  <2>4. Len(s) + 1 = 4 BY <1>1
  <2>5. t[1] = a /\ t[2] = b /\ t[3] = c BY <2>1, <2>3, <1>1
  <2>6. t[4] = d BY <2>2, <2>4
  <2> QED BY <2>5, <2>6
<1> HIDE DEF t
<1>6. ASSUME NEW i \in 1..4 PROVE t[i] = u[i]
  <2>1. i = 1 \/ i = 2 \/ i = 3 \/ i = 4 OBVIOUS
  <2> QED BY <2>1, <1>2, <1>5
<1>7. t = u BY <1>2, <1>4, <1>6, SeqEqual
<1> QED BY <1>7 DEF t, s, u

(* The words of an IPv4 pod subnet.                                        *)
OctetWords(parts, id) == <<Dec(parts[1]), Dec(parts[2]), Dec(id), <<0>>>>

(* The text of an IPv4 pod subnet, and its fields.                         *)
LEMMA IPv4Prefix ==
  ASSUME NEW net, net.mode = "ipv4", NEW id
  PROVE  LET info == PodNetInfo(net)
             t == Suffixed(info, BuildPodSubnetPrefix(info, id))
         IN  /\ info.mode = "ipv4" /\ info.size = net.size + 8
             /\ IsText(t, 10, OctetWords(net.parts, id), {})
             /\ ~t.open
<1> DEFINE info == PodNetInfo(net)
           p == MakeV4PrefixFromNetwork(net)
           b == BuildPodSubnetPrefix(info, id)
           t == Suffixed(info, b)
           w == [i \in 1..3 |-> Dec(net.parts[i])]
           v == <<Dec(net.parts[1]), Dec(net.parts[2]), Dec(id)>>
<1>1. net # NoNet BY DEF NoNet
<1>2. NetInfo(net) = [prefix |-> p, size |-> net.size, mode |-> net.mode]
  BY <1>1, Zenon DEF NetInfo
<1>3. info = [NetInfo(net) EXCEPT !.size = @ + 8, !.prefix = @]
  <2>1. net.mode # "ipv6" OBVIOUS
  <2> QED BY <1>1, <2>1 DEF PodNetInfo
<1>4. IsText(p, 10, w, {}) /\ p.open
  <2>1. p = [base |-> 10, words |-> w, gaps |-> {}, open |-> TRUE]
    BY DEF MakeV4PrefixFromNetwork
  <2> HIDE DEF p, w
  <2> QED BY <2>1 DEF IsText, TextFields
<1> HIDE DEF p
<1>5. info.mode = "ipv4" /\ info.size = net.size + 8 /\ info.prefix = p
  BY <1>2, <1>3
<1> HIDE DEF info
<1>6. b = [p EXCEPT !.words[3] = Dec(id)] BY <1>5 DEF BuildPodSubnetPrefix
<1>7. IsText(b, 10, [w EXCEPT ![3] = Dec(id)], {}) /\ b.open
  <2> HIDE DEF w, b
  <2>1. IsText(b, 10, [w EXCEPT ![3] = Dec(id)], {})
    BY <1>4, <1>6 DEF IsText, TextFields
  <2>2. b.open BY <1>4, <1>6 DEF IsText, TextFields
  <2> QED BY <2>1, <2>2
<1>8. [w EXCEPT ![3] = Dec(id)] = v
  <2>1. w[1] = Dec(net.parts[1]) /\ w[2] = Dec(net.parts[2]) OBVIOUS
  <2>2. w = [i \in 1..3 |-> IF i = 1 THEN Dec(net.parts[1])
                            ELSE IF i = 2 THEN Dec(net.parts[2]) ELSE w[3]]
    <3> DEFINE u == [i \in 1..3 |-> IF i = 1 THEN Dec(net.parts[1])
                            ELSE IF i = 2 THEN Dec(net.parts[2]) ELSE w[3]]
    <3>1. DOMAIN w = 1..3 /\ DOMAIN u = 1..3 OBVIOUS
    <3>2. ASSUME NEW i \in 1..3 PROVE w[i] = u[i]
      <4>1. i = 1 \/ i = 2 \/ i = 3 OBVIOUS
      <4> QED BY <4>1, <2>1
    <3>3. w = [i \in 1..3 |-> w[i]] /\ u = [i \in 1..3 |-> u[i]] OBVIOUS
    <3> HIDE DEF w, u
    <3>4. w = u BY <3>2, <3>3
    <3> QED BY <3>4 DEF u
  <2> HIDE DEF w
  <2> QED BY <2>2, ThreeWords
<1> HIDE DEF w, b
<1>9. IsText(b, 10, v, {}) /\ b.open BY <1>7, <1>8
<1>10. t = AddDigits(b, <<0>>) BY <1>5 DEF Suffixed
<1>11. Append(v, <<0>>) = OctetWords(net.parts, id) BY FourWords DEF OctetWords
<1> HIDE DEF v, t
<1>12. IsText(t, 10, OctetWords(net.parts, id), {})
  BY <1>9, <1>10, <1>11, DigitsAdded
<1>13. ~t.open BY <1>9, <1>10 DEF AddDigits, IsText, TextFields
<1> QED BY <1>5, <1>12, <1>13 DEF info, t, b

(* The pod subnet of a node in IPv4, from a network of 16 bits.            *)
LEMMA IPv4Subnet ==
  ASSUME NEW net, IsNetwork(net), net.mode = "ipv4", net.size = 16,
         NEW id \in Nat
  PROVE  PodSubnet(PodNetInfo(net), id)
           = IF id <= 255
             THEN [mode |-> "ipv4",
                   parts |-> [i \in 1..4 |-> IF i = 3 THEN id ELSE
                                             IF i = 4 THEN 0 ELSE net.parts[i]],
                   size |-> 24]
             ELSE NoNet
<1> DEFINE info == PodNetInfo(net)
           t == Suffixed(info, BuildPodSubnetPrefix(info, id))
           w == OctetWords(net.parts, id)
           parts == [i \in 1..4 |-> IF i = 3 THEN id ELSE
                                    IF i = 4 THEN 0 ELSE net.parts[i]]
<1>1. /\ info.mode = "ipv4" /\ info.size = net.size + 8
      /\ IsText(t, 10, w, {}) /\ ~t.open
  BY IPv4Prefix
<1>2. net.parts \in [1..4 -> Octets] BY DEF IsNetwork
<1>3. \A i \in 1..4 : net.parts[i] \in Nat /\ net.parts[i] <= 255
  BY <1>2, SMTT(30) DEF Octets
<1>4. Len(w) = 4 /\ w[1] = Dec(net.parts[1]) /\ w[2] = Dec(net.parts[2])
      /\ w[3] = Dec(id) /\ w[4] = <<0>>
  BY DEF OctetWords
<1>5. <<0>> = Dec(0)
  <2>1. 10 \in Bases /\ 0 \in Nat /\ 0 < 10 BY DEF Bases
  <2> QED BY <2>1, DigitsUnfold DEF Dec
<1> HIDE DEF w, t, info
<1>6. /\ parts[1] \in Nat /\ parts[2] \in Nat /\ parts[3] \in Nat
      /\ parts[4] \in Nat /\ parts[1] = net.parts[1] /\ parts[2] = net.parts[2]
      /\ parts[3] = id /\ parts[4] = 0 /\ parts[1] <= 255 /\ parts[2] <= 255
  BY <1>3
<1> HIDE DEF parts
<1>7. ASSUME NEW i \in 1..4
      PROVE  w[i] = Dec(parts[i]) /\ parts[i] \in Nat
  <2>1. i = 1 \/ i = 2 \/ i = 3 \/ i = 4 OBVIOUS
  <2> QED BY <2>1, <1>4, <1>5, <1>6
<1>8. ASSUME NEW i \in 1..4
      PROVE  /\ Number(w[i], 10) = parts[i]
             /\ \A j \in DOMAIN w[i] : w[i][j] < 10
  BY <1>7, DecFacts
<1>9. ParseIP(t) = IF \A i \in 1..4 : Number(w[i], 10) <= 255
                   THEN [i \in 1..4 |-> Number(w[i], 10)] ELSE Malformed
  <2>1. t.base = 10 /\ t.words = w /\ ~t.open BY <1>1 DEF IsText
  <2>2. ParseIP(t) = ParseIPv4(t) BY <2>1 DEF ParseIP
  <2>3. \A i \in 1..4 : \A j \in DOMAIN w[i] : w[i][j] < 10 BY <1>8
  <2> QED BY <1>4, <2>1, <2>2, <2>3 DEF ParseIPv4
<1>10. [i \in 1..4 |-> Number(w[i], 10)] = [i \in 1..4 |-> parts[i]] BY <1>8
<1>11. [i \in 1..4 |-> parts[i]] = parts BY DEF parts
<1>12. (\A i \in 1..4 : Number(w[i], 10) <= 255) <=> id <= 255
  <2>1. ASSUME id <= 255, NEW i \in 1..4 PROVE parts[i] <= 255
    <3>1. i = 1 \/ i = 2 \/ i = 3 \/ i = 4 OBVIOUS
    <3> QED BY <2>1, <3>1, <1>6
  <2>2. 3 \in 1..4 OBVIOUS
  <2> QED BY <1>6, <1>8, <2>1, <2>2
<1>13. ParseIP(t) = IF id <= 255 THEN parts ELSE Malformed
  BY <1>9, <1>10, <1>11, <1>12
<1>14. parts # Malformed
  <2>1. DOMAIN parts = 1..4 BY DEF parts
  <2>2. DOMAIN Malformed = {} BY DEF Malformed
  <2>3. 1 \in 1..4 OBVIOUS
  <2> QED BY <2>1, <2>2, <2>3
<1>15. PodSubnet(info, id) =
         IF ParseIP(t) = Malformed \/ info.size > 32 THEN NoNet
         ELSE [mode |-> info.mode, parts |-> ParseIP(t), size |-> info.size]
  BY <1>1 DEF PodSubnet, t
<1>16. info.size = 24 BY <1>1
<1> QED BY <1>1, <1>13, <1>14, <1>15, <1>16 DEF info, parts

(* Subnets for different ids have no address in common, in IPv4.           *)
LEMMA IPv4SubnetsApart ==
  ASSUME NEW net, IsNetwork(net), net.mode = "ipv4", net.size = 16,
         NEW i \in Nat, NEW j \in Nat, i # j,
         PodSubnet(PodNetInfo(net), i) # NoNet,
         PodSubnet(PodNetInfo(net), j) # NoNet
  PROVE  ~InNet(PodSubnet(PodNetInfo(net), i).parts, PodSubnet(PodNetInfo(net), j))
<1> DEFINE p == PodSubnet(PodNetInfo(net), i)
           q == PodSubnet(PodNetInfo(net), j)
<1>1. DOMAIN p.parts = 1..4 /\ p.parts[3] = i BY IPv4Subnet
<1>2. q.mode = "ipv4" /\ q.size = 24 /\ q.parts[3] = j BY IPv4Subnet
<1> HIDE DEF p, q
<1>3. HostBits(q, 3) = 0 BY <1>2 DEF HostBits, PartBits
<1>4. i \div 2^0 = i /\ j \div 2^0 = j OBVIOUS
<1>5. 3 \in DOMAIN p.parts BY <1>1
<1>6. ~InNet(p.parts, q) BY <1>1, <1>2, <1>3, <1>4, <1>5, Zenon DEF InNet
<1> QED BY <1>6 DEF p, q

-----------------------------------------------------------------------------
(* Both families *)

(* An address of a pod network is as long as those of its family.          *)
LEMMA SubnetLength ==
  ASSUME NEW net, IsNetwork(net), net.mode = "ipv4" => net.size = 16,
         NEW id \in Nat, PodSubnet(PodNetInfo(net), id) # NoNet
  PROVE  Len(PodSubnet(PodNetInfo(net), id).parts)
           = IF net.mode = "ipv6" THEN 8 ELSE 4
<1> DEFINE q == PodSubnet(PodNetInfo(net), id)
<1>1. CASE net.mode = "ipv6"
  <2>1. PICK m, x : q = [mode |-> "ipv6", parts |-> SubnetParts(net.parts, m, x),
                         size |-> net.size + 8]
    BY <1>1, IPv6Subnet
  <2>2. q.parts = SubnetParts(net.parts, m, x) BY <2>1
  <2>3. Len(SubnetParts(net.parts, m, x)) = 8 BY DEF SubnetParts
  <2> QED BY <1>1, <2>2, <2>3
<1>2. CASE net.mode # "ipv6"
  <2>1. net.mode = "ipv4" /\ net.size = 16 BY <1>2 DEF IsNetwork
  <2> DEFINE parts == [i \in 1..4 |-> IF i = 3 THEN id ELSE
                                      IF i = 4 THEN 0 ELSE net.parts[i]]
  <2>2. q = IF id <= 255 THEN [mode |-> "ipv4", parts |-> parts, size |-> 24]
            ELSE NoNet
    BY <2>1, IPv4Subnet
  <2>3. Len(parts) = 4 OBVIOUS
  <2> HIDE DEF parts
  <2>4. q.parts = parts BY <2>2
  <2> QED BY <1>2, <2>3, <2>4
<1> QED BY <1>1, <1>2

(* Two nodes' subnets of a pod network have no address in common.          *)
LEMMA SubnetsApart ==
  ASSUME NEW net, IsNetwork(net), net.mode = "ipv4" => net.size = 16,
         NEW i \in Nat, NEW j \in Nat, i # j,
         PodSubnet(PodNetInfo(net), i) # NoNet,
         PodSubnet(PodNetInfo(net), j) # NoNet
  PROVE  ~InNet(PodSubnet(PodNetInfo(net), i).parts, PodSubnet(PodNetInfo(net), j))
<1>1. CASE net.mode = "ipv4" BY <1>1, IPv4SubnetsApart
<1>2. CASE net.mode # "ipv4"
  <2>1. net.mode = "ipv6" BY <1>2 DEF IsNetwork
  <2>2. CASE i < j BY <2>1, <2>2, IPv6SubnetsApart
  <2>3. CASE j < i BY <2>1, <2>3, IPv6SubnetsApart
  <2> QED BY <2>2, <2>3
<1> QED BY <1>1, <1>2

(* Nor do subnets of pod networks of different families.                   *)
LEMMA FamiliesApart ==
  ASSUME NEW net, IsNetwork(net), net.mode = "ipv4" => net.size = 16,
         NEW other, IsNetwork(other), other.mode = "ipv4" => other.size = 16,
         net.mode # other.mode, NEW i \in Nat, NEW j \in Nat,
         PodSubnet(PodNetInfo(net), i) # NoNet,
         PodSubnet(PodNetInfo(other), j) # NoNet
  PROVE  ~InNet(PodSubnet(PodNetInfo(net), i).parts, PodSubnet(PodNetInfo(other), j))
<1> DEFINE p == PodSubnet(PodNetInfo(net), i).parts
           q == PodSubnet(PodNetInfo(other), j)
<1>1. Len(p) = IF net.mode = "ipv6" THEN 8 ELSE 4 BY SubnetLength
<1>2. Len(q.parts) = IF other.mode = "ipv6" THEN 8 ELSE 4 BY SubnetLength
<1>3. (net.mode = "ipv4" \/ net.mode = "ipv6")
      /\ (other.mode = "ipv4" \/ other.mode = "ipv6")
  BY DEF IsNetwork
<1>4. Len(p) # Len(q.parts) BY <1>1, <1>2, <1>3
<1> QED BY <1>4, Zenon DEF InNet

-----------------------------------------------------------------------------
(* Slices of a pod network *)

(* PodSlice by its fields.                                                 *)
LEMMA SliceFields ==
  ASSUME NEW net, IsNetwork(net), NEW id, NEW part, NEW slice,
         part = net.size \div PartBits(net) + 1,
         slice = IF net.size % PartBits(net) = 0 /\ net.mode = "ipv6"
                 THEN id * 256 ELSE id
  PROVE  PodSlice(net, id)
           = [mode |-> net.mode,
              parts |-> [net.parts EXCEPT ![part] = @ + slice],
              size |-> net.size + 8]
<1>1. PodSlice(net, id)
        = [net EXCEPT !.parts[part] = @ + slice, !.size = @ + 8]
  BY Zenon DEF PodSlice
<1>2. net = [mode |-> net.mode, parts |-> net.parts, size |-> net.size]
  BY DEF IsNetwork
<1> DEFINE parts == net.parts
           mode == net.mode
           size == net.size
           changed == [parts EXCEPT ![part] = @ + slice]
           larger == size + 8
           rec == [mode |-> mode, parts |-> parts, size |-> size]
<1>3. net = rec BY <1>2
<1>4. DOMAIN net = {"mode", "parts", "size"} BY <1>3
<1>5. [net EXCEPT !.parts[part] = @ + slice, !.size = @ + 8]
        = [net EXCEPT !.parts = changed, !.size = larger]
  OBVIOUS
<1> HIDE DEF changed, larger
<1> DEFINE new == [net EXCEPT !.parts = changed, !.size = larger]
<1>6. /\ DOMAIN new = {"mode", "parts", "size"}
      /\ new.mode = net.mode /\ new.parts = changed /\ new.size = larger
      /\ new = [i \in DOMAIN new |-> new[i]]
  BY <1>4
<1> HIDE DEF new
<1>7. new = [mode |-> mode, parts |-> changed, size |-> larger]
  BY <1>6
<1> QED BY <1>1, <1>5, <1>7 DEF new, changed, larger

(* The slice of an IPv4 network.                                           *)
LEMMA IPv4Slice ==
  ASSUME NEW net, IsNetwork(net), net.mode = "ipv4", net.size = 16,
         NEW id \in Nat, id <= 255
  PROVE  PodSubnet(PodNetInfo(net), id) = PodSlice(net, id)
<1> DEFINE parts == net.parts
           new == [i \in 1..4 |-> IF i = 3 THEN id ELSE
                                  IF i = 4 THEN 0 ELSE parts[i]]
           changed == [parts EXCEPT ![3] = @ + id]
<1>1. PodSubnet(PodNetInfo(net), id)
        = [mode |-> "ipv4", parts |-> new, size |-> 24]
  BY IPv4Subnet
<1>2. parts \in [1..4 -> Octets] /\ IsCut(net) BY DEF IsNetwork
<1>3. PartBits(net) = 8 BY DEF PartBits
<1>4. PodSlice(net, id) = [mode |-> "ipv4", parts |-> changed, size |-> 24]
  <2>1. 3 = net.size \div PartBits(net) + 1 BY <1>3
  <2>2. id = IF net.size % PartBits(net) = 0 /\ net.mode = "ipv6"
             THEN id * 256 ELSE id
    OBVIOUS
  <2>3. net.size + 8 = 24 OBVIOUS
  <2> QED BY <2>1, <2>2, <2>3, SliceFields
<1>5. ASSUME NEW k \in {3, 4} PROVE parts[k] = 0
  <2>1. HostBits(net, k) = 8
    <3>1. (k - 1) * 8 \in {16, 24} OBVIOUS
    <3>2. net.size - (k - 1) * PartBits(net) <= 0 BY <1>3, <3>1
    <3> QED BY <1>3, <3>2 DEF HostBits
  <2>2. k \in DOMAIN parts BY <1>2
  <2>3. parts[k] % 2^8 = 0 BY <1>2, <2>1, <2>2 DEF IsCut
  <2>4. parts[k] \in 0..255 BY <1>2 DEF Octets
  <2>5. 2^8 = 256 OBVIOUS
  <2> DEFINE p == parts[k]
  <2>6. p \in 0..255 /\ p % 256 = 0 BY <2>3, <2>4, <2>5
  <2> HIDE DEF p
  <2>7. p = 0 BY ONLY <2>6
  <2> QED BY <2>7 DEF p
<1>6. changed = new
  <2>1. parts[3] = 0 /\ parts[4] = 0 BY <1>5
  <2>2. \A i \in 1..4 : i # 3 /\ i # 4 => changed[i] = parts[i] BY <1>2
  <2>3. changed[3] = id /\ changed[4] = 0 BY <1>2, <2>1
  <2>4. DOMAIN changed = 1..4 /\ changed = [i \in 1..4 |-> changed[i]]
    BY <1>2
  <2> HIDE DEF changed, parts
  <2>5. \A i \in 1..4 : changed[i] = new[i] BY <2>2, <2>3
  <2>6. new = [i \in 1..4 |-> new[i]] OBVIOUS
  <2> HIDE DEF new
  <2> QED BY <2>4, <2>5, <2>6
<1> QED BY <1>1, <1>4, <1>6

(* A network of 112 bits or less has zeros in its last part.               *)
LEMMA LastPartFree ==
  ASSUME NEW net, IsNetwork(net), net.mode = "ipv6", net.size <= 112
  PROVE  /\ net.parts \in [1..8 -> Words] /\ IsCut(net)
         /\ net.size \in 0..112 /\ net.parts[8] = 0
<1> DEFINE parts == net.parts
           s == net.size
<1>1. parts \in [1..8 -> Words] /\ IsCut(net) /\ s \in 0..128
  BY DEF IsNetwork
<1>2. s \in 0..112 /\ s \in 0..127
  <2> HIDE DEF s
  <2>1. s <= 112 BY DEF s
  <2> QED BY ONLY <1>1, <2>1
<1>3. parts[8] = 0
  <2>1. (8 - 1) * 16 >= s BY <1>2
  <2> QED BY <1>1, <1>2, <2>1, PartsCut
<1> QED BY <1>1, <1>2, <1>3

(* The text of a network ends in a "::" when its longest run of zeros is   *)
(* the last.                                                               *)
LEMMA TakesIdMeans ==
  ASSUME NEW net, IsNetwork(net), net.mode = "ipv6"
  PROVE  TakesId(net) <=> /\ ZeroRuns(net.parts) # {}
                          /\ LongestRun(net.parts)[2] = 8
                          /\ net.size \in 0..111
<1> DEFINE s == net.size
           t == IPv6Text(net.parts)
           last == LongestRun(net.parts)[2] = 8
<1>1. net.parts \in [1..8 -> Words] /\ s \in 0..128 BY DEF IsNetwork
<1>2. t.open <=> ZeroRuns(net.parts) # {} /\ last
  <2>1. CASE ZeroRuns(net.parts) = {}
    <3>1. ~t.open BY <1>1, <2>1, IPv6TextFields
    <3> QED BY <2>1, <3>1
  <2>2. CASE ZeroRuns(net.parts) # {}
    <3>1. t.open <=> last BY <1>1, <2>2, IPv6TextFields
    <3> QED BY <2>2, <3>1
  <2> QED BY <2>1, <2>2
<1>3. TakesId(net) <=> t.open /\ s < 112 BY DEF TakesId
<1> HIDE DEF s, t, last
<1>4. s < 112 <=> s \in 0..111 BY ONLY <1>1
<1> QED BY <1>2, <1>3, <1>4 DEF s, last

(* The digits of a word with a lower byte that is zero.                    *)
LEMMA LeadOfByte ==
  ASSUME NEW p \in Words, p # 0, p % 256 = 0
  PROVE  /\ Lead(p) \in DigitSeq /\ Len(Lead(p)) \in Nat /\ Len(Lead(p)) <= 2
         /\ Number(Lead(p), 16) * 256 = p
<1> DEFINE q == p \div 256
           t == p \div 16
<1>1. /\ q \in Nat /\ q < 256 /\ q * 256 = p /\ q # 0
      /\ t \in Nat /\ t >= 16 /\ t % 16 = 0 /\ t \div 16 = q
      /\ p \in Nat /\ p >= 16 /\ p % 16 = 0
  <2>1. p \in Nat /\ p < 65536 BY WordRange
  <2>2. p >= 256 BY ONLY <2>1, p # 0, p % 256 = 0
  <2> QED BY ONLY <2>1, <2>2, p % 256 = 0
<1>0. p \div 16 = t OBVIOUS
<1> HIDE DEF q, t
<1>2. 16 \in Bases BY DEF Bases
<1>3. Hex(q) \in DigitSeq /\ Len(Hex(q)) \in Nat /\ Len(Hex(q)) <= 2
      /\ Number(Hex(q), 16) = q
  <2>1. Len(Hex(q)) \in Nat /\ Len(Hex(q)) <= 2 BY <1>1, HexLength
  <2> QED BY <1>1, <2>1, HexNumber DEF DigitSeq
<1>4. Hex(t) = Append(Hex(q), 0)
  <2>1. Digits(t, 16) = Append(Digits(t \div 16, 16), t % 16)
    BY <1>1, <1>2, DigitsUnfold, SMTT(30)
  <2> QED BY <1>1, <2>1, Zenon DEF Hex
<1>5. Hex(p) = Append(Hex(t), 0)
  <2>1. Digits(p, 16) = Append(Digits(p \div 16, 16), p % 16)
    BY <1>1, <1>2, DigitsUnfold, ZenonT(30)
  <2> QED BY <1>0, <1>1, <2>1, ZenonT(30) DEF Hex
<1> DEFINE u == Hex(q)
           v == Append(u, 0)
           w == Append(v, 0)
           n == Len(u)
<1>6. u \in Seq(Nat) /\ 0 \in Nat /\ n \in Nat BY <1>3 DEF DigitSeq
<1> HIDE DEF u
<1>7. v \in Seq(Nat) /\ Len(v) = n + 1 /\ v[n + 1] = 0
      /\ \A i \in 1..n : v[i] = u[i]
  BY <1>6, AppendProperties
<1>8. Len(v) = n + 1 /\ n + 1 \in 1..Len(v) BY <1>6, <1>7
<1> HIDE DEF v
<1>9. w \in Seq(Nat) /\ Len(w) = Len(v) + 1 /\ w[Len(v) + 1] = 0
      /\ \A i \in 1..Len(v) : w[i] = v[i]
  BY <1>6, <1>7, AppendProperties
<1>10. /\ Len(w) = n + 2 /\ w[n + 2] = 0 /\ w[n + 1] = 0
       /\ \A i \in 1..n : w[i] = u[i]
  <2>1. Len(w) = n + 2 /\ Len(v) + 1 = n + 2 BY <1>6, <1>8, <1>9
  <2>2. w[n + 2] = 0 BY <1>9, <2>1
  <2>3. w[n + 1] = 0 BY <1>7, <1>8, <1>9
  <2>4. \A i \in 1..n : i \in 1..Len(v) BY <1>6, <1>8
  <2> QED BY <1>7, <1>9, <2>1, <2>2, <2>3, <2>4
<1> HIDE DEF w, n
<1>11. TrimZeros(w) = u
  <2>1. Len(w) >= 2 /\ Len(w) - 1 = n + 1 /\ Len(w) - 2 = n BY <1>6, <1>10
  <2> DEFINE z == SubSeq(w, n + 1, n + 2)
             y == SubSeq(w, 1, n)
  <2>2. \A i \in (n + 1)..(n + 2) : w[i] \in Nat
    <3>1. \A i \in (n + 1)..(n + 2) : i = n + 1 \/ i = n + 2 BY <1>6
    <3> QED BY <1>10, <3>1
  <2>3. z \in Seq(Nat) /\ Len(z) = 2 /\ z[1] = 0 /\ z[2] = 0
    <3>0. n + 1 \in Int /\ n + 2 \in Int /\ n + 1 <= n + 2
          /\ (n + 2) - (n + 1) + 1 = 2
          /\ (n + 1) + 1 - 1 = n + 1 /\ (n + 1) + 2 - 1 = n + 2
      BY <1>6
    <3>1. /\ z \in Seq(Nat)
          /\ Len(z) = IF n + 1 <= n + 2 THEN (n + 2) - (n + 1) + 1 ELSE 0
          /\ \A i \in 1..((n + 2) - (n + 1) + 1) : z[i] = w[(n + 1) + i - 1]
      BY <2>2, <3>0, SubSeqProperties
    <3> HIDE DEF z
    <3>2. 1 \in 1..2 /\ 2 \in 1..2 OBVIOUS
    <3>3. z[1] = w[(n + 1) + 1 - 1] /\ z[2] = w[(n + 1) + 2 - 1]
      BY <3>0, <3>1, <3>2
    <3> QED BY <1>10, <3>0, <3>1, <3>3
  <2>4. z = <<0, 0>>
    <3> DEFINE e == <<0, 0>>
    <3>1. e \in Seq(Nat) /\ Len(e) = 2 /\ e[1] = 0 /\ e[2] = 0 OBVIOUS
    <3> HIDE DEF e, z
    <3>2. \A i \in 1..Len(z) : z[i] = e[i]
      <4>1. \A i \in 1..2 : i = 1 \/ i = 2 OBVIOUS
      <4> QED BY <2>3, <3>1, <4>1
    <3>3. z = e BY <2>3, <3>1, <3>2, SeqEqual
    <3> QED BY <3>3 DEF e
  <2>5. y = u
    <3>1. \A i \in 1..n : w[i] \in Nat BY <1>6, <1>10 DEF n
    <3>2. /\ y \in Seq(Nat)
          /\ Len(y) = IF 1 <= n THEN n - 1 + 1 ELSE 0
          /\ \A i \in 1..(n - 1 + 1) : y[i] = w[1 + i - 1]
      BY <1>6, <3>1, SubSeqProperties
    <3> HIDE DEF y
    <3>3. Len(y) = n /\ \A i \in 1..n : y[i] = u[i]
      <4>1. n - 1 + 1 = n /\ \A i \in 1..n : 1 + i - 1 = i BY <1>6
      <4>2. Len(y) = n BY <1>6, <3>2, <4>1
      <4> QED BY <1>10, <3>2, <4>1, <4>2
    <3> QED BY <1>6, <3>2, <3>3, SeqEqual DEF n
  <2> HIDE DEF y, z
  <2>6. TrimZeros(w) = IF Len(w) >= 2 /\ SubSeq(w, n + 1, Len(w)) = <<0, 0>>
                       THEN SubSeq(w, 1, n) ELSE w
    BY <2>1 DEF TrimZeros
  <2>7. Len(w) = n + 2 BY <1>10
  <2> QED BY <2>1, <2>4, <2>5, <2>6, <2>7 DEF y, z
<1>12. Lead(p) = Hex(q) BY <1>4, <1>5, <1>11 DEF Lead, u, v, w
<1> QED BY <1>1, <1>3, <1>12

(* The digits and the value of the part with a node's id.                  *)
LEMMA SlicePart ==
  ASSUME NEW p \in Words, NEW id \in Nat, id <= 255, NEW s \in 0..104,
         s % 8 = 0, NEW open, p = 0 => open, p # 0 => ~open,
         s % 16 = 0 => p = 0, s % 16 # 0 => p % 256 = 0,
         NEW x, x = Lead(p) \o NodeDigits(s + 8, open, id)
  PROVE  /\ ~(Len(x) > 4)
         /\ Number(x, 16) = p + (IF s % 16 = 0 THEN id * 256 ELSE id)
<1> DEFINE d == NodeDigits(s + 8, open, id)
           lead == Lead(p)
<1>1. s + 8 \in Nat OBVIOUS
<1>2. d \in DigitSeq
      /\ Number(d, 16) = IF (s + 8) % 16 # 0 THEN id * 256 ELSE id
  BY <1>1, NodeDigitsFacts
<1>3. (s % 16 = 0) <=> ((s + 8) % 16 # 0)
  <2>1. PICK k \in Int : s = 8 * k BY ONLY s \in 0..104, s % 8 = 0
  <2>2. k \in 0..13 BY ONLY <2>1, s \in 0..104
  <2> QED BY ONLY <2>1, <2>2
<1>4. p \in Nat BY WordFacts
<1>5. CASE p = 0
  <2>1. x = d BY <1>2, <1>5 DEF Lead, DigitSeq
  <2>2. Number(x, 16) = IF s % 16 = 0 THEN id * 256 ELSE id
    BY <1>2, <1>3, <2>1, ZenonT(30)
  <2>3. 0 + id * 256 = id * 256 /\ 0 + id = id OBVIOUS
  <2>4. ~(Len(d) > 4)
    <3> DEFINE big == id * 256
    <3>1. big \in Nat /\ big < 65536 /\ id < 65536 BY ONLY id \in Nat, id <= 255
    <3>2. d = Hex(big) \/ d = Hex(id) BY <1>5, Zenon DEF NodeDigits
    <3> HIDE DEF big, d
    <3>3. ASSUME NEW k \in Nat, k < 65536 PROVE ~(Len(Hex(k)) > 4)
      <4> DEFINE l == Len(Hex(k))
      <4>1. l \in Nat /\ l <= 4 BY <3>3, HexLength, SMTT(30)
      <4> HIDE DEF l
      <4>2. ~(l > 4) BY ONLY <4>1
      <4> QED BY <4>2 DEF l
    <3> QED BY <3>1, <3>2, <3>3, SMTT(30)
  <2> QED BY <1>5, <2>1, <2>2, <2>3, <2>4
<1>6. CASE p # 0
  <2>1. s % 16 # 0 /\ (s + 8) % 16 = 0 /\ p % 256 = 0 /\ ~open
    BY <1>3, <1>6
  <2>2. lead \in DigitSeq /\ Len(lead) \in Nat /\ Len(lead) <= 2
        /\ Number(lead, 16) * 256 = p
    BY <1>6, <2>1, LeadOfByte
  <2>3. Len(d) = 2
    <3>1. CASE id < 16
      <4>1. d = <<0, id>> BY <2>1, <3>1 DEF NodeDigits
      <4> QED BY <3>1, <4>1, TwoDigits
    <3>2. CASE ~(id < 16)
      <4>1. d = Hex(id) BY <2>1, <3>2 DEF NodeDigits
      <4> DEFINE l == Len(Hex(id))
      <4>2. l \in Nat \ {0} /\ l <= 2 /\ l # 1
        <5>1. id < 256 OBVIOUS
        <5> QED BY <3>2, <5>1, HexLength
      <4>3. Len(d) = l BY <4>1
      <4> HIDE DEF l
      <4>4. l = 2 BY ONLY <4>2
      <4> QED BY ONLY <4>3, <4>4
    <3> QED BY <3>1, <3>2
  <2>4. Number(d, 16) = id BY <1>2, <2>1
  <2>5. x = lead \o d OBVIOUS
  <2> HIDE DEF lead, d
  <2>6. Number(x, 16) = Number(lead, 16) * 256 + Number(d, 16)
    <3>1. lead \in Seq(Nat) /\ d \in Seq(Nat) BY <1>2, <2>2 DEF DigitSeq, d
    <3> QED BY ONLY <2>3, <2>5, <3>1, ConcatNumber
  <2>7. Number(x, 16) = p + id BY <2>2, <2>4, <2>6
  <2>8. Len(x) = Len(lead) + 2
    <3>1. lead \in Seq(Nat) /\ d \in Seq(Nat) BY <1>2, <2>2 DEF DigitSeq, d
    <3>2. Len(lead \o d) = Len(lead) + Len(d) BY ONLY <3>1
    <3> QED BY ONLY <2>3, <2>5, <3>2
  <2> DEFINE l == Len(lead)
  <2>9. l \in Nat /\ l <= 2 /\ Len(x) = l + 2 BY <2>2, <2>8
  <2> HIDE DEF l
  <2>10. ~(Len(x) > 4) BY <2>9
  <2> QED BY <2>1, <2>7, <2>10
<1> QED BY <1>5, <1>6

(* The slice of an IPv6 network.                                           *)
LEMMA IPv6Slice ==
  ASSUME NEW net, IsNetwork(net), net.mode = "ipv6", TakesId(net),
         net.size % 8 = 0, NEW id \in Nat, id <= 255
  PROVE  PodSubnet(PodNetInfo(net), id) = PodSlice(net, id)
<1> DEFINE parts == net.parts
           s == net.size
           m == s \div 16
           p == parts[m + 1]
           P == MakePrefixFromNetwork(IPv6Text(parts), s)
           open == PodNetInfo(net).prefix.open
           d == NodeDigits(s + 8, open, id)
           x == Lead(p) \o d
           slice == IF s % 16 = 0 THEN id * 256 ELSE id
           changed == [parts EXCEPT ![m + 1] = @ + slice]
<1>1. /\ parts \in [1..8 -> Words] /\ IsCut(net)
      /\ s \in 0..104 /\ s % 8 = 0
      /\ ZeroRuns(parts) # {} /\ LongestRun(parts)[2] = 8
  <2>1. parts \in [1..8 -> Words] /\ IsCut(net) BY DEF IsNetwork
  <2>2. ZeroRuns(parts) # {} /\ LongestRun(parts)[2] = 8 /\ s \in 0..111
    BY TakesIdMeans
  <2>3. s \in 0..104
    <3> HIDE DEF s
    <3>1. s % 8 = 0 BY DEF s
    <3> QED BY ONLY <2>2, <3>1
  <2> QED BY <2>1, <2>2, <2>3
<1>2. /\ s \in 0..127 /\ m \in 0..7 /\ m < 7 /\ m + 1 \in 1..8 /\ s + 8 \in Nat
      /\ s + 8 <= 128 /\ s + 8 \in Nat
      /\ s % 16 = 0 => (m + 1 - 1) * 16 >= s
      /\ s % 16 # 0 => s - (m + 1 - 1) * 16 = 8
  <2> HIDE DEF s
  <2>1. s \in 0..104 /\ s % 8 = 0 BY <1>1
  <2> QED BY ONLY <2>1 DEF m
<1>3. p \in Words BY <1>1, <1>2
<1>4. (s % 16 = 0 => p = 0) /\ (s % 16 # 0 => p % 256 = 0)
  <2> HIDE DEF s, m
  <2> DEFINE k == m + 1
  <2>0. net.size = s BY DEF s
  <2> HIDE DEF k
  <2>1. k \in 1..8 /\ (s % 16 = 0 => (k - 1) * 16 >= s)
        /\ (s % 16 # 0 => s - (k - 1) * 16 = 8)
    BY <1>2 DEF k
  <2>2. ((k - 1) * 16 >= s => parts[k] = 0)
        /\ (s - (k - 1) * 16 = 8 => parts[k] % 256 = 0)
    <3>1. net.parts \in [1..8 -> Words] /\ IsCut(net) BY <1>1
    <3>2. s \in 0..127 BY <1>2
    <3>3. ((k - 1) * 16 >= s => net.parts[k] = 0)
          /\ (s - (k - 1) * 16 = 8 => net.parts[k] % 256 = 0)
      BY ONLY net.mode = "ipv6", <2>0, <2>1, <3>1, <3>2, PartsCut, ZenonT(60)
    <3> QED BY ONLY <3>3 DEF parts
  <2> QED BY <2>1, <2>2 DEF k
<1>5. (p = 0 => open) /\ (p # 0 => ~open)
  <2>1. PodNetInfo(net).prefix = P BY PodNetFields
  <2>2. /\ p = 0 => P.open
        /\ p # 0 => ~P.open
    BY <1>1, <1>2, PlainPrefix, ZenonT(40)
  <2> QED BY <2>1, <2>2
<1>6. ~(Len(x) > 4) /\ Number(x, 16) = p + slice
  <2> DEFINE o == open
  <2>1. x = Lead(p) \o NodeDigits(s + 8, o, id) OBVIOUS
  <2> DEFINE q == p
  <2>2. /\ q \in Words /\ (q = 0 => o) /\ (q # 0 => ~o)
        /\ (s % 16 = 0 => q = 0) /\ (s % 16 # 0 => q % 256 = 0)
        /\ s \in 0..104 /\ s % 8 = 0 /\ x = Lead(q) \o NodeDigits(s + 8, o, id)
    BY <1>1, <1>3, <1>4, <1>5, <2>1
  <2> HIDE DEF o, x, q, s
  <2>3. /\ ~(Len(x) > 4)
        /\ Number(x, 16) = q + (IF s % 16 = 0 THEN id * 256 ELSE id)
    BY ONLY id \in Nat, id <= 255, <2>2, SlicePart, ZenonT(120)
  <2> QED BY <2>3 DEF q
<1>7. ParseIP(SubnetText(net, id)) = SubnetParts(parts, m, x)
  <2>1. d \in DigitSeq BY <1>2, NodeDigitsFacts
  <2>2. ParseIP(AddGap(AddDigits(P, d)))
          = IF ~(Len(x) > 4) /\ m < 7 THEN SubnetParts(parts, m, x)
            ELSE Malformed
    <3> HIDE DEF d
    <3>1. x = Lead(net.parts[m + 1]) \o d OBVIOUS
    <3> HIDE DEF x, m, s
    <3>2. m = s \div 16 /\ net.size = s BY DEF m, s
    <3>3. /\ net.parts \in [1..8 -> Words] /\ IsCut(net) /\ ZeroRuns(net.parts) # {}
          /\ LongestRun(net.parts)[2] = 8 /\ s \in 0..127 /\ m \in 0..7
      BY <1>1, <1>2
    <3>4. ParseIP(AddGap(AddDigits(MakePrefixFromNetwork(IPv6Text(net.parts), s), d)))
            = IF ~(Len(x) > 4) /\ m < 7 THEN SubnetParts(net.parts, m, x)
              ELSE Malformed
      BY ONLY net.mode = "ipv6", <2>1, <3>1, <3>2, <3>3, PlainSubnet, ZenonT(60)
    <3> QED BY <3>4
  <2> QED BY <1>2, <1>6, <2>2 DEF SubnetText
<1> HIDE DEF x, d
<1>8. SubnetParts(parts, m, x) # Malformed
  <2>1. DOMAIN SubnetParts(parts, m, x) = 1..8 BY DEF SubnetParts
  <2>2. DOMAIN Malformed = {} BY DEF Malformed
  <2>3. 1 \in 1..8 OBVIOUS
  <2> QED BY <2>1, <2>2, <2>3
<1>9. PodSubnet(PodNetInfo(net), id)
        = [mode |-> "ipv6", parts |-> SubnetParts(parts, m, x), size |-> s + 8]
  <2>1. ~(s + 8 > 128) BY <1>2
  <2> QED BY <1>7, <1>8, <2>1, IPv6SubnetText
<1>10. SubnetParts(parts, m, x) = changed
  <2> DEFINE new == SubnetParts(parts, m, x)
  <2>1. \A k \in 1..8 : new[k] = IF k <= m THEN parts[k]
                                 ELSE IF k = m + 1 THEN Number(x, 16) ELSE 0
    BY DEF SubnetParts
  <2>2. new = [k \in 1..8 |-> new[k]] BY DEF SubnetParts
  <2>3. changed = [k \in 1..8 |-> changed[k]] BY <1>1
  <2>4. \A k \in 1..8 : changed[k] = IF k = m + 1 THEN p + slice ELSE parts[k]
    BY <1>1
  <2>5. ASSUME NEW k \in 1..8, k > m + 1 PROVE parts[k] = 0
    <3> HIDE DEF s
    <3>1. s \in 0..104 BY <1>1
    <3>2. (k - 1) * 16 >= s BY ONLY <3>1, k \in 1..8, k > m + 1 DEF m
    <3>3. net.size = s BY DEF s
    <3> QED BY <1>1, <1>2, <3>2, <3>3, PartsCut, ZenonT(30)
  <2> HIDE DEF new, changed
  <2>6. ASSUME NEW k \in 1..8 PROVE new[k] = changed[k]
    <3> HIDE DEF m, p, slice
    <3>1. m \in 0..7 BY <1>2
    <3>2. CASE k <= m
      <4>1. k # m + 1 BY <3>1, <3>2
      <4> QED BY <2>1, <2>4, <3>2, <4>1
    <3>3. CASE k = m + 1
      <4>1. ~(k <= m) BY <3>1, <3>3
      <4> QED BY <1>6, <2>1, <2>4, <3>3, <4>1
    <3>4. CASE k > m + 1
      <4>1. ~(k <= m) /\ k # m + 1 BY <3>1, <3>4
      <4> QED BY <2>1, <2>4, <2>5, <3>4, <4>1
    <3> QED BY <3>1, <3>2, <3>3, <3>4
  <2>7. new = changed BY <2>2, <2>3, <2>6
  <2> QED BY <2>7 DEF new
<1>11. PodSlice(net, id) = [mode |-> "ipv6", parts |-> changed, size |-> s + 8]
  <2>1. PartBits(net) = 16 BY DEF PartBits
  <2> DEFINE part == m + 1
  <2>2. part = net.size \div PartBits(net) + 1 BY <2>1
  <2>3. slice = IF net.size % PartBits(net) = 0 /\ net.mode = "ipv6"
                THEN id * 256 ELSE id
    BY <2>1
  <2> HIDE DEF part, slice
  <2>4. PodSlice(net, id)
          = [mode |-> net.mode, parts |-> [net.parts EXCEPT ![part] = @ + slice],
             size |-> net.size + 8]
    BY <2>2, <2>3, SliceFields
  <2> QED BY <2>4 DEF part
<1> QED BY <1>9, <1>10, <1>11

(* A network that does not take an id has none.                            *)
LEMMA NoSlice ==
  ASSUME NEW net, IsNetwork(net), ~TakesId(net), NEW id \in Nat
  PROVE  PodSubnet(PodNetInfo(net), id) = NoNet
<1>1. net.mode = "ipv6" BY DEF TakesId
<1> SUFFICES ASSUME PodSubnet(PodNetInfo(net), id) # NoNet PROVE FALSE
  OBVIOUS
<1>2. /\ net.size \in 0..111
      /\ ZeroRuns(net.parts) # {} /\ LongestRun(net.parts)[2] = 8
  BY <1>1, IPv6Subnet
<1> QED BY <1>1, <1>2, TakesIdMeans

(* The pod subnet of a node is the slice that its id selects.              *)
LEMMA SubnetIsSlice ==
  ASSUME NEW net, IsNetwork(net), net.mode = "ipv4" => net.size = 16,
         net.size % 8 = 0, NEW id \in Nat, id <= 255
  PROVE  PodSubnet(PodNetInfo(net), id)
           = IF TakesId(net) THEN PodSlice(net, id) ELSE NoNet
<1>1. CASE ~TakesId(net) BY <1>1, NoSlice
<1>2. CASE TakesId(net) /\ net.mode = "ipv4" BY <1>2, IPv4Slice
<1>3. CASE TakesId(net) /\ net.mode = "ipv6" BY <1>3, IPv6Slice
<1> QED BY <1>1, <1>2, <1>3 DEF IsNetwork

-----------------------------------------------------------------------------
(* Addresses of nodes *)

(* The part of an address that a node's id goes to.                        *)
LastPart(net) == IF net.mode = "ipv6" THEN 8 ELSE 4

(* A node's address: the network's, with the id for its last part.         *)
NodeAddress(net, id) ==
  [i \in 1..LastPart(net) |-> IF i = LastPart(net) THEN id ELSE net.parts[i]]

(* Addresses of different nodes in a network, and in networks of different *)
(* families, are different, and none is malformed.                         *)
LEMMA NodesApart ==
  ASSUME NEW net, NEW other, NEW i, NEW j,
         i # j \/ (net.mode = "ipv6") # (other.mode = "ipv6")
  PROVE  /\ NodeAddress(net, i) # NodeAddress(other, j)
         /\ Len(NodeAddress(net, i)) = LastPart(net)
         /\ NodeAddress(net, i) # Malformed
<1> DEFINE x == NodeAddress(net, i)
           y == NodeAddress(other, j)
<1>1. LastPart(net) \in {4, 8} /\ LastPart(other) \in {4, 8} BY DEF LastPart
<1>2. DOMAIN x = 1..LastPart(net) /\ DOMAIN y = 1..LastPart(other)
      /\ x[LastPart(net)] = i /\ y[LastPart(other)] = j
  BY <1>1 DEF NodeAddress
<1>3. Len(x) = LastPart(net) /\ Len(y) = LastPart(other)
  <2>1. LastPart(net) \in Nat /\ LastPart(other) \in Nat BY <1>1
  <2> QED BY <1>2, <2>1 DEF NodeAddress
<1>4. x # y
  <2>1. CASE (net.mode = "ipv6") # (other.mode = "ipv6")
    <3>1. LastPart(net) # LastPart(other) BY <2>1 DEF LastPart
    <3> HIDE DEF x, y
    <3> QED BY <1>3, <3>1
  <2>2. CASE ~((net.mode = "ipv6") # (other.mode = "ipv6"))
    <3>1. i # j /\ LastPart(net) = LastPart(other) BY <2>2 DEF LastPart
    <3> HIDE DEF x, y
    <3> QED BY <1>2, <3>1
  <2> QED BY <2>1, <2>2
<1>5. x # Malformed
  <2>1. LastPart(net) \in 1..LastPart(net) BY <1>1
  <2>2. DOMAIN Malformed = {} BY DEF Malformed
  <2> HIDE DEF x, y
  <2> QED BY <1>2, <2>1, <2>2
<1> QED BY <1>3, <1>4, <1>5

(* A node's address in an IPv4 network.                                    *)
LEMMA IPv4Address ==
  ASSUME NEW net, IsNetwork(net), net.mode = "ipv4", NEW id \in Nat, id <= 255
  PROVE  ParseIP(AddDigits(NetInfo(net).prefix, Dec(id))) = NodeAddress(net, id)
<1> DEFINE p == MakeV4PrefixFromNetwork(net)
           t == AddDigits(p, Dec(id))
           three == [i \in 1..3 |-> Dec(net.parts[i])]
           a == Dec(net.parts[1])
           b == Dec(net.parts[2])
           c == Dec(net.parts[3])
           d == Dec(id)
           w == <<a, b, c, d>>
           parts == NodeAddress(net, id)
<1>1. net # NoNet BY DEF NoNet
<1>2. NetInfo(net) = [prefix |-> p, size |-> net.size, mode |-> net.mode]
  BY <1>1, Zenon DEF NetInfo
<1>3. NetInfo(net).prefix = p BY <1>2
<1>4. IsText(p, 10, three, {}) /\ p.open
  <2>1. p = [base |-> 10, words |-> three, gaps |-> {}, open |-> TRUE]
    BY DEF MakeV4PrefixFromNetwork
  <2> HIDE DEF p, three
  <2> QED BY <2>1 DEF IsText, TextFields
<1> HIDE DEF p
<1>5. three = <<a, b, c>>
  <2>1. DOMAIN three = 1..3 /\ three[1] = a /\ three[2] = b /\ three[3] = c
    OBVIOUS
  <2>2. three = [i \in 1..3 |-> three[i]] OBVIOUS
  <2> HIDE DEF three, a, b, c
  <2> QED BY <2>1, <2>2
<1> HIDE DEF three, a, b, c, d
<1>6. Append(<<a, b, c>>, d) = w BY FourWords
<1>7. IsText(t, 10, Append(three, d), {}) BY <1>4, DigitsAdded DEF d
<1>8. ~t.open BY <1>4 DEF AddDigits, IsText, TextFields
<1>9. t.base = 10 /\ t.words = w /\ ~t.open
  BY <1>5, <1>6, <1>7, <1>8 DEF IsText
<1> HIDE DEF t
<1>10. Len(w) = 4 /\ w[1] = a /\ w[2] = b /\ w[3] = c /\ w[4] = d OBVIOUS
<1> HIDE DEF w
<1>11. net.parts \in [1..4 -> Octets] BY DEF IsNetwork
<1>12. \A i \in 1..4 : net.parts[i] \in Nat /\ net.parts[i] <= 255
  BY <1>11, SMTT(30) DEF Octets
<1>13. /\ DOMAIN parts = 1..4 /\ parts[1] = net.parts[1]
       /\ parts[2] = net.parts[2] /\ parts[3] = net.parts[3] /\ parts[4] = id
       /\ parts = [i \in 1..4 |-> parts[i]]
  BY DEF NodeAddress, LastPart
<1> HIDE DEF parts
<1>14. ASSUME NEW i \in 1..4
       PROVE  w[i] = Dec(parts[i]) /\ parts[i] \in Nat /\ parts[i] <= 255
  <2>1. i = 1 \/ i = 2 \/ i = 3 \/ i = 4 OBVIOUS
  <2> QED BY <2>1, <1>10, <1>12, <1>13 DEF a, b, c, d
<1>15. ASSUME NEW i \in 1..4
       PROVE  /\ Number(w[i], 10) = parts[i]
              /\ \A j \in DOMAIN w[i] : w[i][j] < 10
  BY <1>14, DecFacts
<1>16. \A i \in 1..4 : Number(w[i], 10) <= 255 BY <1>14, <1>15
<1>17. ParseIP(t) = [i \in 1..4 |-> Number(w[i], 10)]
  <2>1. ParseIP(t) = ParseIPv4(t) BY <1>9 DEF ParseIP
  <2>2. \A i \in 1..4 : \A j \in DOMAIN w[i] : w[i][j] < 10 BY <1>15
  <2> QED BY <1>9, <1>10, <1>16, <2>1, <2>2 DEF ParseIPv4
<1>18. [i \in 1..4 |-> Number(w[i], 10)] = [i \in 1..4 |-> parts[i]] BY <1>15
<1>19. ParseIP(t) = parts BY <1>13, <1>17, <1>18
<1> QED BY <1>3, <1>19 DEF t, d, parts

(* ParseIPv6 by the fields of its text.                                    *)
LEMMA ParseWords ==
  ASSUME NEW text, NEW words, NEW gaps, text.words = words, text.gaps = gaps
  PROVE  ParseIPv6(text) =
           IF ~ShortWords(words) THEN Malformed
           ELSE CASE gaps = {} /\ Len(words) = 8 /\ ~text.open ->
                       [i \in 1..8 |-> Number(words[i], 16)]
                  [] /\ Cardinality(gaps) = 1 /\ Len(words) < 8
                     /\ text.open => gaps = {Len(words)} ->
                       PartsAt(words, gaps)
                  [] OTHER -> Malformed
<1> DEFINE long == \E i \in DOMAIN words : Len(words[i]) > 4
           full == text.gaps = {} /\ Len(words) = 8 /\ ~text.open
           gapped == /\ Cardinality(text.gaps) = 1 /\ Len(words) < 8
                     /\ text.open => text.gaps = {Len(words)}
           all == [i \in 1..8 |-> Number(words[i], 16)]
           parts == [i \in 1..8 |-> PartAt(words, gaps, i)]
<1>1. ParseIPv6(text) = IF long THEN Malformed
                        ELSE CASE full -> all [] gapped -> parts
                               [] OTHER -> Malformed
  BY DEF ParseIPv6, PartAt
<1>2. parts = PartsAt(words, gaps) BY Zenon DEF PartsAt
<1>3. long <=> ~ShortWords(words) BY Zenon DEF ShortWords
<1> HIDE DEF long, parts
<1>4. ParseIPv6(text) = IF ~ShortWords(words) THEN Malformed
                        ELSE CASE full -> all [] gapped -> PartsAt(words, gaps)
                               [] OTHER -> Malformed
  BY <1>1, <1>2, <1>3
<1> QED BY <1>4

(* ParseIPv6 of eight words, without a "::".                               *)
LEMMA ParseFull ==
  ASSUME NEW text, NEW words, IsText(text, 16, words, {}), ~text.open,
         Len(words) = 8, ShortWords(words)
  PROVE  ParseIP(text) = [i \in 1..8 |-> Number(words[i], 16)]
<1> DEFINE full == {} = {} /\ Len(words) = 8 /\ ~text.open
           all == [i \in 1..8 |-> Number(words[i], 16)]
           gapped == /\ Cardinality({}) = 1 /\ Len(words) < 8
                     /\ text.open => {} = {Len(words)}
           parts == PartsAt(words, {})
<1>0. text.base = 16 /\ text.words = words /\ text.gaps = {} BY DEF IsText
<1>1. ParseIP(text) = ParseIPv6(text) BY <1>0 DEF ParseIP
<1>2. ParseIPv6(text) = IF ~ShortWords(words) THEN Malformed
                        ELSE CASE full -> all [] gapped -> parts
                               [] OTHER -> Malformed
  BY <1>0, ParseWords
<1>3. full /\ ~gapped OBVIOUS
<1> HIDE DEF full, gapped, all, parts
<1>4. ParseIPv6(text) = all BY <1>2, <1>3
<1> QED BY <1>1, <1>4 DEF all

(* ParseIPv6 of n words with a "::" after the first g.                     *)
Apart(words, g, n) ==
  [i \in 1..8 |-> IF i <= g THEN Number(words[i], 16)
                  ELSE IF i > 8 - (n - g) THEN Number(words[i - 8 + n], 16)
                  ELSE 0]

LEMMA ParseInside ==
  ASSUME NEW text, NEW words, NEW g \in Nat, NEW n \in Nat,
         IsText(text, 16, words, {g}), ~text.open, Len(words) = n, n < 8,
         ShortWords(words)
  PROVE  ParseIP(text) = Apart(words, g, n)
<1> DEFINE full == {g} = {} /\ n = 8 /\ ~text.open
           gapped == /\ Cardinality({g}) = 1 /\ n < 8
                     /\ text.open => {g} = {n}
           all == [i \in 1..8 |-> Number(words[i], 16)]
           parts == PartsAt(words, {g})
<1>0. text.base = 16 /\ text.words = words /\ text.gaps = {g} BY DEF IsText
<1>1. ParseIP(text) = ParseIPv6(text) BY <1>0 DEF ParseIP
<1>2. ParseIPv6(text) = IF ~ShortWords(words) THEN Malformed
                        ELSE CASE full -> all [] gapped -> parts
                               [] OTHER -> Malformed
  BY <1>0, ParseWords
<1>3. Cardinality({g}) = 1 BY FS_Singleton
<1>4. ~full /\ gapped BY <1>3
<1>5. ASSUME NEW i \in 1..8
      PROVE  PartAt(words, {g}, i)
               = IF i <= g THEN Number(words[i], 16)
                 ELSE IF i > 8 - (n - g) THEN Number(words[i - 8 + n], 16)
                 ELSE 0
  <2> DEFINE before == CHOOSE k \in {g} : TRUE
             after  == n - before
  <2>1. before = g OBVIOUS
  <2>2. PartAt(words, {g}, i) =
          CASE i <= before -> Number(words[i], 16)
            [] i > 8 - after -> Number(words[i - 8 + n], 16)
            [] OTHER -> 0
    BY Zenon DEF PartAt
  <2> HIDE DEF before
  <2>3. i > 8 - after <=> i > 8 - (n - g) BY <2>1
  <2> HIDE DEF after
  <2>4. ASSUME i <= g, i > 8 - (n - g) PROVE FALSE BY <2>4
  <2>5. CASE i <= g BY <2>1, <2>2, <2>3, <2>4, <2>5
  <2>6. CASE ~(i <= g) /\ i > 8 - (n - g) BY <2>1, <2>2, <2>3, <2>6
  <2>7. CASE ~(i <= g) /\ ~(i > 8 - (n - g)) BY <2>1, <2>2, <2>3, <2>7
  <2> QED BY <2>5, <2>6, <2>7
<1>6. parts = Apart(words, g, n) BY <1>5, Zenon DEF PartsAt, Apart
<1> HIDE DEF full, gapped, all, parts
<1>7. ParseIPv6(text) = parts BY <1>2, <1>4
<1> QED BY <1>1, <1>6, <1>7

(* A digit added to the last word of a text, that is zero.                 *)
LEMMA DigitAfterZero ==
  ASSUME NEW t, NEW w \in TextWords, NEW gaps, IsText(t, 16, w, gaps), ~t.open,
         NEW n \in Nat, Len(w) = n, n > 0, w[n] = << 0 >>, NEW id \in Nat,
         NEW text, text = AddDigits(t, <<id>>)
  PROVE  /\ IsText(text, 16, text.words, gaps) /\ ~text.open
         /\ Len(text.words) = n /\ DOMAIN text.words = 1..n
         /\ text.words[n] = <<0, id>>
         /\ \A i \in 1..n : i # n => text.words[i] = w[i]
<1> DEFINE v == [w EXCEPT ![n] = @ \o <<id>>]
<1>1. IsText(text, 16, v, gaps)
  <2>1. IsText(text, 16, [w EXCEPT ![Len(w)] = @ \o <<id>>], gaps)
    BY DigitsAdded
  <2> QED BY <2>1
<1>2. ~text.open
  <2>1. text = [t EXCEPT !.words[Len(t.words)] = @ \o <<id>>]
    BY Zenon DEF AddDigits
  <2> QED BY <2>1 DEF IsText, TextFields
<1>3. w[n] \o <<id>> = <<0, id>>
  <2>1. <<0>> \o <<id>> = <<0, id>>
    <3>1. <<0>> \in Seq(Nat) /\ id \in Nat OBVIOUS
    <3> QED BY <3>1, AppendIsConcat, LastDigit
  <2> QED BY <2>1
<1>4. Len(v) = n /\ DOMAIN v = 1..n /\ v[n] = <<0, id>>
      /\ \A i \in 1..n : i # n => v[i] = w[i]
  <2>1. DOMAIN w = 1..n BY DEF TextWords
  <2>2. n \in 1..n OBVIOUS
  <2>3. v = [i \in 1..n |-> IF i = n THEN <<0, id>> ELSE w[i]]
    BY <1>3, <2>1, <2>2
  <2> HIDE DEF v
  <2> QED BY <2>2, <2>3
<1>5. text.words = v BY <1>1 DEF IsText
<1> HIDE DEF v
<1> QED BY <1>1, <1>2, <1>4, <1>5

(* One digit more makes a node's address of an IPv6 network: as a word of  *)
(* its own after a "::" at the end, or in the last word, that is zero.     *)
LEMMA IPv6Address ==
  ASSUME NEW net, IsNetwork(net), net.mode = "ipv6", net.size <= 112,
         NEW id \in Nat, id < 16
  PROVE  ParseIP(AddDigits(IPv6Text(net.parts), <<id>>)) = NodeAddress(net, id)
<1> DEFINE parts == net.parts
           t == IPv6Text(parts)
           ip == NodeAddress(net, id)
           r == LongestRun(parts)
           text == AddDigits(t, <<id>>)
<1>1. parts \in [1..8 -> Words] /\ parts[8] = 0
  BY LastPartFree
<1>2. DOMAIN ip = 1..8 /\ ip = [i \in 1..8 |-> IF i = 8 THEN id ELSE parts[i]]
  BY DEF NodeAddress, LastPart
<1>3. Hex(id) = <<id>> /\ Hex(0) = <<0>> /\ Number(<<id>>, 16) = id
  <2>1. 16 \in Bases /\ 0 < 16 BY DEF Bases
  <2>2. Hex(id) = <<id>> /\ Hex(0) = <<0>> BY <2>1, DigitsUnfold DEF Hex
  <2> QED BY <2>2, HexNumber
<1>4. <<id>> \in DigitSeq /\ Len(<<id>>) = 1 BY DEF DigitSeq
<1> HIDE DEF ip, text
<1>5. CASE ZeroRuns(parts) = {}
  <2> DEFINE w == HexWords(parts, 1, 8)
  <2>1. IsText(t, 16, w, {}) /\ ~t.open BY <1>1, <1>5, IPv6TextFields
  <2>2. w \in TextWords /\ Len(w) = 8 /\ \A i \in 1..8 : w[i] = Hex(parts[i])
    <3>1. 8 \in 0..8 OBVIOUS
    <3> QED BY <1>1, <3>1, FirstWords
  <2> HIDE DEF w, t
  <2>4. w[8] = <<0>> BY <1>1, <1>3, <2>2
  <2>5. PICK v : /\ IsText(text, 16, v, {}) /\ ~text.open
                 /\ Len(v) = 8 /\ DOMAIN v = 1..8 /\ v[8] = <<0, id>>
                 /\ \A i \in 1..8 : i # 8 => v[i] = w[i]
    <3> DEFINE gaps == {}
               n == 8
    <3>1. IsText(t, 16, w, gaps) /\ ~t.open BY <2>1
    <3>2. w \in TextWords /\ Len(w) = n /\ n \in Nat /\ n > 0 /\ w[n] = <<0>>
      BY <2>2, <2>4
    <3> HIDE DEF gaps, n
    <3>3. text = AddDigits(t, <<id>>) /\ id \in Nat BY DEF text
    <3>4. /\ IsText(text, 16, text.words, gaps) /\ ~text.open
          /\ Len(text.words) = n /\ DOMAIN text.words = 1..n
          /\ text.words[n] = <<0, id>>
          /\ \A i \in 1..n : i # n => text.words[i] = w[i]
      BY ONLY <3>1, <3>2, <3>3, DigitAfterZero, SMTT(60)
    <3> QED BY <3>4 DEF gaps, n
  <2>6. ASSUME NEW i \in 1..8 PROVE Number(v[i], 16) = ip[i] /\ ~(Len(v[i]) > 4)
    <3>1. CASE i = 8
      <4>1. Len(<<0, id>>) = 2 /\ Number(<<0, id>>, 16) = id BY TwoDigits
      <4>2. v[i] = <<0, id>> /\ ip[i] = id BY <3>1, <2>5, <1>2
      <4> QED BY <4>1, <4>2
    <3>2. CASE i # 8
      <4>1. v[i] = Hex(parts[i]) /\ ip[i] = parts[i] BY <3>2, <2>2, <2>5, <1>2
      <4>2. parts[i] \in Words BY <1>1
      <4> QED BY <4>1, <4>2, WordFacts
    <3> QED BY <3>1, <3>2
  <2>7. ShortWords(v) BY <2>5, <2>6 DEF ShortWords
  <2>8. ParseIP(text) = [i \in 1..8 |-> Number(v[i], 16)]
    BY <2>5, <2>7, ParseFull
  <2>9. [i \in 1..8 |-> Number(v[i], 16)] = [i \in 1..8 |-> ip[i]] BY <2>6
  <2>10. ip = [i \in 1..8 |-> ip[i]] BY <1>2
  <2> QED BY <2>8, <2>9, <2>10 DEF text, ip, t
<1>6. CASE ZeroRuns(parts) # {} /\ r[2] = 8
  <2>1. r \in ZeroRuns(parts) /\ r[2] = 8 BY <1>6, LongestRunFacts
  <2>2. r[1] \in 1..7 /\ \A k \in r[1]..8 : parts[k] = 0
    BY <2>1 DEF ZeroRuns
  <2> HIDE DEF r
  <2> DEFINE g == r[1] - 1
             w == HexWords(parts, 1, g)
             v == Append(w, <<id>>)
  <2>3. IsText(t, 16, w, {g}) /\ t.open
    <3>1. IsText(t, 16, HexWords(parts, 1, r[1] - 1)
                          \o HexWords(parts, r[2] + 1, 8), {r[1] - 1})
          /\ (t.open <=> r[2] = 8)
      BY <1>1, <1>6, IPv6TextFields DEF r
    <3>2. HexWords(parts, r[2] + 1, 8) = <<>> BY <2>1, NoLastWords
    <3>3. w \o <<>> = w
      <4>1. g \in 0..8 BY <2>2
      <4>2. w \in TextWords BY <1>1, <4>1, FirstWords
      <4> HIDE DEF w
      <4> QED BY <4>2 DEF TextWords
    <3> QED BY <2>1, <3>1, <3>2, <3>3
  <2>4. g \in 0..6 BY <2>2
  <2>5. w \in TextWords /\ Len(w) = g /\ \A i \in 1..g : w[i] = Hex(parts[i])
    <3>1. g \in 0..8 BY <2>4
    <3> HIDE DEF g
    <3> QED BY <1>1, <3>1, FirstWords
  <2>6. \A k \in (g + 1)..8 : parts[k] = 0 BY <2>2
  <2> HIDE DEF w, t, g
  <2>7. IsText(text, 16, v, {g}) /\ ~text.open
    <3>1. IsText(text, 16, v, {g}) BY <2>3, DigitsAdded DEF text
    <3>2. ~text.open
      <4>1. text = [t EXCEPT !.words = Append(@, <<id>>), !.open = FALSE]
        BY <2>3, Zenon DEF text, AddDigits
      <4> QED BY <2>3, <4>1 DEF IsText, TextFields
    <3> QED BY <3>1, <3>2
  <2>8. Len(v) = g + 1 /\ DOMAIN v = 1..(g + 1) /\ v[g + 1] = <<id>>
        /\ \A i \in 1..g : v[i] = Hex(parts[i])
    BY <1>4, <2>4, <2>5 DEF TextWords
  <2> HIDE DEF v
  <2>9. ASSUME NEW i \in 1..g
        PROVE  Number(v[i], 16) = parts[i] /\ ~(Len(v[i]) > 4)
    <3>1. i \in 1..8 BY <2>4
    <3>2. parts[i] \in Words BY <1>1, <3>1
    <3> QED BY <2>8, <3>2, WordFacts
  <2>10. ShortWords(v)
    <3> SUFFICES ASSUME NEW i \in DOMAIN v PROVE ~(Len(v[i]) > 4)
      BY DEF ShortWords
    <3>1. i \in 1..g \/ i = g + 1 BY <2>4, <2>8
    <3>2. CASE i \in 1..g BY <3>2, <2>9
    <3>3. CASE i = g + 1
      <4>1. Len(v[i]) = 1 BY <3>3, <2>8, <1>4
      <4>2. ~(1 > 4) OBVIOUS
      <4> QED BY <4>1, <4>2
    <3> QED BY <3>1, <3>2, <3>3
  <2> DEFINE n == g + 1
  <2>11. n \in Nat /\ n < 8 /\ n - g = 1 /\ n = g + 1 BY <2>4
  <2> HIDE DEF n
  <2>12. ParseIP(text) = Apart(v, g, n)
    <3>1. Len(v) = n /\ g \in Nat BY <2>4, <2>8, <2>11
    <3> QED BY ONLY <2>7, <2>10, <2>11, <3>1, ParseInside
  <2>13. ASSUME NEW i \in 1..8
         PROVE  (IF i <= g THEN Number(v[i], 16)
                 ELSE IF i > 8 - (n - g) THEN Number(v[i - 8 + n], 16)
                 ELSE 0) = ip[i]
    <3>0. i > 8 - (n - g) <=> i = 8 BY <2>11
    <3>1. CASE i <= g
      <4>1. i \in 1..g /\ i # 8 BY <3>1, <2>4
      <4> QED BY <3>1, <4>1, <2>9, <1>2
    <3>2. CASE ~(i <= g) /\ i = 8
      <4>1. i - 8 + n = g + 1 BY <3>2, <2>11
      <4>2. Number(v[g + 1], 16) = id BY <2>8, <1>3
      <4> QED BY <3>0, <3>2, <4>1, <4>2, <1>2
    <3>3. CASE ~(i <= g) /\ i # 8
      <4>1. i \in (g + 1)..8 BY <3>3, <2>4
      <4> QED BY <3>0, <3>3, <4>1, <2>6, <1>2
    <3> QED BY <3>1, <3>2, <3>3
  <2>14. ParseIP(text) = [i \in 1..8 |-> ip[i]]
    BY <2>12, <2>13, Zenon DEF Apart
  <2>15. ip = [i \in 1..8 |-> ip[i]] BY <1>2
  <2> QED BY <2>14, <2>15 DEF text, ip, t
<1>7. CASE ZeroRuns(parts) # {} /\ r[2] # 8
  <2>1. /\ r[1] \in 1..7 /\ r[2] \in 1..7 /\ r[1] < r[2]
        /\ \A k \in r[1]..r[2] : parts[k] = 0
    <3>1. r \in ZeroRuns(parts) BY <1>7, LongestRunFacts
    <3> HIDE DEF r
    <3> QED BY <1>7, <3>1 DEF ZeroRuns
  <2>2. IsText(t, 16, HexWords(parts, 1, r[1] - 1) \o HexWords(parts, r[2] + 1, 8),
               {r[1] - 1}) /\ ~t.open
    BY <1>1, <1>7, IPv6TextFields
  <2> HIDE DEF r
  <2> DEFINE g == r[1] - 1
             e == r[2]
             k == 8 - e
             n == g + k
             w1 == HexWords(parts, 1, g)
             w2 == HexWords(parts, e + 1, 8)
             w == w1 \o w2
  <2>3. /\ g \in Nat /\ e \in 1..7 /\ k \in 1..7 /\ n \in 1..7 /\ g < e
        /\ \A i \in (g + 1)..e : parts[i] = 0
    BY <2>1
  <2>4. w1 \in TextWords /\ Len(w1) = g /\ \A i \in 1..g : w1[i] = Hex(parts[i])
    <3>1. g \in 0..8 BY <2>1
    <3> HIDE DEF g
    <3> QED BY <1>1, <3>1, FirstWords
  <2>5. w2 \in TextWords /\ Len(w2) = k
        /\ \A i \in 1..k : w2[i] = Hex(parts[e + i])
    <3>1. e \in 0..8 BY <2>3
    <3> HIDE DEF e
    <3> QED BY <1>1, <3>1, LastWords
  <2>6. IsText(t, 16, w, {g}) /\ ~t.open BY <2>2
  <2> HIDE DEF w1, w2, t, g, e
  <2>7. w \in TextWords /\ Len(w) = n
        /\ (\A i \in 1..g : w[i] = w1[i])
        /\ \A i \in 1..k : w[g + i] = w2[i]
    <3>0. k \in Nat BY <2>3
    <3>1. w \in TextWords /\ Len(w) = n
      BY <2>3, <2>4, <2>5, <3>0, Concatenated, SMTT(30)
    <3>2. \A i \in 1..g : w[i] = w1[i] BY <2>4, <2>5 DEF TextWords
    <3>3. ASSUME NEW i \in 1..k PROVE w[g + i] = w2[i]
      <4>1. w1 \in Seq(DigitSeq) /\ w2 \in Seq(DigitSeq) BY <2>4, <2>5 DEF TextWords
      <4>2. g + i > Len(w1) /\ g + i - Len(w1) = i /\ g + i \in 1..(Len(w1) + Len(w2))
        BY <2>3, <2>4, <2>5
      <4> HIDE DEF k
      <4>3. \A j \in 1..(Len(w1) + Len(w2)) :
              w[j] = IF j <= Len(w1) THEN w1[j] ELSE w2[j - Len(w1)]
        BY ONLY <4>1, ConcatProperties, Zenon DEF w
      <4> HIDE DEF w
      <4> DEFINE j == g + i
      <4>4. j \in 1..(Len(w1) + Len(w2)) /\ ~(j <= Len(w1)) /\ j - Len(w1) = i
        BY <2>3, <2>4, <4>2
      <4> HIDE DEF j
      <4>5. w[j] = w2[i] BY <4>3, <4>4, Zenon
      <4> QED BY <4>5 DEF j
    <3> QED BY <3>1, <3>2, <3>3
  <2> HIDE DEF w, k, n
  <2>8. /\ n = g + k /\ k = 8 - e /\ n \in Nat /\ n > 0 /\ n < 8
        /\ \A i \in 1..n : i <= g \/ i - g \in 1..k
    BY <2>3 DEF k, n
  <2>9. w[n] = <<0>>
    <3>1. k \in 1..k /\ e + k = 8 BY <2>3, <2>8
    <3> QED BY <3>1, <1>1, <1>3, <2>5, <2>7, <2>8
  <2>10. PICK v : /\ IsText(text, 16, v, {g}) /\ ~text.open
                 /\ Len(v) = n /\ DOMAIN v = 1..n /\ v[n] = <<0, id>>
                 /\ \A i \in 1..n : i # n => v[i] = w[i]
    <3> DEFINE gaps == {g}
    <3>1. IsText(t, 16, w, gaps) /\ ~t.open BY <2>6
    <3> HIDE DEF gaps
    <3>2. text = AddDigits(t, <<id>>) BY DEF text
    <3>3. id \in Nat OBVIOUS
    <3>4. /\ IsText(text, 16, text.words, gaps) /\ ~text.open
          /\ Len(text.words) = n /\ DOMAIN text.words = 1..n
          /\ text.words[n] = <<0, id>>
          /\ \A i \in 1..n : i # n => text.words[i] = w[i]
      BY ONLY <2>7, <2>8, <2>9, <3>1, <3>2, <3>3, DigitAfterZero, SMTT(60)
    <3> QED BY <3>4 DEF gaps
  <2>11. ASSUME NEW i \in 1..g
         PROVE  Number(v[i], 16) = ip[i] /\ ~(Len(v[i]) > 4)
    <3>1. i \in 1..n /\ i # n /\ i \in 1..8 /\ i # 8 BY <2>3, <2>8
    <3>2. v[i] = Hex(parts[i]) /\ ip[i] = parts[i]
      BY <3>1, <1>2, <2>4, <2>7, <2>10
    <3>3. parts[i] \in Words BY <3>1, <1>1
    <3> QED BY <3>2, <3>3, WordFacts
  <2>12. ASSUME NEW i \in 1..k
         PROVE  Number(v[g + i], 16) = ip[e + i] /\ ~(Len(v[g + i]) > 4)
    <3>1. g + i \in 1..n /\ e + i \in 1..8 /\ (g + i = n <=> e + i = 8)
      BY <2>3, <2>8
    <3>2. CASE e + i = 8
      <4>1. Len(<<0, id>>) = 2 /\ Number(<<0, id>>, 16) = id BY TwoDigits
      <4>2. v[g + i] = <<0, id>> /\ ip[e + i] = id BY <3>1, <3>2, <2>10, <1>2
      <4> QED BY <4>1, <4>2
    <3>3. CASE e + i # 8
      <4>1. v[g + i] = Hex(parts[e + i]) /\ ip[e + i] = parts[e + i]
        BY <3>1, <3>3, <1>2, <2>5, <2>7, <2>10
      <4>2. parts[e + i] \in Words BY <3>1, <1>1
      <4> QED BY <4>1, <4>2, WordFacts
    <3> QED BY <3>2, <3>3
  <2>13. ShortWords(v)
    <3> SUFFICES ASSUME NEW i \in DOMAIN v PROVE ~(Len(v[i]) > 4)
      BY DEF ShortWords
    <3>1. i \in 1..n BY <2>10
    <3>2. CASE i <= g
      <4>1. i \in 1..g BY <3>1, <3>2, <2>3
      <4> QED BY <4>1, <2>11
    <3>3. CASE ~(i <= g)
      <4>1. i - g \in 1..k /\ g + (i - g) = i BY <3>1, <3>3, <2>3, <2>8
      <4> QED BY <4>1, <2>12
    <3> QED BY <3>2, <3>3
  <2>14. ParseIP(text) = Apart(v, g, n)
    BY ONLY <2>3, <2>8, <2>10, <2>13, ParseInside
  <2>15. ASSUME NEW i \in 1..8
         PROVE  (IF i <= g THEN Number(v[i], 16)
                 ELSE IF i > 8 - (n - g) THEN Number(v[i - 8 + n], 16)
                 ELSE 0) = ip[i]
    <3>0. i > 8 - (n - g) <=> i > e BY <2>3, <2>8
    <3>1. CASE i <= g
      <4>1. i \in 1..g BY <3>1, <2>3
      <4> QED BY <3>1, <4>1, <2>11
    <3>2. CASE ~(i <= g) /\ i > e
      <4>1. i - e \in 1..k /\ g + (i - e) = i - 8 + n /\ e + (i - e) = i
        BY <3>2, <2>3, <2>8
      <4>2. Number(v[i - 8 + n], 16) = ip[i] BY <4>1, <2>12
      <4> QED BY <3>0, <3>2, <4>2
    <3>3. CASE ~(i <= g) /\ ~(i > e)
      <4>1. i \in (g + 1)..e /\ i # 8 BY <3>3, <2>3
      <4>2. ip[i] = 0 BY <4>1, <2>3, <1>2
      <4> QED BY <3>0, <3>3, <4>2
    <3> QED BY <3>1, <3>2, <3>3
  <2>16. ParseIP(text) = [i \in 1..8 |-> ip[i]]
    BY <2>14, <2>15, Zenon DEF Apart
  <2>17. ip = [i \in 1..8 |-> ip[i]] BY <1>2
  <2> QED BY <2>16, <2>17 DEF text, ip, t
<1> QED BY <1>5, <1>6, <1>7

(* The address of a node with an id of one digit: the digit added to the   *)
(* text of a network makes the id the last part.                           *)
LEMMA AddressBuilt ==
  ASSUME NEW net, IsNetwork(net), net.mode = "ipv6" => net.size <= 112,
         NEW id \in 0..9
  PROVE  ParseIP(AddDigits(NetInfo(net).prefix, Dec(id))) = NodeAddress(net, id)
<1>1. id \in Nat /\ id <= 255 /\ id < 16 /\ id < 10 OBVIOUS
<1>2. CASE net.mode = "ipv4" BY <1>1, <1>2, IPv4Address
<1>3. CASE net.mode # "ipv4"
  <2>1. net.mode = "ipv6" BY <1>3 DEF IsNetwork
  <2>2. net # NoNet BY <2>1 DEF NoNet
  <2>3. NetInfo(net).prefix = IPv6Text(net.parts) BY <1>3, <2>2 DEF NetInfo
  <2>4. Dec(id) = <<id>>
    <3>1. 10 \in Bases BY DEF Bases
    <3> QED BY <1>1, <3>1, DigitsUnfold DEF Dec
  <2> QED BY <1>1, <2>1, <2>3, <2>4, IPv6Address
<1> QED BY <1>2, <1>3

(* A sequence given by its parts.                                          *)
LEMMA PartsLength ==
  ASSUME NEW S, NEW n \in Nat, NEW f \in [1..n -> S]
  PROVE  DOMAIN f = 1..n /\ Len(f) = n
<1>1. f \in Seq(S) BY SeqDef
<1>2. DOMAIN f = 1..Len(f) /\ Len(f) \in Nat BY <1>1, LenProperties
<1> DEFINE k == Len(f)
<1>3. k \in Nat /\ 1..k = 1..n BY <1>2
<1> HIDE DEF k
<1>4. k = n BY ONLY <1>3, n \in Nat
<1> QED BY <1>4 DEF k

(* It is an address of the network, if that leaves the last part to hosts. *)
LEMMA AddressInNet ==
  ASSUME NEW net, IsNetwork(net), net.mode = "ipv6" => net.size <= 112,
         net.mode = "ipv4" => net.size <= 24, NEW id \in Nat, id <= 255
  PROVE  InNet(NodeAddress(net, id), net)
<1> DEFINE last == LastPart(net)
           ip == NodeAddress(net, id)
           bits == PartBits(net)
           part == net.parts[last]
<1>1. (net.mode = "ipv4" /\ last = 4 /\ bits = 8)
      \/ (net.mode = "ipv6" /\ last = 8 /\ bits = 16)
  BY DEF LastPart, PartBits, IsNetwork
<1>2. DOMAIN net.parts = 1..last /\ Len(net.parts) = last
  <2>1. CASE net.mode = "ipv4"
    <3>1. net.parts \in [1..4 -> Octets] BY <2>1 DEF IsNetwork
    <3>2. last = 4 /\ 4 \in Nat BY <2>1, <1>1
    <3> QED BY <3>1, <3>2, PartsLength
  <2>2. CASE net.mode = "ipv6"
    <3>1. net.parts \in [1..8 -> Words] BY <2>2 DEF IsNetwork
    <3>2. last = 8 /\ 8 \in Nat BY <2>2, <1>1
    <3> QED BY <3>1, <3>2, PartsLength
  <2> QED BY <1>1, <2>1, <2>2
<1>3. Len(ip) = last /\ DOMAIN ip = 1..last /\ ip[last] = id
      /\ \A k \in 1..last : k # last => ip[k] = net.parts[k]
  BY <1>1 DEF NodeAddress
<1>4. HostBits(net, last) = bits
  <2>1. net.size - (last - 1) * bits <= 0
    <3>1. CASE net.mode = "ipv4" BY <1>1, <3>1 DEF IsNetwork
    <3>2. CASE net.mode = "ipv6"
      <4>1. net.size \in 0..112 BY <3>2, LastPartFree
      <4> QED BY <1>1, <3>2, <4>1
    <3> QED BY <1>1, <3>1, <3>2
  <2>2. HostBits(net, last) = LET d == net.size - (last - 1) * bits
                              IN  CASE d <= 0 -> bits [] d >= bits -> 0
                                    [] OTHER -> bits - d
    BY Zenon DEF HostBits
  <2> DEFINE d == net.size - (last - 1) * bits
  <2>3. d <= 0 BY <2>1
  <2>4. HostBits(net, last) = CASE d <= 0 -> bits [] d >= bits -> 0
                                [] OTHER -> bits - d
    BY <2>2
  <2>5. d >= bits => bits <= 0
    <3>1. d \in Int
      <4>1. net.size \in Int BY DEF IsNetwork
      <4> QED BY <4>1, <1>1
    <3> HIDE DEF d
    <3> QED BY <3>1, <2>3, <1>1
  <2> HIDE DEF d
  <2> QED BY <2>3, <2>4, <2>5, <1>1
<1>5. part = 0 /\ 2^bits > 255 /\ 2^bits \in Nat
  <2>1. part % 2^bits = 0
    <3>1. last \in DOMAIN net.parts BY <1>1, <1>2
    <3> QED BY <3>1, <1>4 DEF IsNetwork, IsCut
  <2>2. CASE net.mode = "ipv4"
    <3>1. part \in Octets BY <1>1, <2>2 DEF IsNetwork
    <3>2. part % 256 = 0 /\ 2^bits = 256 BY <2>1, <2>2, <1>1
    <3>3. part \in Nat /\ part < 256 BY <3>1 DEF Octets
    <3> HIDE DEF part
    <3>4. part = 0 BY ONLY <3>2, <3>3
    <3> QED BY <3>2, <3>4
  <2>3. CASE net.mode = "ipv6"
    <3>1. part \in Words BY <1>1, <2>3 DEF IsNetwork
    <3>2. part % 65536 = 0 /\ 2^bits = 65536 BY <2>1, <2>3, <1>1
    <3> HIDE DEF part
    <3>3. part \in Nat /\ part < 65536 BY <3>1, WordRange
    <3>4. part = 0 BY ONLY <3>2, <3>3
    <3> QED BY <3>2, <3>4
  <2> QED BY <1>1, <2>2, <2>3
<1>6. ASSUME NEW k \in 1..last
      PROVE  ip[k] \div 2^HostBits(net, k) = net.parts[k] \div 2^HostBits(net, k)
  <2>1. CASE k # last BY <2>1, <1>3, Zenon
  <2>2. CASE k = last
    <3> DEFINE b == 2^bits
    <3>1. b \in Nat /\ b > 255 BY <1>5
    <3> HIDE DEF b
    <3>2. id \div b = 0 /\ 0 \div b = 0 BY ONLY <3>1, id \in Nat, id <= 255
    <3>3. ip[k] = id /\ net.parts[k] = 0 /\ 2^HostBits(net, k) = b
      BY <2>2, <1>3, <1>4, <1>5 DEF b
    <3> QED BY <3>2, <3>3
  <2> QED BY <2>1, <2>2
<1>7. \A k \in DOMAIN ip : ip[k] \div 2^HostBits(net, k)
                             = net.parts[k] \div 2^HostBits(net, k)
  BY <1>3, <1>6, Zenon
<1>8. Len(ip) = Len(net.parts) BY <1>2, <1>3
<1> HIDE DEF ip
<1>9. InNet(ip, net) BY <1>7, <1>8, Zenon DEF InNet
<1> QED BY <1>9 DEF ip

=============================================================================
