--------------------------- MODULE EtcFilesLemmas ---------------------------
(***************************************************************************)
(* What the proofs about EtcFiles rest on: facts about the operators that  *)
(* prepare and clean are made of, for texts of any length, and the         *)
(* inductive invariant.                                                    *)
(*                                                                         *)
(* Only, and with it Theirs and Entries, is a recursive function; what it  *)
(* does is proved by induction over the number of lines looked at, in the  *)
(* form that a set of natural numbers has a least element.                 *)
(***************************************************************************)
EXTENDS EtcFiles, SequenceTheorems, WellFoundedInduction, TLAPS

-----------------------------------------------------------------------------
(* Natural numbers *)

(* A set of natural numbers that is not empty has a least element: the     *)
(* well-foundedness of < on Nat, which stands in for induction below.      *)
LEMMA Smallest ==
  ASSUME NEW T, T \subseteq Nat, T # {}
  PROVE  \E n \in T : \A m \in T : n <= m
<1>1. PICK n \in T : \A m \in T : ~(<<m, n>> \in OpToRel(<, Nat))
  BY WFMin, NatLessThanWellFounded, Zenon
<1>2. \A m \in T : ~(m < n)
  BY <1>1 DEF OpToRel
<1> QED BY <1>2, SMT

(* Induction up to m, over a set: what holds of 0 and is passed on below m *)
(* holds up to m.                                                          *)
LEMMA Induction ==
  ASSUME NEW m \in Nat, NEW T, 0 \in T,
         \A n \in 0..(m - 1) : n \in T => n + 1 \in T
  PROVE  0..m \subseteq T
<1> SUFFICES ASSUME (0..m) \ T # {} PROVE FALSE
  OBVIOUS
<1>1. PICK n \in (0..m) \ T : \A k \in (0..m) \ T : n <= k
  <2>1. (0..m) \ T \subseteq Nat OBVIOUS
  <2> QED BY <2>1, Smallest, Zenon
<1>2. n - 1 \in 0..(m - 1) BY <1>1
<1>3. n - 1 \in T BY <1>1, <1>2
<1> QED BY <1>1, <1>2, <1>3

-----------------------------------------------------------------------------
(* Only *)

(* One step of Only, and the functions that take the first m of them. *)
OnlyStep(s, S, f, n) ==
  IF n = 0 THEN <<>>
  ELSE IF s[n] \in S THEN Append(f[n - 1], s[n]) ELSE f[n - 1]

Steps(s, S, m) ==
  {f \in [0..m -> Seq(ToSet(s) \cap S)] :
     \A n \in 0..m : f[n] = OnlyStep(s, S, f, n)}

(* There is a function that takes the steps of Only, for every sequence    *)
(* (the loops of prepare.go and cleanup.go look at one line after the      *)
(* other).                                                                 *)
LEMMA OnlyExists ==
  ASSUME NEW X, NEW s \in Seq(X), NEW S
  PROVE  Steps(s, S, Len(s)) # {}
<1> DEFINE T == {m \in 0..Len(s) : Steps(s, S, m) # {}}
<1>0. Len(s) \in Nat OBVIOUS
<1>1. 0 \in T
  <2> DEFINE f == [n \in 0..0 |-> <<>>]
  <2>1. f \in [0..0 -> Seq(ToSet(s) \cap S)] OBVIOUS
  <2>2. \A n \in 0..0 : f[n] = OnlyStep(s, S, f, n) BY DEF OnlyStep
  <2>3. f \in Steps(s, S, 0) BY <2>1, <2>2 DEF Steps
  <2> QED BY <2>3, <1>0
<1>2. ASSUME NEW m \in 0..(Len(s) - 1), m \in T PROVE m + 1 \in T
  <2>1. PICK f \in [0..m -> Seq(ToSet(s) \cap S)] :
               \A n \in 0..m : f[n] = OnlyStep(s, S, f, n)
    BY <1>2 DEF Steps
  <2> DEFINE last == OnlyStep(s, S, f, m + 1)
             g == [n \in 0..(m + 1) |-> IF n <= m THEN f[n] ELSE last]
  <2>2. last \in Seq(ToSet(s) \cap S)
    <3>1. s[m + 1] \in ToSet(s) BY <1>0 DEF ToSet
    <3>2. f[m] \in Seq(ToSet(s) \cap S) /\ m + 1 # 0 /\ m + 1 - 1 = m BY <2>1
    <3> QED BY <3>1, <3>2 DEF OnlyStep
  <2>3. g \in [0..(m + 1) -> Seq(ToSet(s) \cap S)]
    <3> HIDE DEF last
    <3> QED BY <2>2, <2>1
  <2>4. ASSUME NEW n \in 0..(m + 1) PROVE g[n] = OnlyStep(s, S, g, n)
    <3>1. n # 0 => g[n - 1] = f[n - 1] OBVIOUS
    <3>2. OnlyStep(s, S, g, n) = OnlyStep(s, S, f, n) BY <3>1 DEF OnlyStep
    <3>3. n \in 0..m => g[n] = f[n] OBVIOUS
    <3>4. n \notin 0..m => n = m + 1 /\ g[n] = last OBVIOUS
    <3> QED BY <3>2, <3>3, <3>4, <2>1
  <2>5. g \in Steps(s, S, m + 1) BY <2>3, <2>4 DEF Steps
  <2>6. m + 1 \in 0..Len(s) BY <1>0
  <2> QED BY <2>5, <2>6
<1>3. Len(s) \in T
  <2> HIDE DEF T
  <2>1. 0..Len(s) \subseteq T BY <1>0, <1>1, <1>2, Induction
  <2> QED BY <2>1, <1>0
<1> QED BY <1>3

(* The recursive function that Only is defined with is one of them. *)
LEMMA OnlyUnfold ==
  ASSUME NEW X, NEW s \in Seq(X), NEW S
  PROVE  \E f \in Steps(s, S, Len(s)) : Only(s, S) = f[Len(s)]
<1> DEFINE Is(f) == f = [n \in 0..Len(s) |->
                         IF n = 0 THEN <<>>
                         ELSE IF s[n] \in S THEN Append(f[n - 1], s[n]) ELSE f[n - 1]]
           only == CHOOSE f : Is(f)
<1>0. Len(s) \in Nat OBVIOUS
<1>1. PICK f : f \in Steps(s, S, Len(s)) BY OnlyExists
<1>2. Is(f)
  BY <1>1 DEF Steps, OnlyStep
<1>3. ASSUME NEW g, Is(g) PROVE g = f
  <2>1. DOMAIN g = 0..Len(s) /\ g = [n \in 0..Len(s) |-> g[n]] BY <1>3
  <2>2. ASSUME NEW n \in 0..Len(s) PROVE g[n] = OnlyStep(s, S, g, n)
    BY <1>3 DEF OnlyStep
  <2> HIDE DEF Is
  <2> DEFINE T == {n \in 0..Len(s) : g[n] = f[n]}
  <2>3. 0 \in T BY <1>0, <1>1, <2>2 DEF OnlyStep, Steps
  <2>4. ASSUME NEW n \in 0..(Len(s) - 1), n \in T PROVE n + 1 \in T
    <3>1. n + 1 # 0 /\ n + 1 \in 0..Len(s) /\ n + 1 - 1 = n BY <1>0
    <3>2. OnlyStep(s, S, g, n + 1) = OnlyStep(s, S, f, n + 1)
      BY <2>4, <3>1 DEF OnlyStep
    <3> QED BY <2>2, <1>1, <3>1, <3>2 DEF Steps
  <2>5. 0..Len(s) \subseteq T
    <3> HIDE DEF T
    <3> QED BY <1>0, <2>3, <2>4, Induction
  <2>6. DOMAIN f = 0..Len(s) /\ f = [n \in 0..Len(s) |-> f[n]]
    BY <1>1 DEF Steps
  <2> QED BY <2>1, <2>5, <2>6
<1>4. Is(only) BY <1>2
<1>5. only = f
  <2> HIDE DEF only, Is
  <2> QED BY <1>3, <1>4
<1>6. Only(s, S) = only[Len(s)] BY DEF Only
<1> QED BY <1>1, <1>5, <1>6

(* Only gives elements of the sequence that are in the set. *)
LEMMA OnlyType ==
  ASSUME NEW X, NEW s \in Seq(X), NEW S
  PROVE  Only(s, S) \in Seq(ToSet(s) \cap S)
<1>1. PICK f \in Steps(s, S, Len(s)) : Only(s, S) = f[Len(s)] BY OnlyUnfold
<1>2. Len(s) \in 0..Len(s) OBVIOUS
<1> QED BY <1>1, <1>2 DEF Steps

(* It gives nothing if there are none. *)
LEMMA OnlyNone ==
  ASSUME NEW X, NEW s \in Seq(X), NEW S, ToSet(s) \cap S = {}
  PROVE  Only(s, S) = <<>>
<1>1. Only(s, S) \in Seq({}) BY OnlyType
<1> QED BY <1>1, EmptySeq, ElementOfSeq

(* It gives the whole sequence if all are. *)
LEMMA OnlyAll ==
  ASSUME NEW X, NEW s \in Seq(X), NEW S, ToSet(s) \subseteq S
  PROVE  Only(s, S) = s
<1>0. Len(s) \in Nat OBVIOUS
<1>1. PICK f \in Steps(s, S, Len(s)) : Only(s, S) = f[Len(s)] BY OnlyUnfold
<1> DEFINE T == {n \in 0..Len(s) : f[n] = SubSeq(s, 1, n)}
<1>2. 0 \in T BY <1>0, <1>1, SubSeqEmpty DEF Steps, OnlyStep
<1>3. ASSUME NEW n \in 0..(Len(s) - 1), n \in T PROVE n + 1 \in T
  <2>1. n + 1 # 0 /\ n + 1 \in 1..Len(s) /\ n + 1 - 1 = n BY <1>0
  <2>2. s[n + 1] \in S BY <2>1 DEF ToSet
  <2>3. f[n + 1] = Append(SubSeq(s, 1, n), s[n + 1])
    <3>1. f[n + 1] = OnlyStep(s, S, f, n + 1) BY <1>1, <2>1 DEF Steps
    <3>2. OnlyStep(s, S, f, n + 1) = Append(f[n], s[n + 1])
      BY <2>1, <2>2 DEF OnlyStep
    <3> QED BY <1>3, <3>1, <3>2
  <2>4. SubSeq(s, 1, n) \in Seq(X) /\ s[n + 1] \in X BY <2>1
  <2>5. SubSeq(s, 1, n + 1) = SubSeq(s, 1, n) \o <<s[n + 1]>>
    BY <2>1, SubSeqRecursiveSecond
  <2>6. Append(SubSeq(s, 1, n), s[n + 1]) = SubSeq(s, 1, n) \o <<s[n + 1]>>
    BY <2>4, AppendIsConcat
  <2> QED BY <2>1, <2>3, <2>5, <2>6
<1>4. Len(s) \in T
  <2>1. 0..Len(s) \subseteq T
    <3> HIDE DEF T
    <3> QED BY <1>0, <1>2, <1>3, Induction
  <2> QED BY <2>1, <1>0
<1> QED BY <1>1, <1>4, SubSeqFull

(* It does not depend on what of the set is not in the sequence. *)
LEMMA OnlySame ==
  ASSUME NEW X, NEW s \in Seq(X), NEW S, NEW T, S \cap ToSet(s) = T \cap ToSet(s)
  PROVE  Only(s, S) = Only(s, T)
<1>0. Len(s) \in Nat OBVIOUS
<1>1. PICK f \in Steps(s, S, Len(s)) : Only(s, S) = f[Len(s)] BY OnlyUnfold
<1>2. PICK g \in Steps(s, T, Len(s)) : Only(s, T) = g[Len(s)] BY OnlyUnfold
<1> DEFINE E == {n \in 0..Len(s) : f[n] = g[n]}
<1>3. 0 \in E BY <1>0, <1>1, <1>2 DEF Steps, OnlyStep
<1>4. ASSUME NEW n \in 0..(Len(s) - 1), n \in E PROVE n + 1 \in E
  <2>1. n + 1 # 0 /\ n + 1 \in 1..Len(s) /\ n + 1 - 1 = n BY <1>0
  <2>2. s[n + 1] \in ToSet(s) BY <2>1 DEF ToSet
  <2>3. s[n + 1] \in S <=> s[n + 1] \in T BY <2>2
  <2>4. OnlyStep(s, S, f, n + 1) = OnlyStep(s, T, g, n + 1)
    BY <1>4, <2>1, <2>3 DEF OnlyStep
  <2> QED BY <1>1, <1>2, <2>1, <2>4 DEF Steps
<1>5. Len(s) \in E
  <2>1. 0..Len(s) \subseteq E
    <3> HIDE DEF E
    <3> QED BY <1>0, <1>3, <1>4, Induction
  <2> QED BY <2>1, <1>0
<1> QED BY <1>1, <1>2, <1>5

(* It distributes over concatenation. *)
LEMMA OnlyConcat ==
  ASSUME NEW X, NEW s \in Seq(X), NEW t \in Seq(X), NEW S
  PROVE  Only(s \o t, S) = Only(s, S) \o Only(t, S)
<1> DEFINE u == s \o t
<1>0. /\ Len(s) \in Nat /\ Len(t) \in Nat /\ u \in Seq(X)
      /\ Len(u) = Len(s) + Len(t)
      /\ \A i \in 1..Len(s) : u[i] = s[i]
      /\ \A i \in 1..Len(t) : u[Len(s) + i] = t[i]
  BY ConcatProperties
<1>1. PICK f \in Steps(u, S, Len(u)) : Only(u, S) = f[Len(u)]
  <2> HIDE DEF u
  <2> QED BY <1>0, OnlyUnfold
<1>2. PICK g \in Steps(s, S, Len(s)) : Only(s, S) = g[Len(s)] BY OnlyUnfold
<1>3. PICK h \in Steps(t, S, Len(t)) : Only(t, S) = h[Len(t)] BY OnlyUnfold
<1> HIDE DEF u
<1>4. f[Len(s)] = g[Len(s)]
  <2> DEFINE E == {n \in 0..Len(s) : f[n] = g[n]}
  <2>1. 0 \in E BY <1>0, <1>1, <1>2 DEF Steps, OnlyStep
  <2>2. ASSUME NEW n \in 0..(Len(s) - 1), n \in E PROVE n + 1 \in E
    <3>1. /\ n + 1 # 0 /\ n + 1 \in 1..Len(s) /\ n + 1 - 1 = n
          /\ n + 1 \in 0..Len(u) /\ n + 1 \in 0..Len(s)
      BY <1>0
    <3>2. u[n + 1] = s[n + 1] BY <1>0, <3>1
    <3>3. OnlyStep(u, S, f, n + 1) = OnlyStep(s, S, g, n + 1)
      BY <2>2, <3>1, <3>2 DEF OnlyStep
    <3> QED BY <1>1, <1>2, <3>1, <3>3 DEF Steps
  <2>3. 0..Len(s) \subseteq E
    <3> HIDE DEF E
    <3> QED BY <1>0, <2>1, <2>2, Induction
  <2> QED BY <2>3, <1>0
<1>5. f[Len(s) + Len(t)] = g[Len(s)] \o h[Len(t)]
  <2> DEFINE E == {n \in 0..Len(t) : f[Len(s) + n] = g[Len(s)] \o h[n]}
  <2>0. /\ g[Len(s)] \in Seq(ToSet(s) \cap S)
        /\ \A n \in 0..Len(t) : h[n] \in Seq(ToSet(t) \cap S)
    <3>1. Len(s) \in 0..Len(s) BY <1>0
    <3> QED BY <1>2, <1>3, <3>1 DEF Steps
  <2>1. 0 \in E
    <3>1. h[0] = <<>> BY <1>0, <1>3 DEF Steps, OnlyStep
    <3>2. g[Len(s)] \o <<>> = g[Len(s)] BY <2>0, ConcatEmptySeq
    <3>3. Len(s) + 0 = Len(s) /\ 0 \in 0..Len(t) BY <1>0
    <3> QED BY <1>4, <3>1, <3>2, <3>3
  <2>2. ASSUME NEW n \in 0..(Len(t) - 1), n \in E PROVE n + 1 \in E
    <3> DEFINE k == Len(s) + n
    <3>1. /\ n + 1 # 0 /\ n + 1 \in 1..Len(t) /\ n + 1 - 1 = n
          /\ n + 1 \in 0..Len(t)
          /\ k + 1 # 0 /\ k + 1 \in 0..Len(u) /\ k + 1 - 1 = k
          /\ Len(s) + (n + 1) = k + 1
          /\ n \in 0..Len(t) /\ k \in Nat
      BY <1>0
    <3>2. u[k + 1] = t[n + 1] BY <1>0, <3>1
    <3>3. f[k] = g[Len(s)] \o h[n] BY <2>2
    <3>4. /\ h[n + 1] = OnlyStep(t, S, h, n + 1)
          /\ f[k + 1] = OnlyStep(u, S, f, k + 1)
      BY <1>1, <1>3, <3>1 DEF Steps
    <3> HIDE DEF k, E
    <3>5. CASE t[n + 1] \notin S
      <4>1. OnlyStep(t, S, h, n + 1) = h[n] BY <3>1, <3>5 DEF OnlyStep
      <4>2. OnlyStep(u, S, f, k + 1) = f[k] BY <3>1, <3>2, <3>5 DEF OnlyStep
      <4> QED BY <3>1, <3>3, <3>4, <4>1, <4>2 DEF E
    <3>6. CASE t[n + 1] \in S
      <4>0. OnlyStep(t, S, h, n + 1) = Append(h[n], t[n + 1])
        <5> DEFINE m == n + 1
        <5>1. m # 0 /\ m - 1 = n /\ m \in Nat BY <3>1
        <5>2. t[m] \in S BY <3>6
        <5> HIDE DEF m
        <5>3. OnlyStep(t, S, h, m) = Append(h[n], t[m])
          BY <5>1, <5>2, Zenon DEF OnlyStep
        <5> QED BY <5>3 DEF m
      <4>1. OnlyStep(u, S, f, k + 1) = Append(f[k], t[n + 1])
        BY <3>1, <3>2, <3>6 DEF OnlyStep
      <4>2. g[Len(s)] \in Seq(S) /\ h[n] \in Seq(S) BY <2>0, <3>1, SeqMonotonic
      <4>3. Append(g[Len(s)] \o h[n], t[n + 1]) = g[Len(s)] \o Append(h[n], t[n + 1])
        <5> DEFINE a == g[Len(s)]
                   b == h[n]
                   x == t[n + 1]
        <5>1. a \in Seq(S) /\ b \in Seq(S) /\ x \in S BY <4>2, <3>6
        <5> HIDE DEF a, b, x
        <5>2. a \o b \in Seq(S) /\ <<x>> \in Seq(S) BY <5>1, ConcatProperties
        <5>3. Append(a \o b, x) = (a \o b) \o <<x>>
          BY <5>1, <5>2, AppendIsConcat
        <5>4. Append(b, x) = b \o <<x>> BY <5>1, AppendIsConcat
        <5>5. (a \o b) \o <<x>> = a \o (b \o <<x>>)
          BY <5>1, <5>2, ConcatAssociative, SMTT(30)
        <5>6. Append(a \o b, x) = a \o Append(b, x) BY <5>3, <5>4, <5>5
        <5> QED BY <5>6 DEF a, b, x
      <4> QED BY <3>1, <3>3, <3>4, <4>0, <4>1, <4>3 DEF E
    <3> QED BY <3>5, <3>6
  <2>3. 0..Len(t) \subseteq E
    <3> HIDE DEF E
    <3> QED BY <1>0, <2>1, <2>2, Induction
  <2>4. Len(t) \in E
    <3> HIDE DEF E
    <3> QED BY <2>3, <1>0
  <2> QED BY <2>4
<1>6. Only(u, S) = Only(s, S) \o Only(t, S) BY <1>0, <1>1, <1>2, <1>3, <1>5
<1> QED BY <1>6 DEF u

(* It gives a single element or nothing of a sequence of one. *)
LEMMA OnlyOne ==
  ASSUME NEW x, NEW S
  PROVE  Only(<<x>>, S) = IF x \in S THEN <<x>> ELSE <<>>
<1>1. <<x>> \in Seq({x}) /\ ToSet(<<x>>) = {x} BY DEF ToSet
<1> QED BY <1>1, OnlyAll, OnlyNone

(* It loses no element of the set. *)
LEMMA OnlyRange ==
  ASSUME NEW X, NEW s \in Seq(X), NEW S
  PROVE  ToSet(Only(s, S)) = ToSet(s) \cap S
<1>1. ToSet(Only(s, S)) \subseteq ToSet(s) \cap S
  <2>1. Only(s, S) \in Seq(ToSet(s) \cap S) BY OnlyType
  <2> QED BY <2>1 DEF ToSet
<1>2. ASSUME NEW i \in 1..Len(s), s[i] \in S PROVE s[i] \in ToSet(Only(s, S))
  <2> DEFINE before == SubSeq(s, 1, i - 1)
             after  == SubSeq(s, i + 1, Len(s))
             one    == <<s[i]>>
             rest   == one \o after
  <2>1. before \in Seq(X) /\ after \in Seq(X) /\ one \in Seq(X) OBVIOUS
  <2>2. s = before \o rest
    <3>1. SubSeq(s, i, Len(s)) = <<s[i]>> \o after BY SubSeqRecursiveFirst
    <3>2. s = before \o SubSeq(s, i, Len(s))
      BY ConcatAdjacentSubSeq, SubSeqFull
    <3> QED BY <3>1, <3>2
  <2>3. Only(s, S) = Only(before, S) \o (one \o Only(after, S))
    <3>1. Only(one, S) = one BY <1>2, OnlyOne
    <3> HIDE DEF before, after, one
    <3>2. Only(rest, S) = Only(one, S) \o Only(after, S)
      BY <2>1, OnlyConcat, SMTT(30)
    <3>3. rest \in Seq(X) BY <2>1, ConcatProperties
    <3> HIDE DEF rest
    <3>4. ASSUME NEW p \in Seq(X), NEW q \in Seq(X)
          PROVE  Only(p \o q, S) = Only(p, S) \o Only(q, S)
      BY OnlyConcat
    <3>5. Only(before \o rest, S) = Only(before, S) \o Only(rest, S)
      BY <2>1, <3>3, <3>4, Zenon
    <3> QED BY <2>2, <3>1, <3>2, <3>5
  <2>4. /\ Only(before, S) \in Seq(S) /\ Only(after, S) \in Seq(S)
        /\ one \in Seq(S)
    <3>1. /\ Only(before, S) \in Seq(ToSet(before) \cap S)
          /\ Only(after, S) \in Seq(ToSet(after) \cap S)
      BY <2>1, OnlyType
    <3> QED BY <3>1, <1>2, SeqMonotonic
  <2>5. LET k == Len(Only(before, S)) + 1
        IN  k \in DOMAIN Only(s, S) /\ Only(s, S)[k] = s[i]
    BY <2>3, <2>4
  <2> QED BY <2>5 DEF ToSet
<1>3. ToSet(s) = {s[i] : i \in 1..Len(s)} BY DEF ToSet
<1> QED BY <1>1, <1>2, <1>3

-----------------------------------------------------------------------------
(* Theirs and Split *)

(* Theirs gives lines of the text that this tool has not added, and gives  *)
(* each of them.                                                           *)
LEMMA TheirsType ==
  ASSUME NEW X, NEW s \in Seq(X)
  PROVE  /\ Theirs(s) \in Seq(X)
         /\ \A i \in DOMAIN Theirs(s) : ~Theirs(s)[i].new
         /\ \A i \in DOMAIN s :
              ~s[i].new => \E j \in DOMAIN Theirs(s) : Theirs(s)[j] = s[i]
<1> DEFINE S == {line \in ToSet(s) : ~line.new}
<1>1. Theirs(s) \in Seq(ToSet(s) \cap S) /\ ToSet(Theirs(s)) = ToSet(s) \cap S
  BY OnlyType, OnlyRange DEF Theirs
<1>2. ToSet(s) \cap S \subseteq X BY DEF ToSet
<1>3. Theirs(s) \in Seq(X) BY <1>1, <1>2, SeqMonotonic
<1>4. \A i \in DOMAIN Theirs(s) : ~Theirs(s)[i].new
  <2> TAKE i \in DOMAIN Theirs(s)
  <2>1. Theirs(s)[i] \in ToSet(s) \cap S BY <1>1
  <2> QED BY <2>1
<1>5. \A i \in DOMAIN s :
        ~s[i].new => \E j \in DOMAIN Theirs(s) : Theirs(s)[j] = s[i]
  <2> SUFFICES ASSUME NEW i \in DOMAIN s, ~s[i].new
               PROVE  \E j \in DOMAIN Theirs(s) : Theirs(s)[j] = s[i]
    OBVIOUS
  <2>1. s[i] \in ToSet(Theirs(s)) BY <1>1 DEF ToSet
  <2> QED BY <2>1 DEF ToSet
<1> QED BY <1>3, <1>4, <1>5

(* It gives the whole text if this tool has added none. *)
LEMMA TheirsAll ==
  ASSUME NEW X, NEW s \in Seq(X), \A i \in DOMAIN s : ~s[i].new
  PROVE  Theirs(s) = s
<1>1. ToSet(s) \subseteq {line \in ToSet(s) : ~line.new} BY DEF ToSet
<1> QED BY <1>1, OnlyAll DEF Theirs

(* It gives nothing if this tool has added all. *)
LEMMA TheirsNone ==
  ASSUME NEW X, NEW s \in Seq(X), \A i \in DOMAIN s : s[i].new
  PROVE  Theirs(s) = <<>>
<1>1. ToSet(s) \cap {line \in ToSet(s) : ~line.new} = {} BY DEF ToSet
<1> QED BY <1>1, OnlyNone DEF Theirs

(* It distributes over concatenation. *)
LEMMA TheirsConcat ==
  ASSUME NEW X, NEW s \in Seq(X), NEW t \in Seq(X)
  PROVE  Theirs(s \o t) = Theirs(s) \o Theirs(t)
<1> DEFINE Unadded(u) == {line \in ToSet(u) : ~line.new}
<1>1. ToSet(s \o t) = ToSet(s) \cup ToSet(t)
  <2>1. /\ Len(s) \in Nat /\ Len(t) \in Nat /\ Len(s \o t) = Len(s) + Len(t)
        /\ DOMAIN s = 1..Len(s) /\ DOMAIN t = 1..Len(t)
        /\ DOMAIN (s \o t) = 1..(Len(s) + Len(t))
        /\ \A i \in 1..Len(s) : (s \o t)[i] = s[i]
        /\ \A i \in 1..Len(t) : (s \o t)[Len(s) + i] = t[i]
    BY ConcatProperties
  <2>2. ASSUME NEW x \in ToSet(s \o t) PROVE x \in ToSet(s) \cup ToSet(t)
    <3>1. PICK i \in 1..(Len(s) + Len(t)) : x = (s \o t)[i] BY <2>1 DEF ToSet
    <3>2. CASE i <= Len(s) BY <2>1, <3>1, <3>2 DEF ToSet
    <3>3. CASE i > Len(s)
      <4>1. i - Len(s) \in 1..Len(t) /\ Len(s) + (i - Len(s)) = i BY <2>1, <3>3
      <4> QED BY <2>1, <3>1, <4>1 DEF ToSet
    <3> QED BY <2>1, <3>2, <3>3
  <2>3. ASSUME NEW x \in ToSet(s) \cup ToSet(t) PROVE x \in ToSet(s \o t)
    <3>1. CASE x \in ToSet(s)
      <4>1. PICK i \in 1..Len(s) : x = s[i] BY <2>1, <3>1 DEF ToSet
      <4>2. i \in 1..(Len(s) + Len(t)) BY <2>1
      <4> QED BY <2>1, <4>1, <4>2 DEF ToSet
    <3>2. CASE x \in ToSet(t)
      <4>1. PICK i \in 1..Len(t) : x = t[i] BY <2>1, <3>2 DEF ToSet
      <4>2. Len(s) + i \in 1..(Len(s) + Len(t)) BY <2>1
      <4> QED BY <2>1, <4>1, <4>2 DEF ToSet
    <3> QED BY <3>1, <3>2
  <2> QED BY <2>2, <2>3
<1>2. Only(s, Unadded(s \o t)) = Only(s, Unadded(s))
  <2>1. Unadded(s \o t) \cap ToSet(s) = Unadded(s) \cap ToSet(s) BY <1>1
  <2> HIDE DEF Unadded
  <2> QED BY <2>1, OnlySame
<1>3. Only(t, Unadded(s \o t)) = Only(t, Unadded(t))
  <2>1. Unadded(s \o t) \cap ToSet(t) = Unadded(t) \cap ToSet(t) BY <1>1
  <2> HIDE DEF Unadded
  <2> QED BY <2>1, OnlySame
<1>4. Only(s \o t, Unadded(s \o t)) = Only(s, Unadded(s \o t)) \o Only(t, Unadded(s \o t))
  <2> HIDE DEF Unadded
  <2> QED BY OnlyConcat
<1> QED BY <1>2, <1>3, <1>4 DEF Theirs

(* k is the last line that is not blank, or the first of all. *)
Trimmed(text, k) ==
  /\ k \in 1..Len(text)
  /\ \A i \in (k + 1)..Len(text) : text[i] = Blank
  /\ k = 1 \/ text[k] # Blank

(* Split cuts a text after the last line that is not blank. *)
LEMMA SplitIs ==
  ASSUME NEW X, NEW s \in Seq(X), NEW k, Trimmed(s, k)
  PROVE  Split(s) = SubSeq(s, 1, k)
<1> DEFINE W == {i \in DOMAIN s : s[i] # Blank}
<1>0. /\ Len(s) \in Nat /\ DOMAIN s = 1..Len(s) /\ k \in 1..Len(s)
      /\ \A i \in (k + 1)..Len(s) : s[i] = Blank
      /\ k = 1 \/ s[k] # Blank
  BY DEF Trimmed
<1>1. CASE W = {}
  <2>1. k = 1 /\ s[1] = Blank BY <1>0, <1>1
  <2>2. SubSeq(s, 1, 1) = <<s[1]>>
    <3>1. SubSeq(s, 1, 1) = <<s[1]>> \o SubSeq(s, 2, 1)
      BY <1>0, SubSeqRecursiveFirst
    <3>2. SubSeq(s, 2, 1) = <<>> BY SubSeqEmpty
    <3>3. <<s[1]>> \in Seq(X) BY <1>0
    <3>4. <<s[1]>> \o <<>> = <<s[1]>> BY <3>3, ConcatEmptySeq
    <3> QED BY <3>1, <3>2, <3>4
  <2> QED BY <1>1, <2>1, <2>2 DEF Split
<1>2. CASE W # {}
  <2>1. \A i \in W : i <= k BY <1>0
  <2>2. k \in W BY <1>0, <1>2
  <2>3. k = CHOOSE i \in W : \A j \in W : j <= i
    <3>1. \A i \in W : (\A j \in W : j <= i) => i = k BY <1>0, <2>1, <2>2
    <3> HIDE DEF W
    <3> QED BY <2>1, <2>2, <3>1
  <2> QED BY <1>2, <2>3 DEF Split
<1> QED BY <1>1, <1>2

(* Every text that is not empty has such a line, or is blank from the      *)
(* first line on.                                                          *)
LEMMA SplitEnd ==
  ASSUME NEW X, NEW s \in Seq(X), s # <<>>
  PROVE  \E k : Trimmed(s, k)
<1>0. Len(s) \in Nat /\ Len(s) >= 1 BY EmptySeq
<1> DEFINE T == {n \in Nat :
                   /\ n <= Len(s) - 1
                   /\ n = Len(s) - 1 \/ s[Len(s) - n] # Blank}
<1>1. T \subseteq Nat /\ Len(s) - 1 \in T BY <1>0
<1>2. PICK n \in T : \A m \in T : n <= m
  <2> HIDE DEF T
  <2> QED BY <1>1, Smallest
<1> DEFINE k == Len(s) - n
<1>3. k \in 1..Len(s) /\ (k = 1 \/ s[k] # Blank) BY <1>0, <1>2
<1>4. ASSUME NEW i \in (k + 1)..Len(s), s[i] # Blank PROVE FALSE
  <2>1. /\ Len(s) - i \in Nat /\ Len(s) - i < n
        /\ Len(s) - i <= Len(s) - 1 /\ Len(s) - (Len(s) - i) = i
    BY <1>0, <1>2
  <2>2. Len(s) - i \in T BY <2>1, <1>4
  <2> QED BY <1>0, <1>2, <2>1, <2>2
<1>5. Trimmed(s, k) BY <1>3, <1>4 DEF Trimmed
<1> QED BY <1>5

(* Splitting nothing gives one blank line (strings.Split in prepare.go). *)
LEMMA SplitEmpty == Split(<<>>) = <<Blank>>
BY DEF Split

-----------------------------------------------------------------------------
(* The invariant *)

(* The lines there can be, and what comes after their marks. *)
Firsts == {line.first : line \in Lines} \union Addresses \union {"nameserver"}
Rests  == {line.rest : line \in Lines} \union {{w} : w \in Names \union Addresses}

(* A line of a file, as this tool may have left it. *)
Line == [old : 0..1, new : BOOLEAN, first : Firsts, rest : Rests]

(* Lines of which none is this tool's. *)
Own(text) == text \in Seq(Line) /\ \A i \in DOMAIN text : ~text[i].new

(* What prepare comments out. *)
Mark(text) == IF file = "hosts" THEN CommentStale(text) ELSE CommentLater(text)

(* What prepare adds. *)
Place(text) ==
  IF file = "hosts" THEN text \o Entries(text) ELSE AddNameServer(text)

(* A line that this tool has not added is first, or is not blank: Split    *)
(* does not cut all of the user's lines away.                              *)
HasAnchor(text) ==
  text = <<>> \/ \E i \in DOMAIN text :
                   ~text[i].new /\ (i = 1 \/ text[i] # Blank)

(* The values of the variables, and no mark on an added line. *)
TypeInv ==
  /\ file \in {"hosts", "resolv"} /\ fresh \in BOOLEAN /\ edits \in 0..MaxEdits
  /\ ip \in IF file = "hosts" THEN Topologies ELSE {<<>>}
  /\ IF file = "resolv" THEN ns \in Addresses ELSE ns = "none"
  /\ user \in Seq(UserLines)
  /\ contents \in Seq(Line)
  /\ \A i \in DOMAIN contents : contents[i].new => contents[i].old = 0

(* At any time the file has such a line. *)
Anchored == HasAnchor(contents)

(* Taking the marks off the lines that this tool has not added gives the   *)
(* user's file. This is what clean relies on.                              *)
Restorable == user = UnmarkAll(Theirs(contents))

(* After prepare the marks are those that prepare would make, and the      *)
(* additions those that it would add to them.                              *)
Settled ==
  fresh => LET kept == Theirs(contents)
           IN  kept # <<>> /\ Mark(kept) = kept /\ contents = Place(kept)

(* The inductive invariant. *)
IInv == TypeInv /\ Anchored /\ Restorable /\ Settled

-----------------------------------------------------------------------------
(* Lines *)

(* What a blank line is made of. *)
LEMMA BlankFacts ==
  ~Blank.new /\ Blank.old = 0 /\ Blank.first = "" /\ Blank.rest = {}
BY DEF Blank

(* A line that the user may write has no mark. *)
LEMMA LinesFacts ==
  ASSUME NEW line \in Lines
  PROVE  line \in Line /\ line.old = 0 /\ ~line.new
<1>1. line = [old |-> 0, new |-> FALSE, first |-> line.first, rest |-> line.rest]
  <2>1. CASE line \in UserHosts \union UserResolv BY <2>1, UserAssumption
  <2>2. CASE line = Blank BY <2>2 DEF Blank
  <2> QED BY <2>1, <2>2 DEF Lines
<1>2. line.first \in Firsts /\ line.rest \in Rests BY DEF Firsts, Rests
<1>3. line.old = 0 /\ ~line.new BY <1>1
<1>4. [old |-> 0, new |-> FALSE, first |-> line.first, rest |-> line.rest]
        \in Line
  BY <1>2 DEF Line
<1> QED BY <1>1, <1>3, <1>4, Zenon

(* The lines for this file are such lines. *)
LEMMA UserLinesFacts == UserLines \subseteq Lines /\ Blank \in UserLines
BY DEF UserLines, Lines

(* Split gives the same for a text without some blank lines at its end. *)
LEMMA SplitPrefix ==
  ASSUME NEW X, NEW s \in Seq(X), NEW n \in 1..Len(s),
         \A i \in (n + 1)..Len(s) : s[i] = Blank
  PROVE  Split(SubSeq(s, 1, n)) = Split(s)
<1> DEFINE p == SubSeq(s, 1, n)
<1>1. p \in Seq(X) /\ Len(p) = n /\ \A i \in 1..n : p[i] = s[i] OBVIOUS
<1>2. PICK k : Trimmed(p, k)
  <2> HIDE DEF p
  <2>1. p # <<>> BY <1>1
  <2> QED BY <1>1, <2>1, SplitEnd
<1> HIDE DEF p
<1>3. Trimmed(s, k) BY <1>1, <1>2 DEF Trimmed
<1>4. Split(p) = SubSeq(p, 1, k) BY <1>1, <1>2, SplitIs
<1>5. Split(s) = SubSeq(s, 1, k) BY <1>3, SplitIs
<1>6. SubSeq(p, 1, k) = SubSeq(s, 1, k)
  <2>1. k \in 1..n BY <1>1, <1>2 DEF Trimmed
  <2> QED BY <1>1, <2>1
<1> QED BY <1>4, <1>5, <1>6 DEF p

-----------------------------------------------------------------------------
(* What prepare and clean start from *)

(* What prepare and clean start from: the lines of the file that this tool *)
(* has not added, but for blank ones at the end.                           *)
LEMMA KeptFacts ==
  ASSUME NEW c \in Seq(Line), HasAnchor(c)
  PROVE  /\ Own(Kept(c)) /\ Kept(c) # <<>>
         /\ c = <<>> => Kept(c) = <<Blank>>
         /\ c # <<>> =>
              \E n \in 1..Len(Theirs(c)) :
                /\ Kept(c) = SubSeq(Theirs(c), 1, n)
                /\ \A i \in (n + 1)..Len(Theirs(c)) : Theirs(c)[i] = Blank
<1>1. CASE c = <<>>
  <2>1. Split(c) = <<Blank>> BY <1>1, SplitEmpty
  <2>2. /\ <<Blank>> \in Seq(Line)
        /\ \A i \in DOMAIN <<Blank>> : ~<<Blank>>[i].new
    <3>1. Blank \in Line BY UserLinesFacts, LinesFacts
    <3>2. /\ <<Blank>> \in Seq(Line) /\ DOMAIN <<Blank>> = 1..1
          /\ <<Blank>>[1] = Blank
      BY <3>1
    <3>3. \A i \in DOMAIN <<Blank>> : <<Blank>>[i] = Blank BY <3>2
    <3> QED BY <3>2, <3>3, BlankFacts, Zenon
  <2>3. Kept(c) = <<Blank>> BY <2>1, <2>2, TheirsAll DEF Kept
  <2>4. Own(Kept(c)) BY <2>2, <2>3, Zenon DEF Own
  <2>5. <<Blank>> # <<>> OBVIOUS
  <2> QED BY <1>1, <2>3, <2>4, <2>5
<1>2. CASE c # <<>>
  <2>0. Len(c) \in Nat /\ DOMAIN c = 1..Len(c) OBVIOUS
  <2>1. PICK k : Trimmed(c, k) BY <1>2, SplitEnd
  <2> DEFINE p == SubSeq(c, 1, k)
             q == SubSeq(c, k + 1, Len(c))
  <2>2. k \in 1..Len(c) /\ (\A i \in (k + 1)..Len(c) : c[i] = Blank)
    BY <2>1 DEF Trimmed
  <2>3. /\ p \in Seq(Line) /\ q \in Seq(Line) /\ c = p \o q
        /\ Len(p) = k /\ \A i \in 1..k : p[i] = c[i]
    <3>1. /\ 1 \in 1..(Len(c) + 1) /\ k \in (1 - 1)..Len(c)
          /\ Len(c) \in k..Len(c)
      BY <2>0, <2>2
    <3>2. p \o q = SubSeq(c, 1, Len(c))
      BY <3>1, ConcatAdjacentSubSeq
    <3>3. c = p \o q BY <3>2, SubSeqFull
    <3>4. p \in Seq(Line) /\ Len(p) = k /\ \A i \in 1..k : p[i] = c[i]
      BY <2>0, <2>2
    <3>5. q \in Seq(Line) BY <2>0, <2>2
    <3> QED BY <3>3, <3>4, <3>5
  <2>4. \A i \in DOMAIN q : q[i] = Blank BY <2>0, <2>2
  <2>5. Split(c) = p BY <2>1, SplitIs
  <2> HIDE DEF p, q
  <2>6. Theirs(q) = q BY <2>3, <2>4, BlankFacts, TheirsAll
  <2>7. Theirs(c) = Theirs(p) \o q BY <2>3, <2>6, TheirsConcat
  <2>8. Kept(c) = Theirs(p) BY <2>5 DEF Kept
  <2>9. /\ Theirs(p) \in Seq(Line)
        /\ \A i \in DOMAIN Theirs(p) : ~Theirs(p)[i].new
    BY <2>3, TheirsType
  <2>10. Theirs(p) # <<>>
    <3>1. PICK i \in DOMAIN c : ~c[i].new /\ (i = 1 \/ c[i] # Blank)
      BY <1>2 DEF HasAnchor
    <3>2. i \in 1..k BY <2>0, <2>2, <3>1
    <3>3. i \in DOMAIN p /\ ~p[i].new BY <2>3, <3>1, <3>2
    <3>4. \E j \in DOMAIN Theirs(p) : Theirs(p)[j] = p[i]
      BY <2>3, <3>3, TheirsType
    <3> QED BY <3>4
  <2> DEFINE a == Theirs(p)
             n == Len(a)
  <2> HIDE DEF a
  <2>11. a \in Seq(Line) /\ a # <<>> /\ Theirs(c) = a \o q /\ Kept(c) = a
    BY <2>7, <2>8, <2>9, <2>10 DEF a
  <2>12. /\ n \in 1..Len(a \o q) /\ a = SubSeq(a \o q, 1, n)
         /\ \A i \in (n + 1)..Len(a \o q) : (a \o q)[i] = Blank
    <3>0. Len(a) \in Nat /\ Len(q) \in Nat /\ n >= 1 /\ a \o q \in Seq(Line)
           /\ Len(a \o q) = Len(a) + Len(q)
             BY <2>3, <2>11, EmptySeq, ConcatProperties
    <3>1. n \in 1..Len(a \o q) BY <3>0
    <3>2. a = SubSeq(a \o q, 1, n)
      <4>1. SubSeq(a \o q, 1, n) = SubSeq(a, 1, n)
        BY <2>3, <2>11, <3>0, SubSeqOfConcat1
      <4> QED BY <4>1, <2>11, SubSeqFull
    <3>3. ASSUME NEW i \in (n + 1)..Len(a \o q) PROVE (a \o q)[i] = Blank
      <4>1. i - n \in 1..Len(q) /\ i > n /\ i \in 1..Len(a \o q) BY <3>0
      <4>2. (a \o q)[i] = q[i - n] BY <2>3, <2>11, <3>0, <4>1, ConcatProperties
      <4> QED BY <2>3, <2>4, <4>1, <4>2
    <3> QED BY <3>1, <3>2, <3>3
  <2> QED BY <1>2, <2>9, <2>10, <2>8, <2>11, <2>12 DEF Own
<1> QED BY <1>1, <1>2

-----------------------------------------------------------------------------
(* Marks *)

(* A line is made of its four fields. *)
LEMMA LineShape ==
  ASSUME NEW l \in Line
  PROVE  /\ l = [old |-> l.old, new |-> l.new, first |-> l.first, rest |-> l.rest]
         /\ l.old \in 0..1 /\ l.new \in BOOLEAN
         /\ l.first \in Firsts /\ l.rest \in Rests
BY DEF Line

(* What a line that prepare adds is made of. *)
LEMMA AddedFacts ==
  ASSUME NEW a \in Addresses \union {"nameserver"},
         NEW w \in Names \union Addresses
  PROVE  /\ Added(a, w) \in Line /\ Added(a, w).new /\ Added(a, w).old = 0
         /\ Added(a, w).first = a /\ Added(a, w).rest = {w}
<1>1. a \in Firsts /\ {w} \in Rests BY DEF Firsts, Rests
<1>2. [old |-> 0, new |-> TRUE, first |-> a, rest |-> {w}] \in Line
  BY <1>1 DEF Line
<1> QED BY <1>2 DEF Added

(* Commenting out an unmarked line is undone by one Unmark, and the line   *)
(* is neither in the way nor a name server any more.                       *)
LEMMA CommentOutFacts ==
  ASSUME NEW l \in Line, l.old = 0
  PROVE  /\ CommentOut(l) \in Line /\ CommentOut(l).old = 1
         /\ CommentOut(l).new = l.new /\ Unmark(CommentOut(l)) = Unmark(l)
         /\ ~InTheWay(CommentOut(l)) /\ ~IsNameServer(CommentOut(l))
<1>1. l = [old |-> 0, new |-> l.new, first |-> l.first, rest |-> l.rest]
  BY LineShape
<1>2. CommentOut(l) = [old |-> 1, new |-> l.new, first |-> l.first, rest |-> l.rest]
  BY <1>1 DEF CommentOut
<1>3. CommentOut(l) \in Line BY <1>2, LineShape DEF Line
<1>4. Unmark(CommentOut(l)) = l /\ Unmark(l) = l BY <1>1, <1>2 DEF Unmark
<1>5. MatchingNodes(CommentOut(l)) = {} BY <1>2 DEF MatchingNodes, Commented
<1> QED BY <1>2, <1>3, <1>4, <1>5 DEF InTheWay, IsNameServer

(* Only unmarked lines are in the way or name servers. *)
LEMMA UncommentedFacts ==
  ASSUME NEW l \in Line, InTheWay(l) \/ IsNameServer(l)
  PROVE  l.old = 0
<1>1. l.old \in 0..1 BY LineShape
<1> QED BY <1>1 DEF InTheWay, IsNameServer, MatchingNodes, Commented

(* What marks some lines of a text of its own. *)
Marks(text, S) ==
  [i \in DOMAIN text |-> IF i \in S THEN CommentOut(text[i]) ELSE text[i]]

(* Marking some unmarked lines loses nothing: taking the marks off gives   *)
(* the same text.                                                          *)
LEMMA MarksFacts ==
  ASSUME NEW t, Own(t), NEW S, \A i \in DOMAIN t \cap S : t[i].old = 0
  PROVE  /\ Own(Marks(t, S)) /\ Len(Marks(t, S)) = Len(t)
         /\ UnmarkAll(Marks(t, S)) = UnmarkAll(t)
         /\ \A i \in DOMAIN t :
              Marks(t, S)[i] = IF i \in S THEN CommentOut(t[i]) ELSE t[i]
<1>1. t \in Seq(Line) /\ Len(t) \in Nat /\ DOMAIN t = 1..Len(t) BY DEF Own
<1> DEFINE m == Marks(t, S)
<1>2. \A i \in DOMAIN t : m[i] = IF i \in S THEN CommentOut(t[i]) ELSE t[i]
  BY DEF Marks
<1>3. DOMAIN m = 1..Len(t) BY <1>1 DEF Marks
<1> HIDE DEF m
<1>4. \A i \in DOMAIN t : m[i] \in Line /\ ~m[i].new /\ Unmark(m[i]) = Unmark(t[i])
  <2> TAKE i \in DOMAIN t
  <2>1. t[i] \in Line /\ ~t[i].new BY <1>1 DEF Own
  <2>2. CASE i \in S
    <3>1. t[i].old = 0 BY <2>2
    <3> QED BY <1>2, <2>1, <2>2, <3>1, CommentOutFacts
  <2>3. CASE i \notin S BY <1>2, <2>1, <2>3
  <2> QED BY <2>2, <2>3
<1>5. m \in [1..Len(t) -> Line]
  <2>1. m = [i \in DOMAIN m |-> m[i]] BY DEF m, Marks
  <2> QED BY <1>1, <1>3, <1>4, <2>1
<1>6. m \in Seq(Line) /\ Len(m) = Len(t) BY <1>1, <1>5, SeqDef
<1>7. Own(m) BY <1>1, <1>3, <1>4, <1>6 DEF Own
<1>8. UnmarkAll(m) = UnmarkAll(t) BY <1>1, <1>3, <1>4 DEF UnmarkAll
<1> QED BY <1>2, <1>6, <1>7, <1>8 DEF m

(* FirstServer is the first of the name servers. *)
LEMMA FirstServerFacts ==
  ASSUME NEW t, Own(t), Servers(t) # {}
  PROVE  FirstServer(t) \in Servers(t) /\ \A j \in Servers(t) : FirstServer(t) <= j
<1>1. Servers(t) \subseteq Nat BY DEF Servers, Own
<1>2. \E i \in Servers(t) : \A j \in Servers(t) : i <= j BY <1>1, Smallest
<1> QED BY <1>2 DEF FirstServer

(* It is the only one to come before all. *)
LEMMA FirstServerIs ==
  ASSUME NEW t, Own(t), NEW k \in Servers(t), \A j \in Servers(t) : k <= j
  PROVE  FirstServer(t) = k
<1>1. Servers(t) \subseteq Nat BY DEF Servers, Own
<1>2. /\ FirstServer(t) \in Servers(t)
      /\ \A j \in Servers(t) : FirstServer(t) <= j
  BY FirstServerFacts
<1> QED BY <1>1, <1>2

(* What Mark marks: the lines in the way, or the name server after the     *)
(* first one.                                                              *)
LEMMA MarkIs ==
  ASSUME file \in {"hosts", "resolv"}, NEW t, Own(t)
  PROVE  \E S \in SUBSET DOMAIN t :
            /\ Mark(t) = Marks(t, S)
            /\ \A i \in S : t[i].old = 0
            /\ file = "hosts" => S = {i \in DOMAIN t : InTheWay(t[i])}
            /\ file = "resolv" =>
                 S = {i \in Servers(t) :
                        i # FirstServer(t) /\ HasWord(t[i], ns)}
<1>0. \A i \in DOMAIN t : t[i] \in Line BY DEF Own
<1>1. CASE file = "hosts"
  <2> DEFINE S == {i \in DOMAIN t : InTheWay(t[i])}
  <2>1. \A i \in S : t[i].old = 0 BY <1>0, UncommentedFacts
  <2>2. Mark(t) = Marks(t, S) BY <1>1 DEF Mark, Marks, CommentStale
  <2>3. S \in SUBSET DOMAIN t OBVIOUS
  <2> QED BY <1>1, <2>1, <2>2, <2>3
<1>2. CASE file = "resolv"
  <2> DEFINE S == {i \in Servers(t) : i # FirstServer(t) /\ HasWord(t[i], ns)}
  <2>1. \A i \in S : t[i].old = 0 BY <1>0, UncommentedFacts DEF Servers
  <2>2. Mark(t) = Marks(t, S) BY <1>2 DEF Mark, Marks, CommentLater
  <2>3. S \in SUBSET DOMAIN t BY DEF Servers
  <2> QED BY <1>2, <2>1, <2>2, <2>3
<1> QED BY <1>1, <1>2

(* Mark can be taken back, and marks nothing the second time               *)
(* (UpdateHostsInfo and UpdateResolvConfInfo, run on what they have left). *)
LEMMA MarkFacts ==
  ASSUME file \in {"hosts", "resolv"}, NEW t, Own(t)
  PROVE  /\ Own(Mark(t)) /\ Len(Mark(t)) = Len(t)
         /\ UnmarkAll(Mark(t)) = UnmarkAll(t)
         /\ Mark(Mark(t)) = Mark(t)
<1>1. PICK S \in SUBSET DOMAIN t :
            /\ Mark(t) = Marks(t, S)
            /\ \A i \in S : t[i].old = 0
            /\ file = "hosts" => S = {i \in DOMAIN t : InTheWay(t[i])}
            /\ file = "resolv" =>
                 S = {i \in Servers(t) :
                        i # FirstServer(t) /\ HasWord(t[i], ns)}
  BY MarkIs
<1> DEFINE m == Mark(t)
<1>2. /\ Own(m) /\ Len(m) = Len(t) /\ UnmarkAll(m) = UnmarkAll(t)
      /\ \A i \in DOMAIN t : m[i] = IF i \in S THEN CommentOut(t[i]) ELSE t[i]
  <2>1. \A i \in DOMAIN t \cap S : t[i].old = 0 BY <1>1
  <2> QED BY <1>1, <2>1, MarksFacts
<1> HIDE DEF m
<1>3. DOMAIN m = DOMAIN t /\ \A i \in DOMAIN t : t[i] \in Line BY <1>2 DEF Own
<1>4. PICK U \in SUBSET DOMAIN m :
            /\ Mark(m) = Marks(m, U)
            /\ file = "hosts" => U = {i \in DOMAIN m : InTheWay(m[i])}
            /\ file = "resolv" =>
                 U = {i \in Servers(m) :
                        i # FirstServer(m) /\ HasWord(m[i], ns)}
  BY <1>2, MarkIs
<1>5. \A i \in S : ~InTheWay(m[i]) /\ ~IsNameServer(m[i])
  BY <1>1, <1>2, <1>3, CommentOutFacts
<1>6. ASSUME file = "hosts" PROVE U = {}
  <2>1. \A i \in DOMAIN m : ~InTheWay(m[i])
    <3> TAKE i \in DOMAIN m
    <3>1. CASE i \in S BY <1>5, <3>1
    <3>2. CASE i \notin S BY <1>1, <1>2, <1>3, <1>6, <3>2
    <3> QED BY <3>1, <3>2
  <2> QED BY <1>4, <1>6, <2>1
<1>7. ASSUME file = "resolv" PROVE U = {}
  <2>1. Servers(m) = Servers(t) \ S
    BY <1>1, <1>2, <1>3, <1>5 DEF Servers
  <2>2. ASSUME Servers(m) # {} PROVE FirstServer(m) = FirstServer(t)
    <3>1. /\ FirstServer(t) \in Servers(t)
          /\ \A j \in Servers(t) : FirstServer(t) <= j
      BY <2>1, <2>2, FirstServerFacts
    <3>2. FirstServer(t) \in Servers(m) BY <1>1, <1>7, <2>1, <3>1
    <3> QED BY <1>2, <2>1, <3>1, <3>2, FirstServerIs
  <2>3. U = {}
    <3> SUFFICES ASSUME NEW i \in U PROVE FALSE OBVIOUS
    <3>1. i \in Servers(m) /\ i # FirstServer(m) /\ HasWord(m[i], ns)
      BY <1>4, <1>7
    <3>2. i \in Servers(t) /\ i \notin S /\ i \in DOMAIN t
      BY <1>3, <1>4, <2>1, <3>1
    <3>3. m[i] = t[i] /\ FirstServer(m) = FirstServer(t)
      BY <1>2, <2>2, <3>1, <3>2
    <3> QED BY <1>1, <1>7, <3>1, <3>2, <3>3
  <2> QED BY <2>3
<1>8. Mark(m) = m
  <2>1. Mark(m) = Marks(m, {}) BY <1>4, <1>6, <1>7
  <2>2. Marks(m, {}) = m
    <3>1. m \in Seq(Line) BY <1>2 DEF Own
    <3> QED BY <3>1 DEF Marks
  <2> QED BY <2>1, <2>2
<1> QED BY <1>2, <1>8 DEF m

-----------------------------------------------------------------------------
(* Additions *)

(* The elements of a concatenation. *)
LEMMA ConcatFacts ==
  ASSUME NEW X, NEW s \in Seq(X), NEW t \in Seq(X)
  PROVE  /\ s \o t \in Seq(X) /\ Len(s \o t) = Len(s) + Len(t)
         /\ \A i \in 1..Len(s) : (s \o t)[i] = s[i]
         /\ \A i \in 1..Len(t) : (s \o t)[Len(s) + i] = t[i]
BY ConcatProperties

(* r is t with x inserted at k. *)
Inserted(r, t, k, x, X) ==
  /\ r \in Seq(X) /\ Len(r) = Len(t) + 1
  /\ \A i \in 1..(Len(t) + 1) :
       r[i] = IF i < k THEN t[i] ELSE IF i = k THEN x ELSE t[i - 1]
  /\ r = SubSeq(t, 1, k - 1) \o (<<x>> \o SubSeq(t, k, Len(t)))
  /\ SubSeq(t, 1, k - 1) \in Seq(X) /\ SubSeq(t, k, Len(t)) \in Seq(X)
  /\ t = SubSeq(t, 1, k - 1) \o SubSeq(t, k, Len(t))

(* What InsertAt gives. *)
LEMMA InsertFacts ==
  ASSUME NEW X, NEW t \in Seq(X), NEW k \in 1..(Len(t) + 1), NEW x \in X
  PROVE  Inserted(InsertAt(t, k, x), t, k, x, X)
<1>0. Len(t) \in Nat OBVIOUS
<1> DEFINE p == SubSeq(t, 1, k - 1)
           q == SubSeq(t, k, Len(t))
           o == <<x>>
           r == (p \o o) \o q
<1>1. /\ p \in Seq(X) /\ Len(p) = k - 1 /\ \A i \in 1..(k - 1) : p[i] = t[i]
  BY <1>0
<1>2. /\ q \in Seq(X) /\ Len(q) = Len(t) - k + 1
      /\ \A i \in 1..(Len(t) - k + 1) : q[i] = t[k + i - 1]
  BY <1>0
<1>3. t = p \o q
  <2>1. /\ k - 1 \in (1 - 1)..Len(t) /\ Len(t) \in (k - 1)..Len(t)
        /\ 1 \in 1..(Len(t) + 1)
        /\ (k - 1) + 1 = k
    BY <1>0
  <2>2. SubSeq(t, 1, k - 1) \o SubSeq(t, (k - 1) + 1, Len(t)) = SubSeq(t, 1, Len(t))
    BY <2>1, ConcatAdjacentSubSeq
  <2> QED BY <2>1, <2>2, SubSeqFull
<1>4. InsertAt(t, k, x) = r BY DEF InsertAt
<1>5. o \in Seq(X) /\ Len(o) = 1 /\ o[1] = x OBVIOUS
<1> HIDE DEF p, q, o
<1>6. r = p \o (o \o q)
  <2>1. p \in Seq(X) /\ o \in Seq(X) /\ q \in Seq(X) BY <1>1, <1>2, <1>5
  <2> QED BY ONLY <2>1, ConcatAssociative, SMTT(30)
<1>7. /\ p \o o \in Seq(X) /\ Len(p \o o) = Len(p) + Len(o)
      /\ \A i \in 1..Len(p) : (p \o o)[i] = p[i]
      /\ \A i \in 1..Len(o) : (p \o o)[Len(p) + i] = o[i]
  <2>1. p \in Seq(X) /\ o \in Seq(X) BY <1>1, <1>5
  <2> QED BY ONLY <2>1, ConcatFacts
<1> DEFINE a == p \o o
<1> HIDE DEF a
<1>8. /\ r \in Seq(X) /\ Len(r) = Len(a) + Len(q)
      /\ \A i \in 1..Len(a) : r[i] = a[i]
      /\ \A i \in 1..Len(q) : r[Len(a) + i] = q[i]
  <2>1. a \in Seq(X) /\ q \in Seq(X) /\ r = a \o q BY <1>2, <1>7 DEF a
  <2> HIDE DEF r
  <2> QED BY ONLY <2>1, ConcatFacts
<1> HIDE DEF r
<1>9. Len(a) = k /\ (\A i \in 1..(k - 1) : a[i] = t[i]) /\ a[k] = x
  <2>1. Len(a) = k BY <1>1, <1>5, <1>7 DEF a
  <2>2. ASSUME NEW i \in 1..(k - 1) PROVE a[i] = t[i]
    BY <1>1, <1>7 DEF a
  <2>3. a[k] = x
    <3>1. 1 \in 1..Len(o) /\ Len(p) + 1 = k BY <1>1, <1>5
    <3> QED BY <1>5, <1>7, <3>1 DEF a
  <2> QED BY <2>1, <2>2, <2>3
<1>10. Len(r) = Len(t) + 1 BY <1>0, <1>2, <1>8, <1>9
<1>11. ASSUME NEW i \in 1..(Len(t) + 1)
       PROVE  r[i] = IF i < k THEN t[i] ELSE IF i = k THEN x ELSE t[i - 1]
  <2>1. CASE i < k
    <3>1. i \in 1..Len(a) /\ i \in 1..(k - 1) BY <1>9, <2>1
    <3> QED BY <1>8, <1>9, <2>1, <3>1
  <2>2. CASE i = k
    <3>1. i \in 1..Len(a) BY <1>9, <2>2
    <3> QED BY <1>8, <1>9, <2>2, <3>1
  <2>3. CASE i > k
    <3>1. /\ i - k \in 1..Len(q) /\ k + (i - k) - 1 = i - 1
          /\ Len(a) + (i - k) = i
          /\ i - k \in 1..(Len(t) - k + 1)
      BY <1>0, <1>2, <1>9, <2>3
    <3>2. r[i] = q[i - k] BY <1>8, <3>1
    <3>3. q[i - k] = t[i - 1] BY <1>2, <3>1
    <3> QED BY <2>3, <3>2, <3>3
  <2> QED BY <2>1, <2>2, <2>3
<1>12. InsertAt(t, k, x) = p \o (<<x>> \o q) BY <1>4, <1>6 DEF o
<1>13. InsertAt(t, k, x) \in Seq(X) BY <1>4, <1>8
<1> QED BY <1>1, <1>2, <1>3, <1>4, <1>10, <1>11, <1>12, <1>13 DEF p, q, Inserted

(* A topology gives addresses to names. *)
LEMMA TopologyFacts ==
  ASSUME NEW t \in Topologies
  PROVE  DOMAIN t \subseteq Names /\ \A n \in DOMAIN t : t[n] \in Addresses
BY DEF Topologies

(* The nodes without an entry, as the code lists them. *)
LEMMA MissingFacts ==
  ASSUME TypeInv, file = "hosts", NEW S
  PROVE  /\ Only(NodeInfo, DOMAIN ip \ S) \in Seq(DOMAIN ip)
         /\ ToSet(Only(NodeInfo, DOMAIN ip \ S)) = DOMAIN ip \ S
         /\ NodeInfo \in Seq(DOMAIN ip) /\ ToSet(NodeInfo) = DOMAIN ip
<1>1. DOMAIN ip \subseteq Names BY TopologyFacts DEF TypeInv
<1>2. NameOrder \in Seq(Names) /\ ToSet(NameOrder) = Names
  BY NameOrderAssumption DEF Names
<1>3. NodeInfo \in Seq(Names \cap DOMAIN ip) /\ ToSet(NodeInfo) = DOMAIN ip
  <2>1. Only(NameOrder, DOMAIN ip) \in Seq(Names \cap DOMAIN ip)
    BY <1>2, OnlyType
  <2>2. ToSet(Only(NameOrder, DOMAIN ip)) = Names \cap DOMAIN ip
    BY <1>2, OnlyRange
  <2> QED BY <1>1, <2>1, <2>2 DEF NodeInfo
<1>4. Names \cap DOMAIN ip = DOMAIN ip BY <1>1
<1>5. NodeInfo \in Seq(DOMAIN ip) BY <1>3, <1>4
<1>6. ToSet(NodeInfo) \cap (DOMAIN ip \ S) = DOMAIN ip \ S BY <1>3
<1>7. /\ Only(NodeInfo, DOMAIN ip \ S) \in Seq(DOMAIN ip \ S)
      /\ ToSet(Only(NodeInfo, DOMAIN ip \ S)) = DOMAIN ip \ S
  BY <1>5, <1>6, OnlyType, OnlyRange
<1>8. Only(NodeInfo, DOMAIN ip \ S) \in Seq(DOMAIN ip) BY <1>7, SeqMonotonic
<1> QED BY <1>3, <1>5, <1>7, <1>8

(* Entries are one added line for each node that has none. *)
LEMMA EntriesFacts ==
  ASSUME TypeInv, file = "hosts", NEW t
  PROVE  /\ Entries(t) \in Seq(Line)
         /\ \A i \in DOMAIN Entries(t) : Entries(t)[i].new /\ Entries(t)[i].old = 0
         /\ \A i \in DOMAIN Entries(t) :
              \E n \in DOMAIN ip \ SeenNodes(t) : Entries(t)[i] = Added(ip[n], n)
         /\ \A n \in DOMAIN ip \ SeenNodes(t) :
              \E i \in DOMAIN Entries(t) : Entries(t)[i] = Added(ip[n], n)
<1> DEFINE missing == Only(NodeInfo, DOMAIN ip \ SeenNodes(t))
           e == Entries(t)
<1>1. missing \in Seq(DOMAIN ip) /\ ToSet(missing) = DOMAIN ip \ SeenNodes(t)
  BY MissingFacts
<1>2. e = [i \in DOMAIN missing |-> Added(ip[missing[i]], missing[i])]
  BY DEF Entries
<1> HIDE DEF missing, e
<1>3. \A n \in DOMAIN ip :
        Added(ip[n], n) \in Line /\ Added(ip[n], n).new /\ Added(ip[n], n).old = 0
  <2>1. ip \in Topologies BY DEF TypeInv
  <2> QED BY <2>1, TopologyFacts, AddedFacts
<1>4. /\ Len(missing) \in Nat /\ DOMAIN missing = 1..Len(missing)
      /\ \A i \in DOMAIN missing : missing[i] \in DOMAIN ip
  BY <1>1
<1>5. e \in [1..Len(missing) -> Line] BY <1>2, <1>3, <1>4
<1>6. e \in Seq(Line) BY <1>4, <1>5, SeqDef
<1>7. \A i \in DOMAIN e : e[i].new /\ e[i].old = 0 BY <1>2, <1>3, <1>4
<1>8. \A i \in DOMAIN e : \E n \in DOMAIN ip \ SeenNodes(t) : e[i] = Added(ip[n], n)
  <2> TAKE i \in DOMAIN e
  <2>1. missing[i] \in ToSet(missing) BY <1>2 DEF ToSet
  <2> QED BY <1>1, <1>2, <2>1
<1>9. \A n \in DOMAIN ip \ SeenNodes(t) : \E i \in DOMAIN e : e[i] = Added(ip[n], n)
  <2> TAKE n \in DOMAIN ip \ SeenNodes(t)
  <2>1. PICK i \in DOMAIN missing : missing[i] = n BY <1>1 DEF ToSet
  <2> QED BY <1>2, <2>1
<1> QED BY <1>6, <1>7, <1>8, <1>9 DEF e

(* What the name server line is made of. *)
LEMMA NameServerLine ==
  ASSUME TypeInv, file = "resolv"
  PROVE  LET entry == Added("nameserver", ns)
         IN  /\ entry \in Line /\ entry.new /\ entry.old = 0
             /\ entry.first = "nameserver" /\ entry.rest = {ns}
BY AddedFacts DEF TypeInv

(* An added line is not theirs. *)
LEMMA TheirsOne ==
  ASSUME NEW x, x.new
  PROVE  Theirs(<<x>>) = <<>>
<1>1. <<x>> \in Seq({x}) /\ \A i \in DOMAIN <<x>> : <<x>>[i].new
  <2>1. <<x>> \in Seq({x}) /\ \A i \in DOMAIN <<x>> : <<x>>[i] = x OBVIOUS
  <2> QED BY <2>1, Zenon
<1> QED BY <1>1, TheirsNone, Zenon

(* Adding lines can be taken back: what is theirs of the result is the     *)
(* text, and the result still begins with a line of theirs that Split does *)
(* not cut.                                                                *)
LEMMA PlaceFacts ==
  ASSUME TypeInv, NEW t, Own(t), t # <<>>
  PROVE  /\ Place(t) \in Seq(Line) /\ Theirs(Place(t)) = t
         /\ HasAnchor(Place(t))
         /\ \A i \in DOMAIN Place(t) : Place(t)[i].new => Place(t)[i].old = 0
<1>0. /\ t \in Seq(Line) /\ Len(t) \in Nat /\ Len(t) >= 1
      /\ DOMAIN t = 1..Len(t)
      /\ \A i \in 1..Len(t) : ~t[i].new
  BY EmptySeq DEF Own
<1>1. Theirs(t) = t BY <1>0, TheirsAll
<1>2. ASSUME NEW e \in Seq(Line), \A i \in DOMAIN e : e[i].new /\ e[i].old = 0
      PROVE  /\ t \o e \in Seq(Line) /\ Theirs(t \o e) = t /\ HasAnchor(t \o e)
             /\ \A i \in DOMAIN (t \o e) : (t \o e)[i].new => (t \o e)[i].old = 0
  <2>1. Theirs(e) = <<>> BY <1>2, TheirsNone
  <2>2. Theirs(t \o e) = t \o <<>> BY <1>0, <1>1, <2>1, TheirsConcat, ZenonT(30)
  <2>3. t \o <<>> = t BY <1>0, ConcatEmptySeq
  <2>4. /\ t \o e \in Seq(Line) /\ Len(e) \in Nat
        /\ Len(t \o e) = Len(t) + Len(e)
        /\ DOMAIN (t \o e) = 1..(Len(t) + Len(e)) /\ DOMAIN e = 1..Len(e)
        /\ \A i \in 1..(Len(t) + Len(e)) :
             (t \o e)[i] = IF i <= Len(t) THEN t[i] ELSE e[i - Len(t)]
    BY <1>0, ConcatProperties
  <2>5. HasAnchor(t \o e)
    <3>1. 1 \in DOMAIN (t \o e) /\ (t \o e)[1] = t[1] /\ ~t[1].new
      BY <1>0, <2>4
    <3> QED BY <3>1 DEF HasAnchor
  <2>6. ASSUME NEW i \in DOMAIN (t \o e), (t \o e)[i].new
        PROVE  (t \o e)[i].old = 0
    <3>1. ~(i <= Len(t)) BY <1>0, <2>4, <2>6
    <3>2. i - Len(t) \in DOMAIN e /\ (t \o e)[i] = e[i - Len(t)]
      BY <1>0, <2>4, <3>1
    <3> QED BY <1>2, <3>2
  <2> QED BY <2>2, <2>3, <2>4, <2>5, <2>6
<1>3. CASE file = "hosts"
  <2>1. Place(t) = t \o Entries(t) BY <1>3 DEF Place
  <2> QED BY <1>2, <1>3, <2>1, EntriesFacts
<1>4. CASE file = "resolv"
  <2> DEFINE entry == Added("nameserver", ns)
             f == FirstServer(t)
  <2>1. entry \in Line /\ entry.new /\ entry.old = 0 BY <1>4, NameServerLine
  <2>2. Place(t) = AddNameServer(t) BY <1>4 DEF Place
  <2> HIDE DEF entry
  <2>3. CASE Servers(t) = {}
    <3>1. Place(t) = t \o <<entry>>
      <4>1. Place(t) = Append(t, entry) BY <2>2, <2>3 DEF AddNameServer, entry
      <4> QED BY <1>0, <2>1, <4>1, AppendIsConcat
    <3>2. /\ <<entry>> \in Seq(Line)
          /\ \A i \in DOMAIN <<entry>> :
               <<entry>>[i].new /\ <<entry>>[i].old = 0
      <4>1. /\ <<entry>> \in Seq(Line)
            /\ \A i \in DOMAIN <<entry>> : <<entry>>[i] = entry
        BY <2>1
      <4> QED BY <2>1, <4>1, Zenon
    <3> QED BY <1>2, <3>1, <3>2
  <2>4. CASE Servers(t) # {} /\ HasWord(t[f], ns)
    <3>1. Place(t) = t BY <2>2, <2>4 DEF AddNameServer
    <3>2. HasAnchor(t)
      <4>1. 1 \in DOMAIN t /\ ~t[1].new BY <1>0
      <4> QED BY <4>1 DEF HasAnchor
    <3> QED BY <1>0, <1>1, <3>1, <3>2
  <2>5. CASE Servers(t) # {} /\ ~HasWord(t[f], ns)
    <3> DEFINE p == SubSeq(t, 1, f - 1)
               q == SubSeq(t, f, Len(t))
               r == InsertAt(t, f, entry)
    <3>1. Place(t) = r BY <2>2, <2>5 DEF AddNameServer, entry
    <3>2. f \in Servers(t) BY <2>5, FirstServerFacts
    <3>3. f \in 1..Len(t) /\ IsNameServer(t[f]) BY <1>0, <3>2 DEF Servers
    <3> HIDE DEF f
    <3>4. f \in 1..(Len(t) + 1) BY <1>0, <3>3
    <3>5. /\ r \in Seq(Line) /\ Len(r) = Len(t) + 1
          /\ \A i \in 1..(Len(t) + 1) :
               r[i] = IF i < f THEN t[i] ELSE IF i = f THEN entry ELSE t[i - 1]
          /\ r = p \o (<<entry>> \o q) /\ t = p \o q
          /\ p \in Seq(Line) /\ q \in Seq(Line)
      <4>1. t \in Seq(Line) /\ entry \in Line BY <1>0, <2>1
      <4>2. Inserted(r, t, f, entry, Line) BY <3>4, <4>1, InsertFacts
      <4> QED BY <4>2 DEF Inserted
    <3> HIDE DEF p, q, r
    <3>6. Theirs(r) = t
      <4>1. <<entry>> \in Seq(Line) BY <2>1
      <4>2. <<entry>> \o q \in Seq(Line) BY <3>5, <4>1, ConcatProperties
      <4>3. Theirs(r) = Theirs(p) \o Theirs(<<entry>> \o q)
        BY <3>5, <4>2, TheirsConcat
      <4>4. Theirs(<<entry>> \o q) = Theirs(<<entry>>) \o Theirs(q)
        BY <3>5, <4>1, TheirsConcat
      <4>5. Theirs(<<entry>>) = <<>> BY <2>1, TheirsOne
      <4>6. Theirs(q) \in Seq(Line) BY <3>5, TheirsType
      <4>7. <<>> \o Theirs(q) = Theirs(q) BY <4>6, ConcatEmptySeq
      <4>8. Theirs(p \o q) = Theirs(p) \o Theirs(q) BY <3>5, TheirsConcat
      <4> QED BY <1>1, <3>5, <4>3, <4>4, <4>5, <4>7, <4>8
    <3>7. DOMAIN r = 1..(Len(t) + 1) BY <3>5
    <3>8. HasAnchor(r)
      <4>1. CASE f = 1
        <5>1. 2 \in DOMAIN r /\ r[2] = t[1] /\ ~t[1].new
          BY <1>0, <3>5, <3>7, <4>1
        <5>2. t[1] # Blank BY <3>3, <4>1, BlankFacts DEF IsNameServer
        <5> QED BY <5>1, <5>2 DEF HasAnchor
      <4>2. CASE f # 1
        <5>1. 1 \in DOMAIN r /\ r[1] = t[1] /\ ~t[1].new
          BY <1>0, <3>3, <3>5, <3>7, <4>2
        <5> QED BY <5>1 DEF HasAnchor
      <4> QED BY <4>1, <4>2
    <3>9. ASSUME NEW i \in DOMAIN r, r[i].new PROVE r[i].old = 0
      <4>0. i \in 1..(Len(t) + 1) /\ i \in Nat /\ f \in Nat
            /\ r[i] = IF i < f THEN t[i] ELSE IF i = f THEN entry ELSE t[i - 1]
        <5>1. i \in 1..(Len(t) + 1) BY <3>7
        <5>2. i \in Nat /\ f \in Nat BY <1>0, <3>3, <5>1
        <5> QED BY <3>5, <5>1, <5>2
      <4>1. CASE i = f BY <2>1, <4>0, <4>1
      <4>2. CASE i < f
        <5>1. r[i] = t[i] /\ i \in 1..Len(t) BY <1>0, <3>3, <4>0, <4>2
        <5> QED BY <1>0, <3>9, <5>1
      <4>3. CASE i > f
        <5>1. r[i] = t[i - 1] /\ i - 1 \in 1..Len(t) BY <1>0, <3>3, <4>0, <4>3
        <5> QED BY <1>0, <3>9, <5>1
      <4> QED BY <3>3, <3>7, <4>1, <4>2, <4>3
    <3> QED BY <3>1, <3>5, <3>6, <3>8, <3>9
  <2> QED BY <2>3, <2>4, <2>5
<1> QED BY <1>3, <1>4 DEF TypeInv

-----------------------------------------------------------------------------
(* prepare, as marks and additions *)

(* The lines that give a node its entry. *)
Proper(text) == {l \in ToSet(text) : MatchingNodes(l) # {} /\ ~InTheWay(l)}

(* Marking does not change which nodes have an entry: a marked line gave   *)
(* none.                                                                   *)
LEMMA SeenAfterMark ==
  ASSUME file = "hosts", NEW t, Own(t)
  PROVE  SeenNodes(Mark(t)) = SeenNodes(t)
<1> DEFINE m == Mark(t)
<1>1. t \in Seq(Line) BY DEF Own
<1>2. PICK S \in SUBSET DOMAIN t :
        /\ Mark(t) = Marks(t, S) /\ \A i \in S : t[i].old = 0
        /\ S = {i \in DOMAIN t : InTheWay(t[i])}
  BY MarkIs
<1>3. /\ m \in Seq(Line) /\ Len(m) = Len(t)
      /\ \A i \in DOMAIN t : m[i] = IF i \in S THEN CommentOut(t[i]) ELSE t[i]
  BY <1>2, MarksFacts DEF Own
<1> HIDE DEF m
<1>4. DOMAIN m = DOMAIN t BY <1>1, <1>3
<1>5. \A i \in S : MatchingNodes(m[i]) = {}
  <2> TAKE i \in S
  <2>1. i \in DOMAIN t /\ t[i] \in Line /\ t[i].old = 0 BY <1>1, <1>2
  <2>2. CommentOut(t[i]).old = 1 BY <2>1, CommentOutFacts
  <2>3. m[i] = CommentOut(t[i]) BY <1>3, <2>1
  <2>4. m[i].old > 0 BY <2>2, <2>3
  <2> QED BY <2>4 DEF MatchingNodes, Commented
<1>6. \A i \in DOMAIN t \ S : m[i] = t[i] /\ ~InTheWay(t[i]) BY <1>2, <1>3
<1>7. Proper(m) \subseteq Proper(t)
  <2> SUFFICES ASSUME NEW l \in Proper(m) PROVE l \in Proper(t) OBVIOUS
  <2>1. PICK i \in DOMAIN m : l = m[i] BY DEF ToSet, Proper
  <2>2. i \notin S BY <1>5, <2>1 DEF Proper
  <2>3. l = t[i] /\ i \in DOMAIN t BY <1>4, <1>6, <2>1, <2>2
  <2> QED BY <2>3 DEF ToSet, Proper
<1>8. Proper(t) \subseteq Proper(m)
  <2> SUFFICES ASSUME NEW l \in Proper(t) PROVE l \in Proper(m) OBVIOUS
  <2>1. PICK i \in DOMAIN t : l = t[i] BY DEF ToSet, Proper
  <2>2. i \notin S BY <1>2, <2>1 DEF Proper
  <2>3. l = m[i] /\ i \in DOMAIN m BY <1>4, <1>6, <2>1, <2>2
  <2> QED BY <2>3 DEF ToSet, Proper
<1>9. Proper(m) = Proper(t) BY <1>7, <1>8
<1>10. SeenNodes(m) = {MatchingNode(line) : line \in Proper(m)}
  BY DEF SeenNodes, Proper
<1>11. SeenNodes(t) = {MatchingNode(line) : line \in Proper(t)}
  BY DEF SeenNodes, Proper
<1> QED BY <1>9, <1>10, <1>11 DEF m

(* Prepare marks, then adds, for both files. *)
LEMMA UpdatedIs ==
  ASSUME TypeInv, Anchored
  PROVE  Updated(contents) = Place(Mark(Kept(contents)))
<1> DEFINE kept == Kept(contents)
<1>1. Own(kept) BY KeptFacts DEF TypeInv, Anchored
<1> HIDE DEF kept
<1>2. CASE file = "hosts"
  <2>1. Entries(Mark(kept)) = Entries(kept)
    BY <1>1, <1>2, SeenAfterMark DEF Entries
  <2>2. Updated(contents) = CommentStale(kept) \o Entries(kept)
    BY <1>2 DEF Updated, UpdateHostsInfo, kept
  <2> QED BY <1>2, <2>1, <2>2 DEF Mark, Place, kept
<1>3. CASE file = "resolv"
  BY <1>3 DEF Updated, UpdateResolvConfInfo, Mark, Place, kept
<1> QED BY <1>2, <1>3 DEF TypeInv

-----------------------------------------------------------------------------
(* clean *)

(* Unmark gives a line without a mark. *)
LEMMA UnmarkFacts ==
  ASSUME NEW l \in Line
  PROVE  /\ Unmark(l) \in Line /\ Unmark(l).new = l.new /\ Unmark(l).old = 0
         /\ Unmark(l).first = l.first /\ Unmark(l).rest = l.rest
         /\ l.old = 0 => Unmark(l) = l
<1>1. /\ l = [old |-> l.old, new |-> l.new, first |-> l.first, rest |-> l.rest]
      /\ l.old \in 0..1 /\ l.new \in BOOLEAN
      /\ l.first \in Firsts /\ l.rest \in Rests
  BY LineShape
<1>2. Unmark(l) = [old |-> 0, new |-> l.new, first |-> l.first, rest |-> l.rest]
  BY <1>1 DEF Unmark
<1>3. Unmark(l) \in Line BY <1>1, <1>2 DEF Line
<1> QED BY <1>1, <1>2, <1>3

(* UnmarkAll goes line by line. *)
LEMMA UnmarkAllFacts ==
  ASSUME NEW s \in Seq(Line)
  PROVE  /\ UnmarkAll(s) \in Seq(Line) /\ Len(UnmarkAll(s)) = Len(s)
         /\ \A i \in 1..Len(s) : UnmarkAll(s)[i] = Unmark(s[i])
         /\ (\A i \in 1..Len(s) : s[i].old = 0) => UnmarkAll(s) = s
<1> DEFINE u == UnmarkAll(s)
<1>1. /\ Len(s) \in Nat /\ DOMAIN s = 1..Len(s)
      /\ \A i \in 1..Len(s) : s[i] \in Line
  OBVIOUS
<1>2. u = [i \in 1..Len(s) |-> Unmark(s[i])] BY <1>1 DEF UnmarkAll
<1>3. \A i \in 1..Len(s) : Unmark(s[i]) \in Line BY <1>1, UnmarkFacts
<1> HIDE DEF u
<1>4. u \in [1..Len(s) -> Line] BY <1>2, <1>3
<1>5. u \in Seq(Line) /\ Len(u) = Len(s) BY <1>1, <1>4, SeqDef
<1>6. \A i \in 1..Len(s) : u[i] = Unmark(s[i]) BY <1>2
<1>7. ASSUME \A i \in 1..Len(s) : s[i].old = 0 PROVE u = s
  <2>1. \A i \in 1..Len(s) : u[i] = s[i] BY <1>1, <1>6, <1>7, UnmarkFacts
  <2> QED BY <1>5, <2>1, SeqEqual
<1> QED BY <1>5, <1>6, <1>7 DEF u

(* It distributes over concatenation. *)
LEMMA UnmarkConcat ==
  ASSUME NEW s \in Seq(Line), NEW t \in Seq(Line)
  PROVE  UnmarkAll(s \o t) = UnmarkAll(s) \o UnmarkAll(t)
<1> DEFINE c == s \o t
           u == UnmarkAll(s)
           v == UnmarkAll(t)
           w == u \o v
<1>1. /\ u \in Seq(Line) /\ Len(u) = Len(s)
      /\ \A i \in 1..Len(s) : u[i] = Unmark(s[i])
  BY UnmarkAllFacts
<1>2. /\ v \in Seq(Line) /\ Len(v) = Len(t)
      /\ \A i \in 1..Len(t) : v[i] = Unmark(t[i])
  BY UnmarkAllFacts
<1>3. /\ c \in Seq(Line) /\ Len(c) = Len(s) + Len(t)
      /\ \A i \in 1..Len(s) : c[i] = s[i]
      /\ \A i \in 1..Len(t) : c[Len(s) + i] = t[i]
  BY ConcatFacts
<1> HIDE DEF c, u, v
<1>4. /\ w \in Seq(Line) /\ Len(w) = Len(u) + Len(v)
      /\ \A i \in 1..Len(u) : w[i] = u[i]
      /\ \A i \in 1..Len(v) : w[Len(u) + i] = v[i]
  <2>1. u \in Seq(Line) /\ v \in Seq(Line) BY <1>1, <1>2
  <2> QED BY ONLY <2>1, ConcatFacts
<1> HIDE DEF w
<1> DEFINE x == UnmarkAll(c)
<1>5. /\ x \in Seq(Line) /\ Len(x) = Len(c)
      /\ \A i \in 1..Len(c) : x[i] = Unmark(c[i])
  BY <1>3, UnmarkAllFacts
<1> HIDE DEF x
<1>6. Len(s) \in Nat /\ Len(t) \in Nat OBVIOUS
<1>7. ASSUME NEW i \in 1..Len(x) PROVE x[i] = w[i]
  <2>0. x[i] = Unmark(c[i]) BY <1>5
  <2>1. CASE i <= Len(s)
    <3>1. i \in 1..Len(s) BY <2>1
    <3> QED BY <1>1, <1>3, <1>4, <2>0, <3>1
  <2>2. CASE i > Len(s)
    <3>1. i - Len(s) \in 1..Len(t) /\ Len(s) + (i - Len(s)) = i
      BY <1>3, <1>5, <1>6, <2>2
    <3>2. c[i] = t[i - Len(s)] BY <1>3, <3>1
    <3>3. w[i] = v[i - Len(s)] BY <1>1, <1>2, <1>4, <3>1
    <3> QED BY <1>2, <2>0, <3>1, <3>2, <3>3
  <2> QED BY <1>6, <2>1, <2>2
<1>8. x = w
  <2>1. Len(x) = Len(w) BY <1>1, <1>2, <1>3, <1>4, <1>5
  <2> QED BY <1>4, <1>5, <1>7, <2>1, SeqEqual
<1> QED BY <1>8 DEF c, u, v, w, x

(* It can be done before or after a text is cut. *)
LEMMA UnmarkPrefix ==
  ASSUME NEW s \in Seq(Line), NEW n \in 1..Len(s)
  PROVE  UnmarkAll(SubSeq(s, 1, n)) = SubSeq(UnmarkAll(s), 1, n)
<1> DEFINE p == SubSeq(s, 1, n)
           u == UnmarkAll(s)
           v == SubSeq(u, 1, n)
           x == UnmarkAll(p)
<1>1. /\ u \in Seq(Line) /\ Len(u) = Len(s)
      /\ \A i \in 1..Len(s) : u[i] = Unmark(s[i])
  BY UnmarkAllFacts
<1>2. p \in Seq(Line) /\ Len(p) = n /\ \A i \in 1..n : p[i] = s[i] OBVIOUS
<1> HIDE DEF u, p
<1>3. v \in Seq(Line) /\ Len(v) = n /\ \A i \in 1..n : v[i] = u[i] BY <1>1
<1> HIDE DEF v
<1>4. /\ x \in Seq(Line) /\ Len(x) = n /\ \A i \in 1..n : x[i] = Unmark(p[i])
  BY <1>2, UnmarkAllFacts
<1> HIDE DEF x
<1>5. \A i \in 1..n : i \in 1..Len(s) OBVIOUS
<1>6. \A i \in 1..n : x[i] = v[i] BY <1>1, <1>2, <1>3, <1>4, <1>5
<1>7. x = v BY <1>3, <1>4, <1>6, SeqEqual
<1> QED BY <1>7 DEF p, u, v, x

(* A text of one blank line is kept as it is. *)
LEMMA BlankLine ==
  /\ <<Blank>> \in Seq(Line) /\ Theirs(<<Blank>>) = <<Blank>>
  /\ UnmarkAll(<<Blank>>) = <<Blank>>
<1>1. Blank \in Line BY UserLinesFacts, LinesFacts
<1>2. <<Blank>> \in Seq(Line) /\ DOMAIN <<Blank>> = 1..1 /\ Len(<<Blank>>) = 1
      /\ <<Blank>>[1] = Blank
  BY <1>1
<1>3. \A i \in 1..1 : <<Blank>>[i] = Blank BY <1>2
<1>4. Theirs(<<Blank>>) = <<Blank>>
  <2>1. \A i \in DOMAIN <<Blank>> : ~<<Blank>>[i].new
    BY <1>2, <1>3, BlankFacts, Zenon
  <2> QED BY <1>2, <2>1, TheirsAll, Zenon
<1>5. UnmarkAll(<<Blank>>) = <<Blank>>
  <2>1. \A i \in 1..Len(<<Blank>>) : <<Blank>>[i].old = 0
    BY <1>2, <1>3, BlankFacts, Zenon
  <2> QED BY <1>2, <2>1, UnmarkAllFacts, Zenon
<1> QED BY <1>2, <1>4, <1>5

(* The user's file, once it has been split and saved, is what clean makes  *)
(* of the lines that prepare or clean start from.                          *)
LEMMA SavedIs ==
  ASSUME TypeInv, Anchored, Restorable
  PROVE  /\ Saved(user) = UnmarkAll(Kept(contents))
         /\ Saved(user) \in Seq(UserLines)
<1> DEFINE c == contents
           a == Theirs(c)
<1>1. /\ c \in Seq(Line) /\ HasAnchor(c) /\ user = UnmarkAll(a)
      /\ user \in Seq(UserLines)
  BY DEF TypeInv, Anchored, Restorable
<1>2. a \in Seq(Line) /\ Len(user) = Len(a) BY <1>1, TheirsType, UnmarkAllFacts
<1> HIDE DEF c, a
<1>3. CASE c = <<>>
  <2>1. a = <<>>
    <3>1. \A i \in DOMAIN c : c[i].new BY <1>3
    <3> QED BY <1>1, <3>1, TheirsNone DEF a
  <2>2. user = <<>> BY <1>1, <1>2, <2>1, EmptySeq
  <2>3. Saved(user) = <<Blank>> BY <2>2 DEF Saved
  <2>4. Kept(c) = <<Blank>> BY <1>1, <1>3, KeptFacts
  <2>5. <<Blank>> \in Seq(UserLines) BY UserLinesFacts
  <2> QED BY <2>3, <2>4, <2>5, BlankLine DEF c
<1>4. CASE c # <<>>
  <2>1. PICK n \in 1..Len(a) : Kept(c) = SubSeq(a, 1, n)
    BY <1>1, <1>4, KeptFacts DEF a
  <2>2. Len(a) \in Nat /\ n \in Nat /\ Len(a) >= 1 /\ Len(SubSeq(a, 1, n)) = n
    BY <1>2
  <2>3. user # <<>> BY <1>2, <2>2
  <2>4. Saved(user) = SubSeq(user, 1, n) BY <2>1, <2>2, <2>3 DEF Saved, c
  <2>5. UnmarkAll(Kept(c)) = SubSeq(user, 1, n)
    BY <1>1, <1>2, <2>1, UnmarkPrefix
  <2>6. SubSeq(user, 1, n) \in Seq(UserLines) BY <1>1, <1>2, <2>2
  <2> QED BY <2>4, <2>5, <2>6 DEF c
<1> QED BY <1>3, <1>4

=============================================================================
