----------------------------- MODULE Choices_proofs -----------------------------
(* What the assistant picks from an ordered list, and whether the list was the  *)
(* right one: the models a call asks, one after the other; the product a name   *)
(* means; the documents an answer is drawn from.                                *)
EXTENDS LlmRouter, EntityIndex, Retrieval, FiniteSetTheorems, SequenceTheorems, TLAPS

-----------------------------------------------------------------------------
(* Lists.  What is said of a recursive function holds at the first place and    *)
(* passes from each place to the next; a sort by counting is a permutation.     *)

LEMMA LeastNumber ==
  ASSUME NEW T \in SUBSET Nat, T # {}
  PROVE  \E m \in T : \A n \in T : m <= n
<1> DEFINE R == OpToRel(<, Nat)
<1>1. IsWellFoundedOn(R, Nat)
    BY NatLessThanWellFounded DEF OpToRel
<1>2. PICK m \in T : \A n \in T : <<n, m>> \notin R
  <2> HIDE DEF R
  <2> QED BY <1>1, WFMin
<1>3. ASSUME NEW n \in T, n < m
      PROVE  FALSE
    BY <1>2, <1>3 DEF OpToRel
<1> QED BY <1>3

\* What holds at the first place, and at each place after one where it holds, holds at all.
LEMMA PlaceByPlace ==
  ASSUME NEW n \in Nat, NEW S, 0 \in S, \A i \in 1..n : i - 1 \in S => i \in S
  PROVE  \A i \in 0..n : i \in S
<1> DEFINE T == {i \in 0..n : i \notin S}
<1> SUFFICES ASSUME T # {} PROVE FALSE
    OBVIOUS
<1>1. PICK m \in T : \A i \in T : m <= i
  <2> T \in SUBSET Nat
      OBVIOUS
  <2> QED BY LeastNumber
<1>2. m # 0 /\ m \in 1..n
    OBVIOUS
<1>3. m - 1 \in 0..n /\ m - 1 \notin T
    BY <1>1, <1>2
<1> QED BY <1>2, <1>3

\* A sum is built place by place.
SumParts(s, f) ==
  /\ DOMAIN f = 0..Len(s) /\ f[0] = 0
  /\ \A i \in 1..Len(s) : f[i] = f[i - 1] + s[i]

LEMMA PartsExist ==
  ASSUME NEW s \in Seq(Nat)
  PROVE  \E f : f = [i \in 0..Len(s) |-> IF i = 0 THEN 0 ELSE f[i - 1] + s[i]]
<1> DEFINE G(n, f) == f = [i \in 0..n |-> IF i = 0 THEN 0 ELSE f[i - 1] + s[i]]
           S == {n \in 0..Len(s) : \E f : G(n, f)}
<1>1. 0 \in S
  <2> DEFINE f == [i \in 0..0 |-> 0]
  <2>1. G(0, f)
      OBVIOUS
  <2> HIDE DEF f, G
  <2> QED BY <2>1
<1>2. ASSUME NEW n \in 1..Len(s), n - 1 \in S PROVE n \in S
  <2>1. PICK f : G(n - 1, f)
      BY <1>2
  <2> DEFINE g == [i \in 0..n |-> IF i = n THEN f[n - 1] + s[n] ELSE f[i]]
  <2>2. \A i \in 0..n : g[i] = IF i = 0 THEN 0 ELSE g[i - 1] + s[i]
    <3> SUFFICES ASSUME NEW i \in 0..n PROVE g[i] = IF i = 0 THEN 0 ELSE g[i - 1] + s[i]
        OBVIOUS
    <3>1. CASE i = n
        BY <3>1, <1>2
    <3>2. CASE i # n
      <4>1. i \in 0..(n - 1) /\ (i # 0 => i - 1 # n /\ i - 1 \in 0..n)
          BY <3>2
      <4>2. f[i] = IF i = 0 THEN 0 ELSE f[i - 1] + s[i]
          BY <4>1, <2>1
      <4> QED BY <4>1, <4>2, <3>2
    <3> QED BY <3>1, <3>2
  <2>3. G(n, g)
      BY <2>2
  <2> HIDE DEF g, G
  <2> QED BY <2>3
<1> HIDE DEF G
<1>3. \A n \in 0..Len(s) : n \in S
  <2> Len(s) \in Nat
      OBVIOUS
  <2> HIDE DEF S
  <2> QED BY <1>1, <1>2, PlaceByPlace
<1>4. Len(s) \in S
    BY <1>3
<1> QED BY <1>4 DEF G

LEMMA SumIsLast ==
  ASSUME NEW s \in Seq(Nat)
  PROVE  \E f : SumParts(s, f) /\ Sum(s) = f[Len(s)]
<1> DEFINE f == CHOOSE f : f = [i \in 0..Len(s) |-> IF i = 0 THEN 0 ELSE f[i - 1] + s[i]]
<1>1. f = [i \in 0..Len(s) |-> IF i = 0 THEN 0 ELSE f[i - 1] + s[i]]
    BY PartsExist
<1>2. Sum(s) = f[Len(s)]
    BY DEF Sum
<1> HIDE DEF f
<1>3. SumParts(s, f)
  <2>1. /\ DOMAIN f = 0..Len(s)
        /\ \A i \in 0..Len(s) : f[i] = IF i = 0 THEN 0 ELSE f[i - 1] + s[i]
      BY <1>1
  <2> QED BY <2>1 DEF SumParts
<1> QED BY <1>2, <1>3

-----------------------------------------------------------------------------
LEMMA PartsAreNat ==
  ASSUME NEW s \in Seq(Nat), NEW f, SumParts(s, f)
  PROVE  \A i \in 0..Len(s) : f[i] \in Nat
<1> DEFINE S == {i \in 0..Len(s) : f[i] \in Nat}
<1>1. 0 \in S /\ \A i \in 1..Len(s) : i - 1 \in S => i \in S
    BY DEF SumParts
<1>2. \A i \in 0..Len(s) : i \in S
  <2> Len(s) \in Nat
      OBVIOUS
  <2> HIDE DEF S
  <2> QED BY <1>1, PlaceByPlace
<1> QED BY <1>2

\* Two sequences that agree have sums that agree, part by part.
LEMMA PartsOrdered ==
  ASSUME NEW s \in Seq(Nat), NEW t \in Seq(Nat), NEW f, NEW g,
         SumParts(s, f), SumParts(t, g), NEW n \in 0..Len(s), n <= Len(t),
         \A i \in 1..n : s[i] <= t[i]
  PROVE  f[n] <= g[n]
<1> DEFINE S == {i \in 0..n : f[i] <= g[i]}
<1>1. 0 \in S
    BY DEF SumParts
<1>2. ASSUME NEW i \in 1..n, i - 1 \in S PROVE i \in S
  <2>1. f[i] = f[i - 1] + s[i] /\ g[i] = g[i - 1] + t[i]
      BY DEF SumParts
  <2>2. f[i - 1] \in Nat /\ g[i - 1] \in Nat /\ s[i] \in Nat /\ t[i] \in Nat /\ s[i] <= t[i]
      BY PartsAreNat
  <2> QED BY <1>2, <2>1, <2>2
<1>3. \A i \in 0..n : i \in S
  <2> n \in Nat
      OBVIOUS
  <2> HIDE DEF S
  <2> QED BY <1>1, <1>2, PlaceByPlace
<1> QED BY <1>3

LEMMA SumIsNat ==
  ASSUME NEW s \in Seq(Nat)
  PROVE  Sum(s) \in Nat
<1>1. PICK f : SumParts(s, f) /\ Sum(s) = f[Len(s)]
    BY SumIsLast
<1> QED BY <1>1, PartsAreNat

LEMMA SumOfNone == Sum(<<>>) = 0
<1>1. <<>> \in Seq(Nat) /\ Len(<<>>) = 0
    OBVIOUS
<1>2. PICK f : SumParts(<<>>, f) /\ Sum(<<>>) = f[Len(<<>>)]
    BY <1>1, SumIsLast
<1> QED BY <1>1, <1>2 DEF SumParts

LEMMA SumOrdered ==
  ASSUME NEW s \in Seq(Nat), NEW t \in Seq(Nat), Len(s) = Len(t),
         \A i \in 1..Len(s) : s[i] <= t[i]
  PROVE  Sum(s) <= Sum(t)
<1>1. PICK f : SumParts(s, f) /\ Sum(s) = f[Len(s)]
    BY SumIsLast
<1>2. PICK g : SumParts(t, g) /\ Sum(t) = g[Len(t)]
    BY SumIsLast
<1>3. Len(s) \in 0..Len(s) /\ Len(s) <= Len(t)
    OBVIOUS
<1> QED BY <1>1, <1>2, <1>3, PartsOrdered

LEMMA SumOfAppend ==
  ASSUME NEW s \in Seq(Nat), NEW x \in Nat
  PROVE  Sum(Append(s, x)) = Sum(s) + x
<1> DEFINE t == Append(s, x)
           n == Len(s)
<1>1. /\ t \in Seq(Nat) /\ n \in Nat /\ Len(t) = n + 1 /\ t[n + 1] = x
      /\ \A i \in 1..n : t[i] = s[i] /\ s[i] \in Nat
    OBVIOUS
<1> HIDE DEF t
<1>2. PICK f : SumParts(s, f) /\ Sum(s) = f[n]
    BY SumIsLast
<1>3. PICK g : SumParts(t, g) /\ Sum(t) = g[n + 1]
    BY <1>1, SumIsLast
<1>4. g[n + 1] = g[n] + x
    BY <1>1, <1>3 DEF SumParts
<1>5. f[n] <= g[n] /\ g[n] <= f[n]
  <2>1. n \in 0..Len(s) /\ n <= Len(t) /\ n \in 0..Len(t) /\ n <= Len(s)
      BY <1>1
  <2>2. \A i \in 1..n : s[i] <= t[i] /\ t[i] <= s[i]
      BY <1>1
  <2>3. f[n] <= g[n]
      BY <1>1, <1>2, <1>3, <2>1, <2>2, PartsOrdered
  <2>4. g[n] <= f[n]
      BY <1>1, <1>2, <1>3, <2>1, <2>2, PartsOrdered
  <2> QED BY <2>3, <2>4
<1>6. f[n] \in Nat /\ g[n] \in Nat
    BY <1>1, <1>2, <1>3, PartsAreNat
<1> QED BY <1>2, <1>3, <1>4, <1>5, <1>6 DEF t

-----------------------------------------------------------------------------
(* What a sequence keeps of a set. *)

WithinParts(s, T, f) ==
  /\ DOMAIN f = 0..Len(s) /\ f[0] = <<>>
  /\ \A i \in 1..Len(s) : f[i] = IF s[i] \in T THEN Append(f[i - 1], s[i]) ELSE f[i - 1]


LEMMA KeptExist ==
  ASSUME NEW X, NEW s \in Seq(X), NEW T
  PROVE  \E f : f = [i \in 0..Len(s) |->
                       IF i = 0 THEN <<>>
                       ELSE IF s[i] \in T THEN Append(f[i - 1], s[i]) ELSE f[i - 1]]
<1> DEFINE Next1(f, i) == IF i = 0 THEN <<>>
                          ELSE IF s[i] \in T THEN Append(f[i - 1], s[i]) ELSE f[i - 1]
           G(n, f) == f = [i \in 0..n |-> Next1(f, i)]
           S == {n \in 0..Len(s) : \E f : G(n, f)}
<1>1. 0 \in S
  <2> DEFINE f == [i \in 0..0 |-> <<>>]
  <2>1. G(0, f)
      OBVIOUS
  <2> HIDE DEF f, G
  <2> QED BY <2>1
<1>2. ASSUME NEW n \in 1..Len(s), n - 1 \in S PROVE n \in S
  <2>1. PICK f : G(n - 1, f)
      BY <1>2
  <2> DEFINE g == [i \in 0..n |-> IF i = n THEN Next1(f, n) ELSE f[i]]
  <2>2. ASSUME NEW i \in 0..n PROVE g[i] = Next1(g, i)
    <3>1. i # 0 => i - 1 \in 0..n /\ i - 1 # n
        OBVIOUS
    <3>2. i # 0 => g[i - 1] = f[i - 1]
        BY <3>1
    <3>3. Next1(g, i) = Next1(f, i)
        BY <3>2
    <3>4. i # n => i \in 0..(n - 1)
        OBVIOUS
    <3>5. i # n => f[i] = Next1(f, i)
        BY <2>1, <3>4
    <3> HIDE DEF Next1
    <3> QED BY <3>3, <3>5
  <2> HIDE DEF Next1
  <2>3. G(n, g)
      BY <2>2
  <2> HIDE DEF g, G
  <2> QED BY <2>3
<1> HIDE DEF G, Next1
<1>3. \A n \in 0..Len(s) : n \in S
  <2> Len(s) \in Nat
      OBVIOUS
  <2> HIDE DEF S
  <2> QED BY <1>1, <1>2, PlaceByPlace
<1>4. PICK f : G(Len(s), f)
    BY <1>3
<1> QED BY <1>4 DEF G, Next1

LEMMA WithinIsLast ==
  ASSUME NEW X, NEW s \in Seq(X), NEW T
  PROVE  \E f : WithinParts(s, T, f) /\ Within(s, T) = f[Len(s)]
<1> DEFINE P(f) == f = [i \in 0..Len(s) |->
                  IF i = 0 THEN <<>>
                  ELSE IF s[i] \in T THEN Append(f[i - 1], s[i]) ELSE f[i - 1]]
           f == CHOOSE f : P(f)
<1>1. \E h : P(h)
    BY KeptExist, Zenon
<1>2. Within(s, T) = f[Len(s)]
    BY DEF Within
<1>3. P(f)
  <2> HIDE DEF P
  <2> QED BY <1>1
<1> HIDE DEF f
<1>4. WithinParts(s, T, f)
  <2>1. Len(s) \in Nat /\ DOMAIN f = 0..Len(s)
      BY <1>3
  <2>2. f[0] = <<>>
      BY <1>3, <2>1
  <2>3. ASSUME NEW i \in 1..Len(s)
        PROVE  f[i] = IF s[i] \in T THEN Append(f[i - 1], s[i]) ELSE f[i - 1]
    <3>1. i \in 0..Len(s) /\ i # 0
        BY <2>1
    <3> QED BY <1>3, <3>1
  <2> QED BY <2>1, <2>2, <2>3 DEF WithinParts
<1> QED BY <1>2, <1>4

\* What Within keeps: what is in the sequence and in the set, each once if the sequence
\* has it once.
LEMMA WithinKeeps ==
  ASSUME NEW X, NEW s \in Seq(X), IsInjective(s), NEW T
  PROVE  /\ Within(s, T) \in Seq(X)
         /\ IsInjective(Within(s, T))
         /\ Range(Within(s, T)) = Range(s) \cap T
<1>1. PICK f : WithinParts(s, T, f) /\ Within(s, T) = f[Len(s)]
    BY WithinIsLast
<1>0. Len(s) \in Nat /\ \A i \in 1..Len(s) : s[i] \in X
    OBVIOUS
<1> DEFINE S == {i \in 0..Len(s) : /\ f[i] \in Seq(X)
                                   /\ IsInjective(f[i])
                                   /\ Range(f[i]) = {s[j] : j \in 1..i} \cap T}
<1>2. 0 \in S
  <2>1. f[0] = <<>> /\ 1..0 = {} /\ 0 \in 0..Len(s)
      BY <1>0, <1>1 DEF WithinParts
  <2>2. /\ <<>> \in Seq(X) /\ DOMAIN <<>> = {} /\ {s[j] : j \in 1..0} = {}
      BY <2>1
  <2>3. IsInjective(<<>>) /\ Range(<<>>) = {}
      BY <2>2 DEF IsInjective, Range
  <2> QED BY <2>1, <2>2, <2>3
<1>3. ASSUME NEW i \in 1..Len(s), i - 1 \in S PROVE i \in S
  <2> DEFINE q == f[i - 1]
             x == s[i]
  <2>1. q \in Seq(X) /\ IsInjective(q) /\ Range(q) = {s[j] : j \in 1..(i - 1)} \cap T /\ x \in X
      BY <1>0, <1>3
  <2>2. f[i] = IF x \in T THEN Append(q, x) ELSE q
      BY <1>1 DEF WithinParts
  <2>3. {s[j] : j \in 1..i} = {s[j] : j \in 1..(i - 1)} \cup {x}
    <3>1. 1..i = (1..(i - 1)) \cup {i}
        OBVIOUS
    <3> QED BY <3>1
  <2>4. x \notin {s[j] : j \in 1..(i - 1)}
      BY DEF IsInjective
  <2> HIDE DEF q, x
  <2>5. CASE x \in T
    <3>1. f[i] = Append(q, x)
        BY <2>2, <2>5
    <3>2. /\ Append(q, x) \in Seq(X) /\ DOMAIN Append(q, x) = 1..(Len(q) + 1) /\ Len(q) \in Nat
          /\ DOMAIN q = 1..Len(q)
          /\ Append(q, x)[Len(q) + 1] = x /\ \A j \in 1..Len(q) : Append(q, x)[j] = q[j]
        BY <2>1
    <3>3. x \notin Range(q)
        BY <2>1, <2>4
    <3>4. IsInjective(Append(q, x))
      <4> SUFFICES ASSUME NEW a \in 1..(Len(q) + 1), NEW b \in 1..(Len(q) + 1),
                          Append(q, x)[a] = Append(q, x)[b]
                   PROVE  a = b
          BY <3>2 DEF IsInjective
      <4>1. CASE a \in 1..Len(q) /\ b \in 1..Len(q)
          BY <2>1, <3>2, <4>1 DEF IsInjective
      <4>2. CASE a = Len(q) + 1 /\ b \in 1..Len(q)
          BY <3>2, <3>3, <4>2 DEF Range
      <4>3. CASE b = Len(q) + 1 /\ a \in 1..Len(q)
          BY <3>2, <3>3, <4>3 DEF Range
      <4> QED BY <3>2, <4>1, <4>2, <4>3
    <3>5. Range(Append(q, x)) = Range(q) \cup {x}
      <4>1. 1..(Len(q) + 1) = (1..Len(q)) \cup {Len(q) + 1}
          BY <3>2
      <4> QED BY <3>2, <4>1 DEF Range
    <3>6. Range(Append(q, x)) = {s[j] : j \in 1..i} \cap T
      <4> HIDE DEF S
      <4> QED BY <2>1, <2>3, <2>5, <3>5
    <3>7. i \in 0..Len(s) /\ f[i] \in Seq(X)
        BY <3>1, <3>2
    <3> QED BY <3>1, <3>4, <3>6, <3>7, Zenon
  <2>6. CASE x \notin T
    <3>1. f[i] = q /\ {s[j] : j \in 1..i} \cap T = {s[j] : j \in 1..(i - 1)} \cap T
        BY <2>2, <2>3, <2>6
    <3>2. i \in 0..Len(s)
        OBVIOUS
    <3> QED BY <2>1, <3>1, <3>2
  <2> QED BY <2>5, <2>6
<1>4. \A i \in 0..Len(s) : i \in S
  <2> HIDE DEF S
  <2> QED BY <1>0, <1>2, <1>3, PlaceByPlace
<1>5. Range(s) = {s[j] : j \in 1..Len(s)} /\ Len(s) \in 0..Len(s)
    BY <1>0 DEF Range
<1> QED BY <1>1, <1>4, <1>5

LEMMA JoinedRange ==
  ASSUME NEW X, NEW s \in Seq(X), NEW t \in Seq(X)
  PROVE  s \o t \in Seq(X) /\ Range(s \o t) = Range(s) \cup Range(t)
<1> DEFINE u == s \o t
           m == Len(s)
           n == Len(t)
<1>1. /\ u \in Seq(X) /\ m \in Nat /\ n \in Nat /\ DOMAIN u = 1..(m + n)
      /\ DOMAIN s = 1..m /\ DOMAIN t = 1..n
      /\ \A i \in 1..(m + n) : u[i] = IF i <= m THEN s[i] ELSE t[i - m]
    OBVIOUS
<1> HIDE DEF u, m, n
<1>2. Range(u) = Range(s) \cup Range(t)
  <2>1. ASSUME NEW i \in 1..(m + n) PROVE u[i] \in Range(s) \cup Range(t)
    <3>1. CASE i <= m
      <4>1. i \in DOMAIN s /\ u[i] = s[i]
          BY <1>1, <3>1
      <4> QED BY <4>1 DEF Range
    <3>2. CASE i > m
      <4>1. i - m \in DOMAIN t /\ u[i] = t[i - m]
          BY <1>1, <3>2
      <4> QED BY <4>1 DEF Range
    <3> QED BY <1>1, <3>1, <3>2
  <2>2. ASSUME NEW i \in 1..m PROVE s[i] \in Range(u)
    <3>1. i \in 1..(m + n) /\ u[i] = s[i]
        BY <1>1
    <3> QED BY <1>1, <3>1 DEF Range
  <2>3. ASSUME NEW i \in 1..n PROVE t[i] \in Range(u)
    <3>0. i + m \in 1..(m + n) /\ i + m > m /\ (i + m) - m = i
        BY <1>1
    <3>1. u[i + m] = t[i]
        BY <1>1, <3>0
    <3> QED BY <1>1, <3>0, <3>1 DEF Range
  <2> QED BY <1>1, <2>1, <2>2, <2>3 DEF Range
<1> QED BY <1>1, <1>2 DEF u

LEMMA Joined ==
  ASSUME NEW X, NEW s \in Seq(X), NEW t \in Seq(X), IsInjective(s), IsInjective(t),
         Range(s) \cap Range(t) = {}
  PROVE  /\ s \o t \in Seq(X) /\ IsInjective(s \o t) /\ Range(s \o t) = Range(s) \cup Range(t)
<1> DEFINE u == s \o t
           m == Len(s)
           n == Len(t)
<1>1. /\ u \in Seq(X) /\ m \in Nat /\ n \in Nat /\ DOMAIN u = 1..(m + n)
      /\ DOMAIN s = 1..m /\ DOMAIN t = 1..n
      /\ \A i \in 1..(m + n) : u[i] = IF i <= m THEN s[i] ELSE t[i - m]
    OBVIOUS
<1> HIDE DEF u, m, n
<1>2. IsInjective(u)
  <2> SUFFICES ASSUME NEW i \in 1..(m + n), NEW j \in 1..(m + n), u[i] = u[j]
               PROVE  i = j
      BY <1>1 DEF IsInjective
  <2>1. CASE i <= m /\ j <= m
    <3>1. i \in 1..m /\ j \in 1..m /\ s[i] = s[j]
        BY <1>1, <2>1
    <3> QED BY <1>1, <3>1 DEF IsInjective
  <2>2. CASE i > m /\ j > m
    <3>1. i - m \in 1..n /\ j - m \in 1..n /\ t[i - m] = t[j - m]
        BY <1>1, <2>2
    <3>2. i - m = j - m
        BY <1>1, <3>1 DEF IsInjective
    <3> QED BY <1>1, <3>2
  <2>3. CASE i <= m /\ j > m
    <3>1. i \in 1..m /\ j - m \in 1..n
        BY <1>1, <2>3
    <3>2. u[i] = s[i] /\ u[j] = t[j - m]
        BY <1>1, <2>3
    <3> QED BY <1>1, <3>1, <3>2 DEF Range
  <2>4. CASE i > m /\ j <= m
    <3>1. j \in 1..m /\ i - m \in 1..n /\ s[j] = t[i - m]
        BY <1>1, <2>4
    <3> QED BY <1>1, <3>1 DEF Range
  <2> QED BY <1>1, <2>1, <2>2, <2>3, <2>4
<1>3. Range(u) = Range(s) \cup Range(t)
    BY JoinedRange DEF u
<1> QED BY <1>1, <1>2, <1>3 DEF u

\* A list that repeats nothing is as long as the set it lists.
LEMMA Listed ==
  ASSUME NEW X, NEW s \in Seq(X), IsInjective(s)
  PROVE  IsFiniteSet(Range(s)) /\ Cardinality(Range(s)) = Len(s)
<1>1. DOMAIN s = 1..Len(s) /\ Len(s) \in Nat
    OBVIOUS
<1>2. IsFiniteSet(1..Len(s)) /\ Cardinality(1..Len(s)) = Len(s)
    BY <1>1, FS_Interval
<1>3. s \in Bijection(1..Len(s), Range(s))
    BY <1>1 DEF Bijection, Injection, Surjection, IsInjective, Range
<1>4. ExistsBijection(1..Len(s), Range(s))
    BY <1>3 DEF ExistsBijection
<1> QED BY <1>2, <1>4, FS_Bijection

\* A list in ascending order stays in it.
Ascends(s) == \A i, j \in DOMAIN s : i < j => s[i] < s[j]

LEMMA WithinAscends ==
  ASSUME NEW s \in Seq(Nat), Ascends(s), NEW T
  PROVE  Ascends(Within(s, T))
<1>0. Len(s) \in Nat /\ DOMAIN s = 1..Len(s) /\ \A i \in 1..Len(s) : s[i] \in Nat
    OBVIOUS
<1>1. PICK f : WithinParts(s, T, f) /\ Within(s, T) = f[Len(s)]
    BY WithinIsLast
<1> DEFINE S == {i \in 0..Len(s) : /\ f[i] \in Seq(Nat)
                                   /\ Ascends(f[i])
                                   /\ \A k \in DOMAIN f[i] : \E j \in 1..i : f[i][k] = s[j]}
<1>2. 0 \in S
  <2>1. f[0] = <<>> /\ 0 \in 0..Len(s) /\ <<>> \in Seq(Nat) /\ DOMAIN <<>> = {}
      BY <1>0, <1>1 DEF WithinParts
  <2> QED BY <2>1 DEF Ascends
<1>3. ASSUME NEW i \in 1..Len(s), i - 1 \in S PROVE i \in S
  <2> DEFINE x == s[i]
  <2>9. PICK q \in Seq(Nat) : q = f[i - 1]
      BY <1>3
  <2>8. Ascends(q) /\ \A k \in DOMAIN q : \E j \in 1..(i - 1) : q[k] = s[j]
      BY <1>3, <2>9
  <2> DEFINE r == Append(q, x)
             n == Len(q)
  <2>1. /\ q \in Seq(Nat) /\ Ascends(q) /\ x \in Nat /\ n \in Nat /\ DOMAIN q = 1..n
        /\ \A k \in 1..n : \E j \in 1..(i - 1) : q[k] = s[j]
    <3>1. n \in Nat /\ DOMAIN q = 1..n /\ x \in Nat
        BY <1>0, <2>9
    <3> QED BY <2>8, <2>9, <3>1
  <2>2. f[i] = IF x \in T THEN r ELSE q
      BY <1>1, <2>9 DEF WithinParts
  <2>3. i \in 0..Len(s) /\ i \in 1..i /\ \A j \in 1..(i - 1) : j \in 1..i /\ s[j] < x
      BY <1>0 DEF Ascends
  <2>4. CASE x \in T
    <3>1. /\ r \in Seq(Nat) /\ Len(r) = n + 1 /\ DOMAIN r = 1..(n + 1) /\ r[n + 1] = x
          /\ \A k \in 1..n : r[k] = q[k] /\ q[k] \in Nat
        BY <2>1
    <3>2. \A k \in 1..n : q[k] < x
        BY <2>1, <2>3
    <3>3. \A k \in 1..(n + 1) : k \in 1..n \/ k = n + 1
        BY <2>1
    <3> HIDE DEF r, x, n
    <3>4. Ascends(r)
      <4> SUFFICES ASSUME NEW a \in 1..(n + 1), NEW b \in 1..(n + 1), a < b PROVE r[a] < r[b]
          BY <3>1 DEF Ascends
      <4>1. a \in 1..n
          BY <2>1
      <4>2. CASE b \in 1..n
          BY <2>1, <3>1, <4>1, <4>2 DEF Ascends
      <4>3. CASE b = n + 1
          BY <3>1, <3>2, <4>1, <4>3
      <4> QED BY <3>3, <4>2, <4>3
    <3>5. \A k \in DOMAIN r : \E j \in 1..i : r[k] = s[j]
      <4> SUFFICES ASSUME NEW k \in 1..(n + 1) PROVE \E j \in 1..i : r[k] = s[j]
          BY <3>1
      <4>1. CASE k \in 1..n
          BY <2>1, <2>3, <3>1, <4>1
      <4>2. CASE k = n + 1
          BY <2>3, <3>1, <4>2 DEF x
      <4> QED BY <3>3, <4>1, <4>2
    <3>6. f[i] = r
        BY <2>2, <2>4
    <3> QED BY <2>3, <3>1, <3>4, <3>5, <3>6
  <2>5. CASE x \notin T
    <3>1. f[i] = q
        BY <2>2, <2>5
    <3>2. \A k \in DOMAIN q : \E j \in 1..i : q[k] = s[j]
        BY <2>1, <2>3
    <3> QED BY <2>1, <2>3, <3>1, <3>2
  <2> QED BY <2>4, <2>5
<1>4. \A i \in 0..Len(s) : i \in S
  <2> HIDE DEF S
  <2> QED BY <1>0, <1>2, <1>3, PlaceByPlace
<1>5. Len(s) \in 0..Len(s)
    BY <1>0
<1> QED BY <1>1, <1>4, <1>5

\* The first of a list.
LEMMA FirstKeeps ==
  ASSUME NEW X, NEW s \in Seq(X), NEW k \in Nat
  PROVE  /\ First(k, s) \in Seq(X) /\ Len(First(k, s)) = (IF Len(s) < k THEN Len(s) ELSE k)
         /\ \A i \in 1..Len(First(k, s)) : First(k, s)[i] = s[i] /\ i \in 1..Len(s)
         /\ IsInjective(s) => IsInjective(First(k, s))
         /\ Range(First(k, s)) \subseteq Range(s)
<1> DEFINE n == IF Len(s) < k THEN Len(s) ELSE k
           t == First(k, s)
<1>1. n \in Nat /\ Len(s) \in Nat /\ n <= Len(s) /\ DOMAIN s = 1..Len(s)
    OBVIOUS
<1>2. t = [i \in 1..n |-> s[i]]
    BY <1>1 DEF First
<1>3. t \in Seq(X) /\ Len(t) = n /\ DOMAIN t = 1..n
    BY <1>1, <1>2
<1>4. \A i \in 1..n : t[i] = s[i] /\ i \in 1..Len(s)
    BY <1>1, <1>2
<1> HIDE DEF t, n
<1>5. IsInjective(s) => IsInjective(t)
    BY <1>1, <1>3, <1>4 DEF IsInjective
<1>6. Range(t) \subseteq Range(s)
    BY <1>1, <1>3, <1>4 DEF Range
<1> QED BY <1>3, <1>4, <1>5, <1>6 DEF t, n

\* An order of the places 1..n: no two of them are level.
Orders(before, n) ==
  /\ \A i \in 1..n : <<i, i>> \notin before
  /\ \A i, j \in 1..n : i = j \/ <<i, j>> \in before \/ <<j, i>> \in before
  /\ \A i, j, k \in 1..n : <<i, j>> \in before /\ <<j, k>> \in before => <<i, k>> \in before

\* Sorting by counting takes every place once, and puts the one ahead ahead.
LEMMA SortedOnce ==
  ASSUME NEW n \in Nat, NEW R, Orders(R, n)
  PROVE  LET o == ByOrder(n, R)
         IN  /\ o \in [1..n -> 1..n] /\ o \in Bijection(1..n, 1..n)
             /\ \A p, q \in 1..n : p < q => <<o[p], o[q]>> \in R
<1> DEFINE ahead(i) == {j \in 1..n : <<j, i>> \in R}
           place == [i \in 1..n |-> 1 + Cardinality(ahead(i))]
           o == ByOrder(n, R)
<1>1. IsFiniteSet(1..n) /\ Cardinality(1..n) = n
    BY FS_Interval
<1>2. ASSUME NEW i \in 1..n
      PROVE  IsFiniteSet(ahead(i)) /\ Cardinality(ahead(i)) \in Nat /\ Cardinality(ahead(i)) < n
  <2>1. ahead(i) \in SUBSET (1..n) /\ i \notin ahead(i)
      BY DEF Orders
  <2> HIDE DEF ahead
  <2>2. IsFiniteSet(ahead(i)) /\ Cardinality(ahead(i)) \in Nat /\ Cardinality(ahead(i)) <= n
      BY <1>1, <2>1, FS_Subset, FS_CardinalityType
  <2>3. Cardinality(ahead(i)) # n
      BY <1>1, <2>1, FS_Subset
  <2> QED BY <2>2, <2>3
<1>3. ASSUME NEW i \in 1..n, NEW j \in 1..n, <<i, j>> \in R
      PROVE  Cardinality(ahead(i)) < Cardinality(ahead(j))
  <2>1. ahead(i) \in SUBSET ahead(j) /\ i \in ahead(j) /\ i \notin ahead(i)
      BY <1>3 DEF Orders
  <2>2. IsFiniteSet(ahead(j)) /\ Cardinality(ahead(j)) \in Nat /\ Cardinality(ahead(i)) \in Nat
      BY <1>2
  <2> HIDE DEF ahead
  <2>3. /\ Cardinality(ahead(i)) <= Cardinality(ahead(j))
        /\ Cardinality(ahead(i)) # Cardinality(ahead(j))
      BY <2>1, <2>2, FS_Subset
  <2> QED BY <2>2, <2>3
<1> HIDE DEF ahead
<1>4. place \in [1..n -> 1..n]
    BY <1>2
<1>5. \A i, j \in 1..n : <<i, j>> \in R => place[i] < place[j]
    BY <1>2, <1>3
<1> HIDE DEF place
<1>6. place \in Injection(1..n, 1..n)
  <2> SUFFICES ASSUME NEW i \in 1..n, NEW j \in 1..n, place[i] = place[j] PROVE i = j
      BY <1>4 DEF Injection, IsInjective
  <2>1. place[i] \in 1..n /\ place[j] \in 1..n
      BY <1>4
  <2>2. <<i, j>> \notin R
      BY <1>5, <2>1
  <2>3. <<j, i>> \notin R
      BY <1>5, <2>1
  <2> QED BY <2>2, <2>3 DEF Orders
<1>7. place \in Surjection(1..n, 1..n)
    BY <1>1, <1>6, FS_Injection
<1>8. \A p \in 1..n : \E i \in 1..n : place[i] = p
    BY <1>7 DEF Surjection
<1>9. \A p \in 1..n : o[p] \in 1..n /\ place[o[p]] = p
  <2> SUFFICES ASSUME NEW p \in 1..n PROVE o[p] \in 1..n /\ place[o[p]] = p
      OBVIOUS
  <2>1. o[p] = CHOOSE i \in 1..n : 1 + Cardinality(ahead(i)) = p
      BY DEF ByOrder, ahead
  <2>2. \A i \in 1..n : place[i] = 1 + Cardinality(ahead(i))
      BY DEF place
  <2> QED BY <1>8, <2>1, <2>2
<1>10. o \in [1..n -> 1..n]
    BY <1>9 DEF ByOrder
<1> HIDE DEF o
<1>11. \A p, q \in 1..n : o[p] = o[q] => p = q
    BY <1>9
<1>12. \A i \in 1..n : o[place[i]] = i
  <2> SUFFICES ASSUME NEW i \in 1..n PROVE o[place[i]] = i
      OBVIOUS
  <2>1. place[i] \in 1..n
      BY <1>4
  <2>2. o[place[i]] \in 1..n /\ place[o[place[i]]] = place[i]
      BY <1>9, <2>1
  <2> QED BY <1>6, <2>2 DEF Injection, IsInjective
<1>13. o \in Bijection(1..n, 1..n)
    BY <1>4, <1>10, <1>11, <1>12 DEF Bijection, Injection, Surjection, IsInjective
<1>14. ASSUME NEW p \in 1..n, NEW q \in 1..n, p < q PROVE <<o[p], o[q]>> \in R
  <2>1. o[p] \in 1..n /\ o[q] \in 1..n /\ place[o[p]] = p /\ place[o[q]] = q /\ o[p] # o[q]
      BY <1>9, <1>14
  <2>2. ~(<<o[q], o[p]>> \in R)
      BY <1>5, <1>14, <2>1
  <2> QED BY <2>1, <2>2 DEF Orders
<1> QED BY <1>10, <1>13, <1>14 DEF o

-----------------------------------------------------------------------------
(* The fallback chain of the router, for every chain, limit and clock. *)

\* A call keeps its fields; while it is under way, the answers it was charged
\* for are those it holds as empty, plus the one it is about to judge.
Fields == {"pc", "left", "link", "sent", "empty", "totals", "total",
           "discarded", "tried", "paid", "began", "when"}

Charged(k) ==
    /\ DOMAIN k = Fields
    /\ k.pc \in {"idle", "choose", "send", "wait", "usable", "empty", "returned", "raised"}
    /\ k.pc \in {"idle", "choose", "send", "wait"} => k.paid = k.totals
    /\ k.pc \in {"usable", "empty"} => k.paid = Append(k.totals, k.total)
    /\ k.pc = "raised" => k.paid = <<>>

ChargeInv == DOMAIN call = Calls /\ \A c \in Calls : Charged(call[c])

\* A step of one call leaves the others alone.
LEMMA OneCall ==
    ASSUME ChargeInv, NEW c \in Calls, NEW k, Charged(k),
           call' = [call EXCEPT ![c] = k]
    PROVE  ChargeInv'
<1> SUFFICES ASSUME NEW d \in Calls PROVE DOMAIN call' = Calls /\ Charged(call'[d])
    BY DEF ChargeInv
<1>1. CASE d = c
    BY <1>1 DEF ChargeInv
<1>2. CASE d # c
    BY <1>2 DEF ChargeInv
<1> QED BY <1>1, <1>2

\* The initial state, and every step, keep the account of each call.
LEMMA ChargeInit == Init => ChargeInv
BY DEF Init, ChargeInv, Charged, NewCall, Fields

LEMMA ChargeStep == ChargeInv /\ [Next]_vars => ChargeInv'
<1> SUFFICES ASSUME ChargeInv, [Next]_vars PROVE ChargeInv'
    OBVIOUS
<1> USE DEF Fields
<1>1. CASE UNCHANGED call
    BY <1>1 DEF ChargeInv
<1>2. ASSUME NEW c \in Calls, StartCall(c) \/ Step(c) PROVE ChargeInv'
  <2> DEFINE old == call[c]
  <2>0. Charged(old)
      BY DEF ChargeInv
  <2>1. CASE StartCall(c)
    <3> DEFINE k == [old EXCEPT !.pc = "choose", !.left = max_attempts(c), !.began = now]
    <3>1. Charged(k)
        BY <2>0, <2>1 DEF StartCall, Charged
    <3>2. call' = [call EXCEPT ![c] = k]
        BY <2>1 DEF StartCall
    <3> QED BY <3>1, <3>2, OneCall
  <2>2. CASE Resolve(c)
    <3>1. PICK down \in LedgerDown :
            LET link == Chain(c)[Min(Open(c, down))]
            IN  call' = [call EXCEPT ![c].pc = "send", ![c].link = link,
                                     ![c].left = @ - 1,
                                     ![c].tried = Append(@, link),
                                     ![c].when = Append(@, now)]
        BY <2>2 DEF Resolve
    <3> DEFINE link == Chain(c)[Min(Open(c, down))]
    <3> DEFINE k == [old EXCEPT !.pc = "send", !.link = link, !.left = @ - 1,
                                !.tried = Append(@, link), !.when = Append(@, now)]
    <3> HIDE DEF link
    <3>2. Charged(k)
        BY <2>0, <2>2 DEF Resolve, Charged
    <3>3. call' = [call EXCEPT ![c] = k]
        BY <3>1 DEF link
    <3> HIDE DEF k
    <3> QED BY <3>2, <3>3, OneCall
  <2>3. CASE RaiseExhausted(c)
    <3> DEFINE total == IF old.totals = <<>> THEN 0 ELSE Last(old.totals)
    <3> DEFINE dropped == IF old.totals = <<>> THEN 0 ELSE Discarded(old.totals)
    <3> DEFINE k == [old EXCEPT !.pc = Ending(c), !.total = total, !.discarded = dropped]
    <3>1. call' = [call EXCEPT ![c] = k]
        BY <2>3 DEF RaiseExhausted
    <3> HIDE DEF total, dropped
    <3>2. Charged(k)
        BY <2>0, <2>3 DEF RaiseExhausted, Charged, Ending
    <3> HIDE DEF k
    <3> QED BY <3>1, <3>2, OneCall
  <2>4. CASE Send(c)
    <3> DEFINE k == [old EXCEPT !.pc = "wait", !.sent = now]
    <3>1. Charged(k)
        BY <2>0, <2>4 DEF Send, Charged
    <3>2. call' = [call EXCEPT ![c] = k]
        BY <2>4 DEF Send
    <3> QED BY <3>1, <3>2, OneCall
  <2>5. CASE Throttled(c)
    <3>1. PICK pc \in {"send", "choose"} : call' = [call EXCEPT ![c].pc = pc]
        BY <2>5 DEF Throttled
    <3> DEFINE k == [old EXCEPT !.pc = pc]
    <3>2. Charged(k)
        BY <2>0, <2>5 DEF Throttled, Charged
    <3>3. call' = [call EXCEPT ![c] = k]
        BY <3>1
    <3> QED BY <3>2, <3>3, OneCall
  <2>6. CASE Fails(c)
    <3> DEFINE k == [old EXCEPT !.pc = "choose"]
    <3>1. Charged(k)
        BY <2>0, <2>6 DEF Fails, Charged
    <3>2. call' = [call EXCEPT ![c] = k]
        BY <2>6 DEF Fails
    <3> QED BY <3>1, <3>2, OneCall
  <2>7. CASE Answers(c)
    <3>1. PICK amount \in Sizes, verdict \in {"usable", "empty"} :
            call' = [call EXCEPT ![c].pc = verdict, ![c].total = amount,
                                 ![c].paid = Append(@, amount)]
        BY <2>7 DEF Answers
    <3> DEFINE k == [old EXCEPT !.pc = verdict, !.total = amount, !.paid = Append(@, amount)]
    <3>2. Charged(k)
        BY <2>0, <2>7 DEF Answers, Charged
    <3>3. call' = [call EXCEPT ![c] = k]
        BY <3>1
    <3> QED BY <3>2, <3>3, OneCall
  <2>8. CASE FinishUsable(c)
    <3> DEFINE dropped == Sum(old.totals)
    <3> DEFINE k == [old EXCEPT !.pc = "returned", !.discarded = dropped]
    <3>1. call' = [call EXCEPT ![c] = k]
        BY <2>8 DEF FinishUsable
    <3> HIDE DEF dropped
    <3>2. Charged(k)
        BY <2>0, <2>8 DEF FinishUsable, Charged
    <3> HIDE DEF k
    <3> QED BY <3>1, <3>2, OneCall
  <2>9. CASE FinishEmpty(c)
    <3> DEFINE k == [old EXCEPT !.pc = "choose", !.empty = @ \cup {old.link},
                                !.totals = Append(@, old.total)]
    <3>1. Charged(k)
        BY <2>0, <2>9 DEF FinishEmpty, Charged
    <3>2. call' = [call EXCEPT ![c] = k]
        BY <2>9 DEF FinishEmpty
    <3> QED BY <3>1, <3>2, OneCall
  <2> QED
      BY <1>2, <2>1, <2>2, <2>3, <2>4, <2>5, <2>6, <2>7, <2>8, <2>9
      DEF Step, Response
<1>3. CASE Tick
    BY <1>1, <1>3 DEF Tick
<1> QED BY <1>1, <1>2, <1>3 DEF Next, vars

\* Router.invoke never answers ChainExhausted once a model has answered, for
\* every chain, limit, number of keys and number of concurrent calls.
THEOREM AnswerAlwaysKept == Spec => []AnswerIsKept
<1>1. ChargeInv => AnswerIsKept
    BY DEF ChargeInv, Charged, AnswerIsKept
<1> QED BY <1>1, ChargeInit, ChargeStep, PTL DEF Spec

-----------------------------------------------------------------------------
(* The chain of a call. *)

\* The chain of a call: every model once, whatever the user chose.
LEMMA ChainIsOnce ==
  ASSUME NEW p \in Models \cup {NoChoice}
  PROVE  /\ chain_for(p) \in Seq(Models) /\ IsInjective(chain_for(p))
         /\ Len(chain_for(p)) \in Nat \ {0}
<1>1. CASE p = NoChoice
    BY <1>1, ChainAssumption DEF chain_for
<1>2. CASE p # NoChoice
  <2> DEFINE behind == Within(Base, Models \ {p})
             absent == Within(Selectable, Models \ ({p} \cup ToSet(behind)))
  <2> DEFINE first == <<p>>
  <2>1. p \in Models /\ first \in Seq(Models) /\ IsInjective(first) /\ Range(first) = {p}
    <3>1. p \in Models /\ DOMAIN first = {1} /\ first[1] = p
        BY <1>2
    <3> QED BY <3>1 DEF IsInjective, Range
  <2>2. behind \in Seq(Models) /\ IsInjective(behind) /\ Range(behind) = Range(Base) \cap (Models \ {p})
      BY ChainAssumption, WithinKeeps
  <2>3. ToSet(behind) = Range(behind)
      BY DEF ToSet, Range
  <2>4. /\ absent \in Seq(Models) /\ IsInjective(absent)
        /\ Range(absent) = Range(Selectable) \cap (Models \ ({p} \cup ToSet(behind)))
      BY ChainAssumption, WithinKeeps
  <2>5. chain_for(p) = first \o absent \o behind /\ Len(first) = 1
      BY <1>2 DEF chain_for
  <2> HIDE DEF behind, absent, first
  <2>6. /\ first \o absent \in Seq(Models) /\ IsInjective(first \o absent)
        /\ Range(first \o absent) = {p} \cup Range(absent)
    <3>1. Range(first) \cap Range(absent) = {}
        BY <2>1, <2>4
    <3> QED BY <2>1, <2>4, <3>1, Joined
  <2>7. (first \o absent) \o behind \in Seq(Models) /\ IsInjective((first \o absent) \o behind)
    <3>1. Range(first \o absent) \cap Range(behind) = {}
        BY <2>2, <2>3, <2>4, <2>6
    <3> QED BY <2>2, <2>6, <3>1, Joined
  <2>8. Len(first \o absent \o behind) = 1 + Len(absent) + Len(behind)
    <3>1. first \o absent \in Seq(Models) /\ Len(first \o absent) = 1 + Len(absent)
      <4>0. \A x \in Seq(Models), y \in Seq(Models) :
              x \o y \in Seq(Models) /\ Len(x \o y) = Len(x) + Len(y)
          OBVIOUS
      <4> QED BY <2>1, <2>4, <2>5, <4>0
    <3>2. Len((first \o absent) \o behind) = Len(first \o absent) + Len(behind)
        BY <2>2, <3>1
    <3> QED BY <3>1, <3>2
  <2> QED BY <2>2, <2>4, <2>5, <2>7, <2>8
<1> QED BY <1>1, <1>2

LEMMA ChainOfCall ==
  ASSUME NEW c \in Calls
  PROVE  /\ Chain(c) \in Seq(Models) /\ IsInjective(Chain(c))
         /\ max_attempts(c) \in Nat /\ Len(Chain(c)) = max_attempts(c)
         /\ Pin[c] # NoChoice => max_attempts(c) = 1
<1>1. Pin[c] \in Models \cup {NoChoice} /\ Prefer[c] \in Models \cup {NoChoice}
    BY ChainAssumption
<1>2. CASE Pin[c] = NoChoice
    BY <1>1, <1>2, ChainIsOnce DEF Chain, max_attempts
<1>3. CASE Pin[c] # NoChoice
  <2>1. Pin[c] \in Models /\ Chain(c) = <<Pin[c]>> /\ max_attempts(c) = 1
      BY <1>1, <1>3 DEF Chain, max_attempts
  <2> QED BY <2>1 DEF IsInjective
<1> QED BY <1>2, <1>3

-----------------------------------------------------------------------------
(* A call walks its chain. *)

Under == {"send", "wait", "usable", "empty"}

Pcs == {"idle", "choose", "returned", "raised"} \cup Under

CallRecords ==
  [pc : Pcs, left : Nat, link : Models \cup {NoChoice}, sent : 0..MaxTime,
   empty : SUBSET Models, totals : Seq(Sizes), total : Sizes \cup {0},
   discarded : Nat, tried : Seq(Models), paid : Seq(Sizes),
   began : 0..MaxTime, when : Seq(0..MaxTime)]

\* The fields of a call; the model it is asking is the last one it tried.
Shaped(c) ==
  /\ call[c] \in CallRecords
  /\ call[c].pc # "idle" => call[c].left + Len(call[c].tried) = max_attempts(c)
  /\ call[c].pc = "idle" => call[c].tried = <<>> /\ call[c].totals = <<>>
  /\ call[c].empty \subseteq Range(call[c].tried) /\ Range(call[c].tried) \subseteq Range(Chain(c))
  /\ call[c].pc \in Under => call[c].tried # <<>> /\ call[c].link = call[c].tried[Len(call[c].tried)]
  /\ call[c].pc \in {"usable", "empty"} => call[c].total \in Sizes

RouterShape ==
  /\ now \in 0..MaxTime /\ rest \in [Models -> Nat]
  /\ rows \in Seq([model : Models, at : 0..MaxTime, tokens : Sizes])
  /\ key \in [Models -> Nat] /\ \A a \in Models : key[a] < KeyCount[a]
  /\ DOMAIN call = Calls /\ call = [c \in Calls |-> call[c]] /\ \A c \in Calls : Shaped(c)

LEMMA OtherShaped ==
  ASSUME NEW d \in Calls, Shaped(d), call'[d] = call[d]
  PROVE  Shaped(d)'
BY DEF Shaped

LEMMA OpenLink ==
  ASSUME NEW c \in Calls, NEW down, Open(c, down) # {}
  PROVE  /\ Min(Open(c, down)) \in Open(c, down) /\ Min(Open(c, down)) \in DOMAIN Chain(c)
         /\ Chain(c)[Min(Open(c, down))] \in Models
<1>1. Chain(c) \in Seq(Models)
    BY ChainOfCall
<1>2. Open(c, down) \in SUBSET Nat /\ Open(c, down) \subseteq DOMAIN Chain(c)
    BY <1>1 DEF Open
<1>3. \E m \in Open(c, down) : \A n \in Open(c, down) : m <= n
    BY <1>2, LeastNumber
<1>4. Min(Open(c, down)) \in Open(c, down)
    BY <1>3 DEF Min
<1> QED BY <1>1, <1>2, <1>4

LEMMA RouterShapeInit == Init => RouterShape
<1> SUFFICES ASSUME Init PROVE RouterShape
    OBVIOUS
<1>1. ASSUME NEW c \in Calls PROVE Shaped(c)
  <2>1. call[c] = NewCall
      BY DEF Init
  <2>2. Range(<<>>) = {} /\ NewCall.tried = <<>> /\ NewCall.empty = {} /\ NewCall.pc = "idle"
        /\ NewCall.totals = <<>>
      BY DEF Range, NewCall
  <2>3. NewCall \in CallRecords
      BY LimitAssumption DEF NewCall, Pcs, CallRecords
  <2> QED BY <2>1, <2>2, <2>3 DEF Shaped, Under
<1> QED BY <1>1, LimitAssumption DEF Init, RouterShape

\* What one step of a call makes of its record.
LEMMA ResolveMakes ==
  ASSUME RouterShape, NEW c \in Calls, Resolve(c)
  PROVE  \E down \in LedgerDown :
           LET i == Min(Open(c, down))
               a == Chain(c)[i]
           IN  /\ i \in Open(c, down) /\ i \in DOMAIN Chain(c) /\ a \in Models
               /\ call' = [call EXCEPT ![c] = [call[c] EXCEPT !.pc = "send", !.link = a,
                             !.left = @ - 1, !.tried = Append(@, a), !.when = Append(@, now)]]
<1>1. PICK down \in LedgerDown :
        /\ Open(c, down) # {}
        /\ LET link == Chain(c)[Min(Open(c, down))]
           IN  call' = [call EXCEPT ![c].pc = "send", ![c].link = link,
                                    ![c].left = @ - 1,
                                    ![c].tried = Append(@, link),
                                    ![c].when = Append(@, now)]
    BY DEF Resolve
<1>2. /\ Min(Open(c, down)) \in Open(c, down) /\ Min(Open(c, down)) \in DOMAIN Chain(c)
      /\ Chain(c)[Min(Open(c, down))] \in Models
    BY <1>1, OpenLink
<1> DEFINE a == Chain(c)[Min(Open(c, down))]
<1>3. call' = [call EXCEPT ![c].pc = "send", ![c].link = a, ![c].left = @ - 1,
                           ![c].tried = Append(@, a), ![c].when = Append(@, now)]
    BY <1>1
<1> HIDE DEF a
<1>4. call' = [call EXCEPT ![c] = [call[c] EXCEPT !.pc = "send", !.link = a,
                             !.left = @ - 1, !.tried = Append(@, a), !.when = Append(@, now)]]
    BY <1>3 DEF RouterShape
<1> QED BY <1>2, <1>4 DEF a

LEMMA SumOfSizes ==
  ASSUME NEW s \in Seq(Sizes)
  PROVE  Sum(s) \in Nat /\ (s # <<>> => Sum(Front(s)) \in Nat /\ Last(s) \in Sizes)
<1>1. s \in Seq(Nat)
  <2>0. Sizes \subseteq Nat
      BY LimitAssumption
  <2>2. \A i \in 1..Len(s) : s[i] \in Sizes
      OBVIOUS
  <2>1. \A i \in 1..Len(s) : s[i] \in Nat
      BY <2>0, <2>2
  <2> QED BY <2>1
<1>2. ASSUME s # <<>> PROVE Front(s) \in Seq(Nat) /\ Last(s) \in Sizes
    BY <1>1, <1>2 DEF Front, Last
<1> QED BY <1>1, <1>2, SumIsNat

\* A step of one call is a step of no other.
LEMMA OthersStay ==
  ASSUME DOMAIN call = Calls, NEW c \in Calls, StartCall(c) \/ Step(c)
  PROVE  /\ DOMAIN call' = Calls /\ call' = [d \in Calls |-> call'[d]] /\ now' = now
         /\ \A d \in Calls \ {c} : call'[d] = call[d]
<1>1. CASE StartCall(c) \/ Send(c) \/ Fails(c)
    BY <1>1 DEF StartCall, Send, Fails
<1>2. CASE Resolve(c)
  <2>1. PICK down \in LedgerDown : LET link == Chain(c)[Min(Open(c, down))] IN
          call' = [call EXCEPT ![c].pc = "send", ![c].link = link,
                               ![c].left = @ - 1, ![c].tried = Append(@, link),
                               ![c].when = Append(@, now)]
      BY <1>2 DEF Resolve
  <2> QED BY <1>2, <2>1 DEF Resolve
<1>3. CASE RaiseExhausted(c)
    BY <1>3 DEF RaiseExhausted
<1>4. CASE Throttled(c)
  <2>1. now' = now /\ \E p \in {"send", "choose"} : call' = [call EXCEPT ![c].pc = p]
      BY <1>4 DEF Throttled
  <2> QED BY <2>1
<1>5. CASE Answers(c)
    BY <1>5 DEF Answers
<1>6. CASE FinishUsable(c)
    BY <1>6 DEF FinishUsable
<1>7. CASE FinishEmpty(c)
    BY <1>7 DEF FinishEmpty
<1> QED BY <1>1, <1>2, <1>3, <1>4, <1>5, <1>6, <1>7 DEF Step, Response

LEMMA RouterShapeStep == RouterShape /\ [Next]_vars => RouterShape'
<1> SUFFICES ASSUME RouterShape, [Next]_vars PROVE RouterShape'
    OBVIOUS
<1>0. /\ now \in 0..MaxTime /\ rest \in [Models -> Nat] /\ MaxTime \in Nat
      /\ rows \in Seq([model : Models, at : 0..MaxTime, tokens : Sizes])
      /\ key \in [Models -> Nat] /\ \A a \in Models : key[a] < KeyCount[a]
      /\ DOMAIN call = Calls /\ call = [c \in Calls |-> call[c]] /\ \A c \in Calls : Shaped(c)
    BY LimitAssumption DEF RouterShape
<1>1. CASE UNCHANGED <<rest, rows, key, call>> /\ now' \in 0..MaxTime
  <2>1. \A c \in Calls : Shaped(c)'
      BY <1>0, <1>1, OtherShaped
  <2> QED BY <1>0, <1>1, <2>1 DEF RouterShape
<1>2. ASSUME NEW c \in Calls, StartCall(c) \/ Step(c) PROVE RouterShape'
  <2> DEFINE k == call[c]
  <2>1. /\ DOMAIN call' = Calls /\ call' = [d \in Calls |-> call'[d]] /\ now' = now
        /\ \A d \in Calls \ {c} : call'[d] = call[d]
      BY <1>0, <1>2, OthersStay
  <2>2. Shaped(c)'
    <3>0. Shaped(c) /\ call[c] = k
        BY <1>0
    <3>10. /\ k \in CallRecords /\ k.left \in Nat /\ k.tried \in Seq(Models) /\ k.totals \in Seq(Sizes)
           /\ k.paid \in Seq(Sizes) /\ k.empty \in SUBSET Models
        BY <3>0 DEF Shaped, CallRecords
    <3>1. CASE StartCall(c)
      <4>1. call'[c] = [k EXCEPT !.pc = "choose", !.left = max_attempts(c), !.began = now]
          BY <1>0, <3>1 DEF StartCall
      <4>2. max_attempts(c) \in Nat /\ k.pc = "idle" /\ Len(<<>>) = 0
          BY <3>1, ChainOfCall DEF StartCall
      <4>6. k.tried = <<>> /\ k.empty \subseteq Range(k.tried) /\ Range(k.tried) \subseteq Range(Chain(c))
          BY <3>0, <4>2 DEF Shaped
      <4>3. call'[c] \in CallRecords
          BY <1>0, <3>10, <4>1, <4>2 DEF CallRecords, Pcs
      <4>4. /\ call'[c].pc = "choose" /\ call'[c].left = max_attempts(c) /\ call'[c].tried = <<>>
            /\ call'[c].empty = k.empty
          BY <3>10, <4>1, <4>6 DEF CallRecords
      <4>5. call'[c].left + Len(call'[c].tried) = max_attempts(c)
          BY <4>2, <4>4
      <4> QED BY <4>3, <4>4, <4>5, <4>6 DEF Shaped, Under
    <3>2. CASE Resolve(c)
      <4>1. PICK i \in DOMAIN Chain(c) : /\ Chain(c)[i] \in Models
              /\ call' = [call EXCEPT ![c] = [call[c] EXCEPT !.pc = "send", !.link = Chain(c)[i],
                             !.left = @ - 1, !.tried = Append(@, Chain(c)[i]),
                             !.when = Append(@, now)]]
          BY <3>2, ResolveMakes
      <4> DEFINE a == Chain(c)[i]
                 t == Append(k.tried, a)
      <4>2. a \in Models /\ a \in Range(Chain(c)) /\ k.tried \in Seq(Models)
          BY <3>10, <4>1 DEF Range
      <4>3. call'[c] = [k EXCEPT !.pc = "send", !.link = a, !.left = @ - 1, !.tried = t,
                                 !.when = Append(@, now)]
          BY <1>0, <4>1
      <4>4. k.pc = "choose" /\ k.left > 0 /\ k.left \in Nat
          BY <3>10, <3>2 DEF Resolve
      <4> HIDE DEF a
      <4>5. /\ t \in Seq(Models) /\ t # <<>> /\ Len(t) = Len(k.tried) + 1 /\ t[Len(t)] = a
            /\ Len(k.tried) \in Nat
          BY <4>2
      <4>6. Range(t) = Range(k.tried) \cup {a}
        <5>1. DOMAIN t = 1..Len(t) /\ DOMAIN k.tried = 1..Len(k.tried)
              /\ 1..Len(t) = (1..Len(k.tried)) \cup {Len(t)}
              /\ \A j \in 1..Len(k.tried) : t[j] = k.tried[j]
            BY <4>2, <4>5
        <5> QED BY <4>5, <5>1 DEF Range
      <4> HIDE DEF t
      <4>7. call'[c].left + Len(t) = max_attempts(c)
        <5>1. k.left + Len(k.tried) = max_attempts(c)
            BY <3>0, <4>4 DEF Shaped
        <5>2. call'[c].left = k.left - 1
            BY <3>10, <4>3 DEF CallRecords
        <5> QED BY <4>4, <4>5, <5>1, <5>2
      <4>8. /\ call'[c] \in CallRecords /\ call'[c].pc = "send" /\ call'[c].tried = t
            /\ call'[c].link = a /\ call'[c].empty = k.empty
        <5>1. k.left - 1 \in Nat /\ Append(k.when, now) \in Seq(0..MaxTime)
          <6>1. k.when \in Seq(0..MaxTime)
              BY <3>10 DEF CallRecords
          <6> QED BY <1>0, <4>4, <6>1
        <5> QED BY <3>10, <4>2, <4>3, <4>5, <5>1 DEF CallRecords, Pcs, Under
      <4>9. k.empty \subseteq Range(k.tried) /\ Range(k.tried) \subseteq Range(Chain(c))
          BY <3>0 DEF Shaped
      <4> QED BY <4>2, <4>5, <4>6, <4>7, <4>8, <4>9 DEF Shaped, Under
    <3>3. CASE RaiseExhausted(c)
      <4>1. /\ k.totals \in Seq(Sizes)
            /\ Sum(k.totals) \in Nat
            /\ k.totals # <<>> => Sum(Front(k.totals)) \in Nat /\ Last(k.totals) \in Sizes
          BY <3>10, SumOfSizes
      <4>2. PICK p \in {"raised", "returned"}, t \in Sizes \cup {0}, n \in Nat :
              call'[c] = [k EXCEPT !.pc = p, !.total = t, !.discarded = n]
        <5>1. call'[c] = [k EXCEPT !.pc = Ending(c),
                  !.total = IF k.totals = <<>> THEN 0 ELSE Last(k.totals),
                  !.discarded = IF k.totals = <<>> THEN 0 ELSE Discarded(k.totals)]
            BY <1>0, <3>3 DEF RaiseExhausted
        <5> QED BY <4>1, <5>1 DEF Ending, Discarded
      <4>3. k.pc = "choose"
          BY <3>3 DEF RaiseExhausted
      <4> QED BY <3>0, <4>2, <4>3 DEF Shaped, CallRecords, Under, Pcs
    <3>4. CASE Send(c)
      <4>1. k.pc = "send" /\ call'[c] = [k EXCEPT !.pc = "wait", !.sent = now]
          BY <1>0, <3>4 DEF Send
      <4> QED BY <1>0, <3>0, <4>1 DEF Shaped, CallRecords, Under, Pcs
    <3>5. CASE Throttled(c)
      <4>1. k.pc = "wait" /\ \E p \in {"send", "choose"} : call'[c] = [k EXCEPT !.pc = p]
          BY <1>0, <3>5 DEF Throttled
      <4> QED BY <3>0, <4>1 DEF Shaped, CallRecords, Under, Pcs
    <3>6. CASE Fails(c)
      <4>1. k.pc = "wait" /\ call'[c] = [k EXCEPT !.pc = "choose"]
          BY <1>0, <3>6 DEF Fails
      <4> QED BY <3>0, <4>1 DEF Shaped, CallRecords, Under, Pcs
    <3>7. CASE Answers(c)
      <4>1. PICK amount \in Sizes, verdict \in {"usable", "empty"} :
              call'[c] = [k EXCEPT !.pc = verdict, !.total = amount, !.paid = Append(@, amount)]
          BY <1>0, <3>7 DEF Answers
      <4>2. k.pc = "wait" /\ Append(k.paid, amount) \in Seq(Sizes)
          BY <3>10, <3>7 DEF Answers
      <4> QED BY <3>0, <4>1, <4>2 DEF Shaped, CallRecords, Under, Pcs
    <3>8. CASE FinishUsable(c)
      <4>1. Sum(k.totals) \in Nat
          BY <3>10, SumOfSizes
      <4>2. k.pc = "usable" /\ call'[c] = [k EXCEPT !.pc = "returned", !.discarded = Sum(k.totals)]
          BY <1>0, <3>8 DEF FinishUsable
      <4> QED BY <3>0, <4>1, <4>2 DEF Shaped, CallRecords, Under, Pcs
    <3>9. CASE FinishEmpty(c)
      <4>1. k.pc = "empty" /\ call'[c] = [k EXCEPT !.pc = "choose",
                            !.empty = @ \cup {k.link}, !.totals = Append(@, k.total)]
          BY <1>0, <3>9 DEF FinishEmpty
      <4>2. /\ k.link \in Models /\ k.link \in Range(k.tried)
            /\ Append(k.totals, k.total) \in Seq(Sizes)
        <5>1. /\ k.tried \in Seq(Models) /\ k.tried # <<>> /\ k.link = k.tried[Len(k.tried)]
              /\ k.total \in Sizes /\ k.totals \in Seq(Sizes)
            BY <3>0, <3>10, <4>1 DEF Shaped, Under
        <5>2. Len(k.tried) \in DOMAIN k.tried
            BY <5>1
        <5> QED BY <5>1, <5>2 DEF Range
      <4>3. /\ call'[c] \in CallRecords /\ call'[c].pc = "choose" /\ call'[c].tried = k.tried
            /\ call'[c].left = k.left /\ call'[c].empty = k.empty \cup {k.link}
        <5>1. k.empty \cup {k.link} \in SUBSET Models
            BY <3>10, <4>2
        <5> QED BY <3>10, <4>1, <4>2, <5>1 DEF CallRecords, Pcs
      <4>4. /\ k.empty \subseteq Range(k.tried) /\ Range(k.tried) \subseteq Range(Chain(c))
            /\ k.left + Len(k.tried) = max_attempts(c)
          BY <3>0, <4>1 DEF Shaped
      <4> QED BY <4>2, <4>3, <4>4 DEF Shaped, Under
    <3> QED BY <1>2, <3>1, <3>2, <3>3, <3>4, <3>5, <3>6, <3>7, <3>8, <3>9 DEF Step, Response
  <2>3. \A d \in Calls : Shaped(d)'
      BY <1>0, <2>1, <2>2, OtherShaped
  <2>4. k.pc \in Under => k.link \in Models
    <3>1. k.pc \in Under => k.tried # <<>> /\ k.link = k.tried[Len(k.tried)] /\ k.tried \in Seq(Models)
        BY <1>0 DEF Shaped, CallRecords
    <3> QED BY <3>1
  <2>5. /\ rest' \in [Models -> Nat] /\ key' \in [Models -> Nat]
        /\ \A a \in Models : key'[a] < KeyCount[a]
    <3>1. CASE Throttled(c)
      <4>1. k.link \in Models
          BY <2>4, <3>1 DEF Throttled, Under
      <4>2. /\ rotate(k.link).index \in Nat /\ rotate(k.link).index < KeyCount[k.link]
        <5>1. key[k.link] \in Nat /\ key[k.link] < KeyCount[k.link] /\ KeyCount[k.link] \in Nat \ {0}
            BY <1>0, <4>1, LimitAssumption
        <5> QED BY <5>1 DEF rotate
      <4>3. CooledUntil(RateRest) \in Nat
          BY <1>0, LimitAssumption DEF CooledUntil
      <4> QED BY <1>0, <3>1, <4>1, <4>2, <4>3 DEF Throttled
    <3>2. CASE Fails(c)
      <4>1. k.link \in Models /\ CooledUntil(ErrorRest) \in Nat
          BY <1>0, <2>4, <3>2, LimitAssumption DEF Fails, Under, CooledUntil
      <4> QED BY <1>0, <3>2, <4>1 DEF Fails
    <3>3. CASE UNCHANGED <<rest, key>>
        BY <1>0, <3>3
    <3> QED BY <1>2, <3>1, <3>2, <3>3 DEF StartCall, Step, Response, Resolve, RaiseExhausted, Send,
         Answers, FinishUsable, FinishEmpty
  <2>6. rows' \in Seq([model : Models, at : 0..MaxTime, tokens : Sizes])
    <3>1. CASE FinishUsable(c) \/ FinishEmpty(c)
      <4>1. [model |-> k.link, at |-> now, tokens |-> k.total]
              \in [model : Models, at : 0..MaxTime, tokens : Sizes]
        <5>1. k.pc \in {"usable", "empty"}
            BY <3>1 DEF FinishUsable, FinishEmpty
        <5>2. k.link \in Models /\ k.total \in Sizes
            BY <1>0, <2>4, <5>1 DEF Shaped, Under
        <5> QED BY <1>0, <5>2
      <4>2. rows' = rows \/ rows' = Append(rows, [model |-> k.link, at |-> now, tokens |-> k.total])
          BY <3>1 DEF FinishUsable, FinishEmpty, Record
      <4> DEFINE R == [model : Models, at : 0..MaxTime, tokens : Sizes]
                 x == [model |-> k.link, at |-> now, tokens |-> k.total]
      <4>3. rows \in Seq(R) /\ x \in R /\ (rows' = rows \/ rows' = Append(rows, x))
          BY <1>0, <4>1, <4>2
      <4> HIDE DEF R, x
      <4>4. rows' \in Seq(R)
          BY <4>3
      <4> QED BY <4>4 DEF R
    <3>2. CASE UNCHANGED rows
        BY <1>0, <3>2
    <3> QED BY <1>2, <3>1, <3>2 DEF StartCall, Step, Response, Resolve, RaiseExhausted, Send,
         Throttled, Fails, Answers
  <2> QED BY <1>0, <2>1, <2>3, <2>5, <2>6 DEF RouterShape
<1>3. CASE Tick
    BY <1>0, <1>1, <1>3 DEF Tick
<1>4. CASE UNCHANGED vars
    BY <1>0, <1>1, <1>4 DEF vars
<1> QED BY <1>2, <1>3, <1>4 DEF Next

LEMMA RouterShapeAlways == Spec => []RouterShape
<1> QED BY RouterShapeInit, RouterShapeStep, PTL DEF Spec

LEMMA ShapeIsType == RouterShape => TypeOK
<1> SUFFICES ASSUME RouterShape PROVE TypeOK
    OBVIOUS
<1>1. \A a \in Models : key[a] \in 0..(KeyCount[a] - 1)
    BY LimitAssumption DEF RouterShape
<1>2. call \in [Calls -> CallRecords]
  <2>1. \A c \in Calls : call[c] \in CallRecords
      BY DEF RouterShape, Shaped
  <2> QED BY <2>1 DEF RouterShape
<1> QED BY <1>1, <1>2 DEF RouterShape, TypeOK, CallRecords, Pcs, Under

-----------------------------------------------------------------------------
(* What a returned call says it was charged. *)

\* A returned call has the sum: of the answers it dropped and the one it gives.
Accounted(c) ==
  /\ call[c].pc \in {"idle", "choose", "send", "wait"} => call[c].paid = call[c].totals
  /\ call[c].pc \in {"usable", "empty"} => call[c].paid = Append(call[c].totals, call[c].total)
  /\ call[c].pc = "returned" => call[c].total + call[c].discarded = Sum(call[c].paid)

AccountInv == \A c \in Calls : Accounted(c)

\* A list is its front and its last.
LEMMA FrontAndLast ==
  ASSUME NEW s \in Seq(Nat), s # <<>>
  PROVE  Front(s) \in Seq(Nat) /\ Last(s) \in Nat /\ s = Append(Front(s), Last(s))
<1>1. Len(s) \in Nat \ {0}
    OBVIOUS
<1>2. /\ Front(s) \in Seq(Nat) /\ Len(Front(s)) = Len(s) - 1
      /\ \A i \in 1..(Len(s) - 1) : Front(s)[i] = s[i]
  <2>1. \A i \in 1..(Len(s) - 1) : s[i] \in Nat
      BY <1>1
  <2>2. 1 \in Int /\ Len(s) - 1 \in Int
      BY <1>1
  <2>3. /\ Front(s) \in Seq(Nat)
        /\ Len(Front(s)) = IF 1 <= Len(s) - 1 THEN Len(s) - 1 - 1 + 1 ELSE 0
        /\ \A i \in 1..(Len(s) - 1 - 1 + 1) : Front(s)[i] = s[1 + i - 1]
      BY <2>1, <2>2, SubSeqProperties DEF Front
  <2>4. Len(Front(s)) = Len(s) - 1
    <3>1. \A n \in Nat \ {0} : (IF 1 <= n - 1 THEN n - 1 - 1 + 1 ELSE 0) = n - 1
        OBVIOUS
    <3> QED BY <1>1, <2>3, <3>1, Zenon
  <2>5. ASSUME NEW i \in 1..(Len(s) - 1) PROVE Front(s)[i] = s[i]
    <3>1. 1 + i - 1 = i /\ i \in 1..(Len(s) - 1 - 1 + 1)
        BY <1>1
    <3> QED BY <2>3, <3>1
  <2> QED BY <2>3, <2>4, <2>5
<1>3. Last(s) \in Nat /\ Last(s) = s[Len(s)]
    BY <1>1 DEF Last
<1>4. Append(Front(s), Last(s)) \in Seq(Nat) /\ Len(Append(Front(s), Last(s))) = Len(s)
    BY <1>1, <1>2, <1>3
<1>5. \A i \in 1..Len(s) : Append(Front(s), Last(s))[i] = s[i]
    BY <1>1, <1>2, <1>3
<1> QED BY <1>2, <1>3, <1>4, <1>5

LEMMA SizesAreNat ==
  ASSUME NEW s \in Seq(Sizes)
  PROVE  s \in Seq(Nat)
<1>1. \A i \in 1..Len(s) : s[i] \in Sizes
    OBVIOUS
<1>2. Sizes \subseteq Nat
    BY LimitAssumption
<1>3. \A i \in 1..Len(s) : s[i] \in Nat
    BY <1>1, <1>2
<1> QED BY <1>3

LEMMA AccountStep == RouterShape /\ AccountInv /\ [Next]_vars => AccountInv'
<1> SUFFICES ASSUME RouterShape, AccountInv, [Next]_vars PROVE AccountInv'
    OBVIOUS
<1>0. DOMAIN call = Calls /\ \A c \in Calls : call[c] \in CallRecords
    BY DEF RouterShape, Shaped
<1>1. ASSUME NEW d \in Calls, call'[d] = call[d] PROVE Accounted(d)'
    BY <1>1 DEF AccountInv, Accounted
<1>2. ASSUME NEW c \in Calls, StartCall(c) \/ Step(c) PROVE AccountInv'
  <2> DEFINE k == call[c]
  <2>1. \A d \in Calls \ {c} : call'[d] = call[d]
      BY <1>0, <1>2, OthersStay
  <2>0. /\ Accounted(c) /\ k \in CallRecords /\ k.totals \in Seq(Sizes) /\ k.paid \in Seq(Sizes)
        /\ k.totals \in Seq(Nat)
      BY <1>0, SizesAreNat DEF AccountInv, CallRecords
  <2>2. Accounted(c)'
    <3>1. CASE StartCall(c) \/ Resolve(c) \/ Send(c) \/ Throttled(c) \/ Fails(c)
      <4>1. /\ k.pc \in {"idle", "choose", "send", "wait"}
            /\ call'[c].pc \in {"choose", "send", "wait"}
            /\ call'[c].paid = k.paid /\ call'[c].totals = k.totals
        <5>1. CASE Resolve(c)
          <6>1. PICK a \in Models : call' = [call EXCEPT ![c] = [call[c] EXCEPT !.pc = "send",
                             !.link = a, !.left = @ - 1, !.tried = Append(@, a),
                             !.when = Append(@, now)]]
              BY <5>1, ResolveMakes
          <6>2. k.pc = "choose"
              BY <5>1 DEF Resolve
          <6> QED BY <1>0, <2>0, <6>1, <6>2 DEF CallRecords
        <5> QED BY <1>0, <2>0, <3>1, <5>1 DEF StartCall, Send, Throttled, Fails, CallRecords
      <4> QED BY <2>0, <4>1 DEF Accounted
    <3>2. CASE RaiseExhausted(c)
      <4>1. k.pc = "choose" /\ k.paid = k.totals
          BY <2>0, <3>2 DEF RaiseExhausted, Accounted
      <4>2. call'[c] = [k EXCEPT !.pc = Ending(c),
                  !.total = IF k.totals = <<>> THEN 0 ELSE Last(k.totals),
                  !.discarded = IF k.totals = <<>> THEN 0 ELSE Discarded(k.totals)]
          BY <1>0, <3>2 DEF RaiseExhausted
      <4>3. CASE k.totals = <<>>
        <5>1. call'[c].pc = "raised"
            BY <2>0, <4>2, <4>3 DEF Ending, CallRecords
        <5> QED BY <5>1 DEF Accounted
      <4>4. CASE k.totals # <<>>
        <5>1. /\ call'[c].pc = "returned" /\ call'[c].paid = k.paid
              /\ call'[c].total = Last(k.totals) /\ call'[c].discarded = Sum(Front(k.totals))
            BY <2>0, <4>2, <4>4 DEF Ending, Discarded, CallRecords
        <5>2. /\ Front(k.totals) \in Seq(Nat) /\ Last(k.totals) \in Nat
              /\ k.totals = Append(Front(k.totals), Last(k.totals))
            BY <2>0, <4>4, FrontAndLast
        <5>3. /\ Sum(Front(k.totals)) \in Nat
              /\ Sum(k.totals) = Sum(Front(k.totals)) + Last(k.totals)
          <6> HIDE DEF k
          <6>1. Sum(Append(Front(k.totals), Last(k.totals))) = Sum(Front(k.totals)) + Last(k.totals)
              BY <5>2, SumOfAppend
          <6> QED BY <5>2, <6>1, SumIsNat
        <5>4. call'[c].total + call'[c].discarded = Sum(call'[c].paid)
            BY <4>1, <5>1, <5>2, <5>3
        <5> QED BY <5>1, <5>4 DEF Accounted
      <4> QED BY <4>3, <4>4
    <3>3. CASE Answers(c)
      <4>1. PICK amount \in Sizes, verdict \in {"usable", "empty"} :
              call'[c] = [k EXCEPT !.pc = verdict, !.total = amount, !.paid = Append(@, amount)]
          BY <1>0, <3>3 DEF Answers
      <4>2. k.paid = k.totals
          BY <2>0, <3>3 DEF Answers, Accounted
      <4>3. /\ call'[c].pc = verdict /\ call'[c].total = amount /\ call'[c].paid = Append(k.paid, amount)
            /\ call'[c].totals = k.totals
          BY <2>0, <4>1 DEF CallRecords
      <4> QED BY <4>2, <4>3 DEF Accounted
    <3>4. CASE FinishUsable(c)
      <4>1. k.pc = "usable" /\ call'[c] = [k EXCEPT !.pc = "returned", !.discarded = Sum(k.totals)]
          BY <1>0, <3>4 DEF FinishUsable
      <4>2. /\ call'[c].pc = "returned" /\ call'[c].discarded = Sum(k.totals)
            /\ call'[c].paid = k.paid /\ call'[c].total = k.total
          BY <2>0, <4>1 DEF CallRecords
      <4>3. k.paid = Append(k.totals, k.total) /\ k.total \in Nat
        <5>1. Shaped(c) /\ Sizes \subseteq Nat
            BY LimitAssumption DEF RouterShape
        <5> QED BY <2>0, <4>1, <5>1 DEF Accounted, Shaped
      <4>4. Sum(k.paid) = Sum(k.totals) + k.total /\ Sum(k.totals) \in Nat
        <5>1. Sum(Append(k.totals, k.total)) = Sum(k.totals) + k.total
          <6> HIDE DEF k
          <6> QED BY <2>0, <4>3, SumOfAppend
        <5> QED BY <2>0, <4>3, <5>1, SumIsNat
      <4>5. call'[c].total + call'[c].discarded = Sum(call'[c].paid)
          BY <4>2, <4>3, <4>4
      <4> QED BY <4>2, <4>5 DEF Accounted
    <3>5. CASE FinishEmpty(c)
      <4>1. k.pc = "empty" /\ call'[c] = [k EXCEPT !.pc = "choose",
                            !.empty = @ \cup {k.link}, !.totals = Append(@, k.total)]
          BY <1>0, <3>5 DEF FinishEmpty
      <4>2. /\ call'[c].pc = "choose" /\ call'[c].paid = k.paid
            /\ call'[c].totals = Append(k.totals, k.total)
          BY <2>0, <4>1 DEF CallRecords
      <4> QED BY <2>0, <4>1, <4>2 DEF Accounted
    <3> QED BY <1>2, <3>1, <3>2, <3>3, <3>4, <3>5 DEF Step, Response
  <2> QED BY <1>1, <2>1, <2>2 DEF AccountInv
<1>3. CASE Tick \/ UNCHANGED vars
  <2>1. \A d \in Calls : call'[d] = call[d]
      BY <1>3 DEF Tick, vars
  <2> QED BY <1>1, <2>1 DEF AccountInv
<1> QED BY <1>2, <1>3 DEF Next

\* A returned call reports exactly the tokens it was charged, for every chain, every
\* number of concurrent calls, any sizes and however often the answers were empty
\* (router.py: total_tokens and discarded_tokens).
THEOREM TokensAlwaysAccounted == Spec => []TokensAccounted
<1>1. Init => AccountInv
  <2>1. NewCall.pc = "idle" /\ NewCall.paid = NewCall.totals
      BY DEF NewCall
  <2> QED BY <2>1 DEF Init, AccountInv, Accounted
<1>2. AccountInv => TokensAccounted
    BY DEF AccountInv, Accounted, TokensAccounted
<1> QED BY <1>1, <1>2, AccountStep, RouterShapeAlways, PTL DEF Spec

-----------------------------------------------------------------------------
(* One call and its chain. *)

LEMMA CoolIsLeast ==
  Cool \in Nat /\ Cool <= ErrorRest /\ Cool <= RateRest /\ ErrorRest \in Nat /\ RateRest \in Nat
  /\ ErrorRest > 0 /\ RateRest > 0
BY LimitAssumption DEF Cool

\* An attempt is over: its model answered nothing, or rests for a cool-down at least from
\* the time it was asked.
Over(c, i) ==
  \/ call[c].tried[i] \in call[c].empty
  \/ rest[call[c].tried[i]] >= call[c].when[i] + Cool

\* The attempts a call is done with: all of them, but for the one in hand.
Behind(c) == {i \in DOMAIN call[c].tried : call[c].pc \in Under => i # Len(call[c].tried)}

Active == {"idle", "choose"} \cup Under

AgainLate(c) ==
  \A i, j \in DOMAIN call[c].tried :
    i < j /\ call[c].tried[i] = call[c].tried[j] => call[c].when[j] >= call[c].when[i] + Cool

Walks(c) ==
  /\ Len(call[c].when) = Len(call[c].tried) /\ call[c].began <= now
  /\ \A i \in DOMAIN call[c].tried : call[c].when[i] <= now
  /\ AgainLate(c)
  /\ call[c].pc \in Active => \A i \in Behind(c) : Over(c, i)

WalkInv == \A c \in Calls : Walks(c)

\* What a call reads of the shape: its two histories, and what they hold.
LEMMA CallShape ==
  ASSUME RouterShape, NEW c \in Calls
  PROVE  /\ call[c].tried \in Seq(Models) /\ call[c].when \in Seq(0..MaxTime)
         /\ Len(call[c].tried) \in Nat /\ DOMAIN call[c].tried = 1..Len(call[c].tried)
         /\ \A i \in DOMAIN call[c].tried : call[c].tried[i] \in Models
         /\ Len(call[c].when) = Len(call[c].tried) =>
              \A i \in DOMAIN call[c].tried : call[c].when[i] \in Nat
         /\ now \in Nat /\ rest \in [Models -> Nat] /\ call[c].began \in Nat
<1>1. /\ call[c].tried \in Seq(Models) /\ call[c].when \in Seq(0..MaxTime)
      /\ now \in 0..MaxTime /\ rest \in [Models -> Nat] /\ call[c].began \in 0..MaxTime
      /\ MaxTime \in Nat
    BY LimitAssumption DEF RouterShape, Shaped, CallRecords
<1>2. \A i \in DOMAIN call[c].tried : call[c].tried[i] \in Models
    BY <1>1
<1>3. ASSUME Len(call[c].when) = Len(call[c].tried), NEW i \in DOMAIN call[c].tried
      PROVE  call[c].when[i] \in Nat
  <2>1. i \in 1..Len(call[c].when)
      BY <1>1, <1>3
  <2>2. call[c].when[i] \in 0..MaxTime
      BY <1>1, <2>1
  <2> QED BY <1>1, <2>2
<1> QED BY <1>1, <1>2, <1>3

\* A cool-down is only ever replaced by one that starts now.
RestsStay ==
  \A a \in Models, t \in Nat : t <= now + Cool /\ rest[a] >= t => rest'[a] >= t

LEMMA RestsStayInStep ==
  ASSUME RouterShape, [Next]_vars
  PROVE  RestsStay
<1>1. now \in Nat /\ rest \in [Models -> Nat]
    BY LimitAssumption DEF RouterShape
<1>2. CASE UNCHANGED rest
    BY <1>2 DEF RestsStay
<1>3. ASSUME NEW c \in Calls, Throttled(c) \/ Fails(c) PROVE RestsStay
  <2>1. \/ UNCHANGED rest
        \/ rest' = [rest EXCEPT ![call[c].link] = now + RateRest]
        \/ rest' = [rest EXCEPT ![call[c].link] = now + ErrorRest]
      BY <1>3 DEF Throttled, Fails, CooledUntil
  <2> QED BY <1>1, <2>1, CoolIsLeast DEF RestsStay
<1> QED BY <1>2, <1>3 DEF Next, Tick, StartCall, Step, Response, Resolve, RaiseExhausted, Send,
         Answers, FinishUsable, FinishEmpty, vars

\* A step that asks no model keeps a call's walk, if what it gives up is over.
LEMMA WalkKept ==
  ASSUME RouterShape, RestsStay, now' \in Nat, now' >= now, NEW c \in Calls, Walks(c),
         call'[c].tried = call[c].tried, call'[c].when = call[c].when,
         call'[c].began = call[c].began \/ call'[c].began = now,
         call[c].empty \subseteq call'[c].empty,
         call'[c].pc \in Active => call[c].pc \in Active,
         call'[c].pc \in Active => \A i \in Behind(c)' : i \in Behind(c) \/ Over(c, i)'
  PROVE  Walks(c)'
<1> DEFINE t == call[c].tried
           w == call[c].when
<1>1. /\ t \in Seq(Models) /\ Len(w) = Len(t) /\ now \in Nat /\ rest \in [Models -> Nat]
      /\ \A i \in DOMAIN t : t[i] \in Models /\ w[i] \in Nat /\ w[i] <= now
      /\ call[c].began \in Nat /\ call[c].began <= now /\ Cool \in Nat
    BY CallShape, CoolIsLeast DEF Walks
<1>2. \A i \in DOMAIN t : Over(c, i) => Over(c, i)'
  <2> SUFFICES ASSUME NEW i \in DOMAIN t, Over(c, i) PROVE Over(c, i)'
      OBVIOUS
  <2>1. CASE t[i] \in call[c].empty
      BY <2>1 DEF Over
  <2>2. CASE rest[t[i]] >= w[i] + Cool
    <3>1. w[i] + Cool \in Nat /\ w[i] + Cool <= now + Cool /\ t[i] \in Models
        BY <1>1
    <3>2. rest'[t[i]] >= w[i] + Cool
        BY <2>2, <3>1 DEF RestsStay
    <3> QED BY <3>2 DEF Over
  <2> QED BY <2>1, <2>2 DEF Over
<1>3. Behind(c) \subseteq DOMAIN t
    BY DEF Behind
<1>4. call'[c].pc \in Active => \A i \in Behind(c)' : Over(c, i)'
    BY <1>2, <1>3 DEF Walks
<1>5. AgainLate(c)'
    BY DEF Walks, AgainLate
<1>6. \A i \in DOMAIN t : w[i] <= now'
    BY <1>1
<1>7. call'[c].began <= now'
    BY <1>1
<1> QED BY <1>1, <1>4, <1>5, <1>6, <1>7 DEF Walks

\* A model that resolve takes has rested since the call last asked it.
LEMMA RestedFirst ==
  ASSUME RouterShape, NEW c \in Calls, Walks(c), call[c].pc = "choose", call[c].left > 0,
         NEW down, NEW p \in Open(c, down), NEW i \in DOMAIN call[c].tried,
         call[c].tried[i] = Chain(c)[p]
  PROVE  now >= call[c].when[i] + Cool
<1>1. /\ call[c].tried \in Seq(Models) /\ call[c].left \in Nat
      /\ call[c].left + Len(call[c].tried) = max_attempts(c)
      /\ now \in Nat /\ rest \in [Models -> Nat] /\ Len(call[c].tried) \in Nat
    BY CallShape DEF RouterShape, Shaped, CallRecords
<1>2. CASE Pin[c] # NoChoice
  <2>1. Len(call[c].tried) = 0
      BY <1>1, <1>2, ChainOfCall
  <2>2. DOMAIN call[c].tried = {}
      BY <1>1, <2>1
  <2> QED BY <2>2
<1>3. CASE Pin[c] = NoChoice
  <2>1. /\ Chain(c)[p] \notin call[c].empty /\ now >= rest[Chain(c)[p]]
        /\ Chain(c)[p] \in Models
    <3>1. p \in 1..Len(Chain(c)) /\ Chain(c) \in Seq(Models)
        BY ChainOfCall DEF Open
    <3> QED BY <1>3, <3>1 DEF Open, Skipped, can_afford
  <2>2. i \in Behind(c)
      BY DEF Behind, Under
  <2>3. Over(c, i)
      BY <2>2 DEF Walks, Active
  <2>4. rest[call[c].tried[i]] >= call[c].when[i] + Cool
      BY <2>1, <2>3 DEF Over
  <2>5. call[c].when[i] \in Nat /\ Cool \in Nat
      BY CallShape, CoolIsLeast DEF Walks
  <2> QED BY <1>1, <2>1, <2>4, <2>5
<1> QED BY <1>2, <1>3

LEMMA ResolveWalks ==
  ASSUME RouterShape, NEW c \in Calls, Walks(c), Resolve(c)
  PROVE  Walks(c)'
<1>0. PICK down \in LedgerDown : \E p \in Open(c, down) : /\ Chain(c)[p] \in Models
        /\ call' = [call EXCEPT ![c] = [call[c] EXCEPT !.pc = "send", !.link = Chain(c)[p],
                       !.left = @ - 1, !.tried = Append(@, Chain(c)[p]), !.when = Append(@, now)]]
    BY ResolveMakes
<1>1. PICK p \in Open(c, down) : /\ Chain(c)[p] \in Models
        /\ call' = [call EXCEPT ![c] = [call[c] EXCEPT !.pc = "send", !.link = Chain(c)[p],
                       !.left = @ - 1, !.tried = Append(@, Chain(c)[p]), !.when = Append(@, now)]]
    BY <1>0
<1> DEFINE t == call[c].tried
           w == call[c].when
           n == Len(t)
           a == Chain(c)[p]
           u == Append(t, a)
           v == Append(w, now)
<1>2. /\ t \in Seq(Models) /\ w \in Seq(0..MaxTime) /\ Len(w) = n /\ n \in Nat /\ DOMAIN t = 1..n
      /\ now \in Nat /\ now \in 0..MaxTime /\ rest \in [Models -> Nat] /\ Cool \in Nat
      /\ \A i \in 1..n : t[i] \in Models /\ w[i] \in Nat /\ w[i] <= now
      /\ call[c].began <= now /\ DOMAIN call = Calls /\ call[c] \in CallRecords
    BY CallShape, CoolIsLeast DEF Walks, RouterShape, Shaped
<1>3. /\ call[c].pc = "choose" /\ call[c].left > 0 /\ now' = now /\ rest' = rest
    BY DEF Resolve
<1>4. /\ call'[c].tried = u /\ call'[c].when = v /\ call'[c].pc = "send"
      /\ call'[c].empty = call[c].empty /\ call'[c].began = call[c].began
    BY <1>1, <1>2 DEF CallRecords
<1>5. \A i \in 1..n : t[i] = a => now >= w[i] + Cool
    BY <1>1, <1>2, <1>3, RestedFirst
<1>6. \A i \in 1..n : Over(c, i)
  <2>1. Behind(c) = 1..n
      BY <1>2, <1>3 DEF Behind, Under
  <2> QED BY <1>3, <2>1 DEF Walks, Active
<1>7. /\ Len(u) = n + 1 /\ Len(v) = n + 1 /\ DOMAIN u = 1..(n + 1) /\ u[n + 1] = a /\ v[n + 1] = now
      /\ \A i \in 1..n : u[i] = t[i] /\ v[i] = w[i]
    BY <1>1, <1>2
<1> HIDE DEF t, w, u, v, a, n
<1>8. \A i \in 1..(n + 1) : i \in 1..n \/ i = n + 1
    BY <1>2
<1>9. AgainLate(c)'
  <2> SUFFICES ASSUME NEW i \in 1..(n + 1), NEW j \in 1..(n + 1), i < j, u[i] = u[j]
               PROVE  v[j] >= v[i] + Cool
      BY <1>4, <1>7 DEF AgainLate
  <2>1. i \in 1..n
      BY <1>2
  <2>2. CASE j \in 1..n
      BY <1>2, <1>7, <2>1, <2>2 DEF Walks, AgainLate, t, w
  <2>3. CASE j = n + 1
      BY <1>5, <1>7, <2>1, <2>3
  <2> QED BY <1>8, <2>2, <2>3
<1>10. \A i \in Behind(c)' : Over(c, i)'
  <2> SUFFICES ASSUME NEW i \in Behind(c)' PROVE Over(c, i)'
      OBVIOUS
  <2>1. i \in 1..n
      BY <1>4, <1>7, <1>8 DEF Behind, Under
  <2>2. Over(c, i)
      BY <1>6, <2>1
  <2> QED BY <1>3, <1>4, <1>7, <2>1, <2>2 DEF Over, t, w
<1>11. \A i \in 1..(n + 1) : v[i] <= now
    BY <1>2, <1>7, <1>8
<1> QED BY <1>2, <1>3, <1>4, <1>7, <1>9, <1>10, <1>11 DEF Walks

LEMMA OwnWalk ==
  ASSUME RouterShape, [Next]_vars, NEW c \in Calls, StartCall(c) \/ Step(c), Walks(c)
  PROVE  Walks(c)'
<1> DEFINE k == call[c]
           n == Len(k.tried)
<1>0. /\ DOMAIN call = Calls /\ k \in CallRecords /\ Shaped(c) /\ now' = now /\ now \in Nat
      /\ rest \in [Models -> Nat] /\ RestsStay
      /\ n \in Nat /\ DOMAIN k.tried = 1..n /\ k.tried \in Seq(Models)
    BY CallShape, OthersStay, RestsStayInStep DEF RouterShape, Shaped
<1>1. CASE StartCall(c) \/ Send(c) \/ Answers(c) \/ (Throttled(c) /\ call'[c].pc = "send")
  <2>1. /\ call'[c].tried = k.tried /\ call'[c].when = k.when /\ call'[c].empty = k.empty
        /\ call'[c].began = k.began \/ call'[c].began = now
        /\ k.pc \in Active /\ (call'[c].pc \in Under <=> k.pc \in Under)
    <3>1. CASE StartCall(c)
        BY <1>0, <3>1 DEF StartCall, CallRecords, Under, Active
    <3>2. CASE Send(c)
        BY <1>0, <3>2 DEF Send, CallRecords, Under, Active
    <3>3. CASE Answers(c)
        BY <1>0, <3>3 DEF Answers, CallRecords, Under, Active
    <3>4. CASE Throttled(c) /\ call'[c].pc = "send"
      <4>1. k.pc = "wait" /\ \E p : call' = [call EXCEPT ![c].pc = p]
          BY <3>4 DEF Throttled
      <4> QED BY <1>0, <3>4, <4>1 DEF CallRecords, Under, Active
    <3> QED BY <1>1, <3>1, <3>2, <3>3, <3>4
  <2>2. Behind(c)' = Behind(c)
      BY <2>1 DEF Behind
  <2> QED BY <1>0, <2>1, <2>2, WalkKept
<1>2. CASE Resolve(c)
    BY <1>2, ResolveWalks
<1>3. CASE RaiseExhausted(c) \/ FinishUsable(c)
  <2>1. /\ call'[c].tried = k.tried /\ call'[c].when = k.when /\ call'[c].empty = k.empty
        /\ call'[c].began = k.began /\ call'[c].pc \in {"raised", "returned"}
      BY <1>0, <1>3 DEF RaiseExhausted, FinishUsable, Ending, CallRecords
  <2>2. call'[c].pc \notin Active
      BY <2>1 DEF Active, Under
  <2> QED BY <1>0, <2>1, <2>2, WalkKept
<1>4. CASE Fails(c) \/ FinishEmpty(c) \/ (Throttled(c) /\ call'[c].pc # "send")
  <2>1. /\ k.pc \in Under /\ call'[c].tried = k.tried /\ call'[c].when = k.when
        /\ k.empty \subseteq call'[c].empty /\ call'[c].began = k.began
    <3>1. CASE Fails(c)
        BY <1>0, <3>1 DEF Fails, CallRecords, Under
    <3>2. CASE FinishEmpty(c)
        BY <1>0, <3>2 DEF FinishEmpty, CallRecords, Under
    <3>3. CASE Throttled(c) /\ call'[c].pc # "send"
      <4>1. k.pc = "wait" /\ \E p \in {"send", "choose"} : call' = [call EXCEPT ![c].pc = p]
          BY <3>3 DEF Throttled
      <4> QED BY <1>0, <3>3, <4>1 DEF CallRecords, Under
    <3> QED BY <1>4, <3>1, <3>2, <3>3
  <2>2. k.tried # <<>> /\ k.link = k.tried[n] /\ n \in 1..n /\ k.link \in Models
    <3>1. k.tried # <<>> /\ k.link = k.tried[n]
        BY <1>0, <2>1 DEF Shaped
    <3>2. n \in 1..n
        BY <1>0, <3>1
    <3> QED BY <1>0, <3>1, <3>2
  <2>3. PICK l : l = k.link
      OBVIOUS
  <2>4. Len(k.when) = n /\ k.when[n] \in Nat /\ k.when[n] <= now
      BY <1>0, <2>2, CallShape DEF Walks
  <2>5. Over(c, n)'
    <3>1. CASE Fails(c)
      <4>1. rest'[l] = now + ErrorRest
          BY <1>0, <2>2, <2>3, <3>1 DEF Fails, CooledUntil
      <4>2. rest'[l] >= k.when[n] + Cool
          BY <1>0, <2>4, <4>1, CoolIsLeast
      <4> QED BY <2>1, <2>2, <2>3, <4>2 DEF Over
    <3>2. CASE FinishEmpty(c)
      <4>1. l \in call'[c].empty
          BY <1>0, <2>3, <3>2 DEF FinishEmpty, CallRecords
      <4> QED BY <2>1, <2>2, <2>3, <4>1 DEF Over
    <3>3. CASE Throttled(c) /\ call'[c].pc # "send"
      <4>1. ~rotate(k.link).more
          BY <1>0, <3>3 DEF Throttled, CallRecords
      <4>2. rest'[l] = now + RateRest
          BY <1>0, <2>2, <2>3, <3>3, <4>1 DEF Throttled, CooledUntil
      <4>3. rest'[l] >= k.when[n] + Cool
          BY <1>0, <2>4, <4>2, CoolIsLeast
      <4> QED BY <2>1, <2>2, <2>3, <4>3 DEF Over
    <3> QED BY <1>4, <3>1, <3>2, <3>3
  <2>6. \A i \in Behind(c)' : i \in Behind(c) \/ i = n
      BY <2>1 DEF Behind
  <2>7. k.pc \in Active
      BY <2>1 DEF Active
  <2> QED BY <1>0, <2>1, <2>5, <2>6, <2>7, WalkKept
<1> QED BY <1>1, <1>2, <1>3, <1>4 DEF Step, Response

LEMMA WalkStep == RouterShape /\ WalkInv /\ [Next]_vars => WalkInv'
<1> SUFFICES ASSUME RouterShape, WalkInv, [Next]_vars PROVE WalkInv'
    OBVIOUS
<1>0. DOMAIN call = Calls /\ now \in Nat /\ MaxTime \in Nat /\ RestsStay
    BY RestsStayInStep, LimitAssumption DEF RouterShape
<1>1. ASSUME NEW d \in Calls, call'[d] = call[d], now' \in Nat, now' >= now PROVE Walks(d)'
  <2>1. Behind(d)' = Behind(d) /\ Walks(d)
      BY <1>1 DEF Behind, WalkInv
  <2> QED BY <1>0, <1>1, <2>1, WalkKept
<1>2. ASSUME NEW c \in Calls, StartCall(c) \/ Step(c) PROVE WalkInv'
  <2>1. now' = now /\ \A d \in Calls \ {c} : call'[d] = call[d]
      BY <1>0, <1>2, OthersStay
  <2>2. Walks(c)'
      BY <1>2, OwnWalk DEF WalkInv
  <2> QED BY <1>0, <1>1, <2>1, <2>2 DEF WalkInv
<1>3. CASE Tick \/ UNCHANGED vars
  <2>1. now' \in Nat /\ now' >= now /\ \A d \in Calls : call'[d] = call[d]
      BY <1>0, <1>3 DEF Tick, vars
  <2> QED BY <1>1, <2>1 DEF WalkInv
<1> QED BY <1>2, <1>3 DEF Next

LEMMA WalkInit == Init => WalkInv
<1> SUFFICES ASSUME Init, NEW c \in Calls PROVE Walks(c)
    BY DEF WalkInv
<1>1. /\ call[c].tried = <<>> /\ call[c].when = <<>> /\ DOMAIN <<>> = {} /\ Len(<<>>) = 0
      /\ call[c].began = 0 /\ now = 0
    BY DEF Init, NewCall
<1>2. Behind(c) = {}
    BY <1>1 DEF Behind
<1> QED BY <1>1, <1>2 DEF Walks, AgainLate

-----------------------------------------------------------------------------
(* What the ledger holds only grows. *)

Rows == [model : Models, at : 0..MaxTime, tokens : Sizes]

LEMMA PlacesCounted ==
  ASSUME NEW T, NEW s \in Seq(T), NEW S \in SUBSET DOMAIN s
  PROVE  IsFiniteSet(S) /\ Cardinality(S) \in Nat
<1>1. DOMAIN s = 1..Len(s) /\ Len(s) \in Nat
    OBVIOUS
<1>2. IsFiniteSet(DOMAIN s)
    BY <1>1, FS_Interval
<1> QED BY <1>2, FS_Subset, FS_CardinalityType

\* The tokens of some places of a ledger, and nothing for the others.
Masked(s, places) == [i \in DOMAIN s |-> IF i \in places THEN s[i].tokens ELSE 0]

LEMMA MaskedIsSeq ==
  ASSUME NEW s \in Seq(Rows), NEW P
  PROVE  /\ Masked(s, P) \in Seq(Nat) /\ Len(Masked(s, P)) = Len(s) /\ Len(s) \in Nat
         /\ \A i \in 1..Len(s) : /\ Masked(s, P)[i] = IF i \in P THEN s[i].tokens ELSE 0
                                 /\ Masked(s, P)[i] \in Nat /\ s[i].tokens \in Nat
<1>1. DOMAIN s = 1..Len(s) /\ Len(s) \in Nat
    OBVIOUS
<1>2. \A i \in 1..Len(s) : s[i].tokens \in Nat
  <2>1. \A i \in 1..Len(s) : s[i] \in Rows
      BY <1>1
  <2> QED BY <2>1, LimitAssumption DEF Rows
<1>3. Masked(s, P) \in [1..Len(s) -> Nat]
    BY <1>1, <1>2 DEF Masked
<1>4. Masked(s, P) \in Seq(Nat) /\ Len(Masked(s, P)) = Len(s)
    BY <1>1, <1>3
<1>5. \A i \in 1..Len(s) : Masked(s, P)[i] = IF i \in P THEN s[i].tokens ELSE 0
    BY <1>1 DEF Masked
<1>6. \A i \in 1..Len(s) : Masked(s, P)[i] \in Nat
    BY <1>3
<1> QED BY <1>1, <1>2, <1>4, <1>5, <1>6

\* More places, more tokens.
LEMMA TokensGrow ==
  ASSUME NEW s \in Seq(Rows), NEW P, NEW Q, P \subseteq Q
  PROVE  /\ Sum(Masked(s, P)) \in Nat /\ Sum(Masked(s, Q)) \in Nat
         /\ Sum(Masked(s, P)) <= Sum(Masked(s, Q))
<1>1. /\ Masked(s, P) \in Seq(Nat) /\ Masked(s, Q) \in Seq(Nat)
      /\ Len(Masked(s, P)) = Len(s) /\ Len(Masked(s, Q)) = Len(s)
    BY MaskedIsSeq
<1>2. \A i \in 1..Len(s) : Masked(s, P)[i] <= Masked(s, Q)[i]
  <2> SUFFICES ASSUME NEW i \in 1..Len(s) PROVE Masked(s, P)[i] <= Masked(s, Q)[i]
      OBVIOUS
  <2>1. /\ Masked(s, P)[i] = IF i \in P THEN s[i].tokens ELSE 0
        /\ Masked(s, Q)[i] = IF i \in Q THEN s[i].tokens ELSE 0
        /\ s[i].tokens \in Nat
      BY MaskedIsSeq
  <2> QED BY <2>1
<1> QED BY <1>1, <1>2, SumIsNat, SumOrdered

\* A row more, and its tokens or none.
LEMMA TokensOfAppend ==
  ASSUME NEW s \in Seq(Rows), NEW x \in Rows, NEW P, NEW Q,
         \A i \in 1..Len(s) : i \in P <=> i \in Q
  PROVE  Sum(Masked(s, P)) <= Sum(Masked(Append(s, x), Q))
<1> DEFINE t == Append(s, x)
           n == Len(s)
           y == IF n + 1 \in Q THEN x.tokens ELSE 0
<1>1. /\ t \in Seq(Rows) /\ n \in Nat /\ Len(t) = n + 1 /\ t[n + 1] = x
      /\ \A i \in 1..n : t[i] = s[i]
    OBVIOUS
<1>2. y \in Nat
    BY LimitAssumption DEF Rows
<1> HIDE DEF t, n, y
<1>3. /\ Masked(s, P) \in Seq(Nat) /\ Len(Masked(s, P)) = n
      /\ Masked(t, Q) \in Seq(Nat) /\ Len(Masked(t, Q)) = n + 1
    BY <1>1, MaskedIsSeq DEF n
<1>4. \A i \in 1..n : Masked(t, Q)[i] = Masked(s, P)[i]
  <2> SUFFICES ASSUME NEW i \in 1..n PROVE Masked(t, Q)[i] = Masked(s, P)[i]
      OBVIOUS
  <2>1. i \in 1..(n + 1) /\ t[i] = s[i] /\ (i \in P <=> i \in Q)
      BY <1>1 DEF n
  <2>2. /\ Masked(s, P)[i] = IF i \in P THEN s[i].tokens ELSE 0
        /\ Masked(t, Q)[i] = IF i \in Q THEN t[i].tokens ELSE 0
      BY <1>1, <2>1, MaskedIsSeq DEF n
  <2> QED BY <2>1, <2>2
<1>5. Masked(t, Q)[n + 1] = y
  <2>1. n + 1 \in 1..(n + 1)
      BY <1>1
  <2>2. Masked(t, Q)[n + 1] = IF n + 1 \in Q THEN t[n + 1].tokens ELSE 0
      BY <1>1, <2>1, MaskedIsSeq
  <2> QED BY <1>1, <2>2 DEF y
<1> DEFINE m == Masked(s, P)
           w == Masked(t, Q)
<1> HIDE DEF m, w
<1>6. w = Append(m, y)
  <2>1. w \in Seq(Nat) /\ Len(w) = n + 1 /\ m \in Seq(Nat) /\ Len(m) = n
        /\ (\A i \in 1..n : w[i] = m[i]) /\ w[n + 1] = y
      BY <1>3, <1>4, <1>5 DEF m, w
  <2> QED BY <1>1, <1>2, <2>1
<1>7. m \in Seq(Nat)
    BY <1>3 DEF m
<1>8. Sum(w) = Sum(m) + y /\ Sum(m) \in Nat
    BY <1>2, <1>6, <1>7, SumOfAppend, SumIsNat
<1>9. Sum(m) <= Sum(w)
    BY <1>2, <1>8
<1> QED BY <1>9 DEF m, w, t

\* A model that resolve may not choose has its excuse.
LEMMA UnaffordableIsExcused ==
  ASSUME RouterShape, NEW c \in Calls, Walks(c), NEW a \in Models, NEW down, ~can_afford(a, down)
  PROVE  Excused(c, a)
<1>0. call[c].began <= now /\ call[c].began \in Nat
    BY CallShape DEF Walks
<1>1. /\ now \in Nat /\ rest[a] \in Nat /\ Rpd[a] \in Nat /\ Rpm[a] \in Nat /\ Tpm[a] \in Nat
      /\ Need[a] \in Nat /\ rows \in Seq(Rows)
    BY LimitAssumption DEF RouterShape, Rows
<1> DEFINE last == LedgerRows(a, Since(Minute))
           all == LedgerRows(a, 0)
<1>2. last \subseteq all
  <2>1. \A i \in DOMAIN rows : rows[i].at \in Nat
    <3>1. \A i \in DOMAIN rows : rows[i] \in Rows
        BY <1>1
    <3> QED BY <3>1, LimitAssumption DEF Rows
  <2> QED BY <2>1 DEF LedgerRows
<1>3. all \in SUBSET DOMAIN rows /\ last \in SUBSET DOMAIN rows
    BY DEF LedgerRows
<1>4. /\ Cardinality(last) \in Nat /\ Cardinality(all) \in Nat
      /\ Cardinality(last) <= Cardinality(all)
  <2> HIDE DEF last, all
  <2>1. IsFiniteSet(all) /\ Cardinality(all) \in Nat /\ Cardinality(last) \in Nat
      BY <1>1, <1>3, PlacesCounted
  <2> QED BY <1>2, <2>1, FS_Subset
<1>5. Tokens(last) \in Nat /\ Tokens(all) \in Nat /\ Tokens(last) <= Tokens(all)
  <2> HIDE DEF last, all
  <2> QED BY <1>1, <1>2, TokensGrow DEF Tokens, Masked
<1>6. \/ now < rest[a]
      \/ Cardinality(all) >= Rpd[a]
      \/ Cardinality(last) >= Rpm[a]
      \/ Tokens(last) + Need[a] > Tpm[a]
    BY <1>1, <1>4, <1>5 DEF can_afford
<1> HIDE DEF last
<1> QED BY <1>0, <1>1, <1>4, <1>5, <1>6 DEF Excused

\* The rows of a step: as they were, or one more.
LEMMA OneRowMore ==
  ASSUME RouterShape, [Next]_vars
  PROVE  rows' = rows \/ \E x \in Rows : rows' = Append(rows, x)
<1>1. ASSUME NEW c \in Calls, FinishUsable(c) \/ FinishEmpty(c)
      PROVE  rows' = rows \/ \E x \in Rows : rows' = Append(rows, x)
  <2>1. rows' = rows \/ rows' = Append(rows,
             [model |-> call[c].link, at |-> now, tokens |-> call[c].total])
      BY <1>1 DEF FinishUsable, FinishEmpty, Record
  <2>2. /\ Shaped(c) /\ call[c].pc \in {"usable", "empty"} /\ call[c].tried \in Seq(Models)
        /\ now \in 0..MaxTime
      BY <1>1 DEF FinishUsable, FinishEmpty, RouterShape, Shaped, CallRecords
  <2>3. /\ call[c].total \in Sizes /\ call[c].tried # <<>>
        /\ call[c].link = call[c].tried[Len(call[c].tried)]
      BY <2>2 DEF Shaped, Under
  <2>4. call[c].link \in Models
      BY <2>2, <2>3
  <2>5. [model |-> call[c].link, at |-> now, tokens |-> call[c].total] \in Rows
      BY <2>2, <2>3, <2>4 DEF Rows
  <2> QED BY <2>1, <2>5
<1>2. CASE UNCHANGED rows
    BY <1>2
<1> QED BY <1>1, <1>2 DEF Next, Tick, StartCall, Step, Response, Resolve, RaiseExhausted, Send,
       Throttled, Fails, Answers, vars

LEMMA ExcuseStays ==
  ASSUME RouterShape, [Next]_vars, NEW c \in Calls, Walks(c), call'[c].began = call[c].began,
         NEW a \in Models, Excused(c, a)
  PROVE  Excused(c, a)'
<1>0. /\ rows \in Seq(Rows) /\ Len(rows) \in Nat /\ now \in Nat /\ rest \in [Models -> Nat]
      /\ ErrorRest \in Nat /\ RateRest \in Nat /\ MaxTime \in Nat
      /\ Rpd[a] \in Nat /\ Rpm[a] \in Nat /\ Tpm[a] \in Nat /\ Need[a] \in Nat
    BY LimitAssumption DEF RouterShape, Rows
<1>1. rows' = rows \/ \E x \in Rows : rows' = Append(rows, x)
    BY OneRowMore
<1>2. rest[a] > call[c].began => rest'[a] > call'[c].began
  <2>1. /\ call[c].began + 1 \in Nat /\ call[c].began \in Nat /\ RestsStay
        /\ call[c].began + 1 <= now + Cool
    <3>1. Cool \in Nat /\ Cool >= 1
        BY CoolIsLeast DEF Cool
    <3> QED BY <1>0, <3>1, CallShape, RestsStayInStep DEF Walks
  <2>2. rest[a] \in Nat
      BY <1>0
  <2>3. rest[a] >= call[c].began + 1 => rest'[a] >= call[c].began + 1
      BY <2>1 DEF RestsStay
  <2>4. rest[a] > call[c].began => rest'[a] >= call[c].began + 1
      BY <2>1, <2>2, <2>3
  <2>5. rest'[a] \in Nat
      BY RouterShapeStep DEF RouterShape
  <2> QED BY <2>1, <2>4, <2>5
<1>3. CASE rows' = rows
    BY <1>2, <1>3 DEF Excused, LedgerRows, Tokens
<1>4. ASSUME NEW x \in Rows, rows' = Append(rows, x) PROVE Excused(c, a)'
  <2> DEFINE P == LedgerRows(a, 0)
             Q == P'
  <2>1. /\ rows' \in Seq(Rows) /\ Len(rows') = Len(rows) + 1
        /\ \A i \in 1..Len(rows) : rows'[i] = rows[i]
        /\ DOMAIN rows = 1..Len(rows) /\ DOMAIN rows' = 1..(Len(rows) + 1)
      BY <1>0, <1>4
  <2>2. P \in SUBSET DOMAIN rows /\ Q \in SUBSET DOMAIN rows'
      BY DEF LedgerRows
  <2>3. \A i \in 1..Len(rows) : i \in P <=> i \in Q
      BY <1>0, <2>1 DEF LedgerRows
  <2>4. Tokens(P) = Sum(Masked(rows, P)) /\ Tokens(P)' = Sum(Masked(rows', Q))
      BY DEF Tokens, Masked
  <2>5. /\ Sum(Masked(rows, P)) \in Nat /\ Sum(Masked(rows', Q)) \in Nat
    <3> HIDE DEF P, Q
    <3> QED BY <1>0, <2>1, MaskedIsSeq, SumIsNat
  <2>6. Sum(Masked(rows, P)) <= Sum(Masked(rows', Q))
    <3> HIDE DEF P, Q
    <3> QED BY <1>0, <1>4, <2>3, TokensOfAppend
  <2>7. /\ Cardinality(P) \in Nat /\ Cardinality(Q) \in Nat /\ Cardinality(P) <= Cardinality(Q)
    <3> HIDE DEF P, Q
    <3>1. IsFiniteSet(Q) /\ Cardinality(Q) \in Nat /\ Cardinality(P) \in Nat
        BY <1>0, <2>1, <2>2, PlacesCounted
    <3>2. P \in SUBSET Q
        BY <2>1, <2>2, <2>3
    <3> QED BY <3>1, <3>2, FS_Subset
  <2>8. /\ Cardinality(LedgerRows(a, 0)) \in Nat /\ Cardinality(LedgerRows(a, 0)') \in Nat
        /\ Cardinality(LedgerRows(a, 0)) <= Cardinality(LedgerRows(a, 0)')
      BY <2>7
  <2>9. /\ Tokens(LedgerRows(a, 0)) \in Nat /\ Tokens(LedgerRows(a, 0))' \in Nat
        /\ Tokens(LedgerRows(a, 0)) <= Tokens(LedgerRows(a, 0))'
      BY <2>4, <2>5, <2>6
  <2> HIDE DEF P, Q
  <2> QED BY <1>0, <1>2, <2>8, <2>9 DEF Excused
<1> QED BY <1>1, <1>3, <1>4

-----------------------------------------------------------------------------
(* A call that raises has been through its chain. *)

\* The models of its chain a call has not asked.
Unasked(c) == Range(Chain(c)) \ Range(call[c].tried)

Exhausted(c) ==
  \/ \A a \in Unasked(c) : Excused(c, a)
  \/ Cardinality(Unasked(c)) = Len(call[c].tried) - Cardinality(Range(call[c].tried))

ExcusalInv == \A c \in Calls : call[c].pc = "raised" => Exhausted(c)

\* The models a call tried are models of its chain, finitely many.
LEMMA TriedIsFinite ==
  ASSUME RouterShape, NEW c \in Calls
  PROVE  /\ IsFiniteSet(Range(Chain(c))) /\ IsFiniteSet(Range(call[c].tried))
         /\ Range(call[c].tried) \subseteq Range(Chain(c)) /\ Range(Chain(c)) \subseteq Models
         /\ Cardinality(Range(Chain(c))) = Len(Chain(c)) /\ Len(Chain(c)) \in Nat
         /\ Cardinality(Range(call[c].tried)) \in Nat
         /\ Cardinality(Range(call[c].tried)) <= Len(call[c].tried)
         /\ Len(call[c].tried) \in Nat
<1> DEFINE t == call[c].tried
<1>1. /\ Chain(c) \in Seq(Models) /\ IsInjective(Chain(c)) /\ Len(Chain(c)) \in Nat
      /\ t \in Seq(Models) /\ Len(t) \in Nat /\ Range(t) \subseteq Range(Chain(c))
    BY ChainOfCall, CallShape DEF RouterShape, Shaped
<1>2. IsFiniteSet(Range(Chain(c))) /\ Cardinality(Range(Chain(c))) = Len(Chain(c))
    BY <1>1, Listed
<1>3. Range(Chain(c)) \subseteq Models
    BY <1>1 DEF Range
<1> HIDE DEF t
<1>4. IsFiniteSet(Range(t)) /\ Cardinality(Range(t)) \in Nat
    BY <1>1, <1>2, FS_Subset, FS_CardinalityType
<1>5. Cardinality(Range(t)) <= Len(t)
  <2>0. Len(t) \in Nat
      BY <1>1
  <2>1. IsFiniteSet(1..Len(t)) /\ Cardinality(1..Len(t)) = Len(t)
      BY <2>0, FS_Interval
  <2>2. DOMAIN t = 1..Len(t) /\ t \in [1..Len(t) -> Range(t)]
      BY <1>1 DEF Range
  <2>3. t \in Surjection(1..Len(t), Range(t))
      BY <2>2 DEF Surjection, Range
  <2> QED BY <2>1, <2>3, FS_Surjection
<1> QED BY <1>1, <1>2, <1>3, <1>4, <1>5 DEF t

LEMMA RaiseExcuses ==
  ASSUME RouterShape, NEW c \in Calls, Walks(c), RaiseExhausted(c)
  PROVE  Exhausted(c)
<1>1. call[c].pc = "choose" /\ call[c].left \in Nat /\ call[c].empty \subseteq Range(call[c].tried)
    BY DEF RaiseExhausted, RouterShape, Shaped, CallRecords
<1>3. CASE call[c].left = 0
  <2>1. Len(call[c].tried) = Len(Chain(c))
    <3>1. call[c].left + Len(call[c].tried) = max_attempts(c) /\ Len(call[c].tried) \in Nat
        BY <1>1, CallShape DEF RouterShape, Shaped
    <3> QED BY <1>3, <3>1, ChainOfCall
  <2>2. Cardinality(Unasked(c)) = Cardinality(Range(Chain(c))) - Cardinality(Range(call[c].tried))
    <3>1. Range(Chain(c)) \cap Range(call[c].tried) = Range(call[c].tried)
        BY TriedIsFinite
    <3>2. Cardinality(Range(Chain(c)) \ Range(call[c].tried))
            = Cardinality(Range(Chain(c))) - Cardinality(Range(Chain(c)) \cap Range(call[c].tried))
        BY TriedIsFinite, FS_Difference
    <3> QED BY <3>1, <3>2 DEF Unasked
  <2> QED BY <2>1, <2>2, TriedIsFinite DEF Exhausted
<1>4. CASE call[c].left > 0
  <2>1. PICK down \in LedgerDown : Open(c, down) = {}
      BY <1>4 DEF RaiseExhausted
  <2>2. ASSUME NEW a \in Unasked(c) PROVE Excused(c, a)
    <3>1. PICK i \in DOMAIN Chain(c) : a = Chain(c)[i]
        BY <2>2 DEF Unasked, Range
    <3>2. i \in 1..Len(Chain(c)) /\ a \in Models /\ a \notin call[c].empty
      <4>1. Chain(c) \in Seq(Models)
          BY ChainOfCall
      <4> QED BY <1>1, <2>2, <3>1, <4>1 DEF Unasked
    <3>3. ~can_afford(a, down)
        BY <2>1, <3>1, <3>2 DEF Open, Skipped
    <3> QED BY <3>2, <3>3, UnaffordableIsExcused
  <2> QED BY <2>2 DEF Exhausted
<1> QED BY <1>1, <1>3, <1>4

\* Only the step that raises makes a call raised, and a raised call is left alone.
LEMMA RaisedStays ==
  ASSUME RouterShape, [Next]_vars, NEW d \in Calls, call'[d].pc = "raised"
  PROVE  /\ call[d].pc = "raised" \/ RaiseExhausted(d)
         /\ call'[d].tried = call[d].tried /\ call'[d].began = call[d].began
<1>0. DOMAIN call = Calls /\ \A c \in Calls : call[c] \in CallRecords
    BY DEF RouterShape, Shaped
<1>1. CASE call'[d] = call[d]
    BY <1>1
<1>2. ASSUME NEW c \in Calls, StartCall(c) \/ Step(c), c # d PROVE call'[d] = call[d]
    BY <1>0, <1>2, OthersStay
<1>3. CASE RaiseExhausted(d)
  <2>1. call'[d].tried = call[d].tried /\ call'[d].began = call[d].began
      BY <1>0, <1>3 DEF RaiseExhausted, CallRecords
  <2> QED BY <1>3, <2>1
<1>4. CASE StartCall(d) \/ Send(d) \/ Fails(d) \/ FinishUsable(d) \/ FinishEmpty(d)
  <2>1. call'[d].pc \in {"choose", "wait", "returned"}
      BY <1>0, <1>4 DEF StartCall, Send, Fails, FinishUsable, FinishEmpty, CallRecords
  <2> QED BY <2>1
<1>5. CASE Answers(d)
  <2>1. call'[d].pc \in {"usable", "empty"}
      BY <1>0, <1>5 DEF Answers, CallRecords
  <2> QED BY <2>1
<1>6. CASE Throttled(d)
  <2>1. \E p \in {"send", "choose"} : call' = [call EXCEPT ![d].pc = p]
      BY <1>6 DEF Throttled
  <2>2. call'[d].pc \in {"send", "choose"}
      BY <1>0, <2>1 DEF CallRecords
  <2> QED BY <2>2
<1>7. CASE Resolve(d)
  <2>1. \E i \in DOMAIN Chain(d) : call' = [call EXCEPT ![d] = [call[d] EXCEPT !.pc = "send",
             !.link = Chain(d)[i], !.left = @ - 1, !.tried = Append(@, Chain(d)[i]),
             !.when = Append(@, now)]]
      BY <1>7, ResolveMakes
  <2>2. call'[d].pc = "send"
      BY <1>0, <2>1 DEF CallRecords
  <2> QED BY <2>2
<1>8. CASE Tick \/ UNCHANGED vars
    BY <1>1, <1>8 DEF Tick, vars
<1> QED BY <1>1, <1>2, <1>3, <1>4, <1>5, <1>6, <1>7, <1>8 DEF Next, Step, Response

LEMMA ExcusalStep ==
  RouterShape /\ WalkInv /\ ExcusalInv /\ [Next]_vars => ExcusalInv'
<1> SUFFICES ASSUME RouterShape, WalkInv, ExcusalInv, [Next]_vars, NEW d \in Calls,
                    call'[d].pc = "raised"
             PROVE  Exhausted(d)'
    BY DEF ExcusalInv
<1>1. Exhausted(d) /\ call'[d].tried = call[d].tried /\ call'[d].began = call[d].began
    BY RaisedStays, RaiseExcuses DEF ExcusalInv, WalkInv
<1>2. Unasked(d)' = Unasked(d) /\ Unasked(d) \subseteq Models
    BY <1>1, TriedIsFinite DEF Unasked, Chain
<1>3. \A a \in Models : Excused(d, a) => Excused(d, a)'
    BY <1>1, ExcuseStays DEF WalkInv
<1> QED BY <1>1, <1>2, <1>3 DEF Exhausted

\* What a raised call left out, it asked others again for.
LEMMA LeftOutIsPaid ==
  ASSUME RouterShape, ExcusalInv
  PROVE  LeftOutForAgain
<1> SUFFICES ASSUME NEW c \in Calls, call[c].pc = "raised"
             PROVE  Cardinality(LeftOut(c)) <= Len(call[c].tried) - Cardinality(ToSet(call[c].tried))
    BY DEF LeftOutForAgain
<1>1. ToSet(call[c].tried) = Range(call[c].tried) /\ ToSet(Chain(c)) = Range(Chain(c))
    BY DEF ToSet, Range
<1>2. LeftOut(c) = {a \in Unasked(c) : ~Excused(c, a)}
    BY <1>1 DEF LeftOut, Unasked
<1>3. IsFiniteSet(Unasked(c))
  <2>1. Unasked(c) \in SUBSET Range(Chain(c))
      BY DEF Unasked
  <2> QED BY <2>1, TriedIsFinite, FS_Subset
<1>4. IsFiniteSet(LeftOut(c)) /\ Cardinality(LeftOut(c)) \in Nat
      /\ Cardinality(Unasked(c)) \in Nat /\ Cardinality(LeftOut(c)) <= Cardinality(Unasked(c))
  <2>1. LeftOut(c) \in SUBSET Unasked(c)
      BY <1>2
  <2> QED BY <1>3, <2>1, FS_Subset, FS_CardinalityType
<1>5. CASE \A a \in Unasked(c) : Excused(c, a)
  <2>1. LeftOut(c) = {}
      BY <1>2, <1>5
  <2>2. Cardinality(LeftOut(c)) = 0
      BY <2>1, FS_EmptySet
  <2> QED BY <1>1, <2>2, TriedIsFinite
<1>6. CASE Cardinality(Unasked(c)) = Len(call[c].tried) - Cardinality(Range(call[c].tried))
    BY <1>1, <1>4, <1>6
<1> QED BY <1>5, <1>6 DEF ExcusalInv, Exhausted

-----------------------------------------------------------------------------
(* The wallets. *)

\* The ledger answers, every wallet has a day's quota, the same for all of its models
\* (a quota of an account is the provider's: catalog.py declares it on the provider).
LedgerKept ==
  /\ ~LedgerFails /\ IsFiniteSet(Calls)
  /\ \A a \in Models : Rpd[a] > 0
  /\ \A a \in Models, b \in Models : Wallet[a] = Wallet[b] => Rpd[a] = Rpd[b]

\* A call that may still charge the wallet: one with a request in the air, or a pinned one
\* that has not sent its only request.
MayCharge(c, a) ==
  \/ call[c].pc \in Under /\ (Pin[c] # NoChoice \/ Wallet[call[c].link] = Wallet[a])
  \/ Pin[c] # NoChoice /\ (call[c].pc = "idle" \/ (call[c].pc = "choose" /\ call[c].left > 0))

Pending(a) == {c \in Calls : MayCharge(c, a)}

OnLedger(a) == Cardinality(LedgerRows(a, 0))

OverdraftInv ==
  \A a \in Models : OnLedger(a) + Cardinality(Pending(a)) <= Rpd[a] - 1 + Cardinality(Calls)

LEMMA PendingCounted ==
  ASSUME IsFiniteSet(Calls), RouterShape, NEW a \in Models
  PROVE  /\ IsFiniteSet(Pending(a)) /\ Cardinality(Pending(a)) \in Nat /\ OnLedger(a) \in Nat
         /\ Cardinality(Calls) \in Nat /\ Cardinality(Pending(a)) <= Cardinality(Calls)
<1>1. Pending(a) \in SUBSET Calls
    BY DEF Pending
<1>2. LedgerRows(a, 0) \in SUBSET DOMAIN rows /\ rows \in Seq(Rows)
    BY DEF LedgerRows, RouterShape, Rows
<1>3. OnLedger(a) \in Nat
    BY <1>2, PlacesCounted DEF OnLedger
<1> QED BY <1>1, <1>3, FS_Subset, FS_CardinalityType

\* A step of one call changes what that call may charge, and no other call's.
LEMMA OtherCharges ==
  ASSUME NEW d \in Calls, call'[d] = call[d], NEW a
  PROVE  MayCharge(d, a)' <=> MayCharge(d, a)
BY DEF MayCharge

\* A row more is a row more for its own wallet.
LEMMA RowCharges ==
  ASSUME RouterShape, NEW x \in Rows, rows' = Append(rows, x), NEW a \in Models
  PROVE  /\ Wallet[x.model] = Wallet[a] => OnLedger(a)' = OnLedger(a) + 1
         /\ Wallet[x.model] # Wallet[a] => OnLedger(a)' = OnLedger(a)
<1> DEFINE P == LedgerRows(a, 0)
           Q == P'
           n == Len(rows)
<1>1. /\ rows \in Seq(Rows) /\ n \in Nat /\ rows' \in Seq(Rows) /\ Len(rows') = n + 1
      /\ \A i \in 1..n : rows'[i] = rows[i]
      /\ rows'[n + 1] = x /\ DOMAIN rows = 1..n /\ DOMAIN rows' = 1..(n + 1)
    BY DEF RouterShape, Rows
<1>2. x.at \in Nat
    BY LimitAssumption DEF Rows
<1>3. /\ P = {i \in 1..n : Wallet[rows[i].model] = Wallet[a] /\ rows[i].at >= 0}
      /\ Q = {i \in 1..(n + 1) : Wallet[rows'[i].model] = Wallet[a] /\ rows'[i].at >= 0}
    BY <1>1 DEF LedgerRows
<1>4. IsFiniteSet(P) /\ n + 1 \notin P
  <2>1. P \in SUBSET DOMAIN rows
      BY <1>1, <1>3
  <2> HIDE DEF P
  <2>2. IsFiniteSet(P)
      BY <1>1, <2>1, PlacesCounted
  <2> QED BY <1>1, <2>1, <2>2
<1>5. \A i : i \in 1..(n + 1) <=> i \in 1..n \/ i = n + 1
    BY <1>1
<1>6. CASE Wallet[x.model] = Wallet[a]
  <2>1. Q = P \cup {n + 1}
      BY <1>1, <1>2, <1>3, <1>5, <1>6
  <2> HIDE DEF P, Q
  <2>2. Cardinality(Q) = Cardinality(P) + 1
      BY <1>4, <2>1, FS_AddElement
  <2> QED BY <1>6, <2>2 DEF OnLedger, P, Q
<1>7. CASE Wallet[x.model] # Wallet[a]
  <2>1. \A i \in Q : i \in 1..n /\ i \in P
      BY <1>1, <1>3, <1>5, <1>7
  <2>2. \A i \in P : i \in Q
      BY <1>1, <1>3, <1>5
  <2>3. Q = P
      BY <2>1, <2>2
  <2> QED BY <1>7, <2>3 DEF OnLedger
<1> QED BY <1>6, <1>7

LEMMA OneWallet ==
  ASSUME LedgerKept, NEW a \in Models, NEW b \in Models, Wallet[a] = Wallet[b], NEW down \in LedgerDown,
         can_afford(b, down)
  PROVE  OnLedger(a) < Rpd[a]
BY DEF LedgerKept, LedgerDown, can_afford, LedgerRows, OnLedger

\* The steps that charge nothing, as one wallet sees them.
LEMMA NothingCharged ==
  ASSUME IsFiniteSet(Calls), RouterShape, RouterShape', NEW a \in Models,
         OnLedger(a) + Cardinality(Pending(a)) <= Rpd[a] - 1 + Cardinality(Calls),
         OnLedger(a)' = OnLedger(a), Pending(a)' \subseteq Pending(a)
  PROVE  OnLedger(a)' + Cardinality(Pending(a)') <= Rpd[a] - 1 + Cardinality(Calls)
<1>1. /\ IsFiniteSet(Pending(a)) /\ Cardinality(Pending(a)) \in Nat /\ OnLedger(a) \in Nat
      /\ Cardinality(Calls) \in Nat /\ Rpd[a] \in Nat
    BY PendingCounted, LimitAssumption
<1>2. Cardinality(Pending(a)') \in Nat /\ Cardinality(Pending(a)') <= Cardinality(Pending(a))
  <2>1. IsFiniteSet(Pending(a)')
      BY <1>1, FS_Subset
  <2> QED BY <1>1, <2>1, FS_Subset, FS_CardinalityType
<1> QED BY <1>1, <1>2

\* A pinned call has one attempt.
LEMMA PinnedIsOnce ==
  ASSUME RouterShape, NEW c \in Calls, Pin[c] # NoChoice, call[c].pc \in Under
  PROVE  call[c].left = 0
<1>1. /\ call[c].left \in Nat /\ call[c].tried \in Seq(Models) /\ call[c].tried # <<>>
      /\ call[c].left + Len(call[c].tried) = 1
    BY ChainOfCall DEF RouterShape, Shaped, CallRecords, Under
<1>2. Len(call[c].tried) \in Nat \ {0}
    BY <1>1
<1> QED BY <1>1, <1>2

\* The row a finished call leaves, and what it may charge afterwards.
LEMMA FinishCharges ==
  ASSUME RouterShape, NEW c \in Calls, FinishUsable(c) \/ FinishEmpty(c), ~LedgerFails
  PROVE  /\ \E x \in Rows : rows' = Append(rows, x) /\ x.model = call[c].link
         /\ \A a \in Models : ~MayCharge(c, a)'
         /\ call[c].pc \in Under /\ call[c].link \in Models
<1>1. /\ Shaped(c) /\ call[c].pc \in {"usable", "empty"} /\ call[c].tried \in Seq(Models)
      /\ now \in 0..MaxTime /\ DOMAIN call = Calls /\ call[c] \in CallRecords
    BY DEF FinishUsable, FinishEmpty, RouterShape, Shaped, CallRecords
<1>2. /\ call[c].total \in Sizes /\ call[c].tried # <<>> /\ call[c].pc \in Under
      /\ call[c].link = call[c].tried[Len(call[c].tried)]
    BY <1>1 DEF Shaped, Under
<1>3. call[c].link \in Models
    BY <1>1, <1>2
<1>4. rows' = Append(rows, [model |-> call[c].link, at |-> now, tokens |-> call[c].total])
    BY DEF FinishUsable, FinishEmpty, Record
<1>5. [model |-> call[c].link, at |-> now, tokens |-> call[c].total] \in Rows
    BY <1>1, <1>2, <1>3 DEF Rows
<1>6. \A a \in Models : ~MayCharge(c, a)'
  <2>1. CASE FinishUsable(c)
    <3>1. call'[c].pc = "returned"
        BY <1>1, <2>1 DEF FinishUsable, CallRecords
    <3> QED BY <3>1 DEF MayCharge, Under
  <2>2. CASE FinishEmpty(c)
    <3>1. call'[c].pc = "choose" /\ call'[c].left = call[c].left
        BY <1>1, <2>2 DEF FinishEmpty, CallRecords
    <3>2. Pin[c] # NoChoice => call'[c].left = 0
        BY <1>2, <3>1, PinnedIsOnce
    <3> QED BY <3>1, <3>2 DEF MayCharge, Under
  <2> QED BY <2>1, <2>2
<1> QED BY <1>2, <1>3, <1>4, <1>5, <1>6

\* The steps that only look, ask or give up.
LEMMA OtherStepsChargeNothing ==
  ASSUME RouterShape, NEW c \in Calls, NEW a \in Models,
         StartCall(c) \/ RaiseExhausted(c) \/ Send(c) \/ Response(c) \/ (Resolve(c) /\ Pin[c] # NoChoice)
  PROVE  rows' = rows /\ (MayCharge(c, a)' => MayCharge(c, a))
<1>0. DOMAIN call = Calls /\ call[c] \in CallRecords
    BY DEF RouterShape, Shaped
<1>1. CASE StartCall(c)
  <2>1. call'[c].pc = "choose" /\ call[c].pc = "idle" /\ rows' = rows
      BY <1>0, <1>1 DEF StartCall, CallRecords
  <2> QED BY <2>1 DEF MayCharge, Under
<1>2. CASE RaiseExhausted(c)
  <2>1. call'[c].pc \in {"raised", "returned"} /\ rows' = rows
      BY <1>0, <1>2 DEF RaiseExhausted, Ending, CallRecords
  <2> QED BY <2>1 DEF MayCharge, Under
<1>3. CASE Send(c) \/ Response(c)
  <2>1. /\ call[c].pc \in Under /\ call'[c].link = call[c].link /\ call'[c].left = call[c].left
        /\ call'[c].pc \in Under \cup {"choose"} /\ rows' = rows
    <3>1. CASE Send(c)
        BY <1>0, <3>1 DEF Send, CallRecords, Under
    <3>2. CASE Fails(c)
        BY <1>0, <3>2 DEF Fails, CallRecords, Under
    <3>3. CASE Answers(c)
        BY <1>0, <3>3 DEF Answers, CallRecords, Under
    <3>4. CASE Throttled(c)
      <4>1. call[c].pc = "wait" /\ rows' = rows /\ \E p \in {"send", "choose"} : call' = [call EXCEPT ![c].pc = p]
          BY <3>4 DEF Throttled
      <4> QED BY <1>0, <4>1 DEF CallRecords, Under
    <3> QED BY <1>3, <3>1, <3>2, <3>3, <3>4 DEF Response
  <2>2. Pin[c] # NoChoice => call[c].left = 0
      BY <2>1, PinnedIsOnce
  <2> QED BY <2>1, <2>2 DEF MayCharge, Under
<1>4. CASE Resolve(c) /\ Pin[c] # NoChoice
  <2>1. MayCharge(c, a) /\ rows' = rows
      BY <1>4 DEF Resolve, MayCharge
  <2> QED BY <2>1
<1> QED BY <1>1, <1>2, <1>3, <1>4

LEMMA OverdraftStep ==
  LedgerKept /\ RouterShape /\ RouterShape' /\ OverdraftInv /\ [Next]_vars => OverdraftInv'
<1> SUFFICES ASSUME LedgerKept, RouterShape, RouterShape', OverdraftInv, [Next]_vars, NEW a \in Models
             PROVE  OnLedger(a)' + Cardinality(Pending(a)') <= Rpd[a] - 1 + Cardinality(Calls)
    BY DEF OverdraftInv
<1>0. /\ DOMAIN call = Calls /\ \A c \in Calls : call[c] \in CallRecords
      /\ IsFiniteSet(Calls) /\ ~LedgerFails /\ Rpd[a] \in Nat
      /\ OnLedger(a) + Cardinality(Pending(a)) <= Rpd[a] - 1 + Cardinality(Calls)
    BY LimitAssumption DEF RouterShape, Shaped, OverdraftInv, LedgerKept
<1>1. /\ IsFiniteSet(Pending(a)) /\ Cardinality(Pending(a)) \in Nat /\ OnLedger(a) \in Nat
      /\ Cardinality(Calls) \in Nat
    BY <1>0, PendingCounted
<1>2. rows' = rows => OnLedger(a)' = OnLedger(a)
    BY DEF OnLedger, LedgerRows
<1>3. ASSUME NEW c \in Calls, StartCall(c) \/ Step(c)
      PROVE  OnLedger(a)' + Cardinality(Pending(a)') <= Rpd[a] - 1 + Cardinality(Calls)
  <2>1. \A d \in Calls \ {c} : call'[d] = call[d]
      BY <1>0, <1>3, OthersStay
  <2>2. \A d \in Calls \ {c} : MayCharge(d, a)' <=> MayCharge(d, a)
      BY <2>1, OtherCharges
  <2>3. CASE rows' = rows /\ (MayCharge(c, a)' => MayCharge(c, a))
    <3>1. Pending(a)' \subseteq Pending(a)
        BY <2>2, <2>3 DEF Pending
    <3> QED BY <1>0, <1>2, <2>3, <3>1, NothingCharged
  <2>4. CASE FinishUsable(c) \/ FinishEmpty(c)
    <3>1. /\ \A b \in Models : ~MayCharge(c, b)'
          /\ call[c].pc \in Under /\ call[c].link \in Models
        BY <1>0, <2>4, FinishCharges
    <3>2. PICK x \in Rows : rows' = Append(rows, x) /\ x.model = call[c].link
        BY <1>0, <2>4, FinishCharges
    <3>3. Pending(a)' = Pending(a) \ {c}
        BY <2>2, <3>1 DEF Pending
    <3>4. CASE Wallet[x.model] = Wallet[a]
      <4>1. c \in Pending(a)
          BY <3>1, <3>2, <3>4 DEF Pending, MayCharge
      <4>2. Cardinality(Pending(a)') = Cardinality(Pending(a)) - 1
          BY <1>1, <3>3, <4>1, FS_RemoveElement
      <4>3. OnLedger(a)' = OnLedger(a) + 1
          BY <3>2, <3>4, RowCharges
      <4> QED BY <1>0, <1>1, <4>2, <4>3
    <3>5. CASE Wallet[x.model] # Wallet[a]
      <4>1. OnLedger(a)' = OnLedger(a)
          BY <3>2, <3>5, RowCharges
      <4>2. Pending(a)' \subseteq Pending(a)
          BY <3>3
      <4> QED BY <1>0, <4>1, <4>2, NothingCharged
    <3> QED BY <3>4, <3>5
  <2>5. CASE Resolve(c) /\ Pin[c] = NoChoice
    <3>1. PICK down \in LedgerDown : Open(c, down) # {} /\ LET i == Min(Open(c, down)) IN
            call' = [call EXCEPT ![c].pc = "send", ![c].link = Chain(c)[i],
                                 ![c].left = @ - 1, ![c].tried = Append(@, Chain(c)[i]),
                                 ![c].when = Append(@, now)]
        BY <2>5 DEF Resolve
    <3>2. PICK i : i = Min(Open(c, down))
        OBVIOUS
    <3>3. i \in Open(c, down) /\ Chain(c)[i] \in Models
        BY <3>1, <3>2, OpenLink
    <3>4. PICK b \in Models : b = Chain(c)[i]
        BY <3>3
    <3>5. can_afford(b, down) /\ call'[c].link = b /\ rows' = rows
        BY <1>0, <2>5, <3>1, <3>2, <3>3, <3>4 DEF Open, Resolve, CallRecords
    <3>6. CASE Wallet[b] = Wallet[a]
      <4>1. OnLedger(a) < Rpd[a]
          BY <3>5, <3>6, OneWallet
      <4>2. Cardinality(Pending(a)') \in Nat /\ Cardinality(Pending(a)') <= Cardinality(Calls)
        <5>1. Pending(a)' \in SUBSET Calls
            BY DEF Pending
        <5> QED BY <1>0, <5>1, FS_Subset, FS_CardinalityType
      <4> QED BY <1>0, <1>1, <1>2, <3>5, <4>1, <4>2
    <3>7. CASE Wallet[b] # Wallet[a]
      <4>1. ~MayCharge(c, a)'
        <5>1. call'[c].pc = "send"
            BY <1>0, <3>1 DEF CallRecords
        <5> QED BY <2>5, <3>5, <3>7, <5>1 DEF MayCharge
      <4> QED BY <2>3, <3>5, <4>1
    <3> QED BY <3>6, <3>7
  <2> QED BY <1>3, <2>3, <2>4, <2>5, OtherStepsChargeNothing DEF Step
<1>4. CASE Tick \/ UNCHANGED vars
  <2>1. rows' = rows /\ call' = call
      BY <1>4 DEF Tick, vars
  <2>2. Pending(a)' = Pending(a)
      BY <2>1 DEF Pending, MayCharge
  <2> QED BY <1>0, <1>2, <2>1, <2>2
<1> QED BY <1>3, <1>4 DEF Next

LEMMA OverdraftInit == LedgerKept /\ RouterShape /\ Init => OverdraftInv
<1> SUFFICES ASSUME LedgerKept, RouterShape, Init, NEW a \in Models
             PROVE  OnLedger(a) + Cardinality(Pending(a)) <= Rpd[a] - 1 + Cardinality(Calls)
    BY DEF OverdraftInv
<1>1. LedgerRows(a, 0) = {}
  <2>1. rows = <<>> /\ DOMAIN <<>> = {}
      BY DEF Init
  <2> QED BY <2>1 DEF LedgerRows
<1>2. OnLedger(a) = 0
    BY <1>1, FS_EmptySet DEF OnLedger
<1>3. /\ Cardinality(Pending(a)) \in Nat /\ Cardinality(Calls) \in Nat
      /\ Cardinality(Pending(a)) <= Cardinality(Calls)
    BY PendingCounted DEF LedgerKept
<1>4. Rpd[a] \in Nat /\ Rpd[a] > 0
    BY LimitAssumption DEF LedgerKept
<1> QED BY <1>2, <1>3, <1>4

LEMMA OverdraftIsBounded ==
  ASSUME LedgerKept, RouterShape, OverdraftInv
  PROVE  OverdraftBounded
<1> SUFFICES ASSUME NEW a \in Models
             PROVE  OnLedger(a) <= Rpd[a] + Cardinality(Unpinned) - 1 + Cardinality(Calls \ Unpinned)
    BY DEF OverdraftBounded, OnLedger
<1>1. /\ Cardinality(Pending(a)) \in Nat /\ Cardinality(Calls) \in Nat /\ OnLedger(a) \in Nat
      /\ IsFiniteSet(Calls) /\ Rpd[a] \in Nat
    BY PendingCounted, LimitAssumption DEF LedgerKept
<1>2. /\ Calls \cap Unpinned = Unpinned /\ Unpinned \in SUBSET Calls
    BY DEF Unpinned
<1>3. Cardinality(Calls \ Unpinned) = Cardinality(Calls) - Cardinality(Unpinned)
    BY <1>1, <1>2, FS_Difference
<1>4. Cardinality(Unpinned) \in Nat
    BY <1>1, <1>2, FS_Subset, FS_CardinalityType
<1>5. OnLedger(a) + Cardinality(Pending(a)) <= Rpd[a] - 1 + Cardinality(Calls)
    BY DEF OverdraftInv
<1> QED BY <1>1, <1>3, <1>4, <1>5

\* OverdraftBounded (budget.py: the check, and the row it leads to, are separate steps): no
\* wallet is overdrawn by more than a request per concurrent call, however many there are,
\* whatever their chains, time-outs and answers.
THEOREM WalletsAlwaysBounded == LedgerKept => (Spec => []OverdraftBounded)
<1> SUFFICES ASSUME LedgerKept PROVE Spec => []OverdraftBounded
    OBVIOUS
<1>1. Init => OverdraftInv
    BY RouterShapeInit, OverdraftInit
<1>2. RouterShape /\ RouterShape' /\ OverdraftInv /\ [Next]_vars => OverdraftInv'
    BY OverdraftStep
<1>3. RouterShape /\ OverdraftInv => OverdraftBounded
    BY OverdraftIsBounded
<1> QED BY <1>1, <1>2, <1>3, RouterShapeAlways, PTL DEF Spec

\* ChainIsWalked: on top of that, a call asks a model again only a cool-down after it was
\* asked, and a call that raises left out, of the models it had no reason not to ask, at most
\* as many as it asked again (router.py:398), for any time-outs and any cool-downs.
THEOREM ChainAlwaysWalked == LedgerKept => (Spec => []ChainIsWalked)
<1> SUFFICES ASSUME LedgerKept PROVE Spec => []ChainIsWalked
    OBVIOUS
<1>1. Init => WalkInv /\ ExcusalInv
  <2>1. Init => ExcusalInv
      BY DEF Init, NewCall, ExcusalInv
  <2> QED BY <2>1, WalkInit
<1>2. RouterShape /\ WalkInv /\ ExcusalInv /\ [Next]_vars => (WalkInv /\ ExcusalInv)'
    BY WalkStep, ExcusalStep
<1>3. RouterShape /\ WalkInv /\ ExcusalInv => TypeOK /\ AskedAgainLate /\ LeftOutForAgain
  <2>1. WalkInv => AskedAgainLate
      BY DEF WalkInv, Walks, AgainLate, AskedAgainLate
  <2> QED BY <2>1, LeftOutIsPaid, ShapeIsType
<1>4. Spec => [](TypeOK /\ AskedAgainLate /\ LeftOutForAgain)
    BY <1>1, <1>2, <1>3, RouterShapeAlways, PTL DEF Spec
<1>5. Spec => []OverdraftBounded
    BY WalletsAlwaysBounded
<1> QED BY <1>4, <1>5, PTL DEF ChainIsWalked

-----------------------------------------------------------------------------
(* The mirror of Odoo's products, for every number of products, page and edit. *)

SyncRecord ==
    [at : {"off", "page", "embed", "upsert", "delete", "ended", "skipped"}, last : Nat,
     rows : Seq(Named), todo : Nat, always : SUBSET ProductIds, ever : SUBSET ProductIds]

Stores(f) == f \in [ProductIds -> Names \cup {NoProduct}]

\* What is not ended yet knows what was live while it ran.
Running == {"page", "embed", "upsert", "delete"}
Bounded ==
    sync.at \in Running => /\ sync.always \subseteq LiveIds /\ LiveIds \subseteq sync.ever
                           /\ Fetched \subseteq sync.ever

\* Between two pages whatever was live all along, up to the last row, has been fetched.
Paged == sync.at = "page" => \A id \in sync.always : id <= sync.last => id \in Fetched

\* From then on all of it was; each row is stored in its turn, and before the delete all are.
Read ==
    /\ sync.at \in {"embed", "upsert", "delete"} => sync.rows # <<>> /\ sync.always \subseteq Fetched
    /\ sync.at = "upsert" => /\ sync.todo \in 1..Len(sync.rows)
                             /\ \A i \in 1..(sync.todo - 1) : sync.rows[i][1] \in Indexed
    /\ sync.at = "delete" => Fetched \subseteq Indexed

SyncInv ==
    /\ Stores(odoo) /\ Stores(index) /\ sync \in SyncRecord
    /\ Bounded /\ Paged /\ Read /\ SyncedIsMirror

\* A name being resolved: one match a product, each seen in Odoo since the question.
LookupRecord ==
    [at : {"off", "semantic", "verify", "score", "answered", "error"},
     query : Names \cup {NoProduct}, found : Seq(Named), extra : Seq(ProductIds),
     during : SUBSET Named, needs : BOOLEAN, chosen : ProductIds \cup {0}]

Once(found) == \A i, j \in DOMAIN found : found[i][1] = found[j][1] => i = j

Resolving ==
    lookup.at \in {"semantic", "verify", "score"} =>
      lookup.query \in Names /\ {<<id, odoo[id]>> : id \in LiveIds} \subseteq lookup.during

\* The proposals of the mirror are new and leave the list within its limit.
Proposed ==
    lookup.at = "verify" =>
      /\ IsInjective(lookup.extra)
      /\ Len(lookup.found) + Len(lookup.extra) <= MAX_CANDIDATES
      /\ \A i \in DOMAIN lookup.found : lookup.found[i][1] \notin Range(lookup.extra)

NameInv ==
    /\ lookup \in LookupRecord /\ Once(lookup.found) /\ Len(lookup.found) <= MAX_CANDIDATES
    /\ OffersLive /\ Resolving /\ Proposed /\ TwinsAreAsked

-----------------------------------------------------------------------------
LEMMA ByIdLists ==
  /\ ById \in Seq(ProductIds) /\ ById \in Seq(Nat) /\ IsInjective(ById) /\ Ascends(ById)
  /\ Range(ById) = ProductIds
<1>1. MaxId \in Nat /\ DOMAIN ById = 1..MaxId /\ \A i \in 1..MaxId : ById[i] = i
    BY EntityIndexAssumption DEF ById, ProductIds
<1>2. ById \in Seq(ProductIds) /\ ById \in Seq(Nat)
    BY <1>1 DEF ById, ProductIds
<1> QED BY <1>1, <1>2 DEF IsInjective, Ascends, Range, ProductIds

\* The first of the live products by id: all of them up to the last of it.
LEMMA FirstById ==
  ASSUME NEW live \in SUBSET ProductIds, NEW k \in Nat \ {0},
         NEW page, page = First(k, Within(ById, live))
  PROVE  /\ page \in Seq(ProductIds) /\ IsInjective(page) /\ Range(page) \subseteq live
         /\ page = <<>> => live = {}
         /\ page # <<>> => /\ Last(page) \in Nat
                           /\ \A id \in live : id <= Last(page) => id \in Range(page)
<1> DEFINE w == Within(ById, live)
           n == Len(page)
<1>1. w \in Seq(ProductIds) /\ IsInjective(w) /\ Range(w) = live
  <2>1. w \in Seq(ProductIds) /\ IsInjective(w) /\ Range(w) = Range(ById) \cap live
      BY ByIdLists, WithinKeeps
  <2> QED BY <2>1, ByIdLists
<1>2. Ascends(w)
    BY ByIdLists, WithinAscends
<1> HIDE DEF w
<1>3. /\ page \in Seq(ProductIds) /\ n = (IF Len(w) < k THEN Len(w) ELSE k)
      /\ \A i \in 1..n : page[i] = w[i] /\ i \in 1..Len(w)
      /\ IsInjective(page) /\ Range(page) \subseteq live
    BY <1>1, FirstKeeps DEF w
<1>4. /\ DOMAIN w = 1..Len(w) /\ Len(w) \in Nat /\ DOMAIN page = 1..n /\ n \in Nat
      /\ \A i \in 1..Len(w) : w[i] \in Nat
  <2>1. /\ DOMAIN w = 1..Len(w) /\ Len(w) \in Nat /\ DOMAIN page = 1..n /\ n \in Nat
        /\ \A i \in 1..Len(w) : w[i] \in ProductIds
    <3> HIDE DEF ProductIds
    <3> QED BY <1>1, <1>3
  <2> QED BY <2>1 DEF ProductIds
<1>5. ASSUME page = <<>> PROVE live = {}
  <2>1. Len(w) = 0
      BY <1>3, <1>4, <1>5
  <2> QED BY <1>1, <1>4, <2>1 DEF Range
<1>6. ASSUME page # <<>>
      PROVE  Last(page) \in Nat /\ \A id \in live : id <= Last(page) => id \in Range(page)
  <2>1. n \in 1..n /\ Last(page) = w[n] /\ n \in 1..Len(w)
    <3>1. n # 0
        BY <1>3, <1>4, <1>6
    <3> QED BY <1>3, <1>4, <3>1 DEF Last
  <2>2. ASSUME NEW id \in live, id <= w[n] PROVE id \in Range(page)
    <3>1. PICK i \in 1..Len(w) : w[i] = id
        BY <1>1, <1>4 DEF Range
    <3>2. ~(n < i)
        BY <1>2, <1>4, <2>1, <2>2, <3>1 DEF Ascends
    <3>3. i \in 1..n
        BY <1>4, <3>1, <3>2
    <3>4. page[i] = id
        BY <1>3, <3>1, <3>3
    <3> QED BY <1>4, <3>3, <3>4 DEF Range
  <2> QED BY <1>4, <2>1, <2>2
<1> QED BY <1>3, <1>5, <1>6

LEMMA SyncInit == ExInit => SyncInv
<1> SUFFICES ASSUME ExInit PROVE SyncInv
    OBVIOUS
<1>1. Stores(odoo)
  <2>1. PICK live \in SUBSET ProductIds, n \in Names :
          odoo = [id \in ProductIds |-> IF id \in live THEN n ELSE NoProduct]
      BY DEF ExInit
  <2> QED BY <2>1 DEF Stores
<1>2. Stores(index)
    BY <1>1 DEF ExInit, Stores
<1>3. sync \in SyncRecord
    BY DEF ExInit, NoSync, SyncRecord
<1>4. sync.at = "off"
    BY DEF ExInit, NoSync
<1> QED BY <1>1, <1>2, <1>3, <1>4 DEF SyncInv, Bounded, Running, Paged, Read, SyncedIsMirror

\* A product is renamed, archived or restored: what a running sync fetched stays.
LEMMA SyncEdited ==
  ASSUME SyncInv, NEW id \in ProductIds, NEW name \in Names \cup {NoProduct}, Edit(id, name)
  PROVE  SyncInv' /\ NeverWiped
<1>1. /\ Stores(odoo) /\ Stores(index) /\ sync \in SyncRecord /\ index' = index
      /\ odoo' = [odoo EXCEPT ![id] = name]
      /\ Bounded /\ Paged /\ Read /\ SyncedIsMirror
    BY DEF SyncInv, Edit
<1>2. Stores(odoo') /\ Stores(index') /\ Indexed' = Indexed
    BY <1>1 DEF Stores, Indexed
<1>3. /\ sync' \in SyncRecord /\ sync'.at = sync.at /\ sync'.last = sync.last
      /\ sync'.rows = sync.rows /\ sync'.todo = sync.todo
      /\ sync'.always = IF name = NoProduct THEN sync.always \ {id} ELSE sync.always
      /\ sync'.ever = IF name = NoProduct THEN sync.ever ELSE sync.ever \cup {id}
    BY <1>1 DEF Edit, SyncRecord
<1>4. LiveIds' = IF name = NoProduct THEN LiveIds \ {id} ELSE LiveIds \cup {id}
    BY <1>1 DEF LiveIds, Live, Stores
<1>5. Fetched' = Fetched
    BY <1>3 DEF Fetched
<1>6. Bounded'
    BY <1>1, <1>3, <1>4, <1>5 DEF Bounded
<1>7. Paged' /\ Read' /\ SyncedIsMirror'
    BY <1>1, <1>2, <1>3, <1>5 DEF Paged, Read, SyncedIsMirror
<1> QED BY <1>2, <1>3, <1>6, <1>7 DEF SyncInv, NeverWiped

LEMMA SyncStarted ==
  ASSUME SyncInv, StartSync
  PROVE  SyncInv' /\ NeverWiped
<1>1. /\ Stores(odoo) /\ Stores(index) /\ index' = index /\ odoo' = odoo
      /\ sync' = [NoSync EXCEPT !.at = "page", !.always = LiveIds, !.ever = LiveIds]
    BY DEF SyncInv, StartSync
<1>2. LiveIds' = LiveIds /\ Indexed' = Indexed /\ LiveIds \subseteq ProductIds
    BY <1>1 DEF LiveIds, Live, Indexed
<1>3. /\ sync' \in SyncRecord /\ sync'.at = "page" /\ sync'.last = 0 /\ sync'.rows = <<>>
      /\ sync'.always = LiveIds /\ sync'.ever = LiveIds
  <2>1. sync' = [at |-> "page", last |-> 0, rows |-> <<>>, todo |-> 0,
                 always |-> LiveIds, ever |-> LiveIds]
      BY <1>1 DEF NoSync
  <2>2. <<>> \in Seq(Named)
      OBVIOUS
  <2> QED BY <1>2, <2>1, <2>2 DEF SyncRecord
<1>4. Fetched' = {} /\ \A id \in LiveIds : ~(id <= 0)
  <2>1. PICK none : none = sync'.rows
      OBVIOUS
  <2>2. Fetched' = {none[i][1] : i \in DOMAIN none}
      BY <2>1 DEF Fetched
  <2>3. DOMAIN none = {}
      BY <1>3, <2>1
  <2>4. \A id \in ProductIds : ~(id <= 0)
      BY EntityIndexAssumption DEF ProductIds
  <2> QED BY <1>2, <2>2, <2>3, <2>4
<1>5. Bounded' /\ Paged' /\ Read' /\ SyncedIsMirror'
    BY <1>2, <1>3, <1>4 DEF Bounded, Paged, Read, SyncedIsMirror
<1> QED BY <1>1, <1>2, <1>3, <1>5 DEF SyncInv, NeverWiped

\* A page: the next of the live products, so that nothing live is passed over.
LEMMA SyncPaged ==
  ASSUME SyncInv, FetchPage
  PROVE  SyncInv' /\ NeverWiped
<1> DEFINE beyond == {id \in LiveIds : id > sync.last}
           page == Page(sync.last)
           added == [i \in DOMAIN page |-> <<page[i], odoo[page[i]]>>]
<1>1. /\ Stores(odoo) /\ Stores(index) /\ sync \in SyncRecord /\ index' = index /\ odoo' = odoo
      /\ Bounded /\ Paged /\ Read /\ sync.at = "page"
      /\ sync' = IF page = <<>> THEN [sync EXCEPT !.at = After(sync.rows)]
                 ELSE [sync EXCEPT !.last = Last(page), !.rows = @ \o added]
    BY DEF SyncInv, FetchPage
<1>2. LiveIds' = LiveIds /\ Indexed' = Indexed /\ beyond \subseteq LiveIds /\ LiveIds \subseteq ProductIds
    BY <1>1 DEF LiveIds, Live, Indexed
<1>3. sync.last \in Nat /\ sync.rows \in Seq(Named) /\ sync.always \subseteq ProductIds
    BY <1>1 DEF SyncRecord
<1>4. /\ page \in Seq(ProductIds) /\ Range(page) \subseteq beyond
      /\ page = <<>> => beyond = {}
      /\ page # <<>> => /\ Last(page) \in Nat
                        /\ \A id \in beyond : id <= Last(page) => id \in Range(page)
  <2>1. page = First(BATCH, Within(ById, beyond)) /\ BATCH \in Nat \ {0}
      BY EntityIndexAssumption DEF Page
  <2>2. beyond \in SUBSET ProductIds
      BY <1>2
  <2> HIDE DEF page, beyond
  <2> QED BY <2>1, <2>2, FirstById
<1>5. ASSUME NEW id \in sync.always
      PROVE  id \in LiveIds /\ id \in Nat /\ (id <= sync.last => id \in Fetched)
                            /\ (id > sync.last => id \in beyond)
    BY <1>1, <1>2, <1>3 DEF Bounded, Running, Paged, ProductIds
<1> HIDE DEF page, beyond
<1>6. CASE page = <<>>
  <2>1. /\ sync' \in SyncRecord /\ sync'.at = After(sync.rows) /\ sync'.rows = sync.rows
        /\ sync'.always = sync.always /\ sync'.ever = sync.ever
      BY <1>1, <1>6 DEF SyncRecord, After
  <2>2. sync.always \subseteq Fetched /\ Fetched' = Fetched
    <3>1. ASSUME NEW id \in sync.always PROVE id \in Fetched
        BY <1>3, <1>4, <1>5, <1>6
    <3> QED BY <2>1, <3>1 DEF Fetched
  <2>3. Bounded'
      BY <1>1, <1>2, <2>1, <2>2 DEF Bounded, Running
  <2>4. Paged' /\ Read' /\ SyncedIsMirror'
      BY <2>1, <2>2 DEF After, Paged, Read, SyncedIsMirror
  <2> QED BY <1>1, <1>2, <2>1, <2>3, <2>4 DEF SyncInv, NeverWiped
<1>7. CASE page # <<>>
  <2>1. added \in Seq(Named) /\ DOMAIN added = DOMAIN page
    <3>1. DOMAIN page = 1..Len(page) /\ Len(page) \in Nat /\ \A i \in DOMAIN page : page[i] \in LiveIds
        BY <1>2, <1>4 DEF Range
    <3>2. \A i \in DOMAIN page : <<page[i], odoo[page[i]]>> \in Named
        BY <1>1, <1>2, <3>1 DEF LiveIds, Live, Stores, Named
    <3> QED BY <3>1, <3>2
  <2> DEFINE pairs == sync.rows \o added
  <2>2. pairs \in Seq(Named)
      BY <1>3, <2>1
  <2>3. /\ sync' \in SyncRecord /\ sync'.at = "page" /\ sync'.last = Last(page) /\ sync'.rows = pairs
        /\ sync'.always = sync.always /\ sync'.ever = sync.ever
    <3> HIDE DEF pairs
    <3>1. sync' = [sync EXCEPT !.last = Last(page), !.rows = pairs]
        BY <1>1, <1>7 DEF pairs
    <3>2. Last(page) \in Nat
        BY <1>4, <1>7
    <3> HIDE DEF added
    <3> QED BY <1>1, <2>2, <3>1, <3>2 DEF SyncRecord
  <2>4. Fetched' = Fetched \cup Range(page)
    <3>1. /\ Fetched' = {e[1] : e \in Range(pairs)} /\ Fetched = {e[1] : e \in Range(sync.rows)}
      <4> HIDE DEF pairs
      <4> QED BY <2>3 DEF Fetched, Range
    <3>2. Range(pairs) = Range(sync.rows) \cup Range(added)
        BY <1>3, <2>1, JoinedRange
    <3>3. \A i \in DOMAIN page : added[i][1] = page[i]
        OBVIOUS
    <3>4. {e[1] : e \in Range(added)} = Range(page)
      <4> HIDE DEF added
      <4> QED BY <2>1, <3>3 DEF Range
    <3> HIDE DEF pairs, added
    <3> QED BY <3>1, <3>2, <3>4
  <2>5. Bounded'
      BY <1>1, <1>2, <1>4, <2>3, <2>4 DEF Bounded, Running
  <2>6. Paged'
    <3> SUFFICES ASSUME NEW id \in sync.always, id <= Last(page) PROVE id \in Fetched'
        BY <2>3 DEF Paged
    <3> QED BY <1>3, <1>4, <1>5, <1>7, <2>4
  <2>7. Read' /\ SyncedIsMirror'
      BY <2>3 DEF Read, SyncedIsMirror
  <2> QED BY <1>1, <1>2, <2>3, <2>5, <2>6, <2>7 DEF SyncInv, NeverWiped
<1> QED BY <1>6, <1>7

LEMMA SyncEmbedded ==
  ASSUME SyncInv, EmbedAll
  PROVE  SyncInv' /\ NeverWiped
<1>1. /\ Stores(odoo) /\ Stores(index) /\ sync \in SyncRecord /\ index' = index /\ odoo' = odoo
      /\ Bounded /\ Read /\ sync.at = "embed"
      /\ sync' = [sync EXCEPT !.at = "upsert", !.todo = 1]
    BY DEF SyncInv, EmbedAll
<1>2. LiveIds' = LiveIds /\ Indexed' = Indexed
    BY <1>1 DEF LiveIds, Live, Indexed
<1>3. /\ sync' \in SyncRecord /\ sync'.at = "upsert" /\ sync'.todo = 1 /\ sync'.rows = sync.rows
      /\ sync'.always = sync.always /\ sync'.ever = sync.ever
    BY <1>1 DEF SyncRecord
<1>4. Fetched' = Fetched
    BY <1>3 DEF Fetched
<1>5. 1 \in 1..Len(sync.rows) /\ 1..(1 - 1) = {}
  <2>1. sync.rows \in Seq(Named) /\ sync.rows # <<>>
      BY <1>1 DEF SyncRecord, Read
  <2> QED BY <2>1
<1>6. Bounded'
    BY <1>1, <1>2, <1>3, <1>4 DEF Bounded, Running
<1>7. Read'
    BY <1>1, <1>3, <1>4, <1>5 DEF Read
<1>8. Paged' /\ SyncedIsMirror'
    BY <1>3 DEF Paged, SyncedIsMirror
<1> QED BY <1>1, <1>2, <1>3, <1>6, <1>7, <1>8 DEF SyncInv, NeverWiped

\* A row stored: the rows before it stay stored, and after the last all of them are.
LEMMA SyncStored ==
  ASSUME SyncInv, Upsert
  PROVE  SyncInv' /\ NeverWiped
<1> DEFINE n == sync.todo
           id == sync.rows[n][1]
           name == sync.rows[n][2]
<1>1. /\ Stores(odoo) /\ Stores(index) /\ sync \in SyncRecord /\ odoo' = odoo
      /\ Bounded /\ Read /\ sync.at = "upsert"
      /\ index' = [index EXCEPT ![id] = name]
      /\ sync' = [sync EXCEPT !.todo = @ + 1, !.at = IF n = Len(sync.rows) THEN "delete" ELSE @]
    BY DEF SyncInv, Upsert
<1>2. /\ n \in 1..Len(sync.rows) /\ \A i \in 1..(n - 1) : sync.rows[i][1] \in Indexed
      /\ sync.rows # <<>> /\ sync.always \subseteq Fetched
    BY <1>1 DEF Read
<1>3. sync.rows \in Seq(Named) /\ Len(sync.rows) \in Nat /\ DOMAIN sync.rows = 1..Len(sync.rows) /\ n \in Nat
  <2>1. sync.rows \in Seq(Named) /\ n \in Nat
      BY <1>1 DEF SyncRecord
  <2> QED BY <2>1
<1>4. id \in ProductIds /\ name \in Names
  <2>1. sync.rows[n] \in Named
      BY <1>2, <1>3
  <2> QED BY <2>1 DEF Named
<1>5. /\ sync' \in SyncRecord /\ sync'.todo = n + 1 /\ sync'.rows = sync.rows
      /\ sync'.at = (IF n = Len(sync.rows) THEN "delete" ELSE "upsert")
      /\ sync'.always = sync.always /\ sync'.ever = sync.ever
  <2>1. PICK at \in {"delete", "upsert"} : at = IF n = Len(sync.rows) THEN "delete" ELSE "upsert"
      OBVIOUS
  <2>2. sync' = [sync EXCEPT !.todo = n + 1, !.at = at]
      BY <1>1, <2>1
  <2>3. n + 1 \in Nat
      BY <1>3
  <2> HIDE DEF n
  <2> QED BY <1>1, <2>1, <2>2, <2>3 DEF SyncRecord
<1>6. Stores(index') /\ Indexed' = Indexed \cup {id} /\ LiveIds' = LiveIds /\ Fetched' = Fetched
  <2>1. Stores(index')
      BY <1>1, <1>4 DEF Stores
  <2>2. Indexed' = Indexed \cup {id}
      BY <1>1, <1>4, EntityIndexAssumption DEF Stores, Indexed
  <2>3. LiveIds' = LiveIds /\ Fetched' = Fetched
      BY <1>1, <1>5 DEF LiveIds, Live, Fetched
  <2> QED BY <2>1, <2>2, <2>3
<1>7. \A i \in 1..n : sync.rows[i][1] \in Indexed'
  <2>1. \A i \in 1..n : i \in 1..(n - 1) \/ i = n
      BY <1>3
  <2> QED BY <1>2, <1>6, <2>1
<1> HIDE DEF n, id, name
<1>8. Bounded'
    BY <1>1, <1>5, <1>6 DEF Bounded, Running
<1>9. Read'
  <2>1. n # Len(sync.rows) => n + 1 \in 1..Len(sync.rows)
      BY <1>2, <1>3
  <2>2. (n + 1) - 1 = n
      BY <1>3
  <2>3. n = Len(sync.rows) => Fetched' \subseteq Indexed'
      BY <1>3, <1>6, <1>7 DEF Fetched
  <2> QED BY <1>2, <1>5, <1>6, <1>7, <2>1, <2>2, <2>3 DEF Read
<1>10. Paged' /\ SyncedIsMirror'
    BY <1>5 DEF Paged, SyncedIsMirror
<1> QED BY <1>1, <1>5, <1>6, <1>8, <1>9, <1>10 DEF SyncInv, NeverWiped

LEMMA SyncSwept ==
  ASSUME SyncInv, DeleteVanished
  PROVE  SyncInv' /\ NeverWiped
<1>1. /\ Stores(odoo) /\ Stores(index) /\ sync \in SyncRecord /\ odoo' = odoo
      /\ Bounded /\ Read /\ sync.at = "delete"
      /\ index' = [id \in ProductIds |-> IF id \in Fetched THEN index[id] ELSE NoProduct]
      /\ sync' = [sync EXCEPT !.at = "ended"]
    BY DEF SyncInv, DeleteVanished
<1>2. sync.rows # <<>> /\ sync.always \subseteq Fetched /\ Fetched \subseteq Indexed /\ Fetched \subseteq sync.ever
    BY <1>1 DEF Read, Bounded, Running
<1>3. sync' \in SyncRecord /\ sync'.at = "ended" /\ sync'.always = sync.always /\ sync'.ever = sync.ever
    BY <1>1 DEF SyncRecord
<1>4. Stores(index') /\ Indexed' = Fetched
    BY <1>1, <1>2 DEF Stores, Indexed
<1>5. Fetched # {}
  <2>1. sync.rows \in Seq(Named)
      BY <1>1 DEF SyncRecord
  <2>2. 1 \in DOMAIN sync.rows
      BY <1>2, <2>1
  <2> QED BY <2>2 DEF Fetched
<1>6. Bounded' /\ Paged' /\ Read' /\ SyncedIsMirror'
    BY <1>2, <1>3, <1>4 DEF Bounded, Running, Paged, Read, SyncedIsMirror
<1> QED BY <1>1, <1>3, <1>4, <1>5, <1>6 DEF SyncInv, NeverWiped

LEMMA SyncStep == SyncInv /\ [ExNext]_exVars => SyncInv' /\ NeverWiped
<1> SUFFICES ASSUME SyncInv, [ExNext]_exVars PROVE SyncInv' /\ NeverWiped
    OBVIOUS
<1>1. ASSUME UNCHANGED <<odoo, index, sync>> PROVE SyncInv' /\ NeverWiped
    BY <1>1 DEF SyncInv, Stores, Bounded, Paged, Read, SyncedIsMirror, LiveIds, Live, Indexed,
                Fetched, NeverWiped
<1>2. ASSUME SyncDies PROVE SyncInv' /\ NeverWiped
  <2>1. Stores(odoo) /\ Stores(index) /\ sync' = NoSync /\ odoo' = odoo /\ index' = index
      BY <1>2 DEF SyncInv, SyncDies
  <2>2. NoSync \in SyncRecord /\ NoSync.at = "off"
      BY DEF NoSync, SyncRecord
  <2>3. Indexed' = Indexed
      BY <2>1 DEF Indexed
  <2> QED BY <2>1, <2>2, <2>3 DEF SyncInv, Bounded, Running, Paged, Read, SyncedIsMirror, NeverWiped
<1>3. ASSUME \/ \E query \in Names : ResolveName(query)
             \/ ResolveFails \/ KeepOrder
             \/ \E some \in SUBSET Indexed : Semantic(Reverse(Within(ById, some)))
             \/ \E up \in BOOLEAN : Verify(up)
             \/ \E score \in Rankings : Rank_names(score)
      PROVE  UNCHANGED <<odoo, index, sync>>
    BY <1>3 DEF ResolveName, ResolveFails, KeepOrder, Semantic, Verify, Rank_names
<1>4. CASE \E id \in ProductIds, name \in Names \cup {NoProduct} : Edit(id, name)
    BY <1>4, SyncEdited
<1>5. CASE UNCHANGED exVars
    BY <1>1, <1>5 DEF exVars
<1> QED
  BY <1>1, <1>2, <1>3, <1>4, <1>5, SyncStarted, SyncPaged, SyncEmbedded, SyncStored, SyncSwept
  DEF ExNext

-----------------------------------------------------------------------------
(* Which product a name means, whatever the cross-encoder thinks of it. *)

LEMMA NameInit == ExInit => NameInv
<1> SUFFICES ASSUME ExInit PROVE NameInv
    OBVIOUS
<1>1. /\ lookup = [at |-> "off", query |-> NoProduct, found |-> <<>>, extra |-> <<>>,
                   during |-> {}, needs |-> FALSE, chosen |-> 0]
    BY DEF ExInit, NoLookup
<1>2. <<>> \in Seq(Named) /\ <<>> \in Seq(ProductIds) /\ DOMAIN <<>> = {} /\ Len(<<>>) = 0
    OBVIOUS
<1>3. lookup \in LookupRecord
    BY <1>1, <1>2 DEF LookupRecord
<1> QED BY <1>1, <1>2, <1>3, EntityIndexAssumption
        DEF NameInv, Once, OffersLive, Resolving, Proposed, TwinsAreAsked

\* A list of matches, one a product: as a list of pairs it repeats nothing either.
LEMMA OnceInjective ==
  ASSUME NEW found \in Seq(Named), Once(found)
  PROVE  IsInjective(found)
BY DEF Once, IsInjective

\* Ids with the names they have in Odoo now.
LEMMA NamedNow ==
  ASSUME Stores(odoo), NEW ids \in Seq(ProductIds), IsInjective(ids), Range(ids) \subseteq LiveIds,
         NEW pairs, pairs = [i \in DOMAIN ids |-> <<ids[i], odoo[ids[i]]>>]
  PROVE  /\ pairs \in Seq(Named) /\ Len(pairs) = Len(ids) /\ Once(pairs)
         /\ \A i \in DOMAIN pairs : pairs[i][1] \in Range(ids)
         /\ Range(pairs) \subseteq {<<id, odoo[id]>> : id \in LiveIds}
<1>1. DOMAIN ids = 1..Len(ids) /\ Len(ids) \in Nat /\ \A i \in DOMAIN ids : ids[i] \in LiveIds
    BY DEF Range
<1>2. \A i \in DOMAIN ids : <<ids[i], odoo[ids[i]]>> \in Named
    BY <1>1 DEF LiveIds, Live, Stores, Named
<1>3. pairs \in Seq(Named) /\ Len(pairs) = Len(ids) /\ DOMAIN pairs = DOMAIN ids
    BY <1>1, <1>2
<1>4. \A i \in DOMAIN ids : pairs[i] = <<ids[i], odoo[ids[i]]>> /\ pairs[i][1] = ids[i]
    OBVIOUS
<1>5. Once(pairs)
    BY <1>3, <1>4 DEF Once, IsInjective
<1>6. \A i \in DOMAIN pairs : pairs[i][1] \in Range(ids)
    BY <1>3, <1>4 DEF Range
<1>7. Range(pairs) \subseteq {<<id, odoo[id]>> : id \in LiveIds}
    BY <1>1, <1>3, <1>4 DEF Range
<1> QED BY <1>3, <1>5, <1>6, <1>7

LEMMA NameEdited ==
  ASSUME Stores(odoo), NameInv, NEW id \in ProductIds, NEW name \in Names \cup {NoProduct}, Edit(id, name)
  PROVE  NameInv'
<1>1. /\ lookup \in LookupRecord /\ Once(lookup.found) /\ Len(lookup.found) <= MAX_CANDIDATES
      /\ OffersLive /\ Resolving /\ Proposed /\ TwinsAreAsked
      /\ odoo' = [odoo EXCEPT ![id] = name]
      /\ lookup' = IF name = NoProduct THEN lookup
                   ELSE [lookup EXCEPT !.during = @ \cup {<<id, name>>}]
    BY DEF NameInv, Edit
<1>2. name # NoProduct => <<id, name>> \in Named
    BY DEF Named
<1>3. /\ lookup' \in LookupRecord /\ lookup'.at = lookup.at /\ lookup'.query = lookup.query
      /\ lookup'.found = lookup.found /\ lookup'.extra = lookup.extra
      /\ lookup'.needs = lookup.needs /\ lookup'.chosen = lookup.chosen
      /\ lookup'.during = IF name = NoProduct THEN lookup.during
                          ELSE lookup.during \cup {<<id, name>>}
    BY <1>1, <1>2 DEF LookupRecord
<1>4. {<<p, odoo'[p]>> : p \in LiveIds'} \subseteq
        {<<p, odoo[p]>> : p \in LiveIds} \cup (IF name = NoProduct THEN {} ELSE {<<id, name>>})
  <2> SUFFICES ASSUME NEW p \in ProductIds, odoo'[p] # NoProduct
               PROVE  <<p, odoo'[p]>> \in
                        {<<q, odoo[q]>> : q \in LiveIds}
                          \cup (IF name = NoProduct THEN {} ELSE {<<id, name>>})
      BY DEF LiveIds, Live
  <2>1. CASE p = id
      BY <1>1, <2>1 DEF Stores
  <2>2. CASE p # id
      BY <1>1, <2>2 DEF Stores, LiveIds, Live
  <2> QED BY <2>1, <2>2
<1>5. OffersLive' /\ Resolving'
    BY <1>1, <1>3, <1>4 DEF OffersLive, Resolving
<1>6. Proposed'
    BY <1>1, <1>3 DEF Proposed
<1>7. TwinsAreAsked'
  <2>1. ExactIds' = ExactIds
      BY <1>3 DEF ExactIds
  <2> QED BY <1>1, <1>3, <2>1 DEF TwinsAreAsked
<1> QED BY <1>1, <1>3, <1>5, <1>6, <1>7 DEF NameInv

LEMMA NameAsked ==
  ASSUME Stores(odoo), NameInv, NEW query \in Names, ResolveName(query)
  PROVE  NameInv'
<1> DEFINE current == {<<id, odoo[id]>> : id \in LiveIds}
           hit == {id \in LiveIds : odoo[id] = query}
           hits == Within(ById, hit)
           others == Within(ById, LiveIds \ hit)
<1>1. /\ hits \in Seq(ProductIds) /\ IsInjective(hits) /\ Range(hits) = hit
      /\ others \in Seq(ProductIds) /\ IsInjective(others) /\ Range(others) = LiveIds \ hit
  <2>1. /\ hits \in Seq(ProductIds) /\ IsInjective(hits) /\ Range(hits) = Range(ById) \cap hit
        /\ others \in Seq(ProductIds) /\ IsInjective(others)
        /\ Range(others) = Range(ById) \cap (LiveIds \ hit)
      BY ByIdLists, WithinKeeps
  <2> QED BY <2>1, ByIdLists DEF LiveIds
<1>2. others \o hits \in Seq(ProductIds) /\ IsInjective(others \o hits) /\ Range(others \o hits) = LiveIds
  <2> HIDE DEF hits, others
  <2>1. Range(others) \cap Range(hits) = {} /\ hit \subseteq LiveIds
      BY <1>1
  <2>2. /\ others \o hits \in Seq(ProductIds) /\ IsInjective(others \o hits)
        /\ Range(others \o hits) = Range(others) \cup Range(hits)
    <3> HIDE DEF hit
    <3> QED BY <1>1, <2>1, Joined
  <2> HIDE DEF hit
  <2> QED BY <1>1, <2>1, <2>2
<1>3. PICK ids : /\ ids \in {First(Limit, hits), First(Limit, others \o hits)}
                 /\ lookup' = [NoLookup EXCEPT
                                 !.query = query, !.at = "semantic",
                                 !.found = [i \in DOMAIN ids |-> <<ids[i], odoo[ids[i]]>>],
                                 !.during = current]
  <2>1. {id \in LiveIds : odoo[id] # query} = LiveIds \ hit
      OBVIOUS
  <2> QED BY <2>1 DEF ResolveName
<1>4. /\ ids \in Seq(ProductIds) /\ IsInjective(ids) /\ Range(ids) \subseteq LiveIds
      /\ Len(ids) <= MAX_CANDIDATES
  <2>1. Limit \in Nat /\ Limit <= MAX_CANDIDATES /\ MAX_CANDIDATES \in Nat
      BY EntityIndexAssumption
  <2>2. hit \subseteq LiveIds
      OBVIOUS
  <2> HIDE DEF hits, others, hit
  <2>3. ASSUME NEW s \in Seq(ProductIds), IsInjective(s), Range(s) \subseteq LiveIds, ids = First(Limit, s)
        PROVE  /\ ids \in Seq(ProductIds) /\ IsInjective(ids) /\ Range(ids) \subseteq LiveIds
               /\ Len(ids) <= MAX_CANDIDATES
    <3>1. /\ ids \in Seq(ProductIds) /\ IsInjective(ids) /\ Range(ids) \subseteq Range(s)
          /\ Len(ids) = (IF Len(s) < Limit THEN Len(s) ELSE Limit)
        BY <2>1, <2>3, FirstKeeps
    <3>2. Len(s) \in Nat
        OBVIOUS
    <3> QED BY <2>1, <2>3, <3>1, <3>2
  <2> QED BY <1>1, <1>2, <1>3, <2>2, <2>3
<1> DEFINE pairs == [i \in DOMAIN ids |-> <<ids[i], odoo[ids[i]]>>]
<1>5. /\ pairs \in Seq(Named) /\ Len(pairs) = Len(ids) /\ Once(pairs) /\ Range(pairs) \subseteq current
    BY <1>4, NamedNow
<1>6. current \subseteq Named
    BY DEF Stores, LiveIds, Live, Named
<1> HIDE DEF pairs, current
<1>7. lookup' = [at |-> "semantic", query |-> query, found |-> pairs, extra |-> <<>>,
                 during |-> current, needs |-> FALSE, chosen |-> 0]
    BY <1>3 DEF NoLookup, pairs
<1>8. lookup' \in LookupRecord
  <2> <<>> \in Seq(ProductIds)
      OBVIOUS
  <2> QED BY <1>5, <1>6, <1>7 DEF LookupRecord
<1>9. OffersLive'
    BY <1>5, <1>7 DEF OffersLive, Range
<1>10. Resolving'
  <2>1. odoo' = odoo /\ LiveIds' = LiveIds
      BY DEF ResolveName, LiveIds, Live
  <2> QED BY <1>7, <2>1 DEF Resolving, current
<1>11. Proposed' /\ TwinsAreAsked'
    BY <1>7 DEF Proposed, TwinsAreAsked
<1> QED BY <1>4, <1>5, <1>7, <1>8, <1>9, <1>10, <1>11 DEF NameInv

LEMMA NameFailed ==
  ASSUME NameInv, ResolveFails
  PROVE  NameInv'
<1>1. lookup' = [at |-> "error", query |-> NoProduct, found |-> <<>>, extra |-> <<>>,
                 during |-> {}, needs |-> FALSE, chosen |-> 0]
    BY DEF ResolveFails, NoLookup
<1>2. <<>> \in Seq(Named) /\ <<>> \in Seq(ProductIds) /\ DOMAIN <<>> = {} /\ Len(<<>>) = 0
    OBVIOUS
<1>3. lookup' \in LookupRecord
    BY <1>1, <1>2 DEF LookupRecord
<1> QED BY <1>1, <1>2, <1>3, EntityIndexAssumption
        DEF NameInv, Once, OffersLive, Resolving, Proposed, TwinsAreAsked

LEMMA ReversedOnce ==
  ASSUME NEW X, NEW s \in Seq(X), IsInjective(s)
  PROVE  Reverse(s) \in Seq(X) /\ IsInjective(Reverse(s))
<1> DEFINE n == Len(s)
           r == Reverse(s)
<1>1. n \in Nat /\ DOMAIN s = 1..n /\ r = [i \in 1..n |-> s[(n - i) + 1]]
    BY DEF Reverse
<1>2. \A i \in 1..n : (n - i) + 1 \in 1..n
    BY <1>1
<1>3. r \in Seq(X) /\ DOMAIN r = 1..n /\ \A i \in 1..n : r[i] = s[(n - i) + 1]
    BY <1>1, <1>2
<1> HIDE DEF r, n
<1>4. ASSUME NEW i \in 1..n, NEW j \in 1..n, r[i] = r[j] PROVE i = j
  <2>1. (n - i) + 1 = (n - j) + 1
      BY <1>1, <1>2, <1>3, <1>4 DEF IsInjective
  <2> QED BY <1>1, <2>1
<1> QED BY <1>3, <1>4 DEF IsInjective, r

\* The mirror's matches fill the list up, and repeat nothing of it.
LEMMA NameProposed ==
  ASSUME NameInv, NEW some \in SUBSET Indexed, Semantic(Reverse(Within(ById, some)))
  PROVE  NameInv'
<1> DEFINE ranked == Reverse(Within(ById, some))
           found == lookup.found
           ids == {found[i][1] : i \in DOMAIN found}
           missing == Within(ranked, ProductIds \ ids)
           extra == Extra(ranked, found)
           room == MAX_CANDIDATES - Len(found)
<1>1. /\ lookup \in LookupRecord /\ Once(found) /\ Len(found) <= MAX_CANDIDATES
      /\ OffersLive /\ Resolving /\ lookup.at = "semantic" /\ odoo' = odoo
      /\ lookup' = [lookup EXCEPT !.at = IF extra = <<>> THEN "score" ELSE "verify", !.extra = extra]
    BY DEF NameInv, Semantic
<1>2. found \in Seq(Named) /\ Len(found) \in Nat /\ MAX_CANDIDATES \in Nat
  <2>1. found \in Seq(Named)
      BY <1>1 DEF LookupRecord
  <2> QED BY <2>1, EntityIndexAssumption
<1>3. ranked \in Seq(ProductIds) /\ IsInjective(ranked)
  <2>1. Within(ById, some) \in Seq(ProductIds) /\ IsInjective(Within(ById, some))
      BY ByIdLists, WithinKeeps
  <2> QED BY <2>1, ReversedOnce
<1> HIDE DEF ranked
<1>4. missing \in Seq(ProductIds) /\ IsInjective(missing) /\ Range(missing) \cap ids = {}
  <2> HIDE DEF missing, ids
  <2>1. /\ missing \in Seq(ProductIds) /\ IsInjective(missing)
        /\ Range(missing) = Range(ranked) \cap (ProductIds \ ids)
      BY <1>3, WithinKeeps DEF missing
  <2> QED BY <2>1
<1>5. /\ extra \in Seq(ProductIds) /\ IsInjective(extra) /\ Range(extra) \subseteq Range(missing)
      /\ Len(found) + Len(extra) <= MAX_CANDIDATES
  <2>1. extra = First(room, missing) /\ room \in Nat /\ Len(found) + room = MAX_CANDIDATES
      BY <1>1, <1>2 DEF Extra, Missing
  <2> HIDE DEF missing, ids, room, extra
  <2>2. /\ extra \in Seq(ProductIds) /\ IsInjective(extra) /\ Range(extra) \subseteq Range(missing)
        /\ Len(extra) = (IF Len(missing) < room THEN Len(missing) ELSE room)
      BY <1>4, <2>1, FirstKeeps
  <2>3. Len(missing) \in Nat
      BY <1>4
  <2>4. Len(extra) <= room /\ Len(extra) \in Nat
      BY <2>1, <2>2, <2>3
  <2> HIDE DEF found
  <2>5. Len(found) + Len(extra) <= MAX_CANDIDATES
      BY <1>2, <2>1, <2>4
  <2> QED BY <2>2, <2>5
<1>6. \A i \in DOMAIN found : found[i][1] \notin Range(extra)
    BY <1>4, <1>5
<1> HIDE DEF extra, missing, ids, room
<1>7. /\ lookup' \in LookupRecord /\ lookup'.at \in {"score", "verify"} /\ lookup'.query = lookup.query
      /\ lookup'.found = found /\ lookup'.extra = extra /\ lookup'.during = lookup.during
  <2>1. PICK at \in {"score", "verify"} : at = IF extra = <<>> THEN "score" ELSE "verify"
      OBVIOUS
  <2>2. lookup' = [lookup EXCEPT !.at = at, !.extra = extra]
      BY <1>1, <2>1
  <2> QED BY <1>1, <1>5, <2>1, <2>2 DEF LookupRecord
<1>8. OffersLive' /\ Resolving'
  <2>1. LiveIds' = LiveIds
      BY <1>1 DEF LiveIds, Live
  <2> QED BY <1>1, <1>7, <2>1 DEF OffersLive, Resolving
<1>9. Proposed' /\ TwinsAreAsked'
    BY <1>5, <1>6, <1>7 DEF Proposed, TwinsAreAsked
<1> QED BY <1>1, <1>7, <1>8, <1>9 DEF NameInv

LEMMA OnceJoined ==
  ASSUME NEW s \in Seq(Named), NEW t \in Seq(Named), Once(s), Once(t),
         \A i \in DOMAIN s, j \in DOMAIN t : s[i][1] # t[j][1]
  PROVE  Once(s \o t)
<1> DEFINE u == s \o t
           m == Len(s)
           n == Len(t)
<1>1. /\ m \in Nat /\ n \in Nat /\ DOMAIN u = 1..(m + n) /\ DOMAIN s = 1..m /\ DOMAIN t = 1..n
      /\ \A i \in 1..(m + n) : u[i] = IF i <= m THEN s[i] ELSE t[i - m]
    OBVIOUS
<1> HIDE DEF u, m, n
<1> SUFFICES ASSUME NEW i \in 1..(m + n), NEW j \in 1..(m + n), u[i][1] = u[j][1]
             PROVE  i = j
    BY <1>1 DEF Once, u
<1>2. ASSUME NEW k \in 1..(m + n)
      PROVE  \/ k \in DOMAIN s /\ u[k] = s[k]
             \/ k - m \in DOMAIN t /\ u[k] = t[k - m]
    BY <1>1, <1>2
<1>3. CASE i \in DOMAIN s /\ u[i] = s[i]
  <2>1. CASE j \in DOMAIN s /\ u[j] = s[j]
      BY <1>3, <2>1 DEF Once
  <2>2. CASE j - m \in DOMAIN t /\ u[j] = t[j - m]
      BY <1>3, <2>2
  <2> QED BY <1>2, <2>1, <2>2
<1>4. CASE i - m \in DOMAIN t /\ u[i] = t[i - m]
  <2>1. CASE j \in DOMAIN s /\ u[j] = s[j]
      BY <1>4, <2>1
  <2>2. CASE j - m \in DOMAIN t /\ u[j] = t[j - m]
    <3>1. i - m = j - m
        BY <1>4, <2>2 DEF Once
    <3> QED BY <1>1, <3>1
  <2> QED BY <1>2, <2>1, <2>2
<1> QED BY <1>2, <1>3, <1>4

\* Read again in Odoo, a proposal is one of the live products, under its name of today.
LEMMA NameVerified ==
  ASSUME Stores(odoo), NameInv, NEW up \in BOOLEAN, Verify(up)
  PROVE  NameInv'
<1> DEFINE found == lookup.found
           extra == lookup.extra
           kept == Within(extra, LiveIds)
           pairs == Verified(extra)
           more == IF up THEN found \o pairs ELSE found
<1>1. /\ lookup \in LookupRecord /\ Once(found) /\ Len(found) <= MAX_CANDIDATES
      /\ OffersLive /\ Resolving /\ Proposed /\ lookup.at = "verify" /\ odoo' = odoo
      /\ lookup' = [lookup EXCEPT !.at = "score", !.extra = <<>>, !.found = more]
    BY DEF NameInv, Verify
<1>2. /\ found \in Seq(Named) /\ extra \in Seq(ProductIds) /\ IsInjective(extra)
      /\ Len(found) + Len(extra) <= MAX_CANDIDATES
      /\ \A i \in DOMAIN found : found[i][1] \notin Range(extra)
      /\ {<<id, odoo[id]>> : id \in LiveIds} \subseteq lookup.during
    BY <1>1 DEF LookupRecord, Proposed, Resolving
<1> HIDE DEF found, extra
<1>3. kept \in Seq(ProductIds) /\ IsInjective(kept) /\ Range(kept) = Range(extra) \cap LiveIds
    BY <1>2, WithinKeeps
<1>4. Len(kept) <= Len(extra) /\ Len(kept) \in Nat /\ Len(extra) \in Nat /\ Len(found) \in Nat
  <2>1. IsFiniteSet(Range(extra)) /\ Cardinality(Range(extra)) = Len(extra)
      BY <1>2, Listed
  <2>2. Cardinality(Range(kept)) = Len(kept)
      BY <1>3, Listed
  <2>3. Range(kept) \subseteq Range(extra)
      BY <1>3
  <2>4. Cardinality(Range(kept)) <= Cardinality(Range(extra))
      BY <2>1, <2>3, FS_Subset
  <2>5. Len(kept) \in Nat /\ Len(extra) \in Nat /\ Len(found) \in Nat
      BY <1>2, <1>3
  <2> QED BY <2>1, <2>2, <2>4, <2>5
<1>5. /\ pairs \in Seq(Named) /\ Len(pairs) = Len(kept) /\ Once(pairs)
      /\ \A i \in DOMAIN pairs : pairs[i][1] \in Range(kept)
      /\ Range(pairs) \subseteq {<<id, odoo[id]>> : id \in LiveIds}
  <2>1. pairs = [i \in DOMAIN kept |-> <<kept[i], odoo[kept[i]]>>]
      BY DEF Verified
  <2>2. Range(kept) \subseteq LiveIds
      BY <1>3
  <2> HIDE DEF kept, pairs
  <2> QED BY <1>3, <2>1, <2>2, NamedNow
<1> HIDE DEF pairs, kept
<1>6. /\ more \in Seq(Named) /\ Once(more) /\ Len(more) <= MAX_CANDIDATES
      /\ Range(more) \subseteq lookup.during
  <2>0. Range(found) \subseteq lookup.during
      BY <1>1 DEF OffersLive, Range, found
  <2>1. CASE up
    <3>1. more = found \o pairs
        BY <2>1
    <3> HIDE DEF more
    <3>5. Len(more) = Len(found) + Len(pairs)
      <4>1. found \in Seq(Named) /\ pairs \in Seq(Named)
          BY <1>2, <1>5
      <4> QED BY <3>1, <4>1
    <3>2. \A i \in DOMAIN found, j \in DOMAIN pairs : found[i][1] # pairs[j][1]
        BY <1>2, <1>3, <1>5
    <3>3. Once(more)
        BY <1>1, <1>2, <1>5, <3>1, <3>2, OnceJoined DEF found
    <3>4. more \in Seq(Named) /\ Range(more) = Range(found) \cup Range(pairs)
        BY <1>2, <1>5, <3>1, JoinedRange
    <3>6. MAX_CANDIDATES \in Nat
        BY EntityIndexAssumption
    <3>7. Len(more) <= MAX_CANDIDATES
        BY <1>2, <1>4, <1>5, <3>5, <3>6
    <3> QED BY <1>2, <1>5, <2>0, <3>3, <3>4, <3>7
  <2>2. CASE ~up
    <3>1. more = found
        BY <2>2
    <3> QED BY <1>1, <1>2, <2>0, <3>1 DEF found
  <2> QED BY <2>1, <2>2
<1> HIDE DEF more
<1>7. /\ lookup' \in LookupRecord /\ lookup'.at = "score" /\ lookup'.query = lookup.query
      /\ lookup'.found = more /\ lookup'.during = lookup.during
  <2> <<>> \in Seq(ProductIds)
      OBVIOUS
  <2> QED BY <1>1, <1>6 DEF LookupRecord
<1>8. OffersLive' /\ Resolving'
  <2>1. LiveIds' = LiveIds
      BY <1>1 DEF LiveIds, Live
  <2> QED BY <1>1, <1>6, <1>7, <2>1 DEF OffersLive, Resolving, Range
<1>9. Proposed' /\ TwinsAreAsked'
    BY <1>7 DEF Proposed, TwinsAreAsked
<1> QED BY <1>6, <1>7, <1>8, <1>9 DEF NameInv

\* The matches of exactly this name, as many as there are ids of them.
IdsOf(found, query) == {found[i][1] : i \in {k \in DOMAIN found : found[k][2] = query}}

ExactOnes(exact, found, query) ==
  /\ exact \in Seq(Named) /\ IsInjective(exact) /\ Cardinality(IdsOf(found, query)) = Len(exact)
  /\ \A i \in DOMAIN exact :
       /\ exact[i][1] \in IdsOf(found, query)
       /\ \E k \in DOMAIN found : exact[i] = found[k] /\ found[k][2] = query

LEMMA ExactCounted ==
  ASSUME NEW found \in Seq(Named), Once(found), NEW query
  PROVE  ExactOnes(Exact(found, query), found, query)
<1> DEFINE exact == Exact(found, query)
           ids == IdsOf(found, query)
           F == [i \in DOMAIN exact |-> exact[i][1]]
<1> HIDE DEF exact, ids
<1>1. /\ exact \in Seq(Named) /\ IsInjective(exact)
      /\ Range(exact) = Range(found) \cap (ProductIds \X {query})
  <2>1. IsInjective(found)
      BY OnceInjective
  <2> QED BY <2>1, WithinKeeps DEF Exact, exact
<1>2. DOMAIN exact = 1..Len(exact) /\ Len(exact) \in Nat
      /\ DOMAIN found = 1..Len(found) /\ \A k \in DOMAIN found : found[k] \in Named
    BY <1>1
<1>3. ASSUME NEW i \in DOMAIN exact
      PROVE  \E k \in DOMAIN found : exact[i] = found[k] /\ found[k][2] = query
  <2>1. exact[i] \in Range(found) /\ exact[i] \in ProductIds \X {query}
      BY <1>1 DEF Range
  <2>2. PICK k \in DOMAIN found : exact[i] = found[k]
      BY <2>1 DEF Range
  <2>3. found[k][2] = query
      BY <2>1, <2>2
  <2> QED BY <2>2, <2>3
<1>4. \A i \in DOMAIN exact : exact[i][1] \in ids
    BY <1>3 DEF IdsOf, ids
<1>5. F \in Seq(ids) /\ Len(F) = Len(exact) /\ DOMAIN F = DOMAIN exact
    BY <1>2, <1>4
<1>6. IsInjective(F)
  <2> SUFFICES ASSUME NEW i \in DOMAIN exact, NEW j \in DOMAIN exact, exact[i][1] = exact[j][1]
               PROVE  i = j
      BY DEF IsInjective
  <2>1. PICK k \in DOMAIN found : exact[i] = found[k]
      BY <1>3
  <2>2. PICK l \in DOMAIN found : exact[j] = found[l]
      BY <1>3
  <2>3. k = l
      BY <2>1, <2>2 DEF Once
  <2> QED BY <1>1, <2>1, <2>2, <2>3 DEF IsInjective
<1>7. Range(F) = ids
  <2>1. Range(F) \subseteq ids
      BY <1>4 DEF Range
  <2>2. ASSUME NEW k \in DOMAIN found, found[k][2] = query PROVE found[k][1] \in Range(F)
    <3>1. found[k] \in Range(found) /\ found[k] \in ProductIds \X {query}
      <4>1. found[k] \in ProductIds \X Names
          BY <1>2 DEF Named
      <4> QED BY <2>2, <4>1 DEF Range
    <3>2. PICK i \in DOMAIN exact : exact[i] = found[k]
        BY <1>1, <3>1 DEF Range
    <3> QED BY <3>2 DEF Range
  <2>3. ids \subseteq Range(F)
      BY <2>2 DEF IdsOf, ids
  <2> QED BY <2>1, <2>3
<1> HIDE DEF F, ids, exact
<1>8. Cardinality(ids) = Len(exact)
    BY <1>5, <1>6, <1>7, Listed
<1> QED BY <1>1, <1>3, <1>4, <1>8 DEF ExactOnes, exact, ids

\* Scored, the same matches in another order, no better one after a worse one.
LEMMA ScoredAgain ==
  ASSUME NEW found \in Seq(Named), Once(found), NEW score \in Rankings,
         NEW again, again = Scored_by(found, score)
  PROVE  /\ again \in Seq(Named) /\ Once(again) /\ Len(again) = Len(found) /\ Range(again) \subseteq Range(found)
         /\ \A i \in DOMAIN again : score[again[i][2]] \in Nat
         /\ \A i, j \in DOMAIN again : i < j => score[again[i][2]] >= score[again[j][2]]
<1> DEFINE n == Len(found)
           R == Better(found, score)
           o == ByOrder(n, R)
           says(i) == score[found[i][2]]
<1>1. n \in Nat /\ DOMAIN found = 1..n /\ \A i \in 1..n : found[i] \in Named
    OBVIOUS
<1>2. \A i \in 1..n : says(i) \in Nat
    BY <1>1, EntityIndexAssumption DEF Named
<1>3. \A i, j \in 1..n : <<i, j>> \in R <=> says(i) > says(j) \/ (says(i) = says(j) /\ i < j)
    BY <1>1 DEF Better
<1> HIDE DEF R, n, says
<1>4. Orders(R, n)
  <2>1. \A i \in 1..n : <<i, i>> \notin R
      BY <1>2, <1>3
  <2>2. ASSUME NEW i \in 1..n, NEW j \in 1..n
        PROVE  i = j \/ <<i, j>> \in R \/ <<j, i>> \in R
    <3>1. says(i) > says(j) \/ says(j) > says(i) \/ says(i) = says(j)
        BY <1>2
    <3>2. i = j \/ i < j \/ j < i
        BY <1>1
    <3> QED BY <1>3, <3>1, <3>2
  <2>3. ASSUME NEW i \in 1..n, NEW j \in 1..n, NEW k \in 1..n, <<i, j>> \in R, <<j, k>> \in R
        PROVE  <<i, k>> \in R
    <3>1. /\ says(i) > says(j) \/ (says(i) = says(j) /\ i < j)
          /\ says(j) > says(k) \/ (says(j) = says(k) /\ j < k)
        BY <1>3, <2>3
    <3>2. says(i) \in Nat /\ says(j) \in Nat /\ says(k) \in Nat
        BY <1>2
    <3>3. says(i) > says(k) \/ (says(i) = says(k) /\ i < k)
        BY <1>1, <3>1, <3>2
    <3> QED BY <1>3, <3>3
  <2> QED BY <2>1, <2>2, <2>3 DEF Orders
<1>5. /\ o \in [1..n -> 1..n] /\ o \in Bijection(1..n, 1..n)
      /\ \A p, q \in 1..n : p < q => <<o[p], o[q]>> \in R
  <2> HIDE DEF o
  <2> QED BY <1>1, <1>4, SortedOnce DEF o
<1>6. again = [p \in 1..n |-> found[o[p]]]
    BY <1>1 DEF Scored_by, R, n
<1> HIDE DEF o
<1>7. \A p \in 1..n : again[p] = found[o[p]] /\ o[p] \in 1..n
    BY <1>5, <1>6
<1>8. again \in Seq(Named) /\ Len(again) = n /\ DOMAIN again = 1..n
    BY <1>1, <1>6, <1>7
<1>9. Once(again)
  <2> SUFFICES ASSUME NEW p \in 1..n, NEW q \in 1..n, again[p][1] = again[q][1]
               PROVE  p = q
      BY <1>8 DEF Once
  <2>1. o[p] = o[q]
      BY <1>1, <1>7 DEF Once
  <2> QED BY <1>5, <2>1 DEF Bijection, Injection, IsInjective
<1>10. Range(again) \subseteq Range(found)
    BY <1>1, <1>7, <1>8 DEF Range
<1>11. \A p \in 1..n : score[again[p][2]] = says(o[p]) /\ says(o[p]) \in Nat
    BY <1>2, <1>7 DEF says
<1>12. ASSUME NEW p \in 1..n, NEW q \in 1..n, p < q
       PROVE  score[again[p][2]] >= score[again[q][2]]
  <2>1. says(o[p]) > says(o[q]) \/ says(o[p]) = says(o[q])
      BY <1>3, <1>5, <1>7, <1>12
  <2> QED BY <1>11, <2>1
<1> QED BY <1>8, <1>9, <1>10, <1>11, <1>12 DEF n

\* The answer: no product, or the exact one, or the best.
LEMMA NameAnswered ==
  ASSUME NameInv, lookup.at = "score", NEW found \in Seq(Named), Once(found),
         Len(found) = Len(lookup.found), Range(found) \subseteq lookup.during,
         NEW needs \in BOOLEAN, Answer_with(found, needs),
         ~needs /\ found # <<>> /\ Cardinality(IdsOf(found, lookup.query)) > 1 =>
           found[1][2] # lookup.query
  PROVE  NameInv'
<1> DEFINE ids == IdsOf(found, lookup.query)
           exact == Exact(found, lookup.query)
           chosen == IF needs \/ found = <<>> THEN 0 ELSE Chosen(found, lookup.query)
<1>1. /\ lookup \in LookupRecord /\ Len(lookup.found) <= MAX_CANDIDATES
      /\ lookup' = [lookup EXCEPT !.at = "answered", !.found = found, !.needs = needs, !.chosen = chosen]
    BY DEF NameInv, Answer_with
<1>2. /\ exact \in Seq(Named) /\ Cardinality(ids) = Len(exact)
      /\ \A i \in DOMAIN exact : exact[i][1] \in ids
    BY ExactCounted DEF ExactOnes
<1> HIDE DEF exact, ids
<1>3. chosen \in ProductIds \cup {0} /\ (chosen # 0 => ~needs /\ found # <<>>)
      /\ (chosen # 0 /\ Cardinality(ids) = 1 => chosen \in ids)
  <2>1. CASE needs \/ found = <<>>
      BY <2>1
  <2>2. CASE ~needs /\ found # <<>> /\ exact # <<>>
    <3>1. 1 \in DOMAIN exact /\ exact[1] \in Named
        BY <1>2, <2>2
    <3>2. chosen = exact[1][1]
        BY <2>2 DEF Chosen, exact
    <3> QED BY <1>2, <2>2, <3>1, <3>2 DEF Named
  <2>3. CASE ~needs /\ found # <<>> /\ exact = <<>>
    <3>1. chosen = found[1][1] /\ found[1] \in Named
        BY <2>3 DEF Chosen, exact
    <3>2. Cardinality(ids) = 0
        BY <1>2, <2>3
    <3> QED BY <2>3, <3>1, <3>2 DEF Named
  <2> QED BY <2>1, <2>2, <2>3
<1> HIDE DEF chosen
<1>4. /\ lookup' \in LookupRecord /\ lookup'.at = "answered" /\ lookup'.query = lookup.query
      /\ lookup'.found = found /\ lookup'.chosen = chosen /\ lookup'.during = lookup.during
    BY <1>1, <1>3 DEF LookupRecord
<1>5. OffersLive' /\ Resolving' /\ Proposed'
    BY <1>4 DEF OffersLive, Resolving, Proposed, Range
<1>6. TwinsAreAsked'
  <2>1. ExactIds' = ids
      BY <1>4 DEF ExactIds, IdsOf, ids
  <2> QED BY <1>3, <1>4, <2>1 DEF TwinsAreAsked, ids
<1>7. Len(found) <= MAX_CANDIDATES
    BY <1>1
<1> QED BY <1>4, <1>5, <1>6, <1>7 DEF NameInv

LEMMA NameRanked ==
  ASSUME NameInv, NEW score \in Rankings, Rank_names(score)
  PROVE  NameInv'
<1> DEFINE again == Scored_by(lookup.found, score)
           query == lookup.query
           needs == Needs(again, score, query)
           ids == IdsOf(again, query)
           exact == Exact(again, query)
<1>1. /\ lookup \in LookupRecord /\ Once(lookup.found) /\ OffersLive
      /\ lookup.at = "score" /\ lookup.found # <<>> /\ Answer_with(again, needs)
    BY DEF NameInv, Rank_names
<1>2. lookup.found \in Seq(Named)
    BY <1>1 DEF LookupRecord
<1>3. /\ again \in Seq(Named) /\ Once(again) /\ Len(again) = Len(lookup.found)
      /\ Range(again) \subseteq Range(lookup.found)
      /\ \A i \in DOMAIN again : score[again[i][2]] \in Nat
      /\ \A i, j \in DOMAIN again : i < j => score[again[i][2]] >= score[again[j][2]]
  <2> HIDE DEF again
  <2> QED BY <1>1, <1>2, ScoredAgain DEF again
<1> HIDE DEF again
<1>4. Range(again) \subseteq lookup.during
    BY <1>1, <1>3 DEF OffersLive, Range
<1>5. /\ exact \in Seq(Named) /\ IsInjective(exact) /\ Cardinality(ids) = Len(exact)
      /\ \A i \in DOMAIN exact :
           \E k \in DOMAIN again : exact[i] = again[k] /\ again[k][2] = query
    BY <1>3, ExactCounted DEF ExactOnes
<1>6. ASSUME ~needs, again # <<>>, Cardinality(ids) > 1, again[1][2] = query PROVE FALSE
  <2>1. DOMAIN again = 1..Len(again) /\ Len(again) \in Nat /\ 1 \in DOMAIN again
      BY <1>3, <1>6
  <2>2. PICK k \in DOMAIN again : again[k][2] = query /\ k # 1
    <3>1. {1, 2} \subseteq DOMAIN exact /\ exact[1] # exact[2]
      <4>1. Len(exact) \in Nat /\ DOMAIN exact = 1..Len(exact)
          BY <1>5
      <4>2. {1, 2} \subseteq DOMAIN exact
          BY <1>5, <1>6, <4>1
      <4> QED BY <1>5, <4>2 DEF IsInjective
    <3>2. PICK i \in DOMAIN again : exact[1] = again[i] /\ again[i][2] = query
        BY <1>5, <3>1
    <3>3. PICK j \in DOMAIN again : exact[2] = again[j] /\ again[j][2] = query
        BY <1>5, <3>1
    <3>4. i # 1 \/ j # 1
        BY <3>1, <3>2, <3>3
    <3> QED BY <3>2, <3>3, <3>4
  <2>3. 2 \in DOMAIN again /\ Len(again) # 1 /\ (k = 2 \/ 2 < k)
      BY <2>1, <2>2
  <2>4. score[again[1][2]] - score[again[2][2]] >= Gap
      BY <1>5, <1>6, <2>3 DEF Needs
  <2>5. score[again[2][2]] >= score[again[1][2]]
    <3>1. score[again[2][2]] >= score[again[k][2]]
        BY <1>3, <2>2, <2>3
    <3> QED BY <1>6, <2>2, <3>1
  <2>6. score[again[1][2]] \in Nat /\ score[again[2][2]] \in Nat /\ Gap \in Nat \ {0}
      BY <1>3, <2>1, <2>3, EntityIndexAssumption
  <2> QED BY <2>4, <2>5, <2>6
<1>7. needs \in BOOLEAN
    BY DEF Needs
<1> HIDE DEF needs, ids
<1>8. ~needs /\ again # <<>> /\ Cardinality(ids) > 1 => again[1][2] # query
    BY <1>6
<1> QED BY <1>1, <1>3, <1>4, <1>7, <1>8, NameAnswered DEF ids

LEMMA NameKept ==
  ASSUME NameInv, KeepOrder
  PROVE  NameInv'
<1> DEFINE found == lookup.found
           query == lookup.query
           exact == Exact(found, query)
           needs == Len(found) > 1 /\ Len(exact) # 1
           ids == IdsOf(found, query)
<1>1. /\ lookup \in LookupRecord /\ Once(found) /\ OffersLive
      /\ lookup.at = "score" /\ Answer_with(found, needs)
    BY DEF NameInv, KeepOrder
<1>2. found \in Seq(Named) /\ Range(found) \subseteq lookup.during
    BY <1>1 DEF LookupRecord, OffersLive, Range
<1>3. exact \in Seq(Named) /\ IsInjective(exact) /\ Cardinality(ids) = Len(exact)
      /\ \A i \in DOMAIN exact :
           \E k \in DOMAIN found : exact[i] = found[k] /\ found[k][2] = query
    BY <1>1, <1>2, ExactCounted DEF ExactOnes
<1>4. ASSUME ~needs, Cardinality(ids) > 1, found # <<>> PROVE FALSE
  <2>1. DOMAIN found = 1..Len(found) /\ Len(found) \in Nat /\ Len(exact) \in Nat
        /\ DOMAIN exact = 1..Len(exact)
      BY <1>2, <1>3
  <2>2. Len(found) = 1 /\ {1, 2} \subseteq DOMAIN exact
    <3>1. Len(found) # 0
        BY <1>2, <1>4
    <3> HIDE DEF exact, ids, found
    <3>2. Len(exact) > 1 /\ (Len(found) > 1 => Len(exact) = 1)
        BY <1>3, <1>4
    <3>3. Len(found) = 1
      <4>1. PICK m \in Nat, n \in Nat : m = Len(found) /\ n = Len(exact)
          BY <2>1
      <4>2. m # 0 /\ n > 1 /\ (m > 1 => n = 1)
          BY <3>1, <3>2, <4>1
      <4> QED BY <4>1, <4>2
    <3>4. 1 \in 1..Len(exact) /\ 2 \in 1..Len(exact)
        BY <2>1, <3>2
    <3> QED BY <2>1, <3>3, <3>4
  <2>3. exact[1] = found[1] /\ exact[2] = found[1]
    <3>1. \A k \in DOMAIN found : k = 1
        BY <2>1, <2>2
    <3> QED BY <1>3, <2>2, <3>1
  <2> QED BY <1>3, <2>2, <2>3 DEF IsInjective
<1>5. needs \in BOOLEAN
    OBVIOUS
<1> HIDE DEF needs, ids
<1>6. ~needs /\ found # <<>> /\ Cardinality(ids) > 1 => found[1][2] # query
    BY <1>4
<1> QED BY <1>1, <1>2, <1>5, <1>6, NameAnswered DEF ids

LEMMA NameStep == Stores(odoo) /\ NameInv /\ [ExNext]_exVars => NameInv'
<1> SUFFICES ASSUME Stores(odoo), NameInv, [ExNext]_exVars PROVE NameInv'
    OBVIOUS
<1>1. ASSUME UNCHANGED <<odoo, lookup>> PROVE NameInv'
  <2>1. LiveIds' = LiveIds /\ ExactIds' = ExactIds
      BY <1>1 DEF LiveIds, Live, ExactIds
  <2> QED BY <1>1, <2>1 DEF NameInv, OffersLive, Resolving, Proposed, TwinsAreAsked
<1>2. ASSUME \/ StartSync \/ FetchPage \/ EmbedAll \/ Upsert \/ DeleteVanished \/ SyncDies
             \/ UNCHANGED exVars
      PROVE  UNCHANGED <<odoo, lookup>>
    BY <1>2 DEF StartSync, FetchPage, EmbedAll, Upsert, DeleteVanished, SyncDies, exVars
<1>3. CASE \E id \in ProductIds, name \in Names \cup {NoProduct} : Edit(id, name)
    BY <1>3, NameEdited
<1>4. CASE \E query \in Names : ResolveName(query)
    BY <1>4, NameAsked
<1>5. CASE \E some \in SUBSET Indexed : Semantic(Reverse(Within(ById, some)))
    BY <1>5, NameProposed
<1>6. CASE \E up \in BOOLEAN : Verify(up)
    BY <1>6, NameVerified
<1>7. CASE \E score \in Rankings : Rank_names(score)
    BY <1>7, NameRanked
<1> QED BY <1>1, <1>2, <1>3, <1>4, <1>5, <1>6, <1>7, NameFailed, NameKept DEF ExNext

LEMMA NamesAlwaysRight == ExSpec => [](SyncInv /\ NameInv)
<1>1. ExInit => SyncInv /\ NameInv
    BY SyncInit, NameInit
<1>2. SyncInv /\ NameInv /\ [ExNext]_exVars => (SyncInv /\ NameInv)'
    BY SyncStep, NameStep DEF SyncInv
<1> QED BY <1>1, <1>2, PTL DEF ExSpec

\* NamesAreSafe (resolve.py:86 and :112-122): every match was in Odoo under its name since the
\* question, and of two matches of exactly that name none is picked, unless a third one leads:
\* whatever the mirror holds, the cross-encoder says and Odoo's users change meanwhile.
THEOREM NamesAlwaysSafe == ExSpec => []NamesAreSafe
<1>1. NameInv => NamesAreSafe
    BY DEF NameInv, NamesAreSafe
<1> QED BY <1>1, NamesAlwaysRight, PTL

\* MirrorHolds (sync_index.py:51-59): a sync that ended mirrors Odoo as far as it held still,
\* however many pages, rows, edits and dead syncs, and none ever empties the mirror.
THEOREM MirrorAlwaysHolds == ExSpec => MirrorHolds
<1>1. SyncInv /\ NameInv => ExTypeOK /\ SyncedIsMirror
  <2>1. SyncInv => /\ odoo \in [ProductIds -> Names \cup {NoProduct}]
                   /\ index \in [ProductIds -> Names \cup {NoProduct}]
                   /\ sync.at \in {"off", "page", "embed", "upsert", "delete", "ended", "skipped"}
                   /\ SyncedIsMirror
      BY DEF SyncInv, Stores, SyncRecord
  <2>2. NameInv => /\ lookup.at \in {"off", "semantic", "verify", "score", "answered", "error"}
                   /\ Len(lookup.found) <= MAX_CANDIDATES /\ Once(lookup.found)
      BY DEF NameInv, LookupRecord
  <2> QED BY <2>1, <2>2 DEF ExTypeOK, Once
<1>2. SyncInv /\ [ExNext]_exVars => NeverWiped
    BY SyncStep
<1> QED BY <1>1, <1>2, NamesAlwaysRight, PTL DEF ExSpec, MirrorHolds

-----------------------------------------------------------------------------
(* The answer to a question, for every corpus, class map, ranking and reload. *)

Chunks == Documents \X Nat
Entries(docs) == [chunk : docs \X Nat, rrf : Nat]
Distinct(pool) == \A i, j \in DOMAIN pool : pool[i].chunk = pool[j].chunk => i = j
PoolsOf(docs) == {pool \in Seq(Entries(docs)) : Distinct(pool)}

AskRecord ==
    [at : {"idle", "legs", "rerank", "shadow", "signal"}, arg : Callers,
     visibility : {UNRESTRICTED} \cup SUBSET Classes, aux : {"none", "question", "before"},
     left : Seq(Queries \X {"dense", "sparse", "fold"}), pool : PoolsOf(Documents),
     chunks : Seq(Chunks), ce : Seq(Nat), total : Nat, reloads : Nat]

Corpus ==
    /\ class \in [Documents -> Classes] /\ gen \in [Documents -> {0, 1}]
    /\ match \in [Queries -> [{"dense", "sparse", "fold"} -> Seq(Documents)]]
    /\ model \in {"unloaded", "ready", "dead"} /\ override \in BOOLEAN

Asked ==
    /\ ask \in AskRecord /\ answer.state \in {"none", "error", "result"}
    /\ ask.at # "idle" => answer = Nothing /\ ask.visibility = resolve(ask.arg)

\* After n of the legs of a plan the pool is what those legs give, if no document moved.
AfterLegs(k, plan, pools, n) ==
    /\ k.left = SubSeq(plan, n + 1, Len(plan))
    /\ k.reloads = 0 => k.pool = pools[n]

SearchingAt(k) ==
    k.at = "legs" => /\ k.pool \in PoolsOf(Visible(k.arg))
                     /\ \E n \in 0..(Len(Plan(k.aux)) - 1) :
                          AfterLegs(k, Plan(k.aux), Pools(OwnRows(k.arg, k.aux)), n)

\* What a role is given: from its own documents, in the order these alone would give.
GivenAt(k) ==
    k.at \in {"rerank", "shadow", "signal"} =>
      /\ \A i \in DOMAIN k.chunks : k.chunks[i][1] \in Visible(k.arg)
      /\ k.at = "rerank" => IsInjective(k.chunks)
      /\ k.reloads = 0 =>
           /\ k.total = Len(Pooled(OwnRows(k.arg, k.aux)))
           /\ k.at = "rerank" =>
                k.chunks = First(TOP_N, Ordered(Pooled(OwnRows(k.arg, k.aux))))
           /\ k.at # "rerank" /\ k.ce = <<>> =>
                k.chunks = First(TOP_K, Ordered(Pooled(OwnRows(k.arg, k.aux))))

ShadowedAt(k) ==
    /\ k.at = "shadow" => /\ k.visibility # UNRESTRICTED
                          /\ \E n \in 0..(Len(ShadowPlan) - 1) :
                               AfterLegs(k, ShadowPlan, Pools(Unfiltered), n)
    /\ k.at = "signal" /\ k.visibility # UNRESTRICTED /\ k.reloads = 0 =>
         k.pool = Pooled(Unfiltered)

RtInv ==
    /\ Corpus /\ Asked /\ SearchingAt(ask) /\ GivenAt(ask) /\ ShadowedAt(ask)
    /\ OnlyVisible /\ SeesNoHidden /\ HiddenIsPresent

-----------------------------------------------------------------------------
\* A recursive function over places exists if each step stays in one set.
Recurses(f, n, x, step) == f[0] = x /\ \A i \in 1..n : f[i] = step[i][f[i - 1]]

LEMMA Recursion ==
  ASSUME NEW n \in Nat, NEW X, NEW x \in X, NEW step \in [1..n -> [X -> X]]
  PROVE  \E f \in [0..n -> X] : Recurses(f, n, x, step)
<1> DEFINE G(m, f) == f \in [0..m -> X] /\ f = [i \in 0..m |-> IF i = 0 THEN x ELSE step[i][f[i - 1]]]
           S == {m \in 0..n : \E f : G(m, f)}
<1>1. 0 \in S
  <2> DEFINE f == [i \in 0..0 |-> x]
  <2>1. G(0, f)
      OBVIOUS
  <2> HIDE DEF f, G
  <2> QED BY <2>1
<1>2. ASSUME NEW m \in 1..n, m - 1 \in S PROVE m \in S
  <2>1. PICK f : G(m - 1, f)
      BY <1>2
  <2> DEFINE y == step[m][f[m - 1]]
             g == [i \in 0..m |-> IF i = m THEN y ELSE f[i]]
  <2>2. f[m - 1] \in X /\ y \in X
    <3>1. m - 1 \in 0..(m - 1) /\ step[m] \in [X -> X]
        OBVIOUS
    <3>2. f[m - 1] \in X
        BY <2>1, <3>1
    <3> QED BY <3>1, <3>2
  <2> HIDE DEF y
  <2>3. g \in [0..m -> X]
    <3> SUFFICES ASSUME NEW i \in 0..m, i # m PROVE f[i] \in X
        BY <2>2
    <3>1. i \in 0..(m - 1)
        OBVIOUS
    <3> QED BY <2>1, <3>1
  <2>4. \A i \in 0..m : g[i] = IF i = 0 THEN x ELSE step[i][g[i - 1]]
    <3> SUFFICES ASSUME NEW i \in 0..m PROVE g[i] = IF i = 0 THEN x ELSE step[i][g[i - 1]]
        OBVIOUS
    <3>0. i # 0 => i - 1 \in 0..m /\ i - 1 # m /\ g[i - 1] = f[i - 1]
        OBVIOUS
    <3>1. CASE i = m
      <4>1. g[i] = y /\ i # 0
          BY <3>1
      <4> HIDE DEF g
      <4> QED BY <3>0, <3>1, <4>1 DEF y
    <3>2. CASE i # m
      <4>1. i \in 0..(m - 1) /\ g[i] = f[i]
          BY <3>2
      <4>2. f[i] = IF i = 0 THEN x ELSE step[i][f[i - 1]]
          BY <4>1, <2>1
      <4> HIDE DEF g
      <4> QED BY <3>0, <4>1, <4>2
    <3> QED BY <3>1, <3>2
  <2>5. G(m, g)
      BY <2>3, <2>4
  <2> HIDE DEF g, G
  <2> QED BY <2>5
<1> HIDE DEF G
<1>3. \A m \in 0..n : m \in S
  <2> HIDE DEF S
  <2> QED BY <1>1, <1>2, PlaceByPlace
<1>4. PICK f : G(n, f)
    BY <1>3
<1>5. \A i \in 0..n : f[i] = IF i = 0 THEN x ELSE step[i][f[i - 1]]
    BY <1>4 DEF G
<1>6. \A i \in 1..n : i \in 0..n /\ i # 0
    OBVIOUS
<1>7. f[0] = x /\ \A i \in 1..n : f[i] = step[i][f[i - 1]]
  <2> 0 \in 0..n
      OBVIOUS
  <2> QED BY <1>5, <1>6
<1> QED BY <1>4, <1>7 DEF G, Recurses

\* A vote is a product of all denominators but its own: the first place counts most.
VoteParts(rank, size, f) ==
  /\ f \in [0..size -> Nat] /\ f[0] = 1
  /\ \A r \in 1..size : f[r] = IF r = rank THEN f[r - 1] ELSE f[r - 1] * (RRF_K + r)

LEMMA VoteIsLast ==
  ASSUME NEW size \in Nat, NEW rank
  PROVE  \E f : VoteParts(rank, size, f) /\ Vote(rank, size) = f[size]
<1> DEFINE step == [r \in 1..size |-> [y \in Nat |-> IF r = rank THEN y ELSE y * (RRF_K + r)]]
           P(f) == f = [r \in 0..size |->
                          IF r = 0 THEN 1
                          ELSE IF r = rank THEN f[r - 1] ELSE f[r - 1] * (RRF_K + r)]
           f == CHOOSE f : P(f)
<1>0. RRF_K \in Nat
    BY RetrievalAssumption
<1>1. \E h : P(h)
  <2>1. step \in [1..size -> [Nat -> Nat]]
      BY <1>0
  <2>2. \A r \in 1..size, y \in Nat : step[r][y] = IF r = rank THEN y ELSE y * (RRF_K + r)
      OBVIOUS
  <2> HIDE DEF step
  <2>3. PICK h \in [0..size -> Nat] : Recurses(h, size, 1, step)
    <3>1. 1 \in Nat
        OBVIOUS
    <3> QED BY <2>1, <3>1, Recursion
  <2>4. ASSUME NEW r \in 0..size
        PROVE  h[r] = IF r = 0 THEN 1
                      ELSE IF r = rank THEN h[r - 1] ELSE h[r - 1] * (RRF_K + r)
    <3>1. CASE r = 0
        BY <2>3, <3>1 DEF Recurses
    <3>2. CASE r # 0
      <4>1. r \in 1..size /\ r - 1 \in 0..size /\ h[r - 1] \in Nat
          BY <3>2
      <4>2. h[r] = step[r][h[r - 1]]
          BY <2>3, <4>1 DEF Recurses
      <4> QED BY <2>2, <3>2, <4>1, <4>2
    <3> QED BY <3>1, <3>2
  <2>5. P(h)
      BY <2>4
  <2> HIDE DEF P
  <2> QED BY <2>5
<1>2. Vote(rank, size) = f[size]
    BY DEF Vote
<1>3. P(f)
  <2> HIDE DEF P
  <2> QED BY <1>1
<1> HIDE DEF f
<1>4. DOMAIN f = 0..size /\ f[0] = 1
    BY <1>3
<1>5. \A r \in 1..size : f[r] = IF r = rank THEN f[r - 1] ELSE f[r - 1] * (RRF_K + r)
  <2> SUFFICES ASSUME NEW r \in 1..size
               PROVE  f[r] = IF r = rank THEN f[r - 1] ELSE f[r - 1] * (RRF_K + r)
      OBVIOUS
  <2>1. r \in 0..size /\ r # 0
      OBVIOUS
  <2> QED BY <1>3, <2>1
<1>6. \A r \in 0..size : f[r] \in Nat
  <2> DEFINE S == {r \in 0..size : f[r] \in Nat}
  <2>1. 0 \in S
      BY <1>4
  <2>2. \A r \in 1..size : r - 1 \in S => r \in S
      BY <1>0, <1>5
  <2> HIDE DEF S
  <2>3. \A r \in 0..size : r \in S
      BY <2>1, <2>2, PlaceByPlace
  <2> QED BY <2>3 DEF S
<1>7. f \in [0..size -> Nat]
  <2>1. f = [r \in 0..size |-> f[r]]
      BY <1>3
  <2> HIDE DEF P
  <2> QED BY <1>6, <2>1
<1>8. VoteParts(rank, size, f)
  <2> HIDE DEF P
  <2> QED BY <1>4, <1>5, <1>7 DEF VoteParts
<1> QED BY <1>2, <1>8

LEMMA VoteIsNat ==
  ASSUME NEW size \in Nat, NEW rank
  PROVE  Vote(rank, size) \in Nat
<1>1. PICK f : VoteParts(rank, size, f) /\ Vote(rank, size) = f[size]
    BY VoteIsLast
<1> QED BY <1>1 DEF VoteParts

LEMMA MoreTimes ==
  ASSUME NEW a \in Nat, NEW b \in Nat, NEW c \in Nat, c > 0
  PROVE  /\ a * c \in Nat /\ (a > 0 => a * c > 0)
         /\ a < b => a * c < b * c
OBVIOUS

LEMMA VoteFalls ==
  ASSUME NEW size \in Nat, NEW a \in 1..size, NEW b \in 1..size, a < b
  PROVE  Vote(b, size) < Vote(a, size)
<1>0. RRF_K \in Nat
    BY RetrievalAssumption
<1>1. PICK f : VoteParts(a, size, f) /\ Vote(a, size) = f[size]
    BY VoteIsLast
<1>2. PICK g : VoteParts(b, size, g) /\ Vote(b, size) = g[size]
    BY VoteIsLast
\* alike before a; between a and b, g holds one factor more; from b on, f holds a greater one
<1> DEFINE S == {r \in 0..size : /\ f[r] > 0 /\ g[r] > 0
                                 /\ r < a => f[r] = g[r]
                                 /\ a <= r /\ r < b => g[r] = f[r] * (RRF_K + a)
                                 /\ b <= r => g[r] < f[r]}
<1>3. 0 \in S
    BY <1>1, <1>2 DEF VoteParts
<1>4. ASSUME NEW r \in 1..size, r - 1 \in S PROVE r \in S
  <2> DEFINE x == f[r - 1]
             y == g[r - 1]
             K == RRF_K + r
  <2>1. /\ x \in Nat /\ y \in Nat /\ K \in Nat /\ K > 0 /\ x > 0 /\ y > 0
        /\ f[r] = (IF r = a THEN x ELSE x * K) /\ g[r] = (IF r = b THEN y ELSE y * K)
        /\ r - 1 < a => x = y
        /\ a <= r - 1 /\ r - 1 < b => y = x * (RRF_K + a)
        /\ b <= r - 1 => y < x
    <3>1. r - 1 \in 0..size
        OBVIOUS
    <3>2. f \in [0..size -> Nat] /\ g \in [0..size -> Nat]
        BY <1>1, <1>2 DEF VoteParts
    <3>3. x \in Nat /\ y \in Nat
        BY <3>1, <3>2
    <3>4. f[r] = (IF r = a THEN x ELSE x * K) /\ g[r] = (IF r = b THEN y ELSE y * K)
        BY <1>1, <1>2 DEF VoteParts
    <3> QED BY <1>0, <1>4, <3>3, <3>4
  <2> HIDE DEF x, y, K, S
  <2>2. r \in 0..size /\ r \in Nat /\ a \in Nat /\ b \in Nat
      OBVIOUS
  <2>3. x * K \in Nat /\ y * K \in Nat /\ x * K > 0 /\ y * K > 0
      BY <2>1, MoreTimes
  <2>4. CASE r < a
    <3>1. f[r] = x * K /\ g[r] = y * K /\ x = y
        BY <2>1, <2>2, <2>4
    <3> QED BY <2>2, <2>3, <2>4, <3>1 DEF S
  <2>5. CASE r = a
    <3>1. f[r] = x /\ g[r] = y * K /\ x = y /\ K = RRF_K + a
        BY <2>1, <2>2, <2>5 DEF K
    <3> QED BY <2>1, <2>2, <2>3, <2>5, <3>1 DEF S
  <2>6. CASE a < r /\ r < b
    <3>1. f[r] = x * K /\ g[r] = y * K /\ y = x * (RRF_K + a)
        BY <2>1, <2>2, <2>6
    <3>2. (x * (RRF_K + a)) * K = (x * K) * (RRF_K + a)
        BY <1>0, <2>1, <2>2
    <3>3. g[r] = f[r] * (RRF_K + a)
        BY <3>1, <3>2
    <3> QED BY <2>2, <2>3, <2>6, <3>1, <3>3 DEF S
  <2>7. CASE r = b
    <3>1. f[r] = x * K /\ g[r] = x * (RRF_K + a) /\ g[r] = y
        BY <2>1, <2>2, <2>7
    <3>2. RRF_K + a < K /\ RRF_K + a \in Nat
        BY <1>0, <2>2, <2>7 DEF K
    <3>3. x * (RRF_K + a) < x * K
      <4>1. (RRF_K + a) * x < K * x
          BY <2>1, <3>2, MoreTimes
      <4> QED BY <2>1, <3>2, <4>1
    <3> QED BY <2>1, <2>2, <2>3, <2>7, <3>1, <3>3 DEF S
  <2>8. CASE b < r
    <3>1. f[r] = x * K /\ g[r] = y * K /\ y < x
        BY <2>1, <2>2, <2>8
    <3>2. y * K < x * K
        BY <2>1, <3>1, MoreTimes
    <3> QED BY <2>2, <2>3, <2>8, <3>1, <3>2 DEF S
  <2> QED BY <2>2, <2>4, <2>5, <2>6, <2>7, <2>8
<1>5. \A r \in 0..size : r \in S
  <2> HIDE DEF S
  <2> QED BY <1>3, <1>4, PlaceByPlace
<1>6. size \in S /\ b <= size
    BY <1>5
<1> QED BY <1>1, <1>2, <1>6

\* A chunk added to a pool is one entry of it, the others stay.
LEMMA AddKeeps ==
  ASSUME NEW docs, NEW pool \in PoolsOf(docs), NEW chunk \in docs \X Nat, NEW vote \in Nat
  PROVE  Add(pool, chunk, vote) \in PoolsOf(docs)
<1> DEFINE n == Len(pool)
           again == Add(pool, chunk, vote)
<1>1. /\ pool \in Seq(Entries(docs)) /\ Distinct(pool) /\ n \in Nat /\ DOMAIN pool = 1..n
      /\ \A i \in 1..n : pool[i] \in Entries(docs)
  <2>1. pool \in Seq(Entries(docs)) /\ Distinct(pool)
      BY DEF PoolsOf
  <2> QED BY <2>1
<1>2. CASE \E e \in DOMAIN pool : pool[e].chunk = chunk
  <2> DEFINE entry(e) == IF pool[e].chunk = chunk THEN [pool[e] EXCEPT !.rrf = @ + vote] ELSE pool[e]
  <2>1. again = [e \in 1..n |-> entry(e)]
      BY <1>1, <1>2 DEF Add
  <2>2. \A e \in 1..n : entry(e) \in Entries(docs) /\ entry(e).chunk = pool[e].chunk
    <3> SUFFICES ASSUME NEW e \in 1..n
                 PROVE  entry(e) \in Entries(docs) /\ entry(e).chunk = pool[e].chunk
        OBVIOUS
    <3>1. pool[e] \in Entries(docs)
        BY <1>1
    <3>2. pool[e].rrf + vote \in Nat
        BY <3>1 DEF Entries
    <3> QED BY <3>1, <3>2 DEF Entries
  <2> HIDE DEF entry, n
  <2>3. again \in Seq(Entries(docs)) /\ DOMAIN again = 1..n
      BY <1>1, <2>1, <2>2
  <2>4. \A e \in 1..n : again[e].chunk = pool[e].chunk
      BY <2>1, <2>2
  <2> HIDE DEF again
  <2>5. Distinct(again)
      BY <1>1, <2>3, <2>4 DEF Distinct
  <2> QED BY <2>3, <2>5 DEF PoolsOf, again
<1>3. CASE ~ \E e \in DOMAIN pool : pool[e].chunk = chunk
  <2> DEFINE entry == [chunk |-> chunk, rrf |-> vote]
  <2>1. again = Append(pool, entry)
      BY <1>3 DEF Add
  <2>2. entry \in Entries(docs) /\ entry.chunk = chunk
      BY DEF Entries
  <2> HIDE DEF entry, n
  <2>3. /\ again \in Seq(Entries(docs)) /\ DOMAIN again = 1..(n + 1) /\ again[n + 1] = entry
        /\ \A i \in 1..n : again[i] = pool[i]
      BY <1>1, <2>1, <2>2 DEF n
  <2> HIDE DEF again
  <2>4. \A i \in 1..n : again[i].chunk = pool[i].chunk /\ pool[i].chunk # chunk
      BY <1>1, <1>3, <2>3
  <2>5. again[n + 1].chunk = chunk
      BY <2>2, <2>3
  <2>6. Distinct(again)
    <3> SUFFICES ASSUME NEW i \in 1..(n + 1), NEW j \in 1..(n + 1), again[i].chunk = again[j].chunk
                 PROVE  i = j
        BY <2>3 DEF Distinct
    <3>1. \A k \in 1..(n + 1) : k \in 1..n \/ k = n + 1
        BY <1>1
    <3>2. CASE i \in 1..n /\ j \in 1..n
        BY <1>1, <2>4, <3>2 DEF Distinct
    <3>3. CASE i = n + 1 \/ j = n + 1
        BY <2>4, <2>5, <3>1, <3>3
    <3> QED BY <3>1, <3>2, <3>3
  <2> QED BY <2>3, <2>6 DEF PoolsOf, again
<1> QED BY <1>2, <1>3

FuseParts(pool, hits, f) ==
  /\ f[0] = pool
  /\ \A i \in 1..Len(hits) : f[i] = Add(f[i - 1], hits[i], Vote(i, TOP_N))

LEMMA FuseIsLast ==
  ASSUME NEW docs, NEW pool \in PoolsOf(docs), NEW hits \in Seq(docs \X Nat)
  PROVE  \E f : FuseParts(pool, hits, f) /\ Fuse(pool, hits) = f[Len(hits)]
<1> DEFINE n == Len(hits)
           X == PoolsOf(docs)
           step == [i \in 1..n |-> [y \in X |-> Add(y, hits[i], Vote(i, TOP_N))]]
           P(f) == f = [i \in 0..n |->
                          IF i = 0 THEN pool ELSE Add(f[i - 1], hits[i], Vote(i, TOP_N))]
           f == CHOOSE f : P(f)
<1>0. n \in Nat /\ \A i \in 1..n : hits[i] \in docs \X Nat
    OBVIOUS
<1>1. \E h : P(h)
  <2>1. step \in [1..n -> [X -> X]]
    <3>1. ASSUME NEW i \in 1..n, NEW y \in X PROVE Add(y, hits[i], Vote(i, TOP_N)) \in X
      <4>1. Vote(i, TOP_N) \in Nat
          BY VoteIsNat, RetrievalAssumption
      <4> QED BY <1>0, <4>1, AddKeeps
    <3> HIDE DEF X
    <3> QED BY <3>1
  <2>2. \A i \in 1..n, y \in X : step[i][y] = Add(y, hits[i], Vote(i, TOP_N))
      OBVIOUS
  <2> HIDE DEF step, X
  <2>3. PICK h \in [0..n -> X] : Recurses(h, n, pool, step)
    <3>1. pool \in X
        BY DEF X
    <3> HIDE DEF n
    <3> QED BY <1>0, <2>1, <3>1, Recursion
  <2>4. ASSUME NEW i \in 0..n
        PROVE  h[i] = IF i = 0 THEN pool ELSE Add(h[i - 1], hits[i], Vote(i, TOP_N))
    <3>1. CASE i = 0
        BY <2>3, <3>1 DEF Recurses
    <3>2. CASE i # 0
      <4>1. i \in 1..n /\ i - 1 \in 0..n
          BY <1>0, <3>2
      <4>2. h[i] = step[i][h[i - 1]] /\ h[i - 1] \in X
          BY <2>3, <4>1 DEF Recurses
      <4> QED BY <2>2, <3>2, <4>1, <4>2
    <3> QED BY <3>1, <3>2
  <2>5. P(h)
      BY <2>4
  <2> HIDE DEF P
  <2> QED BY <2>5
<1>2. Fuse(pool, hits) = f[n]
    BY DEF Fuse
<1>3. P(f)
  <2> HIDE DEF P
  <2> QED BY <1>1
<1> HIDE DEF f
<1>4. f[0] = pool
    BY <1>0, <1>3
<1>5. \A i \in 1..n : f[i] = Add(f[i - 1], hits[i], Vote(i, TOP_N))
  <2> SUFFICES ASSUME NEW i \in 1..n
               PROVE  f[i] = Add(f[i - 1], hits[i], Vote(i, TOP_N))
      OBVIOUS
  <2>1. i \in 0..n /\ i # 0
      BY <1>0
  <2> QED BY <1>3, <2>1
<1> QED BY <1>2, <1>4, <1>5 DEF FuseParts

LEMMA FuseKeeps ==
  ASSUME NEW docs, NEW pool \in PoolsOf(docs), NEW hits \in Seq(docs \X Nat)
  PROVE  Fuse(pool, hits) \in PoolsOf(docs)
<1> DEFINE n == Len(hits)
<1>0. n \in Nat /\ \A i \in 1..n : hits[i] \in docs \X Nat
    OBVIOUS
<1>1. PICK f : FuseParts(pool, hits, f) /\ Fuse(pool, hits) = f[n]
    BY FuseIsLast
<1> HIDE DEF n
<1> DEFINE S == {i \in 0..n : f[i] \in PoolsOf(docs)}
<1>2. 0 \in S
    BY <1>0, <1>1 DEF FuseParts
<1>3. ASSUME NEW i \in 1..n, i - 1 \in S PROVE i \in S
  <2>1. f[i] = Add(f[i - 1], hits[i], Vote(i, TOP_N))
      BY <1>1 DEF FuseParts, n
  <2>2. Vote(i, TOP_N) \in Nat
      BY VoteIsNat, RetrievalAssumption
  <2>3. f[i - 1] \in PoolsOf(docs) /\ i \in 0..n
      BY <1>0, <1>3
  <2>4. f[i] \in PoolsOf(docs)
      BY <1>0, <2>1, <2>2, <2>3, AddKeeps
  <2> QED BY <2>3, <2>4
<1>4. \A i \in 0..n : i \in S
  <2> HIDE DEF S
  <2> QED BY <1>0, <1>2, <1>3, PlaceByPlace
<1>5. n \in S
    BY <1>0, <1>4
<1> QED BY <1>1, <1>5

\* The pools of a search, leg after leg.
PoolParts(legs, f, docs) ==
  /\ f[0] = <<>> /\ \A i \in 0..Len(legs) : f[i] \in PoolsOf(docs)
  /\ \A i \in 1..Len(legs) : f[i] = Fuse(f[i - 1], legs[i])

LEMMA EmptyPool ==
  ASSUME NEW docs
  PROVE  <<>> \in PoolsOf(docs)
<1>1. <<>> \in Seq(Entries(docs)) /\ DOMAIN <<>> = {}
    OBVIOUS
<1> QED BY <1>1 DEF PoolsOf, Distinct

LEMMA PoolsAreParts ==
  ASSUME NEW docs, NEW legs \in Seq(Seq(docs \X Nat))
  PROVE  PoolParts(legs, Pools(legs), docs)
<1> DEFINE n == Len(legs)
           X == PoolsOf(docs)
           step == [i \in 1..n |-> [y \in X |-> Fuse(y, legs[i])]]
           P(f) == f = [i \in 0..n |-> IF i = 0 THEN <<>> ELSE Fuse(f[i - 1], legs[i])]
           f == CHOOSE f : P(f)
<1>0. n \in Nat /\ \A i \in 1..n : legs[i] \in Seq(docs \X Nat)
    OBVIOUS
<1>9. <<>> \in X
    BY EmptyPool
<1>1. \E h : P(h)
  <2>1. step \in [1..n -> [X -> X]]
    <3>1. ASSUME NEW i \in 1..n, NEW y \in X PROVE Fuse(y, legs[i]) \in X
        BY <1>0, FuseKeeps
    <3> HIDE DEF X
    <3> QED BY <3>1
  <2>2. \A i \in 1..n, y \in X : step[i][y] = Fuse(y, legs[i])
      OBVIOUS
  <2> HIDE DEF step, X
  <2>3. PICK h \in [0..n -> X] : Recurses(h, n, <<>>, step)
    <3> HIDE DEF n
    <3> QED BY <1>0, <1>9, <2>1, Recursion
  <2>4. ASSUME NEW i \in 0..n
        PROVE  h[i] = IF i = 0 THEN <<>> ELSE Fuse(h[i - 1], legs[i])
    <3>1. CASE i = 0
        BY <2>3, <3>1 DEF Recurses
    <3>2. CASE i # 0
      <4>1. i \in 1..n /\ i - 1 \in 0..n
          BY <1>0, <3>2
      <4>2. h[i] = step[i][h[i - 1]] /\ h[i - 1] \in X
          BY <2>3, <4>1 DEF Recurses
      <4> QED BY <2>2, <3>2, <4>1, <4>2
    <3> QED BY <3>1, <3>2
  <2>5. P(h)
      BY <2>4
  <2> HIDE DEF P
  <2> QED BY <2>5
<1>2. Pools(legs) = f
    BY DEF Pools
<1>3. P(f)
  <2> HIDE DEF P
  <2> QED BY <1>1
<1> HIDE DEF f
<1>4. f[0] = <<>>
    BY <1>0, <1>3
<1>5. \A i \in 1..n : f[i] = Fuse(f[i - 1], legs[i])
  <2> SUFFICES ASSUME NEW i \in 1..n PROVE f[i] = Fuse(f[i - 1], legs[i])
      OBVIOUS
  <2>1. i \in 0..n /\ i # 0
      BY <1>0
  <2> QED BY <1>3, <2>1
<1>6. \A i \in 0..n : f[i] \in X
  <2> DEFINE S == {i \in 0..n : f[i] \in X}
  <2> HIDE DEF X, n
  <2>1. 0 \in S
      BY <1>0, <1>4, <1>9
  <2>2. ASSUME NEW i \in 1..n, i - 1 \in S PROVE i \in S
    <3>1. f[i - 1] \in X /\ i \in 0..n
        BY <1>0, <2>2
    <3>2. f[i] \in X
        BY <1>0, <1>5, <3>1, FuseKeeps DEF X
    <3> QED BY <3>1, <3>2
  <2> HIDE DEF S
  <2>3. \A i \in 0..n : i \in S
      BY <1>0, <2>1, <2>2, PlaceByPlace
  <2> QED BY <2>3 DEF S
<1> QED BY <1>2, <1>4, <1>5, <1>6 DEF PoolParts

\* The pool in order: each chunk of it once.
LEMMA OrderedOnce ==
  ASSUME NEW docs, NEW pool \in PoolsOf(docs)
  PROVE  /\ Ordered(pool) \in Seq(docs \X Nat) /\ Len(Ordered(pool)) = Len(pool)
         /\ IsInjective(Ordered(pool))
<1> DEFINE n == Len(pool)
           R == Ahead(pool)
           o == ByOrder(n, R)
           says(i) == pool[i].rrf
           again == Ordered(pool)
<1>1. /\ n \in Nat /\ DOMAIN pool = 1..n /\ Distinct(pool)
      /\ \A i \in 1..n : pool[i] \in Entries(docs)
  <2>1. pool \in Seq(Entries(docs)) /\ Distinct(pool)
      BY DEF PoolsOf
  <2> QED BY <2>1
<1>2. \A i \in 1..n : says(i) \in Nat /\ pool[i].chunk \in docs \X Nat
    BY <1>1 DEF Entries
<1>3. \A i, j \in 1..n : <<i, j>> \in R <=> says(i) > says(j) \/ (says(i) = says(j) /\ i < j)
    BY <1>1 DEF Ahead
<1> HIDE DEF R, says, n
<1>4. Orders(R, n)
  <2>1. \A i \in 1..n : <<i, i>> \notin R
      BY <1>2, <1>3
  <2>2. ASSUME NEW i \in 1..n, NEW j \in 1..n
        PROVE  i = j \/ <<i, j>> \in R \/ <<j, i>> \in R
    <3>1. says(i) > says(j) \/ says(j) > says(i) \/ says(i) = says(j)
        BY <1>2
    <3>2. i = j \/ i < j \/ j < i
        BY <1>1
    <3> QED BY <1>3, <3>1, <3>2
  <2>3. ASSUME NEW i \in 1..n, NEW j \in 1..n, NEW k \in 1..n, <<i, j>> \in R, <<j, k>> \in R
        PROVE  <<i, k>> \in R
    <3>1. /\ says(i) > says(j) \/ (says(i) = says(j) /\ i < j)
          /\ says(j) > says(k) \/ (says(j) = says(k) /\ j < k)
        BY <1>3, <2>3
    <3>2. says(i) \in Nat /\ says(j) \in Nat /\ says(k) \in Nat
        BY <1>2
    <3>3. says(i) > says(k) \/ (says(i) = says(k) /\ i < k)
        BY <1>1, <3>1, <3>2
    <3> QED BY <1>3, <3>3
  <2> QED BY <2>1, <2>2, <2>3 DEF Orders
<1>5. o \in [1..n -> 1..n] /\ o \in Bijection(1..n, 1..n)
  <2> HIDE DEF o
  <2> QED BY <1>1, <1>4, SortedOnce DEF o
<1>6. again = [p \in 1..n |-> pool[o[p]].chunk]
    BY <1>1 DEF Ordered, R, n
<1> HIDE DEF o, again
<1>7. again \in Seq(docs \X Nat) /\ DOMAIN again = 1..n /\ Len(again) = n
  <2>1. \A p \in 1..n : pool[o[p]].chunk \in docs \X Nat
      BY <1>2, <1>5
  <2> QED BY <1>1, <1>6, <2>1
<1>8. IsInjective(again)
  <2> SUFFICES ASSUME NEW p \in 1..n, NEW q \in 1..n, again[p] = again[q] PROVE p = q
      BY <1>7 DEF IsInjective
  <2>1. o[p] = o[q]
      BY <1>1, <1>5, <1>6 DEF Distinct
  <2> QED BY <1>5, <2>1 DEF Bijection, Injection, IsInjective
<1> QED BY <1>7, <1>8 DEF again, n

LEMMA FirstOfFirst ==
  ASSUME NEW X, NEW s \in Seq(X), NEW k \in Nat, NEW n \in Nat, k <= n
  PROVE  First(k, First(n, s)) = First(k, s)
<1> DEFINE t == First(n, s)
           u == First(k, t)
           v == First(k, s)
<1>1. /\ t \in Seq(X) /\ Len(t) = (IF Len(s) < n THEN Len(s) ELSE n)
      /\ \A i \in 1..Len(t) : t[i] = s[i]
    BY FirstKeeps
<1> HIDE DEF t
<1>2. /\ u \in Seq(X) /\ Len(u) = (IF Len(t) < k THEN Len(t) ELSE k)
      /\ \A i \in 1..Len(u) : u[i] = t[i] /\ i \in 1..Len(t)
    BY <1>1, FirstKeeps
<1>3. /\ v \in Seq(X) /\ Len(v) = (IF Len(s) < k THEN Len(s) ELSE k)
      /\ \A i \in 1..Len(v) : v[i] = s[i]
    BY FirstKeeps
<1> HIDE DEF u, v
<1>4. Len(u) = Len(v)
  <2>1. Len(s) \in Nat /\ Len(t) \in Nat
      BY <1>1
  <2> QED BY <1>1, <1>2, <1>3, <2>1
<1>5. \A i \in 1..Len(u) : u[i] = v[i]
    BY <1>1, <1>2, <1>3, <1>4
<1>6. u = v
    BY <1>2, <1>3, <1>4, <1>5
<1> QED BY <1>6 DEF u, v, t

\* Nothing is left out of a list whose members all stay.
LEMMA WithinAll ==
  ASSUME NEW X, NEW s \in Seq(X), NEW T, X \subseteq T
  PROVE  Within(s, T) = s
<1>1. PICK f : WithinParts(s, T, f) /\ Within(s, T) = f[Len(s)]
    BY WithinIsLast
<1>0. Len(s) \in Nat /\ DOMAIN s = 1..Len(s) /\ \A i \in 1..Len(s) : s[i] \in X
    OBVIOUS
<1> DEFINE S == {i \in 0..Len(s) : /\ f[i] \in Seq(X) /\ Len(f[i]) = i
                                   /\ \A j \in 1..i : f[i][j] = s[j]}
<1>2. 0 \in S
  <2>1. f[0] = <<>> /\ <<>> \in Seq(X) /\ Len(<<>>) = 0 /\ 0 \in 0..Len(s) /\ 1..0 = {}
      BY <1>0, <1>1 DEF WithinParts
  <2> QED BY <2>1
<1>3. ASSUME NEW i \in 1..Len(s), i - 1 \in S PROVE i \in S
  <2>1. PICK q \in Seq(X) : q = f[i - 1]
      BY <1>3
  <2>2. Len(q) = i - 1 /\ \A j \in 1..(i - 1) : q[j] = s[j]
      BY <1>3, <2>1
  <2>3. f[i] = Append(q, s[i])
      BY <1>0, <1>1, <2>1 DEF WithinParts
  <2> DEFINE r == Append(q, s[i])
  <2>4. /\ r \in Seq(X) /\ Len(r) = i /\ r[i] = s[i]
        /\ \A j \in 1..(i - 1) : r[j] = q[j]
      BY <1>0, <2>2
  <2> HIDE DEF r
  <2>5. \A j \in 1..i : r[j] = s[j]
    <3>1. \A j \in 1..i : j \in 1..(i - 1) \/ j = i
        OBVIOUS
    <3> QED BY <2>2, <2>4, <3>1
  <2>6. f[i] = r /\ i \in 0..Len(s)
      BY <1>0, <2>3 DEF r
  <2> QED BY <2>4, <2>5, <2>6
<1>4. \A i \in 0..Len(s) : i \in S
  <2> HIDE DEF S
  <2> QED BY <1>0, <1>2, <1>3, PlaceByPlace
<1>5. Len(s) \in S
    BY <1>0, <1>4
<1>6. PICK w \in Seq(X) : w = f[Len(s)]
    BY <1>5
<1>7. Len(w) = Len(s) /\ \A j \in 1..Len(s) : w[j] = s[j]
    BY <1>5, <1>6
<1>8. w = s
    BY <1>7
<1> QED BY <1>1, <1>6, <1>8

\* The cross-encoder's order blended with the pool's: every place once, and none before
\* another that both orders put ahead of it.
LEMMA BlendVotes ==
  ASSUME NEW ce \in Scores, NEW n, n = Len(ce)
  PROVE  /\ n \in Nat /\ Blend(ce) \in [1..n -> 1..n]
         /\ \A p, q \in 1..n :
              p < q => ~ /\ Blend(ce)[q] < Blend(ce)[p]
                         /\ Rank(ce, Blend(ce)[q]) < Rank(ce, Blend(ce)[p])
<1>1. ce \in Seq(Nat) /\ n \in Nat /\ DOMAIN ce = 1..n /\ {ce[i] : i \in DOMAIN ce} = 1..n
  <2>1. ce \in Seq(Nat) /\ ToSet(ce) = 1..n
      BY RetrievalAssumption
  <2> QED BY <2>1 DEF ToSet
<1>2. ASSUME NEW i \in 1..n PROVE Rank(ce, i) \in 1..n
  <2>1. \E p \in DOMAIN ce : ce[p] = i
      BY <1>1
  <2> QED BY <1>1, <2>1 DEF Rank
<1> DEFINE sum(i) == Vote(i, n) + Vote(Rank(ce, i), n)
           R == {p \in (1..n) \X (1..n) :
                   sum(p[1]) > sum(p[2]) \/ (sum(p[1]) = sum(p[2]) /\ p[1] < p[2])}
           o == ByOrder(n, R)
<1>3. \A i \in 1..n : Vote(i, n) \in Nat /\ Vote(Rank(ce, i), n) \in Nat /\ sum(i) \in Nat
    BY <1>1, VoteIsNat
<1>4. \A i, j \in 1..n : <<i, j>> \in R <=> sum(i) > sum(j) \/ (sum(i) = sum(j) /\ i < j)
  <2> HIDE DEF sum
  <2> QED OBVIOUS
<1>5. ASSUME NEW i \in 1..n, NEW j \in 1..n, j < i, Rank(ce, j) < Rank(ce, i)
      PROVE  sum(j) > sum(i)
  <2>1. Vote(i, n) < Vote(j, n)
      BY <1>1, <1>5, VoteFalls
  <2>2. Vote(Rank(ce, i), n) < Vote(Rank(ce, j), n)
      BY <1>1, <1>2, <1>5, VoteFalls
  <2> QED BY <1>3, <2>1, <2>2
<1>6. Blend(ce) = o
    BY DEF Blend
<1> HIDE DEF R, sum, o
<1>7. Orders(R, n)
  <2>1. \A i \in 1..n : <<i, i>> \notin R
      BY <1>3, <1>4
  <2>2. ASSUME NEW i \in 1..n, NEW j \in 1..n
        PROVE  i = j \/ <<i, j>> \in R \/ <<j, i>> \in R
    <3>1. sum(i) > sum(j) \/ sum(j) > sum(i) \/ sum(i) = sum(j)
        BY <1>3
    <3>2. i = j \/ i < j \/ j < i
        BY <1>1
    <3> QED BY <1>4, <3>1, <3>2
  <2>3. ASSUME NEW i \in 1..n, NEW j \in 1..n, NEW k \in 1..n, <<i, j>> \in R, <<j, k>> \in R
        PROVE  <<i, k>> \in R
    <3>1. /\ sum(i) > sum(j) \/ (sum(i) = sum(j) /\ i < j)
          /\ sum(j) > sum(k) \/ (sum(j) = sum(k) /\ j < k)
        BY <1>4, <2>3
    <3>2. sum(i) \in Nat /\ sum(j) \in Nat /\ sum(k) \in Nat
        BY <1>3
    <3>3. sum(i) > sum(k) \/ (sum(i) = sum(k) /\ i < k)
        BY <1>1, <3>1, <3>2
    <3> QED BY <1>4, <3>3
  <2> QED BY <2>1, <2>2, <2>3 DEF Orders
<1>8. o \in [1..n -> 1..n] /\ \A p, q \in 1..n : p < q => <<o[p], o[q]>> \in R
    BY <1>1, <1>7, SortedOnce DEF o
<1>9. ASSUME NEW p \in 1..n, NEW q \in 1..n, p < q, o[q] < o[p],
             Rank(ce, o[q]) < Rank(ce, o[p])
      PROVE  FALSE
  <2>1. o[p] \in 1..n /\ o[q] \in 1..n /\ <<o[p], o[q]>> \in R
      BY <1>8, <1>9
  <2>2. sum(o[q]) > sum(o[p])
      BY <1>5, <1>9, <2>1
  <2>3. sum(o[p]) > sum(o[q]) \/ sum(o[p]) = sum(o[q])
      BY <1>4, <2>1
  <2> QED BY <1>3, <2>1, <2>2, <2>3
<1> QED BY <1>1, <1>6, <1>8, <1>9

LEMMA WithinIn ==
  ASSUME NEW X, NEW s \in Seq(X), NEW T
  PROVE  Within(s, T) \in Seq(X \cap T)
<1>1. PICK f : WithinParts(s, T, f) /\ Within(s, T) = f[Len(s)]
    BY WithinIsLast
<1>0. Len(s) \in Nat /\ DOMAIN s = 1..Len(s) /\ \A i \in 1..Len(s) : s[i] \in X
    OBVIOUS
<1> DEFINE S == {i \in 0..Len(s) : f[i] \in Seq(X \cap T)}
<1>2. 0 \in S
  <2>1. f[0] = <<>> /\ <<>> \in Seq(X \cap T) /\ 0 \in 0..Len(s)
      BY <1>0, <1>1 DEF WithinParts
  <2> QED BY <2>1
<1>3. ASSUME NEW i \in 1..Len(s), i - 1 \in S PROVE i \in S
  <2>1. f[i] = IF s[i] \in T THEN Append(f[i - 1], s[i]) ELSE f[i - 1]
      BY <1>1 DEF WithinParts
  <2>2. f[i - 1] \in Seq(X \cap T) /\ s[i] \in X /\ i \in 0..Len(s)
      BY <1>0, <1>3
  <2>3. f[i] \in Seq(X \cap T)
    <3>1. PICK q \in Seq(X \cap T) : q = f[i - 1]
        BY <2>2
    <3>2. s[i] \in T => Append(q, s[i]) \in Seq(X \cap T)
      <4> HAVE s[i] \in T
      <4>1. s[i] \in X \cap T
          BY <2>2
      <4> QED BY <4>1
    <3> QED BY <2>1, <3>1, <3>2
  <2> QED BY <2>2, <2>3
<1>4. \A i \in 0..Len(s) : i \in S
  <2> HIDE DEF S
  <2> QED BY <1>0, <1>2, <1>3, PlaceByPlace
<1>5. Len(s) \in S
    BY <1>0, <1>4
<1> QED BY <1>1, <1>5

LEMMA ForceIn ==
  ASSUME Corpus, NEW docs \in SUBSET Documents, NEW s \in Seq(docs)
  PROVE  InForce(s) \in Seq(docs \X Nat)
<1>1. gen \in [Documents -> {0, 1}]
    BY DEF Corpus
<1>2. Len(s) \in Nat /\ DOMAIN s = 1..Len(s) /\ \A i \in 1..Len(s) : s[i] \in docs
    OBVIOUS
<1>3. \A i \in 1..Len(s) : <<s[i], gen[s[i]]>> \in docs \X Nat
    BY <1>1, <1>2
<1> QED BY <1>2, <1>3 DEF InForce

\* A look-alike, no role and the empty set are the least role; the sentinel is itself.
LEMMA RolesResolved ==
  ASSUME Corpus, NEW arg \in Callers
  PROVE  /\ resolve(arg) \in {UNRESTRICTED} \cup SUBSET Classes
         /\ resolve(arg) = UNRESTRICTED <=> arg = UNRESTRICTED
         /\ arg # UNRESTRICTED => resolve(arg) = Granted(arg)
         /\ {d \in Documents : Sees(resolve(arg), d)} = Visible(arg)
         /\ Visible(arg) \in SUBSET Documents
<1>1. /\ UNRESTRICTED \notin {LookAlike, NoRole}
      /\ \A classes \in SUBSET Classes : classes \notin {UNRESTRICTED, LookAlike, NoRole}
    BY RetrievalAssumption
<1>2. /\ resolve(arg) \in {UNRESTRICTED} \cup SUBSET Classes
      /\ resolve(arg) = UNRESTRICTED <=> arg = UNRESTRICTED
  <2>1. {} \in SUBSET Classes /\ {"all"} \in SUBSET Classes
      BY DEF Classes
  <2> QED BY <1>1, <2>1 DEF Callers, resolve
<1>3. arg # UNRESTRICTED => resolve(arg) = Granted(arg)
  <2>1. \A c \in SUBSET Classes : c = {} \/ c \in {{d} : d \in Classes} \cup {Classes}
      BY DEF Classes
  <2>2. \A c \in {{d} : d \in Classes} \cup {Classes} : c \in SUBSET Classes /\ c # {}
      BY DEF Classes
  <2>3. CASE arg \in SUBSET Classes /\ arg # {}
      BY <1>1, <2>1, <2>3 DEF resolve, Granted
  <2>4. CASE arg \in {LookAlike, NoRole, {}}
    <3>1. arg \notin {{d} : d \in Classes} \cup {Classes}
        BY <1>1, <2>2, <2>4
    <3> QED BY <2>4, <3>1 DEF resolve, Granted
  <2> QED BY <2>3, <2>4 DEF Callers
<1>4. {d \in Documents : Sees(resolve(arg), d)} = Visible(arg)
  <2>1. CASE arg = UNRESTRICTED
      BY <1>2, <2>1 DEF Sees, Visible
  <2>2. CASE arg # UNRESTRICTED
      BY <1>2, <1>3, <2>2 DEF Sees, Visible
  <2> QED BY <2>1, <2>2
<1> QED BY <1>2, <1>3, <1>4 DEF Visible

LegKinds == {"dense", "sparse", "fold"}

LEMMA LegIsOwn ==
  ASSUME Corpus, NEW arg \in Callers, NEW query \in Queries, NEW leg \in LegKinds
  PROVE  /\ Leg(query, leg, resolve(arg)) = Without(arg, query, leg)
         /\ Without(arg, query, leg) \in Seq(Visible(arg) \X Nat)
<1> DEFINE V == Visible(arg)
           s == match[query][leg]
           w == Within(s, V)
<1>1. s \in Seq(Documents)
    BY DEF Corpus, LegKinds
<1>2. {d \in Documents : Sees(resolve(arg), d)} = V /\ V \in SUBSET Documents
    BY RolesResolved
<1>3. Leg(query, leg, resolve(arg)) = Without(arg, query, leg)
    BY <1>2 DEF Leg, Without
<1> HIDE DEF V, s
<1>4. w \in Seq(V)
  <2>1. w \in Seq(Documents \cap V)
      BY <1>1, WithinIn
  <2>2. Documents \cap V = V
      BY <1>2
  <2> QED BY <2>1, <2>2
<1> HIDE DEF w
<1>5. First(TOP_N, w) \in Seq(V)
    BY <1>4, FirstKeeps, RetrievalAssumption
<1>6. InForce(First(TOP_N, w)) \in Seq(V \X Nat)
    BY <1>2, <1>5, ForceIn
<1> QED BY <1>3, <1>6 DEF Without, w, s, V

LEMMA LegIsAll ==
  ASSUME Corpus, NEW query \in Queries, NEW leg \in LegKinds
  PROVE  /\ Leg(query, leg, UNRESTRICTED) = InForce(First(TOP_N, match[query][leg]))
         /\ Leg(query, leg, UNRESTRICTED) \in Seq(Documents \X Nat)
<1> DEFINE s == match[query][leg]
<1>1. s \in Seq(Documents)
    BY DEF Corpus, LegKinds
<1>2. {d \in Documents : Sees(UNRESTRICTED, d)} = Documents
    BY DEF Sees
<1> HIDE DEF s
<1>3. Within(s, Documents) = s
    BY <1>1, WithinAll
<1>4. First(TOP_N, s) \in Seq(Documents)
    BY <1>1, FirstKeeps, RetrievalAssumption
<1>5. InForce(First(TOP_N, s)) \in Seq(Documents \X Nat)
    BY <1>4, ForceIn
<1> QED BY <1>2, <1>3, <1>5 DEF Leg, s

LEMMA PlansAreLegs ==
  ASSUME NEW aux \in {"none", "question", "before"}
  PROVE  /\ Plan(aux) \in Seq(Queries \X LegKinds) /\ Len(Plan(aux)) > 0
         /\ ShadowPlan \in Seq(Queries \X LegKinds) /\ Len(ShadowPlan) > 0
         /\ LegNames \in Seq(LegKinds) /\ Len(ShadowPlan) = Len(LegNames)
         /\ \A l \in 1..Len(LegNames) : ShadowPlan[l] = <<"question", LegNames[l]>>
<1>1. LegNames \in Seq(LegKinds) /\ Len(LegNames) > 0
  <2> DEFINE three == <<"dense", "sparse", "fold">>
             two == <<"dense", "sparse">>
  <2>1. three \in Seq(LegKinds) /\ Len(three) = 3 /\ two \in Seq(LegKinds) /\ Len(two) = 2
      BY DEF LegKinds
  <2> HIDE DEF three, two
  <2>2. LegNames = three \/ LegNames = two
      BY DEF LegNames, three, two
  <2> QED BY <2>1, <2>2
<1>2. ASSUME NEW q \in Queries
      PROVE  /\ LegsOf(q) \in Seq(Queries \X LegKinds) /\ Len(LegsOf(q)) = Len(LegNames)
             /\ \A l \in 1..Len(LegNames) : LegsOf(q)[l] = <<q, LegNames[l]>>
  <2>1. \A l \in 1..Len(LegNames) : LegNames[l] \in LegKinds
      BY <1>1
  <2>2. DOMAIN LegNames = 1..Len(LegNames) /\ Len(LegNames) \in Nat
      BY <1>1
  <2> QED BY <2>1, <2>2 DEF LegsOf
<1>3. "question" \in Queries /\ "before" \in Queries
    BY DEF Queries
<1>4. LegsOf("question") \in Seq(Queries \X LegKinds) /\ LegsOf("before") \in Seq(Queries \X LegKinds)
    BY <1>2, <1>3
<1>5. Plan(aux) \in Seq(Queries \X LegKinds) /\ Len(Plan(aux)) > 0
  <2>1. CASE aux = "before"
    <3>1. Plan(aux) = LegsOf("question") \o LegsOf("before")
        BY <2>1 DEF Plan
    <3>2. Len(LegsOf("question")) > 0 /\ Len(LegsOf("before")) > 0
        BY <1>1, <1>2, <1>3
    <3> QED BY <1>4, <3>1, <3>2
  <2>2. CASE aux # "before"
    <3>1. Plan(aux) = LegsOf("question")
        BY <2>2 DEF Plan
    <3> QED BY <1>1, <1>2, <1>3, <3>1
  <2> QED BY <2>1, <2>2
<1> QED BY <1>1, <1>2, <1>3, <1>5 DEF ShadowPlan

LEMMA OwnRowsAreLegs ==
  ASSUME Corpus, NEW arg \in Callers, NEW aux \in {"none", "question", "before"}
  PROVE  /\ OwnRows(arg, aux) \in Seq(Seq(Visible(arg) \X Nat))
         /\ Len(OwnRows(arg, aux)) = Len(Plan(aux))
         /\ \A l \in 1..Len(Plan(aux)) :
              OwnRows(arg, aux)[l] = Leg(Plan(aux)[l][1], Plan(aux)[l][2], resolve(arg))
<1> DEFINE plan == Plan(aux)
           legs == OwnRows(arg, aux)
<1>1. plan \in Seq(Queries \X LegKinds)
    BY PlansAreLegs
<1>2. legs = [l \in DOMAIN plan |-> Without(arg, plan[l][1], plan[l][2])]
    BY DEF OwnRows
<1> HIDE DEF plan, legs
<1>3. DOMAIN plan = 1..Len(plan) /\ Len(plan) \in Nat
    BY <1>1
<1>4. ASSUME NEW l \in 1..Len(plan)
      PROVE  /\ Without(arg, plan[l][1], plan[l][2]) \in Seq(Visible(arg) \X Nat)
             /\ Leg(plan[l][1], plan[l][2], resolve(arg)) = Without(arg, plan[l][1], plan[l][2])
  <2>1. plan[l][1] \in Queries /\ plan[l][2] \in LegKinds
      BY <1>1
  <2> QED BY <2>1, LegIsOwn
<1>5. legs \in Seq(Seq(Visible(arg) \X Nat)) /\ Len(legs) = Len(plan)
    BY <1>2, <1>3, <1>4
<1>6. \A l \in 1..Len(plan) : legs[l] = Leg(plan[l][1], plan[l][2], resolve(arg))
    BY <1>2, <1>3, <1>4
<1> QED BY <1>5, <1>6 DEF plan, legs

LEMMA UnfilteredAreLegs ==
  ASSUME Corpus
  PROVE  /\ Unfiltered \in Seq(Seq(Documents \X Nat)) /\ Len(Unfiltered) = Len(ShadowPlan)
         /\ \A l \in 1..Len(ShadowPlan) :
              Unfiltered[l] = Leg(ShadowPlan[l][1], ShadowPlan[l][2], UNRESTRICTED)
<1>1. /\ LegNames \in Seq(LegKinds) /\ Len(ShadowPlan) = Len(LegNames)
      /\ \A l \in 1..Len(LegNames) : ShadowPlan[l] = <<"question", LegNames[l]>>
    BY PlansAreLegs
<1>2. DOMAIN LegNames = 1..Len(LegNames) /\ Len(LegNames) \in Nat
    BY <1>1
<1>3. Unfiltered = [l \in 1..Len(LegNames) |-> InForce(First(TOP_N, match["question"][LegNames[l]]))]
    BY <1>2 DEF Unfiltered
<1>4. ASSUME NEW l \in 1..Len(LegNames)
      PROVE  /\ Unfiltered[l] = Leg(ShadowPlan[l][1], ShadowPlan[l][2], UNRESTRICTED)
             /\ Unfiltered[l] \in Seq(Documents \X Nat)
  <2>1. LegNames[l] \in LegKinds /\ "question" \in Queries
      BY <1>1 DEF Queries
  <2>2. /\ Leg("question", LegNames[l], UNRESTRICTED) = InForce(First(TOP_N, match["question"][LegNames[l]]))
        /\ Leg("question", LegNames[l], UNRESTRICTED) \in Seq(Documents \X Nat)
      BY <2>1, LegIsAll
  <2>3. ShadowPlan[l][1] = "question" /\ ShadowPlan[l][2] = LegNames[l]
      BY <1>1
  <2>4. Unfiltered[l] = InForce(First(TOP_N, match["question"][LegNames[l]]))
      BY <1>3
  <2> QED BY <2>2, <2>3, <2>4
<1>5. Unfiltered \in Seq(Seq(Documents \X Nat)) /\ Len(Unfiltered) = Len(LegNames)
    BY <1>2, <1>3, <1>4
<1> QED BY <1>1, <1>4, <1>5

\* One leg of a plan done, the rest to do.
OneDone(X, plan, n, left) ==
  /\ left \in Seq(X) /\ Len(left) = Len(plan) - n
  /\ Head(left) = plan[n + 1] /\ plan[n + 1] \in X
  /\ Tail(left) \in Seq(X) /\ Tail(left) = SubSeq(plan, n + 2, Len(plan))

LEMMA LegDone ==
  ASSUME NEW X, NEW plan \in Seq(X), NEW n \in 0..(Len(plan) - 1),
         NEW left, left = SubSeq(plan, n + 1, Len(plan))
  PROVE  OneDone(X, plan, n, left)
<1> DEFINE m == Len(plan)
<1>0. m \in Nat /\ n \in Nat /\ n + 1 \in 1..m /\ m \in (n + 1)..m /\ \A i \in 1..m : plan[i] \in X
    OBVIOUS
<1>1. Head(left) = plan[n + 1] /\ Tail(left) = SubSeq(plan, (n + 1) + 1, m)
    BY <1>0, HeadTailOfSubSeq
<1>2. (n + 1) + 1 = n + 2
    BY <1>0
<1>3. left \in Seq(X) /\ Len(left) = m - n
  <2>1. \A i \in (n + 1)..m : plan[i] \in X
      BY <1>0
  <2>2. left \in Seq(X) /\ Len(left) = IF n + 1 <= m THEN m - (n + 1) + 1 ELSE 0
      BY <1>0, <2>1, SubSeqProperties
  <2>3. (IF n + 1 <= m THEN m - (n + 1) + 1 ELSE 0) = m - n
      BY <1>0
  <2> HIDE DEF m
  <2> QED BY <2>2, <2>3
<1>4. Tail(left) \in Seq(X)
  <2>1. \A i \in (n + 2)..m : plan[i] \in X
      BY <1>0
  <2>2. SubSeq(plan, n + 2, m) \in Seq(X)
    <3>1. n + 2 \in Int /\ m \in Int
        BY <1>0
    <3> QED BY <2>1, <3>1, SubSeqProperties
  <2> QED BY <1>1, <1>2, <2>2
<1> QED BY <1>0, <1>1, <1>2, <1>3, <1>4 DEF OneDone

LEMMA MorePools ==
  ASSUME NEW docs, NEW all, docs \subseteq all, NEW pool \in PoolsOf(docs)
  PROVE  pool \in PoolsOf(all)
<1>1. pool \in Seq(Entries(docs)) /\ Distinct(pool)
    BY DEF PoolsOf
<1>2. \A e \in Entries(docs) : e \in Entries(all)
  <2> SUFFICES ASSUME NEW e \in Entries(docs) PROVE e \in Entries(all)
      OBVIOUS
  <2>1. PICK c \in docs \X Nat, r \in Nat : e = [chunk |-> c, rrf |-> r]
      BY DEF Entries
  <2>2. c \in all \X Nat
      OBVIOUS
  <2> QED BY <2>1, <2>2 DEF Entries
<1>3. pool \in Seq(Entries(all))
    BY <1>1, <1>2
<1> QED BY <1>1, <1>3 DEF PoolsOf

NextFused(legs, n) ==
  /\ Fuse(Pools(legs)[n], legs[n + 1]) = Pools(legs)[n + 1]
  /\ Pools(legs)[0] = <<>>
  /\ n + 1 = Len(legs) => Pools(legs)[n + 1] = Pooled(legs)

LEMMA NextPool ==
  ASSUME NEW docs, NEW legs \in Seq(Seq(docs \X Nat)), NEW n \in 0..(Len(legs) - 1)
  PROVE  NextFused(legs, n) /\ Pools(legs)[n] \in PoolsOf(docs)
<1>1. PoolParts(legs, Pools(legs), docs)
    BY PoolsAreParts
<1>2. Len(legs) \in Nat /\ n + 1 \in 1..Len(legs) /\ n \in 0..Len(legs) /\ (n + 1) - 1 = n
    OBVIOUS
<1>3. Pools(legs)[n + 1] = Fuse(Pools(legs)[n], legs[n + 1])
    BY <1>1, <1>2 DEF PoolParts
<1> QED BY <1>1, <1>2, <1>3 DEF PoolParts, Pooled, NextFused

\* Nothing but a load changes what a search gives.
LEMMA SameRows ==
  ASSUME UNCHANGED <<class, gen, match>>, NEW arg, NEW aux
  PROVE  /\ Visible(arg)' = Visible(arg) /\ OwnRows(arg, aux)' = OwnRows(arg, aux)
         /\ Unfiltered' = Unfiltered
<1>1. Visible(arg)' = Visible(arg)
    BY DEF Visible
<1>4. OwnRows(arg, aux)' = OwnRows(arg, aux)
    BY <1>1 DEF OwnRows, Without, InForce
<1>5. Unfiltered' = Unfiltered
    BY DEF Unfiltered, InForce
<1> QED BY <1>1, <1>4, <1>5

LEMMA SameAsk ==
  ASSUME UNCHANGED <<class, gen, match>>, NEW k
  PROVE  /\ SearchingAt(k)' <=> SearchingAt(k)
         /\ GivenAt(k)' <=> GivenAt(k)
         /\ ShadowedAt(k)' <=> ShadowedAt(k)
<1>1. /\ Visible(k.arg)' = Visible(k.arg) /\ OwnRows(k.arg, k.aux)' = OwnRows(k.arg, k.aux)
      /\ Unfiltered' = Unfiltered
    BY SameRows
<1> QED BY <1>1 DEF SearchingAt, GivenAt, ShadowedAt

LEMMA NoResult ==
  ASSUME answer.state # "result"
  PROVE  OnlyVisible /\ SeesNoHidden /\ HiddenIsPresent
BY DEF OnlyVisible, SeesNoHidden, HiddenIsPresent, HasResult

\* What stays of the invariant when no answer is given.
LEMMA Unanswered ==
  ASSUME RtInv, UNCHANGED <<class, match, override>>,
         gen' \in [Documents -> {0, 1}], model' \in {"unloaded", "ready", "dead"},
         answer'.state \in {"none", "error"}, ask' \in AskRecord,
         ask'.at # "idle" => answer' = Nothing /\ ask'.visibility = resolve(ask'.arg),
         SearchingAt(ask)', GivenAt(ask)', ShadowedAt(ask)'
  PROVE  RtInv'
<1>1. Corpus'
    BY DEF RtInv, Corpus
<1>2. Asked'
    BY DEF Asked
<1>3. OnlyVisible' /\ SeesNoHidden' /\ HiddenIsPresent'
    BY NoResult DEF OnlyVisible, SeesNoHidden, HiddenIsPresent, HasResult
<1> QED BY <1>1, <1>2, <1>3 DEF RtInv

LEMMA TopInOrder ==
  ASSUME NEW docs, NEW pool \in PoolsOf(docs)
  PROVE  /\ First(TOP_N, Ordered(pool)) \in Seq(docs \X Nat)
         /\ IsInjective(First(TOP_N, Ordered(pool)))
         /\ First(TOP_K, First(TOP_N, Ordered(pool))) = First(TOP_K, Ordered(pool))
<1>1. TOP_N \in Nat /\ TOP_K \in Nat /\ TOP_K <= TOP_N
    BY RetrievalAssumption
<1>2. Ordered(pool) \in Seq(docs \X Nat) /\ IsInjective(Ordered(pool))
    BY OrderedOnce
<1> QED BY <1>1, <1>2, FirstKeeps, FirstOfFirst

LEMMA SearchStep ==
  ASSUME RtInv, Search
  PROVE  RtInv'
<1> USE DEF RtInv
<1>1. PICK k \in AskRecord : k = ask
    BY DEF Asked
<1> DEFINE docs == Visible(k.arg)
           plan == Plan(k.aux)
           legs == OwnRows(k.arg, k.aux)
           pools == Pools(legs)
           hits == Leg(Head(k.left)[1], Head(k.left)[2], k.visibility)
           pool == Fuse(k.pool, hits)
           last == Len(k.left) = 1
           more == [k EXCEPT !.pool = pool, !.left = Tail(@), !.at = IF last THEN "rerank" ELSE @,
                             !.total = IF last THEN Len(pool) ELSE 0,
                             !.chunks = IF last THEN First(TOP_N, Ordered(pool)) ELSE <<>>]
<1>2. /\ k.at = "legs" /\ ask' = more /\ UNCHANGED <<gen, model, answer, class, match, override>>
      /\ answer = Nothing /\ k.visibility = resolve(k.arg) /\ k.pool \in PoolsOf(docs)
      /\ Corpus
  <2>1. k.at = "legs" /\ ask' = more /\ UNCHANGED <<gen, model, answer, class, match, override>>
      BY <1>1 DEF Search, Still
  <2>2. answer = Nothing /\ k.visibility = resolve(k.arg)
      BY <1>1, <2>1 DEF Asked
  <2>3. k.pool \in PoolsOf(docs)
      BY <1>1, <2>1 DEF SearchingAt
  <2> QED BY <2>1, <2>2, <2>3
<1>3. k.arg \in Callers /\ k.aux \in {"none", "question", "before"} /\ k.reloads \in Nat
    BY DEF AskRecord
<1>4. PICK n \in 0..(Len(plan) - 1) : AfterLegs(k, plan, pools, n)
    BY <1>1, <1>2 DEF SearchingAt
<1>5. /\ plan \in Seq(Queries \X LegKinds) /\ Len(plan) \in Nat
      /\ legs \in Seq(Seq(docs \X Nat)) /\ Len(legs) = Len(plan)
      /\ \A l \in 1..Len(plan) : legs[l] = Leg(plan[l][1], plan[l][2], resolve(k.arg))
  <2> HIDE DEF plan, legs, docs
  <2>1. plan \in Seq(Queries \X LegKinds)
      BY <1>3, PlansAreLegs DEF plan
  <2>2. /\ legs \in Seq(Seq(docs \X Nat)) /\ Len(legs) = Len(plan)
        /\ \A l \in 1..Len(plan) : legs[l] = Leg(plan[l][1], plan[l][2], resolve(k.arg))
      BY <1>2, <1>3, OwnRowsAreLegs DEF plan, legs, docs
  <2> QED BY <2>1, <2>2
<1> HIDE DEF plan, legs, docs
<1>6. /\ Len(k.left) = Len(plan) - n /\ Head(k.left) = plan[n + 1]
      /\ Tail(k.left) \in Seq(Queries \X LegKinds)
      /\ Tail(k.left) = SubSeq(plan, n + 2, Len(plan))
  <2>1. k.left = SubSeq(plan, n + 1, Len(plan))
      BY <1>4 DEF AfterLegs
  <2>2. plan \in Seq(Queries \X LegKinds)
      BY <1>5
  <2>3. OneDone(Queries \X LegKinds, plan, n, k.left)
      BY <2>1, <2>2, LegDone
  <2> QED BY <2>3 DEF OneDone
<1>7. n \in Nat /\ n + 1 \in 1..Len(plan) /\ (last <=> n + 1 = Len(plan))
      /\ (~last => n + 1 \in 0..(Len(plan) - 1))
    BY <1>5, <1>6
<1>8. hits = legs[n + 1] /\ hits \in Seq(docs \X Nat)
    BY <1>2, <1>5, <1>6, <1>7
<1>9. /\ pool \in PoolsOf(docs)
      /\ k.reloads = 0 => pool = pools[n + 1]
      /\ n + 1 = Len(plan) => pools[n + 1] = Pooled(legs)
  <2>1. /\ Fuse(pools[n], legs[n + 1]) = pools[n + 1]
        /\ n + 1 = Len(legs) => pools[n + 1] = Pooled(legs)
    <3>1. n \in 0..(Len(legs) - 1) /\ legs \in Seq(Seq(docs \X Nat))
        BY <1>5
    <3>2. NextFused(legs, n)
        BY <3>1, NextPool
    <3> QED BY <3>2 DEF NextFused
  <2>2. k.reloads = 0 => k.pool = pools[n]
      BY <1>4 DEF AfterLegs
  <2> HIDE DEF hits, pools
  <2>3. pool \in PoolsOf(docs)
      BY <1>2, <1>8, FuseKeeps
  <2> QED BY <1>5, <1>8, <2>1, <2>2, <2>3
<1>10. /\ First(TOP_N, Ordered(pool)) \in Seq(docs \X Nat)
       /\ IsInjective(First(TOP_N, Ordered(pool)))
    BY <1>9, TopInOrder
<1>11. docs \subseteq Documents /\ Len(pool) \in Nat /\ pool \in PoolsOf(Documents)
       /\ First(TOP_N, Ordered(pool)) \in Seq(Chunks)
  <2> HIDE DEF pool
  <2>1. docs \subseteq Documents
      BY DEF docs, Visible
  <2>2. pool \in PoolsOf(Documents)
      BY <1>9, <2>1, MorePools
  <2>3. Len(pool) \in Nat
      BY <2>2 DEF PoolsOf
  <2>4. PICK s \in Seq(docs \X Nat) : s = First(TOP_N, Ordered(pool))
      BY <1>10
  <2>5. \A c \in docs \X Nat : c \in Chunks
      BY <2>1 DEF Chunks
  <2> QED BY <2>1, <2>2, <2>3, <2>4, <2>5
<1> HIDE DEF pool, hits, pools, last
<1> DEFINE top == First(TOP_N, Ordered(pool))
<1>12. PICK v : v = more
    OBVIOUS
<1> HIDE DEF top
<1>13. /\ v \in AskRecord /\ v.at = (IF last THEN "rerank" ELSE "legs") /\ v.arg = k.arg
       /\ v.visibility = k.visibility /\ v.aux = k.aux /\ v.left = Tail(k.left) /\ v.pool = pool
       /\ v.chunks = (IF last THEN top ELSE <<>>) /\ v.total = (IF last THEN Len(pool) ELSE 0)
       /\ v.reloads = k.reloads /\ v.ce = k.ce
  <2>1. top \in Seq(Chunks) /\ <<>> \in Seq(Chunks) /\ 0 \in Nat
      BY <1>11 DEF top
  <2>2. Tail(k.left) \in Seq(Queries \X {"dense", "sparse", "fold"})
      BY <1>6 DEF LegKinds
  <2>3. v = [k EXCEPT !.pool = pool, !.left = Tail(@), !.at = IF last THEN "rerank" ELSE @,
                      !.total = IF last THEN Len(pool) ELSE 0,
                      !.chunks = IF last THEN top ELSE <<>>]
      BY <1>12 DEF top
  <2> HIDE DEF more
  <2> QED BY <1>2, <1>11, <2>1, <2>2, <2>3 DEF AskRecord
<1> HIDE DEF more
<1>14. SearchingAt(v)
  <2> SUFFICES ASSUME v.at = "legs" PROVE SearchingAt(v)
      BY DEF SearchingAt
  <2>1. ~last
      BY <1>13
  <2>2. AfterLegs(v, plan, pools, n + 1)
    <3>1. (n + 1) + 1 = n + 2
        BY <1>7
    <3> QED BY <1>6, <1>9, <1>13, <3>1 DEF AfterLegs
  <2>3. n + 1 \in 0..(Len(plan) - 1)
      BY <1>7, <2>1
  <2> QED BY <1>9, <1>13, <2>2, <2>3 DEF SearchingAt, plan, docs, legs, pools
<1>15. GivenAt(v)
  <2> SUFFICES ASSUME v.at = "rerank" PROVE GivenAt(v)
      BY <1>13 DEF GivenAt
  <2>1. last /\ v.chunks = top /\ v.total = Len(pool)
      BY <1>13
  <2>2. k.reloads = 0 => pool = Pooled(legs)
      BY <1>7, <1>9, <2>1
  <2>3. \A i \in DOMAIN top : top[i][1] \in docs
    <3>1. PICK s \in Seq(docs \X Nat) : s = top
        BY <1>10 DEF top
    <3>2. \A i \in DOMAIN s : s[i] \in docs \X Nat
        OBVIOUS
    <3> QED BY <3>1, <3>2
  <2>4. IsInjective(top)
      BY <1>10 DEF top
  <2>5. k.reloads = 0 => top = First(TOP_N, Ordered(Pooled(legs))) /\ Len(pool) = Len(Pooled(legs))
      BY <2>2 DEF top
  <2> QED BY <1>13, <2>1, <2>3, <2>4, <2>5 DEF GivenAt, docs, legs
<1>16. ShadowedAt(v)
    BY <1>13 DEF ShadowedAt
<1>17. SearchingAt(v)' /\ GivenAt(v)' /\ ShadowedAt(v)'
    BY <1>2, <1>14, <1>15, <1>16, SameAsk
<1>18. ask' = v
    BY <1>2, <1>12
<1>19. SearchingAt(ask)' /\ GivenAt(ask)' /\ ShadowedAt(ask)'
    BY <1>17, <1>18
<1> QED
  <2>1. gen' \in [Documents -> {0, 1}] /\ model' \in {"unloaded", "ready", "dead"}
      BY <1>2 DEF Corpus
  <2>2. answer' = Nothing /\ Nothing.state = "none"
      BY <1>2 DEF Nothing
  <2>3. ask' \in AskRecord /\ ask'.visibility = resolve(ask'.arg)
      BY <1>2, <1>13, <1>18
  <2> QED BY <1>2, <1>19, <2>1, <2>2, <2>3, Unanswered

LEMMA PooledIn ==
  ASSUME NEW docs, NEW legs \in Seq(Seq(docs \X Nat))
  PROVE  Pooled(legs) \in PoolsOf(docs)
<1>1. PoolParts(legs, Pools(legs), docs)
    BY PoolsAreParts
<1>2. Len(legs) \in 0..Len(legs)
    OBVIOUS
<1> QED BY <1>1, <1>2 DEF PoolParts, Pooled

\* A search not begun: nothing fused, all legs to come.
LEMMA NotBegun ==
  ASSUME NEW docs, NEW X, NEW plan \in Seq(X), Len(plan) > 0,
         NEW legs \in Seq(Seq(docs \X Nat)), Len(legs) = Len(plan),
         NEW k, k.left = plan, k.pool = <<>>
  PROVE  \E n \in 0..(Len(plan) - 1) : AfterLegs(k, plan, Pools(legs), n)
<1>1. 0 \in 0..(Len(plan) - 1) /\ 0 \in 0..(Len(legs) - 1) /\ Len(plan) \in Nat
    OBVIOUS
<1>2. NextFused(legs, 0)
    BY <1>1, NextPool
<1>3. SubSeq(plan, 1, Len(plan)) = plan
    BY SubSeqFull
<1>4. AfterLegs(k, plan, Pools(legs), 0)
  <2>1. 0 + 1 = 1
      OBVIOUS
  <2> QED BY <1>2, <1>3, <2>1 DEF AfterLegs, NextFused
<1> QED BY <1>1, <1>4

LEMMA ScoredStep ==
  ASSUME RtInv, ask.at = "rerank", NEW s \in Seq(Chunks), NEW ce \in Seq(Nat), Scored(s, ce),
         \A i \in DOMAIN s : s[i][1] \in Visible(ask.arg),
         ce = <<>> => s = ask.chunks,
         UNCHANGED <<gen, answer, class, match, override>>,
         model' \in {"unloaded", "ready", "dead"}
  PROVE  RtInv'
<1> USE DEF RtInv
<1>1. PICK k \in AskRecord : k = ask
    BY DEF Asked
<1> DEFINE docs == Visible(k.arg)
           legs == OwnRows(k.arg, k.aux)
           open == k.visibility = UNRESTRICTED
           top == First(TOP_K, s)
           more == [k EXCEPT !.chunks = top, !.ce = ce, !.pool = <<>>,
                             !.at = IF open THEN "signal" ELSE "shadow",
                             !.left = IF open THEN <<>> ELSE ShadowPlan]
<1>2. /\ k.at = "rerank" /\ ask' = more /\ answer = Nothing /\ k.visibility = resolve(k.arg)
      /\ Corpus /\ GivenAt(k)
  <2>1. k.at = "rerank" /\ ask' = more
      BY <1>1 DEF Scored
  <2> QED BY <1>1, <2>1 DEF Asked
<1>3. k.arg \in Callers /\ k.aux \in {"none", "question", "before"} /\ k.reloads \in Nat
    BY DEF AskRecord
<1>4. /\ top \in Seq(Chunks)
      /\ \A i \in DOMAIN top : top[i][1] \in docs
  <2>1. TOP_K \in Nat
      BY RetrievalAssumption
  <2>2. top \in Seq(Chunks) /\ \A i \in 1..Len(top) : top[i] = s[i] /\ i \in 1..Len(s)
      BY <2>1, FirstKeeps
  <2>3. DOMAIN s = 1..Len(s) /\ DOMAIN top = 1..Len(top)
      BY <2>2
  <2> HIDE DEF top, docs
  <2>4. \A i \in DOMAIN s : s[i][1] \in docs
      BY <1>1 DEF docs
  <2> QED BY <2>2, <2>3, <2>4
<1>5. legs \in Seq(Seq(docs \X Nat))
    BY <1>2, <1>3, OwnRowsAreLegs
<1>6. /\ ShadowPlan \in Seq(Queries \X LegKinds) /\ Len(ShadowPlan) > 0
      /\ Unfiltered \in Seq(Seq(Documents \X Nat)) /\ Len(Unfiltered) = Len(ShadowPlan)
    BY <1>2, <1>3, PlansAreLegs, UnfilteredAreLegs
<1> HIDE DEF top, docs, legs, open
<1>7. PICK v : v = more
    OBVIOUS
<1>8. /\ v \in AskRecord /\ v.at = (IF open THEN "signal" ELSE "shadow") /\ v.arg = k.arg
      /\ v.visibility = k.visibility /\ v.aux = k.aux /\ v.pool = <<>> /\ v.chunks = top
      /\ v.left = (IF open THEN <<>> ELSE ShadowPlan) /\ v.total = k.total /\ v.ce = ce
      /\ v.reloads = k.reloads
  <2>1. /\ <<>> \in PoolsOf(Documents) /\ <<>> \in Seq(Queries \X LegKinds)
        /\ ShadowPlan \in Seq(Queries \X LegKinds)
      BY <1>6, EmptyPool
  <2>2. v = [k EXCEPT !.chunks = top, !.ce = ce, !.pool = <<>>,
                      !.at = IF open THEN "signal" ELSE "shadow",
                      !.left = IF open THEN <<>> ELSE ShadowPlan]
      BY <1>7
  <2> HIDE DEF more
  <2> QED BY <1>4, <2>1, <2>2 DEF AskRecord, LegKinds
<1> HIDE DEF more
<1>9. SearchingAt(v)
    BY <1>8 DEF SearchingAt
<1>10. GivenAt(v)
  <2>1. v.at # "rerank"
      BY <1>8
  <2>2. k.reloads = 0 => /\ k.total = Len(Pooled(legs))
                         /\ k.chunks = First(TOP_N, Ordered(Pooled(legs)))
      BY <1>2 DEF GivenAt, legs
  <2>3. k.reloads = 0 /\ ce = <<>> => top = First(TOP_K, Ordered(Pooled(legs)))
    <3> HAVE k.reloads = 0 /\ ce = <<>>
    <3>1. s = First(TOP_N, Ordered(Pooled(legs)))
        BY <1>1, <2>2
    <3>2. First(TOP_K, First(TOP_N, Ordered(Pooled(legs)))) = First(TOP_K, Ordered(Pooled(legs)))
      <4>1. Pooled(legs) \in PoolsOf(docs)
          BY <1>5, PooledIn
      <4> QED BY <4>1, TopInOrder
    <3> QED BY <3>1, <3>2 DEF top
  <2> QED BY <1>4, <1>8, <2>1, <2>2, <2>3 DEF GivenAt, docs, legs
<1>11. ShadowedAt(v)
  <2>1. CASE open
      BY <1>8, <2>1 DEF ShadowedAt, open
  <2>2. CASE ~open
    <3>1. v.at = "shadow" /\ v.left = ShadowPlan /\ v.pool = <<>> /\ v.visibility # UNRESTRICTED
        BY <1>8, <2>2 DEF open
    <3>2. \E n \in 0..(Len(ShadowPlan) - 1) : AfterLegs(v, ShadowPlan, Pools(Unfiltered), n)
        BY <1>6, <3>1, NotBegun
    <3> QED BY <3>1, <3>2 DEF ShadowedAt
  <2> QED BY <2>1, <2>2
<1>12. SearchingAt(v)' /\ GivenAt(v)' /\ ShadowedAt(v)'
    BY <1>9, <1>10, <1>11, SameAsk
<1>13. ask' = v
    BY <1>2, <1>7
<1>14. SearchingAt(ask)' /\ GivenAt(ask)' /\ ShadowedAt(ask)'
    BY <1>12, <1>13
<1> QED
  <2>1. gen' \in [Documents -> {0, 1}]
      BY <1>2 DEF Corpus
  <2>2. answer' = Nothing /\ Nothing.state = "none"
      BY <1>2 DEF Nothing
  <2>3. ask' \in AskRecord /\ ask'.visibility = resolve(ask'.arg)
      BY <1>2, <1>8, <1>13
  <2> QED BY <1>14, <2>1, <2>2, <2>3, Unanswered

\* The pool in another order is the same chunks.
Taken(chunks, order) == [p \in DOMAIN order |-> chunks[order[p]]]

TakenFrom(X, chunks, n, order, s) ==
  /\ s \in Seq(X) /\ Len(s) = n
  /\ \A p \in 1..n : s[p] = chunks[order[p]] /\ order[p] \in 1..n
  /\ \A p \in DOMAIN s : \E i \in DOMAIN chunks : s[p] = chunks[i]

LEMMA Reordered ==
  ASSUME NEW X, NEW chunks \in Seq(X), NEW n \in Nat, Len(chunks) = n, NEW order \in [1..n -> 1..n]
  PROVE  TakenFrom(X, chunks, n, order, Taken(chunks, order))
<1> DEFINE s == Taken(chunks, order)
<1>1. DOMAIN order = 1..n /\ DOMAIN chunks = 1..n /\ \A p \in 1..n : order[p] \in 1..n
    OBVIOUS
<1>2. \A p \in 1..n : chunks[order[p]] \in X
    BY <1>1
<1>3. s = [p \in 1..n |-> chunks[order[p]]]
    BY <1>1 DEF Taken
<1> HIDE DEF s
<1>4. s \in Seq(X) /\ Len(s) = n /\ DOMAIN s = 1..n
    BY <1>2, <1>3
<1> QED BY <1>1, <1>3, <1>4 DEF s, TakenFrom

LEMMA ScoresOrder ==
  ASSUME NEW ce \in Scores, NEW n, n = Len(ce)
  PROVE  n \in Nat /\ ce \in Seq(Nat) /\ ce \in [1..n -> 1..n] /\ Blend(ce) \in [1..n -> 1..n]
<1>1. ce \in Seq(Nat) /\ ToSet(ce) = 1..n
    BY RetrievalAssumption
<1>2. n \in Nat /\ DOMAIN ce = 1..n /\ ce = [i \in 1..n |-> ce[i]]
    BY <1>1
<1>3. \A i \in 1..n : ce[i] \in 1..n
    BY <1>1, <1>2 DEF ToSet
<1> QED BY <1>1, <1>2, <1>3, BlendVotes

LEMMA RerankStep ==
  ASSUME RtInv, Rerank \/ NoRerank
  PROVE  RtInv'
<1>1. PICK k \in AskRecord : k = ask
    BY DEF RtInv, Asked
<1>2. k.at = "rerank" /\ UNCHANGED <<gen, answer, class, match, override>>
    BY <1>1 DEF Rerank, NoRerank, Still
<1>3. /\ k.chunks \in Seq(Chunks) /\ \A i \in DOMAIN k.chunks : k.chunks[i][1] \in Visible(ask.arg)
      /\ model \in {"unloaded", "ready", "dead"}
  <2>1. k.chunks \in Seq(Chunks)
      BY DEF AskRecord
  <2> QED BY <1>1, <1>2, <2>1 DEF RtInv, GivenAt, Corpus
<1>4. CASE Scored(k.chunks, <<>>) /\ model' \in {"unloaded", "ready", "dead"}
  <2>1. <<>> \in Seq(Nat)
      OBVIOUS
  <2> QED BY <1>1, <1>2, <1>3, <1>4, <2>1, ScoredStep
<1>5. ASSUME NEW ce \in Scores, Len(ce) = Len(k.chunks), k.chunks # <<>>, model' = "ready",
             NEW order, order \in {ce, Blend(ce)},
             Scored(Taken(k.chunks, order), ce)
      PROVE  RtInv'
  <2> DEFINE n == Len(ce)
             s == Taken(k.chunks, order)
  <2>1. n \in Nat /\ ce \in Seq(Nat) /\ order \in [1..n -> 1..n]
      BY <1>5, ScoresOrder
  <2>2. n = Len(k.chunks)
      BY <1>5
  <2>3. PICK t : t = s
      OBVIOUS
  <2> HIDE DEF n, s
  <2>4. /\ t \in Seq(Chunks)
        /\ \A p \in DOMAIN t : \E i \in DOMAIN k.chunks : t[p] = k.chunks[i]
    <3>1. TakenFrom(Chunks, k.chunks, n, order, t)
        BY <1>3, <2>1, <2>2, <2>3, Reordered DEF s
    <3> QED BY <3>1 DEF TakenFrom
  <2>5. \A p \in DOMAIN t : t[p][1] \in Visible(ask.arg)
      BY <1>3, <2>4
  <2>6. ce # <<>>
    <3>1. ce = <<>> => Len(k.chunks) = 0
        BY <1>5
    <3> QED BY <1>3, <1>5, <3>1
  <2>7. Scored(t, ce)
      BY <1>5, <2>3 DEF s
  <2>8. ask.at = "rerank" /\ model' \in {"unloaded", "ready", "dead"}
      BY <1>1, <1>2, <1>5
  <2> QED BY <1>2, <2>1, <2>4, <2>5, <2>6, <2>7, <2>8, ScoredStep
<1>6. CASE NoRerank
  <2>1. Scored(k.chunks, <<>>) /\ model' = model
      BY <1>1, <1>6 DEF NoRerank
  <2> QED BY <1>3, <1>4, <2>1
<1>7. CASE Rerank
  <2>1. CASE model' = "dead" /\ Scored(k.chunks, <<>>)
      BY <1>4, <2>1
  <2>2. CASE ~(model' = "dead" /\ Scored(k.chunks, <<>>))
    <3>1. PICK ce \in {x \in Scores : Len(x) = Len(k.chunks)} :
            LET order == IF override THEN ce ELSE Blend(ce) IN
            /\ model' = "ready"
            /\ Scored([p \in DOMAIN order |-> k.chunks[order[p]]], ce)
        BY <1>1, <1>7, <2>2 DEF Rerank
    <3>2. PICK order : order = IF override THEN ce ELSE Blend(ce)
        OBVIOUS
    <3>3. order \in {ce, Blend(ce)}
        BY <3>2
    <3>4. Scored(Taken(k.chunks, order), ce)
        BY <3>1, <3>2 DEF Taken
    <3>5. k.chunks # <<>>
        BY <1>1, <1>7 DEF Rerank
    <3> QED BY <1>5, <3>1, <3>3, <3>4, <3>5
  <2> QED BY <2>1, <2>2
<1> QED BY <1>6, <1>7

\* No step but the reranker's gives a pool another order, and its vote is counted.
LEMMA VoteCounts ==
  ASSUME RtInv, [RtNext]_rtVars
  PROVE  BlendIsVote
<1> SUFFICES ASSUME ask.at = "rerank", ask'.ce # <<>>, ~override,
                    NEW i \in DOMAIN ask'.chunks, NEW j \in DOMAIN ask'.chunks, i < j,
                    IndexOf(ask.chunks, ask'.chunks[j]) < IndexOf(ask.chunks, ask'.chunks[i]),
                    IndexOf(ask'.ce, IndexOf(ask.chunks, ask'.chunks[j]))
                      < IndexOf(ask'.ce, IndexOf(ask.chunks, ask'.chunks[i]))
             PROVE  FALSE
    BY DEF BlendIsVote
<1>1. PICK k \in AskRecord : k = ask
    BY DEF RtInv, Asked
<1>2. k.at = "rerank" /\ IsInjective(k.chunks) /\ k.chunks \in Seq(Chunks)
  <2>1. k.chunks \in Seq(Chunks)
      BY DEF AskRecord
  <2> QED BY <1>1, <2>1 DEF RtInv, GivenAt
<1>3. ASSUME NEW p \in DOMAIN k.chunks PROVE IndexOf(k.chunks, k.chunks[p]) = p
  <2>1. \A q \in DOMAIN k.chunks : k.chunks[q] = k.chunks[p] => q = p
      BY <1>2 DEF IsInjective
  <2> QED BY <2>1 DEF IndexOf
<1>4. CASE Rerank
  <2>1. PICK ce \in {x \in Scores : Len(x) = Len(k.chunks)} :
          Scored(Taken(k.chunks, Blend(ce)), ce)
    <3>1. CASE Scored(k.chunks, <<>>)
      <4>1. ask' = [k EXCEPT !.chunks = First(TOP_K, k.chunks), !.ce = <<>>, !.pool = <<>>,
                      !.at = IF k.visibility = UNRESTRICTED THEN "signal" ELSE "shadow",
                      !.left = IF k.visibility = UNRESTRICTED THEN <<>> ELSE ShadowPlan]
          BY <1>1, <3>1 DEF Scored
      <4>2. ask'.ce = <<>>
          BY <4>1 DEF AskRecord
      <4> QED BY <4>2
    <3>2. CASE ~Scored(k.chunks, <<>>)
        BY <1>1, <1>4, <3>2 DEF Rerank, Taken
    <3> QED BY <3>1, <3>2
  <2> DEFINE n == Len(ce)
             order == Blend(ce)
             s == Taken(k.chunks, order)
  <2>2. /\ n \in Nat /\ order \in [1..n -> 1..n]
        /\ \A p, q \in 1..n : p < q => ~ /\ order[q] < order[p]
                                         /\ Rank(ce, order[q]) < Rank(ce, order[p])
      BY BlendVotes
  <2>3. n = Len(k.chunks) /\ DOMAIN k.chunks = 1..n
      BY <1>2, <2>1
  <2>4. ask'.chunks = First(TOP_K, s) /\ ask'.ce = ce
    <3>1. ask' = [k EXCEPT !.chunks = First(TOP_K, s), !.ce = ce, !.pool = <<>>,
                    !.at = IF k.visibility = UNRESTRICTED THEN "signal" ELSE "shadow",
                    !.left = IF k.visibility = UNRESTRICTED THEN <<>> ELSE ShadowPlan]
        BY <1>1, <2>1 DEF Scored
    <3> HIDE DEF s
    <3> QED BY <3>1 DEF AskRecord
  <2> HIDE DEF n, order
  <2>5. PICK t : t = s
      OBVIOUS
  <2> HIDE DEF s
  <2>6. /\ t \in Seq(Chunks) /\ Len(t) = n
        /\ \A p \in 1..n : t[p] = k.chunks[order[p]] /\ order[p] \in 1..n
    <3>1. TakenFrom(Chunks, k.chunks, n, order, t)
        BY <1>2, <2>2, <2>3, <2>5, Reordered DEF s
    <3> QED BY <3>1 DEF TakenFrom
  <2>7. PICK u : u = First(TOP_K, t)
      OBVIOUS
  <2>8. ask'.chunks = u
      BY <2>4, <2>5, <2>7
  <2>9. u \in Seq(Chunks) /\ \A p \in 1..Len(u) : u[p] = t[p] /\ p \in 1..n
    <3>1. TOP_K \in Nat
        BY RetrievalAssumption
    <3> QED BY <2>6, <2>7, <3>1, FirstKeeps
  <2>10. i \in 1..n /\ j \in 1..n /\ u[i] = k.chunks[order[i]] /\ u[j] = k.chunks[order[j]]
    <3>1. i \in 1..Len(u) /\ j \in 1..Len(u)
        BY <2>8, <2>9
    <3> QED BY <2>6, <2>9, <3>1
  <2>11. IndexOf(k.chunks, u[i]) = order[i] /\ IndexOf(k.chunks, u[j]) = order[j]
      BY <1>3, <2>3, <2>6, <2>10
  <2>12. \A x : IndexOf(ce, x) = Rank(ce, x)
      BY DEF IndexOf, Rank
  <2>13. order[j] < order[i] /\ Rank(ce, order[j]) < Rank(ce, order[i])
      BY <1>1, <2>4, <2>8, <2>11, <2>12
  <2> QED BY <2>2, <2>10, <2>13
<1>5. CASE NoRerank
  <2>1. ask' = [k EXCEPT !.chunks = First(TOP_K, k.chunks), !.ce = <<>>, !.pool = <<>>,
                  !.at = IF k.visibility = UNRESTRICTED THEN "signal" ELSE "shadow",
                  !.left = IF k.visibility = UNRESTRICTED THEN <<>> ELSE ShadowPlan]
      BY <1>1, <1>5 DEF NoRerank, Scored
  <2>2. ask'.ce = <<>>
      BY <2>1 DEF AskRecord
  <2> QED BY <2>2
<1>6. CASE UNCHANGED rtVars
  <2>1. ask' = k
      BY <1>1, <1>6 DEF rtVars
  <2>2. i \in Nat /\ j \in Nat
      BY <1>2, <2>1
  <2>3. IndexOf(k.chunks, k.chunks[i]) = i /\ IndexOf(k.chunks, k.chunks[j]) = j
      BY <1>3, <2>1
  <2> QED BY <1>1, <2>1, <2>2, <2>3
<1> QED
  <2>1. RtNext => Rerank \/ NoRerank
      BY <1>1, <1>2 DEF RtNext, Ask, Search, Shadow, Signal, ShadowFails, SearchFails, Reload
  <2> QED BY <1>4, <1>5, <1>6, <2>1

LEMMA ShadowStep ==
  ASSUME RtInv, Shadow
  PROVE  RtInv'
<1> USE DEF RtInv
<1>1. PICK k \in AskRecord : k = ask
    BY DEF Asked
<1> DEFINE plan == ShadowPlan
           legs == Unfiltered
           pools == Pools(legs)
           hits == Leg(Head(k.left)[1], Head(k.left)[2], UNRESTRICTED)
           pool == Fuse(k.pool, hits)
           last == Len(k.left) = 1
           more == [k EXCEPT !.pool = pool, !.left = Tail(@), !.at = IF last THEN "signal" ELSE @]
<1>2. /\ k.at = "shadow" /\ ask' = more /\ UNCHANGED <<gen, model, answer, class, match, override>>
      /\ answer = Nothing /\ k.visibility = resolve(k.arg) /\ k.visibility # UNRESTRICTED
      /\ Corpus /\ GivenAt(k)
  <2>1. k.at = "shadow" /\ ask' = more /\ UNCHANGED <<gen, model, answer, class, match, override>>
      BY <1>1 DEF Shadow, Still
  <2>2. answer = Nothing /\ k.visibility = resolve(k.arg)
      BY <1>1, <2>1 DEF Asked
  <2>3. k.visibility # UNRESTRICTED
      BY <1>1, <2>1 DEF ShadowedAt
  <2> QED BY <1>1, <2>1, <2>2, <2>3
<1>3. k.aux \in {"none", "question", "before"} /\ k.pool \in PoolsOf(Documents)
    BY DEF AskRecord
<1>4. PICK n \in 0..(Len(plan) - 1) : AfterLegs(k, plan, pools, n)
    BY <1>1, <1>2 DEF ShadowedAt
<1>5. /\ plan \in Seq(Queries \X LegKinds) /\ Len(plan) \in Nat
      /\ legs \in Seq(Seq(Documents \X Nat)) /\ Len(legs) = Len(plan)
      /\ \A l \in 1..Len(plan) : legs[l] = Leg(plan[l][1], plan[l][2], UNRESTRICTED)
  <2> HIDE DEF plan, legs
  <2>1. plan \in Seq(Queries \X LegKinds)
      BY <1>3, PlansAreLegs DEF plan
  <2>2. /\ legs \in Seq(Seq(Documents \X Nat)) /\ Len(legs) = Len(plan)
        /\ \A l \in 1..Len(plan) : legs[l] = Leg(plan[l][1], plan[l][2], UNRESTRICTED)
      BY <1>2, UnfilteredAreLegs DEF plan, legs
  <2> QED BY <2>1, <2>2
<1> HIDE DEF plan, legs
<1>6. /\ Len(k.left) = Len(plan) - n /\ Head(k.left) = plan[n + 1]
      /\ Tail(k.left) \in Seq(Queries \X LegKinds)
      /\ Tail(k.left) = SubSeq(plan, n + 2, Len(plan))
  <2>1. k.left = SubSeq(plan, n + 1, Len(plan))
      BY <1>4 DEF AfterLegs
  <2>2. OneDone(Queries \X LegKinds, plan, n, k.left)
      BY <1>5, <2>1, LegDone
  <2> QED BY <2>2 DEF OneDone
<1>7. n \in Nat /\ n + 1 \in 1..Len(plan) /\ (last <=> n + 1 = Len(plan))
      /\ (~last => n + 1 \in 0..(Len(plan) - 1))
    BY <1>5, <1>6
<1>8. hits = legs[n + 1] /\ hits \in Seq(Documents \X Nat)
    BY <1>5, <1>6, <1>7
<1>9. /\ pool \in PoolsOf(Documents)
      /\ k.reloads = 0 => pool = pools[n + 1]
      /\ n + 1 = Len(plan) => pools[n + 1] = Pooled(legs)
  <2>1. NextFused(legs, n)
    <3>1. n \in 0..(Len(legs) - 1)
        BY <1>5
    <3> QED BY <1>5, <3>1, NextPool
  <2>2. k.reloads = 0 => k.pool = pools[n]
      BY <1>4 DEF AfterLegs
  <2>3. pool \in PoolsOf(Documents)
    <3> HIDE DEF hits
    <3> QED BY <1>3, <1>8, FuseKeeps
  <2> QED BY <1>5, <1>8, <2>1, <2>2, <2>3 DEF NextFused
<1> HIDE DEF pool, hits, pools, last
<1>12. PICK v : v = more
    OBVIOUS
<1>13. /\ v \in AskRecord /\ v.at = (IF last THEN "signal" ELSE "shadow") /\ v.arg = k.arg
       /\ v.visibility = k.visibility /\ v.aux = k.aux /\ v.left = Tail(k.left) /\ v.pool = pool
       /\ v.chunks = k.chunks /\ v.total = k.total /\ v.reloads = k.reloads /\ v.ce = k.ce
  <2>1. Tail(k.left) \in Seq(Queries \X {"dense", "sparse", "fold"})
      BY <1>6 DEF LegKinds
  <2>2. v = [k EXCEPT !.pool = pool, !.left = Tail(@), !.at = IF last THEN "signal" ELSE @]
      BY <1>12
  <2> HIDE DEF more
  <2> QED BY <1>2, <1>9, <2>1, <2>2 DEF AskRecord
<1> HIDE DEF more
<1>14. SearchingAt(v)
    BY <1>13 DEF SearchingAt
<1>15. GivenAt(v)
  <2>1. v.at # "rerank" /\ v.at \in {"rerank", "shadow", "signal"}
      BY <1>13
  <2> QED BY <1>2, <1>13, <2>1 DEF GivenAt
<1>16. ShadowedAt(v)
  <2>1. CASE last
    <3>1. v.at = "signal" /\ v.pool = pool /\ v.reloads = k.reloads
        BY <1>13, <2>1
    <3>2. k.reloads = 0 => pool = Pooled(legs)
        BY <1>7, <1>9, <2>1
    <3> QED BY <3>1, <3>2 DEF ShadowedAt, legs
  <2>2. CASE ~last
    <3>1. v.at = "shadow" /\ v.visibility # UNRESTRICTED
        BY <1>2, <1>13, <2>2
    <3>2. AfterLegs(v, plan, pools, n + 1)
      <4>1. (n + 1) + 1 = n + 2
          BY <1>7
      <4> QED BY <1>6, <1>9, <1>13, <4>1 DEF AfterLegs
    <3>3. n + 1 \in 0..(Len(plan) - 1)
        BY <1>7, <2>2
    <3> QED BY <3>1, <3>2, <3>3 DEF ShadowedAt, plan, legs, pools
  <2> QED BY <2>1, <2>2
<1>17. SearchingAt(v)' /\ GivenAt(v)' /\ ShadowedAt(v)'
    BY <1>2, <1>14, <1>15, <1>16, SameAsk
<1>18. ask' = v
    BY <1>2, <1>12
<1>19. SearchingAt(ask)' /\ GivenAt(ask)' /\ ShadowedAt(ask)'
    BY <1>17, <1>18
<1> QED
  <2>1. gen' \in [Documents -> {0, 1}] /\ model' \in {"unloaded", "ready", "dead"}
      BY <1>2 DEF Corpus
  <2>2. answer' = Nothing /\ Nothing.state = "none"
      BY <1>2 DEF Nothing
  <2>3. ask' \in AskRecord /\ ask'.visibility = resolve(ask'.arg)
      BY <1>2, <1>13, <1>18
  <2> QED BY <1>2, <1>19, <2>1, <2>2, <2>3, Unanswered

\* No retrieval under way: nothing to say of it.
LEMMA NoneAsked ==
  /\ NoAsk \in AskRecord /\ NoAsk.at = "idle"
  /\ SearchingAt(NoAsk) /\ GivenAt(NoAsk) /\ ShadowedAt(NoAsk)
  /\ SearchingAt(NoAsk)' /\ GivenAt(NoAsk)' /\ ShadowedAt(NoAsk)'
<1>1. NoAsk \in AskRecord
  <2>1. /\ <<>> \in PoolsOf(Documents) /\ <<>> \in Seq(Chunks) /\ <<>> \in Seq(Nat) /\ 0 \in Nat
        /\ <<>> \in Seq(Queries \X {"dense", "sparse", "fold"})
      BY EmptyPool
  <2>2. NoRole \in Callers /\ {"all"} \in SUBSET Classes
      BY DEF Callers, Classes
  <2> QED BY <2>1, <2>2 DEF NoAsk, AskRecord
<1>2. NoAsk.at = "idle"
    BY DEF NoAsk
<1> QED BY <1>1, <1>2 DEF SearchingAt, GivenAt, ShadowedAt

LEMMA FailStep ==
  ASSUME RtInv, SearchFails
  PROVE  RtInv'
<1>1. /\ ask' = NoAsk /\ answer' = [state |-> "error"]
      /\ UNCHANGED <<gen, model, class, match, override>>
    BY DEF SearchFails, Still
<1>2. gen' \in [Documents -> {0, 1}] /\ model' \in {"unloaded", "ready", "dead"}
    BY <1>1 DEF RtInv, Corpus
<1>3. answer'.state = "error"
    BY <1>1
<1>4. SearchingAt(ask)' /\ GivenAt(ask)' /\ ShadowedAt(ask)'
    BY <1>1, NoneAsked
<1>5. ask' \in AskRecord /\ ask'.at = "idle"
    BY <1>1, NoneAsked
<1> QED BY <1>1, <1>2, <1>3, <1>4, <1>5, Unanswered

\* A document loaded between two statements: the legs to come are of another corpus.
LEMMA ReloadStep ==
  ASSUME RtInv, NEW d \in Documents, Reload(d)
  PROVE  RtInv'
<1>1. PICK k \in AskRecord : k = ask
    BY DEF RtInv, Asked
<1>2. PICK v : v = [k EXCEPT !.reloads = @ + 1]
    OBVIOUS
<1>3. /\ k.at \in {"legs", "shadow"} /\ ask' = v /\ UNCHANGED <<model, answer, class, match, override>>
      /\ gen' = [gen EXCEPT ![d] = 1 - @]
    BY <1>1, <1>2 DEF Reload, Still
<1>4. /\ v \in AskRecord /\ v.at = k.at /\ v.arg = k.arg /\ v.visibility = k.visibility
      /\ v.aux = k.aux /\ v.left = k.left /\ v.pool = k.pool /\ v.chunks = k.chunks
      /\ v.reloads # 0
  <2>1. PICK m : m = k.reloads + 1
      OBVIOUS
  <2>2. m \in Nat /\ m # 0
    <3>1. k.reloads \in Nat
        BY DEF AskRecord
    <3> QED BY <2>1, <3>1
  <2>3. v = [k EXCEPT !.reloads = m]
      BY <1>2, <2>1
  <2> QED BY <2>2, <2>3 DEF AskRecord
<1>5. /\ SearchingAt(k) /\ GivenAt(k) /\ ShadowedAt(k) /\ answer = Nothing
      /\ k.visibility = resolve(k.arg)
    BY <1>1, <1>3 DEF RtInv, Asked
<1>6. Visible(k.arg)' = Visible(k.arg)
    BY <1>3 DEF Visible
<1>7. SearchingAt(v)'
  <2> SUFFICES ASSUME v.at = "legs" PROVE SearchingAt(v)'
      BY DEF SearchingAt
  <2>1. PICK n \in 0..(Len(Plan(k.aux)) - 1) :
          AfterLegs(k, Plan(k.aux), Pools(OwnRows(k.arg, k.aux)), n)
      BY <1>4, <1>5 DEF SearchingAt
  <2>2. v.left = SubSeq(Plan(v.aux), n + 1, Len(Plan(v.aux)))
      BY <1>4, <2>1 DEF AfterLegs
  <2>3. n \in 0..(Len(Plan(v.aux)) - 1)
      BY <1>4
  <2>4. v.pool \in PoolsOf(Visible(v.arg)')
      BY <1>4, <1>5, <1>6 DEF SearchingAt
  <2> QED BY <1>4, <2>2, <2>3, <2>4 DEF SearchingAt, AfterLegs
<1>8. GivenAt(v)'
  <2>1. v.at # "rerank"
      BY <1>3, <1>4
  <2>2. v.at = "shadow" => \A i \in DOMAIN v.chunks : v.chunks[i][1] \in Visible(v.arg)'
      BY <1>4, <1>5, <1>6 DEF GivenAt
  <2> QED BY <1>3, <1>4, <2>1, <2>2 DEF GivenAt
<1>9. ShadowedAt(v)'
  <2>1. v.at # "signal"
      BY <1>3, <1>4
  <2> SUFFICES ASSUME v.at = "shadow" PROVE ShadowedAt(v)'
      BY <2>1 DEF ShadowedAt
  <2>2. PICK n \in 0..(Len(ShadowPlan) - 1) : AfterLegs(k, ShadowPlan, Pools(Unfiltered), n)
      BY <1>4, <1>5 DEF ShadowedAt
  <2>3. v.left = SubSeq(ShadowPlan, n + 1, Len(ShadowPlan)) /\ v.visibility # UNRESTRICTED
      BY <1>4, <1>5, <2>2 DEF AfterLegs, ShadowedAt
  <2> QED BY <1>4, <2>1, <2>3 DEF ShadowedAt, AfterLegs
<1>10. gen' \in [Documents -> {0, 1}] /\ model' \in {"unloaded", "ready", "dead"}
  <2>1. gen \in [Documents -> {0, 1}] /\ model \in {"unloaded", "ready", "dead"}
      BY DEF RtInv, Corpus
  <2>2. 1 - gen[d] \in {0, 1}
      BY <2>1
  <2> QED BY <1>3, <2>1, <2>2
<1>11. answer' = Nothing /\ Nothing.state = "none"
    BY <1>3, <1>5 DEF Nothing
<1>12. ask' \in AskRecord /\ ask'.visibility = resolve(ask'.arg)
    BY <1>3, <1>4, <1>5
<1>13. SearchingAt(ask)' /\ GivenAt(ask)' /\ ShadowedAt(ask)'
    BY <1>3, <1>7, <1>8, <1>9
<1> QED BY <1>3, <1>10, <1>11, <1>12, <1>13, Unanswered

\* The legs are lists of chunks at every state.
RowsAreLists ==
  \A arg \in Callers, aux \in {"none", "question", "before"} :
    /\ OwnRows(arg, aux) \in Seq(Seq(Visible(arg) \X Nat))
    /\ Len(OwnRows(arg, aux)) = Len(Plan(aux))

LEMMA RowsAlwaysLists == Corpus => RowsAreLists
BY OwnRowsAreLegs DEF RowsAreLists

LEMMA AskStep ==
  ASSUME RtInv, NEW arg \in Callers, NEW aux \in {"none", "question", "before"}, Ask(arg, aux)
  PROVE  RtInv'
<1>1. PICK v : v = [NoAsk EXCEPT !.at = "legs", !.arg = arg, !.visibility = resolve(arg),
                                 !.aux = aux, !.left = Plan(aux)]
    OBVIOUS
<1>2. /\ ask' = v /\ answer' = Nothing /\ UNCHANGED <<model, class, match, override>>
      /\ gen' = [e \in Documents |-> 0]
    BY <1>1 DEF Ask, Still
<1>3. Plan(aux) \in Seq(Queries \X LegKinds) /\ Len(Plan(aux)) > 0
    BY PlansAreLegs
<1>4. resolve(arg) \in {UNRESTRICTED} \cup SUBSET Classes
    BY RolesResolved DEF RtInv
<1>5. /\ v \in AskRecord /\ v.at = "legs" /\ v.arg = arg /\ v.visibility = resolve(arg)
      /\ v.aux = aux /\ v.left = Plan(aux) /\ v.pool = <<>>
  <2>1. NoAsk \in AskRecord
      BY NoneAsked
  <2>2. NoAsk.pool = <<>>
      BY DEF NoAsk
  <2> QED BY <1>1, <1>3, <1>4, <2>1, <2>2 DEF AskRecord, LegKinds
<1>6. gen' \in [Documents -> {0, 1}] /\ model' \in {"unloaded", "ready", "dead"}
    BY <1>2 DEF RtInv, Corpus
<1>7. RowsAreLists'
  <2>1. Corpus'
      BY <1>2, <1>6 DEF RtInv, Corpus
  <2>2. (Corpus => RowsAreLists)'
      BY RowsAlwaysLists, PTL
  <2> QED BY <2>1, <2>2
<1>8. SearchingAt(v)'
  <2>1. PICK docs : docs = Visible(arg)'
      OBVIOUS
  <2>2. PICK legs : legs = OwnRows(arg, aux)'
      OBVIOUS
  <2>3. legs \in Seq(Seq(docs \X Nat)) /\ Len(legs) = Len(Plan(aux))
      BY <1>7, <2>1, <2>2 DEF RowsAreLists
  <2>4. \E n \in 0..(Len(Plan(aux)) - 1) : AfterLegs(v, Plan(aux), Pools(legs), n)
      BY <1>3, <1>5, <2>3, NotBegun
  <2>5. <<>> \in PoolsOf(docs)
      BY EmptyPool
  <2> QED BY <1>5, <2>1, <2>2, <2>4, <2>5 DEF SearchingAt
<1>9. GivenAt(v)' /\ ShadowedAt(v)'
    BY <1>5 DEF GivenAt, ShadowedAt
<1>10. SearchingAt(ask)' /\ GivenAt(ask)' /\ ShadowedAt(ask)'
    BY <1>2, <1>8, <1>9
<1>11. answer'.state = "none"
    BY <1>2 DEF Nothing
<1>12. ask' \in AskRecord /\ ask'.visibility = resolve(ask'.arg)
    BY <1>2, <1>5
<1> QED BY <1>2, <1>6, <1>10, <1>11, <1>12, Unanswered

\* The answer given is what the invariant says of the search that gave it.
LEMMA RespondStep ==
  ASSUME RtInv, Signal \/ ShadowFails
  PROVE  RtInv'
<1>1. PICK k \in AskRecord : k = ask
    BY DEF RtInv, Asked
<1>2. PICK pool : /\ Respond(pool)
                  /\ \/ k.at = "signal" /\ pool = k.pool
                     \/ k.at = "shadow" /\ pool = <<>>
    BY <1>1 DEF Signal, ShadowFails
<1> DEFINE hidden == _hidden_in_top_k(pool, k.visibility)
<1>3. PICK r : r = [state |-> "result", arg |-> k.arg, aux |-> k.aux, chunks |-> k.chunks,
                    ce |-> k.ce, total |-> k.total, whole |-> k.reloads = 0, hidden |-> hidden]
    OBVIOUS
<1>4. answer' = r /\ ask' = NoAsk /\ UNCHANGED <<gen, model, class, match, override>>
    BY <1>1, <1>2, <1>3 DEF Respond, Still
<1> HIDE DEF hidden
<1>5. /\ r.state = "result" /\ r.arg = k.arg /\ r.aux = k.aux /\ r.chunks = k.chunks /\ r.ce = k.ce
      /\ r.total = k.total /\ (r.whole <=> k.reloads = 0) /\ r.hidden = hidden
    BY <1>3
<1>6. /\ k.arg \in Callers /\ k.visibility = resolve(k.arg) /\ Corpus /\ GivenAt(k)
      /\ ShadowedAt(k) /\ k.at \in {"shadow", "signal"}
    BY <1>1, <1>2 DEF RtInv, Asked, AskRecord
<1>7. /\ Visible(k.arg)' = Visible(k.arg) /\ OwnRows(k.arg, k.aux)' = OwnRows(k.arg, k.aux)
      /\ Unfiltered' = Unfiltered
    BY <1>4, SameRows
<1>8. OnlyVisible'
  <2> SUFFICES ASSUME k.arg # UNRESTRICTED, NEW i \in DOMAIN k.chunks
               PROVE  class[k.chunks[i][1]] \in Granted(k.arg)
      BY <1>4, <1>5 DEF OnlyVisible
  <2>1. k.chunks[i][1] \in Visible(k.arg)
      BY <1>6 DEF GivenAt
  <2> QED BY <2>1 DEF Visible
<1>9. SeesNoHidden'
  <2>1. k.reloads = 0 =>
          /\ k.total = Len(Pooled(OwnRows(k.arg, k.aux)))
          /\ k.ce = <<>> => k.chunks = First(TOP_K, Ordered(Pooled(OwnRows(k.arg, k.aux))))
      BY <1>6 DEF GivenAt
  <2> QED BY <1>4, <1>5, <1>7, <2>1 DEF SeesNoHidden
<1> DEFINE top(p) == First(HIDDEN_TOP_K, Ordered(p))
           named(p) == {class[top(p)[i][1]] : i \in DOMAIN top(p)}
<1>10. hidden = IF k.visibility = UNRESTRICTED THEN {} ELSE named(pool) \ k.visibility
    BY DEF hidden, _hidden_in_top_k
<1>11. k.at = "shadow" => named(pool) = {}
  <2> HAVE k.at = "shadow"
  <2>1. pool = <<>>
      BY <1>2
  <2>2. /\ Ordered(pool) \in Seq(Documents \X Nat) /\ Len(Ordered(pool)) = 0
    <3>1. <<>> \in PoolsOf(Documents) /\ Len(<<>>) = 0
        BY EmptyPool
    <3> QED BY <2>1, <3>1, OrderedOnce
  <2>3. HIDDEN_TOP_K \in Nat
      BY RetrievalAssumption
  <2>4. top(pool) \in Seq(Documents \X Nat) /\ Len(top(pool)) = 0
    <3>1. /\ top(pool) \in Seq(Documents \X Nat)
          /\ Len(top(pool)) = IF Len(Ordered(pool)) < HIDDEN_TOP_K THEN Len(Ordered(pool)) ELSE HIDDEN_TOP_K
        BY <2>2, <2>3, FirstKeeps
    <3> HIDE DEF top
    <3> QED BY <2>2, <2>3, <3>1
  <2> HIDE DEF top
  <2>5. DOMAIN top(pool) = {}
      BY <2>4
  <2> QED BY <2>5
<1>12. k.at = "signal" /\ k.visibility # UNRESTRICTED /\ k.reloads = 0 => pool = Pooled(Unfiltered)
    BY <1>2, <1>6 DEF ShadowedAt
<1> HIDE DEF named
<1>13. \A d \in Visible(k.arg) : class[d] \notin hidden
  <2> SUFFICES ASSUME NEW d \in Visible(k.arg), class[d] \in hidden PROVE FALSE
      OBVIOUS
  <2>1. k.visibility # UNRESTRICTED /\ class[d] \notin k.visibility
      BY <1>10
  <2>2. k.arg # UNRESTRICTED /\ k.visibility = Granted(k.arg)
      BY <1>6, <2>1, RolesResolved
  <2> QED BY <2>1, <2>2 DEF Visible
<1>14. k.reloads = 0 => hidden \subseteq named(Pooled(Unfiltered))
  <2> HAVE k.reloads = 0
  <2>1. CASE k.visibility = UNRESTRICTED
      BY <1>10, <2>1
  <2>2. CASE k.at = "shadow"
      BY <1>10, <1>11, <2>2
  <2>3. CASE k.at = "signal" /\ k.visibility # UNRESTRICTED
      BY <1>10, <1>12, <2>3
  <2> QED BY <1>6, <2>1, <2>2, <2>3
<1>15. HiddenIsPresent'
  <2> HIDE DEF hidden
  <2>1. PICK all : all = First(HIDDEN_TOP_K, Ordered(Pooled(Unfiltered)))
      OBVIOUS
  <2>2. k.reloads = 0 => hidden \subseteq {class[all[i][1]] : i \in DOMAIN all}
      BY <1>14, <2>1 DEF named, top
  <2>3. First(HIDDEN_TOP_K, Ordered(Pooled(Unfiltered')))  = all
      BY <1>7, <2>1
  <2>4. \A d \in Visible(k.arg)' : class[d] \notin hidden
      BY <1>7, <1>13
  <2> QED BY <1>4, <1>5, <2>2, <2>3, <2>4 DEF HiddenIsPresent
<1>16. ask' \in AskRecord /\ SearchingAt(ask)' /\ GivenAt(ask)' /\ ShadowedAt(ask)' /\ ask'.at = "idle"
    BY <1>4, NoneAsked
<1>17. Corpus'
    BY <1>4, <1>6 DEF Corpus
<1>18. Asked'
    BY <1>4, <1>5, <1>16 DEF Asked
<1> QED BY <1>8, <1>9, <1>15, <1>16, <1>17, <1>18 DEF RtInv

LEMMA RtStarts ==
  ASSUME RtInit
  PROVE  RtInv
<1>1. Corpus
    BY RetrievalAssumption DEF RtInit, Corpus
<1>2. ask = NoAsk /\ answer.state = "none"
    BY DEF RtInit, Nothing
<1>3. NoAsk \in AskRecord /\ NoAsk.at = "idle"
      /\ SearchingAt(NoAsk) /\ GivenAt(NoAsk) /\ ShadowedAt(NoAsk)
    BY NoneAsked
<1>4. Asked
    BY <1>2, <1>3 DEF Asked
<1>5. OnlyVisible /\ SeesNoHidden /\ HiddenIsPresent
    BY <1>2, NoResult
<1> QED BY <1>1, <1>2, <1>3, <1>4, <1>5 DEF RtInv

LEMMA RtRests ==
  ASSUME RtInv, UNCHANGED rtVars
  PROVE  RtInv'
<1>1. UNCHANGED <<class, gen, match, model, override, ask, answer>>
    BY DEF rtVars
<1>2. PICK k : k = ask
    OBVIOUS
<1>3. SearchingAt(k)' /\ GivenAt(k)' /\ ShadowedAt(k)'
    BY <1>1, <1>2, SameAsk DEF RtInv
<1>4. SearchingAt(ask)' /\ GivenAt(ask)' /\ ShadowedAt(ask)'
    BY <1>1, <1>2, <1>3
<1>5. PICK a : a = answer
    OBVIOUS
<1>6. /\ Visible(a.arg)' = Visible(a.arg) /\ OwnRows(a.arg, a.aux)' = OwnRows(a.arg, a.aux)
      /\ Unfiltered' = Unfiltered
    BY <1>1, SameRows
<1>7. answer' = a
    BY <1>1, <1>5
<1>8. OnlyVisible' /\ SeesNoHidden' /\ HiddenIsPresent'
  <2>1. OnlyVisible'
      BY <1>1 DEF RtInv, OnlyVisible, HasResult
  <2>2. SeesNoHidden'
      BY <1>1, <1>5, <1>6, <1>7 DEF RtInv, SeesNoHidden, HasResult
  <2>3. HiddenIsPresent'
      BY <1>1, <1>5, <1>6, <1>7 DEF RtInv, HiddenIsPresent, HasResult
  <2> QED BY <2>1, <2>2, <2>3
<1>9. Corpus' /\ Asked'
    BY <1>1 DEF RtInv, Corpus, Asked
<1> QED BY <1>4, <1>8, <1>9 DEF RtInv

LEMMA RtStep ==
  ASSUME RtInv, [RtNext]_rtVars
  PROVE  RtInv'
<1>1. CASE UNCHANGED rtVars
    BY <1>1, RtRests
<1>2. ASSUME NEW arg \in Callers, NEW aux \in {"none", "question", "before"}, Ask(arg, aux)
      PROVE  RtInv'
    BY <1>2, AskStep
<1>3. CASE Search
    BY <1>3, SearchStep
<1>4. CASE Rerank \/ NoRerank
    BY <1>4, RerankStep
<1>5. CASE Shadow
    BY <1>5, ShadowStep
<1>6. CASE Signal \/ ShadowFails
    BY <1>6, RespondStep
<1>7. CASE SearchFails
    BY <1>7, FailStep
<1>8. ASSUME NEW d \in Documents, Reload(d) PROVE RtInv'
    BY <1>8, ReloadStep
<1> QED BY <1>1, <1>2, <1>3, <1>4, <1>5, <1>6, <1>7, <1>8 DEF RtNext

\* AnsweredByRole (retrieve.py:352): whatever object a caller hands over, whatever is loaded
\* between two legs, the answer holds only documents of the caller's classes, in the order
\* these alone give; the classes it names as hidden are hidden and in the present question's
\* search; and the reranker's vote is one vote.
THEOREM AnsweredAlwaysByRole == RtSpec => AnsweredByRole
<1>1. RtInit => RtInv
    BY RtStarts
<1>2. RtInv /\ [RtNext]_rtVars => RtInv'
    BY RtStep
<1>3. RtInv /\ [RtNext]_rtVars => BlendIsVote
    BY VoteCounts
<1>4. RtInv => RtTypeOK /\ OnlyVisible /\ SeesNoHidden /\ HiddenIsPresent
  <2> SUFFICES ASSUME RtInv PROVE RtTypeOK
      BY DEF RtInv
  <2>1. PICK k \in AskRecord : k = ask
      BY DEF RtInv, Asked
  <2>2. k.at \in {"idle", "legs", "rerank", "shadow", "signal"} /\ k.pool \in PoolsOf(Documents)
      BY DEF AskRecord
  <2>3. Distinct(k.pool)
      BY <2>2 DEF PoolsOf
  <2>4. gen \in [Documents -> Nat]
      BY DEF RtInv, Corpus
  <2> QED BY <2>1, <2>2, <2>3, <2>4 DEF RtInv, Corpus, Asked, RtTypeOK, Distinct
<1> QED BY <1>1, <1>2, <1>3, <1>4, PTL DEF RtSpec, AnsweredByRole
=============================================================================
