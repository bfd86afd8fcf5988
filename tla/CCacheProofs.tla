---------------------------- MODULE CCacheProofs ----------------------------
(***************************************************************************)
(* Proofs about CCache's LruCache, for any keys and values, of any length, *)
(* and any limit, and about its ConsistentHash, for any nodes, points and  *)
(* hash function.  What their recursive functions compute is proved by     *)
(* induction over the numbers, stated for a set of numbers because the     *)
(* provers do not instantiate a theorem that has an operator parameter.    *)
(***************************************************************************)
EXTENDS LruCache, ConsistentHash, TLAPS, SequenceTheorems, FiniteSetTheorems,
        WellFoundedInduction

Entries == [key : Keys, len : ValueLens]

-----------------------------------------------------------------------------
(* Induction.                                                              *)

LEMMA LeastOf ==
  ASSUME NEW S \in SUBSET Nat, S # {}
  PROVE  \E m \in S : \A n \in S : m <= n
<1>1. PICK m \in S : \A n \in S : <<n, m>> \notin OpToRel(<, Nat)
  BY NatLessThanWellFounded, WFMin
<1>2. ASSUME NEW n \in S PROVE m <= n
  <2>1. ~ (n < m)
    BY <1>1 DEF OpToRel
  <2> QED BY <2>1
<1> QED BY <1>2

LEMMA Induction ==
  ASSUME NEW S \in SUBSET Nat, 0 \in S, \A n \in S : n + 1 \in S
  PROVE  S = Nat
<1> SUFFICES ASSUME Nat \ S # {} PROVE FALSE
  OBVIOUS
<1>1. PICK m \in Nat \ S : \A n \in Nat \ S : m <= n
  BY LeastOf
<1>2. m - 1 \in Nat /\ m - 1 \in S
  BY <1>1
<1> QED BY <1>1, <1>2

-----------------------------------------------------------------------------
(* Sequences with an element taken out, or put in front.                   *)

LEMMA Without ==
  ASSUME NEW T, NEW s \in Seq(T), NEW i \in 1..Len(s)
  PROVE  /\ RemoveAt(s, i) \in Seq(T) /\ Len(RemoveAt(s, i)) = Len(s) - 1
         /\ \A j \in 1..(i - 1) : RemoveAt(s, i)[j] = s[j]
         /\ \A j \in i..(Len(s) - 1) : RemoveAt(s, i)[j] = s[j + 1]
<1> DEFINE a == SubSeq(s, 1, i - 1)  b == SubSeq(s, i + 1, Len(s))
<1>1. a \in Seq(T) /\ Len(a) = i - 1 /\ \A j \in 1..(i - 1) : a[j] = s[j]
  OBVIOUS
<1>2. b \in Seq(T) /\ Len(b) = Len(s) - i /\ \A j \in 1..(Len(s) - i) : b[j] = s[j + i]
  OBVIOUS
<1> HIDE DEF a, b
<1> DEFINE c == a \o b
<1>c. /\ c \in Seq(T) /\ Len(c) = Len(a) + Len(b)
      /\ \A j \in 1..(Len(a) + Len(b)) : c[j] = IF j <= Len(a) THEN a[j] ELSE b[j - Len(a)]
  BY <1>1, <1>2, ConcatProperties
<1> HIDE DEF c
<1>3. /\ c \in Seq(T) /\ Len(c) = Len(s) - 1
      /\ \A j \in 1..(i - 1) : c[j] = a[j]
      /\ \A j \in i..(Len(s) - 1) : c[j] = b[j - (i - 1)]
  <2>1. Len(a) = i - 1 /\ Len(a) + Len(b) = Len(s) - 1 /\ Len(s) \in Nat
    BY <1>1, <1>2
  <2>2. ASSUME NEW j \in 1..(i - 1) PROVE c[j] = a[j]
    <3>1. j \in 1..(Len(a) + Len(b)) /\ j <= Len(a)
      BY <2>1
    <3> QED BY <1>c, <3>1
  <2>3. ASSUME NEW j \in i..(Len(s) - 1) PROVE c[j] = b[j - (i - 1)]
    <3>1. j \in 1..(Len(a) + Len(b)) /\ ~ (j <= Len(a))
      BY <2>1
    <3> QED BY <1>c, <2>1, <3>1
  <2> QED BY <1>c, <2>1, <2>2, <2>3
<1>4. ASSUME NEW j \in i..(Len(s) - 1) PROVE b[j - (i - 1)] = s[j + 1]
  <2>1. j - (i - 1) \in 1..(Len(s) - i) /\ (j - (i - 1)) + i = j + 1
    OBVIOUS
  <2> QED BY <1>2, <2>1
<1> QED BY <1>1, <1>3, <1>4 DEF a, b, c, RemoveAt

LEMMA InFront ==
  ASSUME NEW T, NEW s \in Seq(T), NEW x \in T
  PROVE  /\ <<x>> \o s \in Seq(T) /\ Len(<<x>> \o s) = Len(s) + 1
         /\ (<<x>> \o s)[1] = x
         /\ \A j \in 2..(Len(s) + 1) : (<<x>> \o s)[j] = s[j - 1]
<1> DEFINE a == <<x>>
<1>1. a \in Seq(T) /\ Len(a) = 1 /\ a[1] = x
  OBVIOUS
<1> HIDE DEF a
<1> DEFINE c == a \o s
<1>2. /\ c \in Seq(T) /\ Len(c) = Len(a) + Len(s)
      /\ \A j \in 1..(Len(a) + Len(s)) : c[j] = IF j <= Len(a) THEN a[j] ELSE s[j - Len(a)]
  BY <1>1, ConcatProperties
<1> HIDE DEF c
<1>3. /\ c \in Seq(T) /\ Len(c) = Len(s) + 1 /\ c[1] = x
      /\ \A j \in 2..(Len(s) + 1) : c[j] = s[j - 1]
  BY <1>1, <1>2
<1> QED BY <1>3 DEF a, c

-----------------------------------------------------------------------------
(* The bytes of a list.                                                    *)

LEMMA SizeIsNat == ASSUME NEW e \in Entries PROVE Size(e) \in Nat
<1>1. e.key \in Keys /\ e.len \in Nat
  BY CacheAssumption DEF Entries
<1>2. KeyLen[e.key] \in Nat
  BY <1>1, CacheAssumption
<1> QED BY <1>1, <1>2 DEF Size

IsSums(f, s) ==
  /\ f \in [0..Len(s) -> Int] /\ f[0] = 0
  /\ \A i \in 1..Len(s) : f[i] = f[i - 1] + Size(s[i])

(* Sums is such a function: there is one for every beginning of s ... *)
LEMMA SumsExists ==
  ASSUME NEW s \in Seq(Entries)
  PROVE  IsSums(Sums(s), s) /\ \A i \in 0..Len(s) : Sums(s)[i] >= 0
<1> DEFINE Step(f, n) == [i \in 0..n |-> IF i = 0 THEN 0 ELSE f[i - 1] + Size(s[i])]
           S == {n \in Nat : n <= Len(s) => \E f \in [0..n -> Nat] : f = Step(f, n)}
<1>1. 0 \in S
  <2>1. [i \in 0..0 |-> 0] \in [0..0 -> Nat] /\ [i \in 0..0 |-> 0] = Step([i \in 0..0 |-> 0], 0)
    OBVIOUS
  <2> QED BY <2>1
<1>2. ASSUME NEW n \in S PROVE n + 1 \in S
  <2>0. n \in Nat /\ n + 1 \in Nat
    OBVIOUS
  <2> SUFFICES ASSUME n + 1 <= Len(s) PROVE \E g \in [0..(n + 1) -> Nat] : g = Step(g, n + 1)
    BY <2>0
  <2>1. PICK f \in [0..n -> Nat] : f = Step(f, n)
    BY <2>0
  <2>2. Size(s[n + 1]) \in Nat
    BY SizeIsNat
  <2> DEFINE g == [i \in 0..(n + 1) |-> IF i = n + 1 THEN f[n] + Size(s[n + 1]) ELSE f[i]]
  <2>3. g \in [0..(n + 1) -> Nat]
    BY <2>2
  <2>4. ASSUME NEW i \in 0..(n + 1)
        PROVE  g[i] = IF i = 0 THEN 0 ELSE g[i - 1] + Size(s[i])
    <3>1. CASE i = n + 1
      BY <3>1
    <3>2. CASE i # n + 1
      <4>1. i \in 0..n /\ f[i] = IF i = 0 THEN 0 ELSE f[i - 1] + Size(s[i])
        BY <2>1, <3>2
      <4> QED BY <3>2, <4>1
    <3> QED BY <3>1, <3>2
  <2>5. g = Step(g, n + 1)
    BY <2>3, <2>4
  <2> QED BY <2>3, <2>5
<1>3. S = Nat
  <2> HIDE DEF S
  <2>1. S \in SUBSET Nat
    BY DEF S
  <2> QED BY <1>1, <1>2, <2>1, Induction
<1>4. PICK f \in [0..Len(s) -> Nat] : f = Step(f, Len(s))
  <2>1. Len(s) \in S
    BY <1>3
  <2> QED BY <2>1
<1>5. Sums(s) = CHOOSE g : g = Step(g, Len(s))
  BY DEF Sums
<1>6. Sums(s) = Step(Sums(s), Len(s))
  BY <1>4, <1>5
<1> DEFINE F == Sums(s)
<1>7. F = [i \in 0..Len(s) |-> IF i = 0 THEN 0 ELSE F[i - 1] + Size(s[i])]
  BY <1>6
<1> HIDE DEF F
<1>8. DOMAIN F = 0..Len(s) /\ F[0] = 0 /\ \A i \in 1..Len(s) : F[i] = F[i - 1] + Size(s[i])
  BY <1>7
<1> DEFINE R == {n \in Nat : n <= Len(s) => F[n] \in Nat}
<1>9. R = Nat
  <2>1. 0 \in R
    BY <1>8
  <2>2. ASSUME NEW n \in R PROVE n + 1 \in R
    <3>1. n \in Nat /\ n + 1 \in Nat
      OBVIOUS
    <3>2. ASSUME n + 1 <= Len(s) PROVE F[n + 1] \in Nat
      <4>1. n + 1 \in 1..Len(s) /\ (n + 1) - 1 = n /\ F[n] \in Nat /\ Size(s[n + 1]) \in Nat
        BY <3>1, <3>2, SizeIsNat
      <4> QED BY <1>8, <4>1
    <3> QED BY <3>1, <3>2
  <2> HIDE DEF R
  <2>3. R \in SUBSET Nat
    BY DEF R
  <2> QED BY <2>1, <2>2, <2>3, Induction
<1>10. \A i \in 0..Len(s) : F[i] \in Nat
  BY <1>9
<1>11. F \in [0..Len(s) -> Int]
  BY <1>7, <1>10
<1> QED BY <1>8, <1>10, <1>11 DEF IsSums, F

LEMMA SumsStep ==
  ASSUME NEW s \in Seq(Entries)
  PROVE  /\ Sums(s)[0] = 0 /\ \A i \in 0..Len(s) : Sums(s)[i] \in Nat
         /\ \A i \in 1..Len(s) :
              /\ i - 1 \in 0..Len(s) /\ Size(s[i]) \in Nat
              /\ Sums(s)[i] = Sums(s)[i - 1] + Size(s[i])
<1>1. \A i \in 1..Len(s) : Size(s[i]) \in Nat /\ i - 1 \in 0..Len(s)
  BY SizeIsNat
<1>2. \A i \in 0..Len(s) : Sums(s)[i] \in Int
  BY SumsExists DEF IsSums
<1> QED BY <1>1, <1>2, SumsExists DEF IsSums

(* ... and only one. *)
LEMMA SumsUnique ==
  ASSUME NEW s \in Seq(Entries), NEW f, IsSums(f, s)
  PROVE  f = Sums(s)
<1> DEFINE S == {n \in Nat : n <= Len(s) => f[n] = Sums(s)[n]}
<1>0. IsSums(Sums(s), s)
  BY SumsExists
<1>1. 0 \in S
  BY <1>0 DEF IsSums
<1>2. ASSUME NEW n \in S PROVE n + 1 \in S
  <2> SUFFICES ASSUME n + 1 <= Len(s) PROVE f[n + 1] = Sums(s)[n + 1]
    OBVIOUS
  <2>1. n + 1 \in 1..Len(s) /\ (n + 1) - 1 = n /\ f[n] = Sums(s)[n]
    OBVIOUS
  <2> QED BY <1>0, <2>1 DEF IsSums
<1>3. S = Nat
  <2> HIDE DEF S
  <2>1. S \in SUBSET Nat
    BY DEF S
  <2> QED BY <1>1, <1>2, <2>1, Induction
<1>4. \A n \in 0..Len(s) : f[n] = Sums(s)[n]
  BY <1>3
<1> QED BY <1>0, <1>4 DEF IsSums

LEMMA NoBytes == Bytes(<<>>) = 0
<1>1. <<>> \in Seq(Entries) /\ Len(<<>>) = 0
  OBVIOUS
<1> QED BY <1>1, SumsExists DEF IsSums, Bytes

LEMMA BytesIsNat == ASSUME NEW s \in Seq(Entries) PROVE Bytes(s) \in Nat
BY SumsExists DEF IsSums, Bytes

LEMMA BytesInFront ==
  ASSUME NEW s \in Seq(Entries), NEW e \in Entries
  PROVE  Bytes(<<e>> \o s) = Size(e) + Bytes(s)
<1> DEFINE t == <<e>> \o s
           g == [j \in 0..(Len(s) + 1) |-> IF j = 0 THEN 0 ELSE Size(e) + Sums(s)[j - 1]]
<1>1. Size(e) \in Nat /\ Len(s) \in Nat
  BY SizeIsNat
<1>2. t \in Seq(Entries) /\ Len(t) = Len(s) + 1 /\ t[1] = e /\ \A j \in 2..(Len(s) + 1) : t[j] = s[j - 1]
  BY InFront
<1> HIDE DEF t
<1>3. g \in [0..Len(t) -> Int] /\ g[0] = 0
  <2>1. ASSUME NEW j \in 0..(Len(s) + 1), j # 0 PROVE Size(e) + Sums(s)[j - 1] \in Int
    <3>1. j - 1 \in 0..Len(s)
      BY <1>1, <2>1
    <3> QED BY <1>1, <3>1, SumsStep
  <2> QED BY <1>1, <1>2, <2>1
<1>4. ASSUME NEW i \in 1..Len(t) PROVE g[i] = g[i - 1] + Size(t[i])
  <2>1. CASE i = 1
    BY <1>1, <1>2, <2>1, SumsStep
  <2>2. CASE i # 1
    <3>1. i - 1 \in 1..Len(s) /\ t[i] = s[i - 1]
      BY <1>1, <1>2, <2>2
    <3> DEFINE k == i - 1
    <3>2. k \in 1..Len(s) /\ t[i] = s[k] /\ g[i] = Size(e) + Sums(s)[k] /\ g[k] = Size(e) + Sums(s)[k - 1]
      BY <1>1, <1>2, <2>2, <3>1
    <3> HIDE DEF k
    <3>3. /\ Sums(s)[k] = Sums(s)[k - 1] + Size(s[k])
          /\ Sums(s)[k - 1] \in Nat /\ Size(s[k]) \in Nat
      BY <3>2, SumsStep
    <3>4. g[i] = g[k] + Size(t[i])
      BY <1>1, <3>2, <3>3
    <3> QED BY <3>4 DEF k
  <2> QED BY <2>1, <2>2
<1>5. IsSums(g, t)
  BY <1>3, <1>4 DEF IsSums
<1>6. g = Sums(t)
  BY <1>2, <1>5, SumsUnique
<1>7. g[Len(t)] = Size(e) + Sums(s)[Len(s)]
  BY <1>2
<1> QED BY <1>6, <1>7 DEF Bytes, t

LEMMA BytesWithout ==
  ASSUME NEW s \in Seq(Entries), NEW i \in 1..Len(s)
  PROVE  Bytes(RemoveAt(s, i)) = Bytes(s) - Size(s[i])
<1> DEFINE t == RemoveAt(s, i)
           g == [j \in 0..(Len(s) - 1) |->
                   IF j < i THEN Sums(s)[j] ELSE Sums(s)[j + 1] - Size(s[i])]
<1>1. Len(s) \in Nat /\ Size(s[i]) \in Nat
  BY SizeIsNat
<1>2. /\ t \in Seq(Entries) /\ Len(t) = Len(s) - 1
      /\ \A j \in 1..(i - 1) : t[j] = s[j]
      /\ \A j \in i..(Len(s) - 1) : t[j] = s[j + 1]
  BY Without
<1> HIDE DEF t
<1>3. g \in [0..Len(t) -> Int] /\ g[0] = 0
  <2>1. ASSUME NEW j \in 0..(Len(s) - 1) PROVE Sums(s)[j] \in Int /\ Sums(s)[j + 1] - Size(s[i]) \in Int
    <3>1. j \in 0..Len(s) /\ j + 1 \in 0..Len(s)
      BY <1>1, <2>1
    <3> QED BY <1>1, <3>1, SumsStep
  <2>2. Sums(s)[0] = 0 /\ 0 < i /\ 0 \in 0..(Len(s) - 1)
    BY <1>1, SumsStep
  <2>3. g[0] = 0
    BY <2>2
  <2>4. 0..Len(t) = 0..(Len(s) - 1)
    BY <1>2
  <2> QED BY <2>1, <2>3, <2>4
<1>4. ASSUME NEW j \in 1..Len(t) PROVE g[j] = g[j - 1] + Size(t[j])
  <2>1. CASE j < i
    <3>0. j \in 1..Len(s) /\ t[j] = s[j]
      BY <1>1, <1>2, <2>1
    <3>1. t[j] = s[j] /\ Sums(s)[j] = Sums(s)[j - 1] + Size(s[j])
      BY <3>0, SumsStep
    <3>2. g[j] = Sums(s)[j] /\ g[j - 1] = Sums(s)[j - 1]
      BY <1>2, <2>1
    <3> QED BY <3>1, <3>2
  <2>2. CASE ~ (j < i)
    <3>0. j + 1 \in 1..Len(s) /\ j \in 1..Len(s) /\ (j + 1) - 1 = j
      BY <1>2
    <3>m. t[j] = s[j + 1]
      BY <1>1, <1>2, <2>2
    <3>n. Sums(s)[j + 1] = Sums(s)[j] + Size(s[j + 1])
      BY <3>0, SumsStep
    <3>o. /\ Sums(s)[j] = Sums(s)[j - 1] + Size(s[j])
          /\ Sums(s)[j] \in Nat /\ Sums(s)[j - 1] \in Nat
      <4>1. j - 1 \in 0..Len(s) /\ j \in 0..Len(s)
        BY <1>1, <3>0
      <4> QED BY <3>0, <4>1, SumsStep
    <3>1. /\ t[j] = s[j + 1] /\ Sums(s)[j + 1] = Sums(s)[j] + Size(s[j + 1])
          /\ Sums(s)[j] = Sums(s)[j - 1] + Size(s[j])
          /\ Sums(s)[j] \in Int /\ Sums(s)[j - 1] \in Int
      BY <3>m, <3>n, <3>o
    <3>2. g[j] = Sums(s)[j + 1] - Size(s[i])
      BY <1>2, <2>2
    <3>3. g[j - 1] = Sums(s)[j] - Size(s[i])
      <4>1. CASE j = i
        BY <1>1, <1>2, <3>1, <4>1
      <4>2. CASE j # i
        BY <1>2, <2>2, <4>2
      <4> QED BY <4>1, <4>2
    <3>4. Size(s[j + 1]) \in Nat
      BY <3>0, SumsStep
    <3> QED BY <1>1, <3>1, <3>2, <3>3, <3>4
  <2> QED BY <2>1, <2>2
<1>5. g = Sums(t)
  BY <1>2, <1>3, <1>4, SumsUnique DEF IsSums
<1>6. g[Len(t)] = Sums(s)[Len(s)] - Size(s[i])
  <2>1. CASE i = Len(s)
    <3>1. Sums(s)[Len(s)] = Sums(s)[Len(s) - 1] + Size(s[Len(s)]) /\ Sums(s)[Len(s) - 1] \in Int
      BY <1>1, <2>1, SumsStep
    <3> QED BY <1>1, <1>2, <2>1, <3>1
  <2>2. CASE i # Len(s)
    BY <1>2, <2>2
  <2> QED BY <2>1, <2>2
<1> QED BY <1>5, <1>6 DEF Bytes, t

-----------------------------------------------------------------------------
(* The list and the order of use.                                          *)

KeyedOnce(l) == \A i, j \in 1..Len(l) : l[i].key = l[j].key => i = j
Once(r) == \A i, j \in 1..Len(r) : r[i] = r[j] => i = j
Leads(l, r) == Len(l) <= Len(r) /\ \A i \in 1..Len(l) : r[i] = l[i].key
KeySet(l) == {l[i].key : i \in 1..Len(l)}

(* What the operators of the invariants say of the places of a list. *)
LEMMA Places ==
  ASSUME NEW l \in Seq(Entries), NEW r \in Seq(Keys)
  PROVE  /\ ToSet(KeysOf(l)) = KeySet(l) /\ ToSet(l) = {l[i] : i \in 1..Len(l)}
         /\ IsInjective(KeysOf(l)) <=> KeyedOnce(l)
         /\ IsInjective(r) <=> Once(r)
         /\ IsPrefix(KeysOf(l), r) <=> Leads(l, r)
<1> DEFINE ks == KeysOf(l)
<1>1. /\ Len(l) \in Nat /\ DOMAIN l = 1..Len(l) /\ Len(r) \in Nat /\ DOMAIN r = 1..Len(r)
      /\ \A i \in 1..Len(l) : l[i].key \in Keys
  <2>1. \A i \in 1..Len(l) : l[i] \in Entries
    OBVIOUS
  <2>2. \A e \in Entries : e.key \in Keys
    BY DEF Entries
  <2> QED BY <2>1, <2>2
<1>2. ks = [i \in 1..Len(l) |-> l[i].key]
  BY DEF KeysOf
<1>3. ks \in Seq(Keys) /\ Len(ks) = Len(l) /\ DOMAIN ks = 1..Len(l)
  BY <1>1, <1>2
<1>4. \A i \in 1..Len(l) : ks[i] = l[i].key
  BY <1>2
<1> HIDE DEF ks
<1>5. ToSet(ks) = KeySet(l) /\ ToSet(l) = {l[i] : i \in 1..Len(l)}
  BY <1>1, <1>3, <1>4 DEF ToSet, KeySet
<1>6. /\ IsInjective(ks) <=> KeyedOnce(l)
      /\ IsInjective(r) <=> Once(r)
  BY <1>1, <1>3, <1>4 DEF IsInjective, KeyedOnce, Once
<1>7. IsPrefix(ks, r) <=> Leads(l, r)
  <2>1. SubSeq(ks, 1, Len(ks)) = ks
    BY <1>3, SubSeqFull
  <2>2. ASSUME Len(l) <= Len(r) PROVE SubSeq(r, 1, Len(ks)) = ks <=> \A i \in 1..Len(l) : r[i] = l[i].key
    <3> DEFINE b == SubSeq(r, 1, Len(ks))
    <3>1. b \in Seq(Keys) /\ Len(b) = Len(l) /\ \A i \in 1..Len(l) : b[i] = r[i]
      BY <1>1, <1>3, <2>2
    <3> HIDE DEF b
    <3>2. (\A i \in 1..Len(l) : b[i] = ks[i]) => b = ks
      BY <1>3, <3>1, SeqEqual
    <3> QED BY <1>4, <3>1, <3>2 DEF b
  <2> QED BY <1>3, <2>1, <2>2 DEF IsPrefix, Leads
<1> QED BY <1>5, <1>6, <1>7 DEF ks

(* An entry moved to the front, with another value or the same. *)
LEMMA MovedToFront ==
  ASSUME NEW l \in Seq(Entries), KeyedOnce(l), NEW i \in 1..Len(l),
         NEW e \in Entries, e.key = l[i].key
  PROVE  LET m == <<e>> \o RemoveAt(l, i)
         IN  /\ m \in Seq(Entries) /\ Len(m) = Len(l) /\ m[1] = e
             /\ \A j \in 2..i : m[j] = l[j - 1]
             /\ \A j \in (i + 1)..Len(l) : m[j] = l[j]
             /\ KeyedOnce(m) /\ KeySet(m) = KeySet(l)
             /\ Bytes(m) = Bytes(l) - Size(l[i]) + Size(e)
<1> DEFINE t == RemoveAt(l, i)  m == <<e>> \o t
<1>1. /\ t \in Seq(Entries) /\ Len(t) = Len(l) - 1
      /\ \A j \in 1..(i - 1) : t[j] = l[j]
      /\ \A j \in i..(Len(l) - 1) : t[j] = l[j + 1]
      /\ Bytes(t) = Bytes(l) - Size(l[i])
  BY Without, BytesWithout
<1> HIDE DEF t
<1>2. /\ m \in Seq(Entries) /\ Len(m) = Len(t) + 1 /\ m[1] = e
      /\ \A j \in 2..(Len(t) + 1) : m[j] = t[j - 1]
      /\ Bytes(m) = Size(e) + Bytes(t)
  BY <1>1, InFront, BytesInFront
<1> HIDE DEF m
<1>3. Len(l) \in Nat /\ Len(m) = Len(l)
  BY <1>1, <1>2
<1>4. ASSUME NEW j \in 2..i PROVE m[j] = l[j - 1]
  <2>1. j \in 2..(Len(t) + 1) /\ j - 1 \in 1..(i - 1)
    BY <1>1
  <2> QED BY <1>1, <1>2, <2>1
<1>5. ASSUME NEW j \in (i + 1)..Len(l) PROVE m[j] = l[j]
  <2>1. j \in 2..(Len(t) + 1) /\ j - 1 \in i..(Len(l) - 1) /\ (j - 1) + 1 = j
    BY <1>1
  <2> QED BY <1>1, <1>2, <2>1
(* Where each place of m was in l. *)
<1> DEFINE from == [j \in 1..Len(l) |-> IF j = 1 THEN i ELSE IF j <= i THEN j - 1 ELSE j]
<1>6. ASSUME NEW j \in 1..Len(l) PROVE from[j] \in 1..Len(l) /\ m[j].key = l[from[j]].key
  <2>1. CASE j = 1
    BY <1>2, <2>1
  <2>2. CASE j # 1 /\ j <= i
    BY <1>3, <1>4, <2>2
  <2>3. CASE ~ (j <= i)
    BY <1>3, <1>5, <2>3
  <2> QED BY <2>1, <2>2, <2>3
<1>7. \A j, k \in 1..Len(l) : from[j] = from[k] => j = k
  OBVIOUS
<1>8. ASSUME NEW k \in 1..Len(l) PROVE \E j \in 1..Len(l) : from[j] = k
  <2>1. CASE k = i
    <3>1. from[1] = k /\ 1 \in 1..Len(l)
      BY <1>3, <2>1
    <3> QED BY <3>1
  <2>2. CASE k < i
    <3>1. from[k + 1] = k /\ k + 1 \in 1..Len(l)
      BY <1>3, <2>2
    <3> QED BY <3>1
  <2>3. CASE k > i
    <3>1. from[k] = k
      BY <2>3
    <3> QED BY <3>1
  <2> QED BY <2>1, <2>2, <2>3
<1> HIDE DEF from
<1>9. KeyedOnce(m)
  <2>1. ASSUME NEW j \in 1..Len(l), NEW k \in 1..Len(l), m[j].key = m[k].key PROVE j = k
    <3>1. from[j] \in 1..Len(l) /\ from[k] \in 1..Len(l) /\ l[from[j]].key = l[from[k]].key
      BY <1>6, <2>1
    <3>2. from[j] = from[k]
      BY <3>1 DEF KeyedOnce
    <3> QED BY <1>7, <3>2
  <2> QED BY <1>3, <2>1 DEF KeyedOnce
<1>10. KeySet(m) = KeySet(l)
  <2>1. ASSUME NEW j \in 1..Len(l) PROVE m[j].key \in KeySet(l)
    BY <1>6 DEF KeySet
  <2>2. ASSUME NEW k \in 1..Len(l) PROVE \E j \in 1..Len(l) : m[j].key = l[k].key
    <3>1. PICK j \in 1..Len(l) : from[j] = k
      BY <1>8
    <3> QED BY <1>6, <3>1
  <2>3. KeySet(m) = {m[j].key : j \in 1..Len(l)}
    BY <1>3 DEF KeySet
  <2> QED BY <2>1, <2>2, <2>3 DEF KeySet
<1>11. Bytes(m) = Bytes(l) - Size(l[i]) + Size(e)
  <2>1. Bytes(l) \in Nat /\ Size(l[i]) \in Nat /\ Size(e) \in Nat
    BY BytesIsNat, SizeIsNat
  <2> QED BY <1>1, <1>2, <2>1
<1> QED BY <1>2, <1>3, <1>4, <1>5, <1>9, <1>10, <1>11 DEF m, t

(* An entry for a new key. *)
LEMMA PutInFront ==
  ASSUME NEW l \in Seq(Entries), KeyedOnce(l), NEW e \in Entries, e.key \notin KeySet(l)
  PROVE  LET m == <<e>> \o l
         IN  /\ m \in Seq(Entries) /\ Len(m) = Len(l) + 1 /\ m[1] = e
             /\ \A j \in 2..(Len(l) + 1) : m[j] = l[j - 1]
             /\ KeyedOnce(m) /\ KeySet(m) = KeySet(l) \cup {e.key}
             /\ Bytes(m) = Bytes(l) + Size(e)
<1> DEFINE m == <<e>> \o l
<1>1. /\ m \in Seq(Entries) /\ Len(m) = Len(l) + 1 /\ m[1] = e
      /\ \A j \in 2..(Len(l) + 1) : m[j] = l[j - 1]
      /\ Bytes(m) = Size(e) + Bytes(l)
  BY InFront, BytesInFront
<1> HIDE DEF m
<1>2. Len(l) \in Nat
  OBVIOUS
<1>3. ASSUME NEW j \in 1..Len(m), j # 1
      PROVE  j - 1 \in 1..Len(l) /\ m[j] = l[j - 1] /\ m[j].key \in KeySet(l)
  <2>1. j - 1 \in 1..Len(l) /\ j \in 2..(Len(l) + 1)
    BY <1>1, <1>2, <1>3
  <2> QED BY <1>1, <2>1 DEF KeySet
<1>4. ASSUME NEW i \in 1..Len(m), NEW j \in 1..Len(m), m[i].key = m[j].key PROVE i = j
  <2>1. CASE i = 1
    BY <1>1, <1>3, <1>4, <2>1
  <2>2. CASE j = 1
    BY <1>1, <1>3, <1>4, <2>2
  <2>3. CASE i # 1 /\ j # 1
    <3>1. i - 1 \in 1..Len(l) /\ j - 1 \in 1..Len(l) /\ l[i - 1].key = l[j - 1].key
      BY <1>3, <1>4, <2>3
    <3>2. i - 1 = j - 1
      BY <3>1 DEF KeyedOnce
    <3> QED BY <3>2
  <2> QED BY <2>1, <2>2, <2>3
<1>5. ASSUME NEW i \in 1..Len(l) PROVE \E j \in 1..Len(m) : m[j].key = l[i].key
  <2>1. i + 1 \in 1..Len(m) /\ i + 1 \in 2..(Len(l) + 1) /\ (i + 1) - 1 = i
    BY <1>1, <1>2
  <2> QED BY <1>1, <2>1
<1>6. KeySet(m) = KeySet(l) \cup {e.key}
  <2>1. 1 \in 1..Len(m)
    BY <1>1, <1>2
  <2>2. KeySet(m) \subseteq KeySet(l) \cup {e.key}
    BY <1>1, <1>3 DEF KeySet
  <2>3. e.key \in KeySet(m)
    BY <1>1, <2>1 DEF KeySet
  <2>4. KeySet(l) \subseteq KeySet(m)
    BY <1>5 DEF KeySet
  <2> QED BY <2>2, <2>3, <2>4
<1>7. Bytes(m) = Bytes(l) + Size(e)
  BY <1>1, BytesIsNat, SizeIsNat
<1> QED BY <1>1, <1>4, <1>6, <1>7 DEF m, KeyedOnce

(* The list without its last entry. *)
LEMMA CutAtBack ==
  ASSUME NEW l \in Seq(Entries), KeyedOnce(l), l # <<>>
  PROVE  LET n == Len(l)
             m == RemoveAt(l, n)
         IN  /\ n \in 1..Len(l) /\ l[n] \in Entries
             /\ m \in Seq(Entries) /\ Len(m) = n - 1
             /\ \A j \in 1..(n - 1) : m[j] = l[j]
             /\ KeyedOnce(m) /\ KeySet(m) = KeySet(l) \ {l[n].key}
             /\ Bytes(m) = Bytes(l) - Size(l[n])
<1> DEFINE n == Len(l)  m == RemoveAt(l, n)
<1>1. n \in Nat /\ n \in 1..n
  BY EmptySeq
<1>2. /\ m \in Seq(Entries) /\ Len(m) = n - 1
      /\ \A j \in 1..(n - 1) : m[j] = l[j]
      /\ Bytes(m) = Bytes(l) - Size(l[n])
  BY <1>1, Without, BytesWithout
<1>3. l[n] \in Entries
  BY <1>1
<1> HIDE DEF m
<1>4. KeyedOnce(m)
  BY <1>1, <1>2 DEF KeyedOnce
<1>5. KeySet(m) = KeySet(l) \ {l[n].key}
  <2>1. KeySet(m) = {l[j].key : j \in 1..(n - 1)}
    BY <1>2 DEF KeySet
  <2>2. \A j \in 1..n : j \in 1..(n - 1) \/ j = n
    BY <1>1
  <2>3. ASSUME NEW j \in 1..(n - 1) PROVE j \in 1..n /\ l[j].key # l[n].key
    BY <1>1 DEF KeyedOnce
  <2>4. KeySet(m) \subseteq KeySet(l) \ {l[n].key}
    BY <2>1, <2>3 DEF KeySet
  <2>5. KeySet(l) \ {l[n].key} \subseteq KeySet(m)
    BY <2>1, <2>2 DEF KeySet
  <2> QED BY <2>4, <2>5
<1> QED BY <1>1, <1>2, <1>3, <1>4, <1>5 DEF m

(* Using a key puts it first and shifts only the keys used since its last use. *)
LEMMA UsedFirst ==
  ASSUME recency \in Seq(Keys), Once(recency), NEW k \in Keys
  PROVE  /\ Used(k) \in Seq(Keys) /\ Once(Used(k)) /\ Used(k)[1] = k
         /\ \E p \in 1..(Len(recency) + 1) :
              /\ p <= Len(recency) => recency[p] = k
              /\ p <= Len(Used(k)) /\ Len(recency) <= Len(Used(k))
              /\ \A j \in 2..p : Used(k)[j] = recency[j - 1]
              /\ \A j \in (p + 1)..Len(recency) : Used(k)[j] = recency[j]
<1>0. Len(recency) \in Nat
  OBVIOUS
<1>1. CASE \E i \in 1..Len(recency) : recency[i] = k
  <2> DEFINE p == CHOOSE i \in 1..Len(recency) : recency[i] = k
             t == RemoveAt(recency, p)
             u == <<k>> \o t
  <2>1. p \in 1..Len(recency) /\ recency[p] = k
    BY <1>1
  <2> HIDE DEF p
  <2>2. /\ t \in Seq(Keys) /\ Len(t) = Len(recency) - 1
        /\ \A j \in 1..(p - 1) : t[j] = recency[j]
        /\ \A j \in p..(Len(recency) - 1) : t[j] = recency[j + 1]
    BY <2>1, Without
  <2> HIDE DEF t
  <2>3. /\ u \in Seq(Keys) /\ Len(u) = Len(t) + 1 /\ u[1] = k
        /\ \A j \in 2..(Len(t) + 1) : u[j] = t[j - 1]
    BY <2>2, InFront
  <2>4. Used(k) = u
    BY <1>1 DEF Used, p, t
  <2> HIDE DEF u
  <2>5. Len(u) = Len(recency)
    BY <1>0, <2>2, <2>3
  <2>6. ASSUME NEW j \in 2..p PROVE u[j] = recency[j - 1]
    <3>1. j \in 2..(Len(t) + 1) /\ j - 1 \in 1..(p - 1)
      BY <1>0, <2>1, <2>2
    <3> QED BY <2>2, <2>3, <3>1
  <2>7. ASSUME NEW j \in (p + 1)..Len(recency) PROVE u[j] = recency[j]
    <3>1. j \in 2..(Len(t) + 1) /\ j - 1 \in p..(Len(recency) - 1) /\ (j - 1) + 1 = j
      BY <1>0, <2>1, <2>2
    <3> QED BY <2>2, <2>3, <3>1
  <2> DEFINE from == [j \in 1..Len(recency) |-> IF j = 1 THEN p ELSE IF j <= p THEN j - 1 ELSE j]
  <2>8. ASSUME NEW j \in 1..Len(recency)
        PROVE  from[j] \in 1..Len(recency) /\ u[j] = recency[from[j]]
    <3>1. CASE j = 1
      BY <2>1, <2>3, <3>1
    <3>2. CASE j # 1 /\ j <= p
      BY <1>0, <2>1, <2>6, <3>2
    <3>3. CASE ~ (j <= p)
      BY <1>0, <2>1, <2>7, <3>3
    <3> QED BY <3>1, <3>2, <3>3
  <2>9. \A i, j \in 1..Len(recency) : from[i] = from[j] => i = j
    BY <2>1
  <2> HIDE DEF from
  <2>10. ASSUME NEW i \in 1..Len(recency), NEW j \in 1..Len(recency), u[i] = u[j] PROVE i = j
    <3>1. from[i] = from[j]
      BY <2>8, <2>10 DEF Once
    <3> QED BY <2>9, <3>1
  <2>11. Once(u)
    BY <2>5, <2>10 DEF Once
  <2> QED BY <1>0, <2>1, <2>3, <2>4, <2>5, <2>6, <2>7, <2>11
<1>2. CASE ~ \E i \in 1..Len(recency) : recency[i] = k
  <2> DEFINE u == <<k>> \o recency  p == Len(recency) + 1
  <2>1. /\ u \in Seq(Keys) /\ Len(u) = Len(recency) + 1 /\ u[1] = k
        /\ \A j \in 2..(Len(recency) + 1) : u[j] = recency[j - 1]
    BY InFront
  <2>2. Used(k) = u
    BY <1>2 DEF Used
  <2> HIDE DEF u
  <2>3. ASSUME NEW j \in 1..Len(u), j # 1
        PROVE  j - 1 \in 1..Len(recency) /\ u[j] = recency[j - 1] /\ u[j] # k
    <3>1. j - 1 \in 1..Len(recency) /\ j \in 2..(Len(recency) + 1)
      BY <1>0, <2>1, <2>3
    <3> QED BY <1>2, <2>1, <3>1
  <2>4. ASSUME NEW i \in 1..Len(u), NEW j \in 1..Len(u), u[i] = u[j] PROVE i = j
    <3>1. CASE i = 1
      BY <2>1, <2>3, <2>4, <3>1
    <3>2. CASE j = 1
      BY <2>1, <2>3, <2>4, <3>2
    <3>3. CASE i # 1 /\ j # 1
      <4>1. i - 1 = j - 1
        BY <2>3, <2>4, <3>3 DEF Once
      <4> QED BY <4>1
    <3> QED BY <3>1, <3>2, <3>3
  <2>5. p \in 1..(Len(recency) + 1) /\ ~ (p <= Len(recency)) /\ p <= Len(u)
    BY <1>0, <2>1
  <2>6. \A j \in (p + 1)..Len(recency) : u[j] = recency[j]
    BY <1>0
  <2> QED BY <1>0, <2>1, <2>2, <2>4, <2>5, <2>6 DEF Once
<1> QED BY <1>1, <1>2

-----------------------------------------------------------------------------
(* The invariant, place by place.                                          *)

Held ==
  /\ TypeOK
  /\ usedBytes = Bytes(linkedList)
  /\ cache = KeySet(linkedList) /\ KeyedOnce(linkedList)
  /\ Once(recency) /\ Leads(linkedList, recency)
  /\ \A i \in 1..Len(linkedList) : linkedList[i].len = last[linkedList[i].key]
  /\ pc = "ready" /\ MaxBytes > 0 => usedBytes <= MaxBytes
  /\ got # <<>> => got.len = IF got.key \in cache THEN last[got.key] ELSE -1
  /\ evicted # 0 => usedBytes + evicted > MaxBytes
  /\ pc = "evict" => got = <<>>

(* What counts no bytes is within every limit. *)
LEMMA SomeToRemove ==
  /\ TypeOK /\ usedBytes = Bytes(linkedList) => (MaxBytes > 0 /\ Over => linkedList # <<>>)
  /\ TypeOK' /\ usedBytes' = Bytes(linkedList') => (MaxBytes > 0 /\ Over' => linkedList' # <<>>)
BY NoBytes, CacheAssumption DEF Over

LEMMA HeldIs == IInv <=> Held
<1>1. CASE TypeOK
  <2>1. linkedList \in Seq(Entries) /\ recency \in Seq(Keys)
    BY <1>1 DEF TypeOK, Entries
  <2>2. /\ ToSet(KeysOf(linkedList)) = KeySet(linkedList)
        /\ ToSet(linkedList) = {linkedList[i] : i \in 1..Len(linkedList)}
        /\ IsInjective(KeysOf(linkedList)) <=> KeyedOnce(linkedList)
        /\ IsInjective(recency) <=> Once(recency)
        /\ IsPrefix(KeysOf(linkedList), recency) <=> Leads(linkedList, recency)
    BY <2>1, Places
  <2> QED BY <2>2, SomeToRemove DEF IInv, Consistent, MostRecentKept, Held
<1> QED BY <1>1 DEF IInv, Consistent, Held

LEMMA HeldIsNext == IInv' <=> Held'
<1>1. CASE TypeOK'
  <2>1. linkedList' \in Seq(Entries) /\ recency' \in Seq(Keys)
    BY <1>1 DEF TypeOK, Entries
  <2>2. /\ ToSet(KeysOf(linkedList')) = KeySet(linkedList')
        /\ ToSet(linkedList') = {linkedList'[i] : i \in 1..Len(linkedList')}
        /\ IsInjective(KeysOf(linkedList')) <=> KeyedOnce(linkedList')
        /\ IsInjective(recency') <=> Once(recency')
        /\ IsPrefix(KeysOf(linkedList'), recency') <=> Leads(linkedList', recency')
    BY <2>1, Places
  <2> QED BY <2>2, SomeToRemove DEF IInv, Consistent, MostRecentKept, Held
<1> QED BY <1>1 DEF IInv, Consistent, Held

(* The map finds the entry of its key, with the value last added. *)
LEMMA ElementFound ==
  ASSUME Held, NEW k \in cache
  PROVE  /\ k \in Keys /\ Element(k) \in 1..Len(linkedList)
         /\ linkedList[Element(k)] = [key |-> k, len |-> Found(k)]
         /\ Found(k) \in ValueLens /\ Found(k) = last[k]
<1>1. PICK i \in 1..Len(linkedList) : linkedList[i].key = k
  BY DEF Held, KeySet
<1>2. Element(k) \in 1..Len(linkedList) /\ linkedList[Element(k)].key = k
  BY <1>1 DEF Element
<1>3. linkedList[Element(k)] \in Entries
  <2>1. linkedList \in Seq(Entries)
    BY DEF Held, TypeOK, Entries
  <2> QED BY <1>2, <2>1, ElementOfSeq
<1>4. k \in Keys /\ Found(k) \in ValueLens /\ linkedList[Element(k)] = [key |-> k, len |-> Found(k)]
  BY <1>2, <1>3 DEF Entries, Found
<1>5. Found(k) = last[k]
  BY <1>2 DEF Held, Found
<1> QED BY <1>2, <1>4, <1>5

(* What an addition, or a use, makes of the list and of the order of use. *)
LEMMA Fronted ==
  ASSUME Held, NEW k \in Keys, NEW n \in ValueLens
  PROVE  LET m == <<[key |-> k, len |-> n]>> \o
                  IF k \in cache THEN RemoveAt(linkedList, Element(k)) ELSE linkedList
         IN  /\ m \in Seq(Entries) /\ KeyedOnce(m) /\ KeySet(m) = cache \cup {k}
             /\ Used(k) \in Seq(Keys) /\ Once(Used(k)) /\ Leads(m, Used(k))
             /\ \A j \in 1..Len(m) : m[j].len = [last EXCEPT ![k] = n][m[j].key]
             /\ Bytes(m) = usedBytes + Growth(k, n)
<1> DEFINE e == [key |-> k, len |-> n]
           l == linkedList
<1>1. /\ l \in Seq(Entries) /\ recency \in Seq(Keys) /\ Len(l) \in Nat /\ Len(recency) \in Nat
      /\ last \in [Keys -> ValueLens \cup {-1}]
      /\ KeyedOnce(l) /\ Once(recency) /\ Leads(l, recency) /\ usedBytes = Bytes(l)
      /\ cache = KeySet(l) /\ \A j \in 1..Len(l) : l[j].len = last[l[j].key]
  BY DEF Held, TypeOK, Entries
<1>2. e \in Entries /\ e.key = k /\ e.len = n
  BY DEF Entries
<1>3. /\ Used(k) \in Seq(Keys) /\ Once(Used(k)) /\ Used(k)[1] = k
  BY <1>1, UsedFirst
<1>4. PICK p \in 1..(Len(recency) + 1) :
        /\ p <= Len(recency) => recency[p] = k
        /\ p <= Len(Used(k)) /\ Len(recency) <= Len(Used(k))
        /\ \A j \in 2..p : Used(k)[j] = recency[j - 1]
        /\ \A j \in (p + 1)..Len(recency) : Used(k)[j] = recency[j]
  BY <1>1, UsedFirst
<1>5. Bytes(l) \in Nat /\ Size(e) = KeyLen[k] + n
  BY <1>1, <1>2, BytesIsNat DEF Size
<1>6. Len(Used(k)) \in Nat
  BY <1>3
<1> HIDE DEF l, e
<1>7. CASE k \in cache
  <2> DEFINE i == Element(k)  m == <<e>> \o RemoveAt(l, i)
  <2>1. i \in 1..Len(l) /\ l[i] = [key |-> k, len |-> Found(k)] /\ Found(k) \in ValueLens
    BY <1>7, ElementFound DEF l
  <2>2. l[i].key = k /\ Size(l[i]) = KeyLen[k] + Found(k)
    BY <2>1 DEF Size
  <2> HIDE DEF i
  <2>3. /\ m \in Seq(Entries) /\ Len(m) = Len(l) /\ m[1] = e
        /\ \A j \in 2..i : m[j] = l[j - 1]
        /\ \A j \in (i + 1)..Len(l) : m[j] = l[j]
        /\ KeyedOnce(m) /\ KeySet(m) = KeySet(l)
        /\ Bytes(m) = Bytes(l) - Size(l[i]) + Size(e)
    BY <1>1, <1>2, <2>1, <2>2, MovedToFront
  <2> HIDE DEF m
  <2>4. p = i
    <3>1. i \in 1..Len(recency) /\ recency[i] = k
      BY <1>1, <2>1, <2>2 DEF Leads
    <3>2. p <= Len(recency)
      <4>1. ASSUME ~ (p <= Len(recency)) PROVE FALSE
        <5>1. i + 1 \in 2..p /\ (i + 1) - 1 = i
          BY <1>1, <3>1, <4>1
        <5>2. Used(k)[i + 1] = k /\ i + 1 \in 1..Len(Used(k)) /\ 1 \in 1..Len(Used(k)) /\ i + 1 # 1
          BY <1>1, <1>4, <1>6, <3>1, <5>1
        <5> QED BY <1>3, <5>2 DEF Once
      <4> QED BY <4>1
    <3> QED BY <1>1, <1>4, <3>1, <3>2 DEF Once
  <2>5. Leads(m, Used(k))
    <3>1. ASSUME NEW j \in 1..Len(m) PROVE Used(k)[j] = m[j].key
      <4>1. CASE j = 1
        BY <1>2, <1>3, <2>3, <4>1
      <4>2. CASE j # 1 /\ j <= i
        <5>1. j \in 2..i /\ j - 1 \in 1..Len(l)
          BY <1>1, <2>1, <2>3, <4>2
        <5> QED BY <1>1, <1>4, <2>3, <2>4, <5>1 DEF Leads
      <4>3. CASE ~ (j <= i)
        <5>1. j \in (i + 1)..Len(l) /\ j \in (i + 1)..Len(recency) /\ j \in 1..Len(l)
          BY <1>1, <2>1, <2>3, <4>3 DEF Leads
        <5> QED BY <1>1, <1>4, <2>3, <2>4, <5>1 DEF Leads
      <4> QED BY <4>1, <4>2, <4>3
    <3>2. Len(m) <= Len(Used(k))
      BY <1>1, <1>4, <1>6, <2>3 DEF Leads
    <3> QED BY <3>1, <3>2 DEF Leads
  <2>6. ASSUME NEW j \in 1..Len(m) PROVE m[j].len = [last EXCEPT ![k] = n][m[j].key]
    <3>1. CASE j = 1
      BY <1>1, <1>2, <2>3, <3>1
    <3>2. CASE j # 1
      <4>1. 1 \in 1..Len(m) /\ m[j].key # m[1].key
        BY <1>1, <2>3, <3>2 DEF KeyedOnce
      <4>2. \E h \in 1..Len(l) : m[j] = l[h]
        <5>1. CASE j <= i
          <6>1. j \in 2..i /\ j - 1 \in 1..Len(l)
            BY <1>1, <2>1, <2>3, <3>2, <5>1
          <6> QED BY <2>3, <6>1
        <5>2. CASE ~ (j <= i)
          <6>1. j \in (i + 1)..Len(l) /\ j \in 1..Len(l)
            BY <1>1, <2>1, <2>3, <5>2
          <6> QED BY <2>3, <6>1
        <5> QED BY <5>1, <5>2
      <4>3. m[j].len = last[m[j].key]
        BY <1>1, <4>2
      <4> QED BY <1>1, <1>2, <2>3, <4>1, <4>3
    <3> QED BY <3>1, <3>2
  <2>7. Bytes(m) = usedBytes + Growth(k, n)
    <3>1. KeyLen[k] \in Nat /\ n \in Nat /\ Found(k) \in Nat
      BY <2>1, CacheAssumption
    <3>2. Growth(k, n) = n - Found(k)
      BY <1>7 DEF Growth
    <3> QED BY <1>1, <1>5, <2>2, <2>3, <3>1, <3>2
  <2>8. KeySet(m) = cache \cup {k}
    BY <1>1, <1>7, <2>3
  <2> QED BY <1>3, <1>7, <2>3, <2>5, <2>6, <2>7, <2>8 DEF m, i, e, l
<1>8. CASE k \notin cache
  <2> DEFINE m == <<e>> \o l
  <2>1. /\ m \in Seq(Entries) /\ Len(m) = Len(l) + 1 /\ m[1] = e
        /\ \A j \in 2..(Len(l) + 1) : m[j] = l[j - 1]
        /\ KeyedOnce(m) /\ KeySet(m) = KeySet(l) \cup {e.key}
        /\ Bytes(m) = Bytes(l) + Size(e)
    BY <1>1, <1>2, <1>8, PutInFront
  <2> HIDE DEF m
  <2>2. Len(l) < p
    <3>1. ASSUME p <= Len(l) PROVE FALSE
      <4>1. p \in 1..Len(l) /\ recency[p] = k
        BY <1>1, <1>4, <3>1 DEF Leads
      <4> QED BY <1>1, <1>8, <4>1 DEF Leads, KeySet
    <3> QED BY <1>1, <3>1
  <2>3. Leads(m, Used(k))
    <3>1. ASSUME NEW j \in 1..Len(m) PROVE Used(k)[j] = m[j].key
      <4>1. CASE j = 1
        BY <1>2, <1>3, <2>1, <4>1
      <4>2. CASE j # 1
        <5>1. j \in 2..(Len(l) + 1) /\ j \in 2..p /\ j - 1 \in 1..Len(l)
          BY <1>1, <2>1, <2>2, <4>2
        <5> QED BY <1>1, <1>4, <2>1, <5>1 DEF Leads
      <4> QED BY <4>1, <4>2
    <3>2. Len(m) <= Len(Used(k))
      BY <1>1, <1>4, <1>6, <2>1, <2>2
    <3> QED BY <3>1, <3>2 DEF Leads
  <2>4. ASSUME NEW j \in 1..Len(m) PROVE m[j].len = [last EXCEPT ![k] = n][m[j].key]
    <3>1. CASE j = 1
      BY <1>1, <1>2, <2>1, <3>1
    <3>2. CASE j # 1
      <4>1. 1 \in 1..Len(m) /\ m[j].key # m[1].key
        BY <1>1, <2>1, <3>2 DEF KeyedOnce
      <4>2. j \in 2..(Len(l) + 1) /\ j - 1 \in 1..Len(l)
        BY <1>1, <2>1, <3>2
      <4>3. m[j].len = last[m[j].key]
        BY <1>1, <2>1, <4>2
      <4> QED BY <1>1, <1>2, <2>1, <4>1, <4>3
    <3> QED BY <3>1, <3>2
  <2>5. Bytes(m) = usedBytes + Growth(k, n)
    BY <1>1, <1>5, <1>8, <2>1 DEF Growth
  <2>6. KeySet(m) = cache \cup {k}
    BY <1>1, <1>2, <2>1
  <2> QED BY <1>3, <1>8, <2>1, <2>3, <2>4, <2>5, <2>6 DEF m, e, l
<1> QED BY <1>7, <1>8

-----------------------------------------------------------------------------
(* The invariant holds.                                                    *)

LEMMA HeldInit == Init => Held
<1> SUFFICES ASSUME Init PROVE Held
  OBVIOUS
<1>1. /\ linkedList = <<>> /\ Len(linkedList) = 0 /\ recency = <<>> /\ Len(recency) = 0
      /\ cache = {} /\ usedBytes = 0 /\ pc = "ready" /\ got = <<>> /\ evicted = 0
      /\ last = [k \in Keys |-> -1]
  BY DEF Init
<1>2. TypeOK
  BY <1>1 DEF TypeOK
<1>3. KeySet(linkedList) = {} /\ KeyedOnce(linkedList) /\ Once(recency) /\ Leads(linkedList, recency)
  BY <1>1 DEF KeySet, KeyedOnce, Once, Leads
<1>4. usedBytes = Bytes(linkedList)
  BY <1>1, NoBytes
<1>5. MaxBytes > 0 => usedBytes <= MaxBytes
  BY <1>1, CacheAssumption
<1>6. \A i \in 1..Len(linkedList) : linkedList[i].len = last[linkedList[i].key]
  BY <1>1
<1> QED BY <1>1, <1>2, <1>3, <1>4, <1>5, <1>6 DEF Held

LEMMA HeldGet == ASSUME Held, NEW k \in Keys, Get(k) PROVE Held'
<1>0. TypeOK /\ pc = "ready"
  BY DEF Held, Get
<1>1. CASE k \in cache
  <2> DEFINE n == Found(k)
             m == <<[key |-> k, len |-> n]>> \o RemoveAt(linkedList, Element(k))
  <2>1. /\ linkedList[Element(k)] = [key |-> k, len |-> n]
        /\ n \in ValueLens /\ n = last[k]
    BY <1>1, ElementFound
  <2>2. /\ linkedList' = m /\ got' = [key |-> k, len |-> n] /\ recency' = Used(k)
        /\ UNCHANGED <<cache, usedBytes, pc, last, evicted>>
    BY <1>1, <2>1 DEF Get
  <2> HIDE DEF n
  <2>3. /\ m \in Seq(Entries) /\ KeyedOnce(m) /\ KeySet(m) = cache \cup {k}
        /\ Used(k) \in Seq(Keys) /\ Once(Used(k)) /\ Leads(m, Used(k))
        /\ \A j \in 1..Len(m) : m[j].len = [last EXCEPT ![k] = n][m[j].key]
        /\ Bytes(m) = usedBytes + Growth(k, n)
    BY <1>1, <2>1, Fronted
  <2> HIDE DEF m
  <2>4. Growth(k, n) = 0
    <3>1. n \in Nat /\ Growth(k, n) = n - n
      BY <1>1, <2>1, CacheAssumption DEF Growth, n
    <3> QED BY <3>1
  <2>5. [last EXCEPT ![k] = n] = last
    BY <1>0, <2>1 DEF TypeOK
  <2>6. TypeOK'
    <3>1. linkedList' \in Seq(Entries) /\ recency' \in Seq(Keys)
      BY <2>2, <2>3
    <3>2. got' \in [key : Keys, len : ValueLens \cup {-1}]
      BY <2>1, <2>2
    <3> QED BY <1>0, <2>2, <3>1, <3>2 DEF TypeOK, Entries
  <2>7. usedBytes' = Bytes(linkedList')
    BY <1>0, <2>2, <2>3, <2>4 DEF TypeOK
  <2>8. got'.len = last'[got'.key] /\ got'.key \in cache'
    BY <1>1, <2>1, <2>2
  <2>9. cache' = KeySet(linkedList')
    BY <1>1, <2>2, <2>3
  <2>10. \A i \in 1..Len(linkedList') : linkedList'[i].len = last'[linkedList'[i].key]
    BY <2>2, <2>3, <2>5
  <2> QED BY <1>0, <2>2, <2>3, <2>6, <2>7, <2>8, <2>9, <2>10 DEF Held
<1>2. CASE k \notin cache
  <2>1. /\ got' = [key |-> k, len |-> -1]
        /\ UNCHANGED <<linkedList, recency, cache, usedBytes, pc, last, evicted>>
    BY <1>2 DEF Get
  <2>2. TypeOK'
    BY <1>0, <2>1 DEF TypeOK
  <2>3. got'.len = -1 /\ got'.key \notin cache'
    BY <1>2, <2>1
  <2> QED BY <1>0, <2>1, <2>2, <2>3 DEF Held
<1> QED BY <1>1, <1>2

LEMMA HeldAdd == ASSUME Held, NEW k \in Keys, NEW n \in ValueLens, Add(k, n) PROVE Held'
<1> DEFINE m == <<[key |-> k, len |-> n]>> \o
                IF k \in cache THEN RemoveAt(linkedList, Element(k)) ELSE linkedList
<1>0. TypeOK
  BY DEF Held
<1>1. /\ linkedList' = m /\ usedBytes' = usedBytes + Growth(k, n) /\ cache' = cache \cup {k}
      /\ pc' = "evict" /\ last' = [last EXCEPT ![k] = n] /\ recency' = Used(k)
      /\ evicted' = 0 /\ got' = <<>>
  BY DEF Add
<1>2. /\ m \in Seq(Entries) /\ KeyedOnce(m) /\ KeySet(m) = cache \cup {k}
      /\ Used(k) \in Seq(Keys) /\ Once(Used(k)) /\ Leads(m, Used(k))
      /\ \A j \in 1..Len(m) : m[j].len = [last EXCEPT ![k] = n][m[j].key]
      /\ Bytes(m) = usedBytes + Growth(k, n)
  BY Fronted
<1> HIDE DEF m
<1>3. TypeOK'
  <2>1. linkedList' \in Seq(Entries) /\ recency' \in Seq(Keys)
    BY <1>1, <1>2
  <2>2. usedBytes' \in Nat
    BY <1>1, <1>2, BytesIsNat
  <2>3. last' \in [Keys -> ValueLens \cup {-1}] /\ cache' \in SUBSET Keys
    BY <1>0, <1>1 DEF TypeOK
  <2> QED BY <1>1, <2>1, <2>2, <2>3 DEF TypeOK, Entries
<1>4. \A i \in 1..Len(linkedList') : linkedList'[i].len = last'[linkedList'[i].key]
  BY <1>1, <1>2
<1> QED BY <1>1, <1>2, <1>3, <1>4 DEF Held

(* What RemoveOldest does to a list that is not empty. *)
LEMMA HeldRemove ==
  ASSUME Held, linkedList # <<>>, RemoveBack, UNCHANGED <<last, recency>>
  PROVE  LET e == linkedList[Len(linkedList)]
         IN  /\ linkedList' \in Seq(Entries) /\ cache' \in SUBSET Keys /\ usedBytes' \in Nat
             /\ cache' = KeySet(linkedList') /\ KeyedOnce(linkedList')
             /\ Leads(linkedList', recency')
             /\ \A i \in 1..Len(linkedList') : linkedList'[i].len = last'[linkedList'[i].key]
             /\ usedBytes' = Bytes(linkedList')
             /\ Size(e) \in Nat /\ usedBytes' + Size(e) = usedBytes
<1> DEFINE n == Len(linkedList)  e == linkedList[n]  m == RemoveAt(linkedList, n)
<1>0. /\ linkedList \in Seq(Entries) /\ recency \in Seq(Keys) /\ cache \in SUBSET Keys
      /\ KeyedOnce(linkedList) /\ usedBytes = Bytes(linkedList) /\ cache = KeySet(linkedList)
      /\ Leads(linkedList, recency)
      /\ \A i \in 1..n : linkedList[i].len = last[linkedList[i].key]
  BY DEF Held, TypeOK, Entries
<1>1. /\ n \in 1..n /\ e \in Entries /\ m \in Seq(Entries) /\ Len(m) = n - 1
      /\ \A j \in 1..(n - 1) : m[j] = linkedList[j]
      /\ KeyedOnce(m) /\ KeySet(m) = KeySet(linkedList) \ {e.key}
      /\ Bytes(m) = Bytes(linkedList) - Size(e)
  BY <1>0, CutAtBack
<1>2. linkedList' = m /\ cache' = cache \ {e.key} /\ usedBytes' = usedBytes - Size(e)
  BY DEF RemoveBack, Oldest, Unmapped, Freed
<1>3. n \in Nat /\ Bytes(m) \in Nat /\ Size(e) \in Nat /\ usedBytes \in Nat /\ Len(recency) \in Nat
  BY <1>0, <1>1, BytesIsNat, SizeIsNat
<1> HIDE DEF m, e, n
<1>4. \A j \in 1..(n - 1) : j \in 1..n
  BY <1>3
<1>5. Leads(m, recency)
  BY <1>0, <1>1, <1>3, <1>4 DEF Leads, n
<1>6. \A i \in 1..Len(m) : m[i].len = last[m[i].key]
  BY <1>0, <1>1, <1>4
<1> QED BY <1>0, <1>1, <1>2, <1>3, <1>5, <1>6 DEF e, n

LEMMA HeldKept == Held /\ [Next]_vars => Held'
<1> SUFFICES ASSUME Held, [Next]_vars PROVE Held'
  OBVIOUS
<1>0. TypeOK
  BY DEF Held
<1>1. CASE EvictOne
  <2>1. /\ pc = "evict" /\ Over /\ RemoveBack /\ UNCHANGED <<pc, got, last, recency>>
        /\ evicted' = IF linkedList = <<>> THEN 0 ELSE Size(linkedList[Len(linkedList)])
    BY <1>1 DEF EvictOne, Oldest
  <2>2. got = <<>> /\ usedBytes > MaxBytes
    BY <2>1 DEF Held, Over
  <2>3. CASE linkedList = <<>>
    <3>1. evicted' = 0 /\ UNCHANGED <<linkedList, cache, usedBytes, pc, got, last, recency>>
      BY <2>1, <2>3 DEF RemoveBack
    <3>2. TypeOK'
      BY <1>0, <3>1 DEF TypeOK
    <3> QED BY <2>1, <2>2, <3>1, <3>2 DEF Held
  <2>4. CASE linkedList # <<>>
    <3> DEFINE e == linkedList[Len(linkedList)]
    <3>1. /\ linkedList' \in Seq(Entries) /\ cache' \in SUBSET Keys /\ usedBytes' \in Nat
          /\ cache' = KeySet(linkedList') /\ KeyedOnce(linkedList')
          /\ Leads(linkedList', recency')
          /\ \A i \in 1..Len(linkedList') : linkedList'[i].len = last'[linkedList'[i].key]
          /\ usedBytes' = Bytes(linkedList')
          /\ Size(e) \in Nat /\ usedBytes' + Size(e) = usedBytes
      BY <2>1, <2>4, HeldRemove
    <3> HIDE DEF e
    <3>2. evicted' = Size(e)
      BY <2>1, <2>4 DEF e
    <3>3. TypeOK'
      BY <1>0, <2>1, <3>1, <3>2 DEF TypeOK, Entries
    <3>4. usedBytes' + evicted' > MaxBytes
      BY <2>2, <3>1, <3>2
    <3>5. pc' = "evict" /\ got' = <<>> /\ Once(recency')
      BY <2>1, <2>2 DEF Held
    <3> QED BY <3>1, <3>3, <3>4, <3>5 DEF Held
  <2> QED BY <2>3, <2>4
<1>2. CASE AddReturns
  <2>1. /\ pc = "evict" /\ ~ Over /\ pc' = "ready"
        /\ UNCHANGED <<linkedList, cache, usedBytes, got, last, recency, evicted>>
    BY <1>2 DEF AddReturns
  <2>2. TypeOK'
    BY <1>0, <2>1 DEF TypeOK
  <2>3. MaxBytes > 0 => usedBytes' <= MaxBytes
    BY <1>0, <2>1, CacheAssumption DEF Over, TypeOK
  <2> QED BY <2>1, <2>2, <2>3 DEF Held
<1>3. CASE RemoveOldest
  <2>1. /\ pc = "ready" /\ RemoveBack /\ evicted' = 0 /\ got' = <<>>
        /\ UNCHANGED <<pc, last, recency>>
    BY <1>3 DEF RemoveOldest
  <2>2. CASE linkedList = <<>>
    <3>1. UNCHANGED <<linkedList, cache, usedBytes, pc, last, recency>>
      BY <2>1, <2>2 DEF RemoveBack
    <3>2. TypeOK'
      BY <1>0, <2>1, <3>1 DEF TypeOK
    <3> QED BY <2>1, <3>1, <3>2 DEF Held
  <2>3. CASE linkedList # <<>>
    <3> DEFINE e == linkedList[Len(linkedList)]
    <3>1. /\ linkedList' \in Seq(Entries) /\ cache' \in SUBSET Keys /\ usedBytes' \in Nat
          /\ cache' = KeySet(linkedList') /\ KeyedOnce(linkedList')
          /\ Leads(linkedList', recency')
          /\ \A i \in 1..Len(linkedList') : linkedList'[i].len = last'[linkedList'[i].key]
          /\ usedBytes' = Bytes(linkedList')
          /\ Size(e) \in Nat /\ usedBytes' + Size(e) = usedBytes
      BY <2>1, <2>3, HeldRemove
    <3> HIDE DEF e
    <3>2. TypeOK'
      BY <1>0, <2>1, <3>1 DEF TypeOK, Entries
    <3>3. MaxBytes > 0 => usedBytes' <= MaxBytes
      <4>1. MaxBytes > 0 => usedBytes <= MaxBytes
        BY <2>1 DEF Held
      <4> QED BY <1>0, <3>1, <4>1, CacheAssumption DEF TypeOK
    <3>4. pc' = "ready" /\ got' = <<>> /\ evicted' = 0 /\ Once(recency')
      BY <2>1 DEF Held
    <3> QED BY <3>1, <3>2, <3>3, <3>4 DEF Held
  <2> QED BY <2>2, <2>3
<1>4. CASE UNCHANGED vars
  BY <1>0, <1>4 DEF Held, TypeOK, vars
<1> QED BY <1>1, <1>2, <1>3, <1>4, HeldGet, HeldAdd DEF Next

LEMMA IInvHolds == Spec => []IInv
<1>1. Init => IInv
  BY HeldInit, HeldIs
<1>2. IInv /\ [Next]_vars => IInv'
  BY HeldKept, HeldIs, HeldIsNext
<1> QED BY <1>1, <1>2, PTL DEF Spec

(* The bytes accounted for are those of the entries, the map and the list     *)
(* have the same keys, each once, and between two operations the limit holds; *)
(* the loop of Add never finds the cache over it and nothing to remove.       *)
THEOREM ViewsAgree == Spec => []Consistent
<1>1. IInv => Consistent
  BY DEF IInv
<1> QED BY <1>1, IInvHolds, PTL

(* The cache holds the most recently used keys in their order, each with the  *)
(* value last added, a Get returns that one, and no eviction is needless.     *)
THEOREM RecentAreKept == Spec => []MostRecentKept
<1>1. IInv => MostRecentKept
  BY DEF IInv
<1> QED BY <1>1, IInvHolds, PTL

-----------------------------------------------------------------------------
(* sort.Ints.                                                              *)

LEMMA PlacesCounted ==
  ASSUME NEW n \in Nat
  PROVE  IsFiniteSet(1..n) /\ Cardinality(1..n) = n
<1>1. 1 \in Int /\ n \in Int
  OBVIOUS
<1>2. IsFiniteSet(1..n) /\ Cardinality(1..n) = IF 1 > n THEN 0 ELSE n - 1 + 1
  BY <1>1, FS_Interval, Zenon
<1> QED BY <1>2

UpTo(s, h) == {i \in 1..Len(s) : s[i] <= h}
Below(s, h) == {i \in 1..Len(s) : s[i] < h}

LEMMA Counts ==
  ASSUME NEW s \in Seq(Nat), NEW h \in Nat
  PROVE  /\ IsFiniteSet(UpTo(s, h)) /\ IsFiniteSet(Below(s, h))
         /\ Cardinality(UpTo(s, h)) \in Nat /\ Cardinality(Below(s, h)) \in Nat
         /\ Cardinality(UpTo(s, h)) <= Len(s)
<1>1. IsFiniteSet(1..Len(s)) /\ Cardinality(1..Len(s)) = Len(s)
  <2>1. Len(s) \in Nat
    OBVIOUS
  <2> QED BY <2>1, PlacesCounted
<1>2. UpTo(s, h) \subseteq 1..Len(s) /\ Below(s, h) \subseteq 1..Len(s)
  BY DEF UpTo, Below
<1> QED BY <1>1, <1>2, FS_Subset, FS_CardinalityType

LEMMA CountsGrow ==
  ASSUME NEW s \in Seq(Nat), NEW g \in Nat, NEW h \in Nat, g < h
  PROVE  Cardinality(UpTo(s, g)) <= Cardinality(Below(s, h))
<1>1. \A i \in 1..Len(s) : s[i] \in Nat
  OBVIOUS
<1>2. UpTo(s, g) \subseteq Below(s, h)
  BY <1>1 DEF UpTo, Below
<1> QED BY <1>2, Counts, FS_Subset

(* The number sorted to place r. *)
IsAt(s, r, h) ==
  h \in ToSet(s) /\ Cardinality(UpTo(s, h)) >= r /\ Cardinality(Below(s, h)) < r

LEMMA SomeAt ==
  ASSUME NEW s \in Seq(Nat), NEW r \in 1..Len(s)
  PROVE  \E h : IsAt(s, r, h)
<1> DEFINE S == {h \in Nat : Cardinality(UpTo(s, h)) >= r}
<1>0. Len(s) \in Nat /\ (\A i \in 1..Len(s) : s[i] \in Nat) /\ ToSet(s) = {s[i] : i \in 1..Len(s)}
  <2>1. Len(s) \in Nat /\ DOMAIN s = 1..Len(s)
    BY LenProperties
  <2>2. \A i \in 1..Len(s) : s[i] \in Nat
    BY ElementOfSeq
  <2>3. ToSet(s) = {s[i] : i \in 1..Len(s)}
    BY <2>1 DEF ToSet
  <2> QED BY <2>1, <2>2, <2>3
<1>1. S # {}
  <2>1. PICK b \in Nat : \A i \in 1..Len(s) : s[i] <= b
    <3> DEFINE T == {n \in Nat : n <= Len(s) => \E b \in Nat : \A i \in 1..n : s[i] <= b}
    <3>1. 0 \in T
      OBVIOUS
    <3>2. ASSUME NEW n \in T PROVE n + 1 \in T
      <4> SUFFICES ASSUME n + 1 <= Len(s) PROVE \E b \in Nat : \A i \in 1..(n + 1) : s[i] <= b
        OBVIOUS
      <4>1. PICK b \in Nat : \A i \in 1..n : s[i] <= b
        <5>1. n \in Nat /\ (n <= Len(s) => \E b \in Nat : \A i \in 1..n : s[i] <= b)
          OBVIOUS
        <5>2. n <= Len(s)
          BY <1>0, <5>1
        <5> QED BY <5>1, <5>2
      <4>2. n \in Nat /\ n + 1 \in 1..Len(s) /\ s[n + 1] \in Nat
        BY <1>0
      <4>3. b + s[n + 1] \in Nat
        BY <4>2
      <4>4. ASSUME NEW i \in 1..(n + 1) PROVE s[i] <= b + s[n + 1]
        <5>1. CASE i = n + 1
          BY <4>2, <5>1
        <5>2. CASE i # n + 1
          <6>1. i \in 1..n /\ i \in 1..Len(s) /\ s[i] <= b /\ s[i] \in Nat
            BY <1>0, <4>1, <4>2, <5>2
          <6> QED BY <4>2, <6>1
        <5> QED BY <5>1, <5>2
      <4> QED BY <4>3, <4>4
    <3> HIDE DEF T
    <3>3. T \in SUBSET Nat
      BY DEF T
    <3>4. Len(s) \in T
      BY <1>0, <3>1, <3>2, <3>3, Induction
    <3> QED BY <1>0, <3>4 DEF T
  <2>2. UpTo(s, b) = 1..Len(s)
    BY <2>1 DEF UpTo
  <2>3. Cardinality(UpTo(s, b)) = Len(s)
    BY <1>0, <2>2, PlacesCounted
  <2> QED BY <1>0, <2>3
<1>2. PICK m \in S : \A n \in S : m <= n
  <2> HIDE DEF S
  <2>1. S \in SUBSET Nat
    BY DEF S
  <2> QED BY <1>1, <2>1, LeastOf
<1>3. Cardinality(Below(s, m)) < r
  <2>1. CASE m = 0
    <3>1. Below(s, m) = {}
      BY <1>0, <2>1 DEF Below
    <3> QED BY <3>1, FS_EmptySet
  <2>2. CASE m # 0
    <3>1. m - 1 \in Nat /\ m - 1 \notin S
      BY <1>2, <2>2
    <3>2. Cardinality(UpTo(s, m - 1)) < r
      BY <3>1, Counts
    <3>3. Below(s, m) = UpTo(s, m - 1)
      BY <1>0, <3>1 DEF Below, UpTo
    <3> QED BY <3>2, <3>3
  <2> QED BY <2>1, <2>2
<1>4. m \in ToSet(s)
  <2>1. UpTo(s, m) # Below(s, m)
    BY <1>2, <1>3, Counts
  <2>2. PICK i \in 1..Len(s) : s[i] <= m /\ ~ (s[i] < m)
    BY <2>1 DEF UpTo, Below
  <2>3. s[i] = m
    BY <1>0, <1>2, <2>2
  <2> QED BY <1>0, <2>3
<1> QED BY <1>2, <1>3, <1>4 DEF IsAt

LEMMA Ints ==
  ASSUME NEW s \in Seq(Nat)
  PROVE  /\ Ascending(s) \in Seq(Nat) /\ Len(Ascending(s)) = Len(s)
         /\ ToSet(Ascending(s)) = ToSet(s)
         /\ \A i, j \in 1..Len(s) : i <= j => Ascending(s)[i] <= Ascending(s)[j]
<1> DEFINE a == Ascending(s)
<1>0. /\ Len(s) \in Nat /\ ToSet(s) \subseteq Nat
      /\ ToSet(s) = {s[i] : i \in 1..Len(s)}
  BY DEF ToSet
<1>1. DOMAIN a = 1..Len(s) /\ a = [r \in 1..Len(s) |-> a[r]]
  <2> DEFINE A(r) == CHOOSE h \in ToSet(s) :
                       /\ Cardinality({i \in 1..Len(s) : s[i] <= h}) >= r
                       /\ Cardinality({i \in 1..Len(s) : s[i] < h}) < r
  <2>1. a = [r \in 1..Len(s) |-> A(r)]
    BY DEF Ascending
  <2> HIDE DEF A, a
  <2> QED BY <2>1
<1>2. ASSUME NEW r \in 1..Len(s) PROVE IsAt(s, r, a[r])
  <2>1. a[r] = CHOOSE h \in ToSet(s) : /\ Cardinality({i \in 1..Len(s) : s[i] <= h}) >= r
                                       /\ Cardinality({i \in 1..Len(s) : s[i] < h}) < r
    BY DEF Ascending
  <2>2. a[r] = CHOOSE h \in ToSet(s) : Cardinality(UpTo(s, h)) >= r /\ Cardinality(Below(s, h)) < r
    BY <2>1 DEF UpTo, Below
  <2> HIDE DEF a
  <2>3. PICK h : IsAt(s, r, h)
    BY SomeAt
  <2> QED BY <2>2, <2>3 DEF IsAt
<1> HIDE DEF a
<1>3. \A r \in 1..Len(s) : a[r] \in ToSet(s) /\ a[r] \in Nat
  BY <1>0, <1>2 DEF IsAt
<1>4. a \in Seq(Nat) /\ Len(a) = Len(s) /\ DOMAIN a = 1..Len(s)
  <2>1. a \in [1..Len(s) -> Nat]
    BY <1>1, <1>3
  <2> QED BY <1>0, <2>1
<1>5. ASSUME NEW h \in ToSet(s) PROVE \E r \in 1..Len(s) : a[r] = h
  <2> DEFINE r == Cardinality(Below(s, h)) + 1
  <2>0. h \in Nat
    BY <1>0
  <2>1. /\ h \in Nat /\ Cardinality(Below(s, h)) \in Nat /\ Cardinality(UpTo(s, h)) \in Nat
        /\ Cardinality(UpTo(s, h)) <= Len(s)
    BY <2>0, Counts
  <2>2. Cardinality(UpTo(s, h)) >= r
    <3>1. PICK i \in 1..Len(s) : s[i] = h
      BY <1>0
    <3>2. i \in UpTo(s, h) /\ i \notin Below(s, h)
      BY <2>1, <3>1 DEF UpTo, Below
    <3>3. Below(s, h) \cup {i} \subseteq UpTo(s, h)
      BY <1>0, <3>2 DEF UpTo, Below
    <3>4. Cardinality(Below(s, h) \cup {i}) = Cardinality(Below(s, h)) + 1
      BY <2>1, <3>2, Counts, FS_AddElement
    <3>5. Cardinality(Below(s, h) \cup {i}) <= Cardinality(UpTo(s, h))
      BY <2>1, <3>3, Counts, FS_Subset
    <3> QED BY <3>4, <3>5
  <2>3. r \in 1..Len(s)
    BY <1>0, <2>1, <2>2
  <2> HIDE DEF r
  <2>4. IsAt(s, r, a[r]) /\ a[r] \in Nat
    BY <1>2, <1>3, <2>3
  <2>5. ~ (a[r] < h)
    <3>1. a[r] < h => Cardinality(UpTo(s, a[r])) <= Cardinality(Below(s, h))
      BY <2>1, <2>4, CountsGrow
    <3>2. Cardinality(UpTo(s, a[r])) \in Nat /\ Cardinality(UpTo(s, a[r])) >= r
      BY <2>4, Counts DEF IsAt
    <3> QED BY <2>1, <3>1, <3>2 DEF r
  <2>6. ~ (h < a[r])
    <3>1. h < a[r] => Cardinality(UpTo(s, h)) <= Cardinality(Below(s, a[r]))
      BY <2>1, <2>4, CountsGrow
    <3>2. Cardinality(Below(s, a[r])) \in Nat /\ Cardinality(Below(s, a[r])) < r
      BY <2>4, Counts DEF IsAt
    <3> QED BY <2>1, <2>2, <2>3, <3>1, <3>2
  <2> QED BY <2>1, <2>3, <2>4, <2>5, <2>6
<1>6. ASSUME NEW i \in 1..Len(s), NEW j \in 1..Len(s), i <= j PROVE a[i] <= a[j]
  <2>1. a[i] \in Nat /\ a[j] \in Nat /\ IsAt(s, i, a[i]) /\ IsAt(s, j, a[j])
    BY <1>2, <1>3
  <2>2. /\ Cardinality(UpTo(s, a[j])) \in Nat /\ Cardinality(UpTo(s, a[j])) >= j
        /\ Cardinality(Below(s, a[i])) \in Nat /\ Cardinality(Below(s, a[i])) < i
    BY <2>1, Counts DEF IsAt
  <2>3. a[j] < a[i] => Cardinality(UpTo(s, a[j])) <= Cardinality(Below(s, a[i]))
    BY <2>1, CountsGrow
  <2> QED BY <1>6, <2>1, <2>2, <2>3
<1>7. ToSet(a) = ToSet(s)
  <2>1. ToSet(a) = {a[r] : r \in 1..Len(s)}
    BY <1>4 DEF ToSet
  <2> QED BY <1>3, <1>5, <2>1
<1> QED BY <1>4, <1>6, <1>7 DEF a

-----------------------------------------------------------------------------
(* sort.Search.                                                            *)

(* What a bisection finds in places i to j - 1, given by f in shorter intervals. *)
Half(s, h, f, i, j) ==
  IF i >= j THEN i
  ELSE IF s[((i + j) \div 2) + 1] >= h THEN f[<<i, (i + j) \div 2>>]
                                      ELSE f[<<((i + j) \div 2) + 1, j>>]

Bisects(s, h, f, d) ==
  \A i, j \in 0..Len(s) : j - i <= d => f[<<i, j>>] = Half(s, h, f, i, j)

LEMMA Middle ==
  ASSUME NEW i \in Nat, NEW j \in Nat, i < j
  PROVE  (i + j) \div 2 \in Nat /\ i <= (i + j) \div 2 /\ (i + j) \div 2 < j
OBVIOUS

LEMMA HalfAgrees ==
  ASSUME NEW s \in Seq(Nat), NEW h, NEW f, NEW g, NEW i \in 0..Len(s), NEW j \in 0..Len(s),
         \A x, y \in 0..Len(s) : y - x < j - i => f[<<x, y>>] = g[<<x, y>>]
  PROVE  Half(s, h, f, i, j) = Half(s, h, g, i, j)
<1>1. CASE i >= j
  BY <1>1 DEF Half
<1>2. CASE ~ (i >= j)
  <2> DEFINE m == (i + j) \div 2
  <2>0. i \in Nat /\ j \in Nat /\ Len(s) \in Nat /\ i < j
    BY <1>2
  <2>1. m \in Nat /\ i <= m /\ m < j
    BY <2>0, Middle
  <2> HIDE DEF m
  <2>2. m \in 0..Len(s) /\ m + 1 \in 0..Len(s) /\ m - i < j - i /\ j - (m + 1) < j - i
    BY <2>0, <2>1
  <2>3. f[<<i, m>>] = g[<<i, m>>] /\ f[<<m + 1, j>>] = g[<<m + 1, j>>]
    BY <2>2
  <2> QED BY <2>3 DEF Half, m
<1> QED BY <1>1, <1>2

LEMMA BisectionExists ==
  ASSUME NEW s \in Seq(Nat), NEW h
  PROVE  \E f : Search(s, h) = f[<<0, Len(s)>>] /\ Bisects(s, h, f, Len(s))
<1> DEFINE n == Len(s)
           Step(f) == [w \in (0..n) \X (0..n) |-> Half(s, h, f, w[1], w[2])]
           T == {d \in Nat : \E f : Bisects(s, h, f, d)}
<1>0. n \in Nat
  OBVIOUS
<1>1. Search(s, h) = (CHOOSE f : f = Step(f))[<<0, n>>]
  BY DEF Search, Half
<1>2. 0 \in T
  <2> DEFINE f == [w \in (0..n) \X (0..n) |-> w[1]]
  <2>1. \A i, j \in 0..n : f[<<i, j>>] = i
    OBVIOUS
  <2> HIDE DEF f
  <2>2. Bisects(s, h, f, 0)
    BY <1>0, <2>1 DEF Bisects, Half
  <2> QED BY <2>2
<1>3. ASSUME NEW d \in T PROVE d + 1 \in T
  <2>1. PICK f : Bisects(s, h, f, d)
    OBVIOUS
  <2>0. d \in Nat /\ d + 1 \in Nat
    OBVIOUS
  <2> DEFINE g == [w \in (0..n) \X (0..n) |->
                     IF w[2] - w[1] <= d THEN f[w] ELSE Half(s, h, f, w[1], w[2])]
  <2>2. \A i, j \in 0..n : g[<<i, j>>] = IF j - i <= d THEN f[<<i, j>>] ELSE Half(s, h, f, i, j)
    OBVIOUS
  <2> HIDE DEF g, T
  <2>3. ASSUME NEW i \in 0..n, NEW j \in 0..n, j - i <= d + 1
        PROVE  g[<<i, j>>] = Half(s, h, g, i, j)
    <3>1. g[<<i, j>>] = Half(s, h, f, i, j)
      BY <2>1, <2>2 DEF Bisects
    <3>2. \A x, y \in 0..Len(s) : y - x < j - i => g[<<x, y>>] = f[<<x, y>>]
      BY <2>0, <2>2, <2>3
    <3>3. Half(s, h, g, i, j) = Half(s, h, f, i, j)
      BY <3>2, HalfAgrees
    <3> QED BY <3>1, <3>3
  <2>4. Bisects(s, h, g, d + 1)
    BY <2>3 DEF Bisects
  <2> QED BY <2>0, <2>4 DEF T
<1>4. T = Nat
  <2> HIDE DEF T
  <2>1. T \in SUBSET Nat
    BY DEF T
  <2> QED BY <1>2, <1>3, <2>1, Induction
<1>5. PICK f : Bisects(s, h, f, n)
  <2>1. n \in T
    BY <1>0, <1>4
  <2> QED BY <2>1
<1> DEFINE e == [w \in (0..n) \X (0..n) |-> f[w]]
<1>6. \A i, j \in 0..n : e[<<i, j>>] = f[<<i, j>>]
  OBVIOUS
<1>7. e = Step(e)
  <2>1. ASSUME NEW i \in 0..n, NEW j \in 0..n PROVE e[<<i, j>>] = Half(s, h, e, i, j)
    <3> HIDE DEF e
    <3>1. f[<<i, j>>] = Half(s, h, f, i, j)
      BY <1>0, <1>5 DEF Bisects
    <3>2. Half(s, h, e, i, j) = Half(s, h, f, i, j)
      BY <1>6, HalfAgrees
    <3> QED BY <1>6, <3>1, <3>2
  <2>2. \A w \in (0..n) \X (0..n) : w[1] \in 0..n /\ w[2] \in 0..n /\ w = <<w[1], w[2]>>
    OBVIOUS
  <2>3. \A w \in (0..n) \X (0..n) : f[w] = Half(s, h, e, w[1], w[2])
    <3> HIDE DEF e
    <3> QED BY <1>6, <2>1, <2>2
  <2> QED BY <2>3
<1> HIDE DEF e
<1> DEFINE k == CHOOSE g : g = Step(g)
<1>8. k = Step(k)
  <2> HIDE DEF Step
  <2> QED BY <1>7
<1> HIDE DEF k
<1>9. Bisects(s, h, k, n)
  <2>1. \A w \in (0..n) \X (0..n) : k[w] = Half(s, h, k, w[1], w[2])
    BY <1>8
  <2>2. ASSUME NEW i \in 0..n, NEW j \in 0..n PROVE k[<<i, j>>] = Half(s, h, k, i, j)
    <3>1. <<i, j>> \in (0..n) \X (0..n) /\ <<i, j>>[1] = i /\ <<i, j>>[2] = j
      OBVIOUS
    <3> QED BY <2>1, <3>1
  <2> QED BY <2>2 DEF Bisects
<1> QED BY <1>1, <1>9 DEF k

LEMMA SearchFinds ==
  ASSUME NEW s \in Seq(Nat), NEW h \in Nat
  PROVE  /\ Search(s, h) \in 0..Len(s)
         /\ Search(s, h) > 0 => s[Search(s, h)] < h
         /\ Search(s, h) < Len(s) => s[Search(s, h) + 1] >= h
<1> DEFINE n == Len(s)
<1>0. n \in Nat
  OBVIOUS
<1>1. PICK f : Search(s, h) = f[<<0, n>>] /\ Bisects(s, h, f, n)
  BY BisectionExists
<1> DEFINE Ends(i, j) == /\ f[<<i, j>>] \in i..j
                         /\ f[<<i, j>>] > i => s[f[<<i, j>>]] < h
                         /\ f[<<i, j>>] < j => s[f[<<i, j>>] + 1] >= h
           T == {d \in Nat : \A i, j \in 0..n : i <= j /\ j - i <= d => Ends(i, j)}
<1> HIDE DEF n
<1>2. \A i, j \in 0..n : f[<<i, j>>] = Half(s, h, f, i, j)
  <2> SUFFICES ASSUME NEW i \in 0..n, NEW j \in 0..n PROVE f[<<i, j>>] = Half(s, h, f, i, j)
    OBVIOUS
  <2>1. j - i <= n
    BY <1>0
  <2> QED BY <1>1, <2>1 DEF Bisects, n
<1>3. 0 \in T
  <2>1. ASSUME NEW i \in 0..n, NEW j \in 0..n, i <= j, j - i <= 0 PROVE Ends(i, j)
    <3>0. i = j /\ i >= j
      BY <1>0, <2>1
    <3>1. f[<<i, j>>] = i
      <4>1. Half(s, h, f, i, j) = i
        BY <3>0 DEF Half
      <4> QED BY <1>2, <4>1
    <3> QED BY <1>0, <3>0, <3>1
  <2> QED BY <2>1
<1>4. ASSUME NEW d \in T PROVE d + 1 \in T
  <2>0. d \in Nat /\ d + 1 \in Nat
    OBVIOUS
  <2>1. ASSUME NEW i \in 0..n, NEW j \in 0..n, i <= j, j - i <= d PROVE Ends(i, j)
    BY <2>1
  <2> HIDE DEF T
  <2>2. ASSUME NEW i \in 0..n, NEW j \in 0..n, i <= j, j - i <= d + 1 PROVE Ends(i, j)
    <3>0. i \in Nat /\ j \in Nat
      BY <1>0
    <3>1. CASE i = j
      <4>1. f[<<i, j>>] = i
        <5>1. Half(s, h, f, i, j) = i
          BY <3>0, <3>1 DEF Half
        <5> QED BY <1>2, <5>1
      <4> QED BY <3>0, <3>1, <4>1
    <3>2. CASE i < j
      <4> DEFINE m == (i + j) \div 2
      <4>1. m \in Nat /\ i <= m /\ m < j
        BY <3>0, <3>2, Middle
      <4>2. f[<<i, j>>] = IF s[m + 1] >= h THEN f[<<i, m>>] ELSE f[<<m + 1, j>>]
        BY <1>2, <3>0, <3>2 DEF Half
      <4> HIDE DEF m
      <4>3. m \in 0..n /\ m + 1 \in 0..n /\ m - i <= d /\ j - (m + 1) <= d
        BY <1>0, <2>0, <2>2, <3>0, <4>1
      <4>4. s[m + 1] \in Nat
        BY <1>0, <3>0, <4>1 DEF n
      <4>5. CASE s[m + 1] >= h
        <5> DEFINE r == f[<<i, m>>]
        <5>1. r \in i..m /\ (r > i => s[r] < h) /\ (r < m => s[r + 1] >= h)
          BY <2>1, <4>1, <4>3
        <5>2. f[<<i, j>>] = r
          BY <4>2, <4>5
        <5> HIDE DEF r
        <5>3. r \in i..j /\ (r < j => s[r + 1] >= h)
          BY <3>0, <4>1, <4>5, <5>1
        <5> QED BY <5>1, <5>2, <5>3
      <4>6. CASE ~ (s[m + 1] >= h)
        <5> DEFINE r == f[<<m + 1, j>>]
        <5>1. r \in (m + 1)..j /\ (r > m + 1 => s[r] < h) /\ (r < j => s[r + 1] >= h)
          BY <2>1, <3>0, <4>1, <4>3
        <5>2. f[<<i, j>>] = r
          BY <4>2, <4>6
        <5> HIDE DEF r
        <5>3. r \in i..j /\ s[r] < h
          BY <3>0, <4>1, <4>4, <4>6, <5>1
        <5> QED BY <5>1, <5>2, <5>3
      <4> QED BY <4>5, <4>6
    <3> QED BY <2>2, <3>0, <3>1, <3>2
  <2> HIDE DEF Ends
  <2> QED BY <2>0, <2>2 DEF T
<1>5. T = Nat
  <2> HIDE DEF T
  <2>1. T \in SUBSET Nat
    BY DEF T
  <2> QED BY <1>3, <1>4, <2>1, Induction
<1>6. Ends(0, n)
  <2>1. n \in T
    BY <1>0, <1>5
  <2> HIDE DEF Ends
  <2> QED BY <1>0, <2>1
<1> QED BY <1>1, <1>6 DEF n

-----------------------------------------------------------------------------
(* The points an addition appends.                                         *)

LEMMA Products ==
  ASSUME NEW n \in Nat, NEW p \in Nat, NEW q \in Nat, p < q
  PROVE  n * p \in Nat /\ n * q \in Nat /\ n * q >= n * p + n
<1>1. PICK d \in Nat : q = p + 1 + d
  <2>1. q - p - 1 \in Nat /\ q = p + 1 + (q - p - 1)
    OBVIOUS
  <2> QED BY <2>1
<1>2. n * q = n * p + n + n * d /\ n * d \in Nat /\ n * p \in Nat
  BY <1>1
<1> QED BY <1>2

LEMMA Quotient ==
  ASSUME NEW R \in Nat \ {0}, NEW a \in Nat
  PROVE  a \div R \in Nat /\ a % R \in 0..(R - 1) /\ a = R * (a \div R) + (a % R)
OBVIOUS

(* Of L times R numbers, every one is R times one below L, and a rest below R. *)
LEMMA Split ==
  ASSUME NEW R \in Nat \ {0}, NEW L \in Nat, NEW m \in 1..(L * R)
  PROVE  (m - 1) \div R \in 0..(L - 1) /\ (m - 1) % R \in 0..(R - 1)
<1> DEFINE q == (m - 1) \div R
<1>1. m - 1 \in Nat /\ m - 1 < R * L
  OBVIOUS
<1>2. q \in Nat /\ (m - 1) % R \in 0..(R - 1) /\ m - 1 = R * q + ((m - 1) % R)
  BY <1>1, Quotient
<1> HIDE DEF q
<1>3. ~ (L < q) /\ L # q
  <2>1. L < q => R * q >= R * L + R
    BY <1>2, Products
  <2> QED BY <1>1, <1>2, <2>1
<1> QED BY <1>2, <1>3 DEF q

(* ... and each such pair is of one of them. *)
LEMMA Joined ==
  ASSUME NEW R \in Nat \ {0}, NEW L \in Nat, NEW q \in 0..(L - 1), NEW i \in 0..(R - 1)
  PROVE  /\ R * q + i + 1 \in 1..(L * R)
         /\ ((R * q + i + 1) - 1) \div R = q /\ ((R * q + i + 1) - 1) % R = i
<1> DEFINE a == R * q + i
           p == a \div R
           r == a % R
<1>1. a \in Nat /\ (a + 1) - 1 = a
  OBVIOUS
<1>2. p \in Nat /\ r \in 0..(R - 1) /\ a = R * p + r
  BY <1>1, Quotient
<1> HIDE DEF p, r
<1>3. p = q
  <2>1. p < q => R * q >= R * p + R
    BY <1>2, Products
  <2>2. q < p => R * p >= R * q + R
    BY <1>2, Products
  <2>3. R * p \in Nat /\ R * q \in Nat /\ i < R /\ r < R
    BY <1>2
  <2>4. R * p + r = R * q + i
    BY <1>2
  <2> HIDE DEF a
  <2> QED BY <1>2, <2>1, <2>2, <2>3, <2>4
<1>4. r = i
  BY <1>2, <1>3
<1>5. a + 1 \in 1..(L * R)
  <2>1. R * L >= R * q + R /\ R * L = L * R
    BY Products
  <2> QED BY <1>1, <2>1
<1> QED BY <1>1, <1>3, <1>4, <1>5 DEF p, r

HashesOf(S) == {hash[p] : p \in S \X (0..(Replicas - 1))}

LEMMA HashedIs ==
  ASSUME RingTypeOK, NEW added \in Seq(Nodes)
  PROVE  Hashed(added) \in Seq(Hashes) /\ ToSet(Hashed(added)) = HashesOf(ToSet(added))
<1> DEFINE L == Len(added)
           a == Hashed(added)
<1>0. /\ L \in Nat /\ Replicas \in Nat \ {0} /\ L * Replicas \in Nat
      /\ ToSet(added) = {added[j] : j \in 1..L} /\ \A j \in 1..L : added[j] \in Nodes
      /\ hash \in [Nodes \X (0..(Replicas - 1)) -> Hashes]
  BY RingAssumption DEF RingTypeOK, Points, ToSet
<1>1. a = [m \in 1..(L * Replicas) |->
             hash[<<added[((m - 1) \div Replicas) + 1], (m - 1) % Replicas>>]]
  BY DEF Hashed
<1> HIDE DEF a, L
<1>2. ASSUME NEW m \in 1..(L * Replicas)
      PROVE  a[m] \in HashesOf(ToSet(added)) /\ a[m] \in Hashes
  <2> DEFINE j == ((m - 1) \div Replicas) + 1
             i == (m - 1) % Replicas
  <2>1. a[m] = hash[<<added[j], i>>]
    BY <1>1
  <2>2. j \in 1..L /\ i \in 0..(Replicas - 1)
    <3>1. (m - 1) \div Replicas \in 0..(L - 1) /\ i \in 0..(Replicas - 1)
      BY <1>0, Split
    <3> QED BY <1>0, <3>1
  <2> HIDE DEF j, i
  <2> QED BY <1>0, <2>1, <2>2 DEF HashesOf
<1>3. a \in Seq(Hashes) /\ Len(a) = L * Replicas /\ DOMAIN a = 1..(L * Replicas)
  <2>1. a \in [1..(L * Replicas) -> Hashes]
    BY <1>1, <1>2
  <2> QED BY <1>0, <2>1
<1>4. ASSUME NEW x \in HashesOf(ToSet(added)) PROVE \E m \in 1..(L * Replicas) : a[m] = x
  <2>1. PICK j \in 1..L, i \in 0..(Replicas - 1) : x = hash[<<added[j], i>>]
    <3>1. PICK w \in ToSet(added) \X (0..(Replicas - 1)) : x = hash[w]
      BY DEF HashesOf
    <3>2. w = <<w[1], w[2]>> /\ w[1] \in ToSet(added) /\ w[2] \in 0..(Replicas - 1)
      OBVIOUS
    <3>3. PICK j \in 1..L : w[1] = added[j]
      BY <1>0, <3>2
    <3> QED BY <3>1, <3>2, <3>3
  <2> DEFINE m == Replicas * (j - 1) + i + 1
  <2>2. j - 1 \in 0..(L - 1) /\ (j - 1) + 1 = j
    BY <1>0
  <2>3. m \in 1..(L * Replicas) /\ (m - 1) \div Replicas = j - 1 /\ (m - 1) % Replicas = i
    BY <1>0, <2>2, Joined
  <2> HIDE DEF m
  <2>4. a[m] = hash[<<added[(j - 1) + 1], i>>]
    BY <1>1, <2>3
  <2> QED BY <2>1, <2>2, <2>3, <2>4
<1>5. ToSet(a) = {a[m] : m \in 1..(L * Replicas)}
  BY <1>3 DEF ToSet
<1> QED BY <1>2, <1>3, <1>4, <1>5 DEF a

-----------------------------------------------------------------------------
(* The key a Get finds.                                                    *)

Sorted(s) == \A i, j \in 1..Len(s) : i <= j => s[i] <= s[j]

(* x is the first of S from h on, or the first of all. *)
First(S, h, x) ==
  /\ x \in S
  /\ IF \E y \in S : y >= h THEN x >= h /\ \A y \in S : y >= h => x <= y
                          ELSE \A y \in S : x <= y

LEMMA Rest == ASSUME NEW n \in Nat, NEW k \in 0..(n - 1) PROVE k % n = k
OBVIOUS

LEMMA KeyFound ==
  ASSUME NEW s \in Seq(Nat), s # <<>>, Sorted(s), NEW h \in Nat
  PROVE  First(ToSet(s), h, s[(Search(s, h) % Len(s)) + 1])
<1> DEFINE n == Len(s)
           k == Search(s, h)
           i == (k % n) + 1
<1>0. n \in Nat \ {0} /\ ToSet(s) = {s[j] : j \in 1..n} /\ \A j \in 1..n : s[j] \in Nat
  BY DEF ToSet
<1>1. k \in 0..n /\ (k > 0 => s[k] < h) /\ (k < n => s[k + 1] >= h)
  BY SearchFinds
<1> HIDE DEF n, k
<1>2. CASE k = n
  <2>1. i = 1 /\ k \in 1..n
    BY <1>0, <1>1, <1>2
  <2>2. ASSUME NEW j \in 1..n PROVE s[j] < h /\ s[1] <= s[j]
    <3>1. s[j] <= s[k] /\ s[1] <= s[j]
      BY <1>0, <1>2, <2>1 DEF Sorted, n
    <3> QED BY <1>0, <1>1, <2>1, <3>1
  <2>3. \A y \in ToSet(s) : y \in Nat /\ y < h /\ s[1] <= y
    BY <1>0, <2>2
  <2>4. s[1] \in ToSet(s)
    BY <1>0
  <2>5. ~ \E y \in ToSet(s) : y >= h
    BY <2>3
  <2> HIDE DEF i
  <2> QED BY <2>1, <2>3, <2>4, <2>5 DEF First, i, n, k
<1>3. CASE k < n
  <2>1. i = k + 1 /\ i \in 1..n
    <3>1. k \in 0..(n - 1)
      BY <1>0, <1>1, <1>3
    <3>2. k % n = k
      BY <1>0, <3>1, Rest
    <3> QED BY <1>0, <3>1, <3>2
  <2> HIDE DEF i
  <2>2. s[i] >= h /\ s[i] \in ToSet(s) /\ s[i] \in Nat
    BY <1>0, <1>1, <1>3, <2>1
  <2>3. ASSUME NEW j \in 1..n, s[j] >= h PROVE s[i] <= s[j]
    <3>1. CASE j <= k
      <4>1. k \in 1..n /\ s[j] <= s[k] /\ s[k] < h
        BY <1>0, <1>1, <1>3, <3>1 DEF Sorted, n
      <4>2. s[k] \in Nat /\ s[j] \in Nat
        BY <1>0, <4>1
      <4> QED BY <2>3, <4>1, <4>2
    <3>2. CASE i <= j
      BY <2>1, <3>2 DEF Sorted, n
    <3> QED BY <1>0, <1>1, <2>1, <3>1, <3>2
  <2>4. \A y \in ToSet(s) : y >= h => s[i] <= y
    BY <1>0, <2>3
  <2> QED BY <2>2, <2>4 DEF First, i, n, k
<1> QED BY <1>0, <1>1, <1>2, <1>3

LEMMA FirstIsOne ==
  ASSUME NEW S \in SUBSET Nat, NEW T \in SUBSET S, NEW h \in Nat, NEW x \in T, NEW y,
         First(S, h, x), First(T, h, y)
  PROVE  x = y
<1>1. x \in Nat /\ y \in Nat /\ y \in T /\ y \in S
  BY DEF First
<1>2. CASE \E z \in T : z >= h
  <2>1. x >= h /\ y >= h /\ x <= y
    BY <1>1, <1>2 DEF First
  <2>2. y <= x
    BY <1>2, <2>1 DEF First
  <2> QED BY <1>1, <2>1, <2>2
<1>3. CASE ~ \E z \in T : z >= h
  <2>1. y <= x /\ ~ (x >= h) /\ ~ (y >= h)
    BY <1>1, <1>3 DEF First
  <2>2. x <= y
    BY <1>1, <2>1 DEF First
  <2> QED BY <1>1, <2>1, <2>2
<1> QED BY <1>2, <1>3

-----------------------------------------------------------------------------
(* The invariant of the ring holds.                                        *)

LEMMA Greatest ==
  ASSUME NEW n \in Nat, NEW S \in SUBSET (1..n), S # {}
  PROVE  Max(S) \in S
<1> DEFINE T == {n - j : j \in S}
<1>1. T \in SUBSET Nat /\ T # {}
  <2>1. ASSUME NEW j \in S PROVE n - j \in Nat
    OBVIOUS
  <2> QED BY <2>1
<1>2. PICK m \in T : \A k \in T : m <= k
  <2> HIDE DEF T
  <2> QED BY <1>1, LeastOf
<1>3. PICK j \in S : m = n - j
  BY <1>2
<1>4. \A k \in S : j >= k
  <2> SUFFICES ASSUME NEW k \in S PROVE j >= k
    OBVIOUS
  <2>1. n - k \in T
    OBVIOUS
  <2>2. m <= n - k
    BY <1>2, <2>1
  <2> QED BY <1>3, <2>2
<1> QED BY <1>3, <1>4 DEF Max

LEMMA SetOf ==
  ASSUME NEW T, NEW s \in Seq(T)
  PROVE  Len(s) \in Nat /\ ToSet(s) = {s[i] : i \in 1..Len(s)} /\ ToSet(s) \subseteq T
BY DEF ToSet

LEMMA Wider ==
  ASSUME NEW T, NEW U, T \subseteq U, NEW s \in Seq(T)
  PROVE  s \in Seq(U)
<1>1. Len(s) \in Nat /\ s \in [1..Len(s) -> T]
  OBVIOUS
<1>2. s \in [1..Len(s) -> U]
  BY <1>1
<1> QED BY <1>1, <1>2

LEMMA SetOfBoth ==
  ASSUME NEW T, NEW s \in Seq(T), NEW t \in Seq(T)
  PROVE  s \o t \in Seq(T) /\ ToSet(s \o t) = ToSet(s) \cup ToSet(t)
<1> DEFINE c == s \o t
<1>1. /\ c \in Seq(T) /\ Len(c) = Len(s) + Len(t)
      /\ \A i \in 1..(Len(s) + Len(t)) : c[i] = IF i <= Len(s) THEN s[i] ELSE t[i - Len(s)]
  BY ConcatProperties
<1> HIDE DEF c
<1>2. /\ Len(s) \in Nat /\ Len(t) \in Nat
      /\ ToSet(c) = {c[i] : i \in 1..(Len(s) + Len(t))}
      /\ ToSet(s) = {s[i] : i \in 1..Len(s)} /\ ToSet(t) = {t[i] : i \in 1..Len(t)}
  BY <1>1, SetOf
<1>3. ASSUME NEW i \in 1..(Len(s) + Len(t)) PROVE c[i] \in ToSet(s) \cup ToSet(t)
  <2>1. CASE i <= Len(s)
    <3>1. c[i] = s[i] /\ i \in 1..Len(s)
      BY <1>1, <1>2, <2>1
    <3> QED BY <1>2, <3>1
  <2>2. CASE ~ (i <= Len(s))
    <3>1. c[i] = t[i - Len(s)] /\ i - Len(s) \in 1..Len(t)
      BY <1>1, <1>2, <2>2
    <3> QED BY <1>2, <3>1
  <2> QED BY <2>1, <2>2
<1>4. ASSUME NEW i \in 1..Len(s) PROVE s[i] \in ToSet(c)
  <2>1. i \in 1..(Len(s) + Len(t)) /\ c[i] = s[i]
    BY <1>1, <1>2
  <2> QED BY <1>2, <2>1
<1>5. ASSUME NEW i \in 1..Len(t) PROVE t[i] \in ToSet(c)
  <2> DEFINE j == i + Len(s)
  <2>1. j \in 1..(Len(s) + Len(t)) /\ ~ (j <= Len(s)) /\ j - Len(s) = i
    BY <1>2
  <2> HIDE DEF j
  <2>2. c[j] = t[i]
    BY <1>1, <2>1
  <2> QED BY <1>2, <2>1, <2>2
<1>6. ToSet(c) \subseteq ToSet(s) \cup ToSet(t)
  <2>1. \A x \in ToSet(c) : \E i \in 1..(Len(s) + Len(t)) : x = c[i]
    BY <1>2
  <2> QED BY <1>3, <2>1
<1>7. ToSet(s) \cup ToSet(t) \subseteq ToSet(c)
  <2>1. \A x \in ToSet(s) : \E i \in 1..Len(s) : x = s[i]
    BY <1>2
  <2>2. \A x \in ToSet(t) : \E i \in 1..Len(t) : x = t[i]
    BY <1>2
  <2> QED BY <1>4, <1>5, <2>1, <2>2
<1>8. ToSet(c) = ToSet(s) \cup ToSet(t)
  BY <1>6, <1>7
<1> QED BY <1>1, <1>8 DEF c

(* The keys after an addition. *)
LEMMA KeysAdded ==
  ASSUME PointsInv, NEW added \in Seq(Nodes), AddNodes(added)
  PROVE  /\ keys' \in Seq(Hashes) /\ Sorted(keys')
         /\ ToSet(keys') = ToSet(keys) \cup HashesOf(ToSet(added))
<1> DEFINE c == keys \o Hashed(added)
<1>1. /\ keys \in Seq(Hashes) /\ Hashed(added) \in Seq(Hashes)
      /\ ToSet(Hashed(added)) = HashesOf(ToSet(added))
  BY HashedIs DEF PointsInv, RingTypeOK
<1>2. Hashes \subseteq Nat
  BY RingAssumption DEF Hashes
<1>3. c \in Seq(Hashes) /\ ToSet(c) = ToSet(keys) \cup ToSet(Hashed(added))
  BY <1>1, SetOfBoth
<1> HIDE DEF c
<1>4. c \in Seq(Nat)
  BY <1>2, <1>3, Wider
<1>5. keys' = Ascending(c)
  BY DEF AddNodes, c
<1>6. /\ keys' \in Seq(Nat) /\ Len(keys') = Len(c) /\ ToSet(keys') = ToSet(c)
      /\ \A i, j \in 1..Len(c) : i <= j => keys'[i] <= keys'[j]
  BY <1>4, <1>5, Ints
<1>7. keys' \in Seq(Hashes)
  <2> DEFINE k == keys'
  <2> HIDE DEF k
  <2>1. k \in Seq(Nat) /\ ToSet(k) \subseteq Hashes
    <3>1. ToSet(c) \subseteq Hashes
      BY <1>3 DEF ToSet
    <3> QED BY <1>6, <3>1 DEF k
  <2>2. \A i \in 1..Len(k) : k[i] \in Hashes
    BY <2>1 DEF ToSet
  <2>3. k \in Seq(Hashes)
    BY <2>1, <2>2
  <2> QED BY <2>3 DEF k
<1> QED BY <1>1, <1>3, <1>6, <1>7 DEF Sorted

(* The map after an addition. *)
LEMMA MapAdded ==
  ASSUME PointsInv, NEW added \in Seq(Nodes), AddNodes(added)
  PROVE  /\ DOMAIN hashMap' = ToSet(keys')
         /\ \A x \in ToSet(keys') :
              \/ /\ hashMap'[x] \in ToSet(added)
                 /\ \E i \in 0..(Replicas - 1) : hash[<<hashMap'[x], i>>] = x
              \/ x \in ToSet(keys) /\ hashMap'[x] = hashMap[x]
<1> DEFINE At(x) == {j \in 1..Len(added) : \E i \in 0..(Replicas - 1) : hash[<<added[j], i>>] = x}
<1>1. ToSet(keys') = ToSet(keys) \cup HashesOf(ToSet(added))
  BY KeysAdded
<1>2. ToSet(Hashed(added)) = HashesOf(ToSet(added))
  BY HashedIs DEF PointsInv
<1>3. hashMap' = [x \in ToSet(keys') |-> IF At(x) = {} THEN hashMap[x] ELSE added[Max(At(x))]]
  <2> DEFINE K == ToSet(keys) \cup ToSet(Hashed(added))
  <2>1. hashMap' = [x \in K |-> IF At(x) = {} THEN hashMap[x] ELSE added[Max(At(x))]]
    BY DEF AddNodes, LastWins
  <2>2. K = ToSet(keys')
    BY <1>1, <1>2
  <2> HIDE DEF K, At
  <2> QED BY <2>1, <2>2
<1>4. ASSUME NEW x \in ToSet(keys')
      PROVE  \/ /\ hashMap'[x] \in ToSet(added)
                /\ \E i \in 0..(Replicas - 1) : hash[<<hashMap'[x], i>>] = x
             \/ x \in ToSet(keys) /\ hashMap'[x] = hashMap[x]
  <2>0. Len(added) \in Nat /\ ToSet(added) = {added[j] : j \in 1..Len(added)}
    BY DEF ToSet
  <2>1. CASE At(x) = {}
    <3>1. x \notin HashesOf(ToSet(added))
      <4> SUFFICES ASSUME NEW w \in ToSet(added) \X (0..(Replicas - 1)), x = hash[w] PROVE FALSE
        BY DEF HashesOf
      <4>1. w = <<w[1], w[2]>> /\ w[1] \in ToSet(added) /\ w[2] \in 0..(Replicas - 1)
        OBVIOUS
      <4>2. PICK j \in 1..Len(added) : w[1] = added[j]
        BY <2>0, <4>1
      <4>3. j \in At(x)
        BY <4>1, <4>2
      <4> QED BY <2>1, <4>3
    <3> HIDE DEF At
    <3>2. hashMap'[x] = hashMap[x]
      BY <1>3, <2>1
    <3> QED BY <1>1, <3>1, <3>2
  <2>2. CASE At(x) # {}
    <3>1. Max(At(x)) \in At(x)
      <4>1. At(x) \in SUBSET (1..Len(added))
        OBVIOUS
      <4> HIDE DEF At
      <4> QED BY <2>0, <2>2, <4>1, Greatest
    <3> DEFINE m == Max(At(x))
    <3>2. hashMap'[x] = added[m]
      <4> HIDE DEF At
      <4> QED BY <1>3, <2>2
    <3> HIDE DEF m
    <3>3. m \in 1..Len(added) /\ \E i \in 0..(Replicas - 1) : hash[<<added[m], i>>] = x
      BY <3>1 DEF m
    <3> QED BY <2>0, <3>2, <3>3
  <2> QED BY <2>1, <2>2
<1>5. DOMAIN hashMap' = ToSet(keys')
  <2> HIDE DEF At
  <2> QED BY <1>3
<1> QED BY <1>4, <1>5

LEMMA PointsInvAdded ==
  ASSUME PointsInv, NEW added \in Seq(Nodes), AddNodes(added)
  PROVE  PointsInv'
<1>1. /\ keys' \in Seq(Hashes) /\ Sorted(keys')
      /\ ToSet(keys') = ToSet(keys) \cup HashesOf(ToSet(added))
  BY KeysAdded
<1>2. /\ DOMAIN hashMap' = ToSet(keys')
      /\ \A x \in ToSet(keys') :
           \/ /\ hashMap'[x] \in ToSet(added)
              /\ \E i \in 0..(Replicas - 1) : hash[<<hashMap'[x], i>>] = x
           \/ x \in ToSet(keys) /\ hashMap'[x] = hashMap[x]
  BY MapAdded
<1>3. /\ hash \in [Points -> Hashes] /\ nodes \subseteq Nodes
      /\ ToSet(keys) = HashesOf(nodes)
      /\ \A x \in ToSet(keys) :
           hashMap[x] \in nodes /\ \E i \in 0..(Replicas - 1) : hash[<<hashMap[x], i>>] = x
  BY DEF PointsInv, RingTypeOK, HashesOf
<1>4. hash' = hash /\ nodes' = nodes \cup ToSet(added) /\ ToSet(added) \subseteq Nodes
  BY SetOf DEF AddNodes
<1>5. \A x \in ToSet(keys') :
        hashMap'[x] \in nodes' /\ \E i \in 0..(Replicas - 1) : hash'[<<hashMap'[x], i>>] = x
  BY <1>2, <1>3, <1>4
<1>6. hashMap' \in [ToSet(keys') -> Nodes]
  <2>1. hashMap' = [x \in ToSet(keys') |-> hashMap'[x]]
    BY <1>2 DEF AddNodes, LastWins
  <2> QED BY <1>3, <1>4, <1>5, <2>1
<1>7. ToSet(keys') = {hash'[p] : p \in nodes' \X (0..(Replicas - 1))}
  <2>1. ToSet(keys') = HashesOf(nodes \cup ToSet(added))
    BY <1>1, <1>3 DEF HashesOf
  <2> QED BY <1>4, <2>1 DEF HashesOf
<1>8. RingTypeOK'
  BY <1>1, <1>3, <1>4, <1>6 DEF RingTypeOK, Sorted
<1> QED BY <1>5, <1>7, <1>8 DEF PointsInv

LEMMA PointsInvEmpty ==
  ASSUME hash \in [Points -> Hashes], keys = <<>>, hashMap = <<>>, nodes = {}
  PROVE  PointsInv
<1>1. ToSet(keys) = {} /\ Len(keys) = 0 /\ keys \in Seq(Hashes)
  BY DEF ToSet
<1>2. hashMap \in [ToSet(keys) -> Nodes]
  BY <1>1
<1>3. {hash[p] : p \in nodes \X (0..(Replicas - 1))} = {}
  OBVIOUS
<1> QED BY <1>1, <1>2, <1>3 DEF PointsInv, RingTypeOK

LEMMA PointsInvKept == PointsInv /\ [RingNext]_ringVars => PointsInv'
<1> SUFFICES ASSUME PointsInv, [RingNext]_ringVars PROVE PointsInv'
  OBVIOUS
<1>1. ASSUME NEW n \in 1..MaxAdded, NEW added \in [1..n -> Nodes], AddNodes(added)
      PROVE  PointsInv'
  <2>1. added \in Seq(Nodes)
    <3>1. n \in Nat
      BY RingAssumption
    <3> QED BY <3>1
  <2> QED BY <1>1, <2>1, PointsInvAdded
<1>2. CASE NewMap
  <2>1. hash' \in [Points -> Hashes]
    BY <1>2 DEF NewMap, PointsInv, RingTypeOK
  <2>2. keys' = <<>> /\ hashMap' = <<>> /\ nodes' = {}
    BY <1>2 DEF NewMap
  <2>3. ToSet(keys') = {} /\ Len(keys') = 0 /\ keys' \in Seq(Hashes)
    BY <2>2 DEF ToSet
  <2>4. hashMap' \in [ToSet(keys') -> Nodes]
    BY <2>2, <2>3
  <2>5. {hash'[p] : p \in nodes' \X (0..(Replicas - 1))} = {}
    BY <2>2
  <2>6. RingTypeOK'
    <3>1. nodes' \subseteq Nodes /\ \A i, j \in 1..Len(keys') : i <= j => keys'[i] <= keys'[j]
      BY <2>2, <2>3
    <3> QED BY <2>1, <2>3, <2>4, <3>1 DEF RingTypeOK
  <2> QED BY <2>3, <2>5, <2>6 DEF PointsInv
<1>3. CASE UNCHANGED ringVars
  <2>1. hash' = hash /\ keys' = keys /\ hashMap' = hashMap /\ nodes' = nodes
    BY <1>3 DEF ringVars
  <2>2. RingTypeOK'
    BY <2>1 DEF PointsInv, RingTypeOK
  <2>3. ToSet(keys') = {hash'[p] : p \in nodes' \X (0..(Replicas - 1))}
    BY <2>1 DEF PointsInv
  <2>4. \A x \in ToSet(keys') :
          hashMap'[x] \in nodes' /\ \E i \in 0..(Replicas - 1) : hash'[<<hashMap'[x], i>>] = x
    BY <2>1 DEF PointsInv
  <2> QED BY <2>2, <2>3, <2>4 DEF PointsInv
<1> QED BY <1>1, <1>2, <1>3 DEF RingNext

(* The node of a key is that of the first point from its hash on. *)
LEMMA NodeOfFirst ==
  ASSUME PointsInv, nodes # {}, NEW h \in Hashes
  PROVE  \E x \in ToSet(keys) : First(ToSet(keys), h, x) /\ NodeOf(h) = hashMap[x]
<1> DEFINE x == keys[(Search(keys, h) % Len(keys)) + 1]
<1>1. Hashes \subseteq Nat /\ keys \in Seq(Hashes) /\ Sorted(keys)
  <2>1. Hashes \subseteq Nat
    BY RingAssumption DEF Hashes
  <2> QED BY <2>1 DEF PointsInv, RingTypeOK, Sorted
<1>2. keys \in Seq(Nat) /\ h \in Nat
  BY <1>1, Wider
<1>3. keys # <<>>
  <2>1. PICK n \in nodes : TRUE
    OBVIOUS
  <2>2. <<n, 0>> \in nodes \X (0..(Replicas - 1))
    BY RingAssumption
  <2>3. hash[<<n, 0>>] \in ToSet(keys)
    BY <2>2 DEF PointsInv
  <2> QED BY <2>3 DEF ToSet
<1>4. First(ToSet(keys), h, x)
  BY <1>1, <1>2, <1>3, KeyFound
<1>5. NodeOf(h) = hashMap[x]
  BY DEF NodeOf
<1> HIDE DEF x
<1> QED BY <1>4, <1>5 DEF First

LEMMA NearestIsFirst ==
  ASSUME PointsInv, nodes # {}, NEW h \in Hashes, NEW x, First(ToSet(keys), h, x)
  PROVE  Nearest(h) = x
<1> DEFINE all == {hash[p] : p \in nodes \X (0..(Replicas - 1))}
           from == IF \E y \in all : y >= h THEN {y \in all : y >= h} ELSE all
<1>1. Nearest(h) = CHOOSE y \in from : \A z \in from : y <= z
  BY DEF Nearest
<1>2. all = ToSet(keys)
  BY DEF PointsInv
<1> HIDE DEF all
<1>3. all \subseteq Nat
  <2>1. Hashes \subseteq Nat
    BY RingAssumption DEF Hashes
  <2> QED BY <1>2, <2>1, SetOf DEF PointsInv, RingTypeOK
<1>4. x \in from /\ \A y \in from : x <= y
  BY <1>2 DEF First
<1>5. from \subseteq Nat
  BY <1>3
<1> HIDE DEF from
<1>6. \A y \in from : (\A z \in from : y <= z) => y = x
  BY <1>4, <1>5
<1> QED BY <1>1, <1>4, <1>6

LEMMA PointsInvHolds == RingSpec => []PointsInv
<1>1. RingInit => PointsInv
  BY PointsInvEmpty DEF RingInit
<1> QED BY <1>1, PointsInvKept, PTL DEF RingSpec

(* A key belongs to a node that has the first point from the hash of the key on, *)
(* whatever was added in which order, and however the hashes collide.            *)
THEOREM OwnersAreNearest == RingSpec => []Inv
<1>1. PointsInv => Inv
  <2> SUFFICES ASSUME PointsInv PROVE Inv
    OBVIOUS
  <2>1. ASSUME nodes # {}, NEW h \in Hashes
        PROVE  \E i \in 0..(Replicas - 1) : NodeOf(h) \in nodes /\ hash[NodeOf(h), i] = Nearest(h)
    <3>1. PICK x \in ToSet(keys) : First(ToSet(keys), h, x) /\ NodeOf(h) = hashMap[x]
      BY <2>1, NodeOfFirst
    <3>2. Nearest(h) = x
      BY <2>1, <3>1, NearestIsFirst
    <3> QED BY <3>1, <3>2 DEF PointsInv
  <2> QED BY <2>1 DEF Inv, NearestOwner, PointsInv
<1> QED BY <1>1, PointsInvHolds, PTL

(* An addition moves keys to the added nodes only, in any state of the ring. *)
THEOREM KeysMoveToAdded == RingSpec => MovesOnlyToAdded
<1>1. ASSUME PointsInv, PointsInv', NEW added \in UNION {[1..n -> Nodes] : n \in 1..MaxAdded},
             nodes # {}, AddNodes(added), NEW h \in Hashes
      PROVE  NodeOf(h)' \in {NodeOf(h)} \cup ToSet(added)
  <2>1. added \in Seq(Nodes)
    <3>1. PICK n \in 1..MaxAdded : added \in [1..n -> Nodes]
      OBVIOUS
    <3>2. n \in Nat
      BY RingAssumption
    <3> QED BY <3>1, <3>2
  <2>2. PICK x \in ToSet(keys) : First(ToSet(keys), h, x) /\ NodeOf(h) = hashMap[x]
    BY <1>1, NodeOfFirst
  <2> DEFINE y == keys'[(Search(keys', h) % Len(keys')) + 1]
  <2>3. NodeOf(h)' = hashMap'[y]
    BY DEF NodeOf
  <2>4. /\ keys' \in Seq(Hashes) /\ Sorted(keys')
        /\ ToSet(keys') = ToSet(keys) \cup HashesOf(ToSet(added))
    BY <1>1, <2>1, KeysAdded
  <2>5. Hashes \subseteq Nat /\ h \in Nat
    BY RingAssumption DEF Hashes
  <2>6. keys' \in Seq(Nat) /\ ToSet(keys') \subseteq Nat
    BY <2>4, <2>5, Wider, SetOf
  <2>7. keys' # <<>>
    <3>1. x \in ToSet(keys')
      BY <2>2, <2>4
    <3>2. PICK i \in 1..Len(keys') : x = keys'[i]
      BY <2>4, <3>1, SetOf
    <3> QED BY <3>2
  <2>8. First(ToSet(keys'), h, y)
    BY <2>4, <2>5, <2>6, <2>7, KeyFound
  <2> HIDE DEF y
  <2>9. y \in ToSet(keys')
    BY <2>8 DEF First
  <2>10. \/ hashMap'[y] \in ToSet(added)
         \/ y \in ToSet(keys) /\ hashMap'[y] = hashMap[y]
    BY <1>1, <2>1, <2>9, MapAdded
  <2>11. ASSUME y \in ToSet(keys) PROVE x = y
    BY <2>2, <2>4, <2>5, <2>6, <2>8, <2>11, FirstIsOne
  <2> QED BY <2>2, <2>3, <2>10, <2>11
<1>2. PointsInv /\ PointsInv' =>
        [\A added \in UNION {[1..n -> Nodes] : n \in 1..MaxAdded} :
           nodes # {} /\ AddNodes(added) =>
             \A h \in Hashes : NodeOf(h)' \in {NodeOf(h)} \cup ToSet(added)]_ringVars
  BY <1>1
<1> QED BY <1>2, PointsInvHolds, PTL DEF MovesOnlyToAdded
=============================================================================
