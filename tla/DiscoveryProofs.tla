--------------------------- MODULE DiscoveryProofs ---------------------------
(***************************************************************************)
(* Proofs about Discovery for any number of goroutines and addresses, any  *)
(* lists given by hand and any answers of the registry.                    *)
(***************************************************************************)
EXTENDS Discovery, FiniteSetTheorems, TLAPS

(* A finite set of addresses can be listed. *)
LEMMA ListOfSet ==
  ASSUME NEW S, IsFiniteSet(S)
  PROVE  SetToSeq(S) \in Seq(S) /\ Len(SetToSeq(S)) = Cardinality(S)
<1>1. Cardinality(S) \in Nat /\ ExistsBijection(1..Cardinality(S), S)
  BY FS_CardinalityType
<1>2. PICK f : f \in Bijection(1..Cardinality(S), S)
  BY <1>1 DEF ExistsBijection
<1>3. f \in [1..Cardinality(S) -> S] /\ IsInjective(f)
  BY <1>2 DEF Bijection, Injection
<1>4. SetToSeq(S) \in [1..Cardinality(S) -> S]
  BY <1>3 DEF SetToSeq
<1> QED BY <1>1, <1>4

(* An answer of the registry makes a list of addresses and blanks. *)
LEMMA ParsedIsList ==
  ASSUME NEW names \in SUBSET Addrs
  PROVE  Parsed(names) \in Seq(Addrs \cup {Blank})
<1>1. IsFiniteSet(names)
  BY DiscoveryAssumption, FS_Subset
<1> DEFINE n == IF names = {} THEN 1 ELSE Cardinality(names)
<1>2. n \in Nat
  BY <1>1, FS_CardinalityType
<1>3. [i \in 1..n |-> Blank] \in Seq(Addrs \cup {Blank})
  BY <1>2
<1>4. SetToSeq(names) \in Seq(Addrs \cup {Blank})
  BY <1>1, ListOfSet
<1>5. [i \in 1..n |-> Blank] \o SetToSeq(names) \in Seq(Addrs \cup {Blank})
  BY <1>3, <1>4
<1> QED BY <1>5 DEF Parsed

(* The last elements of a sequence are a sequence. *)
LEMMA LastOfIsSeq ==
  ASSUME NEW S, NEW s \in Seq(S), NEW n \in Nat
  PROVE  LastOf(s, n) \in Seq(S)
BY DEF LastOf

(* A sequence is all of itself. *)
LEMMA WholeSeq ==
  ASSUME NEW S, NEW s \in Seq(S)
  PROVE  SubSeq(s, 1, Len(s)) = s
<1>1. Len(s) \in Nat /\ s \in [1..Len(s) -> S]
  OBVIOUS
<1>2. SubSeq(s, 1, Len(s)) \in Seq(S) /\ Len(SubSeq(s, 1, Len(s))) = Len(s)
  BY <1>1
<1>3. \A i \in 1..Len(s) : SubSeq(s, 1, Len(s))[i] = s[i]
  BY <1>1
<1> QED BY <1>1, <1>2, <1>3

LEMMA SmallMod ==
  ASSUME NEW a \in Nat, NEW n \in Nat, a < n
  PROVE  a % n = a
OBVIOUS

(* Division with a remainder, which is unique. *)
LEMMA Division ==
  ASSUME NEW a \in Nat, NEW n \in Nat, n # 0
  PROVE  a \div n \in Nat /\ a % n \in 0..(n - 1) /\ a = n * (a \div n) + (a % n)
OBVIOUS

LEMMA Times ==
  ASSUME NEW n \in Nat, NEW p \in Nat, NEW q \in Nat, p < q
  PROVE  n * q >= n * p + n
<1>1. PICK d \in Nat : q = p + 1 + d
  <2>1. q - p - 1 \in Nat /\ q = p + 1 + (q - p - 1)
    OBVIOUS
  <2> QED BY <2>1
<1>2. n * q = n * p + n + n * d
  BY <1>1
<1>3. n * d \in Nat /\ n * p \in Nat /\ n * q \in Nat
  OBVIOUS
<1> QED BY <1>2, <1>3

LEMMA UniqueRemainder ==
  ASSUME NEW n \in Nat, NEW p \in Nat, NEW q \in Nat,
         NEW r \in 0..(n - 1), NEW s \in 0..(n - 1), n * p + r = n * q + s
  PROVE  r = s
<1>1. CASE p = q
  BY <1>1
<1>2. CASE p < q
  <2>1. n * q >= n * p + n
    BY <1>2, Times
  <2>2. n * q \in Nat /\ n * p \in Nat
    OBVIOUS
  <2> QED BY <2>1, <2>2
<1>3. CASE q < p
  <2>1. n * p >= n * q + n
    BY <1>3, Times
  <2>2. n * q \in Nat /\ n * p \in Nat
    OBVIOUS
  <2> QED BY <2>1, <2>2
<1> QED BY <1>1, <1>2, <1>3

(* Counting on by one, modulo n. *)
LEMMA NextMod ==
  ASSUME NEW a \in Nat, NEW n \in Nat, n # 0
  PROVE  (a + 1) % n = IF (a % n) = n - 1 THEN 0 ELSE (a % n) + 1
<1> DEFINE q == a \div n
           r == a % n
           q2 == (a + 1) \div n
           r2 == (a + 1) % n
<1>1. q \in Nat /\ r \in 0..(n - 1) /\ a = n * q + r
  BY Division, a + 1 \in Nat
<1>2. q2 \in Nat /\ r2 \in 0..(n - 1) /\ a + 1 = n * q2 + r2
  BY Division, a + 1 \in Nat
<1>3. n * q \in Nat /\ n * (q + 1) = n * q + n /\ n * q2 \in Nat
  BY <1>1, <1>2
<1> HIDE DEF q, r, q2, r2
<1>4. CASE r = n - 1
  <2>1. n * (q + 1) + 0 = n * q2 + r2
    BY <1>1, <1>2, <1>3, <1>4
  <2>2. 0 = r2
    BY <2>1, <1>1, <1>2, UniqueRemainder
  <2> QED BY <2>2, <1>4 DEF r, r2
<1>5. CASE r # n - 1
  <2>1. n * q + (r + 1) = n * q2 + r2
    BY <1>1, <1>2, <1>3
  <2>2. r + 1 \in 0..(n - 1)
    BY <1>1, <1>5
  <2>3. r + 1 = r2
    BY <2>1, <2>2, <1>1, <1>2, UniqueRemainder
  <2> QED BY <2>3, <1>5 DEF r, r2
<1> QED BY <1>4, <1>5

-----------------------------------------------------------------------------
(* The invariants.                                                         *)

LEMMA InitInv == Init => FetchInv /\ RoundInv
<1> SUFFICES ASSUME Init PROVE FetchInv /\ RoundInv
  OBVIOUS
<1>1. TypeOK
  <2>1. index \in Nat /\ NoOne \notin Users
    BY DiscoveryAssumption DEF Init
  <2>2. /\ pc \in [Users -> {"idle", "refresh", "fetch", "pick"}]
        /\ \A u \in Users : pc[u] = "idle"
    BY DEF Init
  <2>3. result \in [Users -> Seq(Addrs \cup {Blank})] /\ servers \in Seq(Addrs \cup {Blank})
    BY DEF Init
  <2>4. \A u \in Users : mu = u <=> pc[u] = "fetch"
    BY <2>1, <2>2 DEF Init
  <2>5. round \in Seq(Nat) /\ fetched \in Nat
    BY DEF Init
  <2>6. fresh \in BOOLEAN /\ mu \in Users \cup {NoOne}
    BY DEF Init
  <2> QED BY <2>1, <2>2, <2>3, <2>4, <2>5, <2>6 DEF TypeOK
<1>2. RoundInv
  BY DEF Init, RoundInv, CountBack
<1> QED BY <1>1, <1>2 DEF Init, FetchInv, Inv, OneFetch

LEMMA FetchInvKept == FetchInv /\ [Next]_vars => FetchInv'
<1> SUFFICES ASSUME FetchInv, [Next]_vars PROVE FetchInv'
  OBVIOUS
<1> USE DiscoveryAssumption DEF FetchInv, Inv, OneFetch
<1>1. CASE GoStale
  <2>1. TypeOK'
    BY <1>1 DEF GoStale, TypeOK
  <2> QED BY <1>1, <2>1 DEF GoStale
<1>2. ASSUME NEW u \in Users, Ask(u) PROVE FetchInv'
  BY <1>2 DEF Ask, Goto, TypeOK, list, history
<1>3. ASSUME NEW u \in Users, Refresh(u) PROVE FetchInv'
  <2>1. /\ pc[u] = "refresh" /\ mu = NoOne
        /\ UNCHANGED <<servers, index, fresh, result, fetched, round>>
    BY <1>3 DEF Refresh, Free, history
  <2>2. pc \in [Users -> {"idle", "refresh", "fetch", "pick"}]
    BY DEF TypeOK
  <2>3. \A v \in Users : pc[v] # "fetch"
    BY <2>1 DEF TypeOK
  <2>4. CASE fresh
    <3>1. pc' = [pc EXCEPT ![u] = "pick"] /\ mu' = mu
      BY <1>3, <2>4 DEF Refresh, Goto
    <3>2. pc' \in [Users -> {"idle", "refresh", "fetch", "pick"}]
      BY <2>2, <3>1
    <3>3. \A v \in Users : mu' = v <=> pc'[v] = "fetch"
      BY <2>1, <2>2, <2>3, <3>1
    <3>4. TypeOK'
      BY <2>1, <3>1, <3>2, <3>3 DEF TypeOK
    <3> QED BY <2>1, <3>1, <3>4
  <2>5. CASE ~ fresh
    <3>1. pc' = [pc EXCEPT ![u] = "fetch"] /\ mu' = u
      BY <1>3, <2>5 DEF Refresh, Goto
    <3>2. pc' \in [Users -> {"idle", "refresh", "fetch", "pick"}]
      BY <2>2, <3>1
    <3>3. \A v \in Users : mu' = v <=> pc'[v] = "fetch"
      BY <2>2, <2>3, <3>1
    <3>4. TypeOK'
      BY <2>1, <3>1, <3>2, <3>3 DEF TypeOK
    <3> QED BY <2>1, <2>5, <3>4
  <2> QED BY <2>4, <2>5
<1>4. ASSUME NEW u \in Users, FetchSucceeds(u) PROVE FetchInv'
  <2>1. servers' \in Seq(Addrs \cup {Blank})
    BY <1>4, ParsedIsList DEF FetchSucceeds
  <2>2. /\ pc[u] = "fetch" /\ mu = u /\ fresh' = TRUE /\ mu' = NoOne
        /\ pc' = [pc EXCEPT ![u] = "pick"]
        /\ fetched' = fetched + 1 /\ round' = <<>> /\ UNCHANGED <<index, result>>
    BY <1>4 DEF FetchSucceeds, Unlock, Goto, TypeOK
  <2>3. TypeOK'
    BY <2>1, <2>2 DEF TypeOK
  <2>4. fetched = 0
    BY <2>2 DEF TypeOK
  <2> QED BY <2>2, <2>3, <2>4
<1>5. ASSUME NEW u \in Users, FetchFails(u) PROVE FetchInv'
  <2>1. /\ pc[u] = "fetch" /\ mu' = NoOne
        /\ pc' = [pc EXCEPT ![u] = "idle"]
        /\ UNCHANGED <<servers, index, fresh, fetched, round>>
    BY <1>5 DEF FetchFails, Unlock, Goto, history
  <2>2. pc \in [Users -> {"idle", "refresh", "fetch", "pick"}]
    BY DEF TypeOK
  <2>3. pc' \in [Users -> {"idle", "refresh", "fetch", "pick"}]
    BY <2>1, <2>2
  <2>4. \A v \in Users : mu' = v <=> pc'[v] = "fetch"
    BY <2>1, <2>2 DEF TypeOK
  <2>5. result' \in [Users -> Seq(Addrs \cup {Blank})]
    BY <1>5 DEF FetchFails, TypeOK
  <2>6. TypeOK'
    BY <2>1, <2>3, <2>4, <2>5 DEF TypeOK
  <2> QED BY <2>1, <2>6
<1>6. ASSUME NEW s \in Updates, Update(s) PROVE FetchInv'
  <2>1. s \in Seq(Addrs \cup {Blank})
    <3>1. s \in Seq(Addrs)
      OBVIOUS
    <3> QED BY <3>1
  <2> QED BY <1>6, <2>1 DEF Update, TypeOK
<1>7. ASSUME NEW u \in Users, GetNone(u) PROVE FetchInv'
  BY <1>7 DEF GetNone, Return, Goto, TypeOK, list, history
<1>8. ASSUME NEW u \in Users, GetRandom(u) PROVE FetchInv'
  BY <1>8 DEF GetRandom, Return, Goto, TypeOK, list, history
<1>9. ASSUME NEW u \in Users, GetRobin(u) PROVE FetchInv'
  <2> DEFINE n == Len(servers)
             i == index % n
  <2>0. n \in Nat /\ n # 0 /\ index \in Nat /\ index + 1 \in Nat /\ round \in Seq(Nat)
    BY <1>9 DEF GetRobin, TypeOK
  <2> HIDE DEF n
  <2>1. i \in 0..(n - 1) /\ (index + 1) % n \in Nat
    <3>1. index % n \in 0..(n - 1)
      BY <2>0, Division
    <3>2. (index + 1) % n \in 0..(n - 1)
      BY <2>0, Division
    <3> QED BY <2>0, <3>1, <3>2
  <2> USE DEF n
  <2>2. Append(round, i) \in Seq(Nat)
    BY <2>0, <2>1
  <2>4. round' \in Seq(Nat)
    BY <1>9, <2>0, <2>2, LastOfIsSeq DEF GetRobin
  <2>3. servers[i + 1] \in Addrs \cup {Blank}
    BY <2>0, <2>1 DEF TypeOK
  <2> QED BY <1>9, <2>1, <2>4, <2>3 DEF GetRobin, Return, Goto, NextIndex, TypeOK
<1>10. ASSUME NEW u \in Users, GetAll(u) PROVE FetchInv'
  BY <1>10 DEF GetAll, Return, Goto, TypeOK, list, history
<1>11. CASE UNCHANGED vars
  BY <1>11 DEF vars, list, history, TypeOK
<1> QED BY <1>1, <1>2, <1>3, <1>4, <1>5, <1>6, <1>7, <1>8, <1>9, <1>10, <1>11
        DEF Next, Answer, Pick

(* A pick moves the index and the picks behind it by one place. *)
LEMMA PickCountsBack ==
  ASSUME NEW n \in Nat, n # 0, NEW x \in Nat, NEW r \in Seq(Nat), CountBack(r, x, n)
  PROVE  CountBack(LastOf(Append(r, x % n), n), (x + 1) % n, n)
<1> DEFINE i == x % n
           y == (x + 1) % n
           longer == Append(r, i)
<1>1. i \in 0..(n - 1) /\ y = IF i = n - 1 THEN 0 ELSE i + 1
  BY Division, NextMod
<1>2. r # <<>> => i = x
  BY SmallMod DEF CountBack
<1>3. /\ longer \in Seq(Nat) /\ Len(longer) = Len(r) + 1 /\ Len(r) \in 0..n
      /\ longer[Len(longer)] = i /\ \A j \in 1..Len(r) : longer[j] = r[j]
  BY <1>1 DEF CountBack
<1>4. LastOf(longer, n) = SubSeq(longer, IF Len(longer) > n THEN Len(longer) - n + 1 ELSE 1, Len(longer))
  BY DEF LastOf
<1> HIDE DEF i, y, longer
<1>5. ASSUME NEW j \in 1..Len(longer), Len(longer) - j < n
      PROVE  longer[j] = Back(y, Len(longer) - j + 1, n)
  <2>1. CASE j = Len(longer)
    BY <1>1, <1>3, <2>1 DEF Back
  <2>2. CASE j # Len(longer)
    <3>1. j \in 1..Len(r) /\ longer[j] = r[j] /\ r # <<>>
      BY <1>3, <2>2
    <3>2. r[j] = Back(x, Len(r) - j + 1, n)
      BY <3>1 DEF CountBack
    <3> DEFINE k == Len(r) - j + 1
    <3>3. k \in Nat /\ k < n /\ Len(longer) - j + 1 = k + 1 /\ r[j] = Back(x, k, n)
      BY <1>3, <1>5, <3>1, <3>2
    <3> HIDE DEF k
    <3>4. x \in 0..(n - 1) /\ y = IF x = n - 1 THEN 0 ELSE x + 1
      BY <1>1, <1>2, <3>1
    <3>5. Back(x, k, n) = Back(y, k + 1, n)
      BY <3>3, <3>4 DEF Back
    <3> QED BY <3>1, <3>3, <3>5
  <2> QED BY <2>1, <2>2
<1>6. CASE Len(longer) <= n
  <2>1. LastOf(longer, n) = longer
    <3>1. LastOf(longer, n) = SubSeq(longer, 1, Len(longer))
      <4>1. ~(Len(longer) > n)
        BY <1>3, <1>6
      <4> QED BY <1>4, <4>1
    <3> QED BY <1>3, <3>1, WholeSeq
  <2>2. y < n
    BY <1>1
  <2>3. \A j \in 1..Len(longer) : longer[j] = Back(y, Len(longer) - j + 1, n)
    BY <1>3, <1>5, <1>6
  <2> QED BY <1>6, <2>1, <2>2, <2>3 DEF CountBack, longer, i, y
<1>7. CASE Len(longer) > n
  <2> DEFINE short == LastOf(longer, n)
  <2>1. Len(longer) = n + 1 /\ short = SubSeq(longer, 2, n + 1)
    <3>1. Len(longer) = n + 1 /\ Len(longer) - n + 1 = 2
      BY <1>3, <1>7
    <3> QED BY <1>4, <1>7, <3>1
  <2>2. Len(short) = n /\ \A j \in 1..n : short[j] = longer[j + 1]
    BY <1>3, <2>1
  <2>3. \A j \in 1..n : longer[j + 1] = Back(y, n - j + 1, n)
    BY <1>5, <2>1
  <2>4. y < n
    BY <1>1
  <2> HIDE DEF short
  <2>5. CountBack(short, y, n)
    <3>1. \A j \in 1..Len(short) : short[j] = Back(y, Len(short) - j + 1, n)
      BY <2>2, <2>3
    <3> QED BY <2>2, <2>4, <3>1 DEF CountBack
  <2> QED BY <2>5 DEF short, longer, i, y
<1> QED BY <1>3, <1>6, <1>7

LEMMA RoundInvKept == TypeOK /\ RoundInv /\ [Next]_vars => RoundInv'
<1> SUFFICES ASSUME TypeOK, RoundInv, [Next]_vars PROVE RoundInv'
  OBVIOUS
<1>1. ASSUME NEW u \in Users, GetRobin(u) PROVE RoundInv'
  <2>1. Len(servers) \in Nat /\ Len(servers) # 0 /\ index \in Nat /\ round \in Seq(Nat)
    BY <1>1 DEF GetRobin, TypeOK
  <2>2. CountBack(LastOf(Append(round, index % Len(servers)), Len(servers)),
                  (index + 1) % Len(servers), Len(servers))
    BY <2>1, PickCountsBack DEF RoundInv
  <2> QED BY <1>1, <2>2 DEF GetRobin, NextIndex, RoundInv
<1>2. CASE UNCHANGED <<servers, index, round>>
  BY <1>2 DEF RoundInv, CountBack
<1>3. ASSUME round' = <<>>, servers' \in Seq(Addrs \cup {Blank}) PROVE RoundInv'
  BY <1>3 DEF RoundInv, CountBack
<1>4. CASE \E s \in Updates : Update(s)
  <2>1. servers' \in Seq(Addrs \cup {Blank})
    <3>1. servers' \in Seq(Addrs)
      BY <1>4, DiscoveryAssumption DEF Update
    <3> QED BY <3>1
  <2> QED BY <1>3, <1>4, <2>1 DEF Update
<1>5. ASSUME NEW u \in Users, FetchSucceeds(u) PROVE RoundInv'
  BY <1>3, <1>5, ParsedIsList DEF FetchSucceeds
<1> QED BY <1>1, <1>2, <1>4, <1>5 DEF Next, Answer, Pick, GoStale, Ask, Refresh, FetchFails,
        GetNone, GetRandom, GetAll, list, history, vars

-----------------------------------------------------------------------------

(* The registry is asked once while the list is fresh. *)
THEOREM AskedOnce == Spec => []Inv
<1>1. Init => FetchInv
  BY InitInv
<1>2. FetchInv => Inv
  BY DEF FetchInv
<1> QED BY <1>1, <1>2, FetchInvKept, PTL DEF Spec

(* As many round-robin picks in a row as there are entries are all different. *)
THEOREM EachInTurn == Spec => []RoundRobin
<1>1. Init => RoundInv
  BY InitInv
<1>2. Inv /\ RoundInv /\ [Next]_vars => RoundInv'
  BY RoundInvKept DEF Inv
<1>3. Inv /\ RoundInv => RoundRobin
  <2> SUFFICES ASSUME TypeOK, RoundInv,
                      NEW i \in 1..Len(round), NEW j \in 1..Len(round), round[i] = round[j]
               PROVE  i = j
    <3>1. DOMAIN round = 1..Len(round)
      BY DEF Inv, TypeOK
    <3> QED BY <3>1 DEF Inv, RoundRobin, IsInjective
  <2>1. /\ Len(servers) \in Nat /\ Len(round) \in Nat /\ Len(round) <= Len(servers)
        /\ index \in 0..(Len(servers) - 1)
    BY DEF TypeOK, RoundInv, CountBack
  <2>2. /\ round[i] = Back(index, Len(round) - i + 1, Len(servers))
        /\ round[j] = Back(index, Len(round) - j + 1, Len(servers))
    BY DEF RoundInv, CountBack
  <2> DEFINE a == Len(round) - i + 1
             b == Len(round) - j + 1
  <2>3. a \in 1..Len(servers) /\ b \in 1..Len(servers)
    BY <2>1
  <2>4. Back(index, a, Len(servers)) = Back(index, b, Len(servers))
    BY <2>2
  <2> HIDE DEF a, b
  <2>5. a = b
    BY <2>1, <2>3, <2>4 DEF Back
  <2> QED BY <2>1, <2>5 DEF a, b
<1> QED BY <1>1, <1>2, <1>3, AskedOnce, PTL DEF Spec
=============================================================================
