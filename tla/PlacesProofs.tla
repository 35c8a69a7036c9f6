---------------------------- MODULE PlacesProofs ----------------------------
(***************************************************************************)
(* What filtering a list leaves of it (module Places), for any list and    *)
(* any choice of places: its entries, in their order, each as often as it  *)
(* was chosen.  Used by the proofs about the lists of tabs, outputs, cells *)
(* and chats.                                                              *)
(***************************************************************************)
EXTENDS Places, SequencesExt, FiniteSetTheorems, FunctionTheorems, SequenceTheorems, WellFoundedInduction, TLAPS

\* A set of numbers has a least one.
LEMMA Least ==
  ASSUME NEW T, T \subseteq Nat, T # {} PROVE \E x \in T : \A y \in T : x <= y
<1> DEFINE R == OpToRel(<, Nat)
<1>1. IsWellFoundedOn(R, Nat)
  BY NatLessThanWellFounded, Zenon
<1> HIDE DEF R
<1>2. PICK x \in T : \A y \in T : ~ (<<y, x>> \in R)
  BY <1>1, WFMin
<1>3. \A y \in T : ~(y < x)
  BY <1>2 DEF R, OpToRel
<1>4. QED BY <1>3

\* r is what s has at the places K, in the order of s.
Picks(r, s, K) ==
  /\ \A j \in DOMAIN r : \E i \in K : r[j] = s[i]
  /\ \A i \in K : \E j \in DOMAIN r : r[j] = s[i]
  /\ \A j, l \in DOMAIN r : j < l => \E i, k \in K : i < k /\ r[j] = s[i] /\ r[l] = s[k]

LEMMA PlacesPicked ==
  ASSUME NEW S, NEW s \in Seq(S), NEW K \in SUBSET DOMAIN s
  PROVE  AtPlaces(s, K) \in Seq(S) /\ Picks(AtPlaces(s, K), s, K)
<1> DEFINE n == Cardinality(K)
           Upto(i) == {k \in K : k <= i}
           c == [i \in K |-> Cardinality(Upto(i))]
           f == [j \in 1 .. n |-> CHOOSE i \in K : Cardinality(Upto(i)) = j]
           r == AtPlaces(s, K)
<1>1. DOMAIN s = 1 .. Len(s) /\ Len(s) \in Nat /\ \A i \in DOMAIN s : s[i] \in S
  BY LenProperties
<1>2. IsFiniteSet(K) /\ n \in Nat
  <2>1. IsFiniteSet(1 .. Len(s))
    BY <1>1, FS_Interval
  <2>2. IsFiniteSet(K)
    BY <1>1, <2>1, FS_Subset
  <2>3. QED BY <2>2, FS_CardinalityType
<1>3. ASSUME NEW i \in K PROVE IsFiniteSet(Upto(i)) /\ Cardinality(Upto(i)) \in 1 .. n
  <2>1. Upto(i) \in SUBSET K /\ i \in Upto(i)
    BY <1>1
  <2>2. IsFiniteSet(Upto(i)) /\ Cardinality(Upto(i)) <= n /\ Cardinality(Upto(i)) \in Nat
    BY <1>2, <2>1, FS_Subset, FS_CardinalityType
  <2>3. Cardinality(Upto(i)) # 0
    BY <2>1, <2>2, FS_EmptySet
  <2>4. QED BY <1>2, <2>2, <2>3
<1>4. ASSUME NEW i \in K, NEW k \in K, Cardinality(Upto(i)) = Cardinality(Upto(k)) PROVE i = k
  <2>1. ASSUME NEW a \in K, NEW b \in K, a < b PROVE Cardinality(Upto(a)) # Cardinality(Upto(b))
    <3>1. Upto(a) \in SUBSET Upto(b) /\ b \in Upto(b) /\ b \notin Upto(a)
      BY <1>1, <2>1
    <3>2. QED BY <1>3, <3>1, FS_Subset
  <2>2. i < k \/ k < i \/ i = k
    BY <1>1
  <2>3. QED BY <1>4, <2>1, <2>2
<1>5. c \in Surjection(K, 1 .. n)
  <2>1. c \in Injection(K, 1 .. n)
    BY <1>3, <1>4 DEF Injection, IsInjective
  <2>2. IsFiniteSet(1 .. n) /\ Cardinality(1 .. n) = n
    BY <1>2, FS_Interval
  <2> HIDE DEF c, n
  <2>3. QED BY <1>2, <2>1, <2>2, FS_Injection DEF n
<1>6. \A j \in 1 .. n : f[j] \in K /\ Cardinality(Upto(f[j])) = j
  <2>1. \A j \in 1 .. n : \E i \in K : Cardinality(Upto(i)) = j
    BY <1>5 DEF Surjection
  <2>2. QED BY <2>1
<1>7. \A i \in K : f[Cardinality(Upto(i))] = i
  BY <1>3, <1>4, <1>6
<1>8. DOMAIN r = 1 .. n /\ \A j \in 1 .. n : r[j] = s[f[j]]
  BY DEF AtPlaces
<1>9. r \in Seq(S)
  <2>1. \A j \in 1 .. n : r[j] \in S
    BY <1>1, <1>6, <1>8
  <2>2. r = [j \in 1 .. n |-> r[j]]
    BY DEF AtPlaces
  <2> HIDE DEF r, n
  <2>3. r \in [1 .. n -> S]
    BY <2>1, <2>2
  <2>4. QED BY <1>2, <2>3
<1> HIDE DEF r, f, n, Upto
<1>10. \A j \in DOMAIN r : \E i \in K : r[j] = s[i]
  BY <1>6, <1>8
<1>11. \A i \in K : \E j \in DOMAIN r : r[j] = s[i]
  <2>1. \A i \in K : Cardinality(Upto(i)) \in DOMAIN r /\ r[Cardinality(Upto(i))] = s[i]
    BY <1>3, <1>7, <1>8
  <2>2. QED BY <2>1
<1>12. ASSUME NEW j \in DOMAIN r, NEW l \in DOMAIN r, j < l PROVE \E i, k \in K : i < k /\ r[j] = s[i] /\ r[l] = s[k]
  <2>1. j \in 1 .. n /\ l \in 1 .. n
    BY <1>8
  <2>2. f[j] \in K /\ Cardinality(Upto(f[j])) = j /\ f[l] \in K /\ Cardinality(Upto(f[l])) = l
    BY <1>6, <2>1
  <2>3. ASSUME f[l] <= f[j] PROVE FALSE
    <3>1. Upto(f[l]) \in SUBSET Upto(f[j])
      BY <1>1, <2>2, <2>3 DEF Upto
    <3>2. IsFiniteSet(Upto(f[j]))
      BY <1>3, <2>2
    <3>3. l <= j
      BY <2>2, <3>1, <3>2, FS_Subset
    <3>4. QED BY <1>2, <1>12, <2>1, <3>3
  <2>4. f[j] < f[l]
    BY <1>1, <2>2, <2>3
  <2>5. QED BY <1>8, <2>1, <2>2, <2>4
<1>13. Picks(r, s, K)
  BY <1>10, <1>11, <1>12 DEF Picks
<1>14. QED BY <1>9, <1>13 DEF r

\* Two entries that were picked come from two places.
LEMMA PickedOnce ==
  ASSUME NEW S, NEW s \in Seq(S), NEW K \in SUBSET DOMAIN s, NEW r \in Seq(S), Picks(r, s, K),
         NEW j \in DOMAIN r, NEW l \in DOMAIN r, j # l
  PROVE  \E i, k \in K : i # k /\ r[j] = s[i] /\ r[l] = s[k]
<1>1. DOMAIN s = 1 .. Len(s) /\ Len(s) \in Nat /\ DOMAIN r = 1 .. Len(r) /\ Len(r) \in Nat
  BY LenProperties
<1>2. j < l \/ l < j
  BY <1>1
<1>3. ASSUME NEW a \in DOMAIN r, NEW b \in DOMAIN r, a < b
      PROVE  \E i, k \in K : i # k /\ r[a] = s[i] /\ r[b] = s[k]
  <2>1. PICK i \in K, k \in K : i < k /\ r[a] = s[i] /\ r[b] = s[k]
    BY <1>3 DEF Picks
  <2>2. i # k
    BY <1>1, <2>1
  <2>3. QED BY <2>1, <2>2
<1>4. QED BY <1>2, <1>3

Distinct(ids) == \A i, j \in DOMAIN ids : ids[i] = ids[j] => i = j

\* Whoever keeps as many entries as there were has kept them all.
LEMMA AllPlaces ==
  ASSUME NEW S, NEW s \in Seq(S), NEW K \in SUBSET DOMAIN s
  PROVE  Len(AtPlaces(s, K)) <= Len(s) /\ (Len(AtPlaces(s, K)) = Len(s) => AtPlaces(s, K) = s)
<1>1. DOMAIN s = 1 .. Len(s) /\ Len(s) \in Nat /\ s = [i \in 1 .. Len(s) |-> s[i]]
  BY LenProperties
<1>2. IsFiniteSet(1 .. Len(s)) /\ Cardinality(1 .. Len(s)) = Len(s)
  <2>1. \A n \in Nat : IsFiniteSet(1 .. n) /\ Cardinality(1 .. n) = n
    BY FS_Interval
  <2>2. QED BY <1>1, <2>1
<1>3. /\ IsFiniteSet(K) /\ Cardinality(K) \in Nat /\ Cardinality(K) <= Len(s)
      /\ Cardinality(K) = Len(s) => K = 1 .. Len(s)
  BY <1>1, <1>2, FS_Subset, FS_CardinalityType
<1>4. Len(AtPlaces(s, K)) = Cardinality(K)
  <2>1. AtPlaces(s, K) \in Seq(S) /\ DOMAIN AtPlaces(s, K) = 1 .. Cardinality(K)
    BY PlacesPicked DEF AtPlaces
  <2>2. QED BY <1>3, <2>1, LenProperties
<1>5. ASSUME K = 1 .. Len(s) PROVE AtPlaces(s, K) = s
  <2>1. \A i \in 1 .. Len(s) : Cardinality({k \in 1 .. Len(s) : k <= i}) = i
    <3>1. ASSUME NEW i \in 1 .. Len(s) PROVE Cardinality({k \in 1 .. Len(s) : k <= i}) = i
      <4>1. {k \in 1 .. Len(s) : k <= i} = 1 .. i
        BY <1>1
      <4>2. Cardinality(1 .. i) = i
        BY <1>1, FS_Interval
      <4>3. QED BY <4>1, <4>2
    <3>2. QED BY <3>1
  <2>2. \A j \in 1 .. Len(s) : (CHOOSE i \in 1 .. Len(s) : Cardinality({k \in 1 .. Len(s) : k <= i}) = j) = j
    BY <2>1
  <2>3. AtPlaces(s, K) = [j \in 1 .. Len(s) |-> s[CHOOSE i \in 1 .. Len(s) : Cardinality({k \in 1 .. Len(s) : k <= i}) = j]]
    BY <1>2, <1>5 DEF AtPlaces
  <2>4. AtPlaces(s, K) = [j \in 1 .. Len(s) |-> s[j]]
    BY <2>2, <2>3
  <2>5. QED BY <1>1, <2>4
<1>6. QED BY <1>3, <1>4, <1>5

\* What is in a list without repetition is found where it is (SelectInSeq).
LEMMA FoundAt ==
  ASSUME NEW S, NEW s \in Seq(S), Distinct(s), NEW b \in DOMAIN s, NEW x, x = s[b]
  PROVE  LET I == {i \in 1 .. Len(s) : s[i] = x} IN I # {} /\ Min(I) = b
<1>1. DOMAIN s = 1 .. Len(s) /\ Len(s) \in Nat
  BY LenProperties
<1>2. {i \in 1 .. Len(s) : s[i] = x} = {b}
  BY <1>1 DEF Distinct
<1>3. Min({b}) = b
  BY <1>1 DEF Min
<1>4. QED BY <1>2, <1>3

\* A list with e put in at place i.
Widens(r, s, i, e) ==
  /\ Len(r) = Len(s) + 1 /\ r[i] = e
  /\ \A j \in 1 .. i - 1 : r[j] = s[j]
  /\ \A j \in i + 1 .. Len(s) + 1 : r[j] = s[j - 1]

\* Widened by InsertAt and by Append.
LEMMA InsertWidens ==
  ASSUME NEW S, NEW s \in Seq(S), NEW e \in S, NEW i \in 1 .. Len(s) + 1
  PROVE  InsertAt(s, i, e) \in Seq(S) /\ Widens(InsertAt(s, i, e), s, i, e)
<1> DEFINE a == SubSeq(s, 1, i - 1)
           b == SubSeq(s, i, Len(s))
<1>1. Len(s) \in Nat /\ DOMAIN s = 1 .. Len(s)
  BY LenProperties
<1>2. a \in Seq(S) /\ Len(a) = i - 1 /\ \A j \in 1 .. i - 1 : a[j] = s[j]
  BY <1>1, SubSeqProperties
<1>3. b \in Seq(S) /\ Len(b) = Len(s) - i + 1 /\ \A j \in 1 .. Len(s) - i + 1 : b[j] = s[i + j - 1]
  <2>1. CASE i <= Len(s)
    BY <1>1, <2>1, SubSeqProperties
  <2>2. CASE i = Len(s) + 1
    BY <1>1, <2>2, SubSeqEmpty
  <2>3. QED BY <1>1, <2>1, <2>2
<1>4. InsertAt(s, i, e) = a \o <<e>> \o b
  BY DEF InsertAt
<1> HIDE DEF a, b
<1> DEFINE h == a \o <<e>>
<1>5. h \in Seq(S) /\ Len(h) = i /\ h[i] = e /\ \A j \in 1 .. i - 1 : h[j] = s[j]
  BY <1>1, <1>2
<1> HIDE DEF h
<1>6. /\ h \o b \in Seq(S) /\ Len(h \o b) = Len(s) + 1
      /\ \A j \in 1 .. i : (h \o b)[j] = h[j]
      /\ \A j \in i + 1 .. Len(s) + 1 : (h \o b)[j] = b[j - i]
  BY <1>1, <1>3, <1>5, ConcatProperties
<1>7. \A j \in i + 1 .. Len(s) + 1 : b[j - i] = s[j - 1]
  BY <1>1, <1>3
<1>8. i \in 1 .. i /\ \A j \in 1 .. i - 1 : j \in 1 .. i
  BY <1>1
<1>9. Widens(h \o b, s, i, e)
  BY <1>5, <1>6, <1>7, <1>8 DEF Widens
<1>10. QED BY <1>4, <1>6, <1>9 DEF h

LEMMA AppendWidens ==
  ASSUME NEW S, NEW s \in Seq(S), NEW e \in S
  PROVE  Append(s, e) \in Seq(S) /\ Widens(Append(s, e), s, Len(s) + 1, e)
  BY LenProperties, AppendProperties DEF Widens

\* A list without repetition that gets one entry more.
LEMMA Widened ==
  ASSUME NEW S, NEW s \in Seq(S), NEW r \in Seq(S), NEW i \in 1 .. Len(s) + 1, NEW e \in S, Widens(r, s, i, e),
         Distinct(s), e \notin ToSet(s)
  PROVE  Distinct(r) /\ ToSet(r) = ToSet(s) \union {e}
<1>1. Len(s) \in Nat /\ DOMAIN s = 1 .. Len(s) /\ DOMAIN r = 1 .. Len(s) + 1
  BY LenProperties DEF Widens
<1>2. \A j \in DOMAIN s : s[j] # e
  BY DEF ToSet
\* Where the entries of r were.
<1> DEFINE was(j) == IF j < i THEN j ELSE j - 1
<1>3. \A j \in DOMAIN r : j # i => was(j) \in DOMAIN s /\ r[j] = s[was(j)]
  BY <1>1 DEF Widens
<1>4. \A j, l \in DOMAIN r : j # i /\ l # i /\ was(j) = was(l) => j = l
  BY <1>1
<1>5. \A j \in DOMAIN s : \E l \in DOMAIN r : l # i /\ was(l) = j
  <2>1. ASSUME NEW j \in DOMAIN s PROVE \E l \in DOMAIN r : l # i /\ was(l) = j
    <3>1. CASE j < i
      BY <1>1, <3>1
    <3>2. CASE j >= i
      <4>1. j + 1 \in DOMAIN r /\ j + 1 # i /\ was(j + 1) = j
        BY <1>1, <3>2
      <4>2. QED BY <4>1
    <3>3. QED BY <1>1, <3>1, <3>2
  <2>2. QED BY <2>1
<1> HIDE DEF was
<1>6. r[i] = e /\ i \in DOMAIN r
  BY <1>1 DEF Widens
<1>7. \A j, l \in DOMAIN r : r[j] = r[l] => j = l
  BY <1>2, <1>3, <1>4, <1>6 DEF Distinct
<1>8. \A x \in ToSet(s) \union {e} : x \in ToSet(r)
  BY <1>3, <1>5, <1>6 DEF ToSet
<1>9. \A x \in ToSet(r) : x \in ToSet(s) \union {e}
  BY <1>3, <1>6 DEF ToSet
<1>10. QED BY <1>7, <1>8, <1>9 DEF Distinct

\* A list may have entries of more kinds than it has.
LEMMA SeqGrows == ASSUME NEW S, NEW T, S \subseteq T, NEW s \in Seq(S) PROVE s \in Seq(T)
<1>1. Len(s) \in Nat /\ s = [i \in 1 .. Len(s) |-> s[i]] /\ \A i \in 1 .. Len(s) : s[i] \in S
  BY LenProperties
<1>2. s \in [1 .. Len(s) -> T]
  BY <1>1
<1>3. QED BY <1>1, <1>2

\* No more numbers than there are.
LEMMA AsManyAsThereAre ==
  ASSUME NEW n \in Nat, NEW s \in Seq(1 .. n), Distinct(s) PROVE Len(s) <= n
<1>1. DOMAIN s = 1 .. Len(s) /\ Len(s) \in Nat /\ \A i \in 1 .. Len(s) : s[i] \in 1 .. n
  BY LenProperties
<1> DEFINE f == [i \in 1 .. Len(s) |-> s[i]]
<1>2. f \in Injection(1 .. Len(s), 1 .. n)
  <2>1. f \in [1 .. Len(s) -> 1 .. n] /\ \A i, j \in 1 .. Len(s) : f[i] = f[j] => i = j
    BY <1>1 DEF Distinct
  <2> HIDE DEF f
  <2>2. QED BY <2>1 DEF Injection, IsInjective
<1>3. \A m \in Nat : IsFiniteSet(1 .. m) /\ Cardinality(1 .. m) = m
  BY FS_Interval
<1> HIDE DEF f
<1>4. Cardinality(1 .. Len(s)) <= Cardinality(1 .. n)
  BY <1>1, <1>2, <1>3, FS_Injection
<1>5. QED BY <1>1, <1>3, <1>4

\* What is picked from a list without repetition.
LEMMA PickedSet ==
  ASSUME NEW S, NEW s \in Seq(S), Distinct(s), NEW K \in SUBSET DOMAIN s
  PROVE  /\ AtPlaces(s, K) \in Seq(S) /\ Distinct(AtPlaces(s, K))
         /\ ToSet(AtPlaces(s, K)) = {s[i] : i \in K}
<1> DEFINE r == AtPlaces(s, K)
<1>1. r \in Seq(S) /\ Picks(r, s, K)
  BY PlacesPicked
<1> HIDE DEF r
<1>2. ToSet(r) = {s[i] : i \in K}
  <2>1. \A x \in ToSet(r) : x \in {s[i] : i \in K}
    BY <1>1 DEF Picks, ToSet
  <2>2. \A i \in K : s[i] \in ToSet(r)
    BY <1>1 DEF Picks, ToSet
  <2>3. QED BY <2>1, <2>2
<1>3. ASSUME NEW j \in DOMAIN r, NEW l \in DOMAIN r, r[j] = r[l], j # l PROVE FALSE
  <2>1. PICK i \in K, k \in K : i # k /\ r[j] = s[i] /\ r[l] = s[k]
    BY <1>1, <1>3, PickedOnce
  <2>2. QED BY <1>3, <2>1 DEF Distinct
<1>4. Distinct(r)
  BY <1>3 DEF Distinct
<1>5. QED BY <1>1, <1>2, <1>4 DEF r

\* Two entries of a list change places.
LEMMA TwoSwapped ==
  ASSUME NEW S, NEW s \in Seq(S), Distinct(s), NEW i \in DOMAIN s, NEW k \in DOMAIN s
  PROVE  LET r == [s EXCEPT ![i] = s[k], ![k] = s[i]] IN r \in Seq(S) /\ Distinct(r) /\ ToSet(r) = ToSet(s)
<1> DEFINE r == [s EXCEPT ![i] = s[k], ![k] = s[i]]
           was(j) == IF j = i THEN k ELSE IF j = k THEN i ELSE j
<1>1. DOMAIN s = 1 .. Len(s) /\ Len(s) \in Nat /\ s \in [1 .. Len(s) -> S]
  BY LenProperties
<1>2. r \in [1 .. Len(s) -> S] /\ DOMAIN r = DOMAIN s
  BY <1>1
<1>3. \A j \in DOMAIN s : was(j) \in DOMAIN s /\ was(was(j)) = j
  OBVIOUS
<1>4. \A j \in DOMAIN s : r[j] = s[was(j)]
  BY <1>1
<1> HIDE DEF r, was
<1>5. r \in Seq(S)
  BY <1>1, <1>2
<1>6. \A j \in DOMAIN s : s[j] = r[was(j)]
  BY <1>3, <1>4
<1>7. ToSet(r) = ToSet(s)
  BY <1>2, <1>3, <1>4, <1>6 DEF ToSet
<1>8. Distinct(r)
  <2>1. ASSUME NEW j \in DOMAIN s, NEW l \in DOMAIN s, r[j] = r[l] PROVE j = l
    <3>1. was(j) = was(l)
      BY <1>3, <1>4, <2>1 DEF Distinct
    <3>2. was(was(j)) = j /\ was(was(l)) = l
      BY <1>3
    <3>3. QED BY <3>1, <3>2
  <2>2. QED BY <1>2, <2>1 DEF Distinct
<1>9. QED BY <1>5, <1>7, <1>8 DEF r

\* What is left of a sequence when one place is taken out.
LEMMA RemovedAt ==
  ASSUME NEW S, NEW s \in Seq(S), NEW i \in 1 .. Len(s)
  PROVE  /\ RemoveAt(s, i) \in Seq(S)
         /\ Len(RemoveAt(s, i)) = Len(s) - 1
         /\ \A j \in 1 .. Len(s) - 1 : RemoveAt(s, i)[j] = IF j < i THEN s[j] ELSE s[j + 1]
<1>1. Len(s) \in Nat /\ \A j \in 1 .. Len(s) : s[j] \in S
  BY ElementOfSeq, LenProperties
<1> DEFINE before == SubSeq(s, 1, i - 1)
           after == SubSeq(s, i + 1, Len(s))
<1>2. /\ before \in Seq(S) /\ Len(before) = i - 1
      /\ \A j \in 1 .. i - 1 : before[j] = s[j]
  BY <1>1, SubSeqProperties
<1>3. /\ after \in Seq(S) /\ Len(after) = Len(s) - i
      /\ \A j \in 1 .. Len(s) - i : after[j] = s[j + i]
  <2>1. i + 1 \in Int /\ Len(s) \in Int /\ \A j \in (i + 1) .. Len(s) : s[j] \in S
    BY <1>1
  <2>2. /\ after \in Seq(S)
        /\ Len(after) = IF i + 1 <= Len(s) THEN Len(s) - (i + 1) + 1 ELSE 0
        /\ \A j \in 1 .. Len(s) - (i + 1) + 1 : after[j] = s[(i + 1) + j - 1]
    BY <2>1, SubSeqProperties
  <2>3. \A j \in 1 .. Len(s) - i : j \in 1 .. Len(s) - (i + 1) + 1 /\ (i + 1) + j - 1 = j + i
    BY <1>1
  <2>4. QED BY <1>1, <2>2, <2>3
<1>4. RemoveAt(s, i) = before \o after
  BY DEF RemoveAt
<1> HIDE DEF before, after
<1>5. /\ before \o after \in Seq(S)
      /\ Len(before \o after) = Len(s) - 1
      /\ \A j \in 1 .. Len(s) - 1 :
           (before \o after)[j] = IF j <= i - 1 THEN before[j] ELSE after[j - (i - 1)]
  <2>1. /\ before \o after \in Seq(S)
        /\ Len(before \o after) = (i - 1) + (Len(s) - i)
        /\ \A j \in 1 .. (i - 1) + (Len(s) - i) :
             (before \o after)[j] = IF j <= i - 1 THEN before[j] ELSE after[j - (i - 1)]
    <3>1. Len(before) = i - 1 /\ Len(after) = Len(s) - i
      BY <1>2, <1>3
    <3>2. /\ before \o after \in Seq(S)
          /\ Len(before \o after) = Len(before) + Len(after)
          /\ \A j \in 1 .. Len(before) + Len(after) :
               (before \o after)[j] = IF j <= Len(before) THEN before[j] ELSE after[j - Len(before)]
      BY <1>2, <1>3, ConcatProperties
    <3>3. QED BY <3>1, <3>2
  <2>2. (i - 1) + (Len(s) - i) = Len(s) - 1
    BY <1>1
  <2>3. QED BY <2>1, <2>2
<1>6. ASSUME NEW j \in 1 .. Len(s) - 1 PROVE (before \o after)[j] = IF j < i THEN s[j] ELSE s[j + 1]
  <2>1. CASE j < i
    BY <1>1, <1>2, <1>5, <2>1
  <2>2. CASE ~(j < i)
    <3>1. j - (i - 1) \in 1 .. Len(s) - i /\ (j - (i - 1)) + i = j + 1
      BY <1>1, <2>2
    <3>2. QED BY <1>1, <1>3, <1>5, <2>2, <3>1
  <2>3. QED BY <2>1, <2>2
<1>7. QED BY <1>4, <1>5, <1>6

\* As many different entries as there are places.
LEMMA DistinctCount ==
  ASSUME NEW S, NEW s \in Seq(S), Distinct(s) PROVE Cardinality(ToSet(s)) = Len(s)
<1>1. DOMAIN s = 1 .. Len(s) /\ Len(s) \in Nat
  BY LenProperties
<1> DEFINE f == [i \in 1 .. Len(s) |-> s[i]]
<1>2. ToSet(s) = {s[i] : i \in 1 .. Len(s)}
  BY <1>1 DEF ToSet
<1>3. f \in Surjection(1 .. Len(s), ToSet(s))
  <2>1. f \in [1 .. Len(s) -> ToSet(s)] /\ \A x \in ToSet(s) : \E i \in 1 .. Len(s) : f[i] = x
    BY <1>2
  <2> HIDE DEF f
  <2>2. QED BY <2>1 DEF Surjection
<1>4. f \in Injection(1 .. Len(s), ToSet(s))
  <2>1. f \in [1 .. Len(s) -> ToSet(s)] /\ \A i, j \in 1 .. Len(s) : f[i] = f[j] => i = j
    BY <1>1, <1>2 DEF Distinct
  <2> HIDE DEF f
  <2>2. QED BY <2>1 DEF Injection, IsInjective
<1>5. IsFiniteSet(1 .. Len(s)) /\ Cardinality(1 .. Len(s)) = Len(s)
  BY <1>1, FS_Interval
<1> HIDE DEF f
<1>6. QED BY <1>3, <1>4, <1>5, FS_Surjection

\* A finite set that R orders has each of its members at the place that the number
\* of those before it says.
LEMMA RanksOnce ==
  ASSUME NEW T, IsFiniteSet(T), NEW R,
         \A x \in T : <<x, x>> \notin R,
         \A x, y, z \in T : <<x, y>> \in R /\ <<y, z>> \in R => <<x, z>> \in R,
         \A x, y \in T : x # y => <<x, y>> \in R \/ <<y, x>> \in R
  PROVE  LET at == [k \in 1 .. Cardinality(T) |-> CHOOSE x \in T : Cardinality({y \in T : <<y, x>> \in R}) = k - 1]
         IN  /\ \A k \in 1 .. Cardinality(T) : at[k] \in T
             /\ \A x \in T : \E k \in 1 .. Cardinality(T) : at[k] = x
             /\ \A j, k \in 1 .. Cardinality(T) : j < k => <<at[j], at[k]>> \in R
<1> DEFINE n == Cardinality(T)
           Below(x) == {y \in T : <<y, x>> \in R}
           N(x) == Cardinality(Below(x))
<1>1. n \in Nat
  BY FS_CardinalityType
<1>2. ASSUME NEW x \in T PROVE IsFiniteSet(Below(x)) /\ N(x) \in Nat /\ N(x) <= n - 1
  <2>1. Below(x) \in SUBSET T /\ Below(x) # T
    OBVIOUS
  <2> HIDE DEF Below, n
  <2>2. IsFiniteSet(Below(x)) /\ N(x) <= n /\ N(x) # n /\ N(x) \in Nat
    BY <2>1, FS_Subset, FS_CardinalityType DEF n
  <2>3. QED BY <1>1, <2>2
<1>3. ASSUME NEW x \in T, NEW y \in T, <<x, y>> \in R PROVE N(x) < N(y)
  <2>1. Below(x) \in SUBSET Below(y) /\ x \in Below(y) /\ x \notin Below(x)
    BY <1>3
  <2>2. IsFiniteSet(Below(y)) /\ N(x) \in Nat /\ N(y) \in Nat
    BY <1>2
  <2> HIDE DEF Below
  <2>3. N(x) <= N(y) /\ N(x) # N(y)
    BY <2>1, <2>2, FS_Subset
  <2>4. QED BY <2>2, <2>3
<1> DEFINE c == [x \in T |-> N(x) + 1]
           at == [k \in 1 .. n |-> CHOOSE x \in T : N(x) = k - 1]
<1> HIDE DEF N, n, Below
<1>4. \A x, y \in T : N(x) = N(y) => x = y
  <2>1. ASSUME NEW x \in T, NEW y \in T, N(x) = N(y) PROVE x = y
    <3>1. ~(N(x) < N(y)) /\ ~(N(y) < N(x))
      BY <1>2, <2>1
    <3>2. <<x, y>> \notin R /\ <<y, x>> \notin R
      BY <1>3, <3>1
    <3>3. QED BY <3>2
  <2>2. QED BY <2>1
<1>5. \A x \in T : N(x) + 1 \in 1 .. n
  BY <1>1, <1>2
<1>6. c \in Surjection(T, 1 .. n)
  <2>1. c \in [T -> 1 .. n]
    BY <1>5
  <2>2. \A x, y \in T : c[x] = c[y] => x = y
    BY <1>2, <1>4
  <2>3. c \in Injection(T, 1 .. n)
    BY <2>1, <2>2 DEF Injection, IsInjective
  <2>4. IsFiniteSet(1 .. n) /\ Cardinality(1 .. n) = n
    BY <1>1, FS_Interval
  <2> HIDE DEF c
  <2>5. QED BY <2>3, <2>4, FS_Injection DEF n, Below
<1>7. \A k \in 1 .. n : at[k] \in T /\ N(at[k]) = k - 1
  <2>1. ASSUME NEW k \in 1 .. n PROVE \E x \in T : N(x) = k - 1
    <3>1. PICK x \in T : c[x] = k
      BY <1>6 DEF Surjection
    <3>2. N(x) \in Nat /\ N(x) + 1 = k
      BY <1>2, <3>1
    <3>3. QED BY <1>1, <3>2
  <2>2. QED BY <2>1
<1> HIDE DEF at
<1>8. \A x \in T : \E k \in 1 .. n : at[k] = x
  <2>1. ASSUME NEW x \in T PROVE at[N(x) + 1] = x
    <3>1. at[N(x) + 1] \in T /\ N(at[N(x) + 1]) = (N(x) + 1) - 1
      BY <1>5, <1>7
    <3>2. N(at[N(x) + 1]) = N(x)
      BY <1>2, <3>1
    <3>3. QED BY <1>4, <3>1, <3>2
  <2>2. QED BY <1>5, <2>1
<1>9. \A j, k \in 1 .. n : j < k => <<at[j], at[k]>> \in R
  <2>1. ASSUME NEW j \in 1 .. n, NEW k \in 1 .. n, j < k PROVE <<at[j], at[k]>> \in R
    <3>1. at[j] \in T /\ N(at[j]) = j - 1 /\ at[k] \in T /\ N(at[k]) = k - 1
      BY <1>7
    <3>2. at[j] # at[k] /\ ~(N(at[k]) < N(at[j]))
      BY <1>1, <2>1, <3>1
    <3>3. QED BY <1>3, <3>1, <3>2
  <2>2. QED BY <2>1
<1>10. QED BY <1>7, <1>8, <1>9 DEF at, N, n, Below
=============================================================================
