--------------------------- MODULE CacheStoreProofs ---------------------------
(***************************************************************************)
(* Theorems about the cache ring and the transfers of CacheStore.  The     *)
(* byte counts are sums over the entries of a ring, so the first part      *)
(* proves what the proofs need of SumFunctionOnSet: one term can be taken  *)
(* out of a sum, and a sum does not depend on how its terms are numbered.  *)
(***************************************************************************)
EXTENDS CacheStore, SequenceTheorems, FiniteSetTheorems, WellFoundedInduction, TLAPS

-----------------------------------------------------------------------------
(* Induction: over the numbers, and over the subsets of a finite set *)

LEMMA LeastNumber ==
    ASSUME NEW S \in SUBSET Nat, S # {}
    PROVE  \E s \in S : \A t \in S : s <= t
<1>1. PICK s \in S : \A t \in S : ~ (<<t, s>> \in OpToRel(<, Nat))
  BY NatLessThanWellFounded, WFMin
<1>2. ASSUME NEW t \in S
      PROVE  s <= t
  <2>1. <<t, s>> \notin {p \in Nat \X Nat : p[1] < p[2]}
    BY <1>1 DEF OpToRel
  <2>2. ~ (t < s)
    BY <2>1
  <2> QED
    BY <2>2
<1> QED
  BY <1>2

LEMMA AllNumbers ==
    ASSUME NEW G \in SUBSET Nat, 0 \in G, \A n \in G : n + 1 \in G
    PROVE  G = Nat
<1> SUFFICES ASSUME Nat \ G # {} PROVE FALSE
  OBVIOUS
<1>1. PICK n \in Nat \ G : \A m \in Nat \ G : n <= m
  BY LeastNumber
<1>2. n # 0 /\ n - 1 \in Nat
  OBVIOUS
<1>3. n - 1 \in G
  BY <1>1, <1>2
<1> QED
  BY <1>1, <1>2, <1>3

\* A family that has every set of which it has all the sets with one element
\* less has all subsets of a finite set.
LEMMA AllSubsets ==
    ASSUME NEW S, IsFiniteSet(S), NEW G,
           \A A \in SUBSET S : (\A x \in A : A \ {x} \in G) => A \in G
    PROVE  SUBSET S \subseteq G
<1> DEFINE Bad == {A \in SUBSET S : A \notin G}
           Sizes_ == {Cardinality(A) : A \in Bad}
<1>1. \A A \in SUBSET S : IsFiniteSet(A) /\ Cardinality(A) \in Nat
  BY FS_Subset, FS_CardinalityType
<1> SUFFICES ASSUME Bad # {} PROVE FALSE
  OBVIOUS
<1>2. Sizes_ \in SUBSET Nat /\ Sizes_ # {}
  BY <1>1
<1> HIDE DEF Sizes_
<1>3. PICK n \in Sizes_ : \A m \in Sizes_ : n <= m
  BY <1>2, LeastNumber
<1>4. PICK A \in Bad : Cardinality(A) = n
  BY DEF Sizes_
<1>5. ASSUME NEW x \in A
      PROVE  A \ {x} \in G
  <2>1. Cardinality(A \ {x}) = Cardinality(A) - 1 /\ A \ {x} \in SUBSET S
    BY <1>1, FS_RemoveElement
  <2>2. Cardinality(A) \in Nat /\ Cardinality(A \ {x}) \in Nat
    BY <1>1, <2>1
  <2>3. Cardinality(A \ {x}) \notin Sizes_
    BY <1>3, <1>4, <2>1, <2>2
  <2> QED
    BY <2>1, <2>3 DEF Sizes_
<1> QED
  BY <1>4, <1>5

-----------------------------------------------------------------------------
(* Sums over finite sets *)

Some(s) == CHOOSE x \in s : TRUE

\* One step of the sum, from sums g over smaller sets.
NextSum(f, g, s) == IF s = {} THEN 0 ELSE f[Some(s)] + g[s \ {Some(s)}]

Sums(f, S) == CHOOSE g : g = [s \in SUBSET S |-> NextSum(f, g, s)]

LEMMA SumIsSums == ASSUME NEW f, NEW S PROVE SumFunctionOnSet(f, S) = Sums(f, S)[S]
  BY DEF SumFunctionOnSet, FoldFunctionOnSet, MapThenFoldSet, Sums, NextSum, Some

\* The subsets with n elements at most.
UpTo(S, n) == {s \in SUBSET S : Cardinality(s) <= n}

HasSums(f, S, n) == \E g : g = [s \in UpTo(S, n) |-> NextSum(f, g, s)]

LEMMA SumsUpTo ==
    ASSUME NEW S, IsFiniteSet(S), NEW f, NEW n \in Nat
    PROVE  HasSums(f, S, n)
<1> DEFINE Has(m) == \E g : g = [s \in UpTo(S, m) |-> NextSum(f, g, s)]
           G == {m \in Nat : Has(m)}
<1>0. \A A \in SUBSET S : IsFiniteSet(A) /\ Cardinality(A) \in Nat
  BY FS_Subset, FS_CardinalityType
<1>1. Has(0)
  <2>1. \A s \in UpTo(S, 0) : s = {}
    BY <1>0, FS_EmptySet DEF UpTo
  <2> DEFINE g == [s \in UpTo(S, 0) |-> 0]
  <2>2. g = [s \in UpTo(S, 0) |-> NextSum(f, g, s)]
    BY <2>1 DEF NextSum
  <2> QED
    BY <2>2
<1>2. ASSUME NEW m \in Nat, Has(m)
      PROVE  Has(m + 1)
  <2> PICK g : g = [s \in UpTo(S, m) |-> NextSum(f, g, s)]
    BY <1>2
  <2> DEFINE h == [s \in UpTo(S, m + 1) |-> NextSum(f, g, s)]
  <2>1. ASSUME NEW s \in UpTo(S, m + 1), s # {}
        PROVE  s \ {Some(s)} \in UpTo(S, m) /\ s \ {Some(s)} \in UpTo(S, m + 1)
    <3>1. Some(s) \in s /\ s \in SUBSET S /\ Cardinality(s) \in Nat /\ Cardinality(s) <= m + 1
      BY <1>0, <2>1 DEF UpTo, Some
    <3>2. Cardinality(s \ {Some(s)}) = Cardinality(s) - 1
      BY <1>0, <3>1, FS_RemoveElement
    <3> QED
      BY <3>1, <3>2 DEF UpTo
  <2>2. \A s \in UpTo(S, m) : s \in UpTo(S, m + 1) /\ g[s] = h[s]
    BY <1>0 DEF UpTo
  <2>3. \A s \in UpTo(S, m + 1) : NextSum(f, h, s) = NextSum(f, g, s)
    BY <2>1, <2>2 DEF NextSum
  <2>4. h = [s \in UpTo(S, m + 1) |-> NextSum(f, h, s)]
    BY <2>3
  <2> HIDE DEF h
  <2> QED
    BY <2>4
<1>3. 0 \in G /\ G \in SUBSET Nat /\ \A m \in G : m + 1 \in G
  BY <1>1, <1>2
<1> HIDE DEF G
<1>4. G = Nat
  BY <1>3, AllNumbers
<1> QED
  BY <1>4 DEF G, HasSums

LEMMA SumsExist ==
    ASSUME NEW S, IsFiniteSet(S), NEW f
    PROVE  Sums(f, S) = [s \in SUBSET S |-> NextSum(f, Sums(f, S), s)]
<1> PICK n \in Nat : n = Cardinality(S)
  BY FS_CardinalityType
<1>1. UpTo(S, n) = SUBSET S
  BY FS_Subset DEF UpTo
<1>2. PICK g : g = [s \in UpTo(S, n) |-> NextSum(f, g, s)]
  <2>1. HasSums(f, S, n)
    BY SumsUpTo
  <2> QED
    BY <2>1 DEF HasSums
<1>3. g = [s \in SUBSET S |-> NextSum(f, g, s)]
  BY <1>1, <1>2
<1>4. \E h : h = [s \in SUBSET S |-> NextSum(f, h, s)]
  BY <1>3
<1> QED
  BY <1>4 DEF Sums


\* A sum over part of a finite set, counted with the sums of the whole.
LEMMA SumsPart ==
    ASSUME NEW S, IsFiniteSet(S), NEW f, NEW T \in SUBSET S
    PROVE  Sums(f, T)[T] = Sums(f, S)[T]
<1> DEFINE G == {A \in SUBSET T : Sums(f, T)[A] = Sums(f, S)[A]}
<1>1. IsFiniteSet(T)
  BY FS_Subset
<1>2. /\ \A A \in SUBSET T : Sums(f, T)[A] = NextSum(f, Sums(f, T), A)
      /\ \A A \in SUBSET S : Sums(f, S)[A] = NextSum(f, Sums(f, S), A)
  <2>1. Sums(f, T) = [s \in SUBSET T |-> NextSum(f, Sums(f, T), s)]
    BY <1>1, SumsExist
  <2>2. Sums(f, S) = [s \in SUBSET S |-> NextSum(f, Sums(f, S), s)]
    BY SumsExist
  <2> QED
    BY <2>1, <2>2
<1>3. ASSUME NEW A \in SUBSET T, \A x \in A : A \ {x} \in G
      PROVE  A \in G
  <2>1. A # {} => Some(A) \in A
    BY DEF Some
  <2>2. A # {} => Sums(f, T)[A \ {Some(A)}] = Sums(f, S)[A \ {Some(A)}]
    BY <1>3, <2>1
  <2>3. NextSum(f, Sums(f, T), A) = NextSum(f, Sums(f, S), A)
    BY <2>2 DEF NextSum
  <2> QED
    BY <1>2, <2>3
<1> HIDE DEF G
<1>4. SUBSET T \subseteq G
  BY <1>1, <1>3, AllSubsets
<1> QED
  BY <1>4 DEF G

LEMMA SumEmpty == ASSUME NEW f PROVE SumFunctionOnSet(f, {}) = 0
<1>1. Sums(f, {}) = [s \in SUBSET {} |-> NextSum(f, Sums(f, {}), s)]
  BY FS_EmptySet, SumsExist
<1> QED
  BY <1>1, SumIsSums DEF NextSum

\* The sum of natural numbers, and one of its terms.
Splits(f, S) ==
    /\ SumFunctionOnSet(f, S) \in Nat
    /\ \A x \in S : SumFunctionOnSet(f, S) = f[x] + SumFunctionOnSet(f, S \ {x})

LEMMA SumFirst ==
    ASSUME NEW S, IsFiniteSet(S), NEW f, S # {}
    PROVE  /\ Some(S) \in S
           /\ SumFunctionOnSet(f, S) = f[Some(S)] + SumFunctionOnSet(f, S \ {Some(S)})
<1> PICK x \in S : x = Some(S)
  BY DEF Some
<1> PICK T \in SUBSET S : T = S \ {x}
  OBVIOUS
<1>1. Sums(f, S)[S] = NextSum(f, Sums(f, S), S)
  <2>1. Sums(f, S) = [s \in SUBSET S |-> NextSum(f, Sums(f, S), s)]
    BY SumsExist
  <2> QED
    BY <2>1
<1>2. SumFunctionOnSet(f, S) = f[x] + Sums(f, S)[T]
  BY <1>1, SumIsSums DEF NextSum
<1>3. SumFunctionOnSet(f, T) = Sums(f, S)[T]
  BY SumIsSums, SumsPart
<1> QED
  BY <1>2, <1>3

LEMMA SumNat ==
    ASSUME NEW S, IsFiniteSet(S), NEW f, \A x \in S : f[x] \in Nat
    PROVE  SumFunctionOnSet(f, S) \in Nat
<1> DEFINE G == {A \in SUBSET S : SumFunctionOnSet(f, A) \in Nat}
<1>1. ASSUME NEW A \in SUBSET S, \A x \in A : A \ {x} \in G
      PROVE  A \in G
  <2>0. IsFiniteSet(A)
    BY FS_Subset
  <2>1. CASE A = {}
    BY <2>1, SumEmpty
  <2>2. CASE A # {}
    <3>1. PICK y \in A : SumFunctionOnSet(f, A) = f[y] + SumFunctionOnSet(f, A \ {y})
      BY <2>0, <2>2, SumFirst
    <3> QED
      BY <1>1, <3>1
  <2> QED
    BY <2>1, <2>2
<1> HIDE DEF G
<1>2. SUBSET S \subseteq G
  BY <1>1, AllSubsets
<1> QED
  BY <1>2 DEF G

LEMMA SumSplits ==
    ASSUME NEW S, IsFiniteSet(S), NEW f, \A x \in S : f[x] \in Nat
    PROVE  Splits(f, S)
<1> DEFINE G == {A \in SUBSET S : Splits(f, A)}
<1>1. ASSUME NEW A \in SUBSET S, \A x \in A : A \ {x} \in G
      PROVE  A \in G
  <2>0. IsFiniteSet(A)
    BY FS_Subset
  <2>1. CASE A = {}
    BY <2>1, SumEmpty DEF Splits
  <2>2. CASE A # {}
    <3>1. PICK y \in A : SumFunctionOnSet(f, A) = f[y] + SumFunctionOnSet(f, A \ {y})
      BY <2>0, <2>2, SumFirst
    <3>2. SumFunctionOnSet(f, A \ {y}) \in Nat /\ f[y] \in Nat
      BY <1>1 DEF Splits
    <3>3. ASSUME NEW x \in A, x # y
          PROVE  SumFunctionOnSet(f, A) = f[x] + SumFunctionOnSet(f, A \ {x})
      <4>1. Splits(f, A \ {y}) /\ Splits(f, A \ {x})
        BY <1>1
      <4>2. SumFunctionOnSet(f, A \ {y}) = f[x] + SumFunctionOnSet(f, (A \ {y}) \ {x})
        BY <3>3, <4>1 DEF Splits
      <4>3. SumFunctionOnSet(f, A \ {x}) = f[y] + SumFunctionOnSet(f, (A \ {x}) \ {y})
        BY <3>3, <4>1 DEF Splits
      <4>4. (A \ {y}) \ {x} = (A \ {x}) \ {y}
        OBVIOUS
      <4> PICK B \in SUBSET A : B = (A \ {x}) \ {y}
        OBVIOUS
      <4>5. SumFunctionOnSet(f, B) \in Nat /\ f[x] \in Nat
        <5>1. IsFiniteSet(B) /\ \A z \in B : f[z] \in Nat
          BY <2>0, FS_Subset
        <5> QED
          BY <5>1, SumNat
      <4> QED
        BY <3>1, <3>2, <4>2, <4>3, <4>4, <4>5
    <3> QED
      BY <3>1, <3>2, <3>3 DEF Splits
  <2> QED
    BY <2>1, <2>2
<1> HIDE DEF G
<1>2. SUBSET S \subseteq G
  BY <1>1, AllSubsets
<1> QED
  BY <1>2 DEF G

\* The terms of two sums correspond one to one.
Matches(f, S, g, T, h) ==
    /\ h \in Bijection(S, T)
    /\ \A x \in S : f[x] \in Nat /\ g[h[x]] = f[x]

LEMMA SumMoved ==
    ASSUME NEW S, IsFiniteSet(S), NEW T, IsFiniteSet(T), NEW f, NEW g, NEW h, Matches(f, S, g, T, h)
    PROVE  SumFunctionOnSet(f, S) = SumFunctionOnSet(g, T)
<1> USE DEF Matches
<1> DEFINE Image(A) == {h[x] : x \in A}
           G == {A \in SUBSET S : SumFunctionOnSet(f, A) = SumFunctionOnSet(g, Image(A))}
<1>1. /\ \A x \in S : h[x] \in T
      /\ \A x, y \in S : h[x] = h[y] => x = y
      /\ \A z \in T : \E x \in S : h[x] = z
  BY DEF Bijection, Injection, Surjection, IsInjective
<1>2. ASSUME NEW A \in SUBSET S, \A x \in A : A \ {x} \in G
      PROVE  A \in G
  <2>0. IsFiniteSet(A) /\ Image(A) \in SUBSET T /\ IsFiniteSet(Image(A))
    <3>1. Image(A) \in SUBSET T
      BY <1>1
    <3> QED
      BY <3>1, FS_Subset
  <2>1. CASE A = {}
    BY <2>1, SumEmpty
  <2>2. CASE A # {}
    <3> PICK x \in A : TRUE
      BY <2>2
    <3>1. Splits(f, A)
      BY <2>0, SumSplits
    <3>2. \A z \in Image(A) : g[z] \in Nat
      OBVIOUS
    <3>3. Splits(g, Image(A))
      <4> HIDE DEF Image
      <4> QED
        BY <2>0, <3>2, SumSplits
    <3>4. Image(A) \ {h[x]} = Image(A \ {x}) /\ h[x] \in Image(A)
      BY <1>1
    <3>5. SumFunctionOnSet(f, A \ {x}) = SumFunctionOnSet(g, Image(A \ {x}))
      BY <1>2
    <3>6. SumFunctionOnSet(f, A) = f[x] + SumFunctionOnSet(f, A \ {x})
      BY <3>1 DEF Splits
    <3>7. SumFunctionOnSet(g, Image(A)) = g[h[x]] + SumFunctionOnSet(g, Image(A) \ {h[x]})
      BY <3>3, <3>4 DEF Splits
    <3>8. SumFunctionOnSet(f, A) = SumFunctionOnSet(g, Image(A))
      BY <3>4, <3>5, <3>6, <3>7
    <3> QED
      BY <3>8
  <2> QED
    BY <2>1, <2>2
<1> HIDE DEF G
<1>3. SUBSET S \subseteq G
  BY <1>2, AllSubsets
<1>4. Image(S) = T
  BY <1>1
<1> QED
  BY <1>3, <1>4 DEF G


-----------------------------------------------------------------------------
(* What the ring operations do to the entries and to their bytes *)

Unique(s) == \A i, j \in DOMAIN s : s[i].key = s[j].key => i = j

LEMMA EntryTypes ==
    ASSUME NEW s \in Seq(Entries)
    PROVE  /\ Len(s) \in Nat /\ DOMAIN s = 1 .. Len(s) /\ IsFiniteSet(DOMAIN s)
           /\ \A i \in DOMAIN s : s[i] \in Entries /\ s[i].size \in Nat /\ s[i].key \in Keys
<1>1. Len(s) \in Nat /\ DOMAIN s = 1 .. Len(s)
  BY LenProperties
<1>2. \A i \in DOMAIN s : s[i] \in Entries
  BY <1>1, ElementOfSeq
<1>3. IsFiniteSet(DOMAIN s)
  BY <1>1, FS_Interval
<1> QED
  BY <1>1, <1>2, <1>3, CacheAssumption DEF Entries

LEMMA BytesSplit ==
    ASSUME NEW s \in Seq(Entries), NEW P \in SUBSET DOMAIN s
    PROVE  /\ BytesAt(s, P) \in Nat
           /\ \A i \in P : BytesAt(s, P) = s[i].size + BytesAt(s, P \ {i})
<1> DEFINE f == [i \in DOMAIN s |-> s[i].size]
<1>1. IsFiniteSet(P) /\ \A i \in P : f[i] \in Nat /\ f[i] = s[i].size
  BY EntryTypes, FS_Subset
<1>2. Splits(f, P)
  <2> HIDE DEF f
  <2> QED
    BY <1>1, SumSplits
<1> QED
  BY <1>1, <1>2 DEF Splits, BytesAt

LEMMA BytesNone == ASSUME NEW s PROVE BytesAt(s, {}) = 0
  BY SumEmpty DEF BytesAt

\* Entries that correspond one to one have the same bytes.
LEMMA BytesMoved ==
    ASSUME NEW s \in Seq(Entries), NEW P \in SUBSET DOMAIN s,
           NEW t \in Seq(Entries), NEW Q \in SUBSET DOMAIN t, NEW h \in Bijection(P, Q),
           \A i \in P : t[h[i]].size = s[i].size
    PROVE  BytesAt(s, P) = BytesAt(t, Q)
<1> DEFINE f == [i \in DOMAIN s |-> s[i].size]
           g == [i \in DOMAIN t |-> t[i].size]
<1>0. \A i \in P : h[i] \in Q
  BY DEF Bijection, Injection
<1>1. IsFiniteSet(P) /\ IsFiniteSet(Q)
  BY EntryTypes, FS_Subset
<1>2. (\A i \in P : f[i] \in Nat) /\ (\A i \in P : g[h[i]] = f[i])
  BY <1>0, EntryTypes
<1>3. SumFunctionOnSet(f, P) = SumFunctionOnSet(g, Q)
  <2> PICK u : u = f
    OBVIOUS
  <2> PICK v : v = g
    OBVIOUS
  <2>1. Matches(u, P, v, Q, h)
    BY <1>2 DEF Matches
  <2>2. SumFunctionOnSet(u, P) = SumFunctionOnSet(v, Q)
    BY <1>1, <2>1, SumMoved
  <2> QED
    BY <2>2
<1> QED
  BY <1>3 DEF BytesAt

\* In particular where the entries stay in place.
LEMMA BytesKept ==
    ASSUME NEW s \in Seq(Entries), NEW t \in Seq(Entries),
           NEW P \in SUBSET (DOMAIN s \cap DOMAIN t), \A i \in P : t[i].size = s[i].size
    PROVE  BytesAt(s, P) = BytesAt(t, P)
<1> DEFINE h == [i \in P |-> i]
<1>1. h \in Bijection(P, P) /\ \A i \in P : h[i] = i
  BY DEF Bijection, Injection, Surjection, IsInjective
<1> HIDE DEF h
<1> QED
  BY <1>1, BytesMoved

LEMMA BytesAppend ==
    ASSUME NEW s \in Seq(Entries), NEW e \in Entries
    PROVE  /\ Append(s, e) \in Seq(Entries)
           /\ BytesOf(Append(s, e)) = BytesOf(s) + e.size
           /\ Range(Append(s, e)) = Range(s) \cup {e}
           /\ Unique(s) /\ e.key \notin KeysOf(s) => Unique(Append(s, e))
<1> DEFINE n == Len(s) + 1
<1> PICK t \in Seq(Entries) : t = Append(s, e)
  BY AppendProperties
<1>1. /\ DOMAIN t = 1 .. n /\ DOMAIN s = 1 .. Len(s) /\ Len(s) \in Nat
      /\ t[n] = e /\ \A i \in DOMAIN s : t[i] = s[i]
  BY AppendProperties, LenProperties
<1>2. n \in DOMAIN t /\ DOMAIN t \ {n} = DOMAIN s
  BY <1>1
<1>3. BytesAt(t, DOMAIN t) = e.size + BytesAt(t, DOMAIN s)
  <2> PICK P \in SUBSET DOMAIN t : P = DOMAIN t
    OBVIOUS
  <2>1. \A i \in P : BytesAt(t, P) = t[i].size + BytesAt(t, P \ {i})
    BY BytesSplit
  <2> QED
    BY <1>1, <1>2, <2>1
<1>4. BytesAt(t, DOMAIN s) = BytesAt(s, DOMAIN s)
  <2> PICK P \in SUBSET (DOMAIN s \cap DOMAIN t) : P = DOMAIN s
    BY <1>2
  <2>1. \A i \in P : t[i].size = s[i].size
    BY <1>1
  <2>2. BytesAt(s, P) = BytesAt(t, P)
    BY <2>1, BytesKept
  <2> QED
    BY <2>2
<1>5. BytesAt(s, DOMAIN s) \in Nat /\ e.size \in Nat
  BY BytesSplit, CacheAssumption DEF Entries
<1>6. Range(t) = Range(s) \cup {e}
  <2>1. \A x \in Range(t) : x \in Range(s) \cup {e}
    BY <1>1 DEF Range
  <2>2. \A x \in Range(s) \cup {e} : x \in Range(t)
    BY <1>1, <1>2 DEF Range
  <2> QED
    BY <2>1, <2>2
<1>7. Unique(s) /\ e.key \notin KeysOf(s) => Unique(t)
  BY <1>1 DEF Unique, KeysOf
<1> QED
  BY <1>3, <1>4, <1>5, <1>6, <1>7 DEF BytesOf

\* The same key at the same place, with a new size.
LEMMA BytesReplace ==
    ASSUME NEW s \in Seq(Entries), NEW e \in Entries, NEW i \in DOMAIN s, NEW t \in Seq(Entries),
           DOMAIN t = DOMAIN s, t[i] = e, \A j \in DOMAIN s \ {i} : t[j] = s[j]
    PROVE  BytesOf(t) = BytesOf(s) - s[i].size + e.size
<1>1. BytesAt(t, DOMAIN t) = e.size + BytesAt(t, DOMAIN s \ {i})
  BY BytesSplit
<1>2. BytesAt(s, DOMAIN s) = s[i].size + BytesAt(s, DOMAIN s \ {i})
  BY BytesSplit
<1>3. BytesAt(s, DOMAIN s \ {i}) = BytesAt(t, DOMAIN s \ {i})
  BY BytesKept
<1>4. BytesAt(s, DOMAIN s \ {i}) \in Nat /\ e.size \in Nat /\ s[i].size \in Nat
  BY BytesSplit, EntryTypes, CacheAssumption DEF Entries
<1> QED
  BY <1>1, <1>2, <1>3, <1>4 DEF BytesOf

\* The bytes counted for a key.
LEMMA BytesOfKey ==
    ASSUME NEW s \in Seq(Entries), Unique(s), NEW i \in DOMAIN s
    PROVE  SizeIn(s, s[i].key) = s[i].size
<1> DEFINE P == {j \in DOMAIN s : s[j].key = s[i].key}
<1>1. P = {i}
  BY DEF Unique
<1> PICK Q \in SUBSET DOMAIN s : Q = {i}
  OBVIOUS
<1>2. \A j \in Q : BytesAt(s, Q) = s[j].size + BytesAt(s, Q \ {j})
  BY BytesSplit
<1>3. Q \ {i} = {} /\ s[i].size \in Nat
  BY EntryTypes
<1>4. BytesAt(s, Q \ {i}) = 0
  BY <1>3, BytesNone
<1>5. BytesAt(s, Q) = s[i].size
  BY <1>2, <1>3, <1>4
<1> QED
  BY <1>1, <1>5 DEF SizeIn


\* Where the entries with a key of V are.
PlacesOf(s, V) == {i \in DOMAIN s : s[i].key \in V}

LEMMA PlacesOfAll == ASSUME NEW s \in Seq(Entries) PROVE PlacesOf(s, Keys) = DOMAIN s
  BY EntryTypes DEF PlacesOf

\* t is s without its i-th entry.
Without(s, i, t) ==
    /\ DOMAIN t = 1 .. Len(s) - 1
    /\ \A j \in DOMAIN t : t[j] = IF j < i THEN s[j] ELSE s[j + 1]

LEMMA WithoutBytes ==
    ASSUME NEW s \in Seq(Entries), NEW t \in Seq(Entries), NEW i \in DOMAIN s, Without(s, i, t), NEW V
    PROVE  /\ BytesAt(t, PlacesOf(t, V)) \in Nat
           /\ s[i].key \in V
                => BytesAt(s, PlacesOf(s, V)) = s[i].size + BytesAt(t, PlacesOf(t, V))
           /\ s[i].key \notin V => BytesAt(s, PlacesOf(s, V)) = BytesAt(t, PlacesOf(t, V))
<1> DEFINE P == PlacesOf(t, V)
           Q == PlacesOf(s, V) \ {i}
           h == [j \in P |-> IF j < i THEN j ELSE j + 1]
<1>1. DOMAIN s = 1 .. Len(s) /\ DOMAIN t = 1 .. Len(s) - 1 /\ Len(s) \in Nat
  BY EntryTypes DEF Without
<1>2. P \in SUBSET DOMAIN t /\ Q \in SUBSET DOMAIN s
  BY DEF PlacesOf
<1>3. \A j \in P : h[j] \in Q /\ s[h[j]] = t[j]
  <2> TAKE j \in P
  <2>1. h[j] \in DOMAIN s /\ h[j] # i
    BY <1>1 DEF PlacesOf
  <2>2. s[h[j]] = t[j]
    BY <1>1 DEF PlacesOf, Without
  <2> QED
    BY <2>1, <2>2 DEF PlacesOf
<1>4. \A j, k \in P : h[j] = h[k] => j = k
  BY <1>1 DEF PlacesOf
<1>5. ASSUME NEW k \in Q
      PROVE  \E j \in P : h[j] = k
  <2> DEFINE j == IF k < i THEN k ELSE k - 1
  <2>1. k \in DOMAIN s /\ k # i /\ s[k].key \in V
    BY DEF PlacesOf
  <2>2. j \in DOMAIN t /\ t[j] = s[k]
    BY <1>1, <2>1 DEF Without
  <2>3. j \in P /\ h[j] = k
    BY <1>1, <2>1, <2>2 DEF PlacesOf
  <2> QED
    BY <2>3
<1>6. h \in Bijection(P, Q)
  BY <1>3, <1>4, <1>5 DEF Bijection, Injection, Surjection, IsInjective
<1>7. BytesAt(t, P) = BytesAt(s, Q)
  <2>1. \A j \in P : s[h[j]].size = t[j].size
    BY <1>3
  <2> HIDE DEF P, Q, h
  <2> QED
    BY <1>2, <1>6, <2>1, BytesMoved
<1>8. BytesAt(s, Q) \in Nat /\ s[i].size \in Nat
  BY <1>2, BytesSplit, EntryTypes
<1> PICK R \in SUBSET DOMAIN s : R = PlacesOf(s, V)
  BY DEF PlacesOf
<1>9. Q = R \ {i} /\ (i \in R <=> s[i].key \in V)
  BY DEF PlacesOf
<1> HIDE DEF P, Q
<1>10. ASSUME s[i].key \in V
       PROVE  BytesAt(s, R) = s[i].size + BytesAt(s, Q)
  <2>1. \A j \in R : BytesAt(s, R) = s[j].size + BytesAt(s, R \ {j})
    BY BytesSplit
  <2> QED
    BY <1>9, <1>10, <2>1
<1>11. ASSUME s[i].key \notin V
       PROVE  BytesAt(s, R) = BytesAt(s, Q)
  <2>1. R = Q
    BY <1>9, <1>11
  <2> QED
    BY <2>1
<1>12. BytesAt(t, PlacesOf(t, V)) = BytesAt(s, Q)
  BY <1>7 DEF P
<1> QED
  BY <1>8, <1>10, <1>11, <1>12

LEMMA WithoutEntries ==
    ASSUME NEW s \in Seq(Entries), NEW t \in Seq(Entries), NEW i \in DOMAIN s, Without(s, i, t),
           Unique(s)
    PROVE  Unique(t) /\ Range(t) = Range(s) \ {s[i]}
<1>1. DOMAIN s = 1 .. Len(s) /\ DOMAIN t = 1 .. Len(s) - 1 /\ Len(s) \in Nat
  BY EntryTypes DEF Without
<1>2. ASSUME NEW j \in DOMAIN t
      PROVE  \E k \in DOMAIN s \ {i} : t[j] = s[k] /\ k = IF j < i THEN j ELSE j + 1
  BY <1>1 DEF Without
<1>3. ASSUME NEW k \in DOMAIN s \ {i}
      PROVE  \E j \in DOMAIN t : t[j] = s[k]
  <2> DEFINE j == IF k < i THEN k ELSE k - 1
  <2>1. j \in DOMAIN t /\ t[j] = s[k]
    BY <1>1 DEF Without
  <2> QED
    BY <2>1
<1>4. Unique(t)
  <2> SUFFICES ASSUME NEW j \in DOMAIN t, NEW k \in DOMAIN t, t[j].key = t[k].key
               PROVE  j = k
    BY DEF Unique
  <2>1. PICK m \in DOMAIN s \ {i} : t[j] = s[m] /\ m = IF j < i THEN j ELSE j + 1
    BY <1>2
  <2>2. PICK n \in DOMAIN s \ {i} : t[k] = s[n] /\ n = IF k < i THEN k ELSE k + 1
    BY <1>2
  <2>3. m = n
    BY <2>1, <2>2 DEF Unique
  <2> QED
    BY <1>1, <2>1, <2>2, <2>3
<1>5. \A x \in Range(t) : x \in Range(s) \ {s[i]}
  BY <1>2 DEF Range, Unique
<1>6. \A x \in Range(s) \ {s[i]} : x \in Range(t)
  BY <1>3 DEF Range
<1> QED
  BY <1>4, <1>5, <1>6

LEMMA TailWithout ==
    ASSUME NEW s \in Seq(Entries), s # <<>>
    PROVE  /\ Tail(s) \in Seq(Entries) /\ 1 \in DOMAIN s /\ s[1] = Head(s)
           /\ Head(s) \in Range(s) /\ Without(s, 1, Tail(s))
<1>1. /\ Tail(s) \in Seq(Entries) /\ Len(Tail(s)) = Len(s) - 1
      /\ \A j \in 1 .. Len(s) - 1 : Tail(s)[j] = s[j + 1]
      /\ Len(s) \in Nat \ {0} /\ Head(s) = s[1]
  BY HeadTailProperties, EmptySeq, LenProperties
<1>2. DOMAIN Tail(s) = 1 .. Len(s) - 1 /\ DOMAIN s = 1 .. Len(s)
  BY <1>1, LenProperties
<1>3. Without(s, 1, Tail(s))
  BY <1>1, <1>2 DEF Without
<1> QED
  BY <1>1, <1>2, <1>3 DEF Range

\* The entries after the first.
LEMMA TailEntries ==
    ASSUME NEW s \in Seq(Entries), s # <<>>
    PROVE  /\ Tail(s) \in Seq(Entries) /\ Head(s) \in Range(s) /\ Head(s) \in Entries
           /\ Unique(s) => Unique(Tail(s)) /\ Range(Tail(s)) = Range(s) \ {Head(s)}
<1> PICK t \in Seq(Entries) : t = Tail(s)
  BY TailWithout
<1> PICK i \in DOMAIN s : i = 1
  BY TailWithout
<1>1. Head(s) \in Range(s) /\ s[i] = Head(s) /\ Without(s, i, t)
  BY TailWithout
<1>2. Unique(s) => Unique(t) /\ Range(t) = Range(s) \ {s[i]}
  <2>1. Without(s, i, t)
    BY <1>1
  <2> QED
    BY <2>1, WithoutEntries
<1>3. s[i] \in Entries
  BY EntryTypes
<1> QED
  BY <1>1, <1>2, <1>3

LEMMA TailBytes ==
    ASSUME NEW s \in Seq(Entries), s # <<>>, NEW V
    PROVE  /\ BytesAt(Tail(s), PlacesOf(Tail(s), V)) \in Nat
           /\ Head(s).key \in V
                => BytesAt(s, PlacesOf(s, V))
                     = Head(s).size + BytesAt(Tail(s), PlacesOf(Tail(s), V))
           /\ Head(s).key \notin V
                => BytesAt(s, PlacesOf(s, V)) = BytesAt(Tail(s), PlacesOf(Tail(s), V))
<1>1. \A t \in Seq(Entries), i \in DOMAIN s : Without(s, i, t) =>
        /\ BytesAt(t, PlacesOf(t, V)) \in Nat
        /\ s[i].key \in V
             => BytesAt(s, PlacesOf(s, V)) = s[i].size + BytesAt(t, PlacesOf(t, V))
        /\ s[i].key \notin V => BytesAt(s, PlacesOf(s, V)) = BytesAt(t, PlacesOf(t, V))
  BY WithoutBytes
<1>2. /\ Tail(s) \in Seq(Entries) /\ 1 \in DOMAIN s /\ s[1] = Head(s)
      /\ Without(s, 1, Tail(s))
  BY TailWithout
<1> QED
  BY <1>1, <1>2

LEMMA RemoveAtElements ==
    ASSUME NEW S, NEW s \in Seq(S), NEW n \in 1 .. Len(s)
    PROVE  /\ RemoveAt(s, n) \in Seq(S) /\ Len(RemoveAt(s, n)) = Len(s) - 1
           /\ \A i \in 1 .. Len(s) - 1 :
                 RemoveAt(s, n)[i] = IF i < n THEN s[i] ELSE s[i + 1]
<1> DEFINE before == SubSeq(s, 1, n - 1)
           after  == SubSeq(s, n + 1, Len(s))
<1>0. Len(s) \in Nat
  BY LenProperties
<1>1. /\ before \in Seq(S) /\ Len(before) = n - 1
      /\ \A i \in 1 .. n - 1 : before[i] = s[i]
  <2>1. \A i \in 1 .. n - 1 : s[i] \in S
    BY ElementOfSeq, <1>0
  <2>2. /\ before \in Seq(S) /\ Len(before) = IF 1 <= n - 1 THEN (n - 1) - 1 + 1 ELSE 0
        /\ \A i \in 1 .. (n - 1) - 1 + 1 : before[i] = s[1 + i - 1]
    BY <1>0, <2>1, SubSeqProperties
  <2> HIDE DEF before
  <2> QED
    BY <1>0, <2>2
<1>2. /\ after \in Seq(S) /\ Len(after) = Len(s) - n
      /\ \A i \in 1 .. Len(s) - n : after[i] = s[n + i]
  <2>1. \A i \in n + 1 .. Len(s) : s[i] \in S
    BY ElementOfSeq, <1>0
  <2>2. /\ after \in Seq(S) /\ Len(after) = IF n + 1 <= Len(s) THEN Len(s) - (n + 1) + 1 ELSE 0
        /\ \A i \in 1 .. Len(s) - (n + 1) + 1 : after[i] = s[(n + 1) + i - 1]
    BY <1>0, <2>1, SubSeqProperties
  <2> HIDE DEF after
  <2> QED
    BY <1>0, <2>2
<1>3. RemoveAt(s, n) = before \o after
  BY DEF RemoveAt
<1> HIDE DEF before, after
<1>4. /\ before \o after \in Seq(S) /\ Len(before \o after) = Len(before) + Len(after)
      /\ \A i \in 1 .. Len(before) + Len(after) : (before \o after)[i] =
            IF i <= Len(before) THEN before[i] ELSE after[i - Len(before)]
  BY <1>1, <1>2, ConcatProperties
<1>5. Len(before) + Len(after) = Len(s) - 1
  BY <1>0, <1>1, <1>2
<1>6. ASSUME NEW i \in 1 .. Len(s) - 1
      PROVE  RemoveAt(s, n)[i] = IF i < n THEN s[i] ELSE s[i + 1]
  <2>1. (before \o after)[i] = IF i <= n - 1 THEN before[i] ELSE after[i - (n - 1)]
    BY <1>0, <1>1, <1>2, <1>4
  <2>2. CASE i < n
    BY <1>0, <1>1, <1>3, <2>1, <2>2
  <2>3. CASE ~ (i < n)
    <3>1. i - (n - 1) \in 1 .. Len(s) - n /\ n + (i - (n - 1)) = i + 1
      BY <1>0, <2>3
    <3> QED
      BY <1>0, <1>2, <1>3, <2>1, <2>3, <3>1
  <2> QED
    BY <2>2, <2>3
<1> QED
  BY <1>3, <1>4, <1>5, <1>6

LEMMA RemoveFirstWithout ==
    ASSUME NEW s \in Seq(Entries), NEW e \in Range(s)
    PROVE  /\ RemoveFirst(s, e) \in Seq(Entries)
           /\ \E i \in DOMAIN s : s[i] = e /\ Without(s, i, RemoveFirst(s, e))
<1> DEFINE I == {i \in 1 .. Len(s) : s[i] = e}
<1>0. DOMAIN s = 1 .. Len(s) /\ Len(s) \in Nat
  BY EntryTypes
<1>1. I # {} /\ I \in SUBSET Nat
  BY <1>0 DEF Range
<1>2. PICK i \in I : i = Min(I)
  <2>1. \E m \in I : \A n \in I : m <= n
    BY <1>1, LeastNumber
  <2> QED
    BY <2>1 DEF Min
<1>3. RemoveFirst(s, e) = RemoveAt(s, i) /\ i \in 1 .. Len(s) /\ s[i] = e
  BY <1>1, <1>2 DEF RemoveFirst, SelectInSeq
<1> HIDE DEF I
<1>4. /\ RemoveAt(s, i) \in Seq(Entries) /\ Len(RemoveAt(s, i)) = Len(s) - 1
      /\ \A j \in 1 .. Len(s) - 1 : RemoveAt(s, i)[j] = IF j < i THEN s[j] ELSE s[j + 1]
  BY <1>3, RemoveAtElements
<1>5. DOMAIN RemoveAt(s, i) = 1 .. Len(s) - 1
  BY <1>4, LenProperties
<1> QED
  BY <1>0, <1>3, <1>4, <1>5 DEF Without


-----------------------------------------------------------------------------
(* The inductive invariant *)

\* A ring, its recorded total and the eviction under its mutex agree: every key
\* is listed once, the total is the sum, and what an eviction has still to do
\* is in the ring and enough for the budget.
RingOK(entries, total, ev) ==
    /\ entries \in Seq(Entries) /\ Unique(entries)
    /\ total = BytesOf(entries)
    /\ ev \in Evictions
    /\ ev.stage = "free" => total <= MaxBytes
    /\ Unique(ev.todo) /\ Range(ev.todo) \subseteq Range(entries)
    /\ ev.stage = "evict" =>
         total - BytesAt(ev.todo, PlacesOf(ev.todo, ev.victims)) <= MaxBytes

RingTypes ==
    /\ ring \in [Backends -> Seq(Entries)]
    /\ totalBytes \in [Backends -> Nat]
    /\ evict \in [Backends -> Evictions]

RingInv == RingTypes /\ \A b \in Backends : RingOK(ring[b], totalBytes[b], evict[b])

DiskTypes ==
    /\ file \in [Backends -> [Keys -> Sizes \cup {0}]]
    /\ sidecar \in [Backends -> SUBSET Keys]
    /\ meta \in [Backends -> [Keys -> Metas \cup {None}]]

\* A request that has saved knows the key and the bytes.
RequestInv ==
    /\ pc \in [Places -> {"idle", "resolve", "restore", "saved", "evicting"}]
    /\ want \in [Places -> Keys \cup {None}]
    /\ size \in [Places -> Sizes \cup {0}]
    /\ \A p \in Places : pc[p] = "saved" => want[p] \in Keys /\ size[p] \in Sizes

\* A goroutine under way has a copy, past the check of its source one of a
\* file that is not empty.
TransferInv ==
    /\ tpc \in [Transfers -> {"idle", "read", "main", "sidecars", "meta",
                              "register", "evicting", "end"}]
    /\ copy \in [Transfers -> Copies \cup {None}]
    /\ \A t \in Transfers :
         /\ tpc[t] # "idle" => copy[t] \in Copies
         /\ tpc[t] \in {"main", "sidecars", "meta", "register"} => copy[t].size \in Sizes

BootTypes ==
    /\ boot \in {"load", "up"}
    /\ loaded \subseteq Backends
    /\ crashes \in 0 .. MaxCrashes

\* The pair the tracker has for a goroutine.
Pair(t) == <<copy[t].key, copy[t].dst>>

Running == {t \in Transfers : tpc[t] # "idle"}

\* The tracker has a pair of its own for each goroutine under way.
TrackerInv ==
    /\ tracker = {Pair(t) : t \in Running}
    /\ \A t, u \in Running : Pair(t) = Pair(u) => t = u

CacheInv == RingInv /\ DiskTypes /\ RequestInv /\ TransferInv /\ BootTypes /\ TrackerInv


-----------------------------------------------------------------------------
(* What each operation does to a ring *)

LEMMA BytesInNat == ASSUME NEW s \in Seq(Entries) PROVE BytesOf(s) \in Nat
<1> PICK P \in SUBSET DOMAIN s : P = DOMAIN s
  OBVIOUS
<1>1. BytesAt(s, P) \in Nat
  BY BytesSplit
<1> QED
  BY <1>1 DEF BytesOf

LEMMA EmptyRing == RingOK(<<>>, 0, Released)
<1>1. <<>> \in Seq(Entries) /\ Unique(<<>>) /\ Range(<<>>) = {} /\ DOMAIN <<>> = {}
  BY EmptySeq DEF Unique, Range
<1>2. BytesOf(<<>>) = 0
  BY <1>1, BytesNone DEF BytesOf
<1>3. Released \in Evictions
  BY <1>1 DEF Released, Evictions
<1> QED
  BY <1>1, <1>2, <1>3, CacheAssumption DEF RingOK, Released

\* A new ring with its sum, and EvictIfNeeded.
LEMMA SetRingOK ==
    ASSUME NEW s \in Seq(Entries), Unique(s), NEW n, n = BytesOf(s)
    PROVE  RingOK(s, n, EvictIfNeeded(s, n))
<1>1. n \in Nat
  BY BytesInNat
<1>2. CASE n <= MaxBytes
  <2>1. <<>> \in Seq(Entries) /\ Unique(<<>>) /\ Range(<<>>) = {}
    BY EmptySeq DEF Unique, Range
  <2>2. Released \in Evictions
    BY <2>1 DEF Released, Evictions
  <2> QED
    BY <1>2, <2>1, <2>2 DEF RingOK, EvictIfNeeded, Released
<1>3. CASE ~ (n <= MaxBytes)
  <2> DEFINE ev == [stage |-> "prune", todo |-> s, victims |-> {}, unlinked |-> None]
  <2>1. ev = EvictIfNeeded(s, n)
    BY <1>3 DEF EvictIfNeeded
  <2>2. ev \in Evictions
    BY DEF Evictions
  <2>3. RingOK(s, n, ev)
    BY <2>2 DEF RingOK
  <2> QED
    BY <2>1, <2>3
<1> QED
  BY <1>2, <1>3

\* Giving the mutex back within the budget.
LEMMA ReleasedOK ==
    ASSUME NEW s, NEW n, NEW ev, RingOK(s, n, ev), n <= MaxBytes
    PROVE  RingOK(s, n, Released)
<1>1. <<>> \in Seq(Entries) /\ Unique(<<>>) /\ Range(<<>>) = {}
  BY EmptySeq DEF Unique, Range
<1>2. Released \in Evictions
  BY <1>1 DEF Released, Evictions
<1> QED
  BY <1>1, <1>2 DEF RingOK, Released

\* Only the meta file of the dropped entry is dealt with.
LEMMA UnlinkedOK ==
    ASSUME NEW s, NEW n, NEW ev, RingOK(s, n, ev), NEW k \in Keys \cup {None}
    PROVE  RingOK(s, n, [ev EXCEPT !.unlinked = k])
  BY DEF RingOK, Evictions

\* The next entry is kept: after the pruning it is no victim.
LEMMA KeepOK ==
    ASSUME NEW s, NEW n, NEW ev, RingOK(s, n, ev), ev.todo # <<>>,
           \/ ev.stage = "prune"
           \/ ev.stage = "evict" /\ Head(ev.todo).key \notin ev.victims
    PROVE  RingOK(s, n, [ev EXCEPT !.todo = Tail(@)])
<1> PICK todo : todo = ev.todo
  OBVIOUS
<1> PICK rest : rest = Tail(todo)
  OBVIOUS
<1>1. ev \in Evictions /\ todo \in Seq(Entries) /\ Unique(todo) /\ Range(todo) \subseteq Range(s)
  BY DEF RingOK, Evictions
<1>2. /\ rest \in Seq(Entries) /\ Unique(rest)
      /\ Range(rest) = Range(todo) \ {Head(todo)}
  BY <1>1, TailEntries
<1>3. Range(rest) \subseteq Range(s)
  BY <1>1, <1>2
<1>4. ev.stage = "evict" =>
        BytesAt(todo, PlacesOf(todo, ev.victims)) = BytesAt(rest, PlacesOf(rest, ev.victims))
  BY <1>1, TailBytes
<1> PICK new : new = [ev EXCEPT !.todo = rest]
  OBVIOUS
<1>5. /\ new \in Evictions /\ new.stage = ev.stage /\ new.todo = rest
      /\ new.victims = ev.victims
  BY <1>1, <1>2 DEF Evictions
<1>6. RingOK(s, n, new)
  BY <1>2, <1>3, <1>4, <1>5 DEF RingOK
<1> QED
  BY <1>6

\* The next entry is dropped: it leaves the ring, and its bytes the total.
LEMMA DropOK ==
    ASSUME NEW s, NEW n, NEW ev, RingOK(s, n, ev), ev.todo # <<>>,
           \/ ev.stage = "prune"
           \/ ev.stage = "evict" /\ Head(ev.todo).key \in ev.victims
    PROVE  /\ Head(ev.todo) \in Entries
           /\ n - Head(ev.todo).size \in Nat
           /\ RemoveFirst(s, Head(ev.todo)) \in Seq(Entries)
           /\ RingOK(RemoveFirst(s, Head(ev.todo)), n - Head(ev.todo).size,
                     [ev EXCEPT !.todo = Tail(@), !.unlinked = Head(ev.todo).key])
<1> PICK todo : todo = ev.todo
  OBVIOUS
<1> PICK rest : rest = Tail(todo)
  OBVIOUS
<1> PICK e : e = Head(todo)
  OBVIOUS
<1> PICK left : left = RemoveFirst(s, e)
  OBVIOUS
<1>1. /\ ev \in Evictions /\ todo \in Seq(Entries) /\ Unique(todo) /\ Range(todo) \subseteq Range(s)
      /\ s \in Seq(Entries) /\ Unique(s) /\ n = BytesOf(s)
  BY DEF RingOK, Evictions
<1>2. /\ rest \in Seq(Entries) /\ e \in Range(todo) /\ e \in Entries
  BY <1>1, TailEntries
<1>3. e.size \in Nat /\ e.key \in Keys
  BY <1>2, CacheAssumption DEF Entries
<1>4. Unique(rest) /\ Range(rest) = Range(todo) \ {e}
  BY <1>1, TailEntries
<1>5. left \in Seq(Entries) /\ \E i \in DOMAIN s : s[i] = e /\ Without(s, i, left)
  BY <1>1, <1>2, RemoveFirstWithout
<1>6. PICK i \in DOMAIN s : s[i] = e /\ Without(s, i, left)
  BY <1>5
<1>7. Unique(left) /\ Range(left) = Range(s) \ {e}
  BY <1>1, <1>5, <1>6, WithoutEntries
<1>8. BytesOf(left) \in Nat /\ BytesOf(s) = e.size + BytesOf(left)
  <2>1. BytesAt(s, PlacesOf(s, Keys)) = e.size + BytesAt(left, PlacesOf(left, Keys))
    BY <1>1, <1>3, <1>5, <1>6, WithoutBytes
  <2>2. PlacesOf(s, Keys) = DOMAIN s /\ PlacesOf(left, Keys) = DOMAIN left
    BY <1>1, <1>5, PlacesOfAll
  <2> QED
    BY <1>5, <2>1, <2>2, BytesInNat DEF BytesOf
<1>9. ev.stage = "evict" =>
        BytesAt(todo, PlacesOf(todo, ev.victims)) = e.size + BytesAt(rest, PlacesOf(rest, ev.victims))
  BY <1>1, TailBytes
<1>10. BytesAt(rest, PlacesOf(rest, ev.victims)) \in Nat
  BY <1>1, TailBytes
<1> PICK m : m = n - e.size
  OBVIOUS
<1>11. m = BytesOf(left) /\ m \in Nat /\ n \in Nat
  BY <1>1, <1>3, <1>8
<1> PICK new : new = [ev EXCEPT !.todo = rest, !.unlinked = e.key]
  OBVIOUS
<1>12. /\ new \in Evictions /\ new.stage = ev.stage /\ new.todo = rest
       /\ new.victims = ev.victims
  BY <1>1, <1>2, <1>3 DEF Evictions
<1>13. ev.stage = "evict" => m - BytesAt(rest, PlacesOf(rest, ev.victims)) <= MaxBytes
  <2>1. ev.stage = "evict" => n - BytesAt(todo, PlacesOf(todo, ev.victims)) <= MaxBytes
    BY DEF RingOK
  <2> QED
    BY <1>3, <1>9, <1>10, <1>11, <2>1
<1>14. RingOK(left, m, new)
  BY <1>4, <1>5, <1>7, <1>1, <1>2, <1>11, <1>12, <1>13 DEF RingOK
<1> QED
  BY <1>2, <1>5, <1>11, <1>14


\* What ChooseVictims leaves to do is enough: the victims' bytes bring the
\* total within the budget, or everything goes.
LEMMA ChooseOK ==
    ASSUME NEW s, NEW n, NEW ev, RingOK(s, n, ev), NEW V \in SUBSET KeysOf(s),
           n - BytesAt(s, PlacesOf(s, V)) <= MaxBytes \/ V = KeysOf(s)
    PROVE  RingOK(s, n, [ev EXCEPT !.stage = "evict", !.todo = s, !.victims = V])
<1>1. /\ s \in Seq(Entries) /\ Unique(s) /\ n = BytesOf(s) /\ ev \in Evictions
  BY DEF RingOK
<1>2. V \in SUBSET Keys
  BY <1>1, EntryTypes DEF KeysOf
<1> PICK new : new = [ev EXCEPT !.stage = "evict", !.todo = s, !.victims = V]
  OBVIOUS
<1>3. new \in Evictions /\ new.stage = "evict" /\ new.todo = s /\ new.victims = V
  BY <1>1, <1>2 DEF Evictions
<1>4. n - BytesAt(s, PlacesOf(s, V)) <= MaxBytes
  <2>1. CASE V = KeysOf(s)
    <3>1. PlacesOf(s, V) = DOMAIN s
      BY <2>1 DEF PlacesOf, KeysOf
    <3>2. n - BytesAt(s, PlacesOf(s, V)) = 0
      BY <1>1, <3>1, BytesInNat DEF BytesOf
    <3> QED
      BY <3>2, CacheAssumption
  <2> QED
    BY <2>1
<1>5. RingOK(s, n, new)
  BY <1>1, <1>3, <1>4 DEF RingOK
<1> QED
  BY <1>5

\* SaveAfter's ring and total: the key's old bytes out, the new ones in.
LEMMA PlaceEntry ==
    ASSUME NEW s \in Seq(Entries), Unique(s), NEW e \in Entries
    PROVE  /\ Place(s, e) \in Seq(Entries) /\ Unique(Place(s, e))
           /\ BytesOf(s) - SizeIn(s, e.key) + e.size = BytesOf(Place(s, e))
<1>0. BytesOf(s) \in Nat /\ e.size \in Nat
  BY BytesInNat, CacheAssumption DEF Entries
<1>1. CASE e.key \notin KeysOf(s)
  <2>1. Place(s, e) = Append(s, e)
    BY <1>1 DEF Place
  <2>2. {i \in DOMAIN s : s[i].key = e.key} = {}
    BY <1>1 DEF KeysOf
  <2>3. SizeIn(s, e.key) = 0
    BY <2>2, BytesNone DEF SizeIn
  <2>4. /\ Append(s, e) \in Seq(Entries) /\ Unique(Append(s, e))
        /\ BytesOf(Append(s, e)) = BytesOf(s) + e.size
    BY <1>1, BytesAppend
  <2> QED
    BY <1>0, <2>1, <2>3, <2>4
<1>2. CASE e.key \in KeysOf(s)
  <2> DEFINE t == [j \in DOMAIN s |-> IF s[j].key = e.key THEN e ELSE s[j]]
  <2>1. Place(s, e) = t
    BY <1>2 DEF Place
  <2>2. PICK i \in DOMAIN s : s[i].key = e.key
    BY <1>2 DEF KeysOf
  <2>3. \A j \in DOMAIN s : s[j].key = e.key => j = i
    BY <2>2 DEF Unique
  <2>4. t \in Seq(Entries)
    <3>1. DOMAIN s = 1 .. Len(s) /\ Len(s) \in Nat /\ \A j \in DOMAIN s : s[j] \in Entries
      BY EntryTypes
    <3>2. t \in [1 .. Len(s) -> Entries]
      BY <3>1
    <3> HIDE DEF t
    <3> QED
      BY <3>1, <3>2, SeqDef
  <2>5. DOMAIN t = DOMAIN s /\ t[i] = e /\ \A j \in DOMAIN s \ {i} : t[j] = s[j]
    BY <2>2, <2>3
  <2>6. \A j \in DOMAIN s : t[j].key = s[j].key
    BY <2>2, <2>3
  <2>7. Unique(t)
    BY <2>5, <2>6 DEF Unique
  <2> HIDE DEF t
  <2>8. BytesOf(t) = BytesOf(s) - s[i].size + e.size
    BY <2>4, <2>5, BytesReplace
  <2>9. SizeIn(s, e.key) = s[i].size
    <3>1. SizeIn(s, s[i].key) = s[i].size
      BY BytesOfKey
    <3> QED
      BY <2>2, <3>1
  <2> QED
    BY <2>1, <2>4, <2>7, <2>8, <2>9
<1> QED
  BY <1>1, <1>2

\* SetToSeq has every element of a finite set once.
LEMMA SetListed ==
    ASSUME NEW K, IsFiniteSet(K), NEW n \in Nat, n = Cardinality(K), NEW ks, ks = SetToSeq(K)
    PROVE  ks \in [1 .. n -> K] /\ IsInjective(ks) /\ Range(ks) = K
<1>1. PICK f \in [1 .. n -> K] : IsInjective(f)
  <2>1. ExistsBijection(1 .. n, K)
    BY FS_CardinalityType
  <2>2. PICK f : f \in Bijection(1 .. n, K)
    BY <2>1 DEF ExistsBijection
  <2>3. f \in [1 .. n -> K] /\ \A i, j \in 1 .. n : f[i] = f[j] => i = j
    BY <2>2 DEF Bijection, Injection, IsInjective
  <2>4. IsInjective(f)
    BY <2>3 DEF IsInjective
  <2> QED
    BY <2>3, <2>4
<1>2. ks \in [1 .. n -> K] /\ IsInjective(ks)
  BY <1>1 DEF SetToSeq
<1>3. ks \in Injection(1 .. n, K)
  BY <1>2 DEF Injection, IsInjective
<1>4. IsFiniteSet(1 .. n) /\ Cardinality(1 .. n) = n
  <2>1. Cardinality(1 .. n) = IF 1 > n THEN 0 ELSE n - 1 + 1
    BY ONLY n \in Nat, FS_Interval
  <2> QED
    BY ONLY n \in Nat, <2>1, FS_Interval
<1>5. ks \in Surjection(1 .. n, K)
  BY <1>3, <1>4, FS_Injection
<1>6. Range(ks) = K
  BY <1>2, <1>5 DEF Surjection, Range
<1> QED
  BY <1>2, <1>6

\* InitFromDisk's ring: the keys that have metadata, in some order.
LEMMA DiskEntries ==
    ASSUME NEW m \in [Keys -> Metas \cup {None}],
           NEW ks, ks = SetToSeq({k \in Keys : m[k] # None}),
           NEW s, s = [i \in DOMAIN ks |-> [key |-> ks[i], size |-> m[ks[i]].size]]
    PROVE  s \in Seq(Entries) /\ Unique(s)
<1> DEFINE K == {k \in Keys : m[k] # None}
<1>1. IsFiniteSet(K)
  BY CacheAssumption, FS_Subset
<1> PICK n \in Nat : n = Cardinality(K)
  BY <1>1, FS_CardinalityType
<1>3. ks \in [1 .. n -> K] /\ IsInjective(ks)
  BY <1>1, SetListed
<1>4. DOMAIN s = 1 .. n /\ \A i \in 1 .. n : s[i] = [key |-> ks[i], size |-> m[ks[i]].size]
  BY <1>3
<1>5. \A i \in 1 .. n : s[i] \in Entries
  <2> TAKE i \in 1 .. n
  <2>1. ks[i] \in Keys /\ m[ks[i]] \in Metas
    BY <1>3
  <2> QED
    BY <1>4, <2>1 DEF Entries, Metas
<1>6. s \in [1 .. n -> Entries]
  BY <1>3, <1>5
<1>7. Unique(s)
  <2> SUFFICES ASSUME NEW i \in DOMAIN s, NEW j \in DOMAIN s, s[i].key = s[j].key
               PROVE  i = j
    BY DEF Unique
  <2>1. i \in 1 .. n /\ j \in 1 .. n
    BY <1>4
  <2>2. ks[i] = ks[j]
    BY <1>4, <2>1
  <2> QED
    BY <1>3, <2>1, <2>2 DEF IsInjective
<1> HIDE DEF K
<1>8. ASSUME NEW t, t \in [1 .. n -> Entries]
      PROVE  t \in Seq(Entries)
  BY <1>8, SeqDef
<1>9. s \in Seq(Entries)
  BY <1>6, <1>8
<1> QED
  BY <1>7, <1>9


-----------------------------------------------------------------------------
(* Every step keeps the rings, their totals and the evictions consistent *)

\* The ring, the total and the eviction of one backend change.
LEMMA OneRing ==
    ASSUME RingInv, NEW b \in Backends, NEW s \in Seq(Entries), NEW n \in Nat, NEW ev,
           RingOK(s, n, ev),
           ring' = [ring EXCEPT ![b] = s], totalBytes' = [totalBytes EXCEPT ![b] = n],
           evict' = [evict EXCEPT ![b] = ev]
    PROVE  RingInv'
<1>1. ev \in Evictions
  BY DEF RingOK
<1>2. RingTypes'
  BY <1>1 DEF RingInv, RingTypes
<1>3. ASSUME NEW c \in Backends
      PROVE  RingOK(ring'[c], totalBytes'[c], evict'[c])
  <2>1. CASE c = b
    <3>1. ring'[c] = s /\ totalBytes'[c] = n /\ evict'[c] = ev
      BY <2>1 DEF RingInv, RingTypes
    <3> QED
      BY <3>1
  <2>2. CASE c # b
    <3>1. ring'[c] = ring[c] /\ totalBytes'[c] = totalBytes[c] /\ evict'[c] = evict[c]
      BY <2>2 DEF RingInv, RingTypes
    <3>2. RingOK(ring[c], totalBytes[c], evict[c])
      BY DEF RingInv
    <3> QED
      BY <3>1, <3>2
  <2> QED
    BY <2>1, <2>2
<1> QED
  BY <1>2, <1>3 DEF RingInv

\* Only the eviction of one backend changes.
LEMMA OneEviction ==
    ASSUME RingInv, NEW b \in Backends, NEW ev, RingOK(ring[b], totalBytes[b], ev),
           UNCHANGED <<ring, totalBytes>>, evict' = [evict EXCEPT ![b] = ev]
    PROVE  RingInv'
<1> PICK s \in Seq(Entries) : s = ring[b]
  BY DEF RingInv, RingTypes
<1> PICK n \in Nat : n = totalBytes[b]
  BY DEF RingInv, RingTypes
<1>1. ring' = [ring EXCEPT ![b] = s] /\ totalBytes' = [totalBytes EXCEPT ![b] = n]
  BY DEF RingInv, RingTypes
<1>2. RingOK(s, n, ev)
  OBVIOUS
<1> QED
  BY <1>1, <1>2, OneRing

LEMMA RingSet ==
    ASSUME RingInv, NEW b \in Backends, NEW s \in Seq(Entries), Unique(s), NEW n, n = BytesOf(s),
           SetRing(b, s, n)
    PROVE  RingInv'
<1> PICK ev : ev = EvictIfNeeded(s, n)
  OBVIOUS
<1>1. RingOK(s, n, ev) /\ n \in Nat
  BY SetRingOK, BytesInNat
<1>2. /\ ring' = [ring EXCEPT ![b] = s] /\ totalBytes' = [totalBytes EXCEPT ![b] = n]
      /\ evict' = [evict EXCEPT ![b] = ev]
  BY DEF SetRing
<1> QED
  BY <1>1, <1>2, OneRing

LEMMA RingKept == ASSUME RingInv, UNCHANGED ringVars PROVE RingInv'
  BY DEF RingInv, RingTypes, ringVars

LEMMA EntryDropped ==
    ASSUME RingInv, NEW b \in Backends, evict[b].todo # <<>>,
           \/ evict[b].stage = "prune"
           \/ evict[b].stage = "evict" /\ Head(evict[b].todo).key \in evict[b].victims,
           DropEntry(b, Head(evict[b].todo))
    PROVE  RingInv' /\ Head(evict[b].todo) \in Entries
<1> PICK old \in Evictions : old = evict[b]
  BY DEF RingInv, RingTypes
<1> PICK e : e = Head(old.todo)
  OBVIOUS
<1> PICK s : s = RemoveFirst(ring[b], e)
  OBVIOUS
<1> PICK n : n = totalBytes[b] - e.size
  OBVIOUS
<1> PICK ev : ev = [old EXCEPT !.todo = Tail(@), !.unlinked = e.key]
  OBVIOUS
<1>1. RingOK(ring[b], totalBytes[b], old)
  BY DEF RingInv
<1>2. e \in Entries /\ n \in Nat /\ s \in Seq(Entries) /\ RingOK(s, n, ev)
  BY <1>1, DropOK
<1>3. ring' = [ring EXCEPT ![b] = s]
  BY DEF DropEntry, RingInv, RingTypes
<1>4. totalBytes' = [totalBytes EXCEPT ![b] = n]
  BY DEF DropEntry, RingInv, RingTypes
<1>5. evict' = [evict EXCEPT ![b] = ev]
  BY DEF DropEntry, RingInv, RingTypes
<1> QED
  BY <1>2, <1>3, <1>4, <1>5, OneRing

LEMMA EntryKept ==
    ASSUME RingInv, NEW b \in Backends, evict[b].todo # <<>>,
           \/ evict[b].stage = "prune"
           \/ evict[b].stage = "evict" /\ Head(evict[b].todo).key \notin evict[b].victims,
           KeepEntry(b)
    PROVE  RingInv'
<1> PICK old \in Evictions : old = evict[b]
  BY DEF RingInv, RingTypes
<1> PICK ev : ev = [old EXCEPT !.todo = Tail(@)]
  OBVIOUS
<1>1. RingOK(ring[b], totalBytes[b], old)
  BY DEF RingInv
<1>2. RingOK(ring[b], totalBytes[b], ev)
  BY <1>1, KeepOK
<1>3. evict' = [evict EXCEPT ![b] = ev]
  BY DEF KeepEntry, RingInv, RingTypes
<1>4. UNCHANGED <<ring, totalBytes>>
  BY DEF KeepEntry
<1> QED
  BY <1>2, <1>3, <1>4, OneEviction

LEMMA MutexGivenBack ==
    ASSUME RingInv, NEW b \in Backends, Unlock(b), totalBytes[b] <= MaxBytes
    PROVE  RingInv'
<1> PICK ev : ev = Released
  OBVIOUS
<1>1. RingOK(ring[b], totalBytes[b], evict[b])
  BY DEF RingInv
<1>2. RingOK(ring[b], totalBytes[b], ev)
  BY <1>1, ReleasedOK
<1>3. evict' = [evict EXCEPT ![b] = ev] /\ UNCHANGED <<ring, totalBytes>>
  BY DEF Unlock
<1> QED
  BY <1>2, <1>3, OneEviction


LEMMA PruneOrphansRing ==
    ASSUME RingInv, NEW b \in Backends, PruneOrphans(b)
    PROVE  RingInv'
<1>1. evict[b].todo # <<>> /\ evict[b].stage = "prune"
  BY DEF PruneOrphans
<1>2. KeepEntry(b) \/ DropEntry(b, Head(evict[b].todo))
  BY DEF PruneOrphans
<1> QED
  BY <1>1, <1>2, EntryKept, EntryDropped

LEMMA EvictNextRing ==
    ASSUME RingInv, NEW b \in Backends, EvictNext(b)
    PROVE  RingInv'
<1>1. evict[b].todo # <<>> /\ evict[b].stage = "evict"
  BY DEF EvictNext
<1>2. \/ Head(evict[b].todo).key \in evict[b].victims /\ DropEntry(b, Head(evict[b].todo))
      \/ Head(evict[b].todo).key \notin evict[b].victims /\ KeepEntry(b)
  BY DEF EvictNext
<1> QED
  BY <1>1, <1>2, EntryKept, EntryDropped

LEMMA ChooseVictimsRing ==
    ASSUME RingInv, NEW b \in Backends, ChooseVictims(b)
    PROVE  RingInv'
<1>1. RingOK(ring[b], totalBytes[b], evict[b])
  BY DEF RingInv
<1>2. CASE Unlock(b) /\ (ring[b] = <<>> \/ totalBytes[b] <= MaxBytes)
  <2>1. ring[b] = <<>> => totalBytes[b] = 0
    <3>1. totalBytes[b] = BytesAt(ring[b], DOMAIN ring[b])
      BY <1>1 DEF RingOK, BytesOf
    <3>2. ring[b] = <<>> => DOMAIN ring[b] = {}
      BY EmptySeq
    <3> QED
      BY <3>1, <3>2, BytesNone
  <2>2. totalBytes[b] <= MaxBytes
    BY <1>2, <2>1, CacheAssumption
  <2> QED
    BY <1>2, <2>2, MutexGivenBack
<1>3. ASSUME NEW V \in Victims(b),
             evict' = [evict EXCEPT ![b].stage = "evict", ![b].todo = ring[b], ![b].victims = V],
             UNCHANGED <<ring, totalBytes>>
      PROVE  RingInv'
  <2> PICK old \in Evictions : old = evict[b]
    BY DEF RingInv, RingTypes
  <2> PICK s : s = ring[b]
    OBVIOUS
  <2> PICK n : n = totalBytes[b]
    OBVIOUS
  <2> PICK ev : ev = [old EXCEPT !.stage = "evict", !.todo = s, !.victims = V]
    OBVIOUS
  <2>1. /\ V \in SUBSET KeysOf(s)
        /\ n - BytesAt(s, PlacesOf(s, V)) <= MaxBytes \/ V = KeysOf(s)
    BY DEF Victims, BytesLeft, PlacesOf
  <2>2. RingOK(s, n, old)
    BY <1>1
  <2>3. RingOK(s, n, ev)
    BY <2>1, <2>2, ChooseOK
  <2>4. evict' = [evict EXCEPT ![b] = ev]
    BY <1>3 DEF RingInv, RingTypes
  <2> QED
    BY <1>3, <2>3, <2>4, OneEviction
<1> QED
  BY <1>2, <1>3 DEF ChooseVictims

LEMMA EvictionDoneRing ==
    ASSUME RingInv, NEW b \in Backends, EvictionDone(b)
    PROVE  RingInv'
<1>1. RingOK(ring[b], totalBytes[b], evict[b]) /\ totalBytes[b] \in Nat
  BY DEF RingInv, RingTypes
<1>2. evict[b].stage = "evict" /\ evict[b].todo = <<>> /\ Unlock(b)
  BY DEF EvictionDone
<1>3. PlacesOf(<<>>, evict[b].victims) = {}
  BY EmptySeq DEF PlacesOf
<1>4. totalBytes[b] - BytesAt(<<>>, {}) <= MaxBytes
  BY <1>1, <1>2, <1>3 DEF RingOK
<1>5. totalBytes[b] <= MaxBytes
  BY <1>1, <1>4, BytesNone
<1> QED
  BY <1>2, <1>5, MutexGivenBack

LEMMA DeleteMetaRing ==
    ASSUME RingInv, NEW b \in Backends, DeleteMeta(b)
    PROVE  RingInv'
<1> PICK old \in Evictions : old = evict[b]
  BY DEF RingInv, RingTypes
<1> PICK ev : ev = [old EXCEPT !.unlinked = None]
  OBVIOUS
<1>1. RingOK(ring[b], totalBytes[b], old)
  BY DEF RingInv
<1>2. RingOK(ring[b], totalBytes[b], ev)
  BY <1>1, UnlinkedOK
<1>3. evict' = [evict EXCEPT ![b] = ev] /\ UNCHANGED <<ring, totalBytes>>
  BY DEF DeleteMeta, RingInv, RingTypes
<1> QED
  BY <1>2, <1>3, OneEviction

LEMMA SaveAfterRing ==
    ASSUME RingInv, RequestInv, NEW p \in Places, NEW blocks, SaveAfter(p, blocks)
    PROVE  RingInv'
<1> PICK b \in Backends : b = p[1]
  BY DEF Places
<1> PICK old : old = ring[b]
  OBVIOUS
<1>1. pc[p] = "saved"
  BY DEF SaveAfter
<1> PICK e \in Entries : e = [key |-> want[p], size |-> size[p]]
  BY <1>1 DEF RequestInv, Entries
<1>2. RingOK(old, totalBytes[b], evict[b])
  BY DEF RingInv
<1>3. old \in Seq(Entries) /\ Unique(old) /\ totalBytes[b] = BytesOf(old)
  BY <1>2 DEF RingOK
<1> PICK s : s = Place(old, e)
  OBVIOUS
<1> PICK n : n = BytesOf(old) - SizeIn(old, e.key) + e.size
  OBVIOUS
<1>4. s \in Seq(Entries) /\ Unique(s) /\ n = BytesOf(s)
  BY <1>3, PlaceEntry
<1>5. SetRing(b, s, n)
  BY <1>3 DEF SaveAfter
<1> QED
  BY <1>4, <1>5, RingSet

LEMMA AddTransferredEntryRing ==
    ASSUME RingInv, TransferInv, NEW t \in Transfers, AddTransferredEntry(t)
    PROVE  RingInv'
<1>1. tpc[t] = "register"
  BY DEF AddTransferredEntry
<1> PICK c \in Copies : c = copy[t]
  BY <1>1 DEF TransferInv
<1> PICK b \in Backends : b = c.dst
  BY DEF Copies
<1> PICK old : old = ring[b]
  OBVIOUS
<1> PICK e \in Entries : e = [key |-> c.key, size |-> c.size]
  BY <1>1 DEF TransferInv, Copies, Entries
<1>2. RingOK(old, totalBytes[b], evict[b])
  BY DEF RingInv
<1>3. old \in Seq(Entries) /\ Unique(old) /\ totalBytes[b] = BytesOf(old)
  BY <1>2 DEF RingOK
<1>4. CASE UNCHANGED ringVars
  BY <1>4, RingKept
<1>5. CASE /\ ~Listed(b, c.key)
           /\ SetRing(b, Append(old, e), totalBytes[b] + c.size)
  <2> PICK s : s = Append(old, e)
    OBVIOUS
  <2> PICK n : n = BytesOf(old) + e.size
    OBVIOUS
  <2>1. e.key \notin KeysOf(old)
    BY <1>5 DEF Listed
  <2>2. s \in Seq(Entries) /\ Unique(s) /\ n = BytesOf(s)
    BY <1>3, <2>1, BytesAppend
  <2>3. SetRing(b, s, n)
    BY <1>3, <1>5
  <2> QED
    BY <2>2, <2>3, RingSet
<1> QED
  BY <1>4, <1>5 DEF AddTransferredEntry

LEMMA InitFromDiskRing ==
    ASSUME RingInv, DiskTypes, NEW b \in Backends, InitFromDisk(b)
    PROVE  RingInv'
<1> PICK m \in [Keys -> Metas \cup {None}] : m = meta[b]
  BY DEF DiskTypes
<1> PICK ks : ks = SetToSeq({k \in Keys : m[k] # None})
  OBVIOUS
<1> PICK s : s = [i \in DOMAIN ks |-> [key |-> ks[i], size |-> m[ks[i]].size]]
  OBVIOUS
<1> PICK n : n = BytesOf(s)
  OBVIOUS
<1>1. s \in Seq(Entries) /\ Unique(s)
  BY DiskEntries
<1>2. SetRing(b, s, n)
  BY DEF InitFromDisk
<1> QED
  BY <1>1, <1>2, RingSet

LEMMA CrashRing == ASSUME Crash PROVE RingInv'
<1>1. /\ ring' = [b \in Backends |-> <<>>] /\ totalBytes' = [b \in Backends |-> 0]
      /\ evict' = [b \in Backends |-> Released]
  BY DEF Crash
<1>2. RingOK(<<>>, 0, Released)
  BY EmptyRing
<1>3. <<>> \in Seq(Entries) /\ Released \in Evictions
  BY <1>2 DEF RingOK
<1> QED
  BY <1>1, <1>2, <1>3 DEF RingInv, RingTypes


-----------------------------------------------------------------------------
(* The files, the requests, the transfers and the tracker *)

\* A request's step, by action.
RequestActs(p) ==
    \/ \E src \in Backends, k \in Keys : RouteAway(p, src, k)
    \/ ResolveRestoreKey(p)
    \/ Restore(p)
    \/ \E k \in Keys, bytes \in Sizes : SaveSlot(p, k, bytes)
    \/ \E blocks \in BOOLEAN : SaveAfter(p, blocks)

LEMMA RequestActions == ASSUME NEW p \in Places, RequestStep(p) PROVE RequestActs(p)
  BY CacheAssumption DEF RequestStep, RequestActs

LEMMA DeletedTypes ==
    ASSUME DiskTypes, NEW b \in Backends, NEW k \in Keys, CacheDelete(b, k), UNCHANGED meta
    PROVE  DiskTypes'
<1>1. CASE /\ file' = [file EXCEPT ![b][k] = 0]
           /\ sidecar' = [sidecar EXCEPT ![b] = IF file[b][k] = 0 THEN @ ELSE @ \ {k}]
  BY <1>1 DEF DiskTypes
<1>2. CASE UNCHANGED <<file, sidecar>>
  BY <1>2 DEF DiskTypes
<1> QED
  BY <1>1, <1>2 DEF CacheDelete

LEMMA EvictionDisk ==
    ASSUME CacheInv, NEW b \in Backends, EvictionStep(b)
    PROVE  DiskTypes'
<1> USE DEF CacheInv
<1>1. ASSUME NEW e \in Entries, DropEntry(b, e), UNCHANGED meta
      PROVE  DiskTypes'
  <2>1. CacheDelete(b, e.key) /\ e.key \in Keys
    BY <1>1 DEF DropEntry, Entries
  <2> PICK k \in Keys : k = e.key
    BY <2>1
  <2> QED
    BY <1>1, <2>1, DeletedTypes
<1>2. ASSUME KeepEntry(b), UNCHANGED meta
      PROVE  DiskTypes'
  BY <1>2 DEF KeepEntry, DiskTypes
<1>3. CASE PruneOrphans(b) \/ EvictNext(b)
  <2> PICK e : e = Head(evict[b].todo)
    OBVIOUS
  <2>1. UNCHANGED meta /\ evict[b].todo # <<>> /\ (KeepEntry(b) \/ DropEntry(b, e))
    BY <1>3 DEF PruneOrphans, EvictNext
  <2>2. e \in Entries
    <3>1. evict[b].todo \in Seq(Entries)
      BY DEF RingInv, RingTypes, Evictions
    <3> QED
      BY <2>1, <3>1, TailEntries
  <2> QED
    BY <1>1, <1>2, <2>1, <2>2
<1>4. CASE ChooseVictims(b) \/ EvictionDone(b)
  BY <1>4 DEF ChooseVictims, EvictionDone, diskVars, DiskTypes
<1>5. CASE DeleteMeta(b)
  BY <1>5 DEF DeleteMeta, DeleteMetaFile, DiskTypes
<1> QED
  BY <1>3, <1>4, <1>5 DEF EvictionStep

LEMMA RequestDisk ==
    ASSUME CacheInv, NEW p \in Places, RequestStep(p)
    PROVE  DiskTypes'
<1> USE DEF CacheInv
<1>1. CASE (\E src \in Backends, k \in Keys : RouteAway(p, src, k)) \/ ResolveRestoreKey(p) \/ Restore(p)
  BY <1>1 DEF RouteAway, ResolveRestoreKey, Restore, diskVars, DiskTypes
<1>2. ASSUME NEW k \in Keys, NEW bytes \in Sizes, SaveSlot(p, k, bytes)
      PROVE  DiskTypes'
  BY <1>2 DEF SaveSlot, DiskTypes, Places
<1>3. ASSUME NEW blocks \in BOOLEAN, SaveAfter(p, blocks)
      PROVE  DiskTypes'
  <2> PICK m \in Metas : m = [size |-> size[p], blocks |-> blocks]
    BY <1>3 DEF SaveAfter, RequestInv, Metas
  <2>1. p[1] \in Backends /\ want[p] \in Keys
    BY <1>3 DEF SaveAfter, RequestInv, Places
  <2>2. meta' = [meta EXCEPT ![p[1]][want[p]] = m] /\ UNCHANGED <<file, sidecar>>
    BY <1>3 DEF SaveAfter, WriteMeta
  <2> QED
    BY <2>1, <2>2 DEF DiskTypes
<1> QED
  BY <1>1, <1>2, <1>3, RequestActions DEF RequestActs

LEMMA TransferDisk ==
    ASSUME CacheInv, NEW t \in Transfers, TransferStep(t)
    PROVE  DiskTypes'
<1> USE DEF CacheInv
<1>1. CASE ReadSource(t) \/ CopyFails(t) \/ AddTransferredEntry(t) \/ EndTransfer(t)
  BY <1>1 DEF ReadSource, CopyFails, AddTransferredEntry, EndTransfer, diskVars, DiskTypes
<1>2. ASSUME tpc[t] # "idle"
      PROVE  copy[t] \in Copies
  BY <1>2 DEF TransferInv
<1>3. CASE CopyMain(t)
  <2> PICK c \in Copies : c = copy[t]
    BY <1>2, <1>3 DEF CopyMain
  <2>1. /\ file' = [file EXCEPT ![c.dst][c.key] = file[c.src][c.key]]
        /\ UNCHANGED <<sidecar, meta>> /\ c.src \in Backends /\ c.key \in Keys
    BY <1>3 DEF CopyMain, Copies
  <2> QED
    BY <2>1 DEF DiskTypes, Copies
<1>4. CASE CopySidecars(t)
  <2> PICK c \in Copies : c = copy[t]
    BY <1>2, <1>4 DEF CopySidecars
  <2>1. sidecar' = [sidecar EXCEPT ![c.dst] = @ \cup {c.key}] /\ UNCHANGED <<file, meta>>
    BY <1>4 DEF CopySidecars
  <2> QED
    BY <2>1 DEF DiskTypes, Copies
<1>5. CASE PutMeta(t)
  <2> PICK c \in Copies : c = copy[t]
    BY <1>2, <1>5 DEF PutMeta
  <2> PICK m \in Metas : m = [size |-> c.size, blocks |-> c.blocks]
    BY <1>5 DEF PutMeta, TransferInv, Copies, Metas
  <2>1. meta' = [meta EXCEPT ![c.dst][c.key] = m] /\ UNCHANGED <<file, sidecar>>
    BY <1>5 DEF PutMeta, WriteMeta
  <2> QED
    BY <2>1 DEF DiskTypes, Copies
<1> QED
  BY <1>1, <1>3, <1>4, <1>5 DEF TransferStep


LEMMA RequestStepRequests ==
    ASSUME CacheInv, NEW p \in Places, RequestStep(p)
    PROVE  RequestInv'
<1> USE DEF CacheInv, RequestInv
<1>1. CASE \E src \in Backends, k \in Keys : RouteAway(p, src, k)
  BY <1>1 DEF RouteAway
<1>2. CASE ResolveRestoreKey(p)
  BY <1>2 DEF ResolveRestoreKey
<1>3. CASE Restore(p)
  BY <1>3 DEF Restore
<1>4. ASSUME NEW k \in Keys, NEW bytes \in Sizes, SaveSlot(p, k, bytes)
      PROVE  RequestInv'
  BY <1>4 DEF SaveSlot
<1>5. ASSUME NEW blocks \in BOOLEAN, SaveAfter(p, blocks)
      PROVE  RequestInv'
  <2>1. /\ want' = [want EXCEPT ![p] = None] /\ size' = [size EXCEPT ![p] = 0]
        /\ pc' = [pc EXCEPT ![p] = "idle"] \/ pc' = [pc EXCEPT ![p] = "evicting"]
    BY <1>5 DEF SaveAfter
  <2> QED
    BY <2>1
<1> QED
  BY <1>1, <1>2, <1>3, <1>4, <1>5, RequestActions DEF RequestActs

LEMMA UnlockInvs ==
    ASSUME CacheInv, NEW b \in Backends, Unlock(b), UNCHANGED <<want, size, copy, tracker>>
    PROVE  RequestInv' /\ TransferInv' /\ TrackerInv'
<1>1. /\ pc' = [p \in Places |-> IF p[1] = b /\ pc[p] = "evicting" THEN "idle" ELSE pc[p]]
      /\ tpc' = [t \in Transfers |->
                   IF tpc[t] = "evicting" /\ copy[t].dst = b THEN "end" ELSE tpc[t]]
  BY DEF Unlock
<1>2. RequestInv'
  BY <1>1 DEF CacheInv, RequestInv
<1>3. TransferInv'
  BY <1>1 DEF CacheInv, TransferInv
<1>4. TrackerInv'
  <2>1. Running' = Running
    BY <1>1 DEF CacheInv, TransferInv, Running
  <2>2. \A t \in Transfers : Pair(t)' = Pair(t)
    BY DEF Pair
  <2> QED
    BY <2>1, <2>2 DEF CacheInv, TrackerInv, Running
<1> QED
  BY <1>2, <1>3, <1>4

LEMMA EvictionActors ==
    ASSUME CacheInv, NEW b \in Backends, EvictionStep(b)
    PROVE  RequestInv' /\ TransferInv' /\ TrackerInv'
<1>1. CASE PruneOrphans(b) \/ EvictNext(b) \/ DeleteMeta(b)
  <2>1. UNCHANGED <<pc, want, size, tpc, copy, tracker>>
    BY <1>1 DEF PruneOrphans, EvictNext, DeleteMeta, requestVars, transferVars
  <2> QED
    BY <2>1 DEF CacheInv, RequestInv, TransferInv, TrackerInv, Running, Pair
<1>2. CASE ChooseVictims(b) /\ UNCHANGED <<pc, tpc>>
  <2>1. UNCHANGED <<pc, want, size, tpc, copy, tracker>>
    BY <1>2 DEF ChooseVictims
  <2> QED
    BY <2>1 DEF CacheInv, RequestInv, TransferInv, TrackerInv, Running, Pair
<1>3. CASE (ChooseVictims(b) \/ EvictionDone(b)) /\ Unlock(b)
  <2>1. UNCHANGED <<want, size, copy, tracker>>
    BY <1>3 DEF ChooseVictims, EvictionDone
  <2> QED
    BY <1>3, <2>1, UnlockInvs
<1> QED
  BY <1>1, <1>2, <1>3 DEF EvictionStep, ChooseVictims, EvictionDone

\* A goroutine goes on with the copy of the same key to the same backend.
LEMMA SamePair ==
    ASSUME CacheInv, NEW t \in Transfers, NEW place \in {"main", "sidecars", "meta", "register", "evicting", "end"},
           NEW c \in Copies, tpc[t] # "idle", GoTo(t, place), copy' = [copy EXCEPT ![t] = c],
           c.key = copy[t].key, c.dst = copy[t].dst, UNCHANGED tracker,
           place \in {"main", "sidecars", "meta", "register"} => c.size \in Sizes
    PROVE  TransferInv' /\ TrackerInv'
<1>1. TransferInv'
  BY DEF CacheInv, TransferInv, GoTo
<1>2. Running' = Running
  BY DEF CacheInv, TransferInv, GoTo, Running
<1>3. \A u \in Transfers : Pair(u)' = Pair(u)
  BY DEF CacheInv, TransferInv, Pair
<1> QED
  BY <1>1, <1>2, <1>3 DEF CacheInv, TrackerInv, Running

LEMMA TransferStepTransfers ==
    ASSUME CacheInv, NEW t \in Transfers, TransferStep(t)
    PROVE  TransferInv' /\ TrackerInv'
<1>1. tpc[t] # "idle"
  BY DEF TransferStep, ReadSource, CopyMain, CopySidecars, CopyFails, PutMeta, AddTransferredEntry,
         EndTransfer
<1> PICK c \in Copies : c = copy[t]
  BY <1>1 DEF CacheInv, TransferInv
<1>2. tpc[t] \in {"main", "sidecars", "meta", "register"} => c.size \in Sizes
  BY DEF CacheInv, TransferInv
<1>3. CASE ReadSource(t)
  <2>1. \E seen \in SizesSeen(c), whole \in SidecarsSeen(c) :
          /\ copy' = [copy EXCEPT ![t].size = seen, ![t].blocks = HasBlocks(c.src, c.key),
                                  ![t].sidecars = whole]
          /\ GoTo(t, IF SourceMissing(seen) THEN "end" ELSE "main")
    BY <1>3 DEF ReadSource
  <2>2. SizesSeen(c) \subseteq Sizes \cup {0}
    BY DEF SizesSeen, CacheInv, DiskTypes, Copies
  <2>3. SidecarsSeen(c) \subseteq BOOLEAN
    <3>1. (c.key \in sidecar[c.src]) \in BOOLEAN
      OBVIOUS
    <3> QED
      BY <3>1 DEF SidecarsSeen
  <2> PICK bytes \in Sizes \cup {0}, sidecars \in BOOLEAN :
        /\ copy' = [copy EXCEPT ![t].size = bytes, ![t].blocks = HasBlocks(c.src, c.key),
                                ![t].sidecars = sidecars]
        /\ GoTo(t, IF SourceMissing(bytes) THEN "end" ELSE "main")
    BY <2>1, <2>2, <2>3
  <2> PICK blocks \in BOOLEAN : blocks = HasBlocks(c.src, c.key)
    BY DEF CacheInv, DiskTypes, Copies, HasBlocks, Metas
  <2> PICK place \in {"end", "main"} : place = IF SourceMissing(bytes) THEN "end" ELSE "main"
    OBVIOUS
  <2> PICK d : d = [c EXCEPT !.size = bytes, !.blocks = blocks, !.sidecars = sidecars]
    OBVIOUS
  <2>4. d \in Copies /\ d.key = c.key /\ d.dst = c.dst /\ d.size = bytes
    BY DEF Copies
  <2>5. copy' = [copy EXCEPT ![t] = d] /\ GoTo(t, place) /\ UNCHANGED tracker
    BY <1>3 DEF ReadSource, CacheInv, TransferInv
  <2>6. place \in {"main", "sidecars", "meta", "register"} => d.size \in Sizes
    BY <2>4 DEF SourceMissing
  <2>7. place \in {"main", "sidecars", "meta", "register", "evicting", "end"}
    OBVIOUS
  <2> QED
    BY <1>1, <2>4, <2>5, <2>6, <2>7, SamePair
<1>4. CASE CopyMain(t)
  <2> PICK place \in {"sidecars", "meta"} : place = IF c.sidecars THEN "sidecars" ELSE "meta"
    OBVIOUS
  <2> PICK d : d = [c EXCEPT !.sidecars = FALSE]
    OBVIOUS
  <2>1. d \in Copies /\ d.key = c.key /\ d.dst = c.dst /\ d.size = c.size
    BY DEF Copies
  <2>2. copy' = [copy EXCEPT ![t] = d] /\ GoTo(t, place) /\ UNCHANGED tracker /\ tpc[t] = "main"
    BY <1>4 DEF CopyMain, CacheInv, TransferInv
  <2> QED
    BY <1>1, <1>2, <2>1, <2>2, SamePair
<1>5. CASE CopySidecars(t)
  <2>1. /\ copy' = [copy EXCEPT ![t] = c] /\ GoTo(t, "meta") /\ UNCHANGED tracker
        /\ tpc[t] = "sidecars"
    BY <1>5 DEF CopySidecars, CacheInv, TransferInv
  <2> QED
    BY <1>1, <1>2, <2>1, SamePair
<1>6. CASE CopyFails(t)
  <2> PICK d : d = [c EXCEPT !.size = 0, !.blocks = FALSE, !.sidecars = FALSE]
    OBVIOUS
  <2>1. d \in Copies /\ d.key = c.key /\ d.dst = c.dst
    BY DEF Copies
  <2>2. copy' = [copy EXCEPT ![t] = d] /\ GoTo(t, "end") /\ UNCHANGED tracker
    BY <1>6 DEF CopyFails, CacheInv, TransferInv
  <2> QED
    BY <1>1, <2>1, <2>2, SamePair
<1>7. CASE PutMeta(t)
  <2> PICK d : d = [c EXCEPT !.blocks = FALSE]
    OBVIOUS
  <2>1. d \in Copies /\ d.key = c.key /\ d.dst = c.dst /\ d.size = c.size
    BY DEF Copies
  <2>2. /\ copy' = [copy EXCEPT ![t] = d] /\ GoTo(t, "register") /\ UNCHANGED tracker
        /\ tpc[t] = "meta"
    BY <1>7 DEF PutMeta, CacheInv, TransferInv
  <2> QED
    BY <1>1, <1>2, <2>1, <2>2, SamePair
<1>8. CASE AddTransferredEntry(t)
  <2>1. copy' = [copy EXCEPT ![t] = c] /\ UNCHANGED tracker
    BY <1>8 DEF AddTransferredEntry, CacheInv, TransferInv
  <2>2. GoTo(t, "end") \/ GoTo(t, "evicting")
    BY <1>8 DEF AddTransferredEntry
  <2> QED
    BY <1>1, <2>1, <2>2, SamePair
<1>9. CASE EndTransfer(t)
  <2>1. /\ tpc' = [tpc EXCEPT ![t] = "idle"] /\ copy' = [copy EXCEPT ![t] = None]
        /\ tracker' = tracker \ {Pair(t)}
    BY <1>9 DEF EndTransfer, GoTo, Pair
  <2>2. TransferInv'
    BY <2>1 DEF CacheInv, TransferInv
  <2>3. Running' = Running \ {t} /\ t \in Running
    BY <1>1, <2>1 DEF CacheInv, TransferInv, Running
  <2>4. \A u \in Running \ {t} : Pair(u)' = Pair(u)
    BY <2>1 DEF CacheInv, TransferInv, Pair, Running
  <2>5. TrackerInv'
    BY <2>1, <2>3, <2>4 DEF CacheInv, TrackerInv
  <2> QED
    BY <2>2, <2>5
<1> QED
  BY <1>3, <1>4, <1>5, <1>6, <1>7, <1>8, <1>9 DEF TransferStep

LEMMA RequestStepTransfers ==
    ASSUME CacheInv, NEW p \in Places, RequestStep(p)
    PROVE  TransferInv' /\ TrackerInv'
<1>1. CASE UNCHANGED transferVars
  BY <1>1 DEF transferVars, CacheInv, TransferInv, TrackerInv, Running, Pair
<1>2. ASSUME NEW src \in Backends, NEW k \in Keys, RouteAway(p, src, k), ~ UNCHANGED transferVars
      PROVE  TransferInv' /\ TrackerInv'
  <2> PICK dst \in Backends : dst = p[1]
    BY DEF Places
  <2>1. <<k, dst>> \notin tracker /\ tracker' = tracker \cup {<<k, dst>>}
    BY <1>2 DEF RouteAway, RequestCacheTransfer, Starts
  <2> PICK c \in Copies : c = [key |-> k, src |-> src, dst |-> dst, size |-> 0,
                               blocks |-> FALSE, sidecars |-> FALSE]
    BY DEF Copies
  <2>2. PICK t \in Transfers : /\ tpc[t] = "idle" /\ tpc' = [tpc EXCEPT ![t] = "read"]
                               /\ copy' = [copy EXCEPT ![t] = c]
    BY <1>2 DEF RouteAway, RequestCacheTransfer
  <2>3. TransferInv'
    BY <2>2 DEF CacheInv, TransferInv
  <2>4. Running' = Running \cup {t} /\ t \notin Running
    BY <2>2 DEF CacheInv, TransferInv, Running
  <2>5. \A u \in Running : Pair(u)' = Pair(u)
    BY <2>2 DEF CacheInv, TransferInv, Pair, Running
  <2>6. Pair(t)' = <<k, dst>>
    BY <2>2 DEF CacheInv, TransferInv, Pair
  <2>7. TrackerInv'
    BY <2>1, <2>4, <2>5, <2>6 DEF CacheInv, TrackerInv
  <2> QED
    BY <2>3, <2>7
<1>3. CASE ~ \E src \in Backends, k \in Keys : RouteAway(p, src, k)
  <2>1. UNCHANGED transferVars
    BY <1>3, RequestActions DEF RequestActs, ResolveRestoreKey, Restore, SaveSlot, SaveAfter
  <2> QED
    BY <1>1, <2>1
<1> QED
  BY <1>1, <1>2, <1>3


-----------------------------------------------------------------------------
(* The invariant is inductive *)

LEMMA CacheInit == Init => CacheInv
<1> SUFFICES ASSUME Init PROVE CacheInv
  OBVIOUS
<1>1. RingInv
  <2>1. /\ ring = [b \in Backends |-> <<>>] /\ totalBytes = [b \in Backends |-> 0]
        /\ evict = [b \in Backends |-> Released]
    BY DEF Init
  <2>2. RingOK(<<>>, 0, Released)
    BY EmptyRing
  <2>3. <<>> \in Seq(Entries) /\ Released \in Evictions
    BY <2>2 DEF RingOK
  <2> QED
    BY <2>1, <2>2, <2>3 DEF RingInv, RingTypes
<1>2. DiskTypes
  BY DEF Init, DiskTypes
<1>3. RequestInv
  BY DEF Init, RequestInv
<1>4. TransferInv /\ TrackerInv
  BY DEF Init, TransferInv, TrackerInv, Running
<1>5. BootTypes
  BY CacheAssumption DEF Init, BootTypes
<1> QED
  BY <1>1, <1>2, <1>3, <1>4, <1>5 DEF CacheInv

LEMMA EvictionStepInv ==
    ASSUME CacheInv, NEW b \in Backends, EvictionStep(b)
    PROVE  CacheInv'
<1>1. RingInv'
  BY PruneOrphansRing, ChooseVictimsRing, EvictNextRing, EvictionDoneRing, DeleteMetaRing
     DEF CacheInv, EvictionStep
<1>2. BootTypes'
  BY DEF CacheInv, BootTypes, bootVars, EvictionStep, PruneOrphans, ChooseVictims, EvictNext,
         EvictionDone, DeleteMeta
<1> QED
  BY <1>1, <1>2, EvictionDisk, EvictionActors DEF CacheInv

LEMMA RequestStepInv ==
    ASSUME CacheInv, NEW p \in Places, RequestStep(p)
    PROVE  CacheInv'
<1>1. RingInv'
  <2>1. CASE \E blocks \in BOOLEAN : SaveAfter(p, blocks)
    BY <2>1, SaveAfterRing DEF CacheInv
  <2>2. CASE ~ \E blocks \in BOOLEAN : SaveAfter(p, blocks)
    <3>1. UNCHANGED ringVars
      BY <2>2, RequestActions DEF RequestActs, RouteAway, ResolveRestoreKey, Restore, SaveSlot
    <3> QED
      BY <3>1, RingKept DEF CacheInv
  <2> QED
    BY <2>1, <2>2
<1>2. UNCHANGED bootVars
  BY RequestActions DEF RequestActs, RouteAway, ResolveRestoreKey, Restore, SaveSlot, SaveAfter
<1>3. BootTypes'
  BY <1>2 DEF CacheInv, BootTypes, bootVars
<1> QED
  BY <1>1, <1>3, RequestDisk, RequestStepRequests, RequestStepTransfers DEF CacheInv

LEMMA TransferStepInv ==
    ASSUME CacheInv, NEW t \in Transfers, TransferStep(t)
    PROVE  CacheInv'
<1>1. RingInv'
  <2>1. CASE AddTransferredEntry(t)
    BY <2>1, AddTransferredEntryRing DEF CacheInv
  <2>2. CASE ~ AddTransferredEntry(t)
    <3>1. UNCHANGED ringVars
      BY <2>2 DEF TransferStep, ReadSource, CopyMain, CopySidecars, CopyFails, PutMeta, EndTransfer
    <3> QED
      BY <3>1, RingKept DEF CacheInv
  <2> QED
    BY <2>1, <2>2
<1>2. UNCHANGED <<requestVars, bootVars>>
  BY DEF TransferStep, ReadSource, CopyMain, CopySidecars, CopyFails, PutMeta,
         AddTransferredEntry, EndTransfer
<1>3. BootTypes' /\ RequestInv'
  BY <1>2 DEF CacheInv, BootTypes, bootVars, RequestInv, requestVars
<1> QED
  BY <1>1, <1>3, TransferDisk, TransferStepTransfers DEF CacheInv

LEMMA StartInv ==
    ASSUME CacheInv, Crash \/ StartServing \/ \E b \in Backends : InitFromDisk(b)
    PROVE  CacheInv'
<1>1. CASE Crash
  <2>1. DiskTypes'
    BY <1>1 DEF Crash, diskVars, CacheInv, DiskTypes
  <2>2. RequestInv'
    BY <1>1 DEF Crash, RequestInv
  <2>3. TransferInv' /\ TrackerInv'
    BY <1>1 DEF Crash, TransferInv, TrackerInv, Running
  <2>4. BootTypes'
    BY <1>1, CacheAssumption DEF Crash, CacheInv, BootTypes
  <2> QED
    BY <1>1, <2>1, <2>2, <2>3, <2>4, CrashRing DEF CacheInv
<1>2. CASE StartServing
  <2>1. UNCHANGED <<ringVars, requestVars, transferVars>>
    BY <1>2 DEF StartServing
  <2>2. RequestInv' /\ TransferInv' /\ TrackerInv'
    BY <2>1 DEF CacheInv, requestVars, transferVars, RequestInv, TransferInv, TrackerInv, Running,
                Pair
  <2>3. DiskTypes'
    BY <1>2 DEF StartServing, Reconcile, CacheInv, DiskTypes
  <2>4. BootTypes'
    BY <1>2 DEF StartServing, CacheInv, BootTypes
  <2> QED
    BY <2>1, <2>2, <2>3, <2>4, RingKept DEF CacheInv
<1>3. ASSUME NEW b \in Backends, InitFromDisk(b)
      PROVE  CacheInv'
  <2>1. UNCHANGED <<boot, crashes, diskVars, requestVars, transferVars>> /\ loaded' = loaded \cup {b}
    BY <1>3 DEF InitFromDisk
  <2>2. RequestInv' /\ TransferInv' /\ TrackerInv'
    BY <2>1 DEF CacheInv, requestVars, transferVars, RequestInv, TransferInv, TrackerInv, Running,
                Pair
  <2>3. DiskTypes' /\ BootTypes'
    BY <2>1 DEF CacheInv, DiskTypes, BootTypes, diskVars
  <2> QED
    BY <1>3, <2>2, <2>3, InitFromDiskRing DEF CacheInv
<1> QED
  BY <1>1, <1>2, <1>3

LEMMA CacheNext == CacheInv /\ [Next]_vars => CacheInv'
<1> SUFFICES ASSUME CacheInv, [Next]_vars PROVE CacheInv'
  OBVIOUS
<1>1. CASE UNCHANGED vars
  <2>1. UNCHANGED <<ringVars, diskVars, requestVars, transferVars, bootVars>>
    BY <1>1 DEF vars
  <2>2. RequestInv' /\ TransferInv' /\ TrackerInv'
    BY <2>1 DEF CacheInv, requestVars, transferVars, RequestInv, TransferInv, TrackerInv, Running,
                Pair
  <2>3. DiskTypes' /\ BootTypes'
    BY <2>1 DEF CacheInv, DiskTypes, BootTypes, diskVars, bootVars
  <2> QED
    BY <2>1, <2>2, <2>3, RingKept DEF CacheInv
<1>2. CASE \E b \in Backends : EvictionStep(b)
  BY <1>2, EvictionStepInv
<1>3. CASE \E p \in Places : RequestStep(p)
  BY <1>3, RequestStepInv
<1>4. CASE \E t \in Transfers : TransferStep(t)
  BY <1>4, TransferStepInv
<1>5. CASE Crash \/ StartServing \/ \E b \in Backends : InitFromDisk(b)
  BY <1>5, StartInv
<1> QED
  BY <1>1, <1>2, <1>3, <1>4, <1>5 DEF Next

LEMMA CacheInvariant == Spec => []CacheInv
  BY CacheInit, CacheNext, PTL DEF Spec

-----------------------------------------------------------------------------
(* What follows *)

\* The variables keep their types: every entry of a ring has a size of at
\* least one byte, and no total, not even after an eviction, is negative.
THEOREM CacheTypes == Spec => []TypeOK
<1>1. CacheInv => TypeOK
  BY DEF CacheInv, RingInv, RingTypes, DiskTypes, RequestInv, TransferInv, BootTypes, TrackerInv,
         TypeOK, Running, Pair, Copies
<1> QED
  BY <1>1, CacheInvariant, PTL

\* The recorded total of a backend is the sum of its ring, after every save,
\* replacement, transfer, eviction and restart.
THEOREM TotalsAreSums == Spec => []TotalIsSum
<1>1. CacheInv => TotalIsSum
  BY DEF CacheInv, RingInv, RingOK, TotalIsSum
<1> QED
  BY <1>1, CacheInvariant, PTL

\* No key is listed twice on a backend: SaveAfter replaces, and a transfer
\* looks before it appends.
THEOREM NoKeyTwice == Spec => []KeysListedOnce
<1>1. ASSUME NEW s \in Seq(Entries), Unique(s)
      PROVE  Cardinality(KeysOf(s)) = Len(s)
  <2> DEFINE h == [i \in DOMAIN s |-> s[i].key]
  <2>1. h \in Bijection(1 .. Len(s), KeysOf(s))
    BY <1>1, EntryTypes DEF KeysOf, Unique, Bijection, Injection, Surjection, IsInjective
  <2>2. ExistsBijection(1 .. Len(s), KeysOf(s)) /\ Len(s) \in Nat
    BY <2>1, EntryTypes DEF ExistsBijection
  <2> PICK n \in Nat : n = Len(s)
    BY <2>2
  <2> HIDE DEF h
  <2>3. IsFiniteSet(1 .. n) /\ Cardinality(1 .. n) = n
    <3>1. IsFiniteSet(1 .. n) /\ Cardinality(1 .. n) = IF 1 > n THEN 0 ELSE n - 1 + 1
      BY ONLY n \in Nat, FS_Interval
    <3> QED
      BY ONLY n \in Nat, <3>1
  <2> QED
    BY <2>2, <2>3, FS_Bijection
<1>2. CacheInv => KeysListedOnce
  BY <1>1 DEF CacheInv, RingInv, RingOK, KeysListedOnce
<1> QED
  BY <1>2, CacheInvariant, PTL

\* Whoever gives the ring's mutex back leaves the backend within its budget,
\* whatever the pruning freed and whichever victims the eviction chose.
THEOREM BudgetKept == Spec => []WithinBudget
<1>1. CacheInv => WithinBudget
  BY DEF CacheInv, RingInv, RingOK, WithinBudget, RingMuFree
<1> QED
  BY <1>1, CacheInvariant, PTL

\* The tracker has exactly the transfers under way, and no two goroutines
\* copy the same key to the same backend.
THEOREM TransfersTracked == Spec => []TrackerExact
<1>1. ASSUME TrackerInv
      PROVE  TrackerExact
  <2> DEFINE h == [t \in Running |-> Pair(t)]
  <2>1. h \in Bijection(Running, tracker)
    BY <1>1 DEF TrackerInv, Bijection, Injection, Surjection, IsInjective
  <2>2. IsFiniteSet(Running)
    BY CacheAssumption, FS_Subset DEF Running
  <2>3. ExistsBijection(Running, tracker)
    BY <2>1 DEF ExistsBijection
  <2>4. Cardinality(tracker) = Cardinality(Running)
    BY <2>2, <2>3, FS_Bijection
  <2> QED
    BY <1>1, <2>4 DEF TrackerExact, TrackerInv, Running, Pair
<1>2. CacheInv => TrackerExact
  BY <1>1 DEF CacheInv
<1> QED
  BY <1>2, CacheInvariant, PTL


-----------------------------------------------------------------------------
(* Metadata and ring in step on one backend *)

Ready == boot = "up" => loaded = Backends

\* An eviction that is over has removed the metadata of what it unlinked.
Cleared == \A b \in Backends : RingMuFree(b) => evict[b].unlinked = None

\* What has metadata is listed, but for the entry whose metadata goes next.
MetaListed ==
    \A b \in loaded, k \in Keys :
        meta[b][k] # None => k \in KeysOf(ring[b]) \/ evict[b].unlinked = k

NoCopies == \A t \in Transfers : tpc[t] = "idle"

ListInv == Ready /\ Cleared /\ MetaListed /\ NoCopies

LEMMA ListInit == Init => ListInv
  BY CacheAssumption DEF Init, ListInv, Ready, Cleared, MetaListed, NoCopies, RingMuFree, Released

\* Dropping an entry takes its key, and no other, out of the ring.
LEMMA DropKeys ==
    ASSUME NEW s, NEW n, NEW ev, RingOK(s, n, ev), ev.todo # <<>>,
           NEW e, e = Head(ev.todo), NEW k \in KeysOf(s), k # e.key
    PROVE  k \in KeysOf(RemoveFirst(s, e))
<1> PICK left : left = RemoveFirst(s, e)
  OBVIOUS
<1>1. /\ ev.todo \in Seq(Entries) /\ Range(ev.todo) \subseteq Range(s)
      /\ s \in Seq(Entries) /\ Unique(s)
  BY DEF RingOK, Evictions
<1>2. e \in Range(s)
  BY <1>1, TailEntries
<1>3. left \in Seq(Entries) /\ \E i \in DOMAIN s : s[i] = e /\ Without(s, i, left)
  BY <1>1, <1>2, RemoveFirstWithout
<1>4. PICK i \in DOMAIN s : s[i] = e /\ Without(s, i, left)
  BY <1>3
<1>5. Range(left) = Range(s) \ {e}
  BY <1>1, <1>3, <1>4, WithoutEntries
<1>6. PICK j \in DOMAIN s : s[j].key = k
  BY DEF KeysOf
<1>7. s[j] \in Range(left)
  BY <1>5, <1>6 DEF Range
<1> QED
  BY <1>6, <1>7 DEF Range, KeysOf

\* What a step that removes an entry and its file does to both.
Dropped(b, e) ==
    /\ e.key \in Keys
    /\ \A k \in KeysOf(ring[b]) : k = e.key \/ k \in KeysOf(ring'[b])
    /\ evict'[b].stage = evict[b].stage /\ evict'[b].unlinked = e.key
    /\ \A k \in Keys : k = e.key \/ file'[b][k] = file[b][k]
    /\ UNCHANGED <<meta, pc, want, tpc, boot, loaded>>

LEMMA DropShape ==
    ASSUME CacheInv, NEW b \in Backends, evict[b].todo # <<>>,
           DropEntry(b, Head(evict[b].todo)),
           UNCHANGED <<meta, requestVars, transferVars, bootVars>>
    PROVE  Dropped(b, Head(evict[b].todo))
<1> PICK e : e = Head(evict[b].todo)
  OBVIOUS
<1>1. RingOK(ring[b], totalBytes[b], evict[b]) /\ RingTypes /\ DiskTypes
  BY DEF CacheInv, RingInv
<1>2. e.key \in Keys
  BY <1>1, TailEntries, CacheAssumption DEF RingOK, Evictions, Entries
<1>3. /\ ring'[b] = RemoveFirst(ring[b], e)
      /\ evict'[b].stage = evict[b].stage /\ evict'[b].unlinked = e.key
      /\ \A k \in Keys : k = e.key \/ file'[b][k] = file[b][k]
      /\ UNCHANGED <<meta, pc, want, tpc, boot, loaded>>
  BY <1>1, <1>2 DEF DropEntry, CacheDelete, RingTypes, DiskTypes, Evictions, requestVars,
     transferVars, bootVars
<1>4. \A k \in KeysOf(ring[b]) : k = e.key \/ k \in KeysOf(ring'[b])
  BY <1>1, <1>3, DropKeys
<1> QED
  BY <1>2, <1>3, <1>4 DEF Dropped

LEMMA ListDrop ==
    ASSUME OneHome, CacheInv, ListInv, NEW b \in Backends, ~ RingMuFree(b),
           evict[b].unlinked = None, NEW e, Dropped(b, e)
    PROVE  ListInv'
<1>1. (\A c \in Backends : c = b) /\ loaded \subseteq Backends
  BY DEF CacheInv, BootTypes, OneHome
<1>2. Ready' /\ Cleared' /\ NoCopies'
  BY <1>1 DEF Dropped, ListInv, Ready, Cleared, NoCopies, RingMuFree
<1>3. MetaListed'
  <2>1. ASSUME b \in loaded, NEW k \in Keys, meta[b][k] # None
        PROVE  k = e.key \/ k \in KeysOf(ring'[b])
    BY <2>1, CacheAssumption DEF Dropped, ListInv, MetaListed
  <2> QED
    BY <1>1, <2>1 DEF Dropped, MetaListed
<1> QED
  BY <1>2, <1>3 DEF ListInv

\* A step that leaves the disk and the ring alone, and does not give back RingMu.
LEMMA ListStill ==
    ASSUME OneHome, CacheInv, ListInv, NEW b \in Backends, ~ RingMuFree(b),
           NEW ev, evict' = [evict EXCEPT ![b] = ev],
           ev.unlinked = evict[b].unlinked, ev.stage # "free",
           UNCHANGED <<meta, ring, tpc, boot, loaded>>
    PROVE  ListInv'
<1>1. /\ evict'[b].unlinked = evict[b].unlinked /\ evict'[b].stage # "free"
      /\ \A c \in Backends : c = b
      /\ loaded \subseteq Backends
  BY DEF CacheInv, RingInv, RingTypes, BootTypes, OneHome
<1> QED
  BY <1>1 DEF ListInv, Ready, Cleared, MetaListed, NoCopies, RingMuFree

\* The eviction ends.
LEMMA ListUnlock ==
    ASSUME OneHome, CacheInv, ListInv, NEW b \in Backends, evict[b].unlinked = None,
           Unlock(b), UNCHANGED <<meta, boot, loaded>>
    PROVE  ListInv'
<1>1. /\ evict'[b] = Released /\ UNCHANGED ring
      /\ \A c \in Backends : c = b
      /\ loaded \subseteq Backends
  BY DEF Unlock, CacheInv, RingInv, RingTypes, BootTypes, OneHome
<1>2. NoCopies'
  BY DEF ListInv, NoCopies, Unlock
<1>3. Ready' /\ Cleared' /\ MetaListed'
  BY <1>1, CacheAssumption DEF ListInv, Ready, Cleared, MetaListed, Released
<1> QED
  BY <1>2, <1>3 DEF ListInv

\* deleteEntry removes the metadata of the backend itself: there is no other.
LEMMA MetaGone ==
    ASSUME OneHome, CacheInv, NEW b \in Backends, NEW k \in Keys, DeleteMetaFile(k)
    PROVE  meta'[b][k] = None /\ \A j \in Keys : j # k => meta'[b][j] = meta[b][j]
<1> DEFINE I == {i \in 1 .. Len(DirOrder) : meta[DirOrder[i]][k] # None}
<1>1. /\ meta[b] \in [Keys -> Metas \cup {None}]
      /\ \A c \in Backends : c = b
  BY DEF CacheInv, DiskTypes, OneHome
<1>2. meta'[b] = IF b \in FirstWithMeta(k) THEN [meta[b] EXCEPT ![k] = None] ELSE meta[b]
  BY DEF DeleteMetaFile
<1>3. CASE meta[b][k] = None
  BY <1>1, <1>2, <1>3
<1>4. CASE meta[b][k] # None
  <2>1. \A i \in 1 .. Len(DirOrder) : DirOrder[i] = b
    BY <1>1, CacheAssumption, ElementOfSeq
  <2>2. PICK i \in 1 .. Len(DirOrder) : DirOrder[i] = b
    <3>1. DOMAIN DirOrder = 1 .. Len(DirOrder)
      BY CacheAssumption, LenProperties
    <3> QED
      BY <3>1 DEF Backends, Range
  <2>3. I \in SUBSET Nat /\ I # {}
    BY <1>4, <2>2
  <2>4. PICK m \in I : \A j \in I : m <= j
    <3> HIDE DEF I
    <3> QED
      BY <2>3, LeastNumber
  <2>5. Min(I) \in I
    BY <2>4 DEF Min
  <2>6. FirstWithMeta(k) = {b}
    <3>1. SelectInSeq(DirOrder, LAMBDA c : meta[c][k] # None) = Min(I)
      BY <2>3 DEF SelectInSeq
    <3>2. Min(I) # 0 /\ DirOrder[Min(I)] = b
      BY <2>1, <2>5
    <3> QED
      BY <3>1, <3>2 DEF FirstWithMeta
  <2> QED
    BY <1>1, <1>2, <2>6
<1> QED
  BY <1>3, <1>4

LEMMA ListDeleteMeta ==
    ASSUME OneHome, CacheInv, ListInv, NEW b \in Backends, DeleteMeta(b)
    PROVE  ListInv'
<1> PICK k : k = evict[b].unlinked
  OBVIOUS
<1>1. /\ k \in Keys /\ DeleteMetaFile(k) /\ \A c \in Backends : c = b
      /\ loaded \subseteq Backends
  BY DEF DeleteMeta, CacheInv, RingInv, RingTypes, Evictions, BootTypes, OneHome
<1>2. meta'[b][k] = None /\ \A j \in Keys : j # k => meta'[b][j] = meta[b][j]
  BY <1>1, MetaGone
<1>3. /\ evict'[b].stage = evict[b].stage /\ evict'[b].unlinked = None
      /\ UNCHANGED <<ring, tpc, boot, loaded>>
  BY DEF DeleteMeta, CacheInv, RingInv, RingTypes, Evictions, transferVars, bootVars
<1> QED
  BY <1>1, <1>2, <1>3 DEF ListInv, Ready, Cleared, MetaListed, NoCopies, RingMuFree

\* The steps of an eviction, by what they do.
Evicts(b) ==
    \/ /\ ~ RingMuFree(b) /\ evict[b].unlinked = None
       /\ \E e : Dropped(b, e)
    \/ /\ ~ RingMuFree(b)
       /\ \E ev : /\ evict' = [evict EXCEPT ![b] = ev]
                  /\ ev.unlinked = evict[b].unlinked /\ ev.stage # "free"
       /\ UNCHANGED <<file, meta, ring, pc, want, tpc, boot, loaded>>
    \/ evict[b].unlinked = None /\ Unlock(b) /\ UNCHANGED <<file, meta, want, boot, loaded>>
    \/ DeleteMeta(b)

LEMMA EvictionKinds ==
    ASSUME CacheInv, NEW b \in Backends, EvictionStep(b)
    PROVE  Evicts(b)
<1>1. evict \in [Backends -> Evictions] /\ evict[b] \in Evictions
  BY DEF CacheInv, RingInv, RingTypes
<1>2. CASE PruneOrphans(b) \/ EvictNext(b)
  <2>1. /\ ~ RingMuFree(b) /\ evict[b].unlinked = None /\ evict[b].todo # <<>>
        /\ UNCHANGED <<meta, requestVars, transferVars, bootVars>>
        /\ KeepEntry(b) \/ DropEntry(b, Head(evict[b].todo))
    BY <1>2 DEF PruneOrphans, EvictNext, RingMuFree
  <2>2. CASE KeepEntry(b)
    <3> PICK ev : ev = [evict[b] EXCEPT !.todo = Tail(@)]
      OBVIOUS
    <3>1. ev.unlinked = evict[b].unlinked /\ ev.stage = evict[b].stage
      BY <1>1 DEF Evictions
    <3>2. evict' = [evict EXCEPT ![b] = ev]
      BY <1>1, <2>2 DEF KeepEntry
    <3>3. UNCHANGED <<file, meta, ring, pc, want, tpc, boot, loaded>>
      BY <2>1, <2>2 DEF KeepEntry, requestVars, transferVars, bootVars
    <3> QED
      BY <2>1, <3>1, <3>2, <3>3 DEF Evicts, RingMuFree
  <2>3. CASE DropEntry(b, Head(evict[b].todo))
    <3>1. Dropped(b, Head(evict[b].todo))
      BY <2>1, <2>3, DropShape
    <3> QED
      BY <2>1, <3>1 DEF Evicts
  <2> QED
    BY <2>1, <2>2, <2>3
<1>3. CASE (ChooseVictims(b) \/ EvictionDone(b)) /\ Unlock(b)
  BY <1>3 DEF Evicts, ChooseVictims, EvictionDone, diskVars, bootVars
<1>4. CASE ChooseVictims(b) /\ ~ Unlock(b)
  <2>1. PICK V : evict' = [evict EXCEPT ![b].stage = "evict", ![b].todo = ring[b], ![b].victims = V]
    BY <1>4 DEF ChooseVictims
  <2> PICK ev : ev = [evict[b] EXCEPT !.stage = "evict", !.todo = ring[b], !.victims = V]
    OBVIOUS
  <2>2. ev.unlinked = evict[b].unlinked /\ ev.stage = "evict"
    BY <1>1 DEF Evictions
  <2>3. evict' = [evict EXCEPT ![b] = ev]
    BY <1>1, <2>1
  <2>4. ~ RingMuFree(b) /\ UNCHANGED <<file, meta, ring, pc, want, tpc, boot, loaded>>
    BY <1>4 DEF ChooseVictims, RingMuFree, diskVars, bootVars
  <2> QED
    BY <2>2, <2>3, <2>4 DEF Evicts
<1>5. CASE DeleteMeta(b)
  BY <1>5 DEF Evicts
<1> QED
  BY <1>2, <1>3, <1>4, <1>5 DEF EvictionStep, EvictionDone

LEMMA ListEviction ==
    ASSUME OneHome, CacheInv, ListInv, NEW b \in Backends, EvictionStep(b)
    PROVE  ListInv'
<1>1. Evicts(b)
  BY EvictionKinds
<1> QED
  BY <1>1, ListDrop, ListStill, ListUnlock, ListDeleteMeta DEF Evicts

\* SaveAfter writes the metadata of a key and lists it.
Saves(p, b, k) ==
    /\ k = want[p] /\ RingMuFree(b) /\ pc[p] = "saved"
    /\ KeysOf(ring[b]) \cup {k} \subseteq KeysOf(ring'[b])
    /\ evict'[b] = Released \/ evict'[b].stage = "prune"
    /\ evict'[b].unlinked = None
    /\ \A j \in Keys : j # k => meta'[b][j] = meta[b][j]
    /\ pc'[p] = IF evict'[b] = Released THEN "idle" ELSE "evicting"
    /\ UNCHANGED <<file, tpc, boot, loaded>>

LEMMA SaveShape ==
    ASSUME CacheInv, NEW p \in Places, NEW blocks, SaveAfter(p, blocks), NEW b, b = p[1]
    PROVE  want[p] \in Keys /\ Saves(p, b, want[p])
<1>0. b \in Backends
  BY DEF Places
<1> PICK k \in Keys : k = want[p]
  BY DEF SaveAfter, CacheInv, RequestInv
<1> PICK e : e = [key |-> k, size |-> size[p]]
  OBVIOUS
<1> PICK n : n = totalBytes[b] - SizeIn(ring[b], k) + size[p]
  OBVIOUS
<1> PICK s : s = Place(ring[b], e)
  OBVIOUS
<1>1. /\ pc[p] = "saved" /\ RingMuFree(b) /\ SetRing(b, s, n)
      /\ pc' = [pc EXCEPT ![p] = IF evict'[b] = Released THEN "idle" ELSE "evicting"]
      /\ meta' = [meta EXCEPT ![b][k] = [size |-> size[p], blocks |-> blocks]]
      /\ UNCHANGED <<file, tpc, boot, loaded>>
  BY DEF SaveAfter, WriteMeta, transferVars, bootVars
<1>2. RingTypes /\ DiskTypes /\ pc \in [Places -> {"idle", "resolve", "restore", "saved", "evicting"}]
  BY DEF CacheInv, RingInv, RequestInv
<1>3. evict'[b] = EvictIfNeeded(s, n) /\ ring'[b] = s
  BY <1>0, <1>1, <1>2 DEF SetRing, RingTypes
<1>4. /\ evict'[b] = Released \/ evict'[b].stage = "prune"
      /\ evict'[b].unlinked = None
  BY <1>3 DEF EvictIfNeeded, Released
<1>5. pc'[p] = IF evict'[b] = Released THEN "idle" ELSE "evicting"
  BY <1>1, <1>2
<1>6. KeysOf(ring[b]) \cup {k} \subseteq KeysOf(s)
  <2> PICK old : old = ring[b]
    OBVIOUS
  <2>1. DOMAIN old = 1 .. Len(old) /\ Len(old) \in Nat /\ old \in Seq(Entries)
    BY <1>0, <1>2, EntryTypes DEF RingTypes
  <2>2. CASE k \in KeysOf(old)
    BY <2>2 DEF Place, KeysOf
  <2>3. CASE k \notin KeysOf(old)
    <3>1. s = Append(old, e)
      BY <2>3 DEF Place
    <3>2. e \in Entries
      BY <1>1 DEF CacheInv, RequestInv, Entries
    <3>3. /\ DOMAIN s = 1 .. Len(old) + 1
          /\ \A i \in 1 .. Len(old) : s[i] = old[i]
          /\ s[Len(old) + 1] = e
      BY <2>1, <3>1, <3>2, AppendProperties
    <3> QED
      BY <2>1, <3>3 DEF KeysOf
  <2> QED
    BY <2>2, <2>3
<1>7. \A j \in Keys : j # k => meta'[b][j] = meta[b][j]
  BY <1>0, <1>1, <1>2 DEF DiskTypes
<1> QED
  BY <1>1, <1>3, <1>4, <1>5, <1>6, <1>7 DEF Saves

LEMMA ListSave ==
    ASSUME OneHome, CacheInv, ListInv, NEW b \in Backends, NEW p, NEW k \in Keys, Saves(p, b, k)
    PROVE  ListInv'
<1>1. (\A c \in Backends : c = b) /\ loaded \subseteq Backends
  BY DEF CacheInv, BootTypes, OneHome
<1>2. evict[b].unlinked = None
  BY DEF Saves, ListInv, Cleared
<1>3. Ready' /\ Cleared' /\ NoCopies'
  BY <1>1 DEF Saves, ListInv, Ready, Cleared, NoCopies
<1>4. MetaListed'
  <2>1. ASSUME b \in loaded, NEW j \in Keys, meta'[b][j] # None
        PROVE  j \in KeysOf(ring'[b])
    BY <1>2, <2>1, CacheAssumption DEF Saves, ListInv, MetaListed
  <2> QED
    BY <1>1, <2>1 DEF Saves, MetaListed
<1> QED
  BY <1>3, <1>4 DEF ListInv

\* With one backend there is nowhere to send a cache.
LEMMA NoRouteAway ==
    ASSUME OneHome, NEW p \in Places, NEW src \in Backends, NEW k
    PROVE  ~ RouteAway(p, src, k)
  BY DEF OneHome, RouteAway, Places

LEMMA ListRequest ==
    ASSUME OneHome, CacheInv, ListInv, NEW p \in Places, RequestStep(p)
    PROVE  ListInv'
<1>1. CASE ResolveRestoreKey(p) \/ Restore(p) \/ \E k \in Keys, bytes \in Sizes : SaveSlot(p, k, bytes)
  <2>1. UNCHANGED <<meta, ring, evict, tpc, boot, loaded>>
    BY <1>1 DEF ResolveRestoreKey, Restore, SaveSlot, diskVars, ringVars, transferVars, bootVars
  <2> QED
    BY <2>1 DEF ListInv, Ready, Cleared, MetaListed, NoCopies, RingMuFree
<1>2. ASSUME NEW blocks \in BlocksKnown, SaveAfter(p, blocks)
      PROVE  ListInv'
  <2> PICK b \in Backends : b = p[1]
    BY DEF Places
  <2> QED
    BY <1>2, SaveShape, ListSave
<1> QED
  BY <1>1, <1>2, NoRouteAway DEF RequestStep

\* The ring that InitFromDisk builds lists whatever has metadata.
LEMMA ListInitFromDisk ==
    ASSUME OneHome, CacheInv, ListInv, NEW b \in Backends, InitFromDisk(b)
    PROVE  ListInv'
<1> PICK K \in SUBSET Keys : K = {k \in Keys : meta[b][k] # None}
  OBVIOUS
<1>a. PICK ks : ks = SetToSeq(K)
  OBVIOUS
<1>b. PICK s : s = [i \in DOMAIN ks |-> [key |-> ks[i], size |-> meta[b][ks[i]].size]]
  OBVIOUS
<1>c. PICK n : n = BytesOf(s)
  OBVIOUS
<1>1. /\ boot = "load" /\ loaded' = loaded \cup {b} /\ SetRing(b, s, n)
      /\ UNCHANGED <<meta, tpc, boot>>
  BY <1>a, <1>b, <1>c DEF InitFromDisk, diskVars, transferVars
<1>2. RingTypes /\ loaded \subseteq Backends /\ \A c \in Backends : c = b
  BY DEF CacheInv, RingInv, BootTypes, OneHome
<1>3. evict'[b] = EvictIfNeeded(s, n) /\ ring'[b] = s
  BY <1>1, <1>2 DEF SetRing, RingTypes
<1>4. evict'[b].unlinked = None
  BY <1>3 DEF EvictIfNeeded, Released
<1>5. Ready' /\ Cleared' /\ NoCopies'
  BY <1>1, <1>2, <1>4 DEF ListInv, Ready, Cleared, NoCopies
<1>6. K \subseteq KeysOf(s)
  <2>1. Range(ks) = K
    <3>1. IsFiniteSet(K)
      BY CacheAssumption, FS_Subset
    <3> PICK m \in Nat : m = Cardinality(K)
      BY <3>1, FS_CardinalityType
    <3> QED
      BY <1>a, <3>1, SetListed
  <2> QED
    BY <1>b, <2>1 DEF Range, KeysOf
<1>7. MetaListed'
  BY <1>1, <1>2, <1>3, <1>6 DEF MetaListed
<1> QED
  BY <1>5, <1>7 DEF ListInv

LEMMA ListStart ==
    ASSUME OneHome, CacheInv, ListInv,
           Crash \/ StartServing \/ \E b \in Backends : InitFromDisk(b)
    PROVE  ListInv'
<1>1. CASE Crash
  BY <1>1, CacheAssumption DEF Crash, ListInv, Ready, Cleared, MetaListed, NoCopies, RingMuFree,
     Released
<1>2. CASE StartServing
  <2>1. /\ loaded = Backends
        /\ \A b \in Backends, k \in Keys :
             meta'[b][k] # None => meta'[b][k] = meta[b][k] /\ file[b][k] # 0
        /\ UNCHANGED <<ring, evict, tpc, loaded>>
    BY <1>2 DEF StartServing, Reconcile, ringVars, transferVars
  <2> QED
    BY <2>1 DEF ListInv, Ready, Cleared, MetaListed, NoCopies, RingMuFree
<1> QED
  BY <1>1, <1>2, ListInitFromDisk

LEMMA NoTransferSteps == ASSUME NoCopies, NEW t \in Transfers PROVE ~ TransferStep(t)
  BY DEF NoCopies, TransferStep, ReadSource, CopyMain, CopySidecars, CopyFails, PutMeta,
     AddTransferredEntry, EndTransfer

LEMMA ListNext == ASSUME OneHome PROVE CacheInv /\ ListInv /\ [Next]_vars => ListInv'
<1> SUFFICES ASSUME CacheInv, ListInv, [Next]_vars PROVE ListInv'
  OBVIOUS
<1>1. CASE UNCHANGED vars
  <2>1. UNCHANGED <<meta, ring, evict, tpc, boot, loaded>>
    BY <1>1 DEF vars, diskVars, ringVars, transferVars, bootVars
  <2> QED
    BY <2>1 DEF ListInv, Ready, Cleared, MetaListed, NoCopies, RingMuFree
<1>2. CASE \E b \in Backends : EvictionStep(b)
  BY <1>2, ListEviction
<1>3. CASE \E p \in Places : RequestStep(p)
  BY <1>3, ListRequest
<1>4. CASE \E t \in Transfers : TransferStep(t)
  BY <1>4, NoTransferSteps DEF ListInv
<1>5. CASE Crash \/ StartServing \/ \E b \in Backends : InitFromDisk(b)
  BY <1>5, ListStart
<1> QED
  BY <1>1, <1>2, <1>3, <1>4, <1>5 DEF Next

LEMMA ListInvariant == ASSUME OneHome PROVE Spec => []ListInv
<1>1. CacheInv /\ ListInv /\ [Next]_vars => ListInv'
  BY ListNext
<1> QED
  BY <1>1, ListInit, CacheInvariant, PTL DEF Spec

\* The half of MetaInSync that holds with one backend and any number of slots:
\* what has metadata is in the ring, and so counts towards the budget, whenever
\* nobody is evicting or starting.
MetaInRing ==
    boot = "up" /\ (\A b \in Backends : RingMuFree(b)) =>
        \A b \in Backends, k \in Keys : meta[b][k] # None => k \in KeysOf(ring[b])

\* With one backend no cache escapes the budget: SaveAfter writes metadata and
\* entry under RingMu, deleteEntry removes both under it, InitFromDisk lists all.
THEOREM MetaStaysListed ==
    ASSUME OneHome
    PROVE  Spec => []MetaInRing
<1>1. ListInv => MetaInRing
  BY CacheAssumption DEF ListInv, Ready, Cleared, MetaListed, MetaInRing
<1> QED
  BY <1>1, ListInvariant, PTL

-----------------------------------------------------------------------------
(* Files, metadata and ring in step, where one slot saves *)

\* While the proxy serves, the request holds the mutex when it is held at all.
Holders ==
    /\ boot = "load" => \A p \in Places : pc[p] = "idle"
    /\ boot = "up" =>
         \A b \in Backends : RingMuFree(b) \/ \E p \in Places : p[1] = b /\ pc[p] = "evicting"

\* A saved file stays until its metadata is written.
SavedThere == \A p \in Places : pc[p] = "saved" => file[p[1]][want[p]] # 0

MetaFiled ==
    boot = "up" =>
        \A b \in Backends, k \in Keys :
            meta[b][k] # None => file[b][k] # 0 \/ evict[b].unlinked = k

SaverInv == Holders /\ SavedThere /\ MetaFiled

\* ListInv is an invariant by itself.
SyncInv == ListInv /\ SaverInv

LEMMA SaverInit == Init => SaverInv
  BY DEF Init, SaverInv, Holders, SavedThere, MetaFiled, RingMuFree, Released

LEMMA OneOfAll ==
    ASSUME OneSaver, CacheInv
    PROVE  /\ OneHome /\ \A p, q \in Places : p = q
           /\ boot \in {"load", "up"} /\ loaded \subseteq Backends
           /\ RingTypes /\ DiskTypes
           /\ pc \in [Places -> {"idle", "resolve", "restore", "saved", "evicting"}]
           /\ \A p \in Places : p[1] \in Backends
  BY DEF OneSaver, CacheInv, BootTypes, RingInv, RequestInv, Places

LEMMA SaverEviction ==
    ASSUME OneSaver, CacheInv, SyncInv, NEW b \in Backends, EvictionStep(b)
    PROVE  SaverInv'
<1>1. /\ \A c \in Backends : c = b
      /\ boot \in {"load", "up"} /\ RingTypes
      /\ \A p, q \in Places : p = q
  BY OneOfAll DEF OneHome
<1>2. ~ RingMuFree(b) => \A p \in Places : pc[p] # "saved"
  BY <1>1 DEF SyncInv, SaverInv, Holders
<1>3. ASSUME NEW e, Dropped(b, e), ~ RingMuFree(b), evict[b].unlinked = None
      PROVE  SaverInv'
  <2>1. Holders'
    BY <1>1, <1>3 DEF Dropped, SyncInv, SaverInv, Holders, RingMuFree
  <2>2. SavedThere'
    BY <1>2, <1>3 DEF Dropped, SavedThere
  <2>3. MetaFiled'
    <3>1. ASSUME boot = "up", NEW k \in Keys, meta[b][k] # None
          PROVE  file[b][k] # 0
      BY <1>3, <3>1, CacheAssumption DEF SyncInv, SaverInv, MetaFiled
    <3> QED
      BY <1>1, <1>3, <3>1 DEF Dropped, MetaFiled
  <2> QED
    BY <2>1, <2>2, <2>3 DEF SaverInv
<1>4. ASSUME NEW ev, evict' = [evict EXCEPT ![b] = ev],
             ev.unlinked = evict[b].unlinked, ev.stage # "free", ~ RingMuFree(b),
             UNCHANGED <<file, meta, ring, pc, want, tpc, boot, loaded>>
      PROVE  SaverInv'
  <2>1. evict'[b].unlinked = evict[b].unlinked /\ evict'[b].stage # "free"
    BY <1>1, <1>4 DEF RingTypes
  <2>2. Holders'
    BY <1>1, <1>4, <2>1 DEF SyncInv, SaverInv, Holders, RingMuFree
  <2>3. SavedThere' /\ MetaFiled'
    BY <1>1, <1>4, <2>1 DEF SyncInv, SaverInv, SavedThere, MetaFiled
  <2> QED
    BY <2>2, <2>3 DEF SaverInv
<1>5. CASE /\ evict[b].unlinked = None /\ Unlock(b)
           /\ UNCHANGED <<file, meta, want, boot, loaded>>
  <2>1. evict'[b] = Released
    BY <1>1, <1>5 DEF Unlock, RingTypes
  <2>2. \A p \in Places : pc'[p] = pc[p] \/ pc'[p] = "idle"
    BY <1>5 DEF Unlock
  <2>3. Holders'
    BY <1>1, <1>5, <2>1, <2>2 DEF SyncInv, SaverInv, Holders, RingMuFree, Released
  <2>4. SavedThere'
    BY <1>5, <2>2 DEF SyncInv, SaverInv, SavedThere
  <2>5. MetaFiled'
    BY <1>1, <1>5, <2>1, CacheAssumption DEF SyncInv, SaverInv, MetaFiled, Released
  <2> QED
    BY <2>3, <2>4, <2>5 DEF SaverInv
<1>6. CASE DeleteMeta(b)
  <2> PICK k : k = evict[b].unlinked
    OBVIOUS
  <2>1. k \in Keys /\ DeleteMetaFile(k)
    BY <1>1, <1>6 DEF DeleteMeta, RingTypes, Evictions
  <2>2. meta'[b][k] = None /\ \A j \in Keys : j # k => meta'[b][j] = meta[b][j]
    BY <2>1, MetaGone, OneOfAll
  <2>3. /\ evict'[b].stage = evict[b].stage /\ evict'[b].unlinked = None
        /\ UNCHANGED <<file, pc, want, boot>>
    BY <1>1, <1>6 DEF DeleteMeta, RingTypes, Evictions, requestVars, bootVars
  <2>4. Holders'
    BY <1>1, <2>3 DEF SyncInv, SaverInv, Holders, RingMuFree
  <2> QED
    BY <1>1, <2>2, <2>3, <2>4 DEF SyncInv, SaverInv, SavedThere, MetaFiled
<1> QED
  BY <1>3, <1>4, <1>5, <1>6, EvictionKinds DEF Evicts

LEMMA SaverSave ==
    ASSUME OneSaver, CacheInv, SyncInv, NEW p \in Places, NEW b, b = p[1], NEW k \in Keys,
           Saves(p, b, k)
    PROVE  SaverInv'
<1>1. /\ \A c \in Backends : c = b
      /\ \A q \in Places : q = p
      /\ boot \in {"load", "up"}
  BY OneOfAll DEF OneHome
<1>2. boot = "up" /\ evict[b].unlinked = None
  BY <1>1, OneOfAll DEF Saves, SyncInv, SaverInv, Holders, ListInv, Cleared
<1>3. Holders'
  BY <1>1, <1>2 DEF Saves, Holders, RingMuFree, Released
<1>4. SavedThere'
  BY <1>1 DEF Saves, SavedThere
<1>5. MetaFiled'
  <2>1. file[b][k] # 0
    BY DEF Saves, SyncInv, SaverInv, SavedThere
  <2>2. ASSUME NEW j \in Keys, meta'[b][j] # None
        PROVE  file[b][j] # 0
    BY <1>2, <2>1, <2>2, OneOfAll, CacheAssumption DEF Saves, SyncInv, SaverInv, MetaFiled
  <2> QED
    BY <1>1, <2>2 DEF Saves, MetaFiled
<1> QED
  BY <1>3, <1>4, <1>5 DEF SaverInv

LEMMA SaverRequest ==
    ASSUME OneSaver, CacheInv, SyncInv, NEW p \in Places, RequestStep(p)
    PROVE  SaverInv'
<1>1. /\ \A c \in Backends : c = p[1]
      /\ \A q \in Places : q = p
      /\ OneHome /\ p[1] \in Backends /\ DiskTypes
      /\ boot \in {"load", "up"}
      /\ pc \in [Places -> {"idle", "resolve", "restore", "saved", "evicting"}]
  BY OneOfAll DEF OneHome
<1>2. CASE ResolveRestoreKey(p) \/ Restore(p)
  <2>1. /\ pc[p] \in {"resolve", "restore"} /\ pc'[p] \in {"restore", "idle"}
        /\ UNCHANGED <<file, meta, evict, boot>>
    BY <1>1, <1>2 DEF ResolveRestoreKey, Restore, diskVars, ringVars, bootVars
  <2>2. Holders' /\ SavedThere'
    BY <1>1, <2>1 DEF SyncInv, SaverInv, Holders, SavedThere, RingMuFree
  <2>3. MetaFiled'
    BY <2>1 DEF SyncInv, SaverInv, MetaFiled
  <2> QED
    BY <2>2, <2>3 DEF SaverInv
<1>3. ASSUME NEW k \in Keys, NEW bytes \in Sizes, SaveSlot(p, k, bytes)
      PROVE  SaverInv'
  <2>1. pc[p] = "idle" /\ pc'[p] = "saved" /\ boot = "up" /\ UNCHANGED <<meta, evict, boot>>
    BY <1>1, <1>3 DEF SaveSlot, ringVars, bootVars
  <2>2. /\ bytes # 0 /\ file'[p[1]][k] = bytes
        /\ \A j \in Keys : file'[p[1]][j] = 0 => file[p[1]][j] = 0
    <3>1. file' = [file EXCEPT ![p[1]][k] = bytes]
      BY <1>3 DEF SaveSlot
    <3> QED
      BY <1>1, <3>1, CacheAssumption DEF DiskTypes
  <2>3. Holders'
    BY <1>1, <2>1 DEF SyncInv, SaverInv, Holders, RingMuFree
  <2>4. want'[p] = k
    BY <1>3 DEF SaveSlot, CacheInv, RequestInv
  <2>5. SavedThere'
    BY <1>1, <2>2, <2>4 DEF SavedThere
  <2>6. MetaFiled'
    BY <1>1, <2>1, <2>2 DEF SyncInv, SaverInv, MetaFiled
  <2> QED
    BY <2>3, <2>5, <2>6 DEF SaverInv
<1>4. ASSUME NEW blocks \in BlocksKnown, SaveAfter(p, blocks)
      PROVE  SaverInv'
  <2> PICK b \in Backends : b = p[1]
    BY <1>1
  <2> QED
    BY <1>4, SaveShape, SaverSave
<1> QED
  BY <1>1, <1>2, <1>3, <1>4, NoRouteAway DEF RequestStep

LEMMA SaverStart ==
    ASSUME SyncInv, Crash \/ StartServing \/ \E b \in Backends : InitFromDisk(b)
    PROVE  SaverInv'
<1>1. CASE Crash
  BY <1>1 DEF Crash, SaverInv, Holders, SavedThere, MetaFiled
<1>2. CASE StartServing
  <2>1. /\ boot' = "up" /\ \A b \in Backends : RingMuFree(b)
        /\ \A b \in Backends, k \in Keys :
             meta'[b][k] # None => meta'[b][k] = meta[b][k] /\ file[b][k] # 0
        /\ UNCHANGED <<file, evict, pc, want>>
    BY <1>2 DEF StartServing, Reconcile, ringVars, requestVars
  <2> QED
    BY <2>1 DEF SyncInv, SaverInv, Holders, SavedThere, MetaFiled, RingMuFree
<1>3. ASSUME NEW b \in Backends, InitFromDisk(b)
      PROVE  SaverInv'
  <2>1. boot = "load" /\ UNCHANGED <<file, meta, pc, want, boot>>
    BY <1>3 DEF InitFromDisk, diskVars, requestVars
  <2> QED
    BY <2>1 DEF SyncInv, SaverInv, Holders, SavedThere, MetaFiled
<1> QED
  BY <1>1, <1>2, <1>3

LEMMA SaverNext == ASSUME OneSaver PROVE CacheInv /\ SyncInv /\ [Next]_vars => SaverInv'
<1> SUFFICES ASSUME CacheInv, SyncInv, [Next]_vars PROVE SaverInv'
  OBVIOUS
<1>1. CASE UNCHANGED vars
  <2>1. UNCHANGED <<file, meta, evict, pc, want, boot>>
    BY <1>1 DEF vars, diskVars, ringVars, requestVars, bootVars
  <2> QED
    BY <2>1 DEF SyncInv, SaverInv, Holders, SavedThere, MetaFiled, RingMuFree
<1>2. CASE \E b \in Backends : EvictionStep(b)
  BY <1>2, SaverEviction
<1>3. CASE \E p \in Places : RequestStep(p)
  BY <1>3, SaverRequest
<1>4. CASE \E t \in Transfers : TransferStep(t)
  BY <1>4, NoTransferSteps DEF SyncInv, ListInv
<1>5. CASE Crash \/ StartServing \/ \E b \in Backends : InitFromDisk(b)
  BY <1>5, SaverStart
<1> QED
  BY <1>1, <1>2, <1>3, <1>4, <1>5 DEF Next

\* Where one slot saves, what has metadata has its file and its entry whenever
\* nobody is at work, through evictions and crashes between any two file
\* operations: no file is saved under a running eviction, and a restart lists
\* what has metadata and then reconciles it with the files.
THEOREM MetaStaysInSync ==
    ASSUME OneSaver
    PROVE  Spec => []MetaInSync
<1>1. SyncInv => MetaInSync
  BY CacheAssumption DEF SyncInv, ListInv, Ready, Cleared, MetaListed, SaverInv, MetaFiled, MetaInSync
<1>2. CacheInv /\ SyncInv /\ [Next]_vars => SaverInv'
  BY SaverNext
<1>3. Spec => []ListInv
  BY ListInvariant DEF OneSaver
<1>4. ListInv /\ SaverInv <=> SyncInv
  BY DEF SyncInv
<1> QED
  BY <1>1, <1>2, <1>3, <1>4, SaverInit, CacheInvariant, PTL DEF Spec
=============================================================================
