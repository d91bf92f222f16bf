------------------------- MODULE DispatcherOwnership -------------------------
(***************************************************************************)
(* Theorems about who goes on with a request, and who works where.  Three  *)
(* inductive invariants on top of those of DispatcherProofs:               *)
(*                                                                         *)
(*   OwnerInv   every accepted, unsettled request is in exactly one place, *)
(*              every other request in none.                               *)
(*   SiteInv    the in-flight lists name every worker, so that at most one *)
(*              worker per backend looks for a slot, and a backend listed  *)
(*              as idle has nobody at work.                                *)
(*   OpenInv    a request has an outcome only when it is settled or its    *)
(*              worker has written the answer.                             *)
(*                                                                         *)
(* The order of the queues follows from OwnerInv, because no queue holds a *)
(* request twice.  Last comes the refinement: ServiceInv, the invariants   *)
(* above with StableInv, lets every step of the dispatcher be a step of    *)
(* RequestService or none.                                                 *)
(***************************************************************************)
EXTENDS DispatcherProofs, FiniteSetTheorems

-----------------------------------------------------------------------------
(* Sequences without repetition: what the queue operations do to them *)

LEMMA EmptySequence == Range(<<>>) = {} /\ IsInjective(<<>>)
  BY DEF Range, IsInjective

LEMMA AppendRange ==
    ASSUME NEW S, NEW s \in Seq(S), NEW e \in S
    PROVE  /\ Range(Append(s, e)) = Range(s) \cup {e}
           /\ IsInjective(s) /\ e \notin Range(s) => IsInjective(Append(s, e))
<1> DEFINE t == Append(s, e)
<1>1. DOMAIN s = 1 .. Len(s) /\ Len(s) \in Nat
  BY LenProperties
<1>2. /\ t \in Seq(S) /\ Len(t) = Len(s) + 1 /\ t[Len(s) + 1] = e
      /\ \A i \in 1 .. Len(s) : t[i] = s[i]
  BY AppendProperties
<1>3. DOMAIN t = 1 .. Len(s) + 1
  BY <1>2, LenProperties
<1> HIDE DEF t
<1>4. Range(t) = Range(s) \cup {e}
  <2>1. ASSUME NEW x \in Range(t)
        PROVE  x \in Range(s) \cup {e}
    BY <2>1, <1>1, <1>2, <1>3 DEF Range
  <2>2. ASSUME NEW x \in Range(s)
        PROVE  x \in Range(t)
    <3>1. PICK i \in 1 .. Len(s) : x = s[i]
      BY <1>1 DEF Range
    <3>2. i \in DOMAIN t /\ t[i] = x
      BY <3>1, <1>1, <1>2, <1>3
    <3> QED
      BY <3>2 DEF Range
  <2>3. e \in Range(t)
    <3>1. Len(s) + 1 \in DOMAIN t
      BY <1>1, <1>3
    <3> QED
      BY <1>2, <3>1 DEF Range
  <2> QED
    BY <2>1, <2>2, <2>3
<1>5. ASSUME IsInjective(s), e \notin Range(s)
      PROVE  IsInjective(t)
  <2> SUFFICES ASSUME NEW i \in 1 .. Len(s) + 1, NEW j \in 1 .. Len(s) + 1, t[i] = t[j]
               PROVE  i = j
    BY <1>3 DEF IsInjective
  <2>1. \A k \in 1 .. Len(s) : s[k] # e
    BY <1>1, <1>5 DEF Range
  <2> QED
    BY <1>1, <1>2, <1>5, <2>1 DEF IsInjective
<1> QED
  BY <1>4, <1>5 DEF t

LEMMA TailRange ==
    ASSUME NEW S, NEW s \in Seq(S), s # <<>>
    PROVE  /\ Head(s) \in Range(s)
           /\ IsInjective(s) => /\ Range(Tail(s)) = Range(s) \ {Head(s)}
                                /\ IsInjective(Tail(s))
<1> DEFINE t == Tail(s)
<1>1. DOMAIN s = 1 .. Len(s) /\ Len(s) \in Nat \ {0}
  BY LenProperties, EmptySeq
<1>2. t \in Seq(S) /\ Len(t) = Len(s) - 1 /\ \A i \in 1 .. Len(t) : t[i] = s[i + 1]
  BY HeadTailProperties
<1>3. DOMAIN t = 1 .. Len(s) - 1
  BY <1>2, LenProperties
<1>4. Head(s) = s[1]
  OBVIOUS
<1> HIDE DEF t
<1>5. Head(s) \in Range(s)
  BY <1>1, <1>4 DEF Range
<1>6. ASSUME IsInjective(s)
      PROVE  IsInjective(t)
  <2> SUFFICES ASSUME NEW i \in 1 .. Len(s) - 1, NEW j \in 1 .. Len(s) - 1, t[i] = t[j]
               PROVE  i = j
    BY <1>3 DEF IsInjective
  <2>1. i + 1 \in DOMAIN s /\ j + 1 \in DOMAIN s /\ s[i + 1] = s[j + 1]
    BY <1>1, <1>2
  <2> QED
    BY <1>6, <2>1 DEF IsInjective
<1>7. ASSUME IsInjective(s)
      PROVE  Range(t) = Range(s) \ {Head(s)}
  <2>1. ASSUME NEW x \in Range(t)
        PROVE  x \in Range(s) /\ x # s[1]
    <3>1. PICK i \in 1 .. Len(s) - 1 : x = t[i]
      BY <1>3 DEF Range
    <3>2. i + 1 \in DOMAIN s /\ 1 \in DOMAIN s /\ x = s[i + 1] /\ i + 1 # 1
      BY <1>1, <1>2, <3>1
    <3> QED
      BY <1>7, <3>2 DEF Range, IsInjective
  <2>2. ASSUME NEW x \in Range(s), x # s[1]
        PROVE  x \in Range(t)
    <3>1. PICK i \in 1 .. Len(s) : x = s[i]
      BY <1>1 DEF Range
    <3>2. i - 1 \in 1 .. Len(s) - 1 /\ (i - 1) + 1 = i
      BY <1>1, <2>2, <3>1
    <3>3. t[i - 1] = x
      BY <1>2, <3>1, <3>2
    <3> QED
      BY <1>3, <3>2, <3>3 DEF Range
  <2> QED
    BY <1>4, <2>1, <2>2
<1> QED
  BY <1>5, <1>6, <1>7 DEF t

LEMMA PushRange ==
    ASSUME NEW S, NEW s \in Seq(S), NEW e \in S
    PROVE  /\ <<e>> \o s \in Seq(S)
           /\ Range(<<e>> \o s) = Range(s) \cup {e}
           /\ IsInjective(s) /\ e \notin Range(s) => IsInjective(<<e>> \o s)
<1> DEFINE t == <<e>> \o s
<1>1. DOMAIN s = 1 .. Len(s) /\ Len(s) \in Nat
  BY LenProperties
<1>2. <<e>> \in Seq(S) /\ Len(<<e>>) = 1 /\ <<e>>[1] = e
  OBVIOUS
<1>3. /\ t \in Seq(S) /\ Len(t) = Len(s) + 1
      /\ \A i \in 1 .. Len(s) + 1 : t[i] = IF i <= 1 THEN <<e>>[i] ELSE s[i - 1]
  <2>1. /\ t \in Seq(S) /\ Len(t) = 1 + Len(s)
        /\ \A i \in 1 .. 1 + Len(s) : t[i] = IF i <= 1 THEN <<e>>[i] ELSE s[i - 1]
    BY <1>2, ConcatProperties
  <2> QED
    BY <1>1, <2>1
<1>4. t[1] = e /\ \A i \in 1 .. Len(s) : t[i + 1] = s[i]
  BY <1>1, <1>2, <1>3
<1>5. DOMAIN t = 1 .. Len(s) + 1
  BY <1>3, LenProperties
<1> HIDE DEF t
<1>6. Range(t) = Range(s) \cup {e}
  <2>1. ASSUME NEW x \in Range(t)
        PROVE  x \in Range(s) \cup {e}
    <3>1. PICK i \in 1 .. Len(s) + 1 : x = t[i]
      BY <1>5 DEF Range
    <3>2. CASE i = 1
      BY <1>4, <3>1, <3>2
    <3>3. CASE i # 1
      <4>1. i - 1 \in 1 .. Len(s) /\ (i - 1) + 1 = i
        BY <1>1, <3>3
      <4>2. s[i - 1] = x
        BY <1>4, <3>1, <4>1
      <4> QED
        BY <1>1, <4>1, <4>2 DEF Range
    <3> QED
      BY <3>2, <3>3
  <2>2. ASSUME NEW x \in Range(s)
        PROVE  x \in Range(t)
    <3>1. PICK i \in 1 .. Len(s) : x = s[i]
      BY <1>1 DEF Range
    <3>2. i + 1 \in DOMAIN t /\ t[i + 1] = x
      BY <1>1, <1>4, <1>5, <3>1
    <3> QED
      BY <3>2 DEF Range
  <2>3. e \in Range(t)
    <3>1. 1 \in DOMAIN t
      BY <1>1, <1>5
    <3> QED
      BY <1>4, <3>1 DEF Range
  <2> QED
    BY <2>1, <2>2, <2>3
<1>7. ASSUME IsInjective(s), e \notin Range(s)
      PROVE  IsInjective(t)
  <2> SUFFICES ASSUME NEW i \in 1 .. Len(s) + 1, NEW j \in 1 .. Len(s) + 1, t[i] = t[j]
               PROVE  i = j
    BY <1>5 DEF IsInjective
  <2>1. \A k \in 1 .. Len(s) : s[k] # e
    BY <1>1, <1>7 DEF Range
  <2>2. \A k \in 1 .. Len(s) + 1 : k # 1 => k - 1 \in 1 .. Len(s) /\ t[k] = s[k - 1]
    BY <1>1, <1>3
  <2>3. CASE i = 1 \/ j = 1
    BY <1>4, <2>1, <2>2, <2>3
  <2>4. CASE i # 1 /\ j # 1
    <3>1. i - 1 = j - 1
      BY <1>1, <1>7, <2>2, <2>4 DEF IsInjective
    <3> QED
      BY <3>1
  <2> QED
    BY <2>3, <2>4
<1> QED
  BY <1>3, <1>6, <1>7 DEF t

LEMMA PushThenTail ==
    ASSUME NEW S, NEW s \in Seq(S), NEW e \in S
    PROVE  Tail(<<e>> \o s) = s /\ <<e>> \o s # <<>>
<1> DEFINE t == <<e>> \o s
<1>1. <<e>> \in Seq(S) /\ Len(<<e>>) = 1 /\ <<e>>[1] = e /\ Len(s) \in Nat
  BY LenProperties
<1>2. /\ t \in Seq(S) /\ Len(t) = 1 + Len(s)
      /\ \A i \in 1 .. 1 + Len(s) : t[i] = IF i <= 1 THEN <<e>>[i] ELSE s[i - 1]
  BY <1>1, ConcatProperties
<1> HIDE DEF t
<1>3. t # <<>>
  BY <1>1, <1>2, EmptySeq
<1>4. /\ Tail(t) \in Seq(S) /\ Len(Tail(t)) = Len(s)
      /\ \A i \in 1 .. Len(s) : Tail(t)[i] = t[i + 1]
  BY <1>1, <1>2, <1>3, HeadTailProperties
<1>5. ASSUME NEW i \in 1 .. Len(s)
      PROVE  Tail(t)[i] = s[i]
  <2>1. i + 1 \in 1 .. 1 + Len(s) /\ ~ (i + 1 <= 1) /\ (i + 1) - 1 = i
    BY <1>1
  <2>2. t[i + 1] = s[i]
    BY <1>2, <2>1
  <2> QED
    BY <1>4, <2>2
<1>6. Tail(t) = s
  BY <1>4, <1>5, SeqEqual
<1> QED
  BY <1>3, <1>6 DEF t

LEMMA HeadThenTail ==
    ASSUME NEW S, NEW s \in Seq(S), s # <<>>
    PROVE  <<Head(s)>> \o Tail(s) = s
<1> DEFINE h == Head(s)
           u == Tail(s)
<1>1. h \in S /\ u \in Seq(S) /\ Len(u) = Len(s) - 1 /\ \A i \in 1 .. Len(u) : u[i] = s[i + 1]
  BY HeadTailProperties
<1>2. Len(s) \in Nat \ {0} /\ h = s[1]
  BY EmptySeq
<1> HIDE DEF h, u
<1>3. <<h>> \in Seq(S) /\ Len(<<h>>) = 1 /\ <<h>>[1] = h
  BY <1>1
<1> DEFINE t == <<h>> \o u
<1>4. /\ t \in Seq(S) /\ Len(t) = 1 + Len(u)
      /\ \A i \in 1 .. 1 + Len(u) : t[i] = IF i <= 1 THEN <<h>>[i] ELSE u[i - 1]
  BY <1>1, <1>3, ConcatProperties
<1> HIDE DEF t
<1>5. ASSUME NEW i \in 1 .. Len(s)
      PROVE  t[i] = s[i]
  <2>1. CASE i = 1
    BY <1>1, <1>2, <1>3, <1>4, <2>1
  <2>2. CASE i # 1
    <3>1. i - 1 \in 1 .. Len(u) /\ (i - 1) + 1 = i /\ ~ (i <= 1) /\ i \in 1 .. 1 + Len(u)
      BY <1>1, <1>2, <2>2
    <3>2. u[i - 1] = s[i]
      BY <1>1, <3>1
    <3> QED
      BY <1>4, <3>1, <3>2
  <2> QED
    BY <2>1, <2>2
<1>6. t = s
  BY <1>1, <1>2, <1>4, <1>5, SeqEqual
<1> QED
  BY <1>6 DEF t, h, u

\* Which element is where after one is taken out of the line.
LEMMA RemoveIndexElements ==
    ASSUME NEW S, NEW s \in Seq(S), NEW n \in 1 .. Len(s)
    PROVE  \A i \in 1 .. Len(s) - 1 :
              RemoveIndex(s, n)[i] = IF i < n THEN s[i] ELSE s[i + 1]
<1> DEFINE before == SubSeq(s, 1, n - 1)
           after  == SubSeq(s, n + 1, Len(s))
<1>0. Len(s) \in Nat
  BY LenProperties
<1>1. /\ before \in Seq(S) /\ Len(before) = n - 1
      /\ \A i \in 1 .. n - 1 : before[i] = s[i]
  <2>1. \A i \in 1 .. n - 1 : s[i] \in S
    BY ElementOfSeq, <1>0
  <2>2. /\ before \in Seq(S) /\ Len(before) = IF 1 <= n - 1 THEN (n - 1) - 1 + 1 ELSE 0
        /\ \A i \in 1 .. (n - 1) - 1 + 1 : before[i] = s[1 + i - 1]
    BY <1>0, <2>1, SubSeqProperties
  <2> HIDE DEF before
  <2> QED
    BY <1>0, <2>2
<1>2. /\ after \in Seq(S) /\ Len(after) = Len(s) - n
      /\ \A i \in 1 .. Len(s) - n : after[i] = s[n + i]
  <2>1. \A i \in n + 1 .. Len(s) : s[i] \in S
    BY ElementOfSeq, <1>0
  <2>2. /\ after \in Seq(S) /\ Len(after) = IF n + 1 <= Len(s) THEN Len(s) - (n + 1) + 1 ELSE 0
        /\ \A i \in 1 .. Len(s) - (n + 1) + 1 : after[i] = s[(n + 1) + i - 1]
    BY <1>0, <2>1, SubSeqProperties
  <2> HIDE DEF after
  <2> QED
    BY <1>0, <2>2
<1>3. RemoveIndex(s, n) = before \o after
  BY DEF RemoveIndex
<1> HIDE DEF before, after
<1>4. \A i \in 1 .. Len(before) + Len(after) : (before \o after)[i] =
          IF i <= Len(before) THEN before[i] ELSE after[i - Len(before)]
  BY <1>1, <1>2, ConcatProperties
<1> TAKE i \in 1 .. Len(s) - 1
<1>5. (before \o after)[i] = IF i <= n - 1 THEN before[i] ELSE after[i - (n - 1)]
  BY <1>0, <1>1, <1>2, <1>4
<1>6. CASE i < n
  BY <1>0, <1>1, <1>3, <1>5, <1>6
<1>7. CASE ~ (i < n)
  <2>1. i - (n - 1) \in 1 .. Len(s) - n /\ n + (i - (n - 1)) = i + 1
    BY <1>0, <1>7
  <2> QED
    BY <1>0, <1>2, <1>3, <1>5, <1>7, <2>1
<1> QED
  BY <1>6, <1>7

LEMMA RemoveIndexRange ==
    ASSUME NEW S, NEW s \in Seq(S), NEW n \in 1 .. Len(s), IsInjective(s)
    PROVE  /\ Range(RemoveIndex(s, n)) = Range(s) \ {s[n]}
           /\ IsInjective(RemoveIndex(s, n))
<1> DEFINE t == RemoveIndex(s, n)
<1>1. DOMAIN s = 1 .. Len(s) /\ Len(s) \in Nat
  BY LenProperties
<1>2. DOMAIN t = 1 .. Len(s) - 1
  BY RemoveIndexType, RemoveIndexLen, LenProperties
<1>3. \A i \in 1 .. Len(s) - 1 : t[i] = IF i < n THEN s[i] ELSE s[i + 1]
  BY RemoveIndexElements
<1> HIDE DEF t
<1>4. \A i \in 1 .. Len(s) - 1 :
         \E j \in 1 .. Len(s) : j # n /\ t[i] = s[j] /\ j = IF i < n THEN i ELSE i + 1
  BY <1>1, <1>3
<1>5. \A j \in 1 .. Len(s) : j # n => \E i \in 1 .. Len(s) - 1 : t[i] = s[j]
  <2> SUFFICES ASSUME NEW j \in 1 .. Len(s), j # n
               PROVE  \E i \in 1 .. Len(s) - 1 : t[i] = s[j]
    OBVIOUS
  <2>1. CASE j < n
    <3>1. j \in 1 .. Len(s) - 1
      BY <1>1, <2>1
    <3> QED
      BY <1>3, <2>1, <3>1
  <2>2. CASE n < j
    <3>1. j - 1 \in 1 .. Len(s) - 1 /\ ~ (j - 1 < n) /\ (j - 1) + 1 = j
      BY <1>1, <2>2
    <3> QED
      BY <1>3, <3>1
  <2> QED
    BY <1>1, <2>1, <2>2
<1>6. Range(t) = Range(s) \ {s[n]}
  <2>1. ASSUME NEW x \in Range(t)
        PROVE  x \in Range(s) /\ x # s[n]
    <3>1. PICK i \in 1 .. Len(s) - 1 : x = t[i]
      BY <1>2 DEF Range
    <3>2. PICK j \in DOMAIN s : j # n /\ x = s[j]
      BY <1>1, <1>4, <3>1
    <3>3. n \in DOMAIN s
      BY <1>1
    <3> QED
      BY <3>2, <3>3 DEF Range, IsInjective
  <2>2. ASSUME NEW x \in Range(s), x # s[n]
        PROVE  x \in Range(t)
    BY <1>1, <1>2, <1>5, <2>2 DEF Range
  <2> QED
    BY <2>1, <2>2
<1>7. IsInjective(t)
  <2> SUFFICES ASSUME NEW i \in 1 .. Len(s) - 1, NEW j \in 1 .. Len(s) - 1, t[i] = t[j]
               PROVE  i = j
    BY <1>2 DEF IsInjective
  <2> DEFINE Was(k) == IF k < n THEN k ELSE k + 1
  <2>1. Was(i) \in DOMAIN s /\ Was(j) \in DOMAIN s /\ s[Was(i)] = s[Was(j)]
    BY <1>1, <1>3
  <2>2. Was(i) = Was(j)
    BY <2>1 DEF IsInjective
  <2> QED
    BY <2>2, <1>1
<1> QED
  BY <1>6, <1>7 DEF t

-----------------------------------------------------------------------------
(* First come first served, for each queue operation *)

LEMMA SameOrder ==
    ASSUME NEW s, NEW E
    PROVE  KeepsOrder(s, s, E)
  BY DEF KeepsOrder

LEMMA EmptyKeepsOrder ==
    ASSUME NEW s, NEW E
    PROVE  KeepsOrder(s, <<>>, E)
  BY EmptySequence DEF KeepsOrder

LEMMA AppendKeepsOrder ==
    ASSUME NEW S, NEW s \in Seq(S), NEW e \in S, NEW E
    PROVE  KeepsOrder(s, Append(s, e), E)
<1> DEFINE t == Append(s, e)
<1>1. DOMAIN s = 1 .. Len(s) /\ Len(s) \in Nat
  BY LenProperties
<1>2. /\ t \in Seq(S) /\ Len(t) = Len(s) + 1
      /\ \A i \in 1 .. Len(s) : t[i] = s[i]
  BY AppendProperties
<1>3. DOMAIN t = 1 .. Len(s) + 1
  BY <1>2, LenProperties
<1> HIDE DEF t
<1>4. \A i \in DOMAIN s : i \in DOMAIN t /\ t[i] = s[i]
  BY <1>1, <1>2, <1>3
<1> QED
  BY <1>4 DEF KeepsOrder, t

LEMMA TailKeepsOrder ==
    ASSUME NEW S, NEW s \in Seq(S), s # <<>>, IsInjective(s), NEW E
    PROVE  KeepsOrder(s, Tail(s), E)
<1> DEFINE t == Tail(s)
<1>1. DOMAIN s = 1 .. Len(s) /\ Len(s) \in Nat \ {0}
  BY LenProperties, EmptySeq
<1>2. t \in Seq(S) /\ Len(t) = Len(s) - 1 /\ \A i \in 1 .. Len(t) : t[i] = s[i + 1]
  BY HeadTailProperties
<1>3. DOMAIN t = 1 .. Len(s) - 1
  BY <1>2, LenProperties
<1>4. s[1] \notin Range(t)
  BY TailRange
<1> HIDE DEF t
<1> SUFFICES ASSUME NEW i \in DOMAIN s, NEW j \in DOMAIN s, i < j, s[i] \in Range(t)
             PROVE  \E k, l \in DOMAIN t : k < l /\ t[k] = s[i] /\ t[l] = s[j]
  BY DEF KeepsOrder, t
<1>5. i # 1
  BY <1>4
<1>6. /\ i - 1 \in DOMAIN t /\ (i - 1) + 1 = i
      /\ j - 1 \in DOMAIN t /\ (j - 1) + 1 = j /\ i - 1 < j - 1
  BY <1>1, <1>3, <1>5
<1>7. t[i - 1] = s[i] /\ t[j - 1] = s[j]
  BY <1>2, <1>3, <1>6
<1> QED
  BY <1>6, <1>7

LEMMA RemoveIndexKeepsOrder ==
    ASSUME NEW S, NEW s \in Seq(S), NEW n \in 1 .. Len(s), IsInjective(s),
           NEW E, s[n] \in E
    PROVE  KeepsOrder(s, RemoveIndex(s, n), E)
<1> DEFINE t == RemoveIndex(s, n)
<1>1. DOMAIN s = 1 .. Len(s) /\ Len(s) \in Nat
  BY LenProperties
<1>2. DOMAIN t = 1 .. Len(s) - 1
  BY RemoveIndexType, RemoveIndexLen, LenProperties
<1>3. \A i \in 1 .. Len(s) - 1 : t[i] = IF i < n THEN s[i] ELSE s[i + 1]
  BY RemoveIndexElements
<1>4. s[n] \notin Range(t)
  BY RemoveIndexRange
<1> HIDE DEF t
<1> SUFFICES ASSUME NEW i \in DOMAIN s, NEW j \in DOMAIN s, i < j, s[i] \in Range(t),
                    s[j] \notin E
             PROVE  \E k, l \in DOMAIN t : k < l /\ t[k] = s[i] /\ t[l] = s[j]
  BY DEF KeepsOrder, t
<1> DEFINE Now(k) == IF k < n THEN k ELSE k - 1
<1>5. i # n /\ j # n
  BY <1>4
<1>6. ASSUME NEW k \in DOMAIN s, k # n
      PROVE  Now(k) \in DOMAIN t /\ t[Now(k)] = s[k]
  <2>1. CASE k < n
    <3>1. k \in 1 .. Len(s) - 1
      BY <1>1, <2>1
    <3> QED
      BY <1>2, <1>3, <2>1, <3>1
  <2>2. CASE n < k
    <3>1. k - 1 \in 1 .. Len(s) - 1 /\ ~ (k - 1 < n) /\ (k - 1) + 1 = k /\ ~ (k < n)
      BY <1>1, <2>2
    <3> QED
      BY <1>2, <1>3, <3>1
  <2> QED
    BY <1>1, <1>6, <2>1, <2>2
<1>7. Now(i) < Now(j)
  BY <1>1, <1>5
<1> HIDE DEF Now
<1> QED
  BY <1>5, <1>6, <1>7

-----------------------------------------------------------------------------
(* The places where a request can be, and how a step changes them *)

Kinds == {"incoming", "burst", "held", "overflow", "queue", "worker"}
Spaces == {None} \cup Backends \cup Workers

IsAt(r, k, x) ==
    \/ k = "incoming" /\ x = None /\ r \in Range(incoming)
    \/ k = "burst" /\ x = None /\ r \in Range(burst)
    \/ k = "held" /\ x = None /\ r = held
    \/ k = "overflow" /\ x = None /\ r \in Range(overflow)
    \/ k = "queue" /\ x \in Backends /\ r \in Range(queue[x])
    \/ k = "worker" /\ x \in Workers /\ r = work[x] /\ pc[x] # "drop"

Owned(r) == client[r] = "accepted" /\ r \notin done

OnlyAt(r, k, x) == \A l \in Kinds, y \in Spaces : IsAt(r, l, y) <=> l = k /\ y = x
Nowhere(r) == \A l \in Kinds, y \in Spaces : ~ IsAt(r, l, y)

Placed(r) ==
    \/ Owned(r) /\ \E k \in Kinds, x \in Spaces : OnlyAt(r, k, x)
    \/ ~ Owned(r) /\ Nowhere(r)

NoRepeats ==
    /\ IsInjective(incoming) /\ IsInjective(burst) /\ IsInjective(overflow)
    /\ \A b \in Backends : IsInjective(queue[b])

\* The dispatcher goroutine carries requests only in the phases that route them.
LoopCarries ==
    /\ burst # <<>> => phase = "arrive"
    /\ held # None => phase = "drain"

FreeWorkersIdle == \A w \in Workers : pc[w] = "free" => work[w] = None

DoneAccepted == \A r \in done : client[r] = "accepted"

AllPlaced == \A r \in Requests : Placed(r)

OwnerInv ==
    /\ AllPlaced
    /\ NoRepeats
    /\ LoopCarries
    /\ FreeWorkersIdle
    /\ DoneAccepted

\* What Placed is used for: a request at a place is owned, and is nowhere else.
LEMMA FoundOwned ==
    ASSUME OwnerInv, NEW r \in Requests, NEW k \in Kinds, NEW x \in Spaces, IsAt(r, k, x)
    PROVE  Owned(r) /\ OnlyAt(r, k, x)
<1>1. Placed(r) /\ ~ Nowhere(r)
  BY DEF OwnerInv, AllPlaced, Nowhere
<1>2. PICK l \in Kinds, y \in Spaces : OnlyAt(r, l, y)
  BY <1>1 DEF Placed
<1>3. l = k /\ y = x
  BY <1>2 DEF OnlyAt
<1> QED
  BY <1>1, <1>2, <1>3 DEF Placed

\* A request whose places and ownership a step leaves alone stays placed.
LEMMA StaysPlaced ==
    ASSUME OwnerInv, NEW r \in Requests, Owned(r)' = Owned(r),
           \A l \in Kinds, y \in Spaces : IsAt(r, l, y)' <=> IsAt(r, l, y)
    PROVE  Placed(r)'
<1>1. CASE Owned(r) /\ \E k \in Kinds, x \in Spaces : OnlyAt(r, k, x)
  <2> PICK k \in Kinds, x \in Spaces : OnlyAt(r, k, x)
    BY <1>1
  <2>1. OnlyAt(r, k, x)'
    BY DEF OnlyAt
  <2> QED
    BY <1>1, <2>1 DEF Placed
<1>2. CASE ~ Owned(r) /\ Nowhere(r)
  BY <1>2 DEF Nowhere, Placed
<1> QED
  BY <1>1, <1>2 DEF OwnerInv, AllPlaced, Placed

LEMMA OwnerInit == Init => OwnerInv
<1> SUFFICES ASSUME Init PROVE OwnerInv
  OBVIOUS
<1>1. ASSUME NEW r \in Requests
      PROVE  Placed(r)
  <2>1. r # None
    BY DispatcherAssumption
  <2> QED
    BY <2>1, EmptySequence DEF Init, Placed, Owned, Nowhere, IsAt
<1>2. NoRepeats
  BY EmptySequence DEF Init, NoRepeats
<1>3. LoopCarries /\ FreeWorkersIdle /\ DoneAccepted
  BY DEF Init, LoopCarries, FreeWorkersIdle, DoneAccepted
<1> QED
  BY <1>1, <1>2, <1>3 DEF OwnerInv, AllPlaced

LEMMA InjectiveTypes ==
    ASSUME TypeInv
    PROVE  /\ incoming \in Seq(Requests) /\ burst \in Seq(Requests) /\ overflow \in Seq(Requests)
           /\ \A b \in Backends : queue[b] \in Seq(Requests)
           /\ queue \in [Backends -> Seq(Requests)]
           /\ pc \in [Workers -> WorkerStates] /\ work \in [Workers -> Requests \cup {None}]
           /\ client \in [Requests -> ClientStates] /\ done \subseteq Requests
  BY DEF TypeInv, TypeOK, LoopTypes, QueueTypes, WorkerTypes, ClientTypes

Carriers == <<client, done, incoming, burst, held, overflow, queue, work>>

\* A step that moves no request, starts and ends no worker.
LEMMA OwnerSame ==
    ASSUME TypeInv, OwnerInv, UNCHANGED Carriers, LoopCarries',
           \A w \in Workers : /\ pc'[w] = "drop" <=> pc[w] = "drop"
                              /\ pc'[w] = "free" <=> pc[w] = "free"
    PROVE  OwnerInv'
<1> USE DEF Carriers
<1>1. ASSUME NEW r \in Requests
      PROVE  Placed(r)'
  <2>1. \A l \in Kinds, y \in Spaces : IsAt(r, l, y)' <=> IsAt(r, l, y)
    BY DEF IsAt
  <2>2. Owned(r)' = Owned(r)
    BY DEF Owned
  <2> QED
    BY <2>1, <2>2, StaysPlaced
<1>2. NoRepeats' /\ FreeWorkersIdle' /\ DoneAccepted'
  BY DEF OwnerInv, NoRepeats, FreeWorkersIdle, DoneAccepted
<1> QED
  BY <1>1, <1>2 DEF OwnerInv, AllPlaced

LEMMA OwnerSubmit ==
    ASSUME TypeInv, OwnerInv, NEW r \in Requests, SubmitCheck(r) \/ SubmitSend(r)
    PROVE  OwnerInv'
<1> USE InjectiveTypes
<1>1. CASE SubmitCheck(r)
  <2>0. /\ client' = [client EXCEPT ![r] = client'[r]] /\ client'[r] # "accepted"
        /\ client[r] = "new" /\ r \notin done
        /\ UNCHANGED <<done, incoming, phase, burst, held, overflow, queue, work, pc>>
    BY <1>1 DEF SubmitCheck, loopVars, queueVars, workerVars, OwnerInv, DoneAccepted
  <2>1. ASSUME NEW q \in Requests
        PROVE  Placed(q)'
    <3>1. \A l \in Kinds, y \in Spaces : IsAt(q, l, y)' <=> IsAt(q, l, y)
      BY <2>0 DEF IsAt
    <3>2. Owned(q)' = Owned(q)
      BY <2>0 DEF Owned
    <3> QED
      BY <3>1, <3>2, StaysPlaced
  <2>2. NoRepeats' /\ LoopCarries' /\ FreeWorkersIdle' /\ DoneAccepted'
    BY <2>0 DEF OwnerInv, NoRepeats, LoopCarries, FreeWorkersIdle, DoneAccepted
  <2> QED
    BY <2>1, <2>2 DEF OwnerInv, AllPlaced
<1>2. CASE SubmitSend(r)
  <2>0. /\ client[r] = "sending" /\ client' = [client EXCEPT ![r] = "accepted"]
        /\ incoming' = Append(incoming, r) /\ r \notin done
        /\ UNCHANGED <<done, phase, burst, held, overflow, queue, work, pc>>
    BY <1>2 DEF SubmitSend, loopVars, queueVars, workerVars, OwnerInv, DoneAccepted
  <2>1. ~ Owned(r) /\ Nowhere(r)
    BY <2>0 DEF Owned, OwnerInv, AllPlaced, Placed
  <2>2. r \notin Range(incoming)
    BY <2>1 DEF Nowhere, IsAt, Kinds, Spaces
  <2>3. Range(incoming') = Range(incoming) \cup {r} /\ IsInjective(incoming')
    BY <2>0, <2>2, AppendRange DEF OwnerInv, NoRepeats
  <2>4. ASSUME NEW q \in Requests, q # r
        PROVE  Placed(q)'
    <3>1. \A l \in Kinds, y \in Spaces : IsAt(q, l, y)' <=> IsAt(q, l, y)
      BY <2>0, <2>3, <2>4 DEF IsAt
    <3>2. Owned(q)' = Owned(q)
      BY <2>0, <2>4 DEF Owned
    <3> QED
      BY <3>1, <3>2, StaysPlaced
  <2>5. Placed(r)'
    <3>1. OnlyAt(r, "incoming", None)'
      <4>1. \A l \in Kinds, y \in Spaces : ~ IsAt(r, l, y)
        BY <2>1 DEF Nowhere
      <4>2. \A l \in Kinds, y \in Spaces :
              IsAt(r, l, y)' <=> IsAt(r, l, y) \/ (l = "incoming" /\ y = None)
        BY <2>0, <2>3 DEF IsAt
      <4> QED
        BY <4>1, <4>2 DEF OnlyAt
    <3>2. Owned(r)'
      BY <2>0 DEF Owned
    <3> QED
      BY <3>1, <3>2 DEF Placed, Kinds, Spaces
  <2>6. NoRepeats' /\ LoopCarries' /\ FreeWorkersIdle' /\ DoneAccepted'
    BY <2>0, <2>3 DEF OwnerInv, NoRepeats, LoopCarries, FreeWorkersIdle, DoneAccepted
  <2> QED
    BY <2>4, <2>5, <2>6 DEF OwnerInv, AllPlaced
<1> QED
  BY <1>1, <1>2

\* A request is settled and leaves the place where it was.
Leaves(r, k, x) ==
    /\ UNCHANGED client
    /\ done' = done \cup {r}
    /\ \A q \in Requests, l \in Kinds, y \in Spaces :
          IsAt(q, l, y)' <=> IsAt(q, l, y) /\ ~ (q = r /\ l = k /\ y = x)

\* A request moves from the place where it was to another.
Moves(r, k, x, m, z) ==
    /\ UNCHANGED <<client, done>>
    /\ \A q \in Requests, l \in Kinds, y \in Spaces :
          IsAt(q, l, y)' <=> (IsAt(q, l, y) /\ ~ (q = r /\ l = k /\ y = x))
                             \/ (q = r /\ l = m /\ y = z)

LEMMA RequestLeaves ==
    ASSUME OwnerInv, NEW r \in Requests, NEW k \in Kinds, NEW x \in Spaces, IsAt(r, k, x),
           Leaves(r, k, x)
    PROVE  AllPlaced' /\ DoneAccepted'
<1> USE DEF Leaves, AllPlaced
<1>1. Owned(r) /\ OnlyAt(r, k, x)
  BY FoundOwned
<1>2. ASSUME NEW q \in Requests, q # r
      PROVE  Placed(q)'
  <2>1. Owned(q)' = Owned(q)
    BY <1>2 DEF Owned
  <2> QED
    BY <1>2, <2>1, StaysPlaced
<1>3. Placed(r)'
  <2>1. ~ Owned(r)'
    BY DEF Owned
  <2>2. Nowhere(r)'
    BY <1>1 DEF OnlyAt, Nowhere
  <2> QED
    BY <2>1, <2>2 DEF Placed
<1>4. DoneAccepted'
  BY <1>1 DEF OwnerInv, DoneAccepted, Owned
<1> QED
  BY <1>2, <1>3, <1>4

LEMMA RequestMoves ==
    ASSUME OwnerInv, NEW r \in Requests, NEW k \in Kinds, NEW x \in Spaces, IsAt(r, k, x),
           NEW m \in Kinds, NEW z \in Spaces, Moves(r, k, x, m, z)
    PROVE  AllPlaced' /\ DoneAccepted'
<1> USE DEF Moves, AllPlaced
<1>1. Owned(r) /\ OnlyAt(r, k, x)
  BY FoundOwned
<1>2. \A q \in Requests : Owned(q)' = Owned(q)
  BY DEF Owned
<1>3. ASSUME NEW q \in Requests, q # r
      PROVE  Placed(q)'
  BY <1>2, <1>3, StaysPlaced
<1>4. Placed(r)'
  <2>1. OnlyAt(r, m, z)'
    BY <1>1 DEF OnlyAt
  <2> QED
    BY <1>1, <1>2, <2>1 DEF Placed
<1>5. DoneAccepted'
  BY DEF OwnerInv, DoneAccepted
<1> QED
  BY <1>3, <1>4, <1>5

-----------------------------------------------------------------------------
(* OwnerInv is preserved by the workers *)

\* A worker settles its request: it goes on to drop, or is gone at once.
LEMMA OwnerWorkerSettles ==
    ASSUME TypeInv, OwnerInv, NEW w \in Workers, pc[w] \notin {"free", "drop"},
           UNCHANGED <<client, incoming, phase, burst, held, overflow, queue>>,
           done' = done \cup {work[w]},
           \/ pc' = [pc EXCEPT ![w] = "drop"] /\ UNCHANGED work
           \/ pc' = [pc EXCEPT ![w] = "free"] /\ work' = [work EXCEPT ![w] = None]
    PROVE  OwnerInv'
<1> USE InjectiveTypes
<1>a. work[w] \in Requests /\ None \notin Requests
  BY DispatcherAssumption DEF TypeInv, WorkerShape
<1> PICK r \in Requests : r = work[w]
  BY <1>a
<1>1. IsAt(r, "worker", w) /\ "worker" \in Kinds /\ w \in Spaces
  BY DEF IsAt, Kinds, Spaces
<1>2. \A q \in Requests, v \in Workers :
         (q = work'[v] /\ pc'[v] # "drop") <=> (q = work[v] /\ pc[v] # "drop" /\ ~ (q = r /\ v = w))
  BY <1>a
<1>3. Leaves(r, "worker", w)
  BY <1>2 DEF Leaves, IsAt
<1>4. AllPlaced' /\ DoneAccepted'
  BY <1>1, <1>3, RequestLeaves
<1>5. NoRepeats' /\ LoopCarries' /\ FreeWorkersIdle'
  BY DEF OwnerInv, NoRepeats, LoopCarries, FreeWorkersIdle
<1> QED
  BY <1>4, <1>5 DEF OwnerInv

LEMMA OwnerRequeue ==
    ASSUME TypeInv, OwnerInv, NEW w \in Workers, Requeue(w)
    PROVE  OwnerInv'
<1> USE InjectiveTypes
<1>a. work[w] \in Requests
  BY DEF Requeue, TypeInv, WorkerShape
<1> PICK r \in Requests : r = work[w]
  BY <1>a
<1>1. /\ pc[w] = "gate" /\ pc' = [pc EXCEPT ![w] = "drop"] /\ overflow' = Append(overflow, r)
      /\ UNCHANGED <<client, done, incoming, phase, burst, held, queue, work>>
  BY DEF Requeue, Goto, clientVars, loopVars
<1>2. IsAt(r, "worker", w) /\ {"worker", "overflow"} \subseteq Kinds /\ {w, None} \subseteq Spaces
  BY <1>1 DEF IsAt, Kinds, Spaces
<1>3. r \notin Range(overflow)
  <2>1. OnlyAt(r, "worker", w)
    BY <1>2, FoundOwned
  <2> QED
    BY <1>2, <2>1 DEF OnlyAt, IsAt
<1>4. Range(overflow') = Range(overflow) \cup {r} /\ IsInjective(overflow')
  BY <1>1, <1>3, AppendRange DEF OwnerInv, NoRepeats
<1>5. \A q \in Requests, v \in Workers :
         (q = work'[v] /\ pc'[v] # "drop") <=> (q = work[v] /\ pc[v] # "drop" /\ ~ (q = r /\ v = w))
  BY <1>1
<1>6. Moves(r, "worker", w, "overflow", None)
  <2> SUFFICES ASSUME NEW q \in Requests, NEW l \in Kinds, NEW y \in Spaces
               PROVE  IsAt(q, l, y)' <=> (IsAt(q, l, y) /\ ~ (q = r /\ l = "worker" /\ y = w))
                                         \/ (q = r /\ l = "overflow" /\ y = None)
    BY <1>1 DEF Moves
  <2>1. CASE l = "worker"
    BY <1>1, <1>5, <2>1 DEF IsAt
  <2>2. CASE l = "overflow"
    BY <1>1, <1>4, <2>2 DEF IsAt
  <2>3. CASE l \notin {"worker", "overflow"}
    BY <1>1, <2>3 DEF IsAt
  <2> QED
    BY <2>1, <2>2, <2>3
<1>7. AllPlaced' /\ DoneAccepted'
  BY <1>1, <1>2, <1>6, RequestMoves
<1>8. NoRepeats' /\ LoopCarries' /\ FreeWorkersIdle'
  BY <1>1, <1>4 DEF OwnerInv, NoRepeats, LoopCarries, FreeWorkersIdle
<1> QED
  BY <1>7, <1>8 DEF OwnerInv

LEMMA OwnerWorkerFinished ==
    ASSUME TypeInv, OwnerInv, NEW w \in Workers, WorkerFinished(w)
    PROVE  OwnerInv'
<1> USE InjectiveTypes
<1>1. /\ pc[w] = "drop" /\ pc' = [pc EXCEPT ![w] = "free"] /\ work' = [work EXCEPT ![w] = None]
      /\ UNCHANGED <<client, done, incoming, phase, burst, held, overflow, queue>>
  BY DEF WorkerFinished, Retire, WorkerOnly, clientVars, loopVars, queueVars
<1>2. ASSUME NEW q \in Requests
      PROVE  Placed(q)'
  <2>1. \A v \in Workers : (q = work'[v] /\ pc'[v] # "drop") <=> (q = work[v] /\ pc[v] # "drop")
    <3> TAKE v \in Workers
    <3>1. CASE v = w
      BY <1>1, <3>1, DispatcherAssumption
    <3>2. CASE v # w
      BY <1>1, <3>2
    <3> QED
      BY <3>1, <3>2
  <2>2. \A l \in Kinds, y \in Spaces : IsAt(q, l, y)' <=> IsAt(q, l, y)
    BY <1>1, <2>1 DEF IsAt
  <2>3. Owned(q)' = Owned(q)
    BY <1>1 DEF Owned
  <2> QED
    BY <2>2, <2>3, StaysPlaced
<1>3. NoRepeats' /\ LoopCarries' /\ FreeWorkersIdle' /\ DoneAccepted'
  BY <1>1 DEF OwnerInv, NoRepeats, LoopCarries, FreeWorkersIdle, DoneAccepted
<1> QED
  BY <1>2, <1>3 DEF OwnerInv, AllPlaced

LEMMA OwnerPumpTake ==
    ASSUME TypeInv, OwnerInv, NEW b \in Backends, NEW w \in Workers, PumpTake(b, w)
    PROVE  OwnerInv'
<1> USE InjectiveTypes
<1>0. queue[b] # <<>> /\ Head(queue[b]) \in Requests
  BY HeadTailProperties DEF PumpTake, Dispatchable
<1> PICK r \in Requests : r = Head(queue[b])
  BY <1>0
<1>1. /\ pc[w] = "free" /\ pc' = [pc EXCEPT ![w] = "handoff"] /\ work' = [work EXCEPT ![w] = r]
      /\ queue' = [queue EXCEPT ![b] = Tail(@)]
      /\ UNCHANGED <<client, done, incoming, phase, burst, held, overflow>>
  BY DEF PumpTake, clientVars, loopVars
<1>2. /\ r \in Range(queue[b]) /\ Range(queue'[b]) = Range(queue[b]) \ {r} /\ IsInjective(queue'[b])
      /\ \A d \in Backends : d # b => queue'[d] = queue[d]
  BY <1>0, <1>1, TailRange DEF OwnerInv, NoRepeats
<1>3. IsAt(r, "queue", b) /\ "queue" \in Kinds /\ b \in Spaces /\ "worker" \in Kinds /\ w \in Spaces
  BY <1>2 DEF IsAt, Kinds, Spaces
<1>4. work[w] = None
  BY <1>1 DEF OwnerInv, FreeWorkersIdle
<1>5. \A q \in Requests, v \in Workers :
         (q = work'[v] /\ pc'[v] # "drop") <=> (q = work[v] /\ pc[v] # "drop") \/ (q = r /\ v = w)
  BY <1>1, <1>4, DispatcherAssumption
<1>6. \A q \in Requests, d \in Backends :
         q \in Range(queue'[d]) <=> q \in Range(queue[d]) /\ ~ (q = r /\ d = b)
  BY <1>2
<1>7. Moves(r, "queue", b, "worker", w)
  <2> SUFFICES ASSUME NEW q \in Requests, NEW l \in Kinds, NEW y \in Spaces
               PROVE  IsAt(q, l, y)' <=> (IsAt(q, l, y) /\ ~ (q = r /\ l = "queue" /\ y = b))
                                         \/ (q = r /\ l = "worker" /\ y = w)
    BY <1>1 DEF Moves
  <2>1. CASE l = "worker"
    BY <1>1, <1>5, <2>1 DEF IsAt
  <2>2. CASE l = "queue"
    BY <1>1, <1>6, <2>2 DEF IsAt
  <2>3. CASE l \notin {"worker", "queue"}
    BY <1>1, <2>3 DEF IsAt
  <2> QED
    BY <2>1, <2>2, <2>3
<1>8. AllPlaced' /\ DoneAccepted'
  BY <1>1, <1>3, <1>7, RequestMoves
<1>9. NoRepeats' /\ LoopCarries' /\ FreeWorkersIdle'
  BY <1>1, <1>2 DEF OwnerInv, NoRepeats, LoopCarries, FreeWorkersIdle
<1> QED
  BY <1>8, <1>9 DEF OwnerInv

LEMMA OwnerHandOff ==
    ASSUME TypeInv, OwnerInv, NEW w \in Workers, HandOff(w)
    PROVE  OwnerInv'
<1>1. CASE work[w] \in dead
  <2>1. work[w] \in Requests
    BY DEF HandOff, TypeInv, WorkerShape
  <2>2. /\ pc[w] = "handoff" /\ done' = done \cup {work[w]}
        /\ pc' = [pc EXCEPT ![w] = "free"] /\ work' = [work EXCEPT ![w] = None]
        /\ UNCHANGED <<client, incoming, phase, burst, held, overflow, queue>>
    BY <1>1 DEF HandOff, Discard, Settle, Retire, loopVars, queueVars
  <2> QED
    BY <2>2, OwnerWorkerSettles
<1>2. CASE work[w] \notin dead
  <2>1. pc[w] = "handoff" /\ pc' = [pc EXCEPT ![w] = "start"] /\ UNCHANGED <<Carriers, phase>>
    BY <1>2 DEF HandOff, Carriers, clientVars, loopVars, queueVars
  <2>2. LoopCarries'
    BY <2>1 DEF OwnerInv, LoopCarries, Carriers
  <2> QED
    BY <2>1, <2>2, OwnerSame, InjectiveTypes
<1> QED
  BY <1>1, <1>2

LEMMA OwnerWorker ==
    ASSUME TypeInv, OwnerInv, NEW w \in Workers, WorkerStep(w)
    PROVE  OwnerInv'
<1>1. ASSUME NEW l \in {"acquire", "refresh", "gate", "backoff", "serve", "finish"},
             pc[w] \notin {"free", "drop"}, Goto(w, l), UNCHANGED <<client, done, work>>, WorkerOnly
      PROVE  OwnerInv'
  <2>1. UNCHANGED <<Carriers, phase>>
    BY <1>1 DEF WorkerOnly, Carriers, loopVars, queueVars
  <2>2. LoopCarries'
    BY <2>1 DEF OwnerInv, LoopCarries, Carriers
  <2> QED
    BY <1>1, <2>1, <2>2, OwnerSame, InjectiveTypes DEF Goto
<1>2. ASSUME NEW how, pc[w] \notin {"free", "drop"}, GiveUp(w, how), WorkerOnly
      PROVE  OwnerInv'
  BY <1>2, OwnerWorkerSettles DEF GiveUp, Goto, Settle, WorkerOnly, loopVars, queueVars
<1>3. CASE PromptTooLong(w)
  BY <1>1, <1>3 DEF PromptTooLong
<1>4. CASE Begin(w)
  BY <1>1, <1>4 DEF Begin, clientVars
<1>5. CASE Acquire(w)
  BY <1>1, <1>2, <1>5 DEF Acquire, clientVars
<1>6. CASE Refresh(w)
  BY <1>1, <1>6 DEF Refresh, clientVars
<1>7. CASE Gate(w)
  BY <1>2, <1>7 DEF Gate
<1>8. CASE Retry(w)
  BY <1>1, <1>8 DEF Retry, clientVars
<1>9. CASE Backoff(w)
  BY <1>1, <1>2, <1>9 DEF Backoff, clientVars
<1>10. CASE Serve(w)
  BY <1>1, <1>10 DEF Serve
<1>11. CASE Finish(w)
  BY <1>11, OwnerWorkerSettles DEF Finish, Goto, WorkerOnly, loopVars, queueVars
<1> QED
  BY <1>3, <1>4, <1>5, <1>6, <1>7, <1>8, <1>9, <1>10, <1>11, OwnerRequeue, OwnerWorkerFinished
     DEF WorkerStep

-----------------------------------------------------------------------------
(* OwnerInv is preserved by the dispatcher goroutine and the environment *)

LEMMA OwnerWake ==
    ASSUME TypeInv, OwnerInv, Wake
    PROVE  OwnerInv'
<1>1. /\ phase = "select" /\ phase' = "arrive" /\ burst' = incoming /\ incoming' = <<>>
      /\ UNCHANGED <<client, done, held, overflow, queue, work, pc>>
  BY DEF Wake, clientVars, queueVars, workerVars
<1>2. burst = <<>> /\ Range(burst) = {} /\ Range(incoming') = {}
  BY <1>1, EmptySequence DEF OwnerInv, LoopCarries
<1>3. ASSUME NEW r \in Requests
      PROVE  Placed(r)'
  <2>1. Owned(r)' = Owned(r)
    BY <1>1 DEF Owned
  <2>2. Placed(r)
    BY DEF OwnerInv, AllPlaced
  <2>3. CASE IsAt(r, "incoming", None)
    <3>1. Owned(r) /\ OnlyAt(r, "incoming", None)
      BY <2>3, FoundOwned DEF Kinds, Spaces
    <3>2. OnlyAt(r, "burst", None)'
      <4>1. \A l \in Kinds, y \in Spaces : IsAt(r, l, y) <=> l = "incoming" /\ y = None
        BY <3>1 DEF OnlyAt
      <4>2. \A l \in Kinds, y \in Spaces :
              IsAt(r, l, y)' <=> (IsAt(r, l, y) /\ l # "incoming") \/ (l = "burst" /\ y = None)
        BY <1>1, <1>2, <2>3 DEF IsAt
      <4> QED
        BY <4>1, <4>2 DEF OnlyAt
    <3> QED
      BY <2>1, <3>1, <3>2 DEF Placed, Kinds, Spaces
  <2>4. CASE ~ IsAt(r, "incoming", None)
    <3>1. \A l \in Kinds, y \in Spaces : IsAt(r, l, y)' <=> IsAt(r, l, y)
      BY <1>1, <1>2, <2>4 DEF IsAt
    <3> QED
      BY <2>1, <3>1, StaysPlaced
  <2> QED
    BY <2>3, <2>4
<1>4. NoRepeats' /\ LoopCarries' /\ FreeWorkersIdle' /\ DoneAccepted'
  BY <1>1, EmptySequence DEF OwnerInv, NoRepeats, LoopCarries, FreeWorkersIdle, DoneAccepted
<1> QED
  BY <1>3, <1>4 DEF OwnerInv, AllPlaced

\* What match does to the places of a request.
LEMMA EnqueuesAtBackend ==
    ASSUME TypeInv, NEW r \in Requests, MatchEnqueues(r)
    PROVE  \E b \in Backends : queue' = [queue EXCEPT ![b] = Append(@, r)]
<1>0. PICK reg \in RegistriesSeen(r) : \E hit \in Candidates(r, reg) \cup {NoHit} :
           \E c \in Routable(Live(Candidates(r, reg)), hit, Depth) :
              queue' = [queue EXCEPT ![BackendOf(c)] = Append(@, r)]
  BY DEF MatchEnqueues
<1>1. PICK hit \in Candidates(r, reg) \cup {NoHit} :
           \E c \in Routable(Live(Candidates(r, reg)), hit, Depth) :
              queue' = [queue EXCEPT ![BackendOf(c)] = Append(@, r)]
  BY <1>0
<1>2. PICK c \in Routable(Live(Candidates(r, reg)), hit, Depth) :
              queue' = [queue EXCEPT ![BackendOf(c)] = Append(@, r)]
  BY <1>1
<1>3. BackendOf(c) \in Backends
  BY RoutedPair DEF TypeInv, TypeOK
<1> QED
  BY <1>2, <1>3

\* The four ends of handleArrival and of a pass of drainOverflow, for the request
\* r that the loop carries in place k: settled, routed to a backend, or parked.
LEMMA OwnerRoutes ==
    ASSUME TypeInv, OwnerInv, NEW r \in Requests, NEW k \in {"burst", "held"}, IsAt(r, k, None),
           \A q \in Requests : IsAt(q, k, None)' <=> IsAt(q, k, None) /\ q # r,
           k = "burst" => held' = held,
           k = "held" => burst' = burst,
           IsInjective(burst'), LoopCarries', UNCHANGED <<incoming, work, pc>>,
           \/ Settle({r}, "discarded") /\ UNCHANGED <<queue, overflow>>
           \/ MatchRejects(r) /\ UNCHANGED <<queue, overflow>>
           \/ MatchEnqueues(r) /\ UNCHANGED <<client, done, overflow>>
           \/ (overflow' = Append(overflow, r) \/ PutBack(r)) /\ UNCHANGED <<client, done, queue>>
    PROVE  OwnerInv'
<1> USE InjectiveTypes
<1>0. k \in Kinds /\ None \in Spaces /\ "overflow" \in Kinds /\ "queue" \in Kinds
      /\ \A b \in Backends : b \in Spaces
  BY DEF Kinds, Spaces
<1>1. OnlyAt(r, k, None)
  BY <1>0, FoundOwned
<1>2. \A q \in Requests, y \in Spaces :
        /\ IsAt(q, "incoming", y)' <=> IsAt(q, "incoming", y)
        /\ IsAt(q, "worker", y)' <=> IsAt(q, "worker", y)
  BY DEF IsAt
<1>3. \A q \in Requests, y \in Spaces, l \in {"burst", "held"} :
        IsAt(q, l, y)' <=> IsAt(q, l, y) /\ ~ (q = r /\ l = k /\ y = None)
  BY DEF IsAt
<1>4. FreeWorkersIdle' /\ IsInjective(incoming')
  BY DEF OwnerInv, FreeWorkersIdle, NoRepeats
<1>5. CASE /\ Settle({r}, "discarded") \/ MatchRejects(r)
           /\ UNCHANGED <<queue, overflow>>
  <2>1. UNCHANGED client /\ done' = done \cup {r}
    BY <1>5 DEF Settle, MatchRejects
  <2>2. \A q \in Requests, y \in Spaces, l \in {"queue", "overflow"} :
          IsAt(q, l, y)' <=> IsAt(q, l, y)
    BY <1>5 DEF IsAt
  <2>3. Leaves(r, k, None)
    BY <1>2, <1>3, <2>1, <2>2 DEF Leaves, Kinds
  <2>4. AllPlaced' /\ DoneAccepted'
    BY <1>0, <2>3, RequestLeaves
  <2>5. NoRepeats'
    BY <1>4, <1>5 DEF OwnerInv, NoRepeats
  <2> QED
    BY <1>4, <2>4, <2>5 DEF OwnerInv
<1>6. CASE MatchEnqueues(r) /\ UNCHANGED <<client, done, overflow>>
  <2>1. PICK b \in Backends : queue' = [queue EXCEPT ![b] = Append(@, r)]
    BY <1>6, EnqueuesAtBackend
  <2>2. r \notin Range(queue[b])
    BY <1>0, <1>1 DEF OnlyAt, IsAt
  <2>3. /\ Range(queue'[b]) = Range(queue[b]) \cup {r} /\ IsInjective(queue'[b])
        /\ \A d \in Backends : d # b => queue'[d] = queue[d]
    BY <2>1, <2>2, AppendRange DEF OwnerInv, NoRepeats
  <2>4. \A q \in Requests, y \in Spaces :
          IsAt(q, "queue", y)' <=> IsAt(q, "queue", y) \/ (q = r /\ y = b)
    BY <2>3 DEF IsAt
  <2>5. \A q \in Requests, y \in Spaces : IsAt(q, "overflow", y)' <=> IsAt(q, "overflow", y)
    BY <1>6 DEF IsAt
  <2>6. Moves(r, k, None, "queue", b)
    BY <1>2, <1>3, <1>6, <2>4, <2>5 DEF Moves, Kinds
  <2>7. AllPlaced' /\ DoneAccepted'
    BY <1>0, <2>6, RequestMoves
  <2>8. NoRepeats'
    BY <1>4, <1>6, <2>3 DEF OwnerInv, NoRepeats
  <2> QED
    BY <1>4, <2>7, <2>8 DEF OwnerInv
<1>7. CASE (overflow' = Append(overflow, r) \/ PutBack(r)) /\ UNCHANGED <<client, done, queue>>
  <2>1. r \notin Range(overflow)
    BY <1>0, <1>1 DEF OnlyAt, IsAt
  <2>2. Range(overflow') = Range(overflow) \cup {r} /\ IsInjective(overflow')
    <3>1. IsInjective(overflow)
      BY DEF OwnerInv, NoRepeats
    <3>2. CASE overflow' = Append(overflow, r)
      BY <2>1, <3>1, <3>2, AppendRange
    <3>3. CASE PutBack(r)
      <4>1. overflow' = <<r>> \o overflow
        BY <3>3 DEF PutBack
      <4> QED
        BY <2>1, <3>1, <4>1, PushRange
    <3> QED
      BY <1>7, <3>2, <3>3
  <2>3. \A q \in Requests, y \in Spaces :
          /\ IsAt(q, "overflow", y)' <=> IsAt(q, "overflow", y) \/ (q = r /\ y = None)
          /\ IsAt(q, "queue", y)' <=> IsAt(q, "queue", y)
    BY <1>7, <2>2 DEF IsAt
  <2>4. Moves(r, k, None, "overflow", None)
    BY <1>2, <1>3, <1>7, <2>3 DEF Moves, Kinds
  <2>5. AllPlaced' /\ DoneAccepted'
    BY <1>0, <2>4, RequestMoves
  <2>6. NoRepeats'
    BY <1>4, <1>7, <2>2 DEF OwnerInv, NoRepeats
  <2> QED
    BY <1>4, <2>5, <2>6 DEF OwnerInv
<1> QED
  BY <1>5, <1>6, <1>7

LEMMA OwnerArrive ==
    ASSUME TypeInv, OwnerInv, Arrive
    PROVE  OwnerInv'
<1> USE InjectiveTypes
<1>0. burst # <<>> /\ Head(burst) \in Requests
  BY HeadTailProperties DEF Arrive
<1> PICK r \in Requests : r = Head(burst)
  BY <1>0
<1>1. /\ r \in Range(burst) /\ Range(burst') = Range(burst) \ {r} /\ IsInjective(burst')
  BY <1>0, TailRange DEF Arrive, OwnerInv, NoRepeats
<1>2. /\ IsAt(r, "burst", None)
      /\ \A q \in Requests : IsAt(q, "burst", None)' <=> IsAt(q, "burst", None) /\ q # r
  BY <1>1 DEF IsAt
<1>3. /\ phase = "arrive" /\ UNCHANGED <<incoming, phase, held, work, pc>>
      /\ LoopCarries'
  BY DEF Arrive, workerVars, OwnerInv, LoopCarries
<1>4. \/ Settle({r}, "discarded") /\ UNCHANGED <<queue, overflow>>
      \/ MatchRejects(r) /\ UNCHANGED <<queue, overflow>>
      \/ MatchEnqueues(r) /\ UNCHANGED <<client, done, overflow>>
      \/ overflow' = Append(overflow, r) /\ UNCHANGED <<client, done, queue>>
  BY DEF Arrive, Discard, queueVars, clientVars
<1> QED
  BY <1>1, <1>2, <1>3, <1>4, OwnerRoutes

LEMMA OwnerRouteHeld ==
    ASSUME TypeInv, OwnerInv, RouteHeld
    PROVE  OwnerInv'
<1> USE InjectiveTypes
<1>0. held \in Requests /\ None \notin Requests
  BY DispatcherAssumption DEF RouteHeld, TypeInv, TypeOK, LoopTypes
<1> PICK r \in Requests : r = held
  BY <1>0
<1>1. /\ phase = "drain" /\ held' = None /\ UNCHANGED <<incoming, burst, work, pc>>
  BY DEF RouteHeld, workerVars
<1>2. /\ IsAt(r, "held", None)
      /\ \A q \in Requests : IsAt(q, "held", None)' <=> IsAt(q, "held", None) /\ q # r
  BY <1>0, <1>1 DEF IsAt
<1>3. LoopCarries' /\ IsInjective(burst')
  BY <1>1 DEF OwnerInv, LoopCarries, NoRepeats
<1>4. \/ Settle({r}, "discarded") /\ UNCHANGED <<queue, overflow>>
      \/ MatchRejects(r) /\ UNCHANGED <<queue, overflow>>
      \/ MatchEnqueues(r) /\ UNCHANGED <<client, done, overflow>>
      \/ PutBack(r) /\ UNCHANGED <<client, done, queue>>
  BY DEF RouteHeld, Discard, queueVars, clientVars
<1> QED
  BY <1>1, <1>2, <1>3, <1>4, OwnerRoutes

LEMMA OwnerPopOverflow ==
    ASSUME TypeInv, OwnerInv, PopOverflow
    PROVE  OwnerInv'
<1> USE InjectiveTypes
<1>0. /\ phase = "drain" /\ held = None
      /\ UNCHANGED <<client, done, incoming, burst, queue, work, pc>>
  BY DEF PopOverflow, clientVars, workerVars
<1>a. burst = <<>>
  BY <1>0 DEF OwnerInv, LoopCarries
<1>1. CASE overflow = <<>>
  <2>1. UNCHANGED Carriers /\ LoopCarries' /\ UNCHANGED pc
    BY <1>0, <1>1, <1>a DEF PopOverflow, Carriers, LoopCarries
  <2> QED
    BY <2>1, OwnerSame
<1>2. CASE overflow # <<>>
  <2>0. Head(overflow) \in Requests
    BY <1>2, HeadTailProperties
  <2> PICK r \in Requests : r = Head(overflow)
    BY <2>0
  <2>1. held' = r /\ overflow' = Tail(overflow) /\ phase' = phase
    BY <1>2 DEF PopOverflow
  <2>2. /\ r \in Range(overflow) /\ Range(overflow') = Range(overflow) \ {r}
        /\ IsInjective(overflow')
    BY <1>2, <2>1, TailRange DEF OwnerInv, NoRepeats
  <2>3. IsAt(r, "overflow", None) /\ {"overflow", "held"} \subseteq Kinds /\ None \in Spaces
    BY <2>2 DEF IsAt, Kinds, Spaces
  <2>4. Moves(r, "overflow", None, "held", None)
    <3> SUFFICES ASSUME NEW q \in Requests, NEW l \in Kinds, NEW y \in Spaces
                 PROVE  IsAt(q, l, y)' <=> (IsAt(q, l, y) /\ ~ (q = r /\ l = "overflow" /\ y = None))
                                           \/ (q = r /\ l = "held" /\ y = None)
      BY <1>0 DEF Moves
    <3>1. CASE l = "overflow"
      BY <2>2, <3>1 DEF IsAt
    <3>2. CASE l = "held"
      BY <1>0, <2>1, <3>2, DispatcherAssumption DEF IsAt
    <3>3. CASE l \notin {"overflow", "held"}
      BY <1>0, <3>3 DEF IsAt
    <3> QED
      BY <3>1, <3>2, <3>3
  <2>5. AllPlaced' /\ DoneAccepted'
    BY <2>3, <2>4, RequestMoves
  <2>6. NoRepeats' /\ LoopCarries' /\ FreeWorkersIdle'
    BY <1>0, <1>a, <2>1, <2>2 DEF OwnerInv, NoRepeats, LoopCarries, FreeWorkersIdle
  <2> QED
    BY <2>5, <2>6 DEF OwnerInv
<1> QED
  BY <1>1, <1>2

LEMMA OwnerMigrate ==
    ASSUME TypeInv, OwnerInv, NEW src \in Backends, NEW target \in Backends,
           NEW i \in 1 .. Len(queue[src]), Migrate(src, i, target)
    PROVE  OwnerInv'
<1> USE InjectiveTypes
<1>0. queue[src][i] \in Requests
  BY ElementOfSeq
<1> PICK r \in Requests : r = queue[src][i]
  BY <1>0
<1>1. /\ src # target
      /\ queue' = [queue EXCEPT ![src] = RemoveIndex(@, i), ![target] = Append(@, r)]
      /\ UNCHANGED <<client, done, incoming, phase, burst, held, overflow, work, pc>>
  BY DEF Migrate, clientVars, workerVars
<1>2. /\ queue'[src] = RemoveIndex(queue[src], i) /\ queue'[target] = Append(queue[target], r)
      /\ \A d \in Backends \ {src, target} : queue'[d] = queue[d]
  BY <1>1
<1>3. r \in Range(queue[src])
  <2>1. i \in DOMAIN queue[src]
    BY LenProperties
  <2> QED
    BY <2>1 DEF Range
<1>4. IsAt(r, "queue", src) /\ "queue" \in Kinds /\ src \in Spaces /\ target \in Spaces
  BY <1>3 DEF IsAt, Kinds, Spaces
<1>5. r \notin Range(queue[target])
  <2>1. OnlyAt(r, "queue", src)
    BY <1>4, FoundOwned
  <2> QED
    BY <1>1, <1>4, <2>1 DEF OnlyAt, IsAt
<1>6. Range(queue'[src]) = Range(queue[src]) \ {r} /\ IsInjective(queue'[src])
  BY <1>2, RemoveIndexRange DEF OwnerInv, NoRepeats
<1>7. Range(queue'[target]) = Range(queue[target]) \cup {r} /\ IsInjective(queue'[target])
  BY <1>2, <1>5, AppendRange DEF OwnerInv, NoRepeats
<1>8. Moves(r, "queue", src, "queue", target)
  <2> SUFFICES ASSUME NEW q \in Requests, NEW l \in Kinds, NEW y \in Spaces
               PROVE  IsAt(q, l, y)' <=> (IsAt(q, l, y) /\ ~ (q = r /\ l = "queue" /\ y = src))
                                         \/ (q = r /\ l = "queue" /\ y = target)
    BY <1>1 DEF Moves
  <2>1. CASE l = "queue"
    BY <1>1, <1>2, <1>6, <1>7, <2>1 DEF IsAt
  <2>2. CASE l # "queue"
    BY <1>1, <2>2 DEF IsAt
  <2> QED
    BY <2>1, <2>2
<1>9. AllPlaced' /\ DoneAccepted'
  BY <1>4, <1>8, RequestMoves
<1>10. NoRepeats' /\ LoopCarries' /\ FreeWorkersIdle'
  BY <1>1, <1>2, <1>6, <1>7 DEF OwnerInv, NoRepeats, LoopCarries, FreeWorkersIdle
<1> QED
  BY <1>9, <1>10 DEF OwnerInv

\* Stop and AbortAll settle everything that is parked in a queue.
LEMMA OwnerFlush ==
    ASSUME TypeInv, OwnerInv, Stop \/ AbortAll
    PROVE  OwnerInv'
<1> USE InjectiveTypes
<1>1. /\ done' = done \cup Parked /\ overflow' = <<>> /\ queue' = [b \in Backends |-> <<>>]
      /\ UNCHANGED <<client, incoming, phase, burst, held, work, pc>>
  BY DEF Stop, AbortAll, DiscardParked, Discard, Settle, loopVars, workerVars
<1>2. Range(overflow') = {} /\ \A b \in Backends : Range(queue'[b]) = {}
  BY <1>1, EmptySequence
<1>3. \A r \in Requests : r \in Parked <=> \/ IsAt(r, "overflow", None)
                                          \/ \E b \in Backends : IsAt(r, "queue", b)
  BY DEF Parked, IsAt
<1>4. \A q \in Requests, l \in Kinds, y \in Spaces :
        IsAt(q, l, y)' <=> IsAt(q, l, y) /\ l \notin {"overflow", "queue"}
  BY <1>1, <1>2 DEF IsAt
<1>5. ASSUME NEW r \in Requests, r \in Parked
      PROVE  Placed(r)' /\ Owned(r)
  <2>1. PICK k \in {"overflow", "queue"}, x \in Spaces : IsAt(r, k, x)
    BY <1>3, <1>5 DEF Spaces
  <2>2. Owned(r) /\ OnlyAt(r, k, x)
    BY <2>1, FoundOwned DEF Kinds
  <2>3. Nowhere(r)'
    BY <1>4, <2>2 DEF OnlyAt, Nowhere
  <2>4. ~ Owned(r)'
    BY <1>1, <1>5 DEF Owned
  <2> QED
    BY <2>2, <2>3, <2>4 DEF Placed
<1>6. ASSUME NEW r \in Requests, r \notin Parked
      PROVE  Placed(r)'
  <2>1. Owned(r)' = Owned(r)
    BY <1>1, <1>6 DEF Owned
  <2>2. \A y \in Spaces : ~ IsAt(r, "overflow", y) /\ ~ IsAt(r, "queue", y)
    BY <1>3, <1>6 DEF IsAt
  <2>3. \A l \in Kinds, y \in Spaces : IsAt(r, l, y)' <=> IsAt(r, l, y)
    BY <1>4, <2>2
  <2> QED
    BY <2>1, <2>3, StaysPlaced
<1>7. DoneAccepted'
  <2>1. Parked \subseteq Requests
    BY ParkedRequests DEF TypeInv, TypeOK
  <2> QED
    BY <1>1, <1>5, <2>1 DEF OwnerInv, DoneAccepted, Owned
<1>8. NoRepeats' /\ LoopCarries' /\ FreeWorkersIdle'
  BY <1>1, EmptySequence DEF OwnerInv, NoRepeats, LoopCarries, FreeWorkersIdle
<1> QED
  BY <1>5, <1>6, <1>7, <1>8 DEF OwnerInv, AllPlaced

LEMMA OwnerStep == TypeInv /\ OwnerInv /\ [Next]_vars => OwnerInv'
<1> SUFFICES ASSUME TypeInv, OwnerInv, [Next]_vars PROVE OwnerInv'
  OBVIOUS
<1>1. ASSUME UNCHANGED <<Carriers, pc>>, LoopCarries'
      PROVE  OwnerInv'
  BY <1>1, OwnerSame
<1>2. ASSUME UNCHANGED <<Carriers, pc, phase>>
      PROVE  OwnerInv'
  BY <1>1, <1>2 DEF OwnerInv, LoopCarries, Carriers
<1>3. CASE DispatcherStep
  <2>1. CASE \E b \in Backends : PumpNext(b) \/ \E w \in Workers : PumpTake(b, w)
    <3> PICK b \in Backends : PumpNext(b) \/ \E w \in Workers : PumpTake(b, w)
      BY <2>1
    <3>1. CASE PumpNext(b)
      <4>1. UNCHANGED <<Carriers, pc>> /\ phase = "pump"
        BY <3>1 DEF PumpNext, Carriers, clientVars, queueVars, workerVars
      <4>2. LoopCarries'
        BY <4>1 DEF OwnerInv, LoopCarries, Carriers
      <4> QED
        BY <1>1, <4>1, <4>2
    <3> QED
      BY <3>1, OwnerPumpTake
  <2>2. CASE \E w \in Workers : HandOff(w)
    BY <2>2, OwnerHandOff
  <2>3. CASE \E src, target \in Backends : \E i \in 1 .. Len(queue[src]) : Migrate(src, i, target)
    BY <2>3, OwnerMigrate
  <2>4. CASE Exit \/ BurstHandled \/ BeginMigration \/ EndMigration
    <3>1. UNCHANGED <<Carriers, pc>>
      BY <2>4 DEF Exit, BurstHandled, BeginMigration, EndMigration, Carriers, clientVars,
         queueVars, workerVars
    <3>2. LoopCarries'
      BY <2>4, <3>1 DEF Exit, BurstHandled, BeginMigration, EndMigration, OwnerInv, LoopCarries,
         Carriers
    <3> QED
      BY <1>1, <3>1, <3>2
  <2> QED
    BY <1>3, <2>1, <2>2, <2>3, <2>4, OwnerWake, OwnerArrive, OwnerPopOverflow, OwnerRouteHeld
       DEF DispatcherStep
<1>4. CASE Environment
  <2>1. ASSUME NEW r \in Requests, SubmitCheck(r) \/ SubmitSend(r) \/ Disconnect(r)
        PROVE  OwnerInv'
    <3>1. CASE Disconnect(r)
      BY <1>2, <3>1 DEF Disconnect, Carriers, loopVars, queueVars, workerVars
    <3> QED
      BY <2>1, <3>1, OwnerSubmit
  <2>2. CASE (\E b \in Backends : HealthCheck(b)) \/ Rediscover
    BY <1>2, <2>2 DEF HealthCheck, Rediscover, Carriers, clientVars, loopVars, queueVars, workerVars
  <2> QED
    BY <1>4, <2>1, <2>2, OwnerFlush DEF Environment
<1>5. CASE \E w \in Workers : WorkerStep(w)
  BY <1>5, OwnerWorker
<1>6. CASE UNCHANGED vars
  BY <1>2, <1>6 DEF vars, Carriers, clientVars, loopVars, queueVars, workerVars
<1> QED
  BY <1>3, <1>4, <1>5, <1>6 DEF Next

LEMMA OwnerInvariant == Spec => []OwnerInv
<1> QED
  BY OwnerInit, OwnerStep, TypeInvariant, PTL DEF Spec

-----------------------------------------------------------------------------
(* Each request has one owner *)

LEMMA OneIndex ==
    ASSUME NEW S, NEW s \in Seq(S), IsInjective(s), NEW r
    PROVE  /\ r \notin Range(s) => At(s, r) = {}
           /\ r \in Range(s) => \E i : At(s, r) = {i}
<1>1. r \notin Range(s) => At(s, r) = {}
  BY DEF Range, At
<1>2. ASSUME r \in Range(s)
      PROVE  \E i : At(s, r) = {i}
  <2> PICK i \in DOMAIN s : s[i] = r
    BY <1>2 DEF Range
  <2>1. At(s, r) = {i}
    BY DEF At, IsInjective
  <2> QED
    BY <2>1
<1> QED
  BY <1>1, <1>2

\* The places of OwnerInv are the spots of OneOwner, each of them one spot.
LEMMA SpotsOfPlace ==
    ASSUME TypeInv, OwnerInv, NEW r \in Requests
    PROVE  /\ Nowhere(r) => Spots(r) = {}
           /\ \A k \in Kinds, x \in Spaces : OnlyAt(r, k, x) => \E spot : Spots(r) = {spot}
<1> USE InjectiveTypes
<1> DEFINE inc == At(incoming, r)
           bur == At(burst, r)
           hel == {h \in {held} : h = r}
           ove == At(overflow, r)
           que(b) == At(queue[b], r)
           wor == {w \in Workers : work[w] = r /\ pc[w] # "drop"}
           parts == UNION {{b} \X que(b) : b \in Backends}
<1>1. Spots(r) = ({"incoming"} \X inc) \cup ({"burst"} \X bur) \cup ({"held"} \X hel)
                 \cup ({"overflow"} \X ove) \cup parts \cup ({"worker"} \X wor)
  BY DEF Spots
<1>a. None \in Spaces /\ (\A b \in Backends : b \in Spaces) /\ (\A w \in Workers : w \in Spaces)
  BY DEF Spaces
<1>2. /\ ~ IsAt(r, "incoming", None) => inc = {}
      /\ IsAt(r, "incoming", None) => \E i : inc = {i}
  BY OneIndex DEF IsAt, OwnerInv, NoRepeats
<1>3. /\ ~ IsAt(r, "burst", None) => bur = {}
      /\ IsAt(r, "burst", None) => \E i : bur = {i}
  BY OneIndex DEF IsAt, OwnerInv, NoRepeats
<1>4. /\ ~ IsAt(r, "held", None) => hel = {}
      /\ IsAt(r, "held", None) => \E i : hel = {i}
  BY DEF IsAt
<1>5. /\ ~ IsAt(r, "overflow", None) => ove = {}
      /\ IsAt(r, "overflow", None) => \E i : ove = {i}
  BY OneIndex DEF IsAt, OwnerInv, NoRepeats
<1>6. \A b \in Backends : /\ ~ IsAt(r, "queue", b) => que(b) = {}
                          /\ IsAt(r, "queue", b) => \E i : que(b) = {i}
  BY OneIndex DEF IsAt, OwnerInv, NoRepeats
<1>7. \A w \in Workers : w \in wor <=> IsAt(r, "worker", w)
  BY DEF IsAt
<1>8. wor \subseteq Workers
  OBVIOUS
<1> HIDE DEF inc, bur, hel, ove, que, wor
<1>9. (\A b \in Backends : que(b) = {}) => parts = {}
  OBVIOUS
<1>10. \A c \in Backends : (\A b \in Backends : b # c => que(b) = {}) => parts = {c} \X que(c)
  OBVIOUS
<1> HIDE DEF parts
<1>11. ASSUME Nowhere(r)
       PROVE  Spots(r) = {}
  <2>1. \A l \in Kinds, y \in Spaces : ~ IsAt(r, l, y)
    BY <1>11 DEF Nowhere
  <2>2. inc = {} /\ bur = {} /\ hel = {} /\ ove = {} /\ parts = {} /\ wor = {}
    BY <1>a, <1>2, <1>3, <1>4, <1>5, <1>6, <1>7, <1>8, <1>9, <2>1 DEF Kinds
  <2> QED
    BY <1>1, <2>2
<1>12. ASSUME NEW k \in Kinds, NEW x \in Spaces, OnlyAt(r, k, x)
       PROVE  \E spot : Spots(r) = {spot}
  <2>1. \A l \in Kinds, y \in Spaces : IsAt(r, l, y) <=> l = k /\ y = x
    BY <1>12 DEF OnlyAt
  <2>2. IsAt(r, k, x)
    BY <2>1
  <2>3. k \in {"incoming", "burst", "held", "overflow"} => x = None
    BY <2>2 DEF IsAt
  <2>4. k # "incoming" => inc = {}
    BY <1>a, <1>2, <2>1 DEF Kinds
  <2>5. k # "burst" => bur = {}
    BY <1>a, <1>3, <2>1 DEF Kinds
  <2>6. k # "held" => hel = {}
    BY <1>a, <1>4, <2>1 DEF Kinds
  <2>7. k # "overflow" => ove = {}
    BY <1>a, <1>5, <2>1 DEF Kinds
  <2>8. k # "queue" => parts = {}
    BY <1>a, <1>6, <1>9, <2>1 DEF Kinds
  <2>9. k # "worker" => wor = {}
    BY <1>a, <1>7, <1>8, <2>1 DEF Kinds
  <2>10. CASE k = "incoming"
    <3>1. PICK i : inc = {i}
      BY <1>2, <2>2, <2>3, <2>10
    <3>2. Spots(r) = {<<"incoming", i>>}
      BY <1>1, <2>5, <2>6, <2>7, <2>8, <2>9, <2>10, <3>1
    <3> QED
      BY <3>2
  <2>11. CASE k = "burst"
    <3>1. PICK i : bur = {i}
      BY <1>3, <2>2, <2>3, <2>11
    <3>2. Spots(r) = {<<"burst", i>>}
      BY <1>1, <2>4, <2>6, <2>7, <2>8, <2>9, <2>11, <3>1
    <3> QED
      BY <3>2
  <2>12. CASE k = "held"
    <3>1. PICK i : hel = {i}
      BY <1>4, <2>2, <2>3, <2>12
    <3>2. Spots(r) = {<<"held", i>>}
      BY <1>1, <2>4, <2>5, <2>7, <2>8, <2>9, <2>12, <3>1
    <3> QED
      BY <3>2
  <2>13. CASE k = "overflow"
    <3>1. PICK i : ove = {i}
      BY <1>5, <2>2, <2>3, <2>13
    <3>2. Spots(r) = {<<"overflow", i>>}
      BY <1>1, <2>4, <2>5, <2>6, <2>8, <2>9, <2>13, <3>1
    <3> QED
      BY <3>2
  <2>14. CASE k = "queue"
    <3>0. x \in Backends
      BY <2>2, <2>14 DEF IsAt
    <3>1. PICK i : que(x) = {i}
      BY <1>6, <2>2, <2>14, <3>0
    <3>2. \A b \in Backends : b # x => que(b) = {}
      BY <1>a, <1>6, <2>1, <2>14
    <3>3. parts = {<<x, i>>}
      <4>1. parts = {x} \X que(x)
        BY <1>10, <3>0, <3>2
      <4> QED
        BY <3>1, <4>1
    <3>4. Spots(r) = {<<x, i>>}
      BY <1>1, <2>4, <2>5, <2>6, <2>7, <2>9, <2>14, <3>3
    <3> QED
      BY <3>4
  <2>15. CASE k = "worker"
    <3>0. x \in Workers
      BY <2>2, <2>15 DEF IsAt
    <3>1. wor = {x}
      BY <1>a, <1>7, <1>8, <2>1, <2>15, <3>0
    <3>2. Spots(r) = {<<"worker", x>>}
      BY <1>1, <2>4, <2>5, <2>6, <2>7, <2>8, <2>15, <3>1
    <3> QED
      BY <3>2
  <2> QED
    BY <2>10, <2>11, <2>12, <2>13, <2>14, <2>15 DEF Kinds
<1> QED
  BY <1>11, <1>12

\* A request that Submit accepted is in exactly one place until it is settled and
\* nowhere afterwards: in the channel, in the burst, held by drainOverflow, in the
\* overflow queue, in one backend queue, or with one worker; also when workers
\* requeue it, migrateStale moves it, or Stop and AbortAll interfere.
THEOREM EachRequestOneOwner == Spec => []OneOwner
<1>1. TypeInv /\ OwnerInv => OneOwner
  <2> SUFFICES ASSUME TypeInv, OwnerInv, NEW r \in Requests
               PROVE  Cardinality(Spots(r)) = IF Owned(r) THEN 1 ELSE 0
    BY DEF OneOwner, Owned
  <2>1. CASE Owned(r)
    <3>1. \E k \in Kinds, x \in Spaces : OnlyAt(r, k, x)
      BY <2>1 DEF OwnerInv, AllPlaced, Placed
    <3>2. PICK spot : Spots(r) = {spot}
      BY <3>1, SpotsOfPlace
    <3>3. Cardinality({spot}) = 1
      BY FS_Singleton
    <3> QED
      BY <2>1, <3>2, <3>3
  <2>2. CASE ~ Owned(r)
    <3>1. Spots(r) = {}
      BY <2>2, SpotsOfPlace DEF OwnerInv, AllPlaced, Placed
    <3> QED
      BY <2>2, <3>1, FS_EmptySet
  <2> QED
    BY <2>1, <2>2
<1> QED
  BY <1>1, OwnerInvariant, TypeInvariant, PTL

-----------------------------------------------------------------------------
(* Who works at a backend *)

LEMMA QueueInvariant == Spec => []QueueInv
<1>1. Init => QueueInv
  BY SelectionAssumption DEF Init, QueueInv, QueueBound, IdleInv
<1>2. TypeInv /\ QueueInv /\ [Next]_vars => QueueInv'
  BY QueueStep
<1> QED
  BY <1>1, <1>2, TypeInvariant, PTL DEF Spec

\* From the pump to its slot a worker without one looks for it.
LookStates == {"handoff", "start", "acquire", "refresh", "gate", "backoff"}
Looking(w) == pc[w] \in LookStates /\ slot[w] = NoSlot

AllInFlight == \A w \in Workers : pc[w] # "free" => w \in inFlight[site[w]]

OneLooking == \A v, w \in Workers : Looking(v) /\ Looking(w) /\ site[v] = site[w] => v = w

IdleVacant == \A b \in idle, w \in Workers : pc[w] # "free" => site[w] # b

\* AbortAll forgets the in-flight requests whose workers go on.
SiteInv == ~ aborted => AllInFlight /\ OneLooking /\ IdleVacant

\* No worker arrives or starts to look, and only those that leave are dropped
\* from the in-flight lists.
LEMMA SiteKeeps ==
    ASSUME SiteInv, aborted' = aborted, idle' \subseteq idle,
           \A w \in Workers : pc'[w] # "free" =>
              /\ pc[w] # "free" /\ site'[w] = site[w]
              /\ w \in inFlight[site[w]] => w \in inFlight'[site[w]],
           \A w \in Workers : Looking(w)' => Looking(w)
    PROVE  SiteInv'
<1> SUFFICES ASSUME ~ aborted'
             PROVE  AllInFlight' /\ OneLooking' /\ IdleVacant'
  BY DEF SiteInv
<1>1. AllInFlight /\ OneLooking /\ IdleVacant
  BY DEF SiteInv
<1>2. AllInFlight'
  BY <1>1 DEF AllInFlight
<1>3. OneLooking'
  <2>1. \A w \in Workers : Looking(w)' => pc'[w] # "free"
    BY DEF Looking, LookStates
  <2> QED
    BY <1>1, <2>1 DEF OneLooking
<1>4. IdleVacant'
  BY <1>1 DEF IdleVacant
<1> QED
  BY <1>2, <1>3, <1>4

LEMMA SiteSame ==
    ASSUME SiteInv, UNCHANGED <<workerVars, aborted>>, idle' \subseteq idle
    PROVE  SiteInv'
  BY SiteKeeps DEF workerVars, Looking

LEMMA SitePumpTake ==
    ASSUME TypeInv, QueueInv, SiteInv, NEW b \in Backends, NEW w \in Workers, PumpTake(b, w)
    PROVE  SiteInv'
<1> USE DEF TypeInv, TypeOK, WorkerTypes
<1>1. /\ pc[w] = "free" /\ pc' = [pc EXCEPT ![w] = "handoff"] /\ site' = [site EXCEPT ![w] = b]
      /\ inFlight' = [inFlight EXCEPT ![b] = @ \cup {w}] /\ phase = "pump"
      /\ UNCHANGED <<idle, aborted>>
  BY DEF PumpTake, loopVars, envVars
<1>2. idle = {}
  BY <1>1 DEF QueueInv, IdleInv
<1> SUFFICES ASSUME ~ aborted
             PROVE  AllInFlight' /\ OneLooking' /\ IdleVacant'
  BY <1>1 DEF SiteInv
<1>3. AllInFlight /\ OneLooking
  BY DEF SiteInv
<1>4. AllInFlight'
  <2> SUFFICES ASSUME NEW v \in Workers, pc'[v] # "free"
               PROVE  v \in inFlight'[site'[v]]
    BY DEF AllInFlight
  <2>1. CASE v = w
    BY <1>1, <2>1
  <2>2. CASE v # w
    <3>1. v \in inFlight[site[v]] /\ site[v] \in Backends /\ site'[v] = site[v]
      BY <1>1, <1>3, <2>2 DEF AllInFlight, WorkerShape
    <3> QED
      BY <1>1, <3>1
  <2> QED
    BY <2>1, <2>2
<1>5. IdleVacant'
  BY <1>1, <1>2 DEF IdleVacant
<1>6. \A v \in Workers \ {w} : /\ pc'[v] = pc[v] /\ site'[v] = site[v] /\ slot'[v] = slot[v]
                               /\ Looking(v)' <=> Looking(v)
  <2>1. \A v \in Workers \ {w} : slot'[v] = slot[v]
    BY DEF PumpTake, TryAcquire
  <2> QED
    BY <1>1, <2>1 DEF Looking
<1>7. CASE HasPool(b)
  <2>1. slot'[w] # NoSlot
    <3>1. TryAcquire(w, b, model[Head(queue[b])])
      BY <1>7 DEF PumpTake
    <3>2. \E s \in FreeSlots(b, model[Head(queue[b])]) : slot' = [slot EXCEPT ![w] = s]
      BY <3>1, AcquiresFree
    <3> QED
      BY <3>2, FreeSlotsNat DEF NoSlot
  <2>2. \A v \in Workers : Looking(v)' => v # w /\ Looking(v)
    BY <1>6, <2>1 DEF Looking
  <2>3. OneLooking'
    BY <1>3, <1>6, <2>2 DEF OneLooking
  <2> QED
    BY <1>4, <1>5, <2>3
<1>8. CASE ~ HasPool(b)
  <2>1. inFlight[b] = {}
    BY <1>8 DEF PumpTake, Dispatchable
  <2>2. \A v \in Workers \ {w} : Looking(v)' => Looking(v) /\ site'[v] # b
    <3>1. \A v \in Workers : Looking(v) => pc[v] # "free"
      BY DEF Looking, LookStates
    <3> QED
      BY <1>3, <1>6, <2>1, <3>1 DEF AllInFlight
  <2>3. OneLooking'
    <3> SUFFICES ASSUME NEW u \in Workers, NEW v \in Workers, Looking(u)', Looking(v)',
                        site'[u] = site'[v]
                 PROVE  u = v
      BY DEF OneLooking
    <3>1. site'[w] = b
      BY <1>1
    <3> QED
      BY <1>3, <1>6, <2>2, <3>1 DEF OneLooking
  <2> QED
    BY <1>4, <1>5, <2>3
<1> QED
  BY <1>7, <1>8

\* A worker that ends leaves the list of its backend.
LEMMA SiteLeaves ==
    ASSUME TypeInv, SiteInv, NEW w \in Workers, pc[w] # "free", DropInFlight(w), Retire(w),
           UNCHANGED <<idle, aborted>>, \A v \in Workers : v # w => slot'[v] = slot[v]
    PROVE  SiteInv'
<1> USE DEF TypeInv, TypeOK, WorkerTypes
<1>1. /\ pc' = [pc EXCEPT ![w] = "free"] /\ site' = [site EXCEPT ![w] = None]
      /\ inFlight' = [inFlight EXCEPT ![site[w]] = @ \ {w}] /\ site[w] \in Backends
  BY DEF DropInFlight, Retire, WorkerShape
<1>2. \A v \in Workers : pc'[v] # "free" =>
         /\ pc[v] # "free" /\ site'[v] = site[v]
         /\ v \in inFlight[site[v]] => v \in inFlight'[site[v]]
  BY <1>1
<1>3. \A v \in Workers : Looking(v)' => Looking(v)
  BY <1>1 DEF Looking, LookStates
<1> QED
  BY <1>2, <1>3, SiteKeeps

\* A worker that goes on stays in its list; it looks for a slot after the step
\* only if it did before.
LEMMA SiteGoesOn ==
    ASSUME TypeInv, SiteInv, NEW w \in Workers, NEW l, pc[w] # "free",
           pc' = [pc EXCEPT ![w] = l], UNCHANGED <<inFlight, site, idle, aborted>>,
           \A v \in Workers : v # w => slot'[v] = slot[v],
           l \in LookStates => slot' = slot /\ (Looking(w) \/ slot[w] # NoSlot)
    PROVE  SiteInv'
<1> USE DEF TypeInv, TypeOK, WorkerTypes
<1>1. \A v \in Workers : pc'[v] # "free" => pc[v] # "free"
  OBVIOUS
<1>2. \A v \in Workers : Looking(v)' => Looking(v)
  BY DEF Looking
<1> QED
  BY <1>1, <1>2, SiteKeeps

LEMMA SiteWorker ==
    ASSUME TypeInv, SiteInv, NEW w \in Workers, WorkerStep(w)
    PROVE  SiteInv'
<1>1. CASE WorkerFinished(w)
  BY <1>1, SiteLeaves DEF WorkerFinished, WorkerOnly, loopVars, envVars
<1>2. CASE ~ WorkerFinished(w)
  <2>1. /\ pc[w] # "free" /\ UNCHANGED <<inFlight, site, idle, aborted>>
        /\ pc[w] \in Slotless => slot[w] = NoSlot
    BY <1>2 DEF WorkerStep, PromptTooLong, Begin, Acquire, Refresh, Gate, Requeue, Retry, Backoff,
       Serve, Finish, GiveUp, WorkerOnly, loopVars, envVars, TypeInv, WorkerShape
  <2>2. CASE PromptTooLong(w) \/ Serve(w)
    <3>1. \A v \in Workers : v # w => slot'[v] = slot[v]
      BY <2>2, GivesBack DEF PromptTooLong, Serve, TypeInv, TypeOK, WorkerTypes
    <3>2. pc' = [pc EXCEPT ![w] = "finish"] /\ "finish" \notin LookStates
      BY <2>2 DEF PromptTooLong, Serve, Goto, LookStates
    <3> QED
      BY <2>1, <3>1, <3>2, SiteGoesOn
  <2>3. CASE Begin(w)
    <3>1. CASE slot[w] # NoSlot
      <4>1. pc' = [pc EXCEPT ![w] = "serve"] /\ "serve" \notin LookStates /\ slot' = slot
        BY <2>3, <3>1 DEF Begin, Goto, LookStates
      <4> QED
        BY <2>1, <4>1, SiteGoesOn
    <3>2. CASE slot[w] = NoSlot
      <4>1. pc' = [pc EXCEPT ![w] = "acquire"] /\ Looking(w) /\ slot' = slot
        BY <2>3, <3>2 DEF Begin, Goto, LookStates, Looking
      <4> QED
        BY <2>1, <4>1, SiteGoesOn
    <3> QED
      BY <3>1, <3>2
  <2>4. CASE Acquire(w) \/ Retry(w) \/ Gate(w) \/ Backoff(w) \/ Refresh(w) \/ Requeue(w)
    <3>0. Looking(w)
      BY <2>1, <2>4 DEF Looking, LookStates, Slotless, Acquire, Retry, Gate, Backoff, Refresh, Requeue
    <3>1. CASE slot' = slot /\ \E l : pc' = [pc EXCEPT ![w] = l]
      <4> PICK l : pc' = [pc EXCEPT ![w] = l]
        BY <3>1
      <4> QED
        BY <2>1, <3>0, <3>1, SiteGoesOn
    <3>2. CASE TryAcquire(w, site[w], model[work[w]]) /\ pc' = [pc EXCEPT ![w] = "serve"]
      <4>1. \A v \in Workers : v # w => slot'[v] = slot[v]
        BY <3>2 DEF TryAcquire, TypeInv, TypeOK, WorkerTypes
      <4>2. "serve" \notin LookStates
        BY DEF LookStates
      <4> QED
        BY <2>1, <3>2, <4>1, <4>2, SiteGoesOn
    <3> QED
      BY <2>4, <3>1, <3>2 DEF Acquire, Retry, Gate, Backoff, Refresh, Requeue, GiveUp, Goto
  <2>5. CASE Finish(w)
    <3>1. pc' = [pc EXCEPT ![w] = "drop"] /\ "drop" \notin LookStates /\ slot' = slot
      BY <2>5 DEF Finish, Goto, LookStates
    <3> QED
      BY <2>1, <3>1, SiteGoesOn
  <2> QED
    BY <1>2, <2>2, <2>3, <2>4, <2>5 DEF WorkerStep
<1> QED
  BY <1>1, <1>2

LEMMA SiteStep == TypeInv /\ QueueInv /\ SiteInv /\ [Next]_vars => SiteInv'
<1> SUFFICES ASSUME TypeInv, QueueInv, SiteInv, [Next]_vars PROVE SiteInv'
  OBVIOUS
<1>1. CASE DispatcherStep
  <2>1. CASE \E b \in Backends : PumpNext(b) \/ \E w \in Workers : PumpTake(b, w)
    <3> PICK b \in Backends : PumpNext(b) \/ \E w \in Workers : PumpTake(b, w)
      BY <2>1
    <3> QED
      BY SitePumpTake, SiteSame DEF PumpNext, envVars
  <2>2. CASE \E w \in Workers : HandOff(w)
    <3> PICK w \in Workers : HandOff(w)
      BY <2>2
    <3>0. pc[w] = "handoff" /\ UNCHANGED <<idle, aborted>>
      BY DEF HandOff, loopVars, envVars
    <3>1. CASE work[w] \in dead
      <4>1. GiveBack(w) /\ DropInFlight(w) /\ Retire(w)
        BY <3>1 DEF HandOff
      <4>2. \A v \in Workers : v # w => slot'[v] = slot[v]
        BY <4>1, GivesBack DEF TypeInv, TypeOK, WorkerTypes
      <4> QED
        BY <3>0, <4>1, <4>2, SiteLeaves
    <3>2. CASE work[w] \notin dead
      <4>1. pc' = [pc EXCEPT ![w] = "start"] /\ UNCHANGED <<slot, inFlight, site>>
        BY <3>2 DEF HandOff
      <4>2. Looking(w) \/ slot[w] # NoSlot
        BY <3>0 DEF Looking, LookStates
      <4>3. (\A v \in Workers : v # w => slot'[v] = slot[v]) /\ pc[w] # "free"
        BY <3>0, <4>1
      <4> QED
        BY <3>0, <4>1, <4>2, <4>3, SiteGoesOn
    <3> QED
      BY <3>1, <3>2
  <2>3. CASE BeginMigration
    <3>1. UNCHANGED <<workerVars, aborted>> /\ \A b \in idle' : b \in Backends /\ inFlight[b] = {}
      BY <2>3 DEF BeginMigration, IdleBackends, envVars, TypeInv, TypeOK, EnvTypes
    <3>2. ~ aborted => IdleVacant'
      BY <3>1 DEF SiteInv, IdleVacant, AllInFlight, workerVars
    <3> QED
      BY <3>1, <3>2 DEF SiteInv, AllInFlight, OneLooking, Looking, workerVars
  <2>4. CASE \/ Wake \/ Exit \/ Arrive \/ BurstHandled \/ PopOverflow \/ RouteHeld \/ EndMigration
             \/ \E src, target \in Backends : \E i \in 1 .. Len(queue[src]) : Migrate(src, i, target)
    <3>1. UNCHANGED <<workerVars, aborted>> /\ idle' \subseteq idle
      BY <2>4 DEF Wake, Exit, Arrive, BurstHandled, PopOverflow, RouteHeld, EndMigration, Migrate,
         envVars
    <3> QED
      BY <3>1, SiteSame
  <2> QED
    BY <1>1, <2>1, <2>2, <2>3, <2>4 DEF DispatcherStep
<1>2. CASE Environment
  <2>1. CASE AbortAll
    BY <2>1 DEF AbortAll, SiteInv
  <2>2. CASE ~ AbortAll
    <3>1. UNCHANGED <<workerVars, aborted, idle>>
      BY <1>2, <2>2 DEF Environment, SubmitCheck, SubmitSend, Disconnect, HealthCheck, Rediscover,
         Stop, loopVars, envVars
    <3> QED
      BY <3>1, SiteSame
  <2> QED
    BY <2>1, <2>2
<1>3. CASE \E w \in Workers : WorkerStep(w)
  BY <1>3, SiteWorker
<1>4. CASE UNCHANGED vars
  BY <1>4, SiteSame DEF vars, loopVars, envVars
<1> QED
  BY <1>1, <1>2, <1>3, <1>4 DEF Next

LEMMA SiteInvariant == Spec => []SiteInv
<1>1. Init => SiteInv
  BY DEF Init, SiteInv, AllInFlight, OneLooking, Looking, LookStates, IdleVacant
<1> QED
  BY <1>1, SiteStep, TypeInvariant, QueueInvariant, PTL DEF Spec

\* The in-flight list of a backend is exactly the workers running there, from the
\* pump's append to workerFinished, as long as AbortAll has not emptied it: what
\* migrateStale and the pump take for an idle backend is one.
THEOREM InFlightListExact == Spec => []InFlightExact
<1>1. TypeInv /\ SiteInv => InFlightExact
  <2> SUFFICES ASSUME TypeInv, SiteInv, ~ aborted, NEW b \in Backends
               PROVE  inFlight[b] = {w \in Workers : pc[w] # "free" /\ site[w] = b}
    BY DEF InFlightExact
  <2>1. inFlight[b] \subseteq Workers /\ \A w \in inFlight[b] : pc[w] # "free" /\ site[w] = b
    BY DEF TypeInv, TypeOK, WorkerTypes, WorkerShape
  <2>2. \A w \in Workers : pc[w] # "free" => w \in inFlight[site[w]]
    BY DEF SiteInv, AllInFlight
  <2> QED
    BY <2>1, <2>2
<1> QED
  BY <1>1, SiteInvariant, TypeInvariant, PTL

\* At most one worker per backend discovers a pool: the pump sends one to a
\* backend without a pool only when nothing is in flight there, and a worker that
\* has a slot never goes back to look for one.
THEOREM SingleDiscoverer == Spec => []OneDiscoverer
<1>1. TypeInv /\ SiteInv => OneDiscoverer
  <2>1. TypeInv => \A w \in Workers :
            pc[w] \in {"acquire", "refresh", "gate", "backoff"} => Looking(w)
    BY DEF TypeInv, WorkerShape, Slotless, Looking, LookStates
  <2> QED
    BY <2>1 DEF SiteInv, OneLooking, OneDiscoverer
<1> QED
  BY <1>1, SiteInvariant, TypeInvariant, PTL

-----------------------------------------------------------------------------
(* A request is settled once *)

\* A worker in finish has written the outcome and will close the channel done.
Answered(r) == \E w \in Workers : pc[w] = "finish" /\ work[w] = r
OpenInv == \A r \in Requests : outcome[r] # "open" => r \in done \/ Answered(r)

\* A request that somebody carries, and no worker has answered, has no outcome yet.
LEMMA StillOpen ==
    ASSUME OwnerInv, OpenInv, NEW r \in Requests, NEW k \in Kinds, NEW x \in Spaces,
           IsAt(r, k, x), k = "worker" => pc[x] # "finish"
    PROVE  outcome[r] = "open"
<1>1. r \notin done /\ OnlyAt(r, k, x)
  BY FoundOwned DEF Owned
<1>2. ASSUME NEW w \in Workers, pc[w] = "finish", work[w] = r
      PROVE  FALSE
  <2>1. IsAt(r, "worker", w) /\ "worker" \in Kinds /\ w \in Spaces
    BY <1>2 DEF IsAt, Kinds, Spaces
  <2>2. k = "worker" /\ x = w
    BY <1>1, <2>1 DEF OnlyAt
  <2> QED
    BY <1>2, <2>2
<1> QED
  BY <1>1, <1>2 DEF OpenInv, Answered

\* The places a step can settle a request from.
Carried(r) ==
    \E k \in Kinds, x \in Spaces : IsAt(r, k, x) /\ (k = "worker" => pc[x] # "finish")

\* What a step does to the outcomes: it settles requests that are carried, and
\* forgets no answer that is being delivered.
OutcomeStep ==
    /\ \A r \in Requests :
          outcome'[r] # outcome[r] => Carried(r) /\ (r \in done' \/ Answered(r)')
    /\ done \subseteq done'
    /\ \A r \in Requests : Answered(r) => r \in done' \/ Answered(r)'

LEMMA OutcomesKept ==
    ASSUME UNCHANGED outcome, done \subseteq done',
           \A w \in Workers : pc[w] = "finish" =>
              work[w] \in done' \/ (pc'[w] = "finish" /\ work'[w] = work[w])
    PROVE  OutcomeStep
  BY DEF OutcomeStep, Answered

\* A step settles the requests R, and moves no worker from finish.
LEMMA OutcomesSettled ==
    ASSUME NEW R, done' = done \cup R, \A r \in R \cap Requests : Carried(r),
           \A r \in Requests \ R : outcome'[r] = outcome[r],
           \A w \in Workers : pc[w] = "finish" => pc'[w] = "finish" /\ work'[w] = work[w]
    PROVE  OutcomeStep
  BY DEF OutcomeStep, Answered

LEMMA CarriedByLoop ==
    ASSUME TypeInv, NEW r \in Requests
    PROVE  /\ r \in Range(burst) => Carried(r)
           /\ r = held => Carried(r)
           /\ r \in Parked => Carried(r)
  BY DEF Carried, IsAt, Kinds, Spaces, Parked

LEMMA CarriedByWorker ==
    ASSUME NEW w \in Workers, pc[w] \notin {"drop", "finish"}
    PROVE  Carried(work[w])
  BY DEF Carried, IsAt, Kinds, Spaces

LEMMA OutcomeWorker ==
    ASSUME TypeInv, NEW w \in Workers, WorkerStep(w)
    PROVE  OutcomeStep
<1> USE InjectiveTypes
<1>0. pc[w] # "free" => work[w] \in Requests
  BY DEF TypeInv, WorkerShape
<1>1. CASE PromptTooLong(w) \/ Serve(w)
  <2>1. /\ pc[w] \in {"start", "serve"} /\ pc' = [pc EXCEPT ![w] = "finish"]
        /\ UNCHANGED <<done, work>>
        /\ \A r \in Requests : r # work[w] => outcome'[r] = outcome[r]
    BY <1>1 DEF PromptTooLong, Serve, Goto, TypeInv, TypeOK, ClientTypes
  <2>2. Answered(work[w])'
    BY <2>1 DEF Answered
  <2>3. Carried(work[w])
    BY <2>1, CarriedByWorker
  <2>4. \A r \in Requests : Answered(r) => Answered(r)'
    BY <2>1 DEF Answered
  <2> QED
    BY <2>1, <2>2, <2>3, <2>4 DEF OutcomeStep
<1>2. CASE Finish(w)
  BY <1>2, OutcomesKept DEF Finish, Goto
<1>3. CASE \E how : GiveUp(w, how) /\ pc[w] \in {"acquire", "gate", "backoff"}
  <2>1. /\ done' = done \cup {work[w]} /\ pc' = [pc EXCEPT ![w] = "drop"] /\ work' = work
        /\ \A r \in Requests \ {work[w]} : outcome'[r] = outcome[r]
        /\ pc[w] \notin {"drop", "finish"}
    BY <1>3 DEF GiveUp, Goto, Settle
  <2>2. \A r \in {work[w]} \cap Requests : Carried(r)
    BY <2>1, CarriedByWorker
  <2>3. \A v \in Workers : pc[v] = "finish" => pc'[v] = "finish" /\ work'[v] = work[v]
    BY <2>1
  <2> QED
    BY <2>1, <2>2, <2>3, OutcomesSettled
<1>4. CASE pc[w] # "finish" /\ UNCHANGED <<outcome, done>>
           /\ \A v \in Workers : v # w => pc'[v] = pc[v] /\ work'[v] = work[v]
  BY <1>4, OutcomesKept
<1> QED
  BY <1>1, <1>2, <1>3, <1>4 DEF WorkerStep, Begin, Acquire, Refresh, Gate, Requeue, Retry, Backoff,
     WorkerFinished, Retire, Goto, clientVars

LEMMA OutcomeLoop ==
    ASSUME TypeInv, Arrive \/ RouteHeld
    PROVE  OutcomeStep
<1> USE InjectiveTypes
<1>0. UNCHANGED <<pc, work>>
  BY DEF Arrive, RouteHeld, workerVars
<1>1. ASSUME NEW r \in Requests, Carried(r), NEW how, Settle({r}, how)
      PROVE  OutcomeStep
  BY <1>0, <1>1, OutcomesSettled DEF Settle
<1>2. CASE UNCHANGED <<outcome, done>>
  BY <1>0, <1>2, OutcomesKept
<1>3. CASE Arrive
  <2>1. Head(burst) \in Requests /\ Carried(Head(burst))
    BY <1>3, HeadTailProperties, TailRange, CarriedByLoop DEF Arrive
  <2> QED
    BY <1>1, <1>2, <1>3, <2>1 DEF Arrive, Discard, MatchRejects, clientVars
<1>4. CASE RouteHeld
  <2>1. held \in Requests /\ Carried(held)
    BY <1>4, CarriedByLoop DEF RouteHeld, TypeInv, TypeOK, LoopTypes
  <2> QED
    BY <1>1, <1>2, <1>4, <2>1 DEF RouteHeld, Discard, MatchRejects, clientVars
<1> QED
  BY <1>3, <1>4

LEMMA OutcomeNext == ASSUME TypeInv, [Next]_vars PROVE OutcomeStep
<1> USE InjectiveTypes
<1>1. CASE UNCHANGED <<outcome, done, pc, work>>
  BY <1>1, OutcomesKept
<1>2. CASE DispatcherStep
  <2>1. CASE \E b \in Backends : PumpNext(b) \/ \E w \in Workers : PumpTake(b, w)
    <3> PICK b \in Backends : PumpNext(b) \/ \E w \in Workers : PumpTake(b, w)
      BY <2>1
    <3>1. CASE PumpNext(b)
      BY <1>1, <3>1 DEF PumpNext, clientVars, workerVars
    <3>2. ASSUME NEW w \in Workers, PumpTake(b, w)
          PROVE  OutcomeStep
      BY <3>2, OutcomesKept DEF PumpTake, clientVars
    <3> QED
      BY <3>1, <3>2
  <2>2. CASE \E w \in Workers : HandOff(w)
    <3> PICK w \in Workers : HandOff(w)
      BY <2>2
    <3>1. CASE work[w] \in dead
      <4>1. /\ pc[w] = "handoff" /\ done' = done \cup {work[w]}
            /\ pc' = [pc EXCEPT ![w] = "free"] /\ work' = [work EXCEPT ![w] = None]
            /\ \A r \in Requests \ {work[w]} : outcome'[r] = outcome[r]
        BY <3>1 DEF HandOff, Discard, Settle, Retire
      <4>2. \A r \in {work[w]} \cap Requests : Carried(r)
        BY <4>1, CarriedByWorker
      <4>3. \A v \in Workers : pc[v] = "finish" => pc'[v] = "finish" /\ work'[v] = work[v]
        BY <4>1
      <4> QED
        BY <4>1, <4>2, <4>3, OutcomesSettled
    <3>2. CASE work[w] \notin dead
      BY <3>2, OutcomesKept DEF HandOff, clientVars
    <3> QED
      BY <3>1, <3>2
  <2>3. CASE \/ Wake \/ Exit \/ BurstHandled \/ PopOverflow \/ BeginMigration \/ EndMigration
             \/ \E src, target \in Backends : \E i \in 1 .. Len(queue[src]) : Migrate(src, i, target)
    BY <1>1, <2>3 DEF Wake, Exit, BurstHandled, PopOverflow, BeginMigration, EndMigration, Migrate,
       clientVars, workerVars
  <2> QED
    BY <1>2, <2>1, <2>2, <2>3, OutcomeLoop DEF DispatcherStep
<1>3. CASE Environment
  <2>1. CASE Stop \/ AbortAll
    <3>1. /\ done' = done \cup Parked /\ UNCHANGED <<pc, work>>
          /\ \A r \in Requests \ Parked : outcome'[r] = outcome[r]
      BY <2>1 DEF Stop, AbortAll, DiscardParked, Discard, Settle, workerVars
    <3> QED
      BY <3>1, CarriedByLoop, OutcomesSettled
  <2>2. CASE ~ (Stop \/ AbortAll)
    BY <1>1, <1>3, <2>2 DEF Environment, SubmitCheck, SubmitSend, Disconnect, HealthCheck,
       Rediscover, clientVars, workerVars
  <2> QED
    BY <2>1, <2>2
<1>4. CASE UNCHANGED vars
  BY <1>1, <1>4 DEF vars, clientVars, workerVars
<1> QED
  BY <1>2, <1>3, <1>4, OutcomeWorker DEF Next

LEMMA OpenStep ==
    ASSUME OwnerInv, OpenInv, OutcomeStep
    PROVE  /\ OpenInv'
           /\ \A r \in Requests : outcome[r] # "open" => outcome'[r] = outcome[r]
<1>1. \A r \in Requests : Carried(r) => outcome[r] = "open"
  BY StillOpen DEF Carried
<1> QED
  BY <1>1 DEF OutcomeStep, OpenInv

\* A request is settled once: what serve answered, or the loop rejected or
\* discarded, no worker, no Stop and no AbortAll settles again in another way.
THEOREM SettledOnlyOnce == Spec => SettledOnce
<1>1. Init => OpenInv
  BY DEF Init, OpenInv
<1>2. TypeInv /\ OwnerInv /\ OpenInv /\ [Next]_vars => OpenInv'
  BY OutcomeNext, OpenStep
<1>3. TypeInv /\ OwnerInv /\ OpenInv /\ [Next]_vars
        => [\A r \in Requests : outcome[r] # "open" => outcome'[r] = outcome[r]]_vars
  BY OutcomeNext, OpenStep
<1> QED
  BY <1>1, <1>2, <1>3, TypeInvariant, OwnerInvariant, PTL DEF Spec, SettledOnce

-----------------------------------------------------------------------------
(* The order of the queues *)

\* What a step does to the backend queues.
Routes(r, b) ==
    /\ queue' = [queue EXCEPT ![b] = Append(@, r)]
    /\ \A c \in Backends : r \notin Range(queue[c])

TakesHead(b) == queue[b] # <<>> /\ queue' = [queue EXCEPT ![b] = Tail(@)]

MigratesOne ==
    \E src, target \in Backends : \E i \in 1 .. Len(queue[src]) : Migrate(src, i, target)

LEMMA InOneQueue ==
    ASSUME OwnerInv, NEW r \in Requests, NEW b \in Backends, r \in Range(queue[b])
    PROVE  /\ \A c \in Backends : r \in Range(queue[c]) => c = b
           /\ r \notin Range(burst) /\ r # held /\ r \notin Range(overflow)
<1>1. IsAt(r, "queue", b) /\ Kinds = {"incoming", "burst", "held", "overflow", "queue", "worker"}
      /\ b \in Spaces /\ None \in Spaces /\ Backends \subseteq Spaces
  BY DEF IsAt, Kinds, Spaces
<1>2. OnlyAt(r, "queue", b)
  BY <1>1, FoundOwned
<1> QED
  BY <1>1, <1>2 DEF OnlyAt, IsAt

LEMMA QueueChange ==
    ASSUME TypeInv, OwnerInv, [Next]_vars
    PROVE  \/ queue' = queue \/ queue' = [b \in Backends |-> <<>>]
           \/ \E b \in Backends : TakesHead(b)
           \/ \E b \in Backends, r \in Requests : Routes(r, b)
           \/ MigratesOne
<1> USE InjectiveTypes
<1>1. ASSUME Arrive \/ RouteHeld
      PROVE  queue' = queue \/ \E b \in Backends, r \in Requests : Routes(r, b)
  <2>1. ASSUME NEW r \in Requests, MatchEnqueues(r), r \in Range(burst) \/ r = held
        PROVE  \E b \in Backends : Routes(r, b)
    <3>1. \A b \in Backends : r \notin Range(queue[b])
      BY <2>1, InOneQueue
    <3> QED
      BY <2>1, <3>1, EnqueuesAtBackend DEF Routes
  <2>2. CASE Arrive
    <3>1. Head(burst) \in Requests /\ Head(burst) \in Range(burst)
      BY <2>2, HeadTailProperties, TailRange DEF Arrive
    <3> QED
      BY <2>1, <2>2, <3>1 DEF Arrive, queueVars
  <2>3. CASE RouteHeld
    <3>1. held \in Requests
      BY <2>3 DEF RouteHeld, TypeInv, TypeOK, LoopTypes
    <3> QED
      BY <2>1, <2>3, <3>1 DEF RouteHeld, queueVars
  <2> QED
    BY <1>1, <2>2, <2>3
<1>2. ASSUME NEW b \in Backends, NEW w \in Workers, PumpTake(b, w)
      PROVE  TakesHead(b)
  BY <1>2 DEF PumpTake, Dispatchable, TakesHead
<1>3. CASE DispatcherStep
  <2>1. CASE \E b \in Backends : PumpNext(b) \/ \E w \in Workers : PumpTake(b, w)
    BY <1>2, <2>1 DEF PumpNext, queueVars
  <2>2. CASE Wake \/ Exit \/ BurstHandled \/ PopOverflow \/ BeginMigration \/ EndMigration
             \/ \E w \in Workers : HandOff(w)
    BY <2>2 DEF Wake, Exit, BurstHandled, PopOverflow, BeginMigration, EndMigration, HandOff,
       queueVars
  <2> QED
    BY <1>1, <1>3, <2>1, <2>2 DEF DispatcherStep, MigratesOne
<1>4. CASE Environment
  BY <1>4 DEF Environment, SubmitCheck, SubmitSend, Disconnect, HealthCheck, Rediscover, Stop,
     AbortAll, DiscardParked, queueVars
<1>5. CASE \E w \in Workers : WorkerStep(w)
  BY <1>5 DEF WorkerStep, PromptTooLong, Begin, Acquire, Refresh, Gate, Requeue, Retry, Backoff,
     Serve, Finish, WorkerFinished, WorkerOnly, queueVars
<1>6. CASE UNCHANGED vars
  BY <1>6 DEF vars, queueVars
<1> QED
  BY <1>3, <1>4, <1>5, <1>6 DEF Next

\* What migrateStale does to the two queues.
LEMMA MigrateMoves ==
    ASSUME TypeInv, OwnerInv, NEW src \in Backends, NEW target \in Backends,
           NEW i \in 1 .. Len(queue[src]), Migrate(src, i, target)
    PROVE  /\ src # target /\ queue[src][i] \in Range(queue[src]) \ migrated
           /\ migrated' \ migrated = {queue[src][i]}
           /\ queue'[src] = RemoveIndex(queue[src], i)
           /\ queue'[target] = Append(queue[target], queue[src][i])
           /\ \A b \in Backends \ {src, target} : queue'[b] = queue[b]
           /\ Range(queue'[src]) = Range(queue[src]) \ {queue[src][i]}
           /\ Range(queue'[target]) = Range(queue[target]) \cup {queue[src][i]}
<1> USE InjectiveTypes
<1>1. queue[src][i] \in Requests /\ i \in DOMAIN queue[src]
  BY ElementOfSeq, LenProperties
<1>2. /\ src # target /\ queue[src][i] \notin migrated /\ migrated' = migrated \cup {queue[src][i]}
      /\ queue' = [queue EXCEPT ![src] = RemoveIndex(@, i), ![target] = Append(@, queue[src][i])]
  BY DEF Migrate
<1>3. queue[src][i] \in Range(queue[src])
  BY <1>1 DEF Range
<1>4. /\ queue'[src] = RemoveIndex(queue[src], i)
      /\ queue'[target] = Append(queue[target], queue[src][i])
      /\ \A b \in Backends \ {src, target} : queue'[b] = queue[b]
  BY <1>2
<1>5. Range(queue'[src]) = Range(queue[src]) \ {queue[src][i]}
  BY <1>4, RemoveIndexRange DEF OwnerInv, NoRepeats
<1>6. Range(queue'[target]) = Range(queue[target]) \cup {queue[src][i]}
  BY <1>1, <1>4, AppendRange
<1> QED
  BY <1>2, <1>3, <1>4, <1>5, <1>6

\* A backend queue is first come first served: routing appends, the pump takes the
\* head, migrateStale takes one request from any place, and nobody else passes.
THEOREM QueueOrderKept == Spec => QueueFIFO
<1>1. ASSUME TypeInv, OwnerInv, [Next]_vars, NEW b \in Backends
      PROVE  KeepsOrder(queue[b], queue'[b], migrated' \ migrated)
  <2> USE InjectiveTypes, <1>1
  <2>0. IsInjective(queue[b]) /\ queue[b] \in Seq(Requests)
    BY DEF OwnerInv, NoRepeats
  <2>1. CASE queue' = queue
    BY <2>1, SameOrder
  <2>2. CASE queue' = [c \in Backends |-> <<>>]
    BY <2>2, EmptyKeepsOrder
  <2>3. CASE \E c \in Backends : TakesHead(c)
    <3> PICK c \in Backends : TakesHead(c)
      BY <2>3
    <3>1. CASE b = c
      <4>1. queue[b] # <<>> /\ queue'[b] = Tail(queue[b])
        BY <3>1 DEF TakesHead
      <4> QED
        BY <2>0, <4>1, TailKeepsOrder
    <3>2. CASE b # c
      BY <3>2, SameOrder DEF TakesHead
    <3> QED
      BY <3>1, <3>2
  <2>4. CASE \E c \in Backends, r \in Requests : Routes(r, c)
    <3> PICK c \in Backends, r \in Requests : Routes(r, c)
      BY <2>4
    <3>1. CASE b = c
      <4>1. queue'[b] = Append(queue[b], r)
        BY <3>1 DEF Routes
      <4> QED
        BY <2>0, <4>1, AppendKeepsOrder
    <3>2. CASE b # c
      BY <3>2, SameOrder DEF Routes
    <3> QED
      BY <3>1, <3>2
  <2>5. CASE MigratesOne
    <3>0. PICK src \in Backends, target \in Backends :
               \E i \in 1 .. Len(queue[src]) : Migrate(src, i, target)
      BY <2>5 DEF MigratesOne
    <3> PICK i \in 1 .. Len(queue[src]) : Migrate(src, i, target)
      BY <3>0
    <3>4. /\ queue'[src] = RemoveIndex(queue[src], i)
          /\ queue[src][i] \in migrated' \ migrated
          /\ queue'[target] = Append(queue[target], queue[src][i])
          /\ \A c \in Backends \ {src, target} : queue'[c] = queue[c]
      BY MigrateMoves
    <3>5. queue[src][i] \in Requests
      BY ElementOfSeq
    <3>1. CASE b = src
      <4>1. queue'[b] = RemoveIndex(queue[b], i) /\ queue[b][i] \in migrated' \ migrated
        BY <3>1, <3>4
      <4> QED
        BY <2>0, <3>1, <4>1, RemoveIndexKeepsOrder
    <3>2. CASE b = target
      <4>1. queue'[b] = Append(queue[b], queue[src][i]) /\ queue[src][i] \in Requests
        BY <3>2, <3>4, <3>5
      <4> QED
        BY <2>0, <4>1, AppendKeepsOrder
    <3>3. CASE b \notin {src, target}
      <4>1. queue'[b] = queue[b]
        BY <3>3, <3>4
      <4> QED
        BY <4>1, SameOrder
    <3> QED
      BY <3>1, <3>2, <3>3
  <2> QED
    BY <2>1, <2>2, <2>3, <2>4, <2>5, QueueChange
<1>2. TypeInv /\ OwnerInv /\ [Next]_vars
        => [\A b \in Backends : KeepsOrder(queue[b], queue'[b], migrated' \ migrated)]_vars
  BY <1>1
<1> QED
  BY <1>2, TypeInvariant, OwnerInvariant, PTL DEF Spec, QueueFIFO

\* A request moves between backend queues at most once, and only to a backend
\* with an empty queue and nobody at work: while migrateStale holds d.mu no worker
\* starts, and a backend leaves the idle list with the request it gets.
THEOREM MigrationToIdle == Spec => MigratesToIdle
<1> DEFINE ToIdle == \A r \in Requests, b, c \in Backends :
                        b # c /\ r \in Range(queue[b]) /\ r \in Range(queue'[c]) =>
                          /\ r \notin migrated
                          /\ queue[c] = <<>>
                          /\ aborted \/ \A w \in Workers : pc[w] # "free" => site[w] # c
<1>1. ASSUME TypeInv, QueueInv, OwnerInv, SiteInv, [Next]_vars
      PROVE  ToIdle
  <2> USE InjectiveTypes, <1>1
  <2> SUFFICES ASSUME NEW r \in Requests, NEW b \in Backends, NEW c \in Backends,
                      b # c, r \in Range(queue[b]), r \in Range(queue'[c])
               PROVE  /\ r \notin migrated
                      /\ queue[c] = <<>>
                      /\ aborted \/ \A w \in Workers : pc[w] # "free" => site[w] # c
    OBVIOUS
  <2>0. r \notin Range(queue[c])
    BY InOneQueue
  <2>1. CASE queue' = queue
    BY <2>0, <2>1
  <2>2. CASE queue' = [d \in Backends |-> <<>>]
    BY <2>2, EmptySequence
  <2>3. CASE \E d \in Backends : TakesHead(d)
    <3> PICK d \in Backends : TakesHead(d)
      BY <2>3
    <3>1. Range(queue'[c]) \subseteq Range(queue[c])
      BY TailRange DEF TakesHead, OwnerInv, NoRepeats
    <3> QED
      BY <2>0, <3>1
  <2>4. CASE \E d \in Backends, q \in Requests : Routes(q, d)
    <3> PICK d \in Backends, q \in Requests : Routes(q, d)
      BY <2>4
    <3>1. Range(queue'[c]) \subseteq Range(queue[c]) \cup {q} /\ q # r
      BY AppendRange DEF Routes
    <3> QED
      BY <2>0, <3>1
  <2>5. CASE MigratesOne
    <3>0. PICK src \in Backends, target \in Backends :
               \E i \in 1 .. Len(queue[src]) : Migrate(src, i, target)
      BY <2>5 DEF MigratesOne
    <3> PICK i \in 1 .. Len(queue[src]) : Migrate(src, i, target)
      BY <3>0
    <3>1. c = target /\ r = queue[src][i] /\ r \notin migrated
      <4>0. /\ queue[src][i] \notin migrated
            /\ \A d \in Backends \ {src, target} : queue'[d] = queue[d]
            /\ Range(queue'[src]) = Range(queue[src]) \ {queue[src][i]}
            /\ Range(queue'[target]) = Range(queue[target]) \cup {queue[src][i]}
        BY MigrateMoves
      <4> HIDE InjectiveTypes, <1>1
      <4>1. c # src
        BY <2>0, <4>0
      <4>2. c = target
        BY <2>0, <4>0, <4>1
      <4>3. r = queue[src][i]
        BY <2>0, <4>0, <4>2
      <4> QED
        BY <4>0, <4>2, <4>3
    <3>2. c \in idle
      BY <3>1 DEF Migrate
    <3> QED
      BY <3>1, <3>2 DEF QueueInv, IdleInv, SiteInv, IdleVacant
  <2> QED
    BY <2>1, <2>2, <2>3, <2>4, <2>5, QueueChange
<1>2. TypeInv /\ QueueInv /\ OwnerInv /\ SiteInv /\ [Next]_vars => [ToIdle]_vars
  BY <1>1
<1> QED
  BY <1>2, TypeInvariant, QueueInvariant, OwnerInvariant, SiteInvariant, PTL
     DEF Spec, MigratesToIdle

LEMMA HeadOfLine ==
    ASSUME TypeInv
    PROVE  /\ held = None => OverflowLine = overflow
           /\ held # None => held \in Requests /\ OverflowLine = <<held>> \o overflow
  BY InjectiveTypes, ConcatEmptySeq DEF OverflowLine, TypeInv, TypeOK, LoopTypes

LEMMA NextHeadOfLine ==
    ASSUME TypeInv'
    PROVE  /\ held' = None => OverflowLine' = overflow'
           /\ held' # None => held' \in Requests /\ OverflowLine' = <<held'>> \o overflow'
<1>1. overflow' \in Seq(Requests) /\ held' \in Requests \cup {None}
  BY DEF TypeInv, TypeOK, LoopTypes, QueueTypes
<1> QED
  BY <1>1, ConcatEmptySeq DEF OverflowLine

\* What a step does to the requests that wait in overflow and their held head.
LEMMA OverflowChange ==
    ASSUME TypeInv, OwnerInv, [Next]_vars
    PROVE  \/ Flushed
           \/ UNCHANGED <<held, overflow>>
           \/ held' = held /\ \E r \in Requests : overflow' = Append(overflow, r)
           \/ /\ held = None /\ overflow # <<>>
              /\ held' = Head(overflow) /\ overflow' = Tail(overflow)
           \/ held # None /\ held' = None /\ (overflow' = overflow \/ overflow' = <<held>> \o overflow)
<1> USE InjectiveTypes
<1>1. CASE Arrive
  <2>1. Head(burst) \in Requests
    BY <1>1, HeadTailProperties DEF Arrive
  <2> QED
    BY <1>1, <2>1 DEF Arrive, queueVars
<1>2. CASE RouteHeld
  BY <1>2 DEF RouteHeld, PutBack, queueVars
<1>3. CASE PopOverflow
  BY <1>3 DEF PopOverflow
<1>4. CASE DispatcherStep /\ ~ (Arrive \/ RouteHeld \/ PopOverflow)
  BY <1>4 DEF DispatcherStep, Wake, Exit, BurstHandled, BeginMigration, EndMigration, Migrate,
     PumpNext, PumpTake, HandOff, loopVars, queueVars
<1>5. CASE Stop \/ AbortAll
  BY <1>5 DEF Stop, AbortAll, Flushed
<1>6. CASE Environment /\ ~ (Stop \/ AbortAll)
  BY <1>6 DEF Environment, SubmitCheck, SubmitSend, Disconnect, HealthCheck, Rediscover, loopVars,
     queueVars
<1>7. ASSUME NEW w \in Workers, WorkerStep(w)
      PROVE  \/ UNCHANGED <<held, overflow>>
             \/ held' = held /\ \E r \in Requests : overflow' = Append(overflow, r)
  <2>1. CASE Requeue(w)
    BY <2>1 DEF Requeue, loopVars, TypeInv, WorkerShape
  <2>2. CASE ~ Requeue(w)
    BY <1>7, <2>2 DEF WorkerStep, PromptTooLong, Begin, Acquire, Refresh, Gate, Retry, Backoff,
       Serve, Finish, WorkerFinished, WorkerOnly, loopVars, queueVars
  <2> QED
    BY <2>1, <2>2
<1>8. CASE UNCHANGED vars
  BY <1>8 DEF vars, loopVars, queueVars
<1> QED
  BY <1>1, <1>2, <1>3, <1>4, <1>5, <1>6, <1>7, <1>8 DEF Next

\* The overflow queue is first come first served, also while drainOverflow holds
\* its head and a worker hands a request back: only Stop and AbortAll, which
\* discard everybody in the queue, leave the held head in front of nobody.
THEOREM OverflowOrderKept == Spec => OverflowFIFO
<1>1. ASSUME TypeInv, TypeInv', OwnerInv, [Next]_vars
      PROVE  Flushed \/ KeepsOrder(OverflowLine, OverflowLine', {})
  <2> USE InjectiveTypes, <1>1
  <2> DEFINE line == <<held>> \o overflow
  <2>1. CASE UNCHANGED <<held, overflow>>
    BY <2>1, SameOrder DEF OverflowLine
  <2>2. CASE held' = held /\ \E r \in Requests : overflow' = Append(overflow, r)
    <3> PICK r \in Requests : overflow' = Append(overflow, r)
      BY <2>2
    <3>1. CASE held = None
      BY <2>2, <3>1, HeadOfLine, NextHeadOfLine, AppendKeepsOrder
    <3>2. CASE held # None
      <4>1. held \in Requests /\ OverflowLine = line
        BY <3>2, HeadOfLine
      <4>2. <<held>> \in Seq(Requests)
        BY <4>1
      <4>3. OverflowLine' = <<held>> \o Append(overflow, r)
        BY <2>2, <3>2, NextHeadOfLine
      <4>4. <<held>> \o Append(overflow, r) = Append(line, r) /\ line \in Seq(Requests)
        <5>1. Append(overflow, r) = overflow \o <<r>> /\ <<r>> \in Seq(Requests)
          BY AppendIsConcat
        <5>2. line \in Seq(Requests)
          BY <4>2, ConcatProperties
        <5>3. Append(line, r) = line \o <<r>>
          BY <5>2, AppendIsConcat
        <5>4. line \o <<r>> = <<held>> \o (overflow \o <<r>>)
          BY <4>2, <5>1, ConcatAssociative
        <5> QED
          BY <5>1, <5>2, <5>3, <5>4
      <4> HIDE DEF line
      <4> QED
        BY <4>1, <4>3, <4>4, AppendKeepsOrder
    <3> QED
      BY <3>1, <3>2
  <2>3. CASE held = None /\ overflow # <<>> /\ held' = Head(overflow) /\ overflow' = Tail(overflow)
    <3>1. Head(overflow) \in Requests /\ None \notin Requests
      BY <2>3, HeadTailProperties, DispatcherAssumption
    <3>2. OverflowLine' = <<Head(overflow)>> \o Tail(overflow) /\ OverflowLine = overflow
      BY <2>3, <3>1, HeadOfLine, NextHeadOfLine
    <3>3. <<Head(overflow)>> \o Tail(overflow) = overflow
      BY <2>3, HeadThenTail
    <3> QED
      BY <3>2, <3>3, SameOrder
  <2>4. CASE held # None /\ held' = None /\ overflow' = overflow
    <3>1. held \in Requests /\ OverflowLine = line /\ OverflowLine' = overflow
      BY <2>4, HeadOfLine, NextHeadOfLine
    <3>2. held \notin Range(overflow)
      <4>1. IsAt(held, "held", None) /\ {"held", "overflow"} \subseteq Kinds /\ None \in Spaces
        BY DEF IsAt, Kinds, Spaces
      <4>2. OnlyAt(held, "held", None)
        BY <3>1, <4>1, FoundOwned
      <4> QED
        BY <4>1, <4>2 DEF OnlyAt, IsAt
    <3>3. line \in Seq(Requests) /\ IsInjective(line)
      BY <3>1, <3>2, PushRange DEF OwnerInv, NoRepeats
    <3>4. Tail(line) = overflow /\ line # <<>>
      BY <3>1, PushThenTail
    <3> HIDE DEF line
    <3> QED
      BY <3>1, <3>3, <3>4, TailKeepsOrder
  <2>5. CASE held # None /\ held' = None /\ overflow' = <<held>> \o overflow
    BY <2>5, HeadOfLine, NextHeadOfLine, SameOrder
  <2> QED
    BY <2>1, <2>2, <2>3, <2>4, <2>5, OverflowChange
<1>2. TypeInv /\ TypeInv' /\ OwnerInv /\ [Next]_vars
        => [Flushed \/ KeepsOrder(OverflowLine, OverflowLine', {})]_vars
  BY <1>1
<1> QED
  BY <1>2, TypeInvariant, OwnerInvariant, PTL DEF Spec, OverflowFIFO

-----------------------------------------------------------------------------
(* The dispatcher implements RequestService *)

stages == [r \in Requests |-> StageOf(r)]
holders == [s \in Backends \X SlotIds |-> HolderOf(s[1], s[2])]

Granted(r) == \E w \in Workers : Holds(w, r)

\* A request that somebody carries, without a slot and without an answer.
Waiting(r) == Owned(r) /\ ~ Granted(r) /\ ~ Answered(r)

KeepsHold(w) ==
    /\ slot'[w] = slot[w]
    /\ slot[w] # NoSlot => site'[w] = site[w] /\ work'[w] = work[w]

KeepsAnswer(w) ==
    /\ pc'[w] = "finish" <=> pc[w] = "finish"
    /\ pc[w] = "finish" => work'[w] = work[w]

\* A worker with a slot, or with an answer to deliver, is the only one with its
\* request.
LEMMA BusyRequest ==
    ASSUME TypeInv, OwnerInv, NEW w \in Workers, slot[w] # NoSlot \/ pc[w] = "finish"
    PROVE  /\ work[w] \in Requests /\ Owned(work[w])
           /\ \A v \in Workers :
                 (slot[v] # NoSlot \/ pc[v] = "finish") /\ work[v] = work[w] => v = w
<1>1. \A v \in Workers : slot[v] # NoSlot \/ pc[v] = "finish" =>
         work[v] \in Requests /\ IsAt(work[v], "worker", v)
  BY DEF TypeInv, WorkerShape, Slotless, IsAt
<1> PICK r \in Requests : r = work[w]
  BY <1>1
<1>2. "worker" \in Kinds /\ Workers \subseteq Spaces
  BY DEF Kinds, Spaces
<1>3. Owned(r) /\ OnlyAt(r, "worker", w)
  BY <1>1, <1>2, FoundOwned
<1> QED
  BY <1>1, <1>2, <1>3 DEF OnlyAt

LEMMA WaitingAt ==
    ASSUME TypeInv, OwnerInv, NEW r \in Requests, NEW k \in Kinds, NEW x \in Spaces,
           IsAt(r, k, x), k = "worker" => pc[x] # "finish" /\ slot[x] = NoSlot
    PROVE  Waiting(r)
<1>1. Owned(r) /\ OnlyAt(r, k, x)
  BY FoundOwned
<1>2. \A v \in Workers : slot[v] # NoSlot \/ pc[v] = "finish" =>
         IsAt(work[v], "worker", v)
  BY DEF TypeInv, WorkerShape, Slotless, IsAt
<1>3. "worker" \in Kinds /\ Workers \subseteq Spaces
  BY DEF Kinds, Spaces
<1>4. \A v \in Workers : (slot[v] # NoSlot \/ pc[v] = "finish") => work[v] # r
  BY <1>1, <1>2, <1>3 DEF OnlyAt
<1> QED
  BY <1>1, <1>4 DEF Waiting, Granted, Holds, Answered

\* Requests that nobody accepted yet have no worker.
LEMMA UnownedIdle ==
    ASSUME TypeInv, OwnerInv, NEW r \in Requests, ~ Owned(r)
    PROVE  ~ Granted(r) /\ ~ Answered(r)
  BY BusyRequest DEF Granted, Holds, Answered

LEMMA StageOwned ==
    ASSUME NEW r \in Requests, Owned(r)
    PROVE  StageOf(r) = IF Granted(r) THEN "granted"
                        ELSE IF Answered(r) THEN "answered" ELSE "accepted"
  BY DEF StageOf, Owned, Granted, Answered

LEMMA NextStageOwned ==
    ASSUME NEW r \in Requests, Owned(r)'
    PROVE  StageOf(r)' = IF Granted(r)' THEN "granted"
                         ELSE IF Answered(r)' THEN "answered" ELSE "accepted"
  BY DEF StageOf, Owned, Granted, Answered

LEMMA StageKept ==
    ASSUME NEW r \in Requests, client'[r] = client[r], r \in done' <=> r \in done,
           Granted(r)' <=> Granted(r), Answered(r)' <=> Answered(r)
    PROVE  StageOf(r)' = StageOf(r)
  BY DEF StageOf, Granted, Answered

\* Which request has a slot.
LEMMA HolderIs ==
    ASSUME Exclusive, NEW w \in Workers, slot[w] # NoSlot
    PROVE  HolderOf(site[w], slot[w]) = work[w]
<1> DEFINE on == {v \in Workers : site[v] = site[w] /\ slot[v] = slot[w]}
<1>1. on = {w}
  BY DEF Exclusive
<1> QED
  BY <1>1 DEF HolderOf

LEMMA NextHolderIs ==
    ASSUME Exclusive', NEW w \in Workers, slot'[w] # NoSlot
    PROVE  HolderOf(site[w], slot[w])' = work'[w]
<1> DEFINE on == {v \in Workers : site'[v] = site'[w] /\ slot'[v] = slot'[w]}
<1>1. on = {w}
  BY DEF Exclusive
<1> QED
  BY <1>1 DEF HolderOf

LEMMA HolderNone ==
    ASSUME NEW b, NEW i, \A w \in Workers : ~ (site[w] = b /\ slot[w] = i)
    PROVE  HolderOf(b, i) = None
  BY DEF HolderOf

LEMMA SlotIdsNat == SlotIds \subseteq Nat /\ NoSlot \notin SlotIds
  BY DispatcherAssumption DEF SlotIds, NoSlot

\* The slots stay with their requests, but for the requests R, which lose theirs.
LEMMA HoldersDrop ==
    ASSUME TypeInv, StableInv, StableInv', NEW R \in SUBSET Requests,
           \A w \in Workers : slot[w] # NoSlot =>
              IF work[w] \in R THEN slot'[w] = NoSlot ELSE KeepsHold(w),
           \A w \in Workers : slot[w] = NoSlot => slot'[w] = NoSlot
    PROVE  holders' = [s \in Backends \X SlotIds |-> IF holders[s] \in R THEN None ELSE holders[s]]
<1> SUFFICES ASSUME NEW b \in Backends, NEW i \in SlotIds
             PROVE  HolderOf(b, i)' = IF HolderOf(b, i) \in R THEN None ELSE HolderOf(b, i)
  BY DEF holders
<1>0. Exclusive /\ Exclusive' /\ i # NoSlot /\ None \notin R
  BY SlotIdsNat, DispatcherAssumption DEF StableInv
<1>1. CASE \E w \in Workers : site[w] = b /\ slot[w] = i
  <2> PICK w \in Workers : site[w] = b /\ slot[w] = i
    BY <1>1
  <2>1. HolderOf(b, i) = work[w]
    BY <1>0, HolderIs
  <2>2. CASE work[w] \in R
    <3>1. \A v \in Workers : ~ (site'[v] = b /\ slot'[v] = i)
      <4> SUFFICES ASSUME NEW v \in Workers, site'[v] = b, slot'[v] = i PROVE FALSE
        OBVIOUS
      <4>1. slot[v] # NoSlot /\ KeepsHold(v)
        BY <1>0
      <4>2. site[v] = b /\ slot[v] = i
        BY <4>1 DEF KeepsHold
      <4>3. v = w
        BY <1>0, <4>1, <4>2 DEF Exclusive
      <4> QED
        BY <1>0, <2>2, <4>3
    <3>2. HolderOf(b, i)' = None
      BY <3>1 DEF HolderOf
    <3> QED
      BY <2>1, <2>2, <3>2
  <2>3. CASE work[w] \notin R
    <3>1. site'[w] = b /\ slot'[w] = i /\ work'[w] = work[w]
      BY <1>0, <2>3 DEF KeepsHold
    <3>2. HolderOf(b, i)' = work'[w]
      <4>1. HolderOf(site[w], slot[w])' = work'[w]
        BY <1>0, <3>1, NextHolderIs
      <4> QED
        BY <3>1, <4>1 DEF HolderOf
    <3> QED
      BY <2>1, <2>3, <3>1, <3>2
  <2> QED
    BY <2>2, <2>3
<1>2. CASE ~ \E w \in Workers : site[w] = b /\ slot[w] = i
  <2>1. \A v \in Workers : ~ (site'[v] = b /\ slot'[v] = i)
    <3> SUFFICES ASSUME NEW v \in Workers, site'[v] = b, slot'[v] = i PROVE FALSE
      OBVIOUS
    <3>1. slot[v] # NoSlot /\ KeepsHold(v)
      BY <1>0
    <3> QED
      BY <1>2, <3>1 DEF KeepsHold
  <2>2. HolderOf(b, i)' = None
    BY <2>1 DEF HolderOf
  <2>3. HolderOf(b, i) = None
    BY <1>2, HolderNone
  <2> QED
    BY <1>0, <2>2, <2>3
<1> QED
  BY <1>1, <1>2

LEMMA HoldersSame ==
    ASSUME TypeInv, StableInv, StableInv', \A w \in Workers : KeepsHold(w)
    PROVE  holders' = holders
<1>1. \A w \in Workers : slot'[w] = slot[w]
  BY DEF KeepsHold
<1> PICK R \in SUBSET Requests : R = {}
  OBVIOUS
<1>2. \A w \in Workers : slot[w] # NoSlot =>
         IF work[w] \in R THEN slot'[w] = NoSlot ELSE KeepsHold(w)
  OBVIOUS
<1>3. holders' = [s \in Backends \X SlotIds |-> IF holders[s] \in R THEN None ELSE holders[s]]
  BY <1>1, <1>2, HoldersDrop
<1> QED
  BY <1>3 DEF holders

\* A worker takes a slot for its request: nobody had it.
LEMMA HoldersTake ==
    ASSUME StableInv, StableInv', NEW w \in Workers, NEW b \in Backends, NEW i \in SlotIds,
           slot[w] = NoSlot, slot'[w] = i, site'[w] = b,
           \A v \in Workers : v # w => KeepsHold(v)
    PROVE  /\ holders[<<b, i>>] = None
           /\ holders' = [holders EXCEPT ![<<b, i>>] = work'[w]]
<1>0. Exclusive /\ Exclusive' /\ i # NoSlot /\ SlotIds \subseteq Nat
  BY SlotIdsNat DEF StableInv
<1>1. \A v \in Workers : ~ (site[v] = b /\ slot[v] = i)
  <2> SUFFICES ASSUME NEW v \in Workers, site[v] = b, slot[v] = i PROVE FALSE
    OBVIOUS
  <2>1. v # w /\ site'[v] = b /\ slot'[v] = i
    BY <1>0 DEF KeepsHold
  <2> QED
    BY <1>0, <2>1 DEF Exclusive
<1>2. HolderOf(b, i) = None
  BY <1>1, HolderNone
<1>3. HolderOf(b, i)' = work'[w]
  <2>1. HolderOf(site[w], slot[w])' = work'[w]
    BY <1>0, NextHolderIs
  <2> QED
    BY <2>1 DEF HolderOf
<1>4. ASSUME NEW c \in Backends, NEW j \in SlotIds, <<c, j>> # <<b, i>>
      PROVE  HolderOf(c, j)' = HolderOf(c, j)
  <2>0. j # NoSlot
    BY SlotIdsNat
  <2>1. \A v \in Workers : (site'[v] = c /\ slot'[v] = j) <=> (site[v] = c /\ slot[v] = j)
    <3> TAKE v \in Workers
    <3>1. CASE v = w
      BY <1>4, <2>0, <3>1
    <3>2. CASE v # w
      BY <2>0, <3>2 DEF KeepsHold
    <3> QED
      BY <3>1, <3>2
  <2>2. CASE \E v \in Workers : site[v] = c /\ slot[v] = j
    <3> PICK v \in Workers : site[v] = c /\ slot[v] = j
      BY <2>2
    <3>1. v # w /\ site'[v] = c /\ slot'[v] = j /\ work'[v] = work[v]
      BY <2>0 DEF KeepsHold
    <3>2. HolderOf(c, j) = work[v]
      BY <1>0, <2>0, HolderIs
    <3>3. HolderOf(c, j)' = work'[v]
      <4>1. HolderOf(site[v], slot[v])' = work'[v]
        BY <1>0, <2>0, <3>1, NextHolderIs
      <4> QED
        BY <3>1, <4>1 DEF HolderOf
    <3> QED
      BY <3>1, <3>2, <3>3
  <2>3. CASE ~ \E v \in Workers : site[v] = c /\ slot[v] = j
    <3>1. HolderOf(c, j)' = None
      BY <2>1, <2>3 DEF HolderOf
    <3> QED
      BY <2>3, <3>1, HolderNone
  <2> QED
    BY <2>2, <2>3
<1>5. holders[<<b, i>>] = None
  BY <1>2 DEF holders
<1>6. ASSUME NEW s \in Backends \X SlotIds
      PROVE  HolderOf(s[1], s[2])' = IF s = <<b, i>> THEN work'[w] ELSE HolderOf(s[1], s[2])
  <2> PICK c \in Backends, j \in SlotIds : s = <<c, j>>
    OBVIOUS
  <2> QED
    BY <1>3, <1>4
<1>7. holders' = [s \in Backends \X SlotIds |-> IF s = <<b, i>> THEN work'[w] ELSE holders[s]]
  BY <1>6 DEF holders
<1> QED
  BY <1>5, <1>7 DEF holders

LEMMA WorkerAlone ==
    ASSUME TypeInv, OwnerInv, NEW w \in Workers, pc[w] \notin {"free", "drop"}
    PROVE  /\ work[w] \in Requests /\ Owned(work[w])
           /\ \A v \in Workers :
                 (slot[v] # NoSlot \/ pc[v] = "finish") /\ work[v] = work[w] => v = w
<1>1. work[w] \in Requests /\ IsAt(work[w], "worker", w)
  BY DEF TypeInv, WorkerShape, IsAt
<1> PICK r \in Requests : r = work[w]
  BY <1>1
<1>2. "worker" \in Kinds /\ Workers \subseteq Spaces
  BY DEF Kinds, Spaces
<1>3. Owned(r) /\ OnlyAt(r, "worker", w)
  BY <1>1, <1>2, FoundOwned
<1>4. \A v \in Workers : (slot[v] # NoSlot \/ pc[v] = "finish") /\ work[v] = r =>
         IsAt(r, "worker", v)
  BY DEF TypeInv, WorkerShape, Slotless, IsAt
<1> QED
  BY <1>1, <1>2, <1>3, <1>4 DEF OnlyAt

\* Steps in which the service does not move.
LEMMA ServiceStutters ==
    ASSUME TypeInv, StableInv, StableInv', UNCHANGED <<client, done>>,
           \A w \in Workers : KeepsHold(w) /\ KeepsAnswer(w)
    PROVE  stages' = stages /\ holders' = holders
<1>1. \A r \in Requests : (Granted(r)' <=> Granted(r)) /\ (Answered(r)' <=> Answered(r))
  BY DEF Granted, Holds, Answered, KeepsHold, KeepsAnswer
<1>2. \A r \in Requests : StageOf(r)' = StageOf(r)
  BY <1>1, StageKept
<1> QED
  BY <1>2, HoldersSame DEF stages

\* The requests R are settled; their slots, if they have some, go back.
LEMMA ServiceSettles ==
    ASSUME TypeInv, StableInv, StableInv', OwnerInv, NEW R \in SUBSET Requests, R # {},
           \A r \in R : Owned(r),
           client' = client, done' = done \cup R,
           \A w \in Workers : slot[w] # NoSlot =>
              IF work[w] \in R THEN slot'[w] = NoSlot ELSE KeepsHold(w),
           \A w \in Workers : slot[w] = NoSlot => slot'[w] = NoSlot,
           \A w \in Workers :
              KeepsAnswer(w) \/ (work[w] \in R /\ pc'[w] # "finish")
    PROVE  Service!Next
<1>1. holders' = [s \in Backends \X SlotIds |-> IF holders[s] \in R THEN None ELSE holders[s]]
  BY HoldersDrop
<1>2. ASSUME NEW r \in R
      PROVE  StageOf(r) \in {"accepted", "granted", "answered"} /\ StageOf(r)' = "settled"
  <2>1. StageOf(r) \in {"accepted", "granted", "answered"}
    BY StageOwned
  <2>2. client'[r] = "accepted" /\ r \in done'
    BY DEF Owned
  <2> QED
    BY <2>1, <2>2 DEF StageOf
<1>3. ASSUME NEW r \in Requests, r \notin R
      PROVE  StageOf(r)' = StageOf(r)
  <2>1. Granted(r)' <=> Granted(r)
    <3>1. \A w \in Workers : Holds(w, r)' <=> Holds(w, r)
      BY <1>3 DEF Holds, KeepsHold
    <3> QED
      BY <3>1 DEF Granted
  <2>2. Answered(r)' <=> Answered(r)
    <3>1. \A w \in Workers : (pc'[w] = "finish" /\ work'[w] = r) <=> (pc[w] = "finish" /\ work[w] = r)
      BY <1>3 DEF KeepsAnswer
    <3> QED
      BY <3>1 DEF Answered
  <2> QED
    BY <1>3, <2>1, <2>2, StageKept
<1>4. stages' = [r \in Requests |-> IF r \in R THEN "settled" ELSE stages[r]]
  BY <1>2, <1>3 DEF stages
<1>5. \A r \in R : stages[r] \in {"accepted", "granted", "answered"}
  BY <1>2 DEF stages
<1>6. Service!Settle(R)
  BY <1>1, <1>4, <1>5 DEF Service!Settle, stages, holders
<1> QED
  BY <1>6 DEF Service!Next

\* Stages of the others, when one request changes its stage.
LEMMA StagesExcept ==
    ASSUME NEW r \in Requests, NEW to, StageOf(r)' = to,
           \A q \in Requests : q # r => StageOf(q)' = StageOf(q)
    PROVE  stages' = [stages EXCEPT ![r] = to]
  BY DEF stages

LEMMA ServiceGrants ==
    ASSUME TypeInv, StableInv, StableInv', OwnerInv, NEW w \in Workers, NEW b \in Backends,
           NEW i \in SlotIds, NEW r \in Requests, Waiting(r), UNCHANGED <<client, done>>,
           slot[w] = NoSlot, slot'[w] = i, site'[w] = b, work'[w] = r,
           \A v \in Workers : v # w => KeepsHold(v),
           \A v \in Workers : KeepsAnswer(v)
    PROVE  Service!Next
<1>1. holders[<<b, i>>] = None /\ holders' = [holders EXCEPT ![<<b, i>>] = r]
  BY HoldersTake
<1>2. i # NoSlot
  BY SlotIdsNat
<1>3. StageOf(r) = "accepted"
  BY StageOwned DEF Waiting
<1>4. StageOf(r)' = "granted"
  <2>1. Granted(r)'
    BY <1>2 DEF Granted, Holds
  <2>2. Owned(r)'
    BY DEF Waiting, Owned
  <2> QED
    BY <2>1, <2>2, NextStageOwned
<1>5. ASSUME NEW q \in Requests, q # r
      PROVE  StageOf(q)' = StageOf(q)
  <2>1. \A v \in Workers : Holds(v, q)' <=> Holds(v, q)
    BY <1>5 DEF Holds, KeepsHold
  <2>2. Answered(q)' <=> Answered(q)
    BY DEF Answered, KeepsAnswer
  <2> QED
    BY <2>1, <2>2, StageKept DEF Granted
<1>6. stages' = [stages EXCEPT ![r] = "granted"]
  BY <1>4, <1>5, StagesExcept
<1>7. Service!Grant(r, <<b, i>>)
  BY <1>1, <1>3, <1>6 DEF Service!Grant, Service!Step, stages, holders
<1> QED
  BY <1>7 DEF Service!Next

LEMMA ServiceAnswers ==
    ASSUME TypeInv, StableInv, StableInv', OwnerInv, NEW w \in Workers,
           pc[w] \in {"start", "serve"}, pc'[w] = "finish", slot'[w] = NoSlot,
           UNCHANGED <<client, done, work, site>>,
           \A v \in Workers : v # w => slot'[v] = slot[v] /\ pc'[v] = pc[v]
    PROVE  Service!Next
<1>0. /\ work[w] \in Requests /\ Owned(work[w])
      /\ \A v \in Workers : (slot[v] # NoSlot \/ pc[v] = "finish") /\ work[v] = work[w] => v = w
  BY WorkerAlone
<1> PICK r \in Requests : r = work[w]
  BY <1>0
<1>1. holders' = [s \in Backends \X SlotIds |-> IF holders[s] = r THEN None ELSE holders[s]]
  <2> PICK R \in SUBSET Requests : \A x : x \in R <=> x = r
    <3>1. {r} \in SUBSET Requests /\ \A x : x \in {r} <=> x = r
      OBVIOUS
    <3> QED
      BY <3>1
  <2>1. \A v \in Workers : slot[v] # NoSlot =>
           IF work[v] \in R THEN slot'[v] = NoSlot ELSE KeepsHold(v)
    BY <1>0 DEF KeepsHold
  <2>2. \A v \in Workers : slot[v] = NoSlot => slot'[v] = NoSlot
    OBVIOUS
  <2>3. holders' = [s \in Backends \X SlotIds |-> IF holders[s] \in R THEN None ELSE holders[s]]
    BY <2>1, <2>2, HoldersDrop
  <2> QED
    BY <2>3
<1>2. ~ Answered(r)
  BY <1>0 DEF Answered
<1>3. StageOf(r) \in {"accepted", "granted"}
  BY <1>0, <1>2, StageOwned
<1>4. StageOf(r)' = "answered"
  <2>1. ~ Granted(r)'
    BY <1>0 DEF Granted, Holds
  <2>2. Answered(r)'
    BY DEF Answered
  <2>3. Owned(r)'
    BY <1>0 DEF Owned
  <2> QED
    BY <2>1, <2>2, <2>3, NextStageOwned
<1>5. ASSUME NEW q \in Requests, q # r
      PROVE  StageOf(q)' = StageOf(q)
  <2>1. \A v \in Workers : /\ Holds(v, q)' <=> Holds(v, q)
                           /\ (pc'[v] = "finish" /\ work'[v] = q) <=> (pc[v] = "finish" /\ work[v] = q)
    BY <1>5 DEF Holds
  <2>2. (Granted(q)' <=> Granted(q)) /\ (Answered(q)' <=> Answered(q))
    BY <2>1 DEF Granted, Answered
  <2> QED
    BY <2>2, StageKept
<1>6. stages' = [stages EXCEPT ![r] = "answered"]
  BY <1>4, <1>5, StagesExcept
<1>7. Service!Answer(r)
  BY <1>1, <1>3, <1>6 DEF Service!Answer, Service!Step, Service!GivesBack, stages, holders
<1> QED
  BY <1>7 DEF Service!Next

\* What the proof that a step implements the service relies on.
ServiceInv == TypeInv /\ StableInv /\ OwnerInv

ServiceMoves == Service!Next \/ (stages' = stages /\ holders' = holders)

LEMMA ServiceIdles ==
    ASSUME ServiceInv, ServiceInv', UNCHANGED <<client, done, pc, work, site, slot>>
    PROVE  ServiceMoves
  BY ServiceStutters DEF ServiceInv, ServiceMoves, KeepsHold, KeepsAnswer

LEMMA ServiceSubmit ==
    ASSUME ServiceInv, ServiceInv', NEW r \in Requests, SubmitCheck(r) \/ SubmitSend(r)
    PROVE  ServiceMoves
<1>0. TypeInv /\ StableInv /\ StableInv' /\ OwnerInv
  BY DEF ServiceInv
<1>1. /\ client[r] \in {"new", "sending"} /\ UNCHANGED <<done, pc, work, site, slot>>
      /\ client' = [client EXCEPT ![r] = client'[r]]
      /\ client'[r] \in {"refused", "sending", "accepted"}
  BY <1>0, InjectiveTypes DEF SubmitCheck, SubmitSend, workerVars
<1>2. holders' = holders
  BY <1>0, <1>1, HoldersSame DEF KeepsHold
<1>3. r \notin done /\ ~ Owned(r) /\ StageOf(r) = "new"
  BY <1>0, <1>1 DEF OwnerInv, DoneAccepted, Owned, StageOf
<1>4. ~ Granted(r) /\ ~ Answered(r)
  BY <1>0, <1>3, UnownedIdle
<1>5. StageOf(r)' = IF client'[r] = "sending" THEN "new" ELSE client'[r]
  <2>1. ~ Granted(r)' /\ ~ Answered(r)'
    BY <1>1, <1>4 DEF Granted, Holds, Answered
  <2>2. r \notin done'
    BY <1>1, <1>3
  <2> QED
    BY <1>1, <2>1, <2>2 DEF StageOf, Granted, Answered
<1>6. \A q \in Requests : q # r => StageOf(q)' = StageOf(q)
  BY <1>0, <1>1, StageKept, InjectiveTypes DEF Granted, Holds, Answered
<1>7. CASE client'[r] = "sending"
  BY <1>2, <1>3, <1>5, <1>6, <1>7 DEF stages, ServiceMoves
<1>8. ASSUME NEW to \in {"refused", "accepted"}, client'[r] = to
      PROVE  stages' = [stages EXCEPT ![r] = to]
  BY <1>5, <1>6, <1>8, StagesExcept
<1>9. CASE client'[r] = "refused"
  <2>1. Service!Refuse(r)
    BY <1>2, <1>3, <1>8, <1>9 DEF Service!Refuse, Service!Step, stages, holders
  <2> QED
    BY <2>1 DEF Service!Next, ServiceMoves
<1>10. CASE client'[r] = "accepted"
  <2>1. Service!Accept(r)
    BY <1>2, <1>3, <1>8, <1>10 DEF Service!Accept, Service!Step, stages, holders
  <2> QED
    BY <2>1 DEF Service!Next, ServiceMoves
<1> QED
  BY <1>1, <1>7, <1>9, <1>10

\* The loop and Stop or AbortAll settle requests that no worker has.
LEMMA ServiceDiscards ==
    ASSUME ServiceInv, ServiceInv', NEW R \in SUBSET Requests,
           UNCHANGED <<client, pc, work, site, slot>>, done' = done \cup R,
           \A r \in R : Waiting(r)
    PROVE  ServiceMoves
<1>0. TypeInv /\ StableInv /\ StableInv' /\ OwnerInv
  BY DEF ServiceInv
<1>1. CASE R = {}
  BY <1>1, ServiceIdles
<1>2. CASE R # {}
  <2>1. \A w \in Workers : KeepsHold(w) /\ KeepsAnswer(w)
    BY DEF KeepsHold, KeepsAnswer
  <2>2. \A w \in Workers : slot[w] # NoSlot => work[w] \notin R
    BY DEF Waiting, Granted, Holds
  <2>3. \A r \in R : Owned(r)
    BY DEF Waiting
  <2>4. Service!Next
    BY <1>0, <1>2, <2>1, <2>2, <2>3, ServiceSettles
  <2> QED
    BY <2>4 DEF ServiceMoves
<1> QED
  BY <1>1, <1>2

LEMMA ServiceLoop ==
    ASSUME ServiceInv, ServiceInv', Arrive \/ RouteHeld
    PROVE  ServiceMoves
<1>0. TypeInv /\ OwnerInv
  BY DEF ServiceInv
<1>1. UNCHANGED <<pc, work, site, slot>>
  BY DEF Arrive, RouteHeld, workerVars
<1>2. ASSUME NEW r \in Requests, NEW k \in {"burst", "held"}, IsAt(r, k, None)
      PROVE  Waiting(r)
  BY <1>0, <1>2, WaitingAt DEF Kinds, Spaces
<1>3. ASSUME NEW r \in Requests, Waiting(r), NEW how, Settle({r}, how)
      PROVE  ServiceMoves
  <2> PICK R \in SUBSET Requests : \A x : x \in R <=> x = r
    <3>1. {r} \in SUBSET Requests /\ \A x : x \in {r} <=> x = r
      OBVIOUS
    <3> QED
      BY <3>1
  <2>1. R = {r}
    OBVIOUS
  <2>2. UNCHANGED <<client, pc, work, site, slot>> /\ done' = done \cup R
    BY <1>1, <1>3, <2>1 DEF Settle
  <2>3. \A x \in R : Waiting(x)
    BY <1>3
  <2> QED
    BY <2>2, <2>3, ServiceDiscards
<1>4. CASE UNCHANGED <<client, done>>
  BY <1>1, <1>4, ServiceIdles
<1>5. CASE Arrive
  <2>1. Head(burst) \in Requests /\ Head(burst) \in Range(burst)
    BY <1>0, <1>5, HeadTailProperties, TailRange, InjectiveTypes DEF Arrive
  <2>2. Waiting(Head(burst))
    BY <1>2, <2>1 DEF IsAt
  <2> QED
    BY <1>3, <1>4, <1>5, <2>1, <2>2 DEF Arrive, Discard, MatchRejects, clientVars
<1>6. CASE RouteHeld
  <2>1. held \in Requests
    BY <1>0, <1>6 DEF RouteHeld, TypeInv, TypeOK, LoopTypes
  <2>2. Waiting(held)
    BY <1>2, <2>1 DEF IsAt
  <2> QED
    BY <1>3, <1>4, <1>6, <2>1, <2>2 DEF RouteHeld, Discard, MatchRejects, clientVars
<1> QED
  BY <1>5, <1>6

LEMMA ServiceFlush ==
    ASSUME ServiceInv, ServiceInv', Stop \/ AbortAll
    PROVE  ServiceMoves
<1>0. TypeInv /\ OwnerInv
  BY DEF ServiceInv
<1>1. Parked \in SUBSET Requests
  BY <1>0, ParkedRequests DEF TypeInv, TypeOK
<1>2. UNCHANGED <<client, pc, work, site, slot>> /\ done' = done \cup Parked
  BY DEF Stop, AbortAll, DiscardParked, Discard, Settle, workerVars
<1>3. ASSUME NEW r \in Parked
      PROVE  Waiting(r)
  <2>1. \E k \in {"overflow", "queue"}, x \in Spaces : IsAt(r, k, x)
    BY <1>3 DEF Parked, IsAt, Spaces
  <2> QED
    BY <1>0, <1>1, <2>1, WaitingAt DEF Kinds
<1> QED
  BY <1>1, <1>2, <1>3, ServiceDiscards

\* An acquired slot is one the backend reported.
LEMMA AcquiresReported ==
    ASSUME ServiceInv, NEW w \in Workers, NEW b \in Backends, NEW m, TryAcquire(w, b, m)
    PROVE  \E i \in SlotIds : slot' = [slot EXCEPT ![w] = i]
<1>1. PICK i \in FreeSlots(b, m) : slot' = [slot EXCEPT ![w] = i]
  BY AcquiresFree DEF ServiceInv, TypeInv, TypeOK
<1>2. m \in Models /\ i \in 0 .. pool[b][m] - 1 /\ pool[b][m] # 0
  BY DispatcherAssumption DEF FreeSlots, PoolSize
<1>3. pool[b][m] \in SlotCounts
  BY <1>2 DEF ServiceInv, StableInv, PoolsReported
<1> QED
  BY <1>1, <1>2, <1>3 DEF SlotIds

\* A worker that looks for a slot gets one.
LEMMA ServiceAcquire ==
    ASSUME ServiceInv, ServiceInv', NEW w \in Workers, pc[w] \in {"acquire", "gate"},
           TryAcquire(w, site[w], model[work[w]]), pc' = [pc EXCEPT ![w] = "serve"],
           UNCHANGED <<client, done, work, site>>
    PROVE  ServiceMoves
<1>0. TypeInv /\ StableInv /\ StableInv' /\ OwnerInv
  BY DEF ServiceInv
<1>1. slot[w] = NoSlot /\ work[w] \in Requests /\ site[w] \in Backends
  BY <1>0 DEF TypeInv, WorkerShape, Slotless
<1> PICK r \in Requests : r = work[w]
  BY <1>1
<1> PICK b \in Backends : b = site[w]
  BY <1>1
<1>2. Waiting(r)
  <2>1. IsAt(r, "worker", w) /\ "worker" \in Kinds /\ w \in Spaces
    BY DEF IsAt, Kinds, Spaces
  <2> QED
    BY <1>0, <1>1, <2>1, WaitingAt
<1>3. PICK i \in SlotIds : slot' = [slot EXCEPT ![w] = i]
  BY AcquiresReported
<1>4. slot'[w] = i /\ \A v \in Workers : KeepsAnswer(v) /\ (v # w => KeepsHold(v))
  BY <1>0, <1>3 DEF KeepsHold, KeepsAnswer, TypeInv, TypeOK, WorkerTypes
<1>5. Service!Next
  BY <1>0, <1>1, <1>2, <1>4, ServiceGrants
<1> QED
  BY <1>5 DEF ServiceMoves

LEMMA ServicePumpTake ==
    ASSUME ServiceInv, ServiceInv', NEW b \in Backends, NEW w \in Workers, PumpTake(b, w)
    PROVE  ServiceMoves
<1>0. TypeInv /\ StableInv /\ StableInv' /\ OwnerInv
  BY DEF ServiceInv
<1> USE InjectiveTypes
<1>1. queue[b] # <<>> /\ Head(queue[b]) \in Requests /\ Head(queue[b]) \in Range(queue[b])
  BY <1>0, HeadTailProperties, TailRange DEF PumpTake, Dispatchable
<1> PICK r \in Requests : r = Head(queue[b])
  BY <1>1
<1>2. /\ pc[w] = "free" /\ slot[w] = NoSlot /\ UNCHANGED <<client, done>>
      /\ pc' = [pc EXCEPT ![w] = "handoff"] /\ work' = [work EXCEPT ![w] = r]
      /\ site' = [site EXCEPT ![w] = b]
  BY <1>0 DEF PumpTake, clientVars, TypeInv, WorkerShape, Slotless
<1>3. /\ \A v \in Workers : KeepsAnswer(v)
      /\ \A v \in Workers : v # w => pc'[v] = pc[v] /\ work'[v] = work[v] /\ site'[v] = site[v]
      /\ work'[w] = r /\ site'[w] = b
  BY <1>0, <1>2 DEF KeepsAnswer, TypeInv, TypeOK, WorkerTypes
<1>4. CASE HasPool(b)
  <2>1. TryAcquire(w, b, model[r])
    BY <1>4 DEF PumpTake
  <2>2. PICK i \in SlotIds : slot' = [slot EXCEPT ![w] = i]
    BY <2>1, AcquiresReported
  <2>3. slot'[w] = i /\ \A v \in Workers : v # w => KeepsHold(v)
    BY <1>0, <1>3, <2>2 DEF KeepsHold, TypeInv, TypeOK, WorkerTypes
  <2>4. Waiting(r)
    <3>1. IsAt(r, "queue", b) /\ "queue" \in Kinds /\ b \in Spaces
      BY <1>1 DEF IsAt, Kinds, Spaces
    <3> QED
      BY <1>0, <3>1, WaitingAt
  <2>5. Service!Next
    BY <1>0, <1>2, <1>3, <2>3, <2>4, ServiceGrants
  <2> QED
    BY <2>5 DEF ServiceMoves
<1>5. CASE ~ HasPool(b)
  <2>1. slot' = slot
    BY <1>5 DEF PumpTake
  <2>2. \A v \in Workers : KeepsHold(v)
    BY <1>2, <1>3, <2>1 DEF KeepsHold
  <2> QED
    BY <1>0, <1>2, <1>3, <2>2, ServiceStutters DEF ServiceMoves
<1> QED
  BY <1>4, <1>5


\* A worker settles its own request, and keeps no slot for it.
LEMMA ServiceOwn ==
    ASSUME ServiceInv, ServiceInv', NEW w \in Workers, pc[w] \notin {"free", "drop"},
           slot'[w] = NoSlot, pc'[w] # "finish", client' = client, done' = done \cup {work[w]},
           \A v \in Workers : v # w => KeepsHold(v) /\ KeepsAnswer(v)
    PROVE  ServiceMoves
<1>0. TypeInv /\ StableInv /\ StableInv' /\ OwnerInv
  BY DEF ServiceInv
<1>1. /\ work[w] \in Requests /\ Owned(work[w])
      /\ \A v \in Workers : (slot[v] # NoSlot \/ pc[v] = "finish") /\ work[v] = work[w] => v = w
  BY <1>0, WorkerAlone
<1> PICK r \in Requests : r = work[w]
  BY <1>1
<1> PICK R \in SUBSET Requests : \A x : x \in R <=> x = r
  <2>1. {r} \in SUBSET Requests /\ \A x : x \in {r} <=> x = r
    OBVIOUS
  <2> QED
    BY <2>1
<1>2. R # {} /\ (\A x \in R : Owned(x)) /\ done' = done \cup R
  <2>1. R = {r}
    OBVIOUS
  <2> QED
    BY <1>1, <2>1
<1>3. \A v \in Workers : slot[v] # NoSlot =>
         IF work[v] \in R THEN slot'[v] = NoSlot ELSE KeepsHold(v)
  BY <1>1
<1>4. \A v \in Workers : slot[v] = NoSlot => slot'[v] = NoSlot
  BY DEF KeepsHold
<1>5. \A v \in Workers : KeepsAnswer(v) \/ (work[v] \in R /\ pc'[v] # "finish")
  OBVIOUS
<1>6. Service!Next
  BY <1>0, <1>2, <1>3, <1>4, <1>5, ServiceSettles
<1> QED
  BY <1>6 DEF ServiceMoves

\* A worker that has no slot, and no answer before or after the step, moves on.
LEMMA ServiceWalks ==
    ASSUME ServiceInv, ServiceInv', NEW w \in Workers, pc[w] # "finish", pc'[w] # "finish",
           slot' = slot, UNCHANGED <<client, done>>,
           slot[w] = NoSlot \/ (work'[w] = work[w] /\ site'[w] = site[w]),
           \A v \in Workers : v # w => pc'[v] = pc[v] /\ work'[v] = work[v] /\ site'[v] = site[v]
    PROVE  ServiceMoves
<1>0. TypeInv /\ StableInv /\ StableInv' /\ OwnerInv
  BY DEF ServiceInv
<1>1. \A v \in Workers : KeepsHold(v)
  BY DEF KeepsHold
<1>2. \A v \in Workers : KeepsAnswer(v)
  BY DEF KeepsAnswer
<1> QED
  BY <1>0, <1>1, <1>2, ServiceStutters DEF ServiceMoves

\* A step of w that leaves the others where they are.
LEMMA GotoFrame ==
    ASSUME TypeInv, NEW w \in Workers, NEW l, Goto(w, l)
    PROVE  pc'[w] = l /\ \A v \in Workers : v # w => pc'[v] = pc[v]
  BY DEF Goto, TypeInv, TypeOK, WorkerTypes

LEMMA GivenBack ==
    ASSUME TypeInv, NEW w \in Workers, GiveBack(w) \/ Release(w)
    PROVE  slot'[w] = NoSlot /\ \A v \in Workers : v # w => slot'[v] = slot[v]
  BY DEF GiveBack, Release, TypeInv, TypeOK, WorkerTypes

LEMMA ServiceHandOff ==
    ASSUME ServiceInv, ServiceInv', NEW w \in Workers, HandOff(w)
    PROVE  ServiceMoves
<1>0. TypeInv /\ pc[w] = "handoff"
  BY DEF ServiceInv, HandOff
<1>1. CASE work[w] \in dead
  <2>1. GiveBack(w) /\ Discard({work[w]}) /\ Retire(w)
    BY <1>1 DEF HandOff
  <2>2. slot'[w] = NoSlot /\ \A v \in Workers : v # w => slot'[v] = slot[v]
    BY <1>0, <2>1, GivenBack
  <2>3. /\ pc'[w] # "finish"
        /\ \A v \in Workers : v # w => pc'[v] = pc[v] /\ work'[v] = work[v] /\ site'[v] = site[v]
    BY <1>0, <2>1 DEF Retire, TypeInv, TypeOK, WorkerTypes
  <2>4. client' = client /\ done' = done \cup {work[w]}
    BY <2>1 DEF Discard, Settle
  <2>5. \A v \in Workers : v # w => KeepsHold(v) /\ KeepsAnswer(v)
    BY <2>2, <2>3 DEF KeepsHold, KeepsAnswer
  <2> QED
    BY <1>0, <2>2, <2>3, <2>4, <2>5, ServiceOwn
<1>2. CASE work[w] \notin dead
  <2>1. pc' = [pc EXCEPT ![w] = "start"] /\ UNCHANGED <<client, done, work, site, slot>>
    BY <1>2 DEF HandOff, clientVars
  <2>2. pc'[w] = "start" /\ \A v \in Workers : v # w => pc'[v] = pc[v]
    BY <1>0, <2>1 DEF TypeInv, TypeOK, WorkerTypes
  <2> QED
    BY <1>0, <2>1, <2>2, ServiceWalks
<1> QED
  BY <1>1, <1>2

LEMMA ServiceGivesUp ==
    ASSUME ServiceInv, ServiceInv', NEW w \in Workers, pc[w] \in {"acquire", "gate", "backoff"},
           NEW how, GiveUp(w, how)
    PROVE  ServiceMoves
<1>1. TypeInv /\ slot[w] = NoSlot
  BY DEF ServiceInv, TypeInv, WorkerShape, Slotless
<1>2. Goto(w, "drop") /\ UNCHANGED <<client, work, site, slot>> /\ done' = done \cup {work[w]}
  BY DEF GiveUp, Settle
<1>3. pc'[w] = "drop" /\ \A v \in Workers : v # w => pc'[v] = pc[v]
  BY <1>1, <1>2, GotoFrame
<1>4. \A v \in Workers : v # w => KeepsHold(v) /\ KeepsAnswer(v)
  BY <1>2, <1>3 DEF KeepsHold, KeepsAnswer
<1> QED
  BY <1>1, <1>2, <1>3, <1>4, ServiceOwn

\* A worker goes on without touching a slot or settling its request.
LEMMA ServiceGoesOn ==
    ASSUME ServiceInv, ServiceInv', NEW w \in Workers, pc[w] # "finish", NEW l, l # "finish",
           Goto(w, l), UNCHANGED <<client, done, work, site, slot>>
    PROVE  ServiceMoves
<1>1. pc'[w] = l /\ \A v \in Workers : v # w => pc'[v] = pc[v]
  BY GotoFrame DEF ServiceInv
<1> QED
  BY <1>1, ServiceWalks

LEMMA ServiceAnswered ==
    ASSUME ServiceInv, ServiceInv', NEW w \in Workers, PromptTooLong(w) \/ Serve(w)
    PROVE  ServiceMoves
<1>0. TypeInv /\ StableInv /\ StableInv' /\ OwnerInv
  BY DEF ServiceInv
<1>1. /\ pc[w] \in {"start", "serve"} /\ Goto(w, "finish") /\ (GiveBack(w) \/ Release(w))
      /\ UNCHANGED <<client, done, work, site>>
  BY DEF PromptTooLong, Serve
<1>2. pc'[w] = "finish" /\ \A v \in Workers : v # w => pc'[v] = pc[v]
  BY <1>0, <1>1, GotoFrame
<1>3. slot'[w] = NoSlot /\ \A v \in Workers : v # w => slot'[v] = slot[v]
  BY <1>0, <1>1, GivenBack
<1>4. Service!Next
  BY <1>0, <1>1, <1>2, <1>3, ServiceAnswers
<1> QED
  BY <1>4 DEF ServiceMoves

LEMMA ServiceFinishes ==
    ASSUME ServiceInv, ServiceInv', NEW w \in Workers, Finish(w)
    PROVE  ServiceMoves
<1>1. /\ TypeInv /\ pc[w] = "finish" /\ slot[w] = NoSlot /\ Goto(w, "drop")
      /\ UNCHANGED <<client, work, site, slot>> /\ done' = done \cup {work[w]}
  BY DEF Finish, ServiceInv, TypeInv, WorkerShape, Slotless
<1>2. pc'[w] = "drop" /\ \A v \in Workers : v # w => pc'[v] = pc[v]
  BY <1>1, GotoFrame
<1>3. \A v \in Workers : v # w => KeepsHold(v) /\ KeepsAnswer(v)
  BY <1>1, <1>2 DEF KeepsHold, KeepsAnswer
<1> QED
  BY <1>1, <1>2, <1>3, ServiceOwn

LEMMA ServiceEnds ==
    ASSUME ServiceInv, ServiceInv', NEW w \in Workers, WorkerFinished(w)
    PROVE  ServiceMoves
<1>1. /\ TypeInv /\ pc[w] = "drop" /\ slot[w] = NoSlot /\ Retire(w)
      /\ UNCHANGED <<client, done, slot>>
  BY DEF WorkerFinished, clientVars, ServiceInv, TypeInv, WorkerShape, Slotless
<1>2. /\ pc'[w] # "finish"
      /\ \A v \in Workers : v # w => pc'[v] = pc[v] /\ work'[v] = work[v] /\ site'[v] = site[v]
  BY <1>1 DEF Retire, TypeInv, TypeOK, WorkerTypes
<1> QED
  BY <1>1, <1>2, ServiceWalks

\* The ways in which a worker looks for a slot.
LEMMA ServiceLooks ==
    ASSUME ServiceInv, ServiceInv', NEW w \in Workers,
           Begin(w) \/ Acquire(w) \/ Refresh(w) \/ Gate(w) \/ Requeue(w) \/ Retry(w) \/ Backoff(w)
    PROVE  ServiceMoves
<1>1. CASE Begin(w)
  <2>1. PICK l \in {"serve", "acquire"} : Goto(w, l)
    BY <1>1 DEF Begin
  <2>2. pc[w] # "finish" /\ UNCHANGED <<client, done, work, site, slot>>
    BY <1>1 DEF Begin, clientVars
  <2> QED
    BY <2>1, <2>2, ServiceGoesOn
<1>2. CASE Acquire(w)
  <2>0. pc[w] = "acquire"
    BY <1>2 DEF Acquire
  <2>1. CASE TryAcquire(w, site[w], model[work[w]]) /\ Goto(w, "serve")
             /\ UNCHANGED <<clientVars, inFlight, work, site>>
    BY <2>0, <2>1, ServiceAcquire DEF Goto, clientVars
  <2>2. CASE GiveUp(w, "discarded")
    BY <2>0, <2>2, ServiceGivesUp
  <2>3. CASE (\E l \in {"refresh", "backoff"} : Goto(w, l))
             /\ UNCHANGED <<clientVars, inFlight, work, site, slot, poolVars>>
    <3>1. PICK l \in {"refresh", "backoff"} : Goto(w, l)
      BY <2>3
    <3>2. UNCHANGED <<client, done, work, site, slot>>
      BY <2>3 DEF clientVars
    <3> QED
      BY <2>0, <3>1, <3>2, ServiceGoesOn
  <2> QED
    BY <1>2, <2>1, <2>2, <2>3 DEF Acquire
<1>3. CASE Refresh(w)
  <2>1. pc[w] # "finish" /\ Goto(w, "gate") /\ UNCHANGED <<client, done, work, site, slot>>
    BY <1>3 DEF Refresh, clientVars
  <2> QED
    BY <2>1, ServiceGoesOn
<1>4. CASE Gate(w)
  BY <1>4, ServiceGivesUp DEF Gate
<1>5. CASE Requeue(w)
  <2>1. pc[w] # "finish" /\ Goto(w, "drop") /\ UNCHANGED <<client, done, work, site, slot>>
    BY <1>5 DEF Requeue, clientVars
  <2> QED
    BY <2>1, ServiceGoesOn
<1>6. CASE Retry(w)
  <2>0. pc[w] = "gate" /\ UNCHANGED <<client, done, work, site>>
    BY <1>6 DEF Retry, clientVars
  <2>1. CASE TryAcquire(w, site[w], model[work[w]]) /\ Goto(w, "serve")
    BY <2>0, <2>1, ServiceAcquire DEF Goto
  <2>2. CASE Goto(w, "backoff") /\ UNCHANGED <<slot, poolVars>>
    BY <2>0, <2>2, ServiceGoesOn
  <2> QED
    BY <1>6, <2>1, <2>2 DEF Retry
<1>7. CASE Backoff(w)
  <2>0. pc[w] = "backoff"
    BY <1>7 DEF Backoff
  <2>1. CASE GiveUp(w, "discarded")
    BY <2>0, <2>1, ServiceGivesUp
  <2>2. CASE Goto(w, "acquire") /\ UNCHANGED <<clientVars, inFlight, work, site, slot, poolVars>>
    BY <2>0, <2>2, ServiceGoesOn DEF clientVars
  <2> QED
    BY <1>7, <2>1, <2>2 DEF Backoff
<1> QED
  BY <1>1, <1>2, <1>3, <1>4, <1>5, <1>6, <1>7

LEMMA ServiceStep ==
    ASSUME ServiceInv, ServiceInv', [Next]_vars
    PROVE  ServiceMoves
<1>1. CASE UNCHANGED vars
  BY <1>1, ServiceIdles DEF vars, clientVars, workerVars
<1>2. CASE DispatcherStep
  <2>1. CASE Arrive \/ RouteHeld
    BY <2>1, ServiceLoop
  <2>2. CASE \E b \in Backends, w \in Workers : PumpTake(b, w)
    BY <2>2, ServicePumpTake
  <2>3. CASE \E w \in Workers : HandOff(w)
    BY <2>3, ServiceHandOff
  <2>4. CASE Wake \/ Exit \/ BurstHandled \/ PopOverflow \/ BeginMigration \/ EndMigration
    <3>1. UNCHANGED <<client, done, pc, work, site, slot>>
      BY <2>4 DEF Wake, Exit, BurstHandled, PopOverflow, BeginMigration, EndMigration,
                  clientVars, workerVars
    <3> QED
      BY <3>1, ServiceIdles
  <2>5. CASE \E b \in Backends : PumpNext(b)
    <3>1. UNCHANGED <<client, done, pc, work, site, slot>>
      BY <2>5 DEF PumpNext, clientVars, workerVars
    <3> QED
      BY <3>1, ServiceIdles
  <2>6. CASE \E src, target \in Backends : \E i \in 1 .. Len(queue[src]) : Migrate(src, i, target)
    <3>1. UNCHANGED <<client, done, pc, work, site, slot>>
      BY <2>6 DEF Migrate, clientVars, workerVars
    <3> QED
      BY <3>1, ServiceIdles
  <2> QED
    BY <1>2, <2>1, <2>2, <2>3, <2>4, <2>5, <2>6 DEF DispatcherStep
<1>3. CASE Environment
  <2>1. CASE \E r \in Requests : SubmitCheck(r) \/ SubmitSend(r)
    BY <2>1, ServiceSubmit
  <2>2. CASE Stop \/ AbortAll
    BY <2>2, ServiceFlush
  <2>3. CASE (\E r \in Requests : Disconnect(r)) \/ (\E b \in Backends : HealthCheck(b)) \/ Rediscover
    <3>1. UNCHANGED <<client, done, pc, work, site, slot>>
      BY <2>3 DEF Disconnect, HealthCheck, Rediscover, clientVars, workerVars
    <3> QED
      BY <3>1, ServiceIdles
  <2> QED
    BY <1>3, <2>1, <2>2, <2>3 DEF Environment
<1>4. ASSUME NEW w \in Workers, WorkerStep(w)
      PROVE  ServiceMoves
  BY <1>4, ServiceLooks, ServiceAnswered, ServiceFinishes, ServiceEnds DEF WorkerStep
<1> QED
  BY <1>1, <1>2, <1>3, <1>4 DEF Next

LEMMA ServiceInit == Init => Service!Init
<1> SUFFICES ASSUME Init PROVE Service!Init
  OBVIOUS
<1>1. \A r \in Requests : StageOf(r) = "new"
  BY DEF Init, StageOf
<1>2. \A w \in Workers : slot[w] = NoSlot
  BY DEF Init
<1>3. \A b \in Backends, i \in SlotIds : HolderOf(b, i) = None
  BY <1>2, SlotIdsNat, HolderNone
<1> QED
  BY <1>1, <1>3 DEF Service!Init


\* ImplementsService, where every backend reports its slots with one size and
\* for one model: whatever route a request takes, it is granted one slot at
\* most, nobody else has that slot meanwhile, and it is settled once.
THEOREM DispatcherImplementsService ==
    ASSUME StableSlots
    PROVE  Spec => ImplementsService
<1>1. TypeInv /\ StableInv /\ [Next]_vars => StableInv'
  BY StableStep
<1>2. Spec => []ServiceInv
  <2>1. TypeInv /\ StableInv /\ OwnerInv => ServiceInv
    BY DEF ServiceInv
  <2> QED
    BY <1>1, <2>1, StableInit, TypeInvariant, OwnerInvariant, PTL DEF Spec
<1>3. ServiceInv /\ ServiceInv' /\ [Next]_vars
        => [Service!Next]_<<[r \in Requests |-> StageOf(r)],
                            [s \in Backends \X SlotIds |-> HolderOf(s[1], s[2])]>>
  <2> SUFFICES ASSUME ServiceInv, ServiceInv', [Next]_vars
               PROVE  Service!Next \/ (stages' = stages /\ holders' = holders)
    BY DEF stages, holders
  <2> QED
    BY ServiceStep DEF ServiceMoves
<1> QED
  BY <1>2, <1>3, ServiceInit, PTL DEF Spec, ImplementsService, Service!Spec
=============================================================================
