--------------------------- MODULE SequenceLemmas ---------------------------
(***************************************************************************)
(* What the operations of the queues of this project (push, shift, splice, *)
(* concatenation) do to the elements of a sequence without duplicates.     *)
(***************************************************************************)
EXTENDS Integers, SequencesExt, SequenceTheorems, TLAPS

\* An element of a sequence is an element of the set it is over.
LEMMA ToSetBound ==
  ASSUME NEW S, NEW s \in Seq(S)
  PROVE  /\ ToSet(s) \subseteq S
         /\ s = <<>> <=> ToSet(s) = {}
BY LenProperties, ElementOfSeq, EmptySeq DEF ToSet

\* Membership, by index.
LEMMA ToSetMember ==
  ASSUME NEW S, NEW s \in Seq(S), NEW x
  PROVE  x \in ToSet(s) <=> \E i \in 1 .. Len(s) : s[i] = x
BY LenProperties DEF ToSet

\* push adds an element, and no duplicate if the element is new.
LEMMA AppendLemma ==
  ASSUME NEW S, NEW s \in Seq(S), NEW e \in S
  PROVE  /\ Append(s, e) \in Seq(S)
         /\ ToSet(Append(s, e)) = ToSet(s) \union {e}
         /\ IsInjective(s) /\ e \notin ToSet(s) => IsInjective(Append(s, e))
<1>1. /\ Append(s, e) \in Seq(S)
      /\ DOMAIN s = 1 .. Len(s)
      /\ Len(s) \in Nat
      /\ DOMAIN Append(s, e) = 1 .. Len(s) + 1
      /\ \A i \in 1 .. Len(s) : Append(s, e)[i] = s[i]
      /\ Append(s, e)[Len(s) + 1] = e
  BY AppendProperties, LenProperties
<1>2. ToSet(Append(s, e)) = ToSet(s) \union {e}
  BY <1>1 DEF ToSet
<1>3. IsInjective(s) /\ e \notin ToSet(s) => IsInjective(Append(s, e))
  BY <1>1 DEF ToSet, IsInjective
<1>q. QED BY <1>1, <1>2, <1>3

\* shift takes the first element away, and only that one.
LEMMA TailLemma ==
  ASSUME NEW S, NEW s \in Seq(S), s # <<>>, IsInjective(s)
  PROVE  /\ Head(s) \in ToSet(s) /\ Head(s) \in S
         /\ Tail(s) \in Seq(S)
         /\ ToSet(Tail(s)) = ToSet(s) \ {Head(s)}
         /\ IsInjective(Tail(s))
<1>1. /\ Head(s) \in S /\ Tail(s) \in Seq(S)
      /\ Len(s) \in Nat \ {0}
      /\ DOMAIN s = 1 .. Len(s)
      /\ DOMAIN Tail(s) = 1 .. Len(s) - 1
      /\ \A i \in 1 .. Len(s) - 1 : Tail(s)[i] = s[i + 1]
      /\ Head(s) = s[1]
  BY HeadTailProperties, LenProperties, EmptySeq
<1>2. Head(s) \in ToSet(s)
  BY <1>1 DEF ToSet
<1>3. ToSet(Tail(s)) = ToSet(s) \ {Head(s)}
  <2>1. \A i \in 2 .. Len(s) : i - 1 \in 1 .. Len(s) - 1 /\ Tail(s)[i - 1] = s[i]
    BY <1>1
  <2>2. \A i \in 2 .. Len(s) : s[i] # s[1]
    BY <1>1 DEF IsInjective
  <2>3. \A i \in 1 .. Len(s) - 1 : Tail(s)[i] \in ToSet(s) \ {Head(s)}
    <3>1. \A i \in 1 .. Len(s) - 1 : i + 1 \in 2 .. Len(s) /\ i + 1 \in DOMAIN s
      BY <1>1
    <3>q. QED BY <1>1, <2>2, <3>1 DEF ToSet
  <2>4. \A x \in ToSet(s) \ {Head(s)} : \E i \in 1 .. Len(s) - 1 : Tail(s)[i] = x
    <3>1. SUFFICES ASSUME NEW i \in DOMAIN s, s[i] # Head(s)
                   PROVE  \E j \in 1 .. Len(s) - 1 : Tail(s)[j] = s[i]
      BY DEF ToSet
    <3>2. i \in 2 .. Len(s)
      BY <1>1, <3>1
    <3>q. QED BY <2>1, <3>2
  <2>5. Len(Tail(s)) = Len(s) - 1
    BY <1>1, LenProperties
  <2>6. \A x : x \in ToSet(Tail(s)) <=> \E i \in 1 .. Len(Tail(s)) : Tail(s)[i] = x
    BY <1>1, ToSetMember
  <2>q. QED BY <2>3, <2>4, <2>5, <2>6
<1>4. IsInjective(Tail(s))
  BY <1>1 DEF IsInjective
<1>q. QED BY <1>1, <1>2, <1>3, <1>4

\* Concatenation keeps all elements, and adds no duplicate to disjoint queues.
LEMMA ConcatLemma ==
  ASSUME NEW S, NEW s \in Seq(S), NEW t \in Seq(S)
  PROVE  /\ s \o t \in Seq(S)
         /\ ToSet(s \o t) = ToSet(s) \union ToSet(t)
         /\ IsInjective(s) /\ IsInjective(t) /\ ToSet(s) \intersect ToSet(t) = {}
              => IsInjective(s \o t)
<1>1. /\ s \o t \in Seq(S)
      /\ Len(s) \in Nat /\ Len(t) \in Nat
      /\ DOMAIN s = 1 .. Len(s) /\ DOMAIN t = 1 .. Len(t)
      /\ DOMAIN (s \o t) = 1 .. Len(s) + Len(t)
      /\ \A i \in 1 .. Len(s) : (s \o t)[i] = s[i]
      /\ \A i \in Len(s) + 1 .. Len(s) + Len(t) : (s \o t)[i] = t[i - Len(s)]
  BY ConcatProperties, LenProperties
<1>2. ToSet(s \o t) = ToSet(s) \union ToSet(t)
  <2>1. \A i \in 1 .. Len(t) : i + Len(s) \in DOMAIN (s \o t) /\ (s \o t)[i + Len(s)] = t[i]
    BY <1>1
  <2>2. \A i \in DOMAIN (s \o t) : (s \o t)[i] \in ToSet(s) \union ToSet(t)
    <3>1. \A i \in Len(s) + 1 .. Len(s) + Len(t) : i - Len(s) \in DOMAIN t
      BY <1>1
    <3>2. \A i \in DOMAIN (s \o t) : i \in DOMAIN s \/ i \in Len(s) + 1 .. Len(s) + Len(t)
      BY <1>1
    <3>q. QED BY <1>1, <3>1, <3>2 DEF ToSet
  <2>3. \A i \in DOMAIN s : i \in DOMAIN (s \o t) /\ (s \o t)[i] = s[i]
    BY <1>1
  <2>4. ToSet(s \o t) \subseteq ToSet(s) \union ToSet(t)
    BY <2>2 DEF ToSet
  <2>5. ToSet(s) \subseteq ToSet(s \o t)
    BY <2>3 DEF ToSet
  <2>6. ToSet(t) \subseteq ToSet(s \o t)
    <3>1. \A x \in ToSet(t) : \E i \in 1 .. Len(t) : t[i] = x
      BY ToSetMember
    <3>2. \A i \in 1 .. Len(t) : t[i] \in ToSet(s \o t)
      BY <2>1 DEF ToSet
    <3>q. QED BY <3>1, <3>2
  <2>q. QED BY <2>4, <2>5, <2>6
<1>3. ASSUME IsInjective(s), IsInjective(t), ToSet(s) \intersect ToSet(t) = {}
      PROVE  IsInjective(s \o t)
  <2>1. \A i \in DOMAIN s, j \in DOMAIN t : s[i] # t[j]
    BY <1>3 DEF ToSet
  <2>q. QED BY <1>1, <1>3, <2>1 DEF IsInjective
<1>q. QED BY <1>1, <1>2, <1>3

\* splice(k, 1) on a queue of length n: what is left, by index.
LEMMA SpliceIndex ==
  ASSUME NEW S, NEW s \in Seq(S), NEW n \in Nat, n = Len(s), NEW k \in 1 .. n
  PROVE  /\ RemoveAt(s, k) \in Seq(S)
         /\ Len(RemoveAt(s, k)) = n - 1
         /\ \A i \in 1 .. n - 1 : RemoveAt(s, k)[i] = IF i < k THEN s[i] ELSE s[i + 1]
<1>1. \A i \in 1 .. n : s[i] \in S
  BY ElementOfSeq
<1> DEFINE a == SubSeq(s, 1, k - 1)
           b == SubSeq(s, k + 1, n)
<1>2. /\ a \in Seq(S) /\ Len(a) = k - 1
      /\ \A i \in 1 .. k - 1 : a[i] = s[i]
  <2>1. \A i \in 1 .. k - 1 : s[i] \in S
    BY <1>1
  <2>q. QED BY <2>1, SubSeqProperties
<1>3. /\ b \in Seq(S) /\ Len(b) = n - k
      /\ \A i \in 1 .. n - k : b[i] = s[k + i]
  <2>1. \A i \in k + 1 .. n : s[i] \in S
    BY <1>1
  <2>2. /\ b \in Seq(S)
        /\ Len(b) = IF k + 1 <= n THEN n - (k + 1) + 1 ELSE 0
        /\ \A i \in 1 .. n - (k + 1) + 1 : b[i] = s[k + 1 + i - 1]
    BY <2>1, SubSeqProperties
  <2>q. QED BY <2>2
<1>4. RemoveAt(s, k) = a \o b
  BY DEF RemoveAt
<1> HIDE DEF a, b
<1>5. /\ a \o b \in Seq(S) /\ Len(a \o b) = Len(a) + Len(b)
      /\ \A i \in 1 .. Len(a) + Len(b) :
           (a \o b)[i] = IF i <= Len(a) THEN a[i] ELSE b[i - Len(a)]
  BY <1>2, <1>3, ConcatProperties
<1>6. ASSUME NEW i \in 1 .. n - 1
      PROVE  (a \o b)[i] = IF i < k THEN s[i] ELSE s[i + 1]
  <2>1. CASE i < k
    BY <1>2, <1>3, <1>5, <2>1
  <2>2. CASE ~(i < k)
    <3>1. i - (k - 1) \in 1 .. n - k /\ k + (i - (k - 1)) = i + 1
      BY <2>2
    <3>2. (a \o b)[i] = b[i - (k - 1)]
      BY <1>2, <1>3, <1>5, <2>2
    <3>q. QED BY <1>3, <2>2, <3>1, <3>2
  <2>q. QED BY <2>1, <2>2
<1>7. Len(a \o b) = n - 1
  BY <1>2, <1>3, <1>5
<1>q. QED BY <1>4, <1>5, <1>6, <1>7

\* splice(k, 1) takes one element away, and keeps the others once each.
LEMMA SpliceLemma ==
  ASSUME NEW S, NEW s \in Seq(S), IsInjective(s), NEW n \in Nat, n = Len(s),
         NEW k \in 1 .. n
  PROVE  /\ ToSet(RemoveAt(s, k)) = ToSet(s) \ {s[k]}
         /\ IsInjective(RemoveAt(s, k))
<1> DEFINE r == RemoveAt(s, k)
<1> HIDE DEF r
<1>1. /\ r \in Seq(S) /\ Len(r) = n - 1
      /\ \A i \in 1 .. n - 1 : r[i] = IF i < k THEN s[i] ELSE s[i + 1]
  <2>1. RemoveAt(s, k) \in Seq(S)
    BY SpliceIndex
  <2>2. Len(RemoveAt(s, k)) = n - 1
    BY SpliceIndex
  <2>3. \A i \in 1 .. n - 1 : RemoveAt(s, k)[i] = IF i < k THEN s[i] ELSE s[i + 1]
    BY SpliceIndex
  <2>q. QED BY <2>1, <2>2, <2>3 DEF r
<1>2. DOMAIN r = 1 .. n - 1 /\ DOMAIN s = 1 .. n
  BY <1>1, LenProperties
<1>3. \A i, j \in 1 .. n : s[i] = s[j] => i = j
  BY <1>2 DEF IsInjective
<1>4. IsInjective(r)
  <2>1. SUFFICES ASSUME NEW i \in 1 .. n - 1, NEW j \in 1 .. n - 1, r[i] = r[j]
                 PROVE  i = j
    BY <1>2 DEF IsInjective
  <2>2. /\ i \in 1 .. n /\ j \in 1 .. n /\ i + 1 \in 1 .. n /\ j + 1 \in 1 .. n
    OBVIOUS
  <2>q. QED BY <1>1, <1>3, <2>1, <2>2
<1>5. \A i \in 1 .. n - 1 : r[i] \in ToSet(s) \ {s[k]}
  <2>0. \A j \in 1 .. n : j # k => s[j] \in ToSet(s) /\ s[j] # s[k]
    BY <1>2, <1>3, ToSetMember
  <2>1. SUFFICES ASSUME NEW i \in 1 .. n - 1
                 PROVE  \E j \in 1 .. n : j # k /\ r[i] = s[j]
    BY <2>0
  <2>2. CASE i < k
    <3>1. i \in 1 .. n /\ i # k
      BY <2>2
    <3>q. QED BY <1>1, <2>2, <3>1
  <2>3. CASE ~(i < k)
    <3>1. i + 1 \in 1 .. n /\ i + 1 # k
      BY <2>3
    <3>q. QED BY <1>1, <2>3, <3>1
  <2>q. QED BY <2>2, <2>3
<1>6. \A j \in 1 .. n : j # k => \E i \in 1 .. n - 1 : r[i] = s[j]
  <2>1. SUFFICES ASSUME NEW j \in 1 .. n, j # k
                 PROVE  \E i \in 1 .. n - 1 : r[i] = s[j]
    OBVIOUS
  <2>2. CASE j < k
    <3>1. j \in 1 .. n - 1
      BY <2>2
    <3>q. QED BY <1>1, <2>2, <3>1
  <2>3. CASE ~(j < k)
    <3>1. j - 1 \in 1 .. n - 1 /\ ~(j - 1 < k) /\ (j - 1) + 1 = j
      BY <2>1, <2>3
    <3>q. QED BY <1>1, <3>1
  <2>q. QED BY <2>2, <2>3
<1>7. \A x : x \in ToSet(r) <=> \E i \in 1 .. n - 1 : r[i] = x
  BY <1>1, <1>2, ToSetMember
<1>8. \A x : x \in ToSet(s) <=> \E i \in 1 .. n : s[i] = x
  BY ToSetMember
<1>9. ToSet(r) = ToSet(s) \ {s[k]}
  BY <1>5, <1>6, <1>7, <1>8, SMTT(60)
<1>q. QED BY <1>4, <1>9 DEF r

\* splice(indexOf(e), 1) takes e away, and only e.
LEMMA RemoveLemma ==
  ASSUME NEW S, NEW s \in Seq(S), IsInjective(s), NEW e \in ToSet(s),
         NEW k, k = CHOOSE i \in DOMAIN s : s[i] = e
  PROVE  /\ RemoveAt(s, k) \in Seq(S)
         /\ Len(RemoveAt(s, k)) = Len(s) - 1
         /\ ToSet(RemoveAt(s, k)) = ToSet(s) \ {e}
         /\ IsInjective(RemoveAt(s, k))
<1>1. PICK n \in Nat : n = Len(s) /\ DOMAIN s = 1 .. n
  BY LenProperties
<1>2. k \in 1 .. n /\ s[k] = e
  BY <1>1 DEF ToSet
<1>3. RemoveAt(s, k) \in Seq(S)
  BY <1>1, <1>2, SpliceIndex
<1>4. Len(RemoveAt(s, k)) = n - 1
  BY <1>1, <1>2, SpliceIndex
<1>5. ToSet(RemoveAt(s, k)) = ToSet(s) \ {s[k]} /\ IsInjective(RemoveAt(s, k))
  BY <1>1, <1>2, SpliceLemma
<1>q. QED BY <1>1, <1>2, <1>3, <1>4, <1>5
=============================================================================
