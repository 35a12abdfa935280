----------------------------- MODULE QueueLemmas ----------------------------
(***************************************************************************)
(* Facts about sequences without repetition, the waiting lines of the      *)
(* gateway's semaphores: what letting in a prefix, joining and leaving do  *)
(* to the set of those who wait.                                           *)
(***************************************************************************)
EXTENDS SequencesExt, FiniteSetTheorems, SequenceTheorems, TLAPS

(* Nobody is in the empty line only.                                       *)
LEMMA EmptyElements ==
    ASSUME NEW S, NEW q \in Seq(S)
    PROVE  /\ q = <<>> <=> Len(q) = 0
           /\ q = <<>> <=> ToSet(q) = {}
<1>1. q = <<>> <=> Len(q) = 0
  BY EmptySeq
<1>2. ASSUME q # <<>> PROVE ToSet(q) # {}
  <2>1. 1 \in DOMAIN q
    BY <1>1, <1>2
  <2> QED
    BY <2>1 DEF ToSet
<1>3. ToSet(<<>>) = {}
  BY DEF ToSet
<1> QED
  BY <1>1, <1>2, <1>3

(* A prefix of a sequence without repetition has as many elements as its   *)
(* length: what a drain admits is what it counts.                          *)
LEMMA PrefixCardinality ==
    ASSUME NEW S, NEW q \in Seq(S), IsInjective(q), NEW n \in 0..Len(q)
    PROVE  /\ IsFiniteSet({q[i] : i \in 1..n})
           /\ Cardinality({q[i] : i \in 1..n}) = n
<1> DEFINE T == {q[i] : i \in 1..n}
           f == [i \in 1..n |-> q[i]]
<1>1. f \in Bijection(1..n, T)
  <2>1. f \in [1..n -> T]
    OBVIOUS
  <2>2. IsInjective(f)
    BY DEF IsInjective
  <2>3. \A t \in T : \E i \in 1..n : f[i] = t
    OBVIOUS
  <2> QED
    BY <2>1, <2>2, <2>3 DEF Bijection, Injection, Surjection, IsInjective
<1>2. IsFiniteSet(1..n) /\ Cardinality(1..n) = n
  BY FS_Interval
<1>3. ExistsBijection(1..n, T)
  BY <1>1 DEF ExistsBijection
<1> QED
  BY <1>2, <1>3, FS_Bijection

(* Cutting a prefix off a sequence without repetition leaves the other     *)
(* elements, still without repetition.                                     *)
LEMMA SuffixElements ==
    ASSUME NEW S, NEW q \in Seq(S), IsInjective(q), NEW n \in 0..Len(q)
    PROVE  LET rest == SubSeq(q, n + 1, Len(q))
           IN  /\ rest \in Seq(S)
               /\ ToSet(rest) = ToSet(q) \ {q[i] : i \in 1..n}
               /\ IsInjective(rest)
               /\ {q[i] : i \in 1..n} \subseteq ToSet(q)
<1> DEFINE rest == SubSeq(q, n + 1, Len(q))
<1>1. /\ rest \in Seq(S)
      /\ Len(rest) = Len(q) - n
      /\ DOMAIN rest = 1..(Len(q) - n)
      /\ \A i \in 1..(Len(q) - n) : rest[i] = q[n + i]
  OBVIOUS
<1> HIDE DEF rest
<1>2. \A i, j \in 1..Len(q) : q[i] = q[j] => i = j
  BY DEF IsInjective
<1>3. IsInjective(rest)
  BY <1>1, <1>2 DEF IsInjective
<1>4. ToSet(rest) = ToSet(q) \ {q[i] : i \in 1..n}
  <2>1. ASSUME NEW x \in ToSet(rest) PROVE x \in ToSet(q) \ {q[i] : i \in 1..n}
    <3>1. PICK i \in 1..(Len(q) - n) : x = q[n + i]
      BY <2>1, <1>1 DEF ToSet
    <3>2. n + i \in 1..Len(q) /\ ~(n + i \in 1..n)
      OBVIOUS
    <3> QED
      BY <3>1, <3>2, <1>2 DEF ToSet
  <2>2. ASSUME NEW x \in ToSet(q) \ {q[i] : i \in 1..n} PROVE x \in ToSet(rest)
    <3>1. PICK i \in 1..Len(q) : x = q[i]
      BY <2>2 DEF ToSet
    <3>2. i > n
      BY <3>1, <2>2
    <3>3. i - n \in 1..(Len(q) - n) /\ rest[i - n] = q[i]
      BY <3>2, <1>1
    <3> QED
      BY <3>1, <3>3, <1>1 DEF ToSet
  <2> QED
    BY <2>1, <2>2
<1>5. {q[i] : i \in 1..n} \subseteq ToSet(q)
  BY DEF ToSet
<1> QED
  BY <1>1, <1>3, <1>4, <1>5 DEF rest

(* Taking out the k-th element of a sequence without repetition: where the *)
(* others are then, and that it is gone.                                   *)
LEMMA RemoveAtElements ==
    ASSUME NEW S, NEW q \in Seq(S), IsInjective(q), NEW k \in 1..Len(q)
    PROVE  /\ RemoveAt(q, k) \in Seq(S)
           /\ Len(RemoveAt(q, k)) = Len(q) - 1
           /\ \A j \in 1..(Len(q) - 1) :
                 RemoveAt(q, k)[j] = IF j < k THEN q[j] ELSE q[j + 1]
           /\ ToSet(RemoveAt(q, k)) = ToSet(q) \ {q[k]}
           /\ IsInjective(RemoveAt(q, k))
<1> DEFINE t == RemoveAt(q, k)
<1>1. \A i, j \in 1..Len(q) : q[i] = q[j] => i = j
  BY DEF IsInjective
<1>2. /\ t \in Seq(S)
      /\ Len(t) = Len(q) - 1
      /\ DOMAIN t = 1..(Len(q) - 1)
      /\ \A j \in 1..(Len(q) - 1) : t[j] = IF j < k THEN q[j] ELSE q[j + 1]
  <2> DEFINE a == SubSeq(q, 1, k - 1)
             b == SubSeq(q, k + 1, Len(q))
  <2>1. /\ a \in Seq(S)
        /\ Len(a) = k - 1
        /\ \A j \in 1..(k - 1) : a[j] = q[j]
    OBVIOUS
  <2>2. /\ b \in Seq(S)
        /\ Len(b) = Len(q) - k
        /\ \A j \in 1..(Len(q) - k) : b[j] = q[k + j]
    OBVIOUS
  <2>3. t = a \o b
    BY DEF RemoveAt
  <2> HIDE DEF a, b, t
  <2>4. /\ t \in Seq(S)
        /\ Len(t) = Len(a) + Len(b)
        /\ \A j \in 1..(Len(a) + Len(b)) :
              t[j] = IF j <= Len(a) THEN a[j] ELSE b[j - Len(a)]
    BY <2>1, <2>2, <2>3, ConcatProperties
  <2>5. Len(a) + Len(b) = Len(q) - 1
    BY <2>1, <2>2
  <2>6. \A j \in 1..(Len(q) - 1) :
           t[j] = IF j <= k - 1 THEN a[j] ELSE b[j - (k - 1)]
    BY <2>1, <2>4, <2>5
  <2>7. ASSUME NEW j \in 1..(Len(q) - 1)
        PROVE  t[j] = IF j < k THEN q[j] ELSE q[j + 1]
    <3>1. CASE j < k
      BY <3>1, <2>1, <2>6
    <3>2. CASE j >= k
      <4>1. j - (k - 1) \in 1..(Len(q) - k) /\ k + (j - (k - 1)) = j + 1
        BY <3>2
      <4> QED
        BY <3>2, <4>1, <2>2, <2>6
    <3> QED
      BY <3>1, <3>2
  <2> QED
    BY <2>4, <2>5, <2>7
<1> HIDE DEF t
<1>3. IsInjective(t)
  BY <1>1, <1>2 DEF IsInjective
<1>4. ToSet(t) = ToSet(q) \ {q[k]}
  <2>1. ASSUME NEW x \in ToSet(t) PROVE x \in ToSet(q) \ {q[k]}
    <3>1. PICK j \in 1..(Len(q) - 1) : x = t[j]
      BY <1>2 DEF ToSet
    <3>2. PICK i \in 1..Len(q) : t[j] = q[i] /\ i # k
      <4>1. CASE j < k
        BY <4>1, <1>2
      <4>2. CASE j >= k
        <5>1. j + 1 \in 1..Len(q) /\ j + 1 # k /\ t[j] = q[j + 1]
          BY <4>2, <1>2
        <5> QED
          BY <5>1
      <4> QED
        BY <4>1, <4>2
    <3>3. q[i] # q[k]
      BY <3>2, <1>1
    <3> QED
      BY <3>1, <3>2, <3>3 DEF ToSet
  <2>2. ASSUME NEW x \in ToSet(q) \ {q[k]} PROVE x \in ToSet(t)
    <3>1. PICK j \in 1..Len(q) : x = q[j]
      BY <2>2 DEF ToSet
    <3>2. j # k
      BY <3>1, <2>2, <1>1
    <3>3. CASE j < k
      <4>1. j \in 1..(Len(q) - 1) /\ t[j] = q[j]
        BY <3>3, <1>2
      <4> QED
        BY <4>1, <3>1, <1>2 DEF ToSet
    <3>4. CASE j > k
      <4>1. j - 1 \in 1..(Len(q) - 1) /\ t[j - 1] = q[j]
        BY <3>4, <1>2
      <4> QED
        BY <4>1, <3>1, <1>2 DEF ToSet
    <3> QED
      BY <3>2, <3>3, <3>4
  <2> QED
    BY <2>1, <2>2
<1> QED
  BY <1>2, <1>3, <1>4 DEF t

(* Removing an element from a sequence without repetition removes exactly  *)
(* that element; the first one stays the first.                            *)
LEMMA RemoveFirstElements ==
    ASSUME NEW S, NEW q \in Seq(S), IsInjective(q), NEW e
    PROVE  /\ RemoveFirst(q, e) \in Seq(S)
           /\ ToSet(RemoveFirst(q, e)) = ToSet(q) \ {e}
           /\ IsInjective(RemoveFirst(q, e))
           /\ q # <<>> /\ Head(q) # e => Head(RemoveFirst(q, e)) = Head(q)
<1>1. CASE ~ \E i \in 1..Len(q) : q[i] = e
  BY <1>1 DEF RemoveFirst, ToSet
<1>2. CASE \E i \in 1..Len(q) : q[i] = e
  <2>1. PICK k \in 1..Len(q) : q[k] = e
    BY <1>2
  <2>2. \A i, j \in 1..Len(q) : q[i] = q[j] => i = j
    BY DEF IsInjective
  <2>3. {i \in 1..Len(q) : q[i] = e} = {k}
    BY <2>1, <2>2
  <2>4. RemoveFirst(q, e) = RemoveAt(q, k)
    <3>1. Min({k}) = k
      BY DEF Min
    <3> QED
      BY <1>2, <2>3, <3>1 DEF RemoveFirst, SelectInSeq
  <2>5. Head(q) # e => Head(RemoveAt(q, k)) = Head(q)
    <3>1. SUFFICES ASSUME Head(q) # e PROVE RemoveAt(q, k)[1] = q[1]
      BY <2>1, RemoveAtElements
    <3>2. 1 < k /\ 1 \in 1..(Len(q) - 1)
      BY <2>1, <3>1
    <3> QED
      BY <3>2, RemoveAtElements
  <2> QED
    BY <2>1, <2>4, <2>5, RemoveAtElements
<1> QED
  BY <1>1, <1>2

(* The first element out of a sequence without repetition.                 *)
LEMMA TailElements ==
    ASSUME NEW S, NEW q \in Seq(S), IsInjective(q), q # <<>>
    PROVE  /\ Tail(q) \in Seq(S)
           /\ ToSet(Tail(q)) = ToSet(q) \ {Head(q)}
           /\ IsInjective(Tail(q))
<1>1. 1 \in 0..Len(q) /\ Tail(q) = SubSeq(q, 1 + 1, Len(q))
  BY TailIsSubSeq
<1>2. {q[i] : i \in 1..1} = {Head(q)}
  OBVIOUS
<1> QED
  BY <1>1, <1>2, SuffixElements

(* Somebody new at the end of a sequence without repetition.               *)
LEMMA AppendElements ==
    ASSUME NEW S, NEW q \in Seq(S), IsInjective(q), NEW e \in S, e \notin ToSet(q)
    PROVE  /\ Append(q, e) \in Seq(S)
           /\ ToSet(Append(q, e)) = ToSet(q) \cup {e}
           /\ IsInjective(Append(q, e))
<1> DEFINE p == Append(q, e)
<1>1. /\ p \in Seq(S)
      /\ DOMAIN p = 1..(Len(q) + 1) /\ DOMAIN q = 1..Len(q)
      /\ \A i \in 1..Len(q) : p[i] = q[i]
      /\ p[Len(q) + 1] = e
  OBVIOUS
<1> HIDE DEF p
<1>2. ToSet(p) = ToSet(q) \cup {e}
  BY <1>1 DEF ToSet
<1>3. \A i \in 1..Len(q) : q[i] # e
  BY DEF ToSet
<1>4. IsInjective(p)
  BY <1>1, <1>3 DEF IsInjective
<1> QED
  BY <1>1, <1>2, <1>4 DEF p
=============================================================================
