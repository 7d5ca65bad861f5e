------------------------- MODULE OrchestratorProofs -------------------------
(***************************************************************************)
(* Proofs about Orchestrator for every list of files, every size of the    *)
(* batches and queues, every number of jobs, attempts and restarts.        *)
(***************************************************************************)
EXTENDS Orchestrator, FiniteSetTheorems, SequenceTheorems, TLAPS

USE FileListAssumption, BoundsAssumption

-----------------------------------------------------------------------------
(* Lists without repetition and the sets of their elements. *)

LEMMA ToSetType ==
  ASSUME NEW T, NEW s \in Seq(T)
  PROVE  /\ ToSet(s) = {s[i] : i \in 1 .. Len(s)}
         /\ ToSet(s) \subseteq T
         /\ s = <<>> <=> ToSet(s) = {}
         /\ \A i \in 1 .. Len(s) : s[i] \in ToSet(s)
  <1>1. DOMAIN s = 1 .. Len(s) /\ \A i \in 1 .. Len(s) : s[i] \in T
    OBVIOUS
  <1>2. s = <<>> <=> Len(s) = 0
    BY EmptySeq
  <1>3. ToSet(s) = {s[i] : i \in 1 .. Len(s)}
    BY <1>1 DEF ToSet
  <1>4. Len(s) = 0 <=> ToSet(s) = {}
    <2>1. Len(s) = 0 => 1 .. Len(s) = {}
      OBVIOUS
    <2>2. Len(s) # 0 => 1 \in 1 .. Len(s)
      OBVIOUS
    <2> QED  BY <1>3, <2>1, <2>2
  <1> QED  BY <1>1, <1>2, <1>3, <1>4

LEMMA EmptyList == ToSet(<<>>) = {} /\ IsInjective(<<>>) /\ Len(<<>>) = 0
  BY DEF ToSet, IsInjective

(* Queue.put: one more element, and no repetition if it is new. *)
LEMMA PutAtEnd ==
  ASSUME NEW T, NEW s \in Seq(T), NEW x \in T
  PROVE  /\ Append(s, x) \in Seq(T)
         /\ Len(Append(s, x)) = Len(s) + 1
         /\ ToSet(Append(s, x)) = ToSet(s) \cup {x}
         /\ IsInjective(s) /\ x \notin ToSet(s) => IsInjective(Append(s, x))
  <1> DEFINE a == Append(s, x)
  <1>1. /\ a \in Seq(T) /\ Len(a) = Len(s) + 1
        /\ \A i \in 1 .. Len(s) : a[i] = s[i]
        /\ a[Len(s) + 1] = x
    BY AppendProperties
  <1>2. /\ ToSet(a) = {a[i] : i \in 1 .. Len(a)}
        /\ ToSet(s) = {s[i] : i \in 1 .. Len(s)}
    BY <1>1, ToSetType
  <1>3. 1 .. Len(a) = 1 .. Len(s) \cup {Len(s) + 1}
    BY <1>1
  <1>4. ToSet(a) = ToSet(s) \cup {x}
    BY <1>1, <1>2, <1>3
  <1>5. ASSUME IsInjective(s), x \notin ToSet(s) PROVE IsInjective(a)
    <2>1. DOMAIN s = 1 .. Len(s) /\ DOMAIN a = 1 .. Len(a)
      BY <1>1
    <2>2. \A i \in 1 .. Len(s) : s[i] # x
      BY <1>5, <1>2
    <2> QED  BY <1>1, <1>3, <1>5, <2>1, <2>2 DEF IsInjective
  <1> QED  BY <1>1, <1>4, <1>5

(* Queue.get: the first element goes, and is not left further down. *)
LEMMA GetFirst ==
  ASSUME NEW T, NEW s \in Seq(T), s # <<>>
  PROVE  /\ Head(s) \in T /\ Head(s) \in ToSet(s)
         /\ Tail(s) \in Seq(T)
         /\ Len(Tail(s)) = Len(s) - 1 /\ Len(s) >= 1
         /\ ToSet(s) = ToSet(Tail(s)) \cup {Head(s)}
         /\ IsInjective(s) => /\ IsInjective(Tail(s))
                              /\ Head(s) \notin ToSet(Tail(s))
                              /\ ToSet(Tail(s)) = ToSet(s) \ {Head(s)}
  <1> DEFINE t == Tail(s)
  <1>1. /\ t \in Seq(T) /\ Len(t) = Len(s) - 1 /\ Len(s) \in Nat \ {0}
        /\ \A i \in 1 .. Len(t) : t[i] = s[i + 1]
        /\ Head(s) = s[1]
    BY HeadTailProperties, EmptySeq
  <1>2. /\ ToSet(t) = {t[i] : i \in 1 .. Len(t)}
        /\ ToSet(s) = {s[i] : i \in 1 .. Len(s)}
    BY <1>1, ToSetType
  <1>3. \A j \in 1 .. Len(s) : j = 1 \/ (j - 1 \in 1 .. Len(t) /\ s[j] = t[j - 1])
    BY <1>1
  <1>4. \A i \in 1 .. Len(t) : i + 1 \in 1 .. Len(s)
    BY <1>1
  <1>5. ToSet(s) = ToSet(t) \cup {Head(s)}
    <2>1. ToSet(s) \subseteq ToSet(t) \cup {Head(s)}
      BY <1>1, <1>2, <1>3
    <2>2. 1 \in 1 .. Len(s)
      BY <1>1
    <2>3. ToSet(t) \cup {Head(s)} \subseteq ToSet(s)
      BY <1>1, <1>2, <1>4, <2>2
    <2> QED  BY <2>1, <2>3
  <1>6. ASSUME IsInjective(s)
        PROVE  IsInjective(t) /\ Head(s) \notin ToSet(t)
    <2>1. DOMAIN s = 1 .. Len(s) /\ DOMAIN t = 1 .. Len(t)
      BY <1>1
    <2>2. \A i, j \in 1 .. Len(t) : t[i] = t[j] => i = j
      BY <1>1, <1>4, <1>6, <2>1 DEF IsInjective
    <2>3. ASSUME NEW i \in 1 .. Len(t) PROVE t[i] # Head(s)
      <3>1. t[i] = s[i + 1] /\ Head(s) = s[1] /\ i + 1 # 1
        BY <1>1
      <3>2. 1 \in 1 .. Len(s) /\ i + 1 \in 1 .. Len(s)
        BY <1>1, <1>4
      <3> QED  BY <1>6, <2>1, <3>1, <3>2 DEF IsInjective
    <2> QED  BY <1>2, <2>1, <2>2, <2>3 DEF IsInjective
  <1>7. Head(s) \in T
    BY <1>1
  <1> QED  BY <1>1, <1>5, <1>6, <1>7

(* dict.pop: one element less, the others as they were. *)
LEMMA WithoutFacts ==
  ASSUME NEW T, NEW s \in Seq(T), NEW e \in ToSet(s)
  PROVE  /\ Without(s, e) \in Seq(T)
         /\ Len(Without(s, e)) = Len(s) - 1
         /\ IsInjective(s) => /\ IsInjective(Without(s, e))
                              /\ ToSet(Without(s, e)) = ToSet(s) \ {e}
  <1> DEFINE p == CHOOSE i \in DOMAIN s : s[i] = e
             l == SubSeq(s, 1, p - 1)
             r == SubSeq(s, p + 1, Len(s))
             w == Without(s, e)
  <1> HIDE DEF p
  <1>1. p \in 1 .. Len(s) /\ s[p] = e
    BY DEF ToSet, p
  <1>2. w = l \o r
    BY DEF Without, RemoveAt, p, w, l, r
  <1>3. /\ l \in Seq(T) /\ Len(l) = p - 1
        /\ \A i \in 1 .. p - 1 : l[i] = s[i]
    BY <1>1, SubSeqProperties
  <1>4. /\ r \in Seq(T) /\ Len(r) = Len(s) - p
        /\ \A i \in 1 .. Len(s) - p : r[i] = s[p + i]
    BY <1>1, SubSeqProperties
  <1> HIDE DEF l, r, w
  <1>5. /\ w \in Seq(T) /\ Len(w) = Len(s) - 1
        /\ \A i \in 1 .. Len(s) - 1 : w[i] = IF i < p THEN s[i] ELSE s[i + 1]
    <2>1. /\ w \in Seq(T) /\ Len(w) = Len(l) + Len(r)
          /\ \A i \in 1 .. Len(l) + Len(r) :
               w[i] = IF i <= Len(l) THEN l[i] ELSE r[i - Len(l)]
      BY <1>2, <1>3, <1>4, ConcatProperties
    <2>2. Len(w) = Len(s) - 1
      BY <1>1, <1>3, <1>4, <2>1
    <2>3. ASSUME NEW i \in 1 .. Len(s) - 1
          PROVE  w[i] = IF i < p THEN s[i] ELSE s[i + 1]
      <3>1. CASE i < p
        <4>1. i \in 1 .. p - 1 /\ i <= Len(l) /\ i \in 1 .. Len(l) + Len(r)
          BY <1>1, <1>3, <1>4, <3>1
        <4> QED  BY <1>3, <2>1, <3>1, <4>1
      <3>2. CASE i >= p
        <4>1. ~(i <= Len(l)) /\ i \in 1 .. Len(l) + Len(r)
          BY <1>1, <1>3, <1>4, <3>2
        <4>2. i - Len(l) = i - p + 1 /\ i - p + 1 \in 1 .. Len(s) - p
          BY <1>1, <1>3, <3>2
        <4>3. w[i] = r[i - p + 1]
          BY <2>1, <4>1, <4>2
        <4>4. p + (i - p + 1) = i + 1
          BY <1>1
        <4>5. r[i - p + 1] = s[p + (i - p + 1)]
          BY <1>4, <4>2
        <4>6. ~(i < p)
          BY <1>1, <3>2
        <4> QED  BY <4>3, <4>4, <4>5, <4>6
      <3> QED  BY <1>1, <3>1, <3>2
    <2> QED  BY <2>1, <2>2, <2>3
  <1>6. ASSUME IsInjective(s)
        PROVE  IsInjective(w) /\ ToSet(w) = ToSet(s) \ {e}
    <2>1. DOMAIN s = 1 .. Len(s) /\ DOMAIN w = 1 .. Len(s) - 1
      BY <1>5
    <2>2. \A i, j \in 1 .. Len(s) : s[i] = s[j] => i = j
      BY <1>6, <2>1 DEF IsInjective
    <2>3. ASSUME NEW i \in 1 .. Len(s) - 1, NEW j \in 1 .. Len(s) - 1, w[i] = w[j]
          PROVE  i = j
      <3> DEFINE u == IF i < p THEN i ELSE i + 1
                 v == IF j < p THEN j ELSE j + 1
      <3>1. u \in 1 .. Len(s) /\ v \in 1 .. Len(s)
        BY <1>1
      <3>2. w[i] = s[u] /\ w[j] = s[v]
        BY <1>5
      <3>3. u = v
        BY <2>2, <2>3, <3>1, <3>2
      <3> QED  BY <1>1, <3>3
    <2>4. ASSUME NEW i \in 1 .. Len(s) - 1 PROVE w[i] \in ToSet(s) \ {e}
      <3>1. \E k \in 1 .. Len(s) : k # p /\ w[i] = s[k]
        <4> DEFINE u == IF i < p THEN i ELSE i + 1
        <4>1. u \in 1 .. Len(s) /\ u # p
          BY <1>1
        <4>2. w[i] = s[u]
          BY <1>5
        <4> QED  BY <4>1, <4>2
      <3> QED  BY <1>1, <2>1, <2>2, <3>1 DEF ToSet
    <2>5. ASSUME NEW k \in 1 .. Len(s), s[k] # e
          PROVE  \E i \in 1 .. Len(s) - 1 : w[i] = s[k]
      <3>1. CASE k < p
        <4>1. k \in 1 .. Len(s) - 1
          BY <1>1, <3>1
        <4> QED  BY <1>5, <3>1, <4>1
      <3>2. CASE k > p
        <4>1. k - 1 \in 1 .. Len(s) - 1 /\ ~(k - 1 < p) /\ (k - 1) + 1 = k
          BY <1>1, <3>2
        <4>2. w[k - 1] = s[k]
          BY <1>5, <4>1
        <4> QED  BY <4>1, <4>2
      <3> QED  BY <1>1, <2>5, <3>1, <3>2
    <2>6. ToSet(w) = {w[i] : i \in 1 .. Len(s) - 1}
      BY <2>1 DEF ToSet
    <2>7. ToSet(s) = {s[i] : i \in 1 .. Len(s)}
      BY <2>1 DEF ToSet
    <2>8. ToSet(s) \ {e} \subseteq ToSet(w)
      BY <2>5, <2>6, <2>7
    <2>9. ToSet(w) \subseteq ToSet(s) \ {e}
      BY <2>4, <2>6
    <2>10. IsInjective(w)
      BY <2>1, <2>3 DEF IsInjective
    <2> QED  BY <2>8, <2>9, <2>10
  <1> QED  BY <1>5, <1>6 DEF w

(* A list cut in two: each part keeps its order, no element is in both. *)
LEMMA CutFacts ==
  ASSUME NEW T, NEW s \in Seq(T), NEW n \in 0 .. Len(s)
  PROVE  /\ SubSeq(s, 1, n) \in Seq(T) /\ Len(SubSeq(s, 1, n)) = n
         /\ SubSeq(s, n + 1, Len(s)) \in Seq(T)
         /\ Len(SubSeq(s, n + 1, Len(s))) = Len(s) - n
         /\ ToSet(s) = ToSet(SubSeq(s, 1, n)) \cup ToSet(SubSeq(s, n + 1, Len(s)))
         /\ IsInjective(s)
              => /\ IsInjective(SubSeq(s, 1, n)) /\ IsInjective(SubSeq(s, n + 1, Len(s)))
                 /\ ToSet(SubSeq(s, 1, n)) \cap ToSet(SubSeq(s, n + 1, Len(s))) = {}
  <1> DEFINE a == SubSeq(s, 1, n)
             b == SubSeq(s, n + 1, Len(s))
  <1>1. a \in Seq(T) /\ Len(a) = n /\ \A i \in 1 .. n : a[i] = s[i]
    BY SubSeqProperties
  <1>2. /\ b \in Seq(T) /\ Len(b) = Len(s) - n
        /\ \A i \in 1 .. Len(s) - n : b[i] = s[n + i]
    BY SubSeqProperties
  <1> HIDE DEF a, b
  <1>3. /\ ToSet(a) = {a[i] : i \in 1 .. n}
        /\ ToSet(b) = {b[i] : i \in 1 .. Len(s) - n}
        /\ ToSet(s) = {s[i] : i \in 1 .. Len(s)}
    BY <1>1, <1>2, ToSetType
  <1>4. ASSUME NEW i \in 1 .. Len(s) PROVE s[i] \in ToSet(a) \cup ToSet(b)
    <2>1. CASE i <= n
      BY <1>1, <1>3, <2>1
    <2>2. CASE i > n
      <3>1. i - n \in 1 .. Len(s) - n /\ n + (i - n) = i
        BY <2>2
      <3> QED  BY <1>2, <1>3, <3>1
    <2> QED  BY <2>1, <2>2
  <1>5. \A i \in 1 .. n : i \in 1 .. Len(s)
    OBVIOUS
  <1>6. \A i \in 1 .. Len(s) - n : n + i \in 1 .. Len(s)
    OBVIOUS
  <1>7. ToSet(s) = ToSet(a) \cup ToSet(b)
    <2>1. ToSet(s) \subseteq ToSet(a) \cup ToSet(b)
      BY <1>3, <1>4
    <2>2. ToSet(a) \subseteq ToSet(s)
      BY <1>1, <1>3, <1>5
    <2>3. ToSet(b) \subseteq ToSet(s)
      BY <1>2, <1>3, <1>6
    <2> QED  BY <2>1, <2>2, <2>3
  <1>8. ASSUME IsInjective(s)
        PROVE  IsInjective(a) /\ IsInjective(b) /\ ToSet(a) \cap ToSet(b) = {}
    <2>1. DOMAIN a = 1 .. n /\ DOMAIN b = 1 .. Len(s) - n /\ DOMAIN s = 1 .. Len(s)
      BY <1>1, <1>2
    <2>2. \A i, j \in 1 .. Len(s) : s[i] = s[j] => i = j
      BY <1>8, <2>1 DEF IsInjective
    <2>3. IsInjective(a)
      BY <1>1, <1>5, <2>1, <2>2 DEF IsInjective
    <2>4. IsInjective(b)
      <3> SUFFICES ASSUME NEW i \in 1 .. Len(s) - n, NEW j \in 1 .. Len(s) - n, b[i] = b[j]
                   PROVE  i = j
        BY <2>1 DEF IsInjective
      <3>1. s[n + i] = s[n + j]
        BY <1>2
      <3>2. n + i = n + j
        BY <1>6, <2>2, <3>1
      <3> QED  BY <3>2
    <2>5. ASSUME NEW i \in 1 .. n, NEW j \in 1 .. Len(s) - n PROVE a[i] # b[j]
      <3>1. a[i] = s[i] /\ b[j] = s[n + j] /\ i # n + j
        BY <1>1, <1>2
      <3> QED  BY <1>5, <1>6, <2>2, <3>1
    <2> QED  BY <1>3, <2>3, <2>4, <2>5
  <1> QED  BY <1>1, <1>2, <1>7, <1>8 DEF a, b

(* As many files as places in a list without repetition. *)
LEMMA LenIsCardinality ==
  ASSUME NEW T, NEW s \in Seq(T), IsInjective(s)
  PROVE  IsFiniteSet(ToSet(s)) /\ Cardinality(ToSet(s)) = Len(s)
  <1>1. s \in [1 .. Len(s) -> ToSet(s)]
    BY ToSetType
  <1>2. s \in Bijection(1 .. Len(s), ToSet(s))
    BY <1>1, ToSetType DEF Bijection, Injection, Surjection, IsInjective
  <1>3. ExistsBijection(1 .. Len(s), ToSet(s))
    BY <1>2 DEF ExistsBijection
  <1>4. IsFiniteSet(1 .. Len(s)) /\ Cardinality(1 .. Len(s)) = Len(s)
    <2>1. 1 \in Int /\ Len(s) \in Int /\ Len(s) \in Nat
      OBVIOUS
    <2>2. (IF 1 > Len(s) THEN 0 ELSE Len(s) - 1 + 1) = Len(s)
      BY <2>1
    <2> QED  BY <2>1, <2>2, FS_Interval
  <1> QED  BY <1>3, <1>4, FS_Bijection

(* Two lists end to end. *)
LEMMA JoinFacts ==
  ASSUME NEW T, NEW s \in Seq(T), NEW t \in Seq(T)
  PROVE  /\ s \o t \in Seq(T)
         /\ ToSet(s \o t) = ToSet(s) \cup ToSet(t)
         /\ IsInjective(s) /\ IsInjective(t) /\ ToSet(s) \cap ToSet(t) = {}
              => IsInjective(s \o t)
  <1> DEFINE c == s \o t
  <1>1. /\ c \in Seq(T) /\ Len(c) = Len(s) + Len(t)
        /\ \A i \in 1 .. Len(s) + Len(t) :
             c[i] = IF i <= Len(s) THEN s[i] ELSE t[i - Len(s)]
    BY ConcatProperties
  <1> HIDE DEF c
  <1>2. /\ ToSet(c) = {c[i] : i \in 1 .. Len(s) + Len(t)}
        /\ ToSet(s) = {s[i] : i \in 1 .. Len(s)}
        /\ ToSet(t) = {t[i] : i \in 1 .. Len(t)}
    BY <1>1, ToSetType
  <1>3. ASSUME NEW i \in 1 .. Len(s) PROVE i \in 1 .. Len(s) + Len(t) /\ c[i] = s[i]
    BY <1>1
  <1>4. ASSUME NEW j \in 1 .. Len(t)
        PROVE  Len(s) + j \in 1 .. Len(s) + Len(t) /\ c[Len(s) + j] = t[j]
    <2>1. ~(Len(s) + j <= Len(s)) /\ (Len(s) + j) - Len(s) = j
      OBVIOUS
    <2>2. Len(s) + j \in 1 .. Len(s) + Len(t)
      OBVIOUS
    <2> QED  BY <1>1, <2>1, <2>2
  <1>5. ASSUME NEW i \in 1 .. Len(s) + Len(t), i > Len(s)
        PROVE  i - Len(s) \in 1 .. Len(t) /\ c[i] = t[i - Len(s)]
    BY <1>1, <1>5
  <1>6. ToSet(c) \subseteq ToSet(s) \cup ToSet(t)
    <2> SUFFICES ASSUME NEW i \in 1 .. Len(s) + Len(t)
                 PROVE  c[i] \in ToSet(s) \cup ToSet(t)
      BY <1>2
    <2>1. CASE i <= Len(s)
      <3>1. i \in 1 .. Len(s)
        BY <2>1
      <3> QED  BY <1>2, <1>3, <3>1
    <2>2. CASE i > Len(s)
      BY <1>2, <1>5, <2>2
    <2> QED  BY <2>1, <2>2
  <1>7. ToSet(s) \cup ToSet(t) \subseteq ToSet(c)
    BY <1>2, <1>3, <1>4
  <1>8. ASSUME IsInjective(s), IsInjective(t), ToSet(s) \cap ToSet(t) = {}
        PROVE  IsInjective(c)
    <2>1. DOMAIN c = 1 .. Len(s) + Len(t) /\ DOMAIN s = 1 .. Len(s) /\ DOMAIN t = 1 .. Len(t)
      BY <1>1
    <2>2. /\ \A i, j \in 1 .. Len(s) : s[i] = s[j] => i = j
          /\ \A i, j \in 1 .. Len(t) : t[i] = t[j] => i = j
      BY <1>8, <2>1 DEF IsInjective
    <2>3. \A i \in 1 .. Len(s), j \in 1 .. Len(t) : s[i] # t[j]
      BY <1>2, <1>8
    <2> SUFFICES ASSUME NEW i \in 1 .. Len(s) + Len(t), NEW j \in 1 .. Len(s) + Len(t),
                        c[i] = c[j]
                 PROVE  i = j
      BY <2>1 DEF IsInjective
    <2>4. \A k \in 1 .. Len(s) + Len(t) : k <= Len(s) => k \in 1 .. Len(s) /\ c[k] = s[k]
      BY <1>1
    <2>5. CASE i <= Len(s) /\ j <= Len(s)
      BY <2>2, <2>4, <2>5
    <2>6. CASE i > Len(s) /\ j > Len(s)
      <3>1. i - Len(s) = j - Len(s)
        BY <1>5, <2>2, <2>6
      <3> QED  BY <3>1
    <2>7. CASE i <= Len(s) /\ j > Len(s)
      BY <1>5, <2>3, <2>4, <2>7
    <2>8. CASE i > Len(s) /\ j <= Len(s)
      BY <1>5, <2>3, <2>4, <2>8
    <2> QED  BY <2>5, <2>6, <2>7, <2>8
  <1> QED  BY <1>1, <1>6, <1>7, <1>8 DEF c

(* Every place of I has a rank of its own, and every rank is reached. *)
LEMMA Ranks ==
  ASSUME NEW I \in SUBSET Nat, IsFiniteSet(I)
  PROVE  /\ Cardinality(I) \in Nat
         /\ \A i, j \in I : Rank(I, i) = Rank(I, j) => i = j
         /\ \A k \in 1 .. Cardinality(I) : \E i \in I : Rank(I, i) = k
  <1> DEFINE B(i) == {j \in I : j <= i}
             n == Cardinality(I)
             rk == [i \in I |-> Rank(I, i)]
  <1>0. \A i \in I : i \in Nat
    OBVIOUS
  <1>1. n \in Nat
    BY FS_CardinalityType
  <1>2. ASSUME NEW i \in I
        PROVE  IsFiniteSet(B(i)) /\ Rank(I, i) = Cardinality(B(i)) /\ Rank(I, i) \in 1 .. n
    <2>1. IsFiniteSet(B(i)) /\ Cardinality(B(i)) <= n
      BY FS_Subset
    <2>2. Cardinality(B(i)) \in Nat
      BY <2>1, FS_CardinalityType
    <2>3. B(i) # {}
      <3>1. i \in B(i)
        OBVIOUS
      <3> QED  BY <3>1
    <2>4. Cardinality(B(i)) # 0
      BY <2>1, <2>3, FS_EmptySet
    <2> QED  BY <1>1, <2>1, <2>2, <2>4 DEF Rank
  <1>3. \A i \in I : Rank(I, i) \in Nat
    <2> HIDE DEF B, n
    <2> QED  BY <1>1, <1>2
  <1>4. ASSUME NEW i \in I, NEW j \in I, i < j PROVE Rank(I, i) < Rank(I, j)
    <2>0. i \in Nat /\ j \in Nat
      BY <1>0
    <2>1. B(i) \subseteq B(j) /\ j \in B(j) /\ j \notin B(i)
      <3>1. \A k \in I : k <= i => k <= j
        BY <1>0, <1>4, <2>0
      <3>2. j <= j /\ ~(j <= i)
        BY <1>4, <2>0
      <3> QED  BY <3>1, <3>2
    <2>2. B(i) # B(j) /\ B(i) \in SUBSET B(j)
      BY <2>1
    <2>3. Cardinality(B(i)) <= Cardinality(B(j)) /\ Cardinality(B(i)) # Cardinality(B(j))
      BY <1>2, <2>2, FS_Subset
    <2>4. Rank(I, i) <= Rank(I, j) /\ Rank(I, i) # Rank(I, j)
      BY <1>2, <2>3
    <2> HIDE DEF B
    <2> QED  BY <1>3, <2>4
  <1>5. \A i, j \in I : Rank(I, i) = Rank(I, j) => i = j
    <2>1. SUFFICES ASSUME NEW i \in I, NEW j \in I, i # j PROVE Rank(I, i) # Rank(I, j)
      OBVIOUS
    <2>2. i < j \/ j < i
      <3>1. i \in Nat /\ j \in Nat
        BY <1>0
      <3> QED  BY <2>1, <3>1
    <2>3. Rank(I, i) \in Nat /\ Rank(I, j) \in Nat
      BY <1>3
    <2>4. Rank(I, i) < Rank(I, j) \/ Rank(I, j) < Rank(I, i)
      BY <1>4, <2>2
    <2> QED  BY <2>3, <2>4
  <1>6. rk \in Injection(I, 1 .. n)
    BY <1>2, <1>5 DEF Injection, IsInjective
  <1>7. IsFiniteSet(1 .. n) /\ Cardinality(1 .. n) = n
    <2>1. n \in Int /\ 1 \in Int /\ (IF 1 > n THEN 0 ELSE n - 1 + 1) = n
      BY <1>1
    <2> QED  BY <2>1, FS_Interval
  <1> HIDE DEF rk, n
  <1>8. rk \in Surjection(I, 1 .. n)
    BY <1>6, <1>7, FS_Injection DEF n
  <1>9. \A k \in 1 .. n : \E i \in I : rk[i] = k
    BY <1>8 DEF Surjection
  <1>10. \A k \in 1 .. n : \E i \in I : Rank(I, i) = k
    BY <1>9 DEF rk
  <1> QED  BY <1>1, <1>5, <1>10 DEF n

(* The list comprehensions keep exactly the elements asked for, once each. *)
LEMMA PickedFacts ==
  ASSUME NEW T, NEW s \in Seq(T), NEW S
  PROVE  /\ Picked(s, S) \in Seq(T)
         /\ ToSet(Picked(s, S)) = ToSet(s) \cap S
         /\ Len(Picked(s, S)) <= Len(s)
         /\ IsInjective(s) => IsInjective(Picked(s, S))
  <1> DEFINE I == {i \in DOMAIN s : s[i] \in S}
             n == Cardinality(I)
             at(k) == CHOOSE i \in I : Rank(I, i) = k
             p == Picked(s, S)
  <1>1. DOMAIN s = 1 .. Len(s) /\ \A i \in 1 .. Len(s) : s[i] \in T
    OBVIOUS
  <1>2. IsFiniteSet(1 .. Len(s)) /\ Cardinality(1 .. Len(s)) = Len(s)
    <2>1. Len(s) \in Int /\ 1 \in Int /\ (IF 1 > Len(s) THEN 0 ELSE Len(s) - 1 + 1) = Len(s)
      OBVIOUS
    <2> QED  BY <2>1, FS_Interval
  <1>3. I \in SUBSET (1 .. Len(s)) /\ I \in SUBSET Nat
    BY <1>1
  <1>4. IsFiniteSet(I) /\ n <= Len(s)
    BY <1>2, <1>3, FS_Subset
  <1>5. /\ n \in Nat
        /\ \A i, j \in I : Rank(I, i) = Rank(I, j) => i = j
        /\ \A k \in 1 .. n : \E i \in I : Rank(I, i) = k
    BY <1>3, <1>4, Ranks
  <1>6. p = [k \in 1 .. n |-> s[at(k)]]
    BY DEF Picked
  <1>7. \A k \in 1 .. n : at(k) \in I /\ Rank(I, at(k)) = k
    BY <1>5
  <1>8. \A i \in I : i \in 1 .. Len(s) /\ s[i] \in S /\ s[i] \in T
    BY <1>1
  <1>9. ASSUME NEW i \in I PROVE \E k \in 1 .. n : at(k) = i
    <2>1. Rank(I, i) \in 1 .. n
      <3> DEFINE B == {j \in I : j <= i}
      <3>1. IsFiniteSet(B) /\ Cardinality(B) <= n
        BY <1>4, FS_Subset
      <3>2. i \in B
        BY <1>3
      <3>3. Cardinality(B) \in Nat /\ Cardinality(B) # 0
        BY <3>1, <3>2, FS_CardinalityType, FS_EmptySet
      <3> QED  BY <1>5, <3>1, <3>3 DEF Rank
    <2>2. at(Rank(I, i)) = i
      BY <1>5, <1>7, <2>1
    <2> QED  BY <2>1, <2>2
  <1> HIDE DEF at, p, n, I
  <1>10. DOMAIN p = 1 .. n /\ \A k \in 1 .. n : p[k] = s[at(k)]
    BY <1>6
  <1>11. p \in Seq(T) /\ Len(p) = n
    <2>1. p \in [1 .. n -> T]
      BY <1>6, <1>7, <1>8
    <2> QED  BY <1>5, <2>1
  <1>12. ToSet(p) = {p[k] : k \in 1 .. n}
    BY <1>10 DEF ToSet
  <1>13. ToSet(p) \subseteq ToSet(s) \cap S
    BY <1>7, <1>8, <1>10, <1>12, ToSetType
  <1>14. ToSet(s) \cap S \subseteq ToSet(p)
    <2> SUFFICES ASSUME NEW i \in 1 .. Len(s), s[i] \in S PROVE s[i] \in ToSet(p)
      BY ToSetType
    <2>1. i \in I
      BY <1>1 DEF I
    <2> QED  BY <1>9, <1>10, <1>12, <2>1
  <1>15. ASSUME IsInjective(s) PROVE IsInjective(p)
    <2> SUFFICES ASSUME NEW k \in 1 .. n, NEW m \in 1 .. n, p[k] = p[m] PROVE k = m
      BY <1>10 DEF IsInjective
    <2>1. at(k) = at(m)
      BY <1>1, <1>7, <1>8, <1>10, <1>15 DEF IsInjective
    <2> QED  BY <1>7, <2>1
  <1>16. Len(p) <= Len(s)
    BY <1>4, <1>11
  <1>17. ToSet(p) = ToSet(s) \cap S
    BY <1>13, <1>14
  <1> QED  BY <1>11, <1>15, <1>16, <1>17 DEF p

-----------------------------------------------------------------------------
(* The inductive invariant. *)

(* The places of the pipeline as sets: no file is in two of them; a file   *)
(* given up is in none, one collected at most still in job_batch.          *)
Apart(U, F, D, A, Q, B, L, C) ==
    /\ U \cap (F \cup D \cup A \cup Q \cup B \cup L \cup C) = {}
    /\ F \cap (D \cup A \cup Q \cup B \cup L \cup C) = {}
    /\ D \cap (A \cup Q \cup B \cup L \cup C) = {}
    /\ A \cap (Q \cup B \cup L \cup C) = {}
    /\ Q \cap (B \cup L \cup C) = {}
    /\ B \cap L = {}

PlacesApart ==
    Apart(ToSet(Unlisted), ToSet(Fetched), ToSet(downloadQueue), ToSet(active),
          ToSet(uploadQueue), Batch, lost, completed)

Distinct ==
    /\ IsInjective(Unlisted) /\ IsInjective(Fetched) /\ IsInjective(downloadQueue)
    /\ IsInjective(active) /\ IsInjective(uploadQueue) /\ IsInjective(up.batch)
    /\ IsInjective(finished) /\ ToSet(finished) \subseteq ToSet(active)

Accounted ==
    main # "killed"
      => Files \subseteq ToSet(Unlisted) \cup ToSet(Fetched) \cup ToSet(downloadQueue)
                     \cup ToSet(active) \cup ToSet(uploadQueue) \cup Batch
                     \cup lost \cup failed \cup completed

Counted == remaining = Len(Unlisted) + Len(Uncounted) + Cardinality(lost)

(* What the places of the two worker threads say of their batches.  From   *)
(* the first look at the results on, the files of job_batch are completed. *)
DownPlaces ==
    /\ down.pc \in {"pick", "ended"} => down.batch = <<>>
    /\ down.pc \in {"put", "count"} => down.batch # <<>>

UpPlaces ==
    /\ up.pc = "get" => Len(up.batch) < UploadBatch
    /\ up.pc \in {"upload", "mark", "clean"} => Batch \subseteq completed
    /\ up.pc \in {"mark", "clean"} => Uploads(Batch, missing) \subseteq remote
    /\ markers \subseteq completed /\ cleaned \subseteq completed

(* What the two halves of the loop condition have established once read:   *)
(* the other threads can no longer undo it.                                *)
Closing ==
    /\ main \in {"test queues", "stop", "join down", "join up", "finish", "done"}
         => Unlisted = <<>> /\ down.batch = <<>> /\ lost = {}
    /\ main \in {"stop", "join down", "join up", "finish", "done"}
         => downloadQueue = <<>> /\ active = <<>> /\ uploadQueue = <<>>

IInv == /\ TypeOK /\ Distinct /\ PlacesApart /\ Accounted /\ Counted
        /\ DownPlaces /\ UpPlaces /\ Closing /\ UploadsFirst

(* What the types say of the lists. *)
LEMMA Lists ==
  ASSUME TypeOK
  PROVE  /\ FileList \in Seq(Files) /\ Len(FileList) \in Nat
         /\ Unlisted \in Seq(Files) /\ Fetched \in Seq(Files)
         /\ down.batch \in Seq(Files) /\ up.batch \in Seq(Files)
         /\ downloadQueue \in Seq(Files) /\ active \in Seq(Files)
         /\ uploadQueue \in Seq(Files) /\ finished \in Seq(Files)
         /\ Len(Unlisted) = Len(FileList) - index
  <1>1. down.batch \in Seq(Files) /\ up.batch \in Seq(Files)
    BY DEF TypeOK, DownType, UpType
  <1>2. /\ finished \in Seq(Files) /\ active \in Seq(Files)
        /\ downloadQueue \in Seq(Files) /\ uploadQueue \in Seq(Files)
    BY DEF TypeOK
  <1>3. Unlisted \in Seq(Files) /\ Len(Unlisted) = Len(FileList) - index
    <2>1. index \in 0 .. Len(FileList)
      BY DEF TypeOK
    <2> QED  BY <2>1, CutFacts DEF Unlisted
  <1>4. Fetched \in Seq(Files)
    <2>1. down.batch # <<>> => Tail(down.batch) \in Seq(Files)
      BY <1>1, GetFirst
    <2>2. down.batch = <<>> => Tail(down.batch) \in Seq(Files)
      OBVIOUS
    <2> QED  BY <1>1, <2>1, <2>2 DEF Fetched
  <1> QED  BY <1>1, <1>2, <1>3, <1>4

(* The files given up are among the listed ones, and finitely many. *)
LEMMA FilesFinite ==
  /\ IsFiniteSet(Files) /\ Cardinality(Files) = Len(FileList)
  /\ \A S \in SUBSET Files : IsFiniteSet(S) /\ Cardinality(S) \in Nat
  <1>1. IsFiniteSet(Files) /\ Cardinality(Files) = Len(FileList)
    BY LenIsCardinality DEF Files
  <1> QED  BY <1>1, FS_Subset, FS_CardinalityType

(* A suffix of a suffix. *)
LEMMA SuffixOfSuffix ==
  ASSUME NEW T, NEW s \in Seq(T), NEW i \in 0 .. Len(s), NEW n \in 0 .. Len(s) - i
  PROVE  SubSeq(s, i + n + 1, Len(s)) = SubSeq(SubSeq(s, i + 1, Len(s)), n + 1, Len(s) - i)
  <1> DEFINE a == SubSeq(s, i + 1, Len(s))
             b == SubSeq(s, i + n + 1, Len(s))
             c == SubSeq(a, n + 1, Len(s) - i)
  <1>1. /\ a \in Seq(T) /\ Len(a) = Len(s) - i
        /\ \A k \in 1 .. Len(s) - i : a[k] = s[i + k]
    BY SubSeqProperties
  <1>2. /\ b \in Seq(T) /\ Len(b) = Len(s) - i - n
        /\ \A k \in 1 .. Len(s) - i - n : b[k] = s[i + n + k]
    BY SubSeqProperties
  <1> HIDE DEF a
  <1>3. /\ c \in Seq(T) /\ Len(c) = Len(s) - i - n
        /\ \A k \in 1 .. Len(s) - i - n : c[k] = a[n + k]
    BY <1>1, SubSeqProperties
  <1> HIDE DEF b, c
  <1>4. ASSUME NEW k \in 1 .. Len(s) - i - n PROVE b[k] = c[k]
    <2>1. n + k \in 1 .. Len(s) - i /\ i + (n + k) = i + n + k
      OBVIOUS
    <2> QED  BY <1>1, <1>2, <1>3, <2>1
  <1>5. b = c
    BY <1>2, <1>3, <1>4, SeqEqual
  <1> QED  BY <1>5 DEF a, b, c

(* What holds of one thread's places stays while it does not move. *)
LEMMA UpFrame ==
  ASSUME IInv, UNCHANGED <<upVars, markers>>, \A f \in completed : status'[f] = status[f]
  PROVE  UpPlaces' /\ UploadsFirst' /\ Batch' = Batch
  <1>1. up' = up /\ Batch' = Batch /\ completed' = completed /\ remote' = remote
        /\ markers' = markers /\ cleaned' = cleaned /\ missing' = missing
    BY DEF upVars, Batch
  <1>2. ASSUME NEW S, S \subseteq completed PROVE Uploads(S, missing)' = Uploads(S, missing)
    BY <1>1, <1>2 DEF Uploads, Named
  <1>3. /\ markers \subseteq completed /\ cleaned \subseteq completed
        /\ up.pc \in {"mark", "clean"} => Batch \subseteq completed
    BY DEF IInv, UpPlaces
  <1>4. UpPlaces'
    <2>1. up.pc \in {"mark", "clean"} => Uploads(Batch, missing)' \subseteq remote
      <3>1. CASE up.pc \in {"mark", "clean"}
        <4>1. Uploads(Batch, missing)' = Uploads(Batch, missing)
          BY <1>1, <1>3, <3>1 DEF Uploads, Named
        <4> QED  BY <3>1, <4>1 DEF IInv, UpPlaces
      <3> QED  BY <3>1
    <2> QED  BY <1>1, <2>1 DEF IInv, UpPlaces
  <1>5. CleanedUploaded'
    BY <1>1, <1>3 DEF IInv, UploadsFirst, CleanedUploaded, Uploads, Named
  <1>6. MarkersClean'
    <2> SUFFICES ASSUME NEW f \in markers
                 PROVE  /\ \/ status'[f] = "clean"
                           \/ status'[f] = "dirty" /\ <<f, "report">> \in missing
                        /\ Uploads({f}, missing)' \subseteq remote
      BY <1>1 DEF MarkersClean
    <2>1. f \in completed /\ status'[f] = status[f]
      BY <1>3
    <2>2. Uploads({f}, missing)' = Uploads({f}, missing)
      BY <1>1, <2>1 DEF Uploads, Named
    <2> QED  BY <2>1, <2>2 DEF IInv, UploadsFirst, MarkersClean
  <1> QED  BY <1>1, <1>4, <1>5, <1>6 DEF UploadsFirst

(* More uploads and more outputs not found leave the markers as good.      *)
LEMMA MarkersStay ==
  ASSUME MarkersClean, markers' = markers, status' = status,
         missing \subseteq missing', remote \subseteq remote'
  PROVE  MarkersClean'
  <1> SUFFICES ASSUME NEW f \in markers
               PROVE  /\ \/ status'[f] = "clean"
                         \/ status'[f] = "dirty" /\ <<f, "report">> \in missing'
                      /\ Uploads({f}, missing)' \subseteq remote'
    BY DEF MarkersClean
  <1>1. /\ status[f] = "clean" \/ (status[f] = "dirty" /\ <<f, "report">> \in missing)
        /\ Uploads({f}, missing) \subseteq remote
    BY DEF MarkersClean
  <1>2. Uploads({f}, missing)' \subseteq Uploads({f}, missing)
    BY DEF Uploads, Named
  <1> QED  BY <1>1, <1>2

LEMMA DownFrame ==
  ASSUME IInv, UNCHANGED downVars
  PROVE  /\ Unlisted' = Unlisted /\ Fetched' = Fetched
         /\ Counted' /\ DownPlaces'
  BY DEF IInv, Counted, DownPlaces, Unlisted, Fetched, Uncounted, downVars

-----------------------------------------------------------------------------
(* The download thread. *)

LEMMA DownloadPickKeeps ==
  ASSUME IInv, DownloadPick PROVE IInv'
  <1>1. /\ TypeOK /\ down.pc = "pick" /\ down.batch = <<>> /\ down \in DownType
        /\ Fetched = <<>> /\ ToSet(Fetched) = {}
    BY EmptyList DEF IInv, TypeOK, DownPlaces, DownloadPick, Fetched, DownType
  <1>2. UNCHANGED <<remaining, lost, upVars, mainVars, envVars, downloadQueue, uploadQueue,
                    markers, failed>>
    BY DEF DownloadPick
  <1>3. UpPlaces' /\ UploadsFirst' /\ Batch' = Batch
    BY <1>2, UpFrame DEF mainVars
  <1>4. CASE down' = [down EXCEPT !.pc = "ended"] /\ UNCHANGED index
    <2>1. down'.pc = "ended" /\ down'.batch = <<>> /\ down' \in DownType
      BY <1>1, <1>4 DEF DownType
    <2>2. Unlisted' = Unlisted /\ Fetched' = Fetched
      BY <1>1, <1>4, <2>1 DEF Unlisted, Fetched
    <2>3. TypeOK'
      BY <1>1, <1>2, <1>4, <2>1 DEF TypeOK, upVars, mainVars, envVars
    <2>4. Distinct' /\ PlacesApart' /\ Accounted'
      BY <1>2, <1>3, <2>2 DEF IInv, Distinct, PlacesApart, Accounted, upVars, mainVars
    <2>5. Counted' /\ DownPlaces' /\ Closing'
      BY <1>1, <1>2, <2>1, <2>2 DEF IInv, Counted, Uncounted, DownPlaces, Closing, mainVars
    <2> QED  BY <1>3, <2>3, <2>4, <2>5 DEF IInv
  <1>5. CASE /\ Unlisted # <<>>
             /\ \E n \in 1 .. Len(Unlisted) :
                  /\ n <= DownloadBatch
                  /\ down' = [pc |-> "fetch", attempt |-> 1, batch |-> SubSeq(Unlisted, 1, n)]
                  /\ index' = index + n
    <2>1. PICK n \in 1 .. Len(Unlisted) :
            /\ n <= DownloadBatch
            /\ down' = [pc |-> "fetch", attempt |-> 1, batch |-> SubSeq(Unlisted, 1, n)]
            /\ index' = index + n
      BY <1>5
    <2> DEFINE a == SubSeq(Unlisted, 1, n)
               b == SubSeq(Unlisted, n + 1, Len(Unlisted))
    <2>2. /\ FileList \in Seq(Files) /\ Unlisted \in Seq(Files)
          /\ Len(Unlisted) = Len(FileList) - index
          /\ index \in 0 .. Len(FileList)
      BY <1>1, Lists DEF TypeOK
    <2>3. n \in 0 .. Len(Unlisted) /\ n \in Nat
      BY <2>2
    <2>4. /\ a \in Seq(Files) /\ Len(a) = n
          /\ b \in Seq(Files) /\ Len(b) = Len(Unlisted) - n
          /\ ToSet(Unlisted) = ToSet(a) \cup ToSet(b)
          /\ IsInjective(a) /\ IsInjective(b)
          /\ ToSet(a) \cap ToSet(b) = {}
      <3>1. IsInjective(Unlisted)
        BY DEF IInv, Distinct
      <3> DEFINE u == Unlisted
      <3>2. u \in Seq(Files) /\ n \in 0 .. Len(u)
        BY <2>2, <2>3
      <3>3. IsInjective(u)
        BY <3>1
      <3> HIDE DEF u
      <3>4. /\ SubSeq(u, 1, n) \in Seq(Files) /\ Len(SubSeq(u, 1, n)) = n
            /\ SubSeq(u, n + 1, Len(u)) \in Seq(Files)
            /\ Len(SubSeq(u, n + 1, Len(u))) = Len(u) - n
            /\ ToSet(u) = ToSet(SubSeq(u, 1, n)) \cup ToSet(SubSeq(u, n + 1, Len(u)))
            /\ IsInjective(SubSeq(u, 1, n)) /\ IsInjective(SubSeq(u, n + 1, Len(u)))
            /\ ToSet(SubSeq(u, 1, n)) \cap ToSet(SubSeq(u, n + 1, Len(u))) = {}
        BY <3>2, <3>3, CutFacts
      <3> QED  BY <3>4 DEF u
    <2>5. Unlisted' = b
      <3>1. Unlisted' = SubSeq(FileList, index + n + 1, Len(FileList))
        BY <2>1 DEF Unlisted
      <3>2. n \in 0 .. Len(FileList) - index
        BY <2>2, <2>3
      <3>3. Unlisted' = SubSeq(Unlisted, n + 1, Len(FileList) - index)
        BY <2>2, <3>1, <3>2, SuffixOfSuffix DEF Unlisted
      <3> QED  BY <2>2, <3>3
    <2> HIDE DEF a, b
    <2>6. /\ down' = [pc |-> "fetch", attempt |-> 1, batch |-> a]
          /\ down'.pc = "fetch" /\ down'.batch = a /\ Fetched' = a
      BY <2>1 DEF a, Fetched
    <2>7. down' \in DownType
      BY <2>4, <2>6 DEF DownType
    <2>8. index' \in 0 .. Len(FileList)
      BY <2>1, <2>2, <2>3
    <2>9. TypeOK'
      BY <1>1, <1>2, <2>1, <2>4, <2>6, <2>7, <2>8
         DEF TypeOK, upVars, mainVars, envVars
    <2>10. Distinct'
      BY <1>2, <2>4, <2>5, <2>6 DEF IInv, Distinct, upVars, mainVars
    <2>11. PlacesApart'
      BY <1>1, <1>2, <1>3, <2>4, <2>5, <2>6 DEF IInv, PlacesApart, Apart, upVars, mainVars
    <2>12. Accounted'
      BY <1>1, <1>2, <1>3, <2>4, <2>5, <2>6 DEF IInv, Accounted, upVars, mainVars
    <2>13. Counted'
      <3>1. Len(down.batch) = 0
        BY <1>1, EmptyList
      <3>2. Cardinality(lost) \in Nat
        BY <1>1, FilesFinite DEF TypeOK
      <3>3. remaining = Len(Unlisted) + Cardinality(lost)
        BY <1>1, <2>2, <3>1, <3>2 DEF IInv, Counted, Uncounted
      <3>4. /\ remaining' = remaining /\ lost' = lost
            /\ Len(Unlisted') = Len(Unlisted) - n /\ Len(down'.batch) = n
        BY <1>2, <2>4, <2>5, <2>6
      <3>5. Len(Unlisted) \in Nat
        BY <2>2
      <3> QED  BY <2>3, <3>2, <3>3, <3>4, <3>5 DEF Counted, Uncounted
    <2>14. DownPlaces' /\ Closing'
      BY <1>2, <1>5, <2>6 DEF IInv, DownPlaces, Closing, mainVars
    <2> QED  BY <1>3, <2>9, <2>10, <2>11, <2>12, <2>13, <2>14 DEF IInv
  <1>6. ASSUME Unlisted # <<>>
        PROVE  (IF Len(Unlisted) < DownloadBatch THEN Len(Unlisted) ELSE DownloadBatch)
                 \in {n \in 1 .. Len(Unlisted) : n <= DownloadBatch}
    <2>1. Len(Unlisted) \in Nat /\ Len(Unlisted) # 0
      BY <1>1, <1>6, Lists, EmptySeq
    <2> QED  BY <2>1
  <1> QED  BY <1>4, <1>5, <1>6 DEF DownloadPick

LEMMA DownloadFetchedKeeps ==
  ASSUME IInv, DownloadFetched PROVE IInv'
  <1>1. PICK present \in SUBSET ToSet(down.batch) :
          /\ down' = [down EXCEPT !.batch = Picked(down.batch, present),
                        !.pc = IF Picked(down.batch, present) = <<>> THEN "pick" ELSE "put"]
          /\ lost' = lost \cup (ToSet(down.batch) \ present)
    BY DEF DownloadFetched
  <1> DEFINE got == Picked(down.batch, present)
  <1>2. /\ TypeOK /\ down \in DownType /\ down.pc = "fetch" /\ Fetched = down.batch
        /\ down.batch \in Seq(Files) /\ IsInjective(down.batch) /\ lost \subseteq Files
    BY DEF IInv, TypeOK, DownType, Distinct, DownloadFetched, Fetched
  <1>3. UNCHANGED <<index, remaining, upVars, mainVars, envVars, downloadQueue,
                    uploadQueue, markers, failed>>
    BY DEF DownloadFetched
  <1>4. UpPlaces' /\ UploadsFirst' /\ Batch' = Batch
    BY <1>3, UpFrame DEF mainVars
  <1>5. ToSet(got) = ToSet(down.batch) \cap present
    BY <1>2, PickedFacts
  <1>6. /\ got \in Seq(Files) /\ IsInjective(got) /\ Len(got) <= Len(down.batch)
        /\ ToSet(got) = present
    <2>1. ToSet(got) = present
      BY <1>5
    <2> QED  BY <1>2, <2>1, PickedFacts
  <1> HIDE DEF got
  <1>7. /\ down'.batch = got /\ down'.pc = (IF got = <<>> THEN "pick" ELSE "put")
        /\ down' \in DownType
    BY <1>1, <1>2, <1>6 DEF DownType, got
  <1>8. Fetched' = got /\ Unlisted' = Unlisted
    BY <1>3, <1>7 DEF Fetched, Unlisted
  <1>9. ToSet(down.batch) \subseteq Files
    BY <1>2, ToSetType
  <1>10. TypeOK'
    <2>1. lost' \subseteq Files
      BY <1>1, <1>2, <1>9
    <2>2. Len(got) <= DownloadBatch
      <3>1. Len(down.batch) <= DownloadBatch
        BY <1>2 DEF TypeOK
      <3> QED  BY <1>2, <1>6, <3>1, LenProperties
    <2> QED  BY <1>2, <1>3, <1>7, <2>1, <2>2 DEF TypeOK, upVars, mainVars, envVars
  <1>11. Distinct'
    BY <1>3, <1>6, <1>8 DEF IInv, Distinct, upVars, mainVars
  <1>12. PlacesApart'
    BY <1>1, <1>2, <1>3, <1>4, <1>6, <1>8 DEF IInv, PlacesApart, Apart, upVars, mainVars
  <1>13. Accounted'
    BY <1>1, <1>2, <1>3, <1>4, <1>6, <1>8 DEF IInv, Accounted, upVars, mainVars
  <1>14. Counted'
    <2>1. /\ IsFiniteSet(ToSet(down.batch)) /\ Len(down.batch) = Cardinality(ToSet(down.batch))
          /\ Len(got) = Cardinality(present)
      BY <1>2, <1>6, LenIsCardinality
    <2> DEFINE gone == ToSet(down.batch) \ present
    <2>2. IsFiniteSet(gone) /\ Cardinality(gone) = Len(down.batch) - Len(got)
      <3>1. ToSet(down.batch) \cap present = present
        OBVIOUS
      <3> QED  BY <2>1, <3>1, FS_Difference
    <2>3. lost \cap gone = {}
      BY <1>2 DEF IInv, PlacesApart, Apart
    <2>4. IsFiniteSet(lost) /\ Cardinality(lost) \in Nat
      BY <1>2, FilesFinite
    <2> HIDE DEF gone
    <2>5. Cardinality(lost \cup gone) = Cardinality(lost) + Cardinality(gone) - Cardinality({})
      BY <2>2, <2>3, <2>4, FS_Union
    <2>6. Cardinality(lost \cup gone) = Cardinality(lost) + (Len(down.batch) - Len(got))
      BY <2>2, <2>4, <2>5, FS_EmptySet, FS_CardinalityType
    <2>7. Cardinality(lost') = Cardinality(lost) + (Len(down.batch) - Len(got))
      BY <1>1, <2>6 DEF gone
    <2>8. Len(Unlisted) \in Nat /\ Len(down.batch) \in Nat /\ Len(got) \in Nat
      BY <1>2, <1>6, Lists
    <2> QED  BY <1>3, <1>7, <1>8, <2>4, <2>7, <2>8 DEF IInv, Counted, Uncounted
  <1>15. DownPlaces'
    BY <1>7 DEF DownPlaces
  <1>16. Closing'
    <2>1. down.batch = <<>> => present = {} /\ got = <<>>
      BY <1>6, ToSetType, EmptyList
    <2> QED  BY <1>1, <1>3, <1>7, <1>8, <2>1, EmptyList DEF IInv, Closing, mainVars
  <1> QED  BY <1>4, <1>10, <1>11, <1>12, <1>13, <1>14, <1>15, <1>16 DEF IInv

LEMMA DownloadFailedKeeps ==
  ASSUME IInv, DownloadFailed PROVE IInv'
  <1>1. /\ TypeOK /\ down \in DownType /\ down.pc = "fetch" /\ Fetched = down.batch
        /\ down.batch \in Seq(Files) /\ IsInjective(down.batch) /\ lost \subseteq Files
        /\ ToSet(down.batch) \subseteq Files
    BY Lists, ToSetType DEF IInv, TypeOK, DownType, Distinct, DownloadFailed, Fetched
  <1>2. UNCHANGED <<index, remaining, upVars, mainVars, envVars, downloadQueue,
                    uploadQueue, markers>>
    BY DEF DownloadFailed
  <1>3. UpPlaces' /\ UploadsFirst' /\ Batch' = Batch /\ Unlisted' = Unlisted
    BY <1>2, UpFrame DEF mainVars, Unlisted
  <1>4. CASE /\ down.attempt < Attempts
             /\ down' = [down EXCEPT !.attempt = @ + 1]
             /\ UNCHANGED <<lost, failed>>
    <2>1. /\ down'.pc = "fetch" /\ down'.batch = down.batch /\ down' \in DownType
          /\ Fetched' = Fetched
      BY <1>1, <1>4 DEF DownType, Fetched
    <2>2. TypeOK'
      BY <1>1, <1>2, <1>4, <2>1 DEF TypeOK, upVars, mainVars, envVars
    <2>3. Distinct' /\ PlacesApart' /\ Accounted'
      BY <1>2, <1>3, <1>4, <2>1 DEF IInv, Distinct, PlacesApart, Accounted, upVars, mainVars
    <2>4. Counted' /\ DownPlaces' /\ Closing'
      BY <1>2, <1>3, <1>4, <2>1 DEF IInv, Counted, Uncounted, DownPlaces, Closing, mainVars
    <2> QED  BY <1>3, <2>2, <2>3, <2>4 DEF IInv
  <1>5. CASE /\ down' = [pc |-> "pick", batch |-> <<>>, attempt |-> 0]
             /\ lost' = lost \cup ToSet(down.batch)
             /\ failed' = failed \cup ToSet(down.batch)
    <2>1. down'.pc = "pick" /\ down'.batch = <<>> /\ Fetched' = <<>> /\ down' \in DownType
      BY <1>5 DEF Fetched, DownType
    <2>2. ToSet(Fetched') = {} /\ IsInjective(Fetched') /\ Len(down'.batch) = 0
      BY <2>1, EmptyList
    <2>3. TypeOK'
      <3>1. lost' \subseteq Files /\ failed' \subseteq Files
        BY <1>1, <1>5 DEF TypeOK
      <3>2. Len(down'.batch) <= DownloadBatch
        BY <2>2
      <3> QED  BY <1>1, <1>2, <2>1, <3>1, <3>2 DEF TypeOK, upVars, mainVars, envVars
    <2>4. Distinct'
      BY <1>2, <1>3, <2>2 DEF IInv, Distinct, upVars, mainVars
    <2>5. PlacesApart'
      BY <1>1, <1>2, <1>3, <1>5, <2>2 DEF IInv, PlacesApart, Apart, upVars, mainVars
    <2>6. Accounted'
      BY <1>1, <1>2, <1>3, <1>5, <2>2 DEF IInv, Accounted, upVars, mainVars
    <2>7. Counted'
      <3>1. /\ IsFiniteSet(ToSet(down.batch))
            /\ Len(down.batch) = Cardinality(ToSet(down.batch)) /\ Len(down.batch) \in Nat
        BY <1>1, LenIsCardinality
      <3>2. lost \cap ToSet(down.batch) = {}
        BY <1>1 DEF IInv, PlacesApart, Apart
      <3>3. IsFiniteSet(lost) /\ Cardinality(lost) \in Nat
        BY <1>1, FilesFinite
      <3>4. Cardinality(lost') = Cardinality(lost) + Len(down.batch)
        <4>1. Cardinality(lost \cup ToSet(down.batch))
                = Cardinality(lost) + Cardinality(ToSet(down.batch)) - Cardinality({})
          BY <3>1, <3>2, <3>3, FS_Union
        <4>2. lost' = lost \cup ToSet(down.batch) /\ Cardinality({}) = 0
          BY <1>5, FS_EmptySet
        <4> QED  BY <3>1, <3>3, <4>1, <4>2
      <3>5. Len(Unlisted) \in Nat
        BY <1>1, Lists
      <3> QED  BY <1>2, <1>3, <2>2, <3>1, <3>3, <3>4, <3>5 DEF IInv, Counted, Uncounted
    <2>8. DownPlaces'
      BY <2>1 DEF DownPlaces
    <2>9. Closing'
      BY <1>2, <1>3, <1>5, <2>1, EmptyList DEF IInv, Closing, mainVars
    <2> QED  BY <1>3, <2>3, <2>4, <2>5, <2>6, <2>7, <2>8, <2>9 DEF IInv
  <1> QED  BY <1>4, <1>5 DEF DownloadFailed

LEMMA DownloadPutKeeps ==
  ASSUME IInv, DownloadPut PROVE IInv'
  <1> DEFINE h == Head(down.batch)
  <1>1. TypeOK /\ down.batch # <<>> /\ Fetched = down.batch /\ down.pc = "put"
    BY DEF IInv, DownPlaces, DownloadPut, Fetched
  <1>2. /\ h \in Files /\ Tail(down.batch) \in Seq(Files)
        /\ h \in ToSet(Fetched) /\ IsInjective(Tail(down.batch))
        /\ ToSet(Tail(down.batch)) = ToSet(Fetched) \ {h}
    BY <1>1, Lists, GetFirst DEF IInv, Distinct
  <1>3. /\ down' = [down EXCEPT !.pc = "count"] /\ down'.pc = "count"
        /\ down'.batch = down.batch /\ down'.attempt = down.attempt
    BY <1>1 DEF DownloadPut, TypeOK
  <1>4. Fetched' = Tail(down.batch)
    BY <1>3 DEF Fetched
  <1>5. h \notin ToSet(downloadQueue)
    BY <1>2 DEF IInv, PlacesApart, Apart
  <1>6. /\ downloadQueue' \in Seq(Files)
        /\ Len(downloadQueue') = Len(downloadQueue) + 1
        /\ ToSet(downloadQueue') = ToSet(downloadQueue) \cup {h}
        /\ IsInjective(downloadQueue')
    <2>1. downloadQueue \in Seq(Files) /\ IsInjective(downloadQueue)
      BY <1>1, Lists DEF IInv, Distinct
    <2>2. downloadQueue' = Append(downloadQueue, h)
      BY DEF DownloadPut
    <2> QED  BY <1>2, <1>5, <2>1, <2>2, PutAtEnd
  <1>7. UNCHANGED <<index, remaining, lost, upVars, mainVars, envVars, uploadQueue, markers, failed>>
    BY DEF DownloadPut
  <1>8. Unlisted' = Unlisted /\ Batch' = Batch
    BY <1>7 DEF Unlisted, Batch, upVars
  <1>9. TypeOK'
    <2>1. Len(downloadQueue') <= DownloadMax
      BY <1>1, <1>6, Lists DEF DownloadPut
    <2>2. down' \in DownType
      BY <1>1, <1>3 DEF TypeOK, DownType
    <2> QED  BY <1>1, <1>3, <1>6, <1>7, <2>1, <2>2 DEF TypeOK, upVars, mainVars, envVars
  <1>10. Distinct'
    BY <1>2, <1>4, <1>6, <1>7, <1>8 DEF IInv, Distinct, upVars, mainVars
  <1>11. PlacesApart'
    BY <1>2, <1>4, <1>6, <1>7, <1>8 DEF IInv, PlacesApart, Apart, upVars, mainVars
  <1>12. Accounted'
    BY <1>2, <1>4, <1>6, <1>7, <1>8 DEF IInv, Accounted, upVars, mainVars
  <1>13. Counted'
    BY <1>3, <1>7, <1>8 DEF IInv, Counted, Uncounted
  <1>14. DownPlaces'
    BY <1>1, <1>3 DEF DownPlaces
  <1>15. Closing'
    BY <1>1, <1>7 DEF IInv, Closing, mainVars
  <1>16. UpPlaces' /\ UploadsFirst'
    BY <1>7, UpFrame DEF mainVars
  <1> QED  BY <1>9, <1>10, <1>11, <1>12, <1>13, <1>14, <1>15, <1>16 DEF IInv

LEMMA DownloadCountKeeps ==
  ASSUME IInv, DownloadCount PROVE IInv'
  <1> DEFINE rest == Tail(down.batch)
  <1>1. /\ TypeOK /\ down \in DownType /\ down.pc = "count" /\ Fetched = rest
        /\ down.batch \in Seq(Files) /\ down.batch # <<>>
    BY DEF IInv, TypeOK, DownType, DownPlaces, DownloadCount, Fetched
  <1>2. rest \in Seq(Files) /\ Len(rest) = Len(down.batch) - 1 /\ Len(down.batch) >= 1
    BY <1>1, GetFirst
  <1>3. UNCHANGED <<index, lost, upVars, mainVars, envVars, downloadQueue, uploadQueue,
                    markers, failed>>
    BY DEF DownloadCount
  <1>4. UpPlaces' /\ UploadsFirst' /\ Batch' = Batch /\ Unlisted' = Unlisted
    BY <1>3, UpFrame DEF mainVars, Unlisted
  <1>5. /\ down'.batch = rest /\ down'.pc = (IF rest = <<>> THEN "pick" ELSE "put")
        /\ down'.attempt = down.attempt
        /\ down' = [pc |-> down'.pc, batch |-> rest, attempt |-> down.attempt]
    BY <1>1 DEF DownloadCount, DownType
  <1> HIDE DEF rest
  <1>6. down' \in DownType /\ Fetched' = Fetched
    BY <1>1, <1>2, <1>5 DEF DownType, Fetched
  <1>7. /\ Len(Unlisted) \in Nat /\ Cardinality(lost) \in Nat /\ Len(down.batch) \in Nat
        /\ remaining = Len(Unlisted) + Len(down.batch) + Cardinality(lost)
    <2>1. lost \subseteq Files
      BY <1>1 DEF TypeOK
    <2>2. Cardinality(lost) \in Nat
      BY <2>1, FilesFinite
    <2>3. Len(Unlisted) \in Nat /\ Len(down.batch) \in Nat
      BY <1>1, Lists, LenProperties
    <2> QED  BY <2>2, <2>3 DEF IInv, Counted, Uncounted
  <1>8. remaining' = remaining - 1 /\ remaining' \in 0 .. Len(FileList)
    <2>1. remaining' = remaining - 1
      BY DEF DownloadCount
    <2>2. remaining \in 0 .. Len(FileList) /\ Len(FileList) \in Nat
      BY <1>1, Lists DEF TypeOK
    <2>3. remaining >= 1
      BY <1>2, <1>7
    <2> QED  BY <2>1, <2>2, <2>3
  <1>9. TypeOK'
    <2>1. Len(rest) <= DownloadBatch
      <3>1. Len(down.batch) <= DownloadBatch
        BY <1>1 DEF TypeOK
      <3> QED  BY <1>2, <1>7, <3>1
    <2> QED  BY <1>1, <1>3, <1>5, <1>6, <1>8, <2>1 DEF TypeOK, upVars, mainVars, envVars
  <1>10. Distinct' /\ PlacesApart' /\ Accounted'
    BY <1>3, <1>4, <1>6 DEF IInv, Distinct, PlacesApart, Accounted, upVars, mainVars
  <1>11. Counted'
    <2>1. /\ Len(Unlisted') = Len(Unlisted) /\ Len(down'.batch) = Len(down.batch) - 1
          /\ Cardinality(lost') = Cardinality(lost)
      BY <1>2, <1>3, <1>4, <1>5
    <2>2. remaining' = Len(Unlisted') + Len(down'.batch) + Cardinality(lost')
      <3> DEFINE l == Len(Unlisted)
                 b == Len(down.batch)
                 c == Cardinality(lost)
      <3>1. l \in Nat /\ b \in Nat /\ c \in Nat /\ remaining' = (l + b + c) - 1
        BY <1>7, <1>8
      <3> HIDE DEF l, b, c
      <3>2. remaining' = l + (b - 1) + c
        BY <3>1
      <3> QED  BY <2>1, <3>2 DEF l, b, c
    <2> QED  BY <2>2 DEF Counted, Uncounted
  <1>12. DownPlaces' /\ Closing'
    BY <1>1, <1>3, <1>5 DEF IInv, DownPlaces, Closing, mainVars
  <1> QED  BY <1>4, <1>9, <1>10, <1>11, <1>12 DEF IInv

(* Whatever the download thread does keeps the invariant. *)
LEMMA DownloadKeeps == ASSUME IInv, Download PROVE IInv'
  BY DownloadPickKeeps, DownloadFetchedKeeps, DownloadFailedKeeps, DownloadPutKeeps,
     DownloadCountKeeps DEF Download

-----------------------------------------------------------------------------
(* The main thread. *)

(* Steps that move the main thread only. *)
LEMMA MainMoves ==
  ASSUME IInv, Closing', main \notin {"done", "killed"},
         main' \in MainPlaces, running' \in BOOLEAN,
         UNCHANGED <<finished, active, status, downVars, upVars, envVars,
                     downloadQueue, uploadQueue, markers, failed>>
  PROVE  IInv'
  <1>1. UpPlaces' /\ UploadsFirst' /\ Batch' = Batch
    BY UpFrame
  <1>2. Unlisted' = Unlisted /\ Fetched' = Fetched /\ Counted' /\ DownPlaces'
    BY DownFrame
  <1>3. TypeOK'
    BY DEF IInv, TypeOK, MainPlaces, downVars, upVars, envVars
  <1>4. Distinct' /\ PlacesApart' /\ Accounted'
    BY <1>1, <1>2 DEF IInv, Distinct, PlacesApart, Accounted, downVars, upVars
  <1> QED  BY <1>1, <1>2, <1>3, <1>4 DEF IInv

(* The counter at zero: nothing left to list, to put or to mourn. *)
LEMMA TestRemainingKeeps ==
  ASSUME IInv, TestRemaining PROVE IInv'
  <1>1. UNCHANGED <<finished, active, running, status, downVars, upVars, envVars,
                    downloadQueue, uploadQueue, markers, failed>>
        /\ main = "test" /\ main' = (IF remaining > 0 THEN "submit" ELSE "test queues")
    BY DEF TestRemaining
  <1>2. ASSUME ~(remaining > 0)
        PROVE  Unlisted = <<>> /\ down.batch = <<>> /\ lost = {}
    <2>1. lost \subseteq Files /\ remaining \in Nat
      <3>1. lost \subseteq Files /\ remaining \in 0 .. Len(FileList)
        BY DEF IInv, TypeOK
      <3> QED  BY <3>1
    <2>2. IsFiniteSet(lost) /\ Cardinality(lost) \in Nat
      BY <2>1, FilesFinite
    <2>3. /\ Unlisted \in Seq(Files) /\ down.batch \in Seq(Files)
          /\ Len(Unlisted) \in Nat /\ Len(down.batch) \in Nat
      BY Lists, LenProperties DEF IInv
    <2>4. remaining = Len(Unlisted) + Len(down.batch) + Cardinality(lost)
      BY DEF IInv, Counted, Uncounted
    <2>5. Len(Unlisted) = 0 /\ Len(down.batch) = 0 /\ Cardinality(lost) = 0
      BY <1>2, <2>1, <2>2, <2>3, <2>4
    <2> QED  BY <2>2, <2>3, <2>5, EmptySeq, FS_EmptySet
  <1>3. Closing'
    BY <1>1, <1>2, DownFrame DEF Closing, downVars
  <1> QED  BY <1>1, <1>3, MainMoves DEF MainPlaces, IInv, TypeOK

LEMMA TestQueuesKeeps ==
  ASSUME IInv, TestQueues PROVE IInv'
  <1>1. Closing'
    BY DownFrame DEF IInv, Closing, TestQueues, downVars
  <1> QED  BY <1>1, MainMoves DEF TestQueues, MainPlaces, IInv, TypeOK

LEMMA SubmitDoneKeeps ==
  ASSUME IInv, SubmitDone PROVE IInv'
  <1>1. Closing'
    BY DEF Closing, SubmitDone
  <1> QED  BY <1>1, MainMoves DEF SubmitDone, MainPlaces, IInv, TypeOK

LEMMA PutDoneKeeps ==
  ASSUME IInv, PutDone PROVE IInv'
  <1>1. Closing'
    BY DEF Closing, PutDone
  <1> QED  BY <1>1, MainMoves DEF PutDone, MainPlaces, IInv, TypeOK

LEMMA LeavingKeeps ==
  ASSUME IInv, Stop \/ JoinDown \/ JoinUp PROVE IInv'
  <1>1. /\ UNCHANGED <<finished, active, status, downVars, upVars, envVars,
                       downloadQueue, uploadQueue, markers, failed>>
        /\ main \in {"stop", "join down", "join up"}
        /\ main' \in {"join down", "join up", "finish"}
        /\ running' \in BOOLEAN
    BY DEF Stop, JoinDown, JoinUp, IInv, TypeOK
  <1>2. Closing'
    BY <1>1, DownFrame DEF IInv, Closing, downVars
  <1> QED  BY <1>1, <1>2, MainMoves DEF MainPlaces

(* clean_markers.txt goes; the files it named have been uploaded anyway. *)
LEMMA FinishKeeps ==
  ASSUME IInv, Finish PROVE IInv'
  <1>1. /\ UNCHANGED <<finished, active, running, status, downVars, upVars, envVars,
                       downloadQueue, uploadQueue, failed>>
        /\ main = "finish" /\ main' = "done" /\ markers' = {}
    BY DEF Finish
  <1>2. Unlisted' = Unlisted /\ Fetched' = Fetched /\ Counted' /\ DownPlaces'
    BY <1>1, DownFrame
  <1>3. up' = up /\ Batch' = Batch /\ completed' = completed /\ cleaned' = cleaned
        /\ remote' = remote /\ missing' = missing
    BY <1>1 DEF upVars, Batch
  <1>4. UpPlaces' /\ UploadsFirst'
    BY <1>1, <1>3 DEF IInv, UpPlaces, UploadsFirst, MarkersClean, CleanedUploaded,
                      Uploads, Named
  <1>5. TypeOK'
    BY <1>1 DEF IInv, TypeOK, MainPlaces, downVars, upVars, envVars
  <1>6. Distinct' /\ PlacesApart' /\ Accounted' /\ Closing'
    BY <1>1, <1>2, <1>3 DEF IInv, Distinct, PlacesApart, Accounted, Closing, downVars
  <1> QED  BY <1>2, <1>4, <1>5, <1>6 DEF IInv

(* A file leaves download_queue for active_jobs, or is marked failed. *)
LEMMA SubmitKeeps ==
  ASSUME IInv, Submit PROVE IInv'
  <1> DEFINE h == Head(downloadQueue)
  <1>1. /\ UNCHANGED <<main, finished, running, restarts, downVars, upVars,
                       uploadQueue, markers>>
        /\ main = "submit" /\ downloadQueue # <<>> /\ Len(active) < MaxJobs
        /\ downloadQueue' = Tail(downloadQueue)
    BY DEF Submit, CanSubmit
  <1>2. /\ TypeOK /\ downloadQueue \in Seq(Files) /\ active \in Seq(Files)
        /\ IsInjective(downloadQueue) /\ IsInjective(active)
    BY Lists DEF IInv, Distinct
  <1>3. /\ h \in Files /\ h \in ToSet(downloadQueue)
        /\ downloadQueue' \in Seq(Files) /\ Len(downloadQueue') = Len(downloadQueue) - 1
        /\ ToSet(downloadQueue') = ToSet(downloadQueue) \ {h}
        /\ IsInjective(downloadQueue')
    BY <1>1, <1>2, GetFirst
  <1>4. h \notin ToSet(active) /\ h \notin completed
    BY <1>3 DEF IInv, PlacesApart, Apart
  <1> HIDE DEF h
  <1>5. \/ /\ active' = Append(active, h)
           /\ status' = [status EXCEPT ![h] = "submitted"]
           /\ UNCHANGED failed
        \/ /\ failed' = failed \cup {h}
           /\ UNCHANGED <<active, status>>
    BY DEF Submit, h
  <1>6. server' \in [Files -> {"none", "working", "unknown"} \cup Final]
    <2>1. server' = [server EXCEPT ![h] = "working"] \/ server' = server
      BY DEF Submit, h
    <2> QED  BY <1>2, <2>1 DEF TypeOK
  <1>7. \A f \in completed : status'[f] = status[f]
    BY <1>2, <1>4, <1>5 DEF TypeOK
  <1>8. UpPlaces' /\ UploadsFirst' /\ Batch' = Batch
    BY <1>1, <1>7, UpFrame
  <1>9. Unlisted' = Unlisted /\ Fetched' = Fetched /\ Counted' /\ DownPlaces'
    BY <1>1, DownFrame
  <1>10. Closing'
    BY <1>1 DEF Closing
  <1>11. Len(downloadQueue') <= DownloadMax
    <2>1. Len(downloadQueue) <= DownloadMax
      BY <1>2 DEF TypeOK
    <2> QED  BY <1>2, <1>3, <2>1, LenProperties
  <1>12. CASE /\ active' = Append(active, h)
              /\ status' = [status EXCEPT ![h] = "submitted"]
              /\ UNCHANGED failed
    <2>1. /\ active' \in Seq(Files) /\ Len(active') = Len(active) + 1
          /\ ToSet(active') = ToSet(active) \cup {h} /\ IsInjective(active')
      BY <1>2, <1>3, <1>4, <1>12, PutAtEnd
    <2>2. Len(active') <= MaxJobs
      BY <1>1, <1>2, <2>1, LenProperties
    <2>3. status' \in [Files -> {"none", "submitted"} \cup Final]
      BY <1>2, <1>12 DEF TypeOK
    <2>4. TypeOK'
      BY <1>1, <1>2, <1>3, <1>6, <1>11, <1>12, <2>1, <2>2, <2>3 DEF TypeOK, downVars, upVars
    <2>5. Distinct'
      BY <1>1, <1>3, <1>9, <2>1 DEF IInv, Distinct, downVars, upVars
    <2>6. PlacesApart'
      BY <1>1, <1>3, <1>8, <1>9, <2>1 DEF IInv, PlacesApart, Apart, downVars, upVars
    <2>7. Accounted'
      BY <1>1, <1>3, <1>8, <1>9, <1>12, <2>1 DEF IInv, Accounted, downVars, upVars
    <2> QED  BY <1>8, <1>9, <1>10, <2>4, <2>5, <2>6, <2>7 DEF IInv
  <1>13. CASE failed' = failed \cup {h} /\ UNCHANGED <<active, status>>
    <2>1. TypeOK'
      BY <1>1, <1>2, <1>3, <1>6, <1>11, <1>13 DEF TypeOK, downVars, upVars
    <2>2. Distinct'
      BY <1>1, <1>3, <1>9, <1>13 DEF IInv, Distinct, downVars, upVars
    <2>3. PlacesApart'
      BY <1>1, <1>3, <1>8, <1>9, <1>13 DEF IInv, PlacesApart, Apart, downVars, upVars
    <2>4. Accounted'
      BY <1>1, <1>3, <1>8, <1>9, <1>13 DEF IInv, Accounted, downVars, upVars
    <2> QED  BY <1>8, <1>9, <1>10, <2>1, <2>2, <2>3, <2>4 DEF IInv
  <1> QED  BY <1>5, <1>12, <1>13

(* The round of polling names active jobs only, each once. *)
LEMMA PollKeeps ==
  ASSUME IInv, Poll PROVE IInv'
  <1>1. PICK seen \in SUBSET {f \in ToSet(active) : server[f] \in Final} :
          /\ status' = [f \in Files |-> IF f \in seen THEN server[f] ELSE status[f]]
          /\ finished' = Picked(active, seen)
    BY DEF Poll
  <1>2. /\ UNCHANGED <<active, running, downVars, upVars, envVars, downloadQueue,
                       uploadQueue, markers, failed>>
        /\ main = "poll" /\ main' = "put"
    BY DEF Poll
  <1>3. TypeOK /\ active \in Seq(Files) /\ IsInjective(active)
    BY Lists DEF IInv, Distinct
  <1>4. /\ finished' \in Seq(Files) /\ IsInjective(finished')
        /\ ToSet(finished') = ToSet(active) \cap seen
    BY <1>1, <1>3, PickedFacts
  <1>5. \A f \in completed : status'[f] = status[f]
    <2>1. completed \subseteq Files /\ completed \cap ToSet(active) = {}
      BY DEF IInv, TypeOK, PlacesApart, Apart
    <2>2. completed \cap seen = {}
      BY <2>1
    <2> QED  BY <1>1, <2>1, <2>2
  <1>6. UpPlaces' /\ UploadsFirst' /\ Batch' = Batch
    BY <1>2, <1>5, UpFrame
  <1>7. Unlisted' = Unlisted /\ Fetched' = Fetched /\ Counted' /\ DownPlaces'
    BY <1>2, DownFrame
  <1>8. status' \in [Files -> {"none", "submitted"} \cup Final]
    <2>1. \A f \in seen : server[f] \in Final
      OBVIOUS
    <2>2. status \in [Files -> {"none", "submitted"} \cup Final]
      BY <1>3 DEF TypeOK
    <2> QED  BY <1>1, <2>1, <2>2
  <1>9. TypeOK'
    BY <1>2, <1>3, <1>4, <1>8 DEF TypeOK, MainPlaces, downVars, upVars, envVars
  <1>10. Distinct'
    BY <1>2, <1>4, <1>7 DEF IInv, Distinct, downVars, upVars
  <1>11. PlacesApart' /\ Accounted'
    BY <1>2, <1>6, <1>7 DEF IInv, PlacesApart, Accounted, downVars, upVars
  <1>12. Closing'
    BY <1>2 DEF Closing
  <1> QED  BY <1>6, <1>7, <1>9, <1>10, <1>11, <1>12 DEF IInv

(* A finished job leaves active_jobs for upload_queue. *)
LEMMA PutUploadKeeps ==
  ASSUME IInv, PutUpload PROVE IInv'
  <1> DEFINE h == Head(finished)
  <1>1. /\ UNCHANGED <<main, running, status, downVars, upVars, envVars, downloadQueue,
                       markers, failed>>
        /\ main = "put" /\ finished # <<>> /\ Len(uploadQueue) < UploadMax
        /\ uploadQueue' = Append(uploadQueue, h)
        /\ active' = Without(active, h)
        /\ finished' = Tail(finished)
    BY DEF PutUpload
  <1>2. /\ TypeOK /\ finished \in Seq(Files) /\ active \in Seq(Files)
        /\ uploadQueue \in Seq(Files)
        /\ IsInjective(finished) /\ IsInjective(active) /\ IsInjective(uploadQueue)
        /\ ToSet(finished) \subseteq ToSet(active)
    BY Lists DEF IInv, Distinct
  <1>3. /\ h \in Files /\ h \in ToSet(finished) /\ finished' \in Seq(Files)
        /\ ToSet(finished') = ToSet(finished) \ {h} /\ IsInjective(finished')
    BY <1>1, <1>2, GetFirst
  <1>4. h \in ToSet(active) /\ h \notin ToSet(uploadQueue)
    BY <1>2, <1>3 DEF IInv, PlacesApart, Apart
  <1> HIDE DEF h
  <1>5. /\ active' \in Seq(Files) /\ Len(active') = Len(active) - 1
        /\ ToSet(active') = ToSet(active) \ {h} /\ IsInjective(active')
    BY <1>1, <1>2, <1>4, WithoutFacts
  <1>6. /\ uploadQueue' \in Seq(Files) /\ Len(uploadQueue') = Len(uploadQueue) + 1
        /\ ToSet(uploadQueue') = ToSet(uploadQueue) \cup {h} /\ IsInjective(uploadQueue')
    BY <1>1, <1>2, <1>3, <1>4, PutAtEnd
  <1>7. UpPlaces' /\ UploadsFirst' /\ Batch' = Batch
    BY <1>1, UpFrame
  <1>8. Unlisted' = Unlisted /\ Fetched' = Fetched /\ Counted' /\ DownPlaces'
    BY <1>1, DownFrame
  <1>9. TypeOK'
    <2>1. Len(active') <= MaxJobs
      <3>1. Len(active) <= MaxJobs
        BY <1>2 DEF TypeOK
      <3> QED  BY <1>2, <1>5, <3>1, LenProperties
    <2>2. Len(uploadQueue') <= UploadMax
      BY <1>1, <1>2, <1>6, LenProperties
    <2> QED  BY <1>1, <1>2, <1>3, <1>5, <1>6, <2>1, <2>2 DEF TypeOK, downVars, upVars, envVars
  <1>10. Distinct'
    BY <1>1, <1>2, <1>3, <1>5, <1>6, <1>8 DEF IInv, Distinct, downVars, upVars
  <1>11. PlacesApart'
    BY <1>1, <1>4, <1>5, <1>6, <1>7, <1>8 DEF IInv, PlacesApart, Apart, downVars, upVars
  <1>12. Accounted'
    BY <1>1, <1>5, <1>6, <1>7, <1>8 DEF IInv, Accounted, downVars, upVars
  <1>13. Closing'
    BY <1>1 DEF Closing
  <1> QED  BY <1>7, <1>8, <1>9, <1>10, <1>11, <1>12, <1>13 DEF IInv

(* SystemExit in the main thread: the file it held is gone with it. *)
LEMMA SignalKeeps ==
  ASSUME IInv, Signal PROVE IInv'
  <1>1. /\ UNCHANGED <<running, status, restarts, downVars, upVars, uploadQueue,
                       markers, failed>>
        /\ main' = "killed" /\ finished' = <<>>
    BY DEF Signal
  <1>2. /\ TypeOK /\ downloadQueue \in Seq(Files) /\ active \in Seq(Files)
        /\ IsInjective(downloadQueue) /\ IsInjective(active)
        /\ finished \in Seq(Files) /\ ToSet(finished) \subseteq ToSet(active)
    BY Lists DEF IInv, Distinct
  <1>3. /\ downloadQueue' \in Seq(Files) /\ Len(downloadQueue') <= DownloadMax
        /\ ToSet(downloadQueue') \subseteq ToSet(downloadQueue) /\ IsInjective(downloadQueue')
    <2>1. downloadQueue' = downloadQueue
            \/ (downloadQueue # <<>> /\ downloadQueue' = Tail(downloadQueue))
      BY DEF Signal, CanSubmit
    <2>2. downloadQueue # <<>>
            => /\ Tail(downloadQueue) \in Seq(Files) /\ IsInjective(Tail(downloadQueue))
               /\ ToSet(Tail(downloadQueue)) \subseteq ToSet(downloadQueue)
               /\ Len(Tail(downloadQueue)) = Len(downloadQueue) - 1
      BY <1>2, GetFirst
    <2>3. Len(downloadQueue) <= DownloadMax /\ Len(downloadQueue) \in Nat
      BY <1>2, LenProperties DEF TypeOK
    <2>4. CASE downloadQueue' = downloadQueue
      BY <1>2, <2>3, <2>4
    <2>5. CASE downloadQueue # <<>> /\ downloadQueue' = Tail(downloadQueue)
      BY <2>2, <2>3, <2>5
    <2> QED  BY <2>1, <2>4, <2>5
  <1>4. /\ active' \in Seq(Files) /\ Len(active') <= MaxJobs
        /\ ToSet(active') \subseteq ToSet(active) /\ IsInjective(active')
    <2>1. active' = active
            \/ (finished # <<>> /\ active' = Without(active, Head(finished)))
      BY DEF Signal
    <2>2. finished # <<>>
            => Head(finished) \in ToSet(active)
      BY <1>2, GetFirst
    <2>3. ASSUME NEW e \in ToSet(active)
          PROVE  /\ Without(active, e) \in Seq(Files) /\ IsInjective(Without(active, e))
                 /\ ToSet(Without(active, e)) \subseteq ToSet(active)
                 /\ Len(Without(active, e)) = Len(active) - 1
      BY <1>2, WithoutFacts
    <2>4. Len(active) <= MaxJobs /\ Len(active) \in Nat
      BY <1>2, LenProperties DEF TypeOK
    <2>5. CASE active' = active
      BY <1>2, <2>4, <2>5
    <2>6. CASE finished # <<>> /\ active' = Without(active, Head(finished))
      <3>1. Head(finished) \in ToSet(active)
        BY <2>2, <2>6
      <3> QED  BY <2>3, <2>4, <2>6, <3>1
    <2> QED  BY <2>1, <2>5, <2>6
  <1>5. server' \in [Files -> {"none", "working", "unknown"} \cup Final]
    <2>1. server' = [server EXCEPT ![Head(downloadQueue)] = "working"] \/ server' = server
      BY DEF Signal
    <2> QED  BY <1>2, <2>1 DEF TypeOK
  <1>6. finished' \in Seq(Files) /\ IsInjective(finished') /\ ToSet(finished') = {}
    BY <1>1, EmptyList
  <1>7. UpPlaces' /\ UploadsFirst' /\ Batch' = Batch
    BY <1>1, UpFrame
  <1>8. Unlisted' = Unlisted /\ Fetched' = Fetched /\ Counted' /\ DownPlaces'
    BY <1>1, DownFrame
  <1>9. TypeOK'
    BY <1>1, <1>2, <1>3, <1>4, <1>5, <1>6 DEF TypeOK, MainPlaces, downVars, upVars
  <1>10. Distinct'
    BY <1>1, <1>3, <1>4, <1>6, <1>8 DEF IInv, Distinct, downVars, upVars
  <1>11. PlacesApart'
    BY <1>1, <1>3, <1>4, <1>7, <1>8 DEF IInv, PlacesApart, Apart, downVars, upVars
  <1>12. Accounted' /\ Closing'
    BY <1>1 DEF Accounted, Closing
  <1> QED  BY <1>7, <1>8, <1>9, <1>10, <1>11, <1>12 DEF IInv

(* Whatever the main thread does, or a signal does to it, keeps the invariant. *)
LEMMA MainKeeps == ASSUME IInv, Loop \/ JoinDown \/ JoinUp \/ Signal PROVE IInv'
  BY TestRemainingKeeps, TestQueuesKeeps, SubmitKeeps, SubmitDoneKeeps, PollKeeps,
     PutUploadKeeps, PutDoneKeeps, LeavingKeeps, FinishKeeps, SignalKeeps DEF Loop

-----------------------------------------------------------------------------
(* The upload thread. *)

(* upload_batch_size is a size. *)
LEMMA UploadBatchPositive == UploadBatch \in Nat /\ UploadBatch > 0
  <1>1. UploadBatch \in Nat \ {0}
    OBVIOUS
  <1> QED  BY <1>1

(* Steps of the upload thread that leave the queues alone: the batch stays *)
(* or is dropped when its files are completed.                             *)
LEMMA UpMoves ==
  ASSUME IInv, UpPlaces', UploadsFirst', up' \in UpType,
         up'.batch = up.batch \/ (up'.batch = <<>> /\ Batch \subseteq completed'),
         completed' = completed \/ completed' = completed \cup Batch,
         failed \subseteq failed', failed' \subseteq Files, markers' \subseteq Files,
         cleaned' \subseteq Files,
         remote' \cup missing' \subseteq Files \X {"report", "purified"},
         UNCHANGED <<downVars, mainVars, envVars, downloadQueue, uploadQueue>>
  PROVE  IInv'
  <1>1. TypeOK /\ up.batch \in Seq(Files) /\ Batch \subseteq Files
    BY Lists, ToSetType DEF IInv, Batch
  <1>2. /\ up'.batch \in Seq(Files) /\ Len(up'.batch) <= UploadBatch
        /\ IsInjective(up'.batch)
        /\ Batch' = Batch \/ (Batch' = {} /\ Batch \subseteq completed')
    <2>1. Len(up.batch) <= UploadBatch /\ IsInjective(up.batch)
      BY DEF IInv, TypeOK, Distinct
    <2>2. CASE up'.batch = up.batch
      BY <1>1, <2>1, <2>2 DEF Batch
    <2>3. CASE up'.batch = <<>> /\ Batch \subseteq completed'
      BY <2>3, EmptyList, UploadBatchPositive DEF Batch
    <2> QED  BY <2>2, <2>3
  <1>3. Unlisted' = Unlisted /\ Fetched' = Fetched /\ Counted' /\ DownPlaces'
    BY DownFrame
  <1>4. TypeOK'
    <2>1. completed' \subseteq Files
      BY <1>1 DEF TypeOK
    <2> QED  BY <1>1, <1>2, <2>1 DEF TypeOK, downVars, mainVars, envVars
  <1>5. Distinct'
    BY <1>2, <1>3 DEF IInv, Distinct, mainVars
  <1>6. PlacesApart'
    BY <1>2, <1>3 DEF IInv, PlacesApart, Apart, downVars, mainVars
  <1>7. Accounted'
    BY <1>2, <1>3 DEF IInv, Accounted, downVars, mainVars
  <1>8. Closing'
    BY <1>3 DEF IInv, Closing, downVars, mainVars
  <1> QED  BY <1>3, <1>4, <1>5, <1>6, <1>7, <1>8 DEF IInv

(* A job from upload_queue joins the batch, which was not yet full. *)
LEMMA UploadGetKeeps ==
  ASSUME IInv, UploadGet PROVE IInv'
  <1>1. /\ UNCHANGED <<remote, completed, cleaned, missing, downVars, mainVars, envVars,
                       downloadQueue, markers, failed>>
        /\ up.pc = "get"
    BY DEF UploadGet
  <1>2. TypeOK /\ up \in UpType /\ up.batch \in Seq(Files) /\ Len(up.batch) < UploadBatch
    BY <1>1 DEF IInv, TypeOK, UpType, UpPlaces
  <1>3. Unlisted' = Unlisted /\ Fetched' = Fetched /\ Counted' /\ DownPlaces'
    BY <1>1, DownFrame
  <1>4. UploadsFirst'
    BY <1>1 DEF IInv, UploadsFirst, MarkersClean, CleanedUploaded, Uploads, Named, mainVars
  <1>5. ASSUME up'.pc = "decide" PROVE UpPlaces'
    BY <1>1, <1>5 DEF IInv, UpPlaces
  <1>6. CASE /\ uploadQueue # <<>>
             /\ up' = [up EXCEPT !.pc = "decide", !.batch = Append(@, Head(uploadQueue))]
             /\ uploadQueue' = Tail(uploadQueue)
    <2> DEFINE h == Head(uploadQueue)
    <2>1. uploadQueue \in Seq(Files) /\ IsInjective(uploadQueue) /\ IsInjective(up.batch)
      BY <1>2 DEF IInv, TypeOK, Distinct
    <2>2. /\ h \in Files /\ h \in ToSet(uploadQueue) /\ uploadQueue' \in Seq(Files)
          /\ Len(uploadQueue') = Len(uploadQueue) - 1
          /\ ToSet(uploadQueue') = ToSet(uploadQueue) \ {h} /\ IsInjective(uploadQueue')
      BY <1>6, <2>1, GetFirst
    <2>3. h \notin Batch
      BY <2>2 DEF IInv, PlacesApart, Apart
    <2>4. /\ up'.pc = "decide" /\ up'.batch = Append(up.batch, h)
          /\ up' = [pc |-> "decide", batch |-> Append(up.batch, h), last |-> up.last,
                    ok |-> up.ok]
      BY <1>2, <1>6 DEF UpType
    <2> HIDE DEF h
    <2>5. /\ up'.batch \in Seq(Files) /\ Len(up'.batch) = Len(up.batch) + 1
          /\ ToSet(up'.batch) = Batch \cup {h} /\ IsInjective(up'.batch)
      BY <1>2, <2>1, <2>2, <2>3, <2>4, PutAtEnd DEF Batch
    <2>6. Batch' = Batch \cup {h}
      BY <2>5 DEF Batch
    <2>7. TypeOK'
      <3>1. up' \in UpType
        <4>1. up.last \in BOOLEAN /\ up.ok \in BOOLEAN
          BY <1>2 DEF UpType
        <4>2. Append(up.batch, h) \in Seq(Files)
          BY <2>4, <2>5
        <4> QED  BY <2>4, <4>1, <4>2 DEF UpType
      <3>2. Len(up'.batch) <= UploadBatch
        BY <1>2, <2>5, LenProperties
      <3>3. Len(uploadQueue') <= UploadMax
        <4>1. Len(uploadQueue) <= UploadMax
          BY <1>2 DEF TypeOK
        <4> QED  BY <2>1, <2>2, <4>1, LenProperties
      <3> QED  BY <1>1, <1>2, <2>2, <3>1, <3>2, <3>3 DEF TypeOK, downVars, mainVars, envVars
    <2>8. Distinct'
      BY <1>1, <1>3, <2>2, <2>5 DEF IInv, Distinct, mainVars
    <2>9. PlacesApart'
      BY <1>1, <1>3, <2>2, <2>6 DEF IInv, PlacesApart, Apart, downVars, mainVars
    <2>10. Accounted'
      BY <1>1, <1>3, <2>2, <2>6 DEF IInv, Accounted, downVars, mainVars
    <2>11. Closing'
      BY <1>1, <1>3, <1>6 DEF IInv, Closing, downVars, mainVars
    <2> QED  BY <1>3, <1>4, <1>5, <2>4, <2>7, <2>8, <2>9, <2>10, <2>11 DEF IInv
  <1>7. CASE up' = [up EXCEPT !.pc = "decide"] /\ UNCHANGED uploadQueue
    <2>1. up' \in UpType /\ up'.pc = "decide" /\ up'.batch = up.batch
      BY <1>2, <1>7 DEF UpType
    <2>2. /\ failed \subseteq failed' /\ failed' \subseteq Files /\ markers' \subseteq Files
          /\ cleaned' \subseteq Files
          /\ remote' \cup missing' \subseteq Files \X {"report", "purified"}
      BY <1>1, <1>2 DEF TypeOK
    <2> QED  BY <1>1, <1>4, <1>5, <1>7, <2>1, <2>2, UpMoves
  <1> QED  BY <1>6, <1>7 DEF UploadGet

(* Between two looks at the queue only the place and the flag change. *)
LEMMA UploadTurnKeeps ==
  ASSUME IInv, UploadWait \/ UploadBegin \/ UploadLeave PROVE IInv'
  <1>1. UNCHANGED <<remote, completed, cleaned, missing, downVars, mainVars, envVars,
                    downloadQueue, uploadQueue, markers, failed>>
    BY DEF UploadWait, UploadBegin, UploadLeave
  <1>2. TypeOK /\ up \in UpType
    BY DEF IInv, TypeOK, UpType
  <1>3. /\ up' \in UpType /\ up'.batch = up.batch
        /\ up'.pc \in {"get", "collect", "ended"}
        /\ up'.pc = "get" => up.batch = <<>> \/ Len(up.batch) < UploadBatch
    BY <1>2 DEF UploadWait, UploadBegin, UploadLeave, UpType
  <1>4. UploadsFirst'
    BY <1>1 DEF IInv, UploadsFirst, MarkersClean, CleanedUploaded, Uploads, Named, mainVars
  <1>5. UpPlaces'
    <2>1. up'.pc = "get" => Len(up'.batch) < UploadBatch
      BY <1>3, EmptyList
    <2> QED  BY <1>1, <1>3, <2>1 DEF IInv, UpPlaces
  <1>6. /\ failed \subseteq failed' /\ failed' \subseteq Files /\ markers' \subseteq Files
        /\ cleaned' \subseteq Files
        /\ remote' \cup missing' \subseteq Files \X {"report", "purified"}
    BY <1>1, <1>2 DEF TypeOK
  <1> QED  BY <1>1, <1>3, <1>4, <1>5, <1>6, UpMoves

(* The ways a batch is left behind. *)
LEMMA BatchDoneFacts ==
  ASSUME up \in UpType, up' = BatchDone
  PROVE  up' \in UpType /\ up'.batch = <<>> /\ up'.pc \in {"get", "ended"} /\ Batch' = {}
  <1>1. <<>> \in Seq(Files)
    OBVIOUS
  <1>2. up' = [pc |-> IF up.last THEN "ended" ELSE "get", batch |-> <<>>,
               last |-> up.last, ok |-> FALSE]
    BY DEF BatchDone, UpType
  <1>3. up'.batch = <<>> /\ up'.pc \in {"get", "ended"}
    BY <1>2
  <1>4. up' \in UpType
    BY <1>1, <1>2 DEF UpType
  <1> QED  BY <1>3, <1>4, EmptyList DEF Batch

LEMMA AtFacts ==
  ASSUME up \in UpType,
         NEW pc \in {"upload", "mark", "clean"}, up' = At(pc)
  PROVE  up' \in UpType /\ up'.batch = up.batch /\ up'.pc = pc /\ Batch' = Batch
  BY DEF At, UpType, Batch

(* Where the uploads to S3 start: every file of the batch has its result. *)
LEMMA UploadCollectKeeps ==
  ASSUME IInv, UploadCollect PROVE IInv'
  <1>1. /\ UNCHANGED <<remote, cleaned, downVars, mainVars, envVars, downloadQueue,
                       uploadQueue, markers, failed>>
        /\ completed' = completed \cup Batch
    BY DEF UploadCollect
  <1> PICK gone \in SUBSET Named(Batch) :
        /\ missing' = missing \cup gone
        /\ \/ up' = At("upload")
           \/ Uploads(Batch, gone) = {} /\ up' = At("mark")
           \/ up' = BatchDone
    BY DEF UploadCollect, Named
  <1>2. TypeOK /\ up \in UpType /\ UploadBatch > 0
    BY UploadBatchPositive DEF IInv, TypeOK, UpType
  <1>3. UploadsFirst'
    <2>1. CleanedUploaded'
      BY <1>1 DEF IInv, UploadsFirst, CleanedUploaded, Uploads, Named, mainVars
    <2>2. MarkersClean'
      BY <1>1, MarkersStay DEF IInv, UploadsFirst, mainVars
    <2> QED  BY <2>1, <2>2 DEF UploadsFirst
  <1>4. markers' \subseteq completed' /\ cleaned' \subseteq completed'
    BY <1>1 DEF IInv, UpPlaces
  <1>5. /\ failed \subseteq failed' /\ failed' \subseteq Files /\ markers' \subseteq Files
        /\ cleaned' \subseteq Files
        /\ remote' \cup missing' \subseteq Files \X {"report", "purified"}
    <2>1. up.batch \in Seq(Files) /\ Batch \subseteq Files
      BY Lists, ToSetType DEF IInv, Batch
    <2>2. gone \subseteq Files \X {"report", "purified"}
      BY <2>1 DEF Named
    <2> QED  BY <1>1, <1>2, <2>2 DEF TypeOK
  <1>6. CASE up' = At("upload")
    <2>1. up' \in UpType /\ up'.batch = up.batch /\ up'.pc = "upload" /\ Batch' = Batch
      BY <1>2, <1>6, AtFacts
    <2>2. UpPlaces'
      BY <1>1, <1>4, <2>1 DEF UpPlaces
    <2> QED  BY <1>1, <1>3, <1>5, <2>1, <2>2, UpMoves
  <1>7. CASE Uploads(Batch, gone) = {} /\ up' = At("mark")
    <2>1. up' \in UpType /\ up'.batch = up.batch /\ up'.pc = "mark" /\ Batch' = Batch
      BY <1>2, <1>7, AtFacts
    <2>2. Uploads(Batch, missing)' = {}
      BY <1>1, <1>7, <2>1 DEF Uploads, Named, mainVars
    <2>3. UpPlaces'
      BY <1>1, <1>4, <1>7, <2>1, <2>2 DEF UpPlaces
    <2> QED  BY <1>1, <1>3, <1>5, <2>1, <2>3, UpMoves
  <1>8. CASE up' = BatchDone
    <2>1. up' \in UpType /\ up'.batch = <<>> /\ up'.pc \in {"get", "ended"}
      BY <1>2, <1>8, BatchDoneFacts
    <2>2. UpPlaces'
      BY <1>2, <1>4, <2>1, EmptyList DEF UpPlaces
    <2> QED  BY <1>1, <1>3, <1>5, <2>1, <2>2, UpMoves
  <1> QED  BY <1>6, <1>7, <1>8

(* The results are in S3, or the batch is given up with part of them there. *)
LEMMA UploadEndsKeeps ==
  ASSUME IInv, UploadSucceeded \/ UploadFailed PROVE IInv'
  <1>1. /\ UNCHANGED <<completed, cleaned, missing, downVars, mainVars, envVars, downloadQueue,
                       uploadQueue, markers>>
        /\ up.pc = "upload" /\ remote \subseteq remote'
        /\ remote' \subseteq remote \cup Uploads(Batch, missing)
        /\ failed' = failed \/ failed' = failed \cup Batch
    BY DEF UploadSucceeded, UploadFailed
  <1>2. /\ TypeOK /\ up \in UpType /\ UploadBatch > 0
        /\ Batch \subseteq Files /\ Batch \subseteq completed
    <2>1. up.batch \in Seq(Files)
      BY Lists DEF IInv
    <2>2. Batch \subseteq Files
      BY <2>1, ToSetType DEF Batch
    <2> QED  BY <1>1, <2>2, UploadBatchPositive DEF IInv, TypeOK, UpType, UpPlaces
  <1>3. UploadsFirst'
    <2>1. MarkersClean'
      BY <1>1, MarkersStay DEF IInv, UploadsFirst, mainVars
    <2>2. CleanedUploaded'
      BY <1>1 DEF IInv, UploadsFirst, CleanedUploaded, Uploads, Named, mainVars
    <2> QED  BY <2>1, <2>2 DEF UploadsFirst
  <1>4. markers' \subseteq completed' /\ cleaned' \subseteq completed'
    BY <1>1 DEF IInv, UpPlaces
  <1>5. /\ failed \subseteq failed' /\ failed' \subseteq Files /\ markers' \subseteq Files
        /\ cleaned' \subseteq Files
        /\ remote' \cup missing' \subseteq Files \X {"report", "purified"}
    <2>1. Uploads(Batch, missing) \subseteq Files \X {"report", "purified"}
      BY <1>2 DEF Uploads, Named
    <2> QED  BY <1>1, <1>2, <2>1 DEF TypeOK
  <1>6. CASE UploadSucceeded
    <2>1. /\ up' = At("mark") \/ (up'.pc = "mark" /\ up' \in UpType /\ up'.batch = up.batch)
          /\ remote' = remote \cup Uploads(Batch, missing)
      BY <1>2, <1>6 DEF UploadSucceeded, UpType
    <2>2. up' \in UpType /\ up'.batch = up.batch /\ up'.pc = "mark" /\ Batch' = Batch
      BY <1>2, <2>1, AtFacts DEF Batch
    <2>3. Uploads(Batch, missing)' = Uploads(Batch, missing)
      BY <1>1, <2>2 DEF Uploads, Named, mainVars
    <2>4. UpPlaces'
      BY <1>1, <1>2, <1>4, <2>1, <2>2, <2>3 DEF UpPlaces
    <2> QED  BY <1>1, <1>3, <1>5, <2>2, <2>4, UpMoves
  <1>7. CASE UploadFailed
    <2>1. up' \in UpType /\ up'.batch = <<>> /\ up'.pc \in {"get", "ended"}
      BY <1>2, <1>7, BatchDoneFacts DEF UploadFailed
    <2>2. UpPlaces'
      BY <1>2, <1>4, <2>1, EmptyList DEF UpPlaces
    <2> QED  BY <1>1, <1>2, <1>3, <1>5, <2>1, <2>2, UpMoves
  <1> QED  BY <1>6, <1>7

(* Markers and unlinks: the uploads they stand for are there. *)
LEMMA UploadMarkKeeps ==
  ASSUME IInv, UploadMark PROVE IInv'
  <1>1. /\ UNCHANGED <<remote, completed, cleaned, missing, downVars, mainVars, envVars,
                       downloadQueue, uploadQueue, failed>>
        /\ up.pc = "mark" /\ markers' = markers \cup CleanJobs(Batch, missing)
        /\ up' = At("clean") \/ up' = BatchDone
    BY DEF UploadMark
  <1>2. /\ TypeOK /\ up \in UpType /\ UploadBatch > 0
        /\ Batch \subseteq completed /\ Uploads(Batch, missing) \subseteq remote
    BY <1>1, UploadBatchPositive DEF IInv, TypeOK, UpType, UpPlaces
  <1>3. CleanJobs(Batch, missing) \subseteq Batch /\ completed \subseteq Files
    BY <1>2 DEF CleanJobs, TypeOK
  <1>4. UploadsFirst'
    <2>1. CleanedUploaded'
      BY <1>1 DEF IInv, UploadsFirst, CleanedUploaded, Uploads, Named, mainVars
    <2>2. MarkersClean'
      <3> SUFFICES ASSUME NEW f \in markers \cup CleanJobs(Batch, missing)
                   PROVE  /\ \/ status[f] = "clean"
                             \/ status[f] = "dirty" /\ <<f, "report">> \in missing
                          /\ Uploads({f}, missing) \subseteq remote
        <4>1. status' = status /\ missing' = missing /\ remote' = remote
          BY <1>1 DEF mainVars
        <4>2. ASSUME NEW f PROVE Uploads({f}, missing)' = Uploads({f}, missing)
          BY <4>1 DEF Uploads, Named
        <4> QED  BY <1>1, <4>1, <4>2 DEF MarkersClean
      <3>1. CASE f \in markers
        BY <3>1 DEF IInv, UploadsFirst, MarkersClean
      <3>2. CASE f \in CleanJobs(Batch, missing)
        <4>1. /\ f \in Batch
              /\ \/ status[f] = "clean"
                 \/ status[f] = "dirty" /\ <<f, "report">> \in missing
          BY <3>2 DEF CleanJobs, Uploads, Named
        <4>2. Uploads({f}, missing) \subseteq Uploads(Batch, missing)
          BY <4>1 DEF Uploads, Named
        <4> QED  BY <1>2, <4>1, <4>2
      <3> QED  BY <3>1, <3>2
    <2> QED  BY <2>1, <2>2 DEF UploadsFirst
  <1>5. markers' \subseteq completed' /\ cleaned' \subseteq completed'
    BY <1>1, <1>2, <1>3 DEF IInv, UpPlaces
  <1>6. /\ failed \subseteq failed' /\ failed' \subseteq Files /\ markers' \subseteq Files
        /\ cleaned' \subseteq Files
        /\ remote' \cup missing' \subseteq Files \X {"report", "purified"}
    BY <1>1, <1>2, <1>3, <1>5 DEF TypeOK
  <1>7. CASE up' = At("clean")
    <2>1. up' \in UpType /\ up'.batch = up.batch /\ up'.pc = "clean" /\ Batch' = Batch
      BY <1>2, <1>7, AtFacts
    <2>2. Uploads(Batch, missing)' = Uploads(Batch, missing)
      BY <1>1, <2>1 DEF Uploads, Named, mainVars
    <2>3. UpPlaces'
      BY <1>1, <1>2, <1>5, <2>1, <2>2 DEF UpPlaces
    <2> QED  BY <1>1, <1>4, <1>6, <2>1, <2>3, UpMoves
  <1>8. CASE up' = BatchDone
    <2>1. up' \in UpType /\ up'.batch = <<>> /\ up'.pc \in {"get", "ended"}
      BY <1>2, <1>8, BatchDoneFacts
    <2>2. UpPlaces'
      BY <1>2, <1>5, <2>1, EmptyList DEF UpPlaces
    <2> QED  BY <1>1, <1>2, <1>4, <1>6, <2>1, <2>2, UpMoves
  <1> QED  BY <1>1, <1>7, <1>8

LEMMA UploadCleanKeeps ==
  ASSUME IInv, UploadClean PROVE IInv'
  <1>1. /\ UNCHANGED <<remote, completed, missing, downVars, mainVars, envVars, downloadQueue,
                       uploadQueue, markers, failed>>
        /\ up.pc = "clean" /\ cleaned' = cleaned \cup Batch /\ up' = BatchDone
    BY DEF UploadClean
  <1>2. /\ TypeOK /\ up \in UpType /\ UploadBatch > 0
        /\ Batch \subseteq completed /\ Uploads(Batch, missing) \subseteq remote
    BY <1>1, UploadBatchPositive DEF IInv, TypeOK, UpType, UpPlaces
  <1>3. UploadsFirst'
    <2>1. MarkersClean'
      BY <1>1, MarkersStay DEF IInv, UploadsFirst, mainVars
    <2>2. Uploads(cleaned \cup Batch, missing)
            \subseteq Uploads(cleaned, missing) \cup Uploads(Batch, missing)
      BY DEF Uploads, Named
    <2>3. Uploads(cleaned, missing)' = Uploads(cleaned \cup Batch, missing)
      BY <1>1 DEF Uploads, Named, mainVars
    <2>4. CleanedUploaded'
      BY <1>1, <1>2, <2>2, <2>3 DEF IInv, UploadsFirst, CleanedUploaded
    <2> QED  BY <2>1, <2>4 DEF UploadsFirst
  <1>4. markers' \subseteq completed' /\ cleaned' \subseteq completed'
    BY <1>1, <1>2 DEF IInv, UpPlaces
  <1>5. /\ failed \subseteq failed' /\ failed' \subseteq Files /\ markers' \subseteq Files
        /\ cleaned' \subseteq Files
        /\ remote' \cup missing' \subseteq Files \X {"report", "purified"}
    <2>1. completed \subseteq Files
      BY <1>2 DEF TypeOK
    <2> QED  BY <1>1, <1>2, <1>4, <2>1 DEF TypeOK
  <1>6. up' \in UpType /\ up'.batch = <<>> /\ up'.pc \in {"get", "ended"}
    BY <1>1, <1>2, BatchDoneFacts
  <1>7. UpPlaces'
    BY <1>2, <1>4, <1>6, EmptyList DEF UpPlaces
  <1> QED  BY <1>1, <1>2, <1>3, <1>5, <1>6, <1>7, UpMoves

(* Whatever the upload thread does keeps the invariant. *)
LEMMA UploadKeeps == ASSUME IInv, Upload PROVE IInv'
  BY UploadGetKeeps, UploadTurnKeeps, UploadCollectKeeps, UploadEndsKeeps, UploadMarkKeeps,
     UploadCleanKeeps DEF Upload

-----------------------------------------------------------------------------
(* The server's steps change only what it will answer. *)
LEMMA ServerKeeps ==
  ASSUME IInv, (\E f \in Files : ServerFinish(f)) \/ ServerRestart PROVE IInv'
  <1>1. UNCHANGED <<downVars, upVars, mainVars, downloadQueue, uploadQueue, markers, failed>>
    BY DEF ServerFinish, ServerRestart
  <1>2. UpPlaces' /\ UploadsFirst' /\ Batch' = Batch
    BY <1>1, UpFrame DEF mainVars
  <1>3. Unlisted' = Unlisted /\ Fetched' = Fetched /\ Counted' /\ DownPlaces'
    BY <1>1, DownFrame
  <1>4. restarts' \in 0 .. MaxRestarts
    <2>1. restarts \in 0 .. MaxRestarts /\ MaxRestarts \in Nat
      BY DEF IInv, TypeOK
    <2>2. restarts' = restarts \/ (restarts < MaxRestarts /\ restarts' = restarts + 1)
      BY DEF ServerFinish, ServerRestart, envVars
    <2> QED  BY <2>1, <2>2
  <1>5. server' \in [Files -> {"none", "working", "unknown"} \cup Final]
    BY DEF IInv, TypeOK, ServerFinish, ServerRestart
  <1>6. TypeOK'
    <2>1. TypeOK
      BY DEF IInv
    <2>2. /\ main' = main /\ finished' = finished /\ active' = active /\ running' = running
          /\ status' = status /\ down' = down /\ index' = index /\ remaining' = remaining
          /\ lost' = lost /\ up' = up /\ remote' = remote /\ completed' = completed
          /\ cleaned' = cleaned /\ missing' = missing /\ downloadQueue' = downloadQueue
          /\ uploadQueue' = uploadQueue /\ markers' = markers /\ failed' = failed
      BY <1>1 DEF downVars, upVars, mainVars
    <2> QED  BY <1>4, <1>5, <2>1, <2>2 DEF TypeOK
  <1>7. Distinct' /\ PlacesApart' /\ Accounted' /\ Closing'
    BY <1>1, <1>2, <1>3 DEF IInv, Distinct, PlacesApart, Accounted, Closing,
                            downVars, upVars, mainVars
  <1> QED  BY <1>2, <1>3, <1>6, <1>7 DEF IInv

LEMMA StutterKeeps == ASSUME IInv, UNCHANGED vars PROVE IInv'
  <1>1. UNCHANGED <<downVars, upVars, mainVars, envVars, downloadQueue, uploadQueue,
                    markers, failed>>
    BY DEF vars
  <1>2. UpPlaces' /\ UploadsFirst' /\ Batch' = Batch
    BY <1>1, UpFrame DEF mainVars
  <1>3. Unlisted' = Unlisted /\ Fetched' = Fetched /\ Counted' /\ DownPlaces'
    BY <1>1, DownFrame
  <1>4. TypeOK'
    <2>1. TypeOK
      BY DEF IInv
    <2>2. /\ main' = main /\ finished' = finished /\ active' = active /\ running' = running
          /\ status' = status /\ down' = down /\ index' = index /\ remaining' = remaining
          /\ lost' = lost /\ up' = up /\ remote' = remote /\ completed' = completed
          /\ cleaned' = cleaned /\ missing' = missing /\ downloadQueue' = downloadQueue
          /\ uploadQueue' = uploadQueue /\ markers' = markers /\ failed' = failed
      BY <1>1 DEF downVars, upVars, mainVars
    <2>3. server' = server /\ restarts' = restarts
      BY <1>1 DEF envVars
    <2> QED  BY <2>1, <2>2, <2>3 DEF TypeOK
  <1>5. Distinct' /\ PlacesApart' /\ Accounted' /\ Closing'
    BY <1>1, <1>2, <1>3 DEF IInv, Distinct, PlacesApart, Accounted, Closing,
                            downVars, upVars, mainVars
  <1> QED  BY <1>2, <1>3, <1>4, <1>5 DEF IInv

(* At the start every file is listed and nothing has happened to it. *)
LEMMA InitKeeps == Init => IInv
  <1> SUFFICES ASSUME Init PROVE IInv
    OBVIOUS
  <1>1. /\ main = "test" /\ finished = <<>> /\ index = 0 /\ remaining = Len(FileList)
        /\ down = [pc |-> "pick", batch |-> <<>>, attempt |-> 0]
        /\ up = [pc |-> "get", batch |-> <<>>, last |-> FALSE, ok |-> FALSE]
        /\ downloadQueue = <<>> /\ uploadQueue = <<>> /\ active = <<>> /\ running = TRUE
        /\ restarts = 0 /\ remote = {} /\ markers = {} /\ failed = {} /\ completed = {}
        /\ cleaned = {} /\ missing = {} /\ lost = {}
    BY DEF Init
  <1>2. down.pc = "pick" /\ down.batch = <<>> /\ up.pc = "get" /\ up.batch = <<>>
    BY <1>1
  <1>3. FileList \in Seq(Files) /\ Len(FileList) \in Nat /\ 0 \in 0 .. Len(FileList)
    BY LenProperties
  <1>4. status \in [Files -> {"none", "submitted"} \cup Final]
        /\ server \in [Files -> {"none", "working", "unknown"} \cup Final]
    BY DEF Init
  <1>5. Len(<<>>) = 0 /\ ToSet(<<>>) = {} /\ IsInjective(<<>>) /\ <<>> \in Seq(Files)
    BY EmptyList
  <1>6. TypeOK
    <2>1. main \in MainPlaces /\ down \in DownType /\ up \in UpType
      BY <1>1, <1>5 DEF MainPlaces, DownType, UpType
    <2> QED  BY <1>1, <1>2, <1>3, <1>4, <1>5, <2>1 DEF TypeOK
  <1>7. /\ Unlisted \in Seq(Files) /\ IsInjective(Unlisted) /\ Len(Unlisted) = Len(FileList)
        /\ ToSet(Unlisted) = Files
    <2>1. /\ IsInjective(Unlisted) /\ Len(Unlisted) = Len(FileList)
          /\ Unlisted \in Seq(Files)
      BY <1>1, <1>3, CutFacts DEF Unlisted
    <2>2. ToSet(SubSeq(FileList, 1, 0)) = {}
      <3>1. SubSeq(FileList, 1, 0) \in Seq(Files) /\ Len(SubSeq(FileList, 1, 0)) = 0
        BY <1>3, CutFacts
      <3> QED  BY <3>1, <1>5, EmptySeq
    <2>3. ToSet(FileList) = ToSet(SubSeq(FileList, 1, 0)) \cup ToSet(Unlisted)
      BY <1>1, <1>3, CutFacts DEF Unlisted
    <2> QED  BY <2>1, <2>2, <2>3 DEF Files
  <1>8. Fetched = <<>> /\ Uncounted = <<>> /\ Batch = {}
    BY <1>2, <1>5 DEF Fetched, Uncounted, Batch
  <1>9. Distinct /\ PlacesApart /\ Accounted
    BY <1>1, <1>2, <1>5, <1>7, <1>8 DEF Distinct, PlacesApart, Apart, Accounted
  <1>10. Counted
    BY <1>1, <1>3, <1>5, <1>7, <1>8, FS_EmptySet DEF Counted
  <1>11. DownPlaces /\ UpPlaces /\ Closing
    BY <1>1, <1>2, <1>5 DEF DownPlaces, UpPlaces, Closing
  <1>12. UploadsFirst
    BY <1>1 DEF UploadsFirst, MarkersClean, CleanedUploaded, Uploads, Named
  <1> QED  BY <1>6, <1>9, <1>10, <1>11, <1>12 DEF IInv

(* The invariant holds in every state of every run. *)
THEOREM Inductive == Spec => []IInv
  <1>1. IInv /\ [Next]_vars => IInv'
    BY DownloadKeeps, MainKeeps, UploadKeeps, ServerKeeps, StutterKeeps DEF Next
  <1> QED  BY InitKeeps, <1>1, PTL DEF Spec

-----------------------------------------------------------------------------
(* What it means for the run. *)

(* The variables keep their types, the queues and active_jobs their bounds. *)
THEOREM TypeCorrect == Spec => []TypeOK
  <1>1. IInv => TypeOK
    BY DEF IInv
  <1> QED  BY <1>1, Inductive, PTL

(* The lists of the pipeline end to end. *)
LEMMA InFlightFacts ==
  ASSUME IInv
  PROVE  /\ IsInjective(InFlight)
         /\ ToSet(InFlight) = ToSet(Unlisted) \cup ToSet(Fetched) \cup ToSet(downloadQueue)
                                \cup ToSet(active) \cup ToSet(uploadQueue) \cup Batch
  <1> DEFINE s2 == Unlisted \o Fetched
             s3 == s2 \o downloadQueue
             s4 == s3 \o active
             s5 == s4 \o uploadQueue
  <1>1. /\ Unlisted \in Seq(Files) /\ Fetched \in Seq(Files) /\ downloadQueue \in Seq(Files)
        /\ active \in Seq(Files) /\ uploadQueue \in Seq(Files) /\ up.batch \in Seq(Files)
    BY Lists DEF IInv
  <1>2. /\ IsInjective(Unlisted) /\ IsInjective(Fetched) /\ IsInjective(downloadQueue)
        /\ IsInjective(active) /\ IsInjective(uploadQueue) /\ IsInjective(up.batch)
    BY DEF IInv, Distinct
  <1>3. Apart(ToSet(Unlisted), ToSet(Fetched), ToSet(downloadQueue), ToSet(active),
              ToSet(uploadQueue), Batch, lost, completed)
    BY DEF IInv, PlacesApart
  <1>4. s2 \in Seq(Files) /\ ToSet(s2) = ToSet(Unlisted) \cup ToSet(Fetched) /\ IsInjective(s2)
    BY <1>1, <1>2, <1>3, JoinFacts DEF Apart
  <1> HIDE DEF s2
  <1>5. /\ s3 \in Seq(Files) /\ ToSet(s3) = ToSet(s2) \cup ToSet(downloadQueue)
        /\ IsInjective(s3)
    <2>1. ToSet(s2) \cap ToSet(downloadQueue) = {}
      BY <1>3, <1>4 DEF Apart
    <2> QED  BY <1>1, <1>2, <1>4, <2>1, JoinFacts
  <1> HIDE DEF s3
  <1>6. s4 \in Seq(Files) /\ ToSet(s4) = ToSet(s3) \cup ToSet(active) /\ IsInjective(s4)
    <2>1. ToSet(s3) \cap ToSet(active) = {}
      BY <1>3, <1>4, <1>5 DEF Apart
    <2> QED  BY <1>1, <1>2, <1>5, <2>1, JoinFacts
  <1> HIDE DEF s4
  <1>7. s5 \in Seq(Files) /\ ToSet(s5) = ToSet(s4) \cup ToSet(uploadQueue) /\ IsInjective(s5)
    <2>1. ToSet(s4) \cap ToSet(uploadQueue) = {}
      BY <1>3, <1>4, <1>5, <1>6 DEF Apart
    <2> QED  BY <1>1, <1>2, <1>6, <2>1, JoinFacts
  <1> HIDE DEF s5
  <1>8. ToSet(s5 \o up.batch) = ToSet(s5) \cup Batch /\ IsInjective(s5 \o up.batch)
    <2>1. ToSet(s5) \cap Batch = {}
      BY <1>3, <1>4, <1>5, <1>6, <1>7 DEF Apart
    <2> QED  BY <1>1, <1>2, <1>7, <2>1, JoinFacts DEF Batch
  <1>9. InFlight = s5 \o up.batch
    BY DEF InFlight, s2, s3, s4, s5
  <1> QED  BY <1>4, <1>5, <1>6, <1>7, <1>8, <1>9

(* No file is in two places of the pipeline, and files_remaining counts    *)
(* what the download thread has not yet put, at every instant between the  *)
(* puts and the decrements.                                                *)
THEOREM OneFileOnePlace == Spec => []OnePlaceFile
  <1>1. IInv => OnePlaceFile
    BY InFlightFacts DEF IInv, Distinct, PlacesApart, Apart, Counted, OnePlaceFile
  <1> QED  BY <1>1, Inductive, PTL

(* Unless a signal ends the main thread no file drops out unrecorded. *)
THEOREM NoneForgotten == Spec => []NoFileForgotten
  <1>1. IInv => NoFileForgotten
    BY InFlightFacts DEF IInv, Accounted, NoFileForgotten
  <1> QED  BY <1>1, Inductive, PTL

(* The loop condition is read in two parts while two threads run, and yet, *)
(* when the loop ends, nothing is left to do but the upload thread's batch. *)
THEOREM ExitComplete == Spec => []LoopExitComplete
  <1>1. IInv => LoopExitComplete
    <2> SUFFICES ASSUME IInv, main \in {"stop", "join down", "join up", "finish", "done"}
                 PROVE  lost = {} /\ Files \subseteq Batch \cup completed \cup failed
      BY DEF LoopExitComplete
    <2>1. /\ Unlisted = <<>> /\ down.batch = <<>> /\ lost = {}
          /\ downloadQueue = <<>> /\ active = <<>> /\ uploadQueue = <<>>
      BY DEF IInv, Closing
    <2>2. Fetched = <<>>
      BY <2>1 DEF IInv, DownPlaces, Fetched
    <2> QED  BY <2>1, <2>2, EmptyList DEF IInv, Accounted
  <1> QED  BY <1>1, Inductive, PTL

(* Markers and unlinks never precede the uploads they stand for, whatever  *)
(* uploads fail and wherever the run is interrupted.                       *)
THEOREM UploadsComeFirst == Spec => []UploadsFirst
  <1>1. IInv => UploadsFirst
    BY DEF IInv
  <1> QED  BY <1>1, Inductive, PTL

=============================================================================
