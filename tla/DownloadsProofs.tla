--------------------------- MODULE DownloadsProofs --------------------------
(***************************************************************************)
(* Proofs about Downloads, for any suites, chunk and buffer sizes, any     *)
(* number of commands, kills and edits.                                    *)
(*                                                                         *)
(* IdInv: between two steps the lines that one command has numbered are    *)
(* partly on the disk and partly in the buffer of the writer; FilesOK says *)
(* that together they have each id once, all below the counter.            *)
(*                                                                         *)
(* WholeInv: what a command has gone through is there.  DirFits is true    *)
(* of any directory, also after a kill.  Course relates the lists of a     *)
(* command to where it stands.  Unbegun says that what it has yet to come  *)
(* to has none of its lines, so that a chunk it begins is new or an older  *)
(* one that it empties.  Processed says what it has left behind is whole.  *)
(* Writing says that the chunks and the buffer of the writer, in order,    *)
(* hold the records written so far.  Fresh says that a download, after its *)
(* removal, has nothing else.                                              *)
(*                                                                         *)
(* The first part of the module has what these need of sums and lists.     *)
(* SumOf and FlattenSeq are folds; each is shown by an induction over sets *)
(* that is stated without operator parameters (Induction, SetInduction).   *)
(***************************************************************************)
EXTENDS Downloads, SequenceTheorems, FiniteSetTheorems, WellFoundedInduction, TLAPS

IsSeq(s) == s \in Seq(ToSet(s))

LEMMA SeqFacts ==
    ASSUME NEW s, IsSeq(s)
    PROVE  /\ Len(s) \in Nat /\ DOMAIN s = 1 .. Len(s)
           /\ \A k \in DOMAIN s : s[k] \in ToSet(s)
  BY DEF IsSeq, ToSet

LEMMA SeqOfAny ==
    ASSUME NEW S, NEW s \in Seq(S)
    PROVE  IsSeq(s)
  BY DEF IsSeq, ToSet

-----------------------------------------------------------------------------
(* Tools: induction, sums, and lists put together from lists. *)

(* A set that has 0 and, with n, also n + 1, has every natural number.     *)
LEMMA Induction ==
    ASSUME NEW S, 0 \in S, \A n \in S \cap Nat : n + 1 \in S
    PROVE  \A n \in Nat : n \in S
  <1> DEFINE T == Nat \ S
  <1> SUFFICES ASSUME T # {} PROVE FALSE
    OBVIOUS
  <1>1. PICK x \in T : \A y \in T : <<y, x>> \notin OpToRel(<, Nat)
    BY NatLessThanWellFounded, WFMin
  <1>2. \A y \in T : ~(y < x)
    BY <1>1 DEF OpToRel
  <1>3. x # 0 /\ x - 1 \in Nat
    OBVIOUS
  <1> QED BY <1>2, <1>3

(* Sets of which each has what all those with one element less have.       *)
LEMMA SetInduction ==
    ASSUME NEW A, IsFiniteSet(A), NEW P,
           \A s \in SUBSET A : (\A x \in s : s \ {x} \in P) => s \in P
    PROVE  A \in P
  <1> DEFINE S == {n \in Nat : \A s \in SUBSET A : Cardinality(s) = n => s \in P}
  <1>1. \A s \in SUBSET A : IsFiniteSet(s) /\ Cardinality(s) \in Nat
    BY FS_Subset, FS_CardinalityType
  <1>2. 0 \in S
    BY <1>1, FS_EmptySet
  <1>3. ASSUME NEW n \in S \cap Nat PROVE n + 1 \in S
    <2>1. ASSUME NEW s \in SUBSET A, Cardinality(s) = n + 1 PROVE s \in P
      <3>1. ASSUME NEW x \in s PROVE s \ {x} \in P
        <4>1. Cardinality(s \ {x}) = n
          BY <1>1, <2>1, FS_RemoveElement
        <4> QED BY <1>3, <4>1
      <3> QED BY <3>1
    <2>2. n + 1 \in Nat
      OBVIOUS
    <2> QED BY <2>1, <2>2
  <1>4. \A n \in Nat : n \in S
    <2> HIDE DEF S
    <2> QED BY <1>2, <1>3, Induction
  <1> QED BY <1>1, <1>4

(* One set is the image of the other, one to one.                          *)
LEMMA Renamed ==
    ASSUME NEW S, IsFiniteSet(S), NEW T, NEW f,
           \A x \in S : f[x] \in T, \A x, y \in S : f[x] = f[y] => x = y,
           \A z \in T : \E x \in S : z = f[x]
    PROVE  IsFiniteSet(T) /\ Cardinality(T) = Cardinality(S)
  <1> DEFINE g == [x \in S |-> f[x]]
  <1>1. g \in Bijection(S, T)
    BY DEF Bijection, Injection, Surjection, IsInjective
  <1>2. ExistsBijection(S, T)
    BY <1>1 DEF ExistsBijection
  <1> QED BY <1>2, FS_Bijection

-----------------------------------------------------------------------------
(* Sums are numbers of pairs.                                              *)
PairsOn(s, f) == {p \in s \X Nat : p[2] < f[p[1]]}

LEMMA PairsAdd ==
    ASSUME NEW s, NEW f, NEW x, x \notin s, f[x] \in Nat, IsFiniteSet(PairsOn(s, f))
    PROVE  /\ IsFiniteSet(PairsOn(s \cup {x}, f))
           /\ Cardinality(PairsOn(s \cup {x}, f)) = Cardinality(PairsOn(s, f)) + f[x]
  <1> DEFINE n == f[x]
             V == {x} \X (0 .. n - 1)
             U == PairsOn(s, f)
             g == [k \in 0 .. n - 1 |-> <<x, k>>]
  <1>1. IsFiniteSet(0 .. n - 1) /\ Cardinality(0 .. n - 1) = n
    <2>1. n \in Nat /\ 0 \in Int /\ n - 1 \in Int
      OBVIOUS
    <2> HIDE DEF n
    <2>2. /\ IsFiniteSet(0 .. n - 1)
          /\ Cardinality(0 .. n - 1) = IF 0 > n - 1 THEN 0 ELSE (n - 1) - 0 + 1
      BY <2>1, FS_Interval
    <2> QED BY <2>1, <2>2
  <1>2. IsFiniteSet(V) /\ Cardinality(V) = n
    <2>1. \A k \in 0 .. n - 1 : g[k] \in V
      OBVIOUS
    <2>2. \A k, l \in 0 .. n - 1 : g[k] = g[l] => k = l
      OBVIOUS
    <2>3. \A z \in V : \E k \in 0 .. n - 1 : z = g[k]
      OBVIOUS
    <2> DEFINE I == 0 .. n - 1
    <2>4. IsFiniteSet(I) /\ Cardinality(I) = n
      BY <1>1
    <2>5. /\ \A k \in I : g[k] \in V
          /\ \A k, l \in I : g[k] = g[l] => k = l
          /\ \A z \in V : \E k \in I : z = g[k]
      BY <2>1, <2>2, <2>3
    <2> HIDE DEF g, V, n, I
    <2> QED BY <2>4, <2>5, Renamed
  <1>3. PairsOn(s \cup {x}, f) = U \cup V
    BY DEF PairsOn
  <1>4. U \cap V = {}
    BY DEF PairsOn
  <1>5. IsFiniteSet(U) /\ Cardinality(U) \in Nat
    BY FS_CardinalityType
  <1>6. IsFiniteSet(U \cup V)
        /\ Cardinality(U \cup V) = Cardinality(U) + Cardinality(V) - Cardinality(U \cap V)
    <2> HIDE DEF U, V
    <2> QED BY <1>2, <1>5, FS_Union
  <1>7. n \in Nat /\ Cardinality(U \cap V) = 0
    BY <1>4, FS_EmptySet
  <1> HIDE DEF U, V, n
  <1>8. Cardinality(U \cup V) = Cardinality(U) + n
    BY <1>2, <1>5, <1>6, <1>7
  <1> QED BY <1>3, <1>6, <1>8 DEF U, n

(* What the fold of SumOf does.                                            *)
LEMMA SumIs ==
    ASSUME NEW A, IsFiniteSet(A), NEW f \in [A -> Nat]
    PROVE  /\ IsFiniteSet(PairsOn(A, f))
           /\ SumOf(f) = Cardinality(PairsOn(A, f))
  <1> DEFINE Turn(g) == [s \in SUBSET A |->
                           IF s = {} THEN 0
                           ELSE f[CHOOSE x \in s : TRUE] + g[s \ {CHOOSE x \in s : TRUE}]]
             h == [s \in SUBSET A |-> Cardinality(PairsOn(s, f))]
             it == CHOOSE g : g = Turn(g)
  <1>1. SumOf(f) = it[A]
    BY DEF SumOf, MapThenSumSet, MapThenFoldSet
  <1>2. PairsOn({}, f) = {} /\ IsFiniteSet({}) /\ Cardinality({}) = 0
    BY FS_EmptySet DEF PairsOn
  <1>3. ASSUME NEW s \in SUBSET A PROVE IsFiniteSet(PairsOn(s, f))
    <2> DEFINE P == {r \in SUBSET A : IsFiniteSet(PairsOn(r, f))}
    <2>1. ASSUME NEW r \in SUBSET s, \A x \in r : r \ {x} \in P PROVE r \in P
      <3>1. CASE r = {}
        BY <1>2, <3>1
      <3>2. CASE r # {}
        <4>1. PICK x \in r : TRUE
          BY <3>2
        <4>2. r = (r \ {x}) \cup {x} /\ f[x] \in Nat /\ x \notin r \ {x}
          BY <4>1
        <4>3. IsFiniteSet(PairsOn(r \ {x}, f))
          BY <2>1, <4>1
        <4>4. IsFiniteSet(PairsOn((r \ {x}) \cup {x}, f))
          BY <4>2, <4>3, PairsAdd
        <4> QED BY <4>2, <4>4
      <3> QED BY <3>1, <3>2
    <2>2. IsFiniteSet(s)
      BY FS_Subset
    <2>3. s \in P
      <3> HIDE DEF P
      <3> QED BY <2>1, <2>2, SetInduction
    <2> QED BY <2>3
  <1>4. ASSUME NEW s \in SUBSET A, NEW x \in s
        PROVE  h[s] = f[x] + h[s \ {x}]
    <2>1. s = (s \ {x}) \cup {x} /\ f[x] \in Nat /\ s \ {x} \in SUBSET A
      OBVIOUS
    <2>2. IsFiniteSet(PairsOn(s \ {x}, f))
      BY <1>3
    <2>3. Cardinality(PairsOn(s, f)) = Cardinality(PairsOn(s \ {x}, f)) + f[x]
      <3>1. Cardinality(PairsOn((s \ {x}) \cup {x}, f)) = Cardinality(PairsOn(s \ {x}, f)) + f[x]
        BY <2>1, <2>2, PairsAdd
      <3> QED BY <2>1, <3>1
    <2>4. Cardinality(PairsOn(s \ {x}, f)) \in Nat
      BY <2>2, FS_CardinalityType
    <2> QED BY <2>1, <2>3, <2>4
  <1>5. h = Turn(h)
    <2>1. h[{}] = 0
      BY <1>2
    <2>2. \A s \in SUBSET A : s # {} => (CHOOSE x \in s : TRUE) \in s
      OBVIOUS
    <2>3. \A s \in SUBSET A : h[s] = Turn(h)[s]
      <3> HIDE DEF h
      <3> QED BY <1>4, <2>1, <2>2
    <2> QED BY <2>3
  <1>6. it = Turn(it)
    <2> HIDE DEF h
    <2> QED BY <1>5
  <1> HIDE DEF it
  <1> DEFINE P == {s \in SUBSET A : it[s] = h[s]}
  <1>7. ASSUME NEW s \in SUBSET A, \A x \in s : s \ {x} \in P PROVE s \in P
    <2>1. it[s] = Turn(it)[s] /\ h[s] = Turn(h)[s]
      BY <1>5, <1>6
    <2>2. CASE s = {}
      BY <2>1, <2>2
    <2>3. CASE s # {}
      <3> DEFINE x == CHOOSE x \in s : TRUE
      <3>1. x \in s
        BY <2>3
      <3>2. it[s \ {x}] = h[s \ {x}]
        BY <1>7, <3>1
      <3> HIDE DEF h
      <3>3. it[s] = f[x] + it[s \ {x}] /\ h[s] = f[x] + h[s \ {x}]
        BY <2>1, <2>3
      <3> QED BY <3>2, <3>3
    <2> QED BY <2>2, <2>3
  <1>8. A \in P
    <2> HIDE DEF P
    <2> QED BY <1>7, SetInduction
  <1> QED BY <1>1, <1>3, <1>8

NatsOn(A) == [A -> Nat]

(* A union of disjoint sets has the sum of their numbers.                  *)
LEMMA FamilySum ==
    ASSUME NEW A, IsFiniteSet(A), NEW g \in NatsOn(A), NEW R,
           \A a \in A : IsFiniteSet(R[a]) /\ Cardinality(R[a]) = g[a],
           \A a, b \in A : a # b => R[a] \cap R[b] = {}
    PROVE  LET U == UNION {R[a] : a \in A}
           IN  IsFiniteSet(U) /\ Cardinality(U) = SumOf(g)
  <1> USE DEF NatsOn
  <1> DEFINE U == UNION {R[a] : a \in A}
             S == PairsOn(A, g)
             B(a) == CHOOSE h : h \in Bijection(1 .. g[a], R[a])
             f == [p \in S |-> B(p[1])[p[2] + 1]]
  <1>1. \A a \in A : B(a) \in Bijection(1 .. g[a], R[a])
    <2>1. ASSUME NEW a \in A PROVE \E h : h \in Bijection(1 .. g[a], R[a])
      BY FS_CardinalityType DEF ExistsBijection
    <2> QED BY <2>1
  <1>2. \A a \in A : /\ \A k \in 1 .. g[a] : B(a)[k] \in R[a]
                     /\ \A k, l \in 1 .. g[a] : B(a)[k] = B(a)[l] => k = l
                     /\ \A z \in R[a] : \E k \in 1 .. g[a] : z = B(a)[k]
    <2> HIDE DEF B
    <2> QED BY <1>1 DEF Bijection, Injection, Surjection, IsInjective
  <1> HIDE DEF B
  <1>3. \A p \in S : /\ p[1] \in A /\ p[2] \in Nat /\ p = <<p[1], p[2]>>
                     /\ p[2] + 1 \in 1 .. g[p[1]] /\ f[p] \in R[p[1]]
                     /\ f[p] = B(p[1])[p[2] + 1]
    <2>1. ASSUME NEW p \in S
          PROVE  p[1] \in A /\ p[2] \in Nat /\ p = <<p[1], p[2]>> /\ p[2] < g[p[1]]
      BY DEF PairsOn
    <2>2. ASSUME NEW p \in S PROVE p[2] + 1 \in 1 .. g[p[1]]
      BY <2>1
    <2>3. ASSUME NEW p \in S PROVE f[p] = B(p[1])[p[2] + 1]
      OBVIOUS
    <2> HIDE DEF S, f
    <2> QED BY <1>2, <2>1, <2>2, <2>3
  <1>4. \A p \in S : f[p] \in U
    <2> HIDE DEF S, f
    <2> QED BY <1>3
  <1>5. \A p, q \in S : f[p] = f[q] => p = q
    <2> HIDE DEF S, f
    <2>1. ASSUME NEW p \in S, NEW q \in S, f[p] = f[q] PROVE p = q
      <3>1. p[1] = q[1]
        BY <1>3, <2>1
      <3>2. p[2] + 1 = q[2] + 1
        BY <1>2, <1>3, <2>1, <3>1
      <3>3. p[2] = q[2]
        BY <1>3, <3>2
      <3> QED BY <1>3, <3>1, <3>3
    <2> QED BY <2>1
  <1>6. \A z \in U : \E p \in S : z = f[p]
    <2>1. ASSUME NEW a \in A, NEW z \in R[a] PROVE \E p \in S : z = f[p]
      <3>1. PICK k \in 1 .. g[a] : z = B(a)[k]
        BY <1>2
      <3>2. g[a] \in Nat
        OBVIOUS
      <3>3. <<a, k - 1>> \in S /\ (k - 1) + 1 = k
        BY <3>2 DEF PairsOn
      <3>4. f[<<a, k - 1>>] = B(a)[k]
        BY <1>3, <3>3
      <3> QED BY <3>1, <3>3, <3>4
    <2> QED BY <2>1
  <1>7. IsFiniteSet(S) /\ SumOf(g) = Cardinality(S)
    BY SumIs
  <1> HIDE DEF S, U, f
  <1>8. IsFiniteSet(U) /\ Cardinality(U) = Cardinality(S)
    BY <1>4, <1>5, <1>6, <1>7, Renamed
  <1> QED BY <1>7, <1>8 DEF U

-----------------------------------------------------------------------------
(* Lists. *)

LEMMA ConcatSeq ==
    ASSUME NEW s, NEW t, IsSeq(s), IsSeq(t)
    PROVE  /\ IsSeq(s \o t) /\ Len(s \o t) = Len(s) + Len(t)
           /\ \A i \in 1 .. Len(s) + Len(t) :
                (s \o t)[i] = IF i <= Len(s) THEN s[i] ELSE t[i - Len(s)]
  <1> DEFINE S == ToSet(s) \cup ToSet(t)
  <1>1. s \in Seq(S) /\ t \in Seq(S)
    BY SeqMonotonic DEF IsSeq
  <1> HIDE DEF S
  <1>2. s \o t \in Seq(S)
    BY <1>1, ConcatProperties
  <1> QED BY <1>1, <1>2, ConcatProperties, SeqOfAny

LEMMA AppendSeq ==
    ASSUME NEW s, NEW x, IsSeq(s)
    PROVE  /\ IsSeq(Append(s, x)) /\ Len(Append(s, x)) = Len(s) + 1
           /\ \A i \in 1 .. Len(s) : Append(s, x)[i] = s[i]
           /\ Append(s, x)[Len(s) + 1] = x
  <1> DEFINE S == ToSet(s) \cup {x}
  <1>1. s \in Seq(S) /\ x \in S
    BY SeqMonotonic DEF IsSeq
  <1> HIDE DEF S
  <1>2. Append(s, x) \in Seq(S)
    BY <1>1, AppendProperties
  <1>3. IsSeq(Append(s, x))
    BY <1>2, SeqOfAny
  <1> QED BY <1>1, <1>3, AppendProperties

LEMMA PrefixSeq ==
    ASSUME NEW s, IsSeq(s), NEW m \in 0 .. Len(s)
    PROVE  /\ IsSeq(SubSeq(s, 1, m)) /\ Len(SubSeq(s, 1, m)) = m
           /\ \A i \in 1 .. m : SubSeq(s, 1, m)[i] = s[i]
  <1>1. s \in Seq(ToSet(s)) /\ Len(s) \in Nat /\ \A i \in 1 .. m : s[i] \in ToSet(s)
    BY SeqFacts DEF IsSeq
  <1>2. SubSeq(s, 1, m) \in Seq(ToSet(s))
    BY <1>1, SubSeqProperties
  <1>3. IsSeq(SubSeq(s, 1, m))
    BY <1>2, SeqOfAny
  <1> QED BY <1>1, <1>3, SubSeqProperties

(* Two lists with the same members.                                        *)
LEMMA SameSeq ==
    ASSUME NEW s, NEW t, IsSeq(s), IsSeq(t), Len(s) = Len(t), \A i \in 1 .. Len(s) : s[i] = t[i]
    PROVE  s = t
  <1> DEFINE S == ToSet(s) \cup ToSet(t)
  <1>1. s \in Seq(S) /\ t \in Seq(S)
    BY SeqMonotonic DEF IsSeq
  <1> HIDE DEF S
  <1> QED BY <1>1, SeqEqual

LEMMA NoSeq == /\ IsSeq(<<>>) /\ Len(<<>>) = 0 /\ DOMAIN <<>> = {}
               /\ \A s : IsSeq(s) => (<<>> \o s = s) /\ (s \o <<>> = s) /\ (Len(s) = 0 <=> s = <<>>)
  <1>1. IsSeq(<<>>) /\ Len(<<>>) = 0 /\ DOMAIN <<>> = {}
    BY DEF IsSeq
  <1>2. ASSUME NEW s, IsSeq(s)
        PROVE  (<<>> \o s = s) /\ (s \o <<>> = s) /\ (Len(s) = 0 <=> s = <<>>)
    BY <1>2, EmptySeq, ConcatEmptySeq DEF IsSeq
  <1> QED BY <1>1, <1>2

LEMMA ConcatThree ==
    ASSUME NEW s, NEW t, NEW u, IsSeq(s), IsSeq(t), IsSeq(u)
    PROVE  (s \o t) \o u = s \o (t \o u)
  <1> DEFINE S == ToSet(s) \cup ToSet(t) \cup ToSet(u)
  <1>1. s \in Seq(S) /\ t \in Seq(S) /\ u \in Seq(S)
    BY SeqMonotonic DEF IsSeq
  <1> HIDE DEF S
  <1> QED BY <1>1, ConcatAssociative

LEMMA ConcatAppend ==
    ASSUME NEW s, NEW t, NEW x, IsSeq(s), IsSeq(t)
    PROVE  s \o Append(t, x) = Append(s \o t, x)
  <1> DEFINE l == s \o Append(t, x)
             r == Append(s \o t, x)
  <1>1. Len(s) \in Nat /\ Len(t) \in Nat
    BY SeqFacts
  <1>2. /\ IsSeq(s \o t) /\ Len(s \o t) = Len(s) + Len(t)
        /\ \A i \in 1 .. Len(s) + Len(t) :
             (s \o t)[i] = IF i <= Len(s) THEN s[i] ELSE t[i - Len(s)]
    BY ConcatSeq
  <1>3. /\ IsSeq(Append(t, x)) /\ Len(Append(t, x)) = Len(t) + 1
        /\ \A i \in 1 .. Len(t) : Append(t, x)[i] = t[i]
        /\ Append(t, x)[Len(t) + 1] = x
    BY AppendSeq
  <1>4. /\ IsSeq(l) /\ Len(l) = Len(s) + (Len(t) + 1)
        /\ \A i \in 1 .. Len(s) + (Len(t) + 1) :
             l[i] = IF i <= Len(s) THEN s[i] ELSE Append(t, x)[i - Len(s)]
    <2> DEFINE a == Append(t, x)
    <2> HIDE DEF a
    <2>1. IsSeq(a) /\ Len(a) = Len(t) + 1
      BY <1>3 DEF a
    <2>2. /\ IsSeq(s \o a) /\ Len(s \o a) = Len(s) + Len(a)
          /\ \A i \in 1 .. Len(s) + Len(a) : (s \o a)[i] = IF i <= Len(s) THEN s[i] ELSE a[i - Len(s)]
      BY <2>1, ConcatSeq
    <2> QED BY <2>1, <2>2 DEF a
  <1>5. /\ IsSeq(r) /\ Len(r) = (Len(s) + Len(t)) + 1
        /\ \A i \in 1 .. Len(s) + Len(t) : r[i] = (s \o t)[i]
        /\ r[(Len(s) + Len(t)) + 1] = x
    <2> DEFINE c == s \o t
    <2> HIDE DEF c
    <2>1. IsSeq(c) /\ Len(c) = Len(s) + Len(t)
      BY <1>2 DEF c
    <2>2. /\ IsSeq(Append(c, x)) /\ Len(Append(c, x)) = Len(c) + 1
          /\ \A i \in 1 .. Len(c) : Append(c, x)[i] = c[i]
          /\ Append(c, x)[Len(c) + 1] = x
      BY <2>1, AppendSeq
    <2> QED BY <2>1, <2>2 DEF c
  <1> HIDE DEF l, r
  <1>6. ASSUME NEW i \in 1 .. Len(l) PROVE l[i] = r[i]
    <2>1. CASE i <= Len(s)
      BY <1>1, <1>2, <1>4, <1>5, <2>1
    <2>2. CASE i > Len(s) /\ i <= Len(s) + Len(t)
      <3>1. i - Len(s) \in 1 .. Len(t) /\ i \in 1 .. Len(s) + Len(t) /\ ~(i <= Len(s))
        BY <1>1, <1>4, <2>2
      <3> QED BY <1>2, <1>3, <1>4, <1>5, <3>1
    <2>3. CASE i = Len(s) + Len(t) + 1
      <3>1. i - Len(s) = Len(t) + 1 /\ ~(i <= Len(s)) /\ i = (Len(s) + Len(t)) + 1
        BY <1>1, <2>3
      <3> QED BY <1>3, <1>4, <1>5, <3>1
    <2> QED BY <1>1, <1>4, <2>1, <2>2, <2>3
  <1>7. Len(l) = Len(r)
    BY <1>1, <1>4, <1>5
  <1>8. l = r
    BY <1>4, <1>5, <1>6, <1>7, SameSeq
  <1> QED BY <1>8 DEF l, r

-----------------------------------------------------------------------------
(* FlattenSeq, of which g has the value after each list.                   *)
IsFlat(ss, g) ==
    \A i \in 1 .. Len(ss) : g[i] = IF i = 1 THEN ss[i] ELSE g[i - 1] \o ss[i]

LEMMA FlatExists ==
    ASSUME NEW ss, IsSeq(ss)
    PROVE  \E g : g = [i \in 1 .. Len(ss) |-> IF i = 1 THEN ss[i] ELSE g[i - 1] \o ss[i]]
  <1> DEFINE Turn(m, g) == [i \in 1 .. m |-> IF i = 1 THEN ss[i] ELSE g[i - 1] \o ss[i]]
             S == {m \in Nat : \E g : g = Turn(m, g)}
  <1>1. 0 \in S
    <2> DEFINE g == [i \in 1 .. 0 |-> 0]
    <2>1. g = Turn(0, g)
      OBVIOUS
    <2> QED BY <2>1
  <1>2. ASSUME NEW m \in S \cap Nat PROVE m + 1 \in S
    <2>1. PICK g : g = Turn(m, g)
      BY <1>2
    <2> DEFINE v == IF m + 1 = 1 THEN ss[m + 1] ELSE g[m] \o ss[m + 1]
               h == [i \in 1 .. m + 1 |-> IF i = m + 1 THEN v ELSE g[i]]
    <2>2. \A i \in 1 .. m : h[i] = g[i]
      OBVIOUS
    <2>3. h[m + 1] = v
      OBVIOUS
    <2>4. DOMAIN h = 1 .. m + 1 /\ h = [i \in 1 .. m + 1 |-> h[i]]
      OBVIOUS
    <2>5. ASSUME NEW i \in 1 .. m + 1
          PROVE  h[i] = IF i = 1 THEN ss[i] ELSE h[i - 1] \o ss[i]
      <3>1. CASE i = m + 1
        <4>1. i # 1 => i - 1 \in 1 .. m /\ i - 1 = m
          BY <3>1
        <4> HIDE DEF h
        <4> QED BY <2>2, <2>3, <3>1, <4>1
      <3>2. CASE i # m + 1
        <4>1. i \in 1 .. m /\ (i # 1 => i - 1 \in 1 .. m)
          BY <3>2
        <4>2. g[i] = IF i = 1 THEN ss[i] ELSE g[i - 1] \o ss[i]
          BY <2>1, <4>1
        <4> HIDE DEF h
        <4> QED BY <2>2, <4>1, <4>2
      <3> QED BY <3>1, <3>2
    <2>6. h = Turn(m + 1, h)
      <3> HIDE DEF h
      <3> QED BY <2>4, <2>5
    <2>7. m + 1 \in Nat
      OBVIOUS
    <2> HIDE DEF h, Turn
    <2> QED BY <2>6, <2>7
  <1>3. \A m \in Nat : m \in S
    <2> HIDE DEF S
    <2> QED BY <1>1, <1>2, Induction
  <1>4. Len(ss) \in Nat
    BY SeqFacts
  <1> QED BY <1>3, <1>4

LEMMA FlatIs ==
    ASSUME NEW ss, IsSeq(ss), NEW g, IsFlat(ss, g), Len(ss) # 0
    PROVE  FlattenSeq(ss) = g[Len(ss)]
  <1> DEFINE Turn(h) == [i \in 1 .. Len(ss) |-> IF i = 1 THEN ss[i] ELSE h[i - 1] \o ss[i]]
             f == CHOOSE h : h = Turn(h)
  <1>1. FlattenSeq(ss) = f[Len(ss)]
    BY DEF FlattenSeq
  <1>2. f = Turn(f)
    BY FlatExists
  <1> HIDE DEF f
  <1> DEFINE S == {i \in Nat : i \in 1 .. Len(ss) => f[i] = g[i]}
  <1>3. Len(ss) \in Nat
    BY SeqFacts
  <1>4. 0 \in S
    OBVIOUS
  <1>5. ASSUME NEW i \in S \cap Nat PROVE i + 1 \in S
    <2>1. ASSUME i + 1 \in 1 .. Len(ss) PROVE f[i + 1] = g[i + 1]
      <3>1. f[i + 1] = IF i + 1 = 1 THEN ss[i + 1] ELSE f[(i + 1) - 1] \o ss[i + 1]
        BY <1>2, <2>1
      <3>2. g[i + 1] = IF i + 1 = 1 THEN ss[i + 1] ELSE g[(i + 1) - 1] \o ss[i + 1]
        BY <2>1 DEF IsFlat
      <3>3. (i + 1) - 1 = i /\ (i + 1 # 1 => i \in 1 .. Len(ss))
        BY <1>3, <2>1
      <3>4. i + 1 # 1 => f[i] = g[i]
        BY <1>5, <3>3
      <3> QED BY <3>1, <3>2, <3>3, <3>4
    <2>2. i + 1 \in Nat
      OBVIOUS
    <2> QED BY <2>1, <2>2
  <1>6. \A i \in Nat : i \in S
    <2> HIDE DEF S
    <2> QED BY <1>4, <1>5, Induction
  <1>7. Len(ss) \in 1 .. Len(ss)
    BY <1>3
  <1> QED BY <1>1, <1>3, <1>6, <1>7

AllSeqs(ss) == IsSeq(ss) /\ \A k \in 1 .. Len(ss) : IsSeq(ss[k])

LEMMA FlattenNone == FlattenSeq(<<>>) = <<>>
  BY NoSeq DEF FlattenSeq

LEMMA FlattenAppend ==
    ASSUME NEW ss, NEW t, AllSeqs(ss), IsSeq(t)
    PROVE  FlattenSeq(Append(ss, t)) = FlattenSeq(ss) \o t
  <1> DEFINE tt == Append(ss, t)
             n == Len(ss)
  <1>1. /\ IsSeq(tt) /\ Len(tt) = n + 1 /\ n \in Nat
        /\ \A i \in 1 .. n : tt[i] = ss[i]
        /\ tt[n + 1] = t
    BY AppendSeq, SeqFacts DEF AllSeqs
  <1> HIDE DEF tt
  <1>2. PICK g : g = [i \in 1 .. Len(tt) |-> IF i = 1 THEN tt[i] ELSE g[i - 1] \o tt[i]]
    BY <1>1, FlatExists
  <1>3. IsFlat(tt, g)
    BY <1>2 DEF IsFlat
  <1>4. FlattenSeq(tt) = g[n + 1]
    BY <1>1, <1>3, FlatIs
  <1>5. g[n + 1] = IF n + 1 = 1 THEN t ELSE g[n] \o t
    BY <1>1, <1>3 DEF IsFlat
  <1>6. CASE n = 0
    <2>1. ss = <<>>
      BY <1>6, NoSeq DEF AllSeqs
    <2>2. FlattenSeq(tt) = t
      BY <1>4, <1>5, <1>6
    <2>3. FlattenSeq(ss) \o t = t
      BY <2>1, FlattenNone, NoSeq
    <2> QED BY <2>2, <2>3 DEF tt
  <1>7. CASE n # 0
    <2>1. ASSUME NEW i \in 1 .. n PROVE g[i] = IF i = 1 THEN ss[i] ELSE g[i - 1] \o ss[i]
      BY <1>1, <1>3 DEF IsFlat
    <2>2. IsFlat(ss, g)
      BY <2>1 DEF IsFlat
    <2>3. FlattenSeq(ss) = g[n]
      BY <1>7, <2>2, FlatIs DEF AllSeqs
    <2> QED BY <1>1, <1>4, <1>5, <1>7, <2>3 DEF tt
  <1> QED BY <1>6, <1>7

LEMMA ListInduction ==
    ASSUME NEW T, NEW P, <<>> \in P,
           \A s \in Seq(T) : \A x \in T : s \in P => Append(s, x) \in P
    PROVE  \A s \in Seq(T) : s \in P
  <1> DEFINE S == {n \in Nat : \A s \in Seq(T) : Len(s) = n => s \in P}
  <1>1. 0 \in S
    BY EmptySeq
  <1>2. ASSUME NEW n \in S \cap Nat PROVE n + 1 \in S
    <2>1. ASSUME NEW s \in Seq(T), Len(s) = n + 1 PROVE s \in P
      <3> DEFINE p == SubSeq(s, 1, n)
                 x == s[n + 1]
      <3>1. x \in T /\ n \in 0 .. Len(s) /\ \A i \in 1 .. n : s[i] \in T
        BY <2>1
      <3>2. p \in Seq(T) /\ Len(p) = n /\ \A i \in 1 .. n : p[i] = s[i]
        BY <2>1, <3>1, SubSeqProperties
      <3> HIDE DEF p, x
      <3>3. p \in P
        BY <1>2, <3>2
      <3>4. Append(p, x) = s
        <4>1. /\ Append(p, x) \in Seq(T) /\ Len(Append(p, x)) = n + 1
              /\ \A i \in 1 .. n : Append(p, x)[i] = p[i]
              /\ Append(p, x)[n + 1] = x
          BY <3>1, <3>2, AppendProperties
        <4> DEFINE a == Append(p, x)
        <4> HIDE DEF a
        <4>2. /\ a \in Seq(T) /\ Len(a) = Len(s)
              /\ \A i \in 1 .. Len(a) : a[i] = s[i]
          BY <2>1, <3>2, <4>1 DEF a, x
        <4>3. a = s
          BY <4>2, SeqEqual
        <4> QED BY <4>3 DEF a
      <3> QED BY <3>1, <3>2, <3>3, <3>4
    <2>2. n + 1 \in Nat
      OBVIOUS
    <2> QED BY <2>1, <2>2
  <1>3. \A n \in Nat : n \in S
    <2> HIDE DEF S
    <2> QED BY <1>1, <1>2, Induction
  <1> QED BY <1>3

LEMMA ListsOfLists ==
    ASSUME NEW T, NEW ss \in Seq(Seq(T))
    PROVE  AllSeqs(ss)
  BY SeqOfAny DEF AllSeqs

LEMMA FlattenType == \A T : \A ss \in Seq(Seq(T)) : FlattenSeq(ss) \in Seq(T)
  <1> TAKE T
  <1> DEFINE P == {ss \in Seq(Seq(T)) : FlattenSeq(ss) \in Seq(T)}
  <1>1. <<>> \in P
    <2>1. <<>> \in Seq(Seq(T)) /\ <<>> \in Seq(T)
      OBVIOUS
    <2> QED BY <2>1, FlattenNone
  <1>2. ASSUME NEW ss \in Seq(Seq(T)), NEW t \in Seq(T), ss \in P PROVE Append(ss, t) \in P
    <2>1. FlattenSeq(Append(ss, t)) = FlattenSeq(ss) \o t
      BY ListsOfLists, SeqOfAny, FlattenAppend
    <2>2. Append(ss, t) \in Seq(Seq(T)) /\ FlattenSeq(ss) \o t \in Seq(T)
      BY <1>2, AppendProperties, ConcatProperties
    <2> QED BY <2>1, <2>2
  <1>3. \A ss \in Seq(Seq(T)) : ss \in P
    <2> HIDE DEF P
    <2> QED BY <1>1, <1>2, ListInduction
  <1> QED BY <1>3

LEMMA Uniform ==
    ASSUME NEW ss, AllSeqs(ss)
    PROVE  \E T : ss \in Seq(Seq(T))
  <1> DEFINE T == UNION {ToSet(ss[k]) : k \in 1 .. Len(ss)}
  <1>1. \A k \in 1 .. Len(ss) : ss[k] \in Seq(T)
    BY SeqMonotonic DEF AllSeqs, IsSeq
  <1>2. Len(ss) \in Nat /\ ss = [k \in 1 .. Len(ss) |-> ss[k]]
    BY DEF AllSeqs, IsSeq
  <1> HIDE DEF T
  <1>3. ss \in Seq(Seq(T))
    BY <1>1, <1>2, SeqDef
  <1> QED BY <1>3

LEMMA FlattenIsSeq == ASSUME NEW ss, AllSeqs(ss) PROVE IsSeq(FlattenSeq(ss))
  BY Uniform, FlattenType, SeqOfAny

-----------------------------------------------------------------------------
(* Sums along a list. *)

LEMMA SumAdd ==
    ASSUME NEW A, IsFiniteSet(A), NEW x, x \notin A, NEW B, B = A \cup {x},
           NEW f \in NatsOn(A), NEW g \in NatsOn(B), \A a \in A : g[a] = f[a]
    PROVE  SumOf(g) = SumOf(f) + g[x] /\ SumOf(f) \in Nat
  <1> USE DEF NatsOn
  <1>1. IsFiniteSet(PairsOn(A, f)) /\ SumOf(f) = Cardinality(PairsOn(A, f))
    BY SumIs
  <1>2. PairsOn(A, g) = PairsOn(A, f)
    BY DEF PairsOn
  <1>3. Cardinality(PairsOn(A \cup {x}, g)) = Cardinality(PairsOn(A, g)) + g[x]
    <2>1. x \notin A /\ g[x] \in Nat /\ IsFiniteSet(PairsOn(A, g))
      BY <1>1, <1>2
    <2> QED BY <2>1, PairsAdd
  <1>4. SumOf(g) = Cardinality(PairsOn(A \cup {x}, g))
    <2>1. IsFiniteSet(B)
      BY FS_AddElement
    <2>2. SumOf(g) = Cardinality(PairsOn(B, g))
      BY <2>1, SumIs
    <2> QED BY <2>2
  <1> QED BY <1>1, <1>2, <1>3, <1>4, FS_CardinalityType

LEMMA SumNone == ASSUME NEW f, DOMAIN f = {}, f \in [{} -> Nat] PROVE SumOf(f) = 0
  <1>1. PairsOn({}, f) = {}
    BY DEF PairsOn
  <1> QED BY <1>1, SumIs, FS_EmptySet

LEMMA UpTo == \A n \in Nat : IsFiniteSet(1 .. n) /\ Cardinality(1 .. n) = n
  <1> TAKE n \in Nat
  <1>1. 1 \in Int /\ n \in Int /\ (1 <= n \/ n = 0)
    OBVIOUS
  <1>2. IsFiniteSet(1 .. n) /\ Cardinality(1 .. n) = IF 1 > n THEN 0 ELSE n - 1 + 1
    BY <1>1, FS_Interval
  <1> QED BY <1>2

(* The sum of the numbers of a list, when one more is put behind it.       *)
LEMMA SumBehind ==
    ASSUME NEW n \in Nat, NEW f \in [1 .. n -> Nat], NEW g \in [1 .. n + 1 -> Nat],
           \A k \in 1 .. n : g[k] = f[k]
    PROVE  SumOf(g) = SumOf(f) + g[n + 1] /\ SumOf(f) \in Nat
  <1> DEFINE A == 1 .. n
             B == 1 .. n + 1
             x == n + 1
  <1>1. x \notin A /\ IsFiniteSet(A) /\ B = A \cup {x}
    BY UpTo
  <1>2. f \in NatsOn(A) /\ g \in NatsOn(B) /\ \A k \in A : g[k] = f[k]
    BY DEF NatsOn
  <1> HIDE DEF A, B, x
  <1>3. SumOf(g) = SumOf(f) + g[x] /\ SumOf(f) \in Nat
    BY <1>1, <1>2, SumAdd
  <1> QED BY <1>3 DEF x

Lengths(ss) == [k \in 1 .. Len(ss) |-> Len(ss[k])]

LEMMA FlattenLength == \A T : \A ss \in Seq(Seq(T)) : Len(FlattenSeq(ss)) = SumOf(Lengths(ss))
  <1> TAKE T
  <1> DEFINE P == {ss \in Seq(Seq(T)) : Len(FlattenSeq(ss)) = SumOf(Lengths(ss))}
  <1>1. <<>> \in P
    <2>1. <<>> \in Seq(Seq(T)) /\ Len(FlattenSeq(<<>>)) = 0
      BY FlattenNone
    <2>2. DOMAIN Lengths(<<>>) = {} /\ Lengths(<<>>) \in [{} -> Nat]
      BY DEF Lengths
    <2>3. SumOf(Lengths(<<>>)) = 0
      BY <2>2, SumNone
    <2> QED BY <2>1, <2>3
  <1>2. ASSUME NEW ss \in Seq(Seq(T)), NEW t \in Seq(T), ss \in P PROVE Append(ss, t) \in P
    <2> DEFINE a == Append(ss, t)
               n == Len(ss)
    <2>1. /\ FlattenSeq(a) = FlattenSeq(ss) \o t
          /\ FlattenSeq(ss) \in Seq(T)
      BY ListsOfLists, SeqOfAny, FlattenAppend, FlattenType
    <2>2. Len(FlattenSeq(a)) = Len(FlattenSeq(ss)) + Len(t) /\ Len(t) \in Nat /\ n \in Nat
      BY <2>1, ConcatProperties
    <2>3. /\ a \in Seq(Seq(T)) /\ Len(a) = n + 1
          /\ \A i \in 1 .. n : a[i] = ss[i]
          /\ a[n + 1] = t
      BY AppendProperties
    <2>4. \A k \in 1 .. n : Len(ss[k]) \in Nat
      OBVIOUS
    <2>5. \A k \in 1 .. n + 1 : Len(a[k]) \in Nat
      <3> HIDE DEF a
      <3> QED BY <2>3
    <2> HIDE DEF a
    <2>6. /\ Lengths(ss) \in [1 .. n -> Nat] /\ Lengths(a) \in [1 .. n + 1 -> Nat]
          /\ \A k \in 1 .. n : Lengths(a)[k] = Lengths(ss)[k]
          /\ Lengths(a)[n + 1] = Len(t)
      BY <2>2, <2>3, <2>4, <2>5 DEF Lengths
    <2>7. SumOf(Lengths(a)) = SumOf(Lengths(ss)) + Len(t)
      <3> HIDE DEF n
      <3> QED BY <2>2, <2>6, SumBehind
    <2>8. Len(FlattenSeq(ss)) = SumOf(Lengths(ss))
      BY <1>2
    <2> QED BY <2>2, <2>3, <2>7, <2>8 DEF a
  <1>3. \A ss \in Seq(Seq(T)) : ss \in P
    <2> HIDE DEF P
    <2> QED BY <1>1, <1>2, ListInduction
  <1> QED BY <1>3

(* Empty lists behind make no difference.                                  *)
LEMMA FlattenPad ==
    ASSUME NEW ss, AllSeqs(ss), NEW n \in 0 .. Len(ss), \A k \in n + 1 .. Len(ss) : ss[k] = <<>>
    PROVE  FlattenSeq(ss) = FlattenSeq(SubSeq(ss, 1, n))
  <1> DEFINE S == {m \in Nat : m <= Len(ss) - n =>
                        FlattenSeq(SubSeq(ss, 1, n + m)) = FlattenSeq(SubSeq(ss, 1, n))}
  <1>1. Len(ss) \in Nat /\ n \in Nat
    BY SeqFacts DEF AllSeqs
  <1>2. 0 \in S
    BY <1>1
  <1>3. ASSUME NEW m \in S \cap Nat PROVE m + 1 \in S
    <2>1. ASSUME m + 1 <= Len(ss) - n
          PROVE  FlattenSeq(SubSeq(ss, 1, n + (m + 1))) = FlattenSeq(SubSeq(ss, 1, n))
      <3> DEFINE p == SubSeq(ss, 1, n + m)
                 q == SubSeq(ss, 1, n + (m + 1))
      <3>1. n + m \in 0 .. Len(ss) /\ n + (m + 1) \in 0 .. Len(ss) /\ n + (m + 1) \in n + 1 .. Len(ss)
        BY <1>1, <2>1
      <3>2. /\ IsSeq(p) /\ Len(p) = n + m
            /\ \A i \in 1 .. n + m : p[i] = ss[i]
        BY <3>1, PrefixSeq DEF AllSeqs
      <3>3. /\ IsSeq(q) /\ Len(q) = n + (m + 1)
            /\ \A i \in 1 .. n + (m + 1) : q[i] = ss[i]
        BY <3>1, PrefixSeq DEF AllSeqs
      <3> HIDE DEF p, q
      <3>4. AllSeqs(p)
        <4>1. \A i \in 1 .. n + m : i \in 1 .. Len(ss)
          BY <1>1, <3>1
        <4> QED BY <3>2, <4>1 DEF AllSeqs
      <3>5. q = Append(p, <<>>)
        <4> DEFINE a == Append(p, <<>>)
        <4>1. /\ IsSeq(a) /\ Len(a) = (n + m) + 1
              /\ \A i \in 1 .. n + m : a[i] = p[i]
              /\ a[(n + m) + 1] = <<>>
          BY <3>2, AppendSeq
        <4> HIDE DEF a
        <4>2. ASSUME NEW i \in 1 .. Len(q) PROVE q[i] = a[i]
          <5>1. CASE i \in 1 .. n + m
            BY <3>2, <3>3, <4>1, <5>1
          <5>2. CASE i \notin 1 .. n + m
            <6>1. i = n + (m + 1) /\ i = (n + m) + 1
              BY <1>1, <3>3, <5>2
            <6>2. q[i] = <<>>
              BY <3>1, <3>3, <6>1
            <6> QED BY <4>1, <6>1, <6>2
          <5> QED BY <5>1, <5>2
        <4>3. Len(q) = Len(a)
          BY <1>1, <3>3, <4>1
        <4>4. q = a
          BY <3>3, <4>1, <4>2, <4>3, SameSeq
        <4> QED BY <4>4 DEF a
      <3>6. FlattenSeq(q) = FlattenSeq(p) \o <<>>
        BY <3>4, <3>5, FlattenAppend, NoSeq
      <3>7. FlattenSeq(q) = FlattenSeq(p)
        BY <3>4, <3>6, FlattenIsSeq, NoSeq
      <3>8. FlattenSeq(p) = FlattenSeq(SubSeq(ss, 1, n))
        <4>1. m <= Len(ss) - n
          BY <1>1, <2>1
        <4> QED BY <1>3, <4>1 DEF p
      <3> QED BY <3>7, <3>8 DEF q
    <2>2. m + 1 \in Nat
      OBVIOUS
    <2> QED BY <2>1, <2>2
  <1>4. \A m \in Nat : m \in S
    <2> HIDE DEF S
    <2> QED BY <1>2, <1>3, Induction
  <1>5. Len(ss) - n \in Nat /\ n + (Len(ss) - n) = Len(ss)
    BY <1>1
  <1>6. FlattenSeq(SubSeq(ss, 1, Len(ss))) = FlattenSeq(SubSeq(ss, 1, n))
    BY <1>4, <1>5
  <1>7. SubSeq(ss, 1, Len(ss)) = ss
    <2> DEFINE p == SubSeq(ss, 1, Len(ss))
    <2>1. Len(ss) \in 0 .. Len(ss)
      BY <1>1
    <2>2. IsSeq(p) /\ Len(p) = Len(ss) /\ \A i \in 1 .. Len(ss) : p[i] = ss[i]
      BY <2>1, PrefixSeq DEF AllSeqs
    <2> HIDE DEF p
    <2>3. p = ss
      BY <2>2, SameSeq DEF AllSeqs
    <2> QED BY <2>3 DEF p
  <1> QED BY <1>6, <1>7

-----------------------------------------------------------------------------
(* What the chunk sizes count. *)

(* The bytes of lines. *)
Sized(lines) == \A k \in DOMAIN lines : lines[k].size \in Nat
SizesOf(lines) == [k \in DOMAIN lines |-> lines[k].size]

LEMMA BytesAre ==
    ASSUME NEW s, IsSeq(s), Sized(s)
    PROVE  /\ Bytes(s) = SumOf(SizesOf(s)) /\ SizesOf(s) \in [1 .. Len(s) -> Nat]
           /\ IsFiniteSet(PairsOn(1 .. Len(s), SizesOf(s)))
           /\ Bytes(s) = Cardinality(PairsOn(1 .. Len(s), SizesOf(s))) /\ Bytes(s) \in Nat
  <1>1. Bytes(s) = SumOf(SizesOf(s))
    BY DEF Bytes, SizesOf
  <1>2. Len(s) \in Nat /\ DOMAIN s = 1 .. Len(s)
    BY SeqFacts
  <1>3. SizesOf(s) \in [1 .. Len(s) -> Nat]
    BY <1>2 DEF Sized, SizesOf
  <1>4. IsFiniteSet(1 .. Len(s))
    BY <1>2, UpTo
  <1> DEFINE A == 1 .. Len(s)
             f == SizesOf(s)
  <1> HIDE DEF A, f
  <1>5. IsFiniteSet(A) /\ f \in [A -> Nat]
    BY <1>3, <1>4 DEF A, f
  <1>6. IsFiniteSet(PairsOn(A, f)) /\ SumOf(f) = Cardinality(PairsOn(A, f))
    BY <1>5, SumIs
  <1>7. Cardinality(PairsOn(A, f)) \in Nat
    BY <1>6, FS_CardinalityType
  <1> QED BY <1>1, <1>3, <1>6, <1>7 DEF A, f

LEMMA BytesNone == Bytes(<<>>) = 0
  <1>1. DOMAIN SizesOf(<<>>) = {} /\ SizesOf(<<>>) \in [{} -> Nat]
    BY NoSeq DEF SizesOf
  <1>2. SumOf(SizesOf(<<>>)) = 0
    BY <1>1, SumNone
  <1> QED BY <1>2 DEF Bytes, SizesOf

LEMMA BytesAppend ==
    ASSUME NEW s, IsSeq(s), Sized(s), NEW r, r.size \in Nat
    PROVE  /\ Sized(Append(s, r))
           /\ Bytes(Append(s, r)) = Bytes(s) + r.size
  <1> DEFINE a == Append(s, r)
             n == Len(s)
  <1>1. Len(s) \in Nat /\ DOMAIN s = 1 .. Len(s)
    BY SeqFacts
  <1>2. /\ IsSeq(a) /\ Len(a) = n + 1
        /\ \A i \in 1 .. n : a[i] = s[i]
        /\ a[n + 1] = r
    BY AppendSeq
  <1> HIDE DEF a
  <1>3. DOMAIN a = 1 .. n + 1
    BY <1>2, SeqFacts
  <1>4. Sized(a)
    <2>1. \A k \in 1 .. n + 1 : k \in 1 .. n \/ k = n + 1
      BY <1>1
    <2> QED BY <1>1, <1>2, <1>3, <2>1 DEF Sized
  <1>5. /\ SizesOf(s) \in [1 .. n -> Nat] /\ SizesOf(a) \in [1 .. n + 1 -> Nat]
        /\ \A k \in 1 .. n : SizesOf(a)[k] = SizesOf(s)[k]
        /\ SizesOf(a)[n + 1] = r.size
    BY <1>1, <1>2, <1>3, <1>4 DEF Sized, SizesOf
  <1>6. SumOf(SizesOf(a)) = SumOf(SizesOf(s)) + r.size
    <2> HIDE DEF n
    <2>1. n \in Nat
      BY <1>1 DEF n
    <2> QED BY <1>5, <2>1, SumBehind
  <1>7. Bytes(a) = SumOf(SizesOf(a)) /\ Bytes(s) = SumOf(SizesOf(s))
    BY DEF Bytes, SizesOf
  <1> QED BY <1>4, <1>6, <1>7 DEF a

LEMMA BytesPrefix ==
    ASSUME NEW s, IsSeq(s), Sized(s), NEW n \in 0 .. Len(s)
    PROVE  Sized(SubSeq(s, 1, n)) /\ Bytes(SubSeq(s, 1, n)) <= Bytes(s)
  <1> DEFINE p == SubSeq(s, 1, n)
  <1>1. Len(s) \in Nat /\ DOMAIN s = 1 .. Len(s) /\ n \in Nat /\ \A i \in 1 .. n : i \in 1 .. Len(s)
    BY SeqFacts
  <1>2. IsSeq(p) /\ Len(p) = n /\ \A i \in 1 .. n : p[i] = s[i]
    BY PrefixSeq
  <1> HIDE DEF p
  <1>3. DOMAIN p = 1 .. n
    BY <1>2, SeqFacts
  <1>4. Sized(p)
    BY <1>1, <1>2, <1>3 DEF Sized
  <1> DEFINE U == PairsOn(1 .. n, SizesOf(p))
             V == PairsOn(1 .. Len(s), SizesOf(s))
  <1>5. IsFiniteSet(U) /\ Bytes(p) = Cardinality(U)
    BY <1>2, <1>4, BytesAre
  <1>6. IsFiniteSet(V) /\ Bytes(s) = Cardinality(V)
    BY BytesAre
  <1>7. U \subseteq V
    <2>1. \A i \in 1 .. n : SizesOf(p)[i] = SizesOf(s)[i]
      BY <1>1, <1>2, <1>3 DEF SizesOf
    <2> QED BY <1>1, <2>1 DEF PairsOn
  <1>8. Cardinality(U) <= Cardinality(V)
    <2> HIDE DEF U, V
    <2> QED BY <1>6, <1>7, FS_Subset
  <1> QED BY <1>4, <1>5, <1>6, <1>8 DEF p

-----------------------------------------------------------------------------
(* What a list has of the members of a set. *)

LEMMA Single == \A T : \A x \in T : <<x>> \in Seq(T) /\ <<>> \in Seq(T)
  <1> TAKE T
  <1> TAKE x \in T
  <1>1. <<>> \in Seq(T)
    OBVIOUS
  <1>2. Append(<<>>, x) \in Seq(T)
    BY <1>1, AppendProperties
  <1>3. <<x>> = Append(<<>>, x)
    OBVIOUS
  <1> QED BY <1>1, <1>2, <1>3

Picked(s, S) == [k \in DOMAIN s |-> IF s[k] \in S THEN <<s[k]>> ELSE <<>>]

LEMMA PickedLists ==
    ASSUME NEW s, IsSeq(s), NEW S
    PROVE  /\ Picked(s, S) \in Seq(Seq(ToSet(s) \cap S))
           /\ Chosen(s, S) = FlattenSeq(Picked(s, S))
           /\ Len(Picked(s, S)) = Len(s) /\ AllSeqs(Picked(s, S))
           /\ Chosen(s, S) \in Seq(ToSet(s) \cap S)
  <1> DEFINE T == ToSet(s) \cap S
  <1>1. Len(s) \in Nat /\ DOMAIN s = 1 .. Len(s) /\ \A k \in 1 .. Len(s) : s[k] \in ToSet(s)
    BY SeqFacts
  <1>2. \A k \in 1 .. Len(s) : (IF s[k] \in S THEN <<s[k]>> ELSE <<>>) \in Seq(T)
    <2>1. \A k \in 1 .. Len(s) : s[k] \in S => s[k] \in T
      BY <1>1
    <2> HIDE DEF T
    <2>2. <<>> \in Seq(T)
      OBVIOUS
    <2> QED BY <2>1, <2>2, Single
  <1> HIDE DEF T
  <1>3. Picked(s, S) \in Seq(Seq(T)) /\ Len(Picked(s, S)) = Len(s)
    BY <1>1, <1>2 DEF Picked
  <1>4. Chosen(s, S) = FlattenSeq(Picked(s, S))
    BY DEF Chosen, Picked
  <1>5. AllSeqs(Picked(s, S)) /\ FlattenSeq(Picked(s, S)) \in Seq(T)
    BY <1>3, ListsOfLists, FlattenType
  <1> QED BY <1>3, <1>4, <1>5 DEF T

LEMMA ChosenIsSeq == ASSUME NEW s, IsSeq(s), NEW S PROVE IsSeq(Chosen(s, S))
  BY PickedLists, SeqOfAny

LEMMA ChosenNone == \A S : Chosen(<<>>, S) = <<>>
  <1> TAKE S
  <1>1. Chosen(<<>>, S) = FlattenSeq(Picked(<<>>, S)) /\ AllSeqs(Picked(<<>>, S))
        /\ Len(Picked(<<>>, S)) = 0
    BY PickedLists, NoSeq
  <1>2. Picked(<<>>, S) = <<>>
    BY <1>1, NoSeq DEF AllSeqs
  <1> QED BY <1>1, <1>2, FlattenNone

LEMMA ChosenAppend ==
    ASSUME NEW s, IsSeq(s), NEW x, NEW S
    PROVE  Chosen(Append(s, x), S) = IF x \in S THEN Append(Chosen(s, S), x) ELSE Chosen(s, S)
  <1> DEFINE a == Append(s, x)
             n == Len(s)
             t == IF x \in S THEN <<x>> ELSE <<>>
  <1>1. Len(s) \in Nat /\ DOMAIN s = 1 .. Len(s)
    BY SeqFacts
  <1>2. /\ IsSeq(a) /\ Len(a) = n + 1
        /\ \A i \in 1 .. n : a[i] = s[i]
        /\ a[n + 1] = x
    BY AppendSeq
  <1> HIDE DEF a
  <1>3. DOMAIN a = 1 .. n + 1
    BY <1>2, SeqFacts
  <1>4. /\ AllSeqs(Picked(s, S)) /\ Len(Picked(s, S)) = n /\ Chosen(s, S) = FlattenSeq(Picked(s, S))
        /\ AllSeqs(Picked(a, S)) /\ Len(Picked(a, S)) = n + 1 /\ Chosen(a, S) = FlattenSeq(Picked(a, S))
    BY <1>2, PickedLists
  <1>5. IsSeq(t)
    <2>1. <<x>> \in Seq({x})
      BY Single
    <2> QED BY <2>1, NoSeq, SeqOfAny
  <1>6. Picked(a, S) = Append(Picked(s, S), t)
    <2> DEFINE p == Append(Picked(s, S), t)
    <2>1. IsSeq(Picked(s, S))
      BY <1>4 DEF AllSeqs
    <2>2. /\ IsSeq(p) /\ Len(p) = n + 1
          /\ \A i \in 1 .. n : p[i] = Picked(s, S)[i]
          /\ p[n + 1] = t
      BY <1>4, <2>1, AppendSeq
    <2>3. \A i \in 1 .. n : Picked(a, S)[i] = Picked(s, S)[i]
      BY <1>1, <1>2, <1>3 DEF Picked
    <2>4. Picked(a, S)[n + 1] = t
      BY <1>1, <1>2, <1>3 DEF Picked
    <2> HIDE DEF p, t
    <2>5. ASSUME NEW i \in 1 .. n + 1 PROVE Picked(a, S)[i] = p[i]
      <3>1. i \in 1 .. n \/ i = n + 1
        BY <1>1
      <3> QED BY <2>2, <2>3, <2>4, <3>1
    <2>6. Picked(a, S) = p
      BY <1>4, <2>2, <2>5, SameSeq DEF AllSeqs
    <2> QED BY <2>6 DEF p
  <1>7. Chosen(a, S) = Chosen(s, S) \o t
    <2> HIDE DEF t
    <2> QED BY <1>4, <1>5, <1>6, FlattenAppend
  <1>8. CASE x \in S
    <2>1. Chosen(s, S) \o Append(<<>>, x) = Append(Chosen(s, S) \o <<>>, x)
      BY ChosenIsSeq, NoSeq, ConcatAppend
    <2>2. Append(<<>>, x) = <<x>> /\ Chosen(s, S) \o <<>> = Chosen(s, S)
      BY ChosenIsSeq, NoSeq
    <2> QED BY <1>7, <1>8, <2>1, <2>2 DEF a
  <1>9. CASE x \notin S
    BY <1>7, <1>9, ChosenIsSeq, NoSeq DEF a
  <1> QED BY <1>8, <1>9

LEMMA ChosenAll == \A T : \A s \in Seq(T) : Chosen(s, T) = s
  <1> TAKE T
  <1> DEFINE P == {s \in Seq(T) : Chosen(s, T) = s}
  <1>1. <<>> \in P
    <2>1. <<>> \in Seq(T)
      OBVIOUS
    <2> QED BY <2>1, ChosenNone
  <1>2. ASSUME NEW s \in Seq(T), NEW x \in T, s \in P PROVE Append(s, x) \in P
    <2>1. Append(s, x) \in Seq(T)
      BY AppendProperties
    <2>2. Chosen(Append(s, x), T) = Append(Chosen(s, T), x)
      BY SeqOfAny, ChosenAppend
    <2> QED BY <1>2, <2>1, <2>2
  <1>3. \A s \in Seq(T) : s \in P
    <2> HIDE DEF P
    <2> QED BY <1>1, <1>2, ListInduction
  <1> QED BY <1>3

LEMMA ChosenNoMember ==
    ASSUME NEW s, IsSeq(s), NEW S, \A k \in 1 .. Len(s) : s[k] \notin S
    PROVE  Chosen(s, S) = <<>>
  <1>1. Chosen(s, S) \in Seq(ToSet(s) \cap S) /\ IsSeq(Chosen(s, S))
    BY PickedLists, ChosenIsSeq
  <1>2. ToSet(s) \cap S = {}
    BY SeqFacts DEF ToSet
  <1>3. Len(Chosen(s, S)) = 0
    <2>1. Len(Chosen(s, S)) \in Nat /\ \A k \in 1 .. Len(Chosen(s, S)) : FALSE
      BY <1>1, <1>2
    <2>2. 1 \notin 1 .. Len(Chosen(s, S))
      BY <2>1
    <2> QED BY <2>1, <2>2
  <1> QED BY <1>1, <1>3, NoSeq

(* The members chosen, each as often as it was there.                      *)
OnceIn(s) == \A i, j \in 1 .. Len(s) : s[i] = s[j] => i = j
LEMMA ChosenOnce ==
    \A T, S : \A s \in Seq(T) :
        /\ ToSet(Chosen(s, S)) = ToSet(s) \cap S
        /\ OnceIn(s) => OnceIn(Chosen(s, S))
  <1> TAKE T, S
  <1> DEFINE Good(s) == /\ ToSet(Chosen(s, S)) = ToSet(s) \cap S
                        /\ OnceIn(s) => OnceIn(Chosen(s, S))
             P == {s \in Seq(T) : Good(s)}
  <1>1. <<>> \in P
    <2>1. <<>> \in Seq(T) /\ Chosen(<<>>, S) = <<>>
      BY ChosenNone
    <2>2. ToSet(<<>>) = {}
      BY NoSeq DEF ToSet
    <2> QED BY <2>1, <2>2
  <1>2. ASSUME NEW s \in Seq(T), NEW x \in T, s \in P PROVE Append(s, x) \in P
    <2> DEFINE a == Append(s, x)
    <2>1. Append(s, x) \in Seq(T)
      BY AppendProperties
    <2>2. Chosen(a, S) = IF x \in S THEN Append(Chosen(s, S), x) ELSE Chosen(s, S)
      BY SeqOfAny, ChosenAppend
    <2>3. Good(s) /\ IsSeq(s) /\ IsSeq(Chosen(s, S))
      BY <1>2, SeqOfAny, ChosenIsSeq
    <2>4. ASSUME NEW q, IsSeq(q)
          PROVE  /\ ToSet(Append(q, x)) = ToSet(q) \cup {x}
                 /\ OnceIn(Append(q, x)) <=> OnceIn(q) /\ x \notin ToSet(q)
      <3> DEFINE b == Append(q, x)
                 n == Len(q)
      <3>1. /\ IsSeq(b) /\ Len(b) = n + 1 /\ n \in Nat
            /\ \A i \in 1 .. n : b[i] = q[i]
            /\ b[n + 1] = x
        BY <2>4, AppendSeq, SeqFacts
      <3>2. DOMAIN q = 1 .. n
        BY <2>4, SeqFacts
      <3> HIDE DEF b
      <3>3. DOMAIN b = 1 .. n + 1
        BY <3>1, SeqFacts
      <3> HIDE DEF n
      <3>4. \A i \in 1 .. n + 1 : i \in 1 .. n \/ i = n + 1
        BY <3>1
      <3>5. \A i \in 1 .. n : i \in 1 .. n + 1 /\ i # n + 1
        BY <3>1
      <3>6. n + 1 \in 1 .. n + 1
        BY <3>1
      <3>7. ToSet(b) = ToSet(q) \cup {x}
        BY <3>1, <3>2, <3>3, <3>4, <3>5, <3>6 DEF ToSet
      <3>8. OnceIn(b) => OnceIn(q) /\ x \notin ToSet(q)
        BY <3>1, <3>2, <3>3, <3>4, <3>5, <3>6 DEF ToSet, OnceIn, n
      <3>9. OnceIn(q) /\ x \notin ToSet(q) => OnceIn(b)
        BY <3>1, <3>2, <3>3, <3>4, <3>5, <3>6 DEF ToSet, OnceIn, n
      <3> QED BY <3>7, <3>8, <3>9 DEF b
    <2>5. Good(a)
      <3>1. CASE x \in S
        BY <2>2, <2>3, <2>4, <3>1
      <3>2. CASE x \notin S
        BY <2>2, <2>3, <2>4, <3>2
      <3> QED BY <3>1, <3>2
    <2> HIDE DEF Good
    <2> QED BY <2>1, <2>5
  <1>3. \A s \in Seq(T) : s \in P
    <2> HIDE DEF P
    <2> QED BY <1>1, <1>2, ListInduction
  <1> QED BY <1>3

-----------------------------------------------------------------------------
(* What is left of a line without its id. *)
LEMMA StripFacts ==
    ASSUME NEW s, IsSeq(s)
    PROVE  /\ IsSeq(Strip(s)) /\ Len(Strip(s)) = Len(s)
           /\ \A k \in 1 .. Len(s) : Strip(s)[k] = [example |-> s[k].example, size |-> s[k].size]
  <1> DEFINE T == {[example |-> s[k].example, size |-> s[k].size] : k \in 1 .. Len(s)}
  <1>1. Len(s) \in Nat /\ DOMAIN s = 1 .. Len(s)
    BY SeqFacts
  <1>2. Strip(s) = [k \in 1 .. Len(s) |-> [example |-> s[k].example, size |-> s[k].size]]
    BY <1>1 DEF Strip
  <1>3. \A k \in 1 .. Len(s) : Strip(s)[k] \in T
    BY <1>2
  <1> HIDE DEF T
  <1>4. Strip(s) \in Seq(T) /\ Len(Strip(s)) = Len(s)
    BY <1>1, <1>2, <1>3
  <1> QED BY <1>2, <1>4, SeqOfAny

LEMMA StripNone == Strip(<<>>) = <<>>
  BY StripFacts, NoSeq

LEMMA StripAppend ==
    ASSUME NEW s, IsSeq(s), NEW r
    PROVE  Strip(Append(s, r)) = Append(Strip(s), [example |-> r.example, size |-> r.size])
  <1> DEFINE a == Append(s, r)
             q == [example |-> r.example, size |-> r.size]
             b == Append(Strip(s), q)
             n == Len(s)
  <1>1. /\ IsSeq(a) /\ Len(a) = n + 1 /\ n \in Nat
        /\ \A i \in 1 .. n : a[i] = s[i]
        /\ a[n + 1] = r
    BY AppendSeq, SeqFacts
  <1>2. /\ IsSeq(Strip(s)) /\ Len(Strip(s)) = n
        /\ \A k \in 1 .. n : Strip(s)[k] = [example |-> s[k].example, size |-> s[k].size]
    BY StripFacts
  <1>3. /\ IsSeq(b) /\ Len(b) = n + 1
        /\ \A i \in 1 .. n : b[i] = Strip(s)[i]
        /\ b[n + 1] = q
    BY <1>2, AppendSeq
  <1> HIDE DEF a, b
  <1>4. /\ IsSeq(Strip(a)) /\ Len(Strip(a)) = n + 1
        /\ \A k \in 1 .. n + 1 : Strip(a)[k] = [example |-> a[k].example, size |-> a[k].size]
    BY <1>1, StripFacts
  <1>5. ASSUME NEW i \in 1 .. n + 1 PROVE Strip(a)[i] = b[i]
    <2>1. CASE i \in 1 .. n
      BY <1>1, <1>2, <1>3, <1>4, <2>1
    <2>2. CASE i = n + 1
      BY <1>1, <1>3, <1>4, <2>2
    <2> QED BY <1>1, <2>1, <2>2
  <1>6. Strip(a) = b
    BY <1>3, <1>4, <1>5, SameSeq
  <1> QED BY <1>6 DEF a, b

(* A line of command c or an earlier one, with the counter at n.           *)
LineOK(r, c, n) ==
    /\ r.command \in Nat /\ r.command <= c /\ r.doc_id \in Nat
    /\ r.command = c => r.doc_id < n

Distinct(r, q) == r.doc_id = q.doc_id => r.command # q.command

SeqOK(s, c, n) ==
    /\ IsSeq(s)
    /\ \A k \in DOMAIN s : LineOK(s[k], c, n)
    /\ \A k, l \in DOMAIN s : k # l => Distinct(s[k], s[l])

Apart(s, t) == \A k \in DOMAIN s, l \in DOMAIN t : Distinct(s[k], t[l])

AllBundled == UNION {BundledFiles[e] : e \in DOMAIN BundledFiles}

(* A bundled line is found in no other file than its own.                  *)
DirOK(d, c, n) ==
    /\ \A f \in DOMAIN d : SeqOK(d[f], c, n)
    /\ \A f, g \in DOMAIN d : f # g => Apart(d[f], d[g])
    /\ \A f \in DOMAIN d, b \in AllBundled : f # b.file => Apart(d[f], b.lines)

-----------------------------------------------------------------------------
(* Sequences of lines. *)

LEMMA ConcatOK ==
    ASSUME NEW c, NEW n, NEW s, NEW t, SeqOK(s, c, n), SeqOK(t, c, n), Apart(s, t)
    PROVE  /\ SeqOK(s \o t, c, n)
           /\ \A u : Apart(s, u) /\ Apart(t, u) => Apart(s \o t, u)
  <1> DEFINE S == ToSet(s) \cup ToSet(t)
  <1>1. s \in Seq(S) /\ t \in Seq(S)
    BY SeqMonotonic DEF SeqOK, IsSeq
  <1> HIDE DEF S
  <1>2. /\ s \o t \in Seq(S)
        /\ Len(s \o t) = Len(s) + Len(t)
        /\ \A i \in 1 .. Len(s) + Len(t) :
              (s \o t)[i] = IF i <= Len(s) THEN s[i] ELSE t[i - Len(s)]
    BY <1>1, ConcatProperties
  <1>3. /\ DOMAIN s = 1 .. Len(s) /\ DOMAIN t = 1 .. Len(t)
        /\ Len(s) \in Nat /\ Len(t) \in Nat
        /\ DOMAIN (s \o t) = 1 .. Len(s) + Len(t)
    BY <1>1, <1>2, LenProperties
  <1> DEFINE st == s \o t
  <1>4. \A i \in DOMAIN st :
           \/ i \in DOMAIN s /\ st[i] = s[i]
           \/ i - Len(s) \in DOMAIN t /\ st[i] = t[i - Len(s)]
    BY <1>2, <1>3
  <1>5. IsSeq(st)
    BY <1>2, SeqOfAny
  <1>6. \A i, j \in DOMAIN st : i \in Nat /\ j \in Nat
    BY <1>3
  <1> HIDE DEF st
  <1>7. \A i \in DOMAIN st : LineOK(st[i], c, n)
    BY <1>4 DEF SeqOK
  <1>8. ASSUME NEW i \in DOMAIN st, NEW j \in DOMAIN st, i # j
        PROVE  Distinct(st[i], st[j])
    <2>1. CASE i \in DOMAIN s /\ st[i] = s[i] /\ j \in DOMAIN s /\ st[j] = s[j]
      BY <1>8, <2>1 DEF SeqOK
    <2>2. CASE i - Len(s) \in DOMAIN t /\ st[i] = t[i - Len(s)]
               /\ j - Len(s) \in DOMAIN t /\ st[j] = t[j - Len(s)]
      <3>1. i - Len(s) # j - Len(s)
        BY <1>3, <1>6, <1>8
      <3> QED BY <2>2, <3>1 DEF SeqOK
    <2>3. CASE i \in DOMAIN s /\ st[i] = s[i]
               /\ j - Len(s) \in DOMAIN t /\ st[j] = t[j - Len(s)]
      BY <2>3 DEF Apart
    <2>4. CASE i - Len(s) \in DOMAIN t /\ st[i] = t[i - Len(s)]
               /\ j \in DOMAIN s /\ st[j] = s[j]
      BY <2>4 DEF Apart, Distinct
    <2> QED BY <1>4, <1>8, <2>1, <2>2, <2>3, <2>4
  <1>9. \A u : Apart(s, u) /\ Apart(t, u) => Apart(st, u)
    BY <1>4 DEF Apart
  <1> QED BY <1>5, <1>7, <1>8, <1>9 DEF SeqOK, st

LEMMA SubSeqOK ==
    ASSUME NEW c, NEW n, NEW s, SeqOK(s, c, n), NEW m \in 0 .. Len(s)
    PROVE  /\ SeqOK(SubSeq(s, 1, m), c, n)
           /\ \A t : Apart(s, t) => Apart(SubSeq(s, 1, m), t)
           /\ \A t : Apart(t, s) => Apart(t, SubSeq(s, 1, m))
  <1> DEFINE p == SubSeq(s, 1, m)
  <1>1. Len(s) \in Nat /\ DOMAIN s = 1 .. Len(s) /\ m \in Nat
        /\ \A i \in 1 .. m : s[i] \in ToSet(s)
    BY SeqFacts DEF SeqOK
  <1>2. p \in Seq(ToSet(s)) /\ Len(p) = m /\ \A i \in 1 .. m : p[i] = s[i]
    BY <1>1, SubSeqProperties
  <1>3. IsSeq(p) /\ DOMAIN p = 1 .. m
    BY <1>2, SeqOfAny, LenProperties
  <1>4. \A i \in DOMAIN p : i \in DOMAIN s /\ p[i] = s[i]
    BY <1>1, <1>2, <1>3
  <1> HIDE DEF p
  <1>5. SeqOK(p, c, n)
    BY <1>3, <1>4 DEF SeqOK
  <1>6. \A t : (Apart(s, t) => Apart(p, t)) /\ (Apart(t, s) => Apart(t, p))
    BY <1>4 DEF Apart
  <1> QED BY <1>5, <1>6 DEF p

(* The next record of a command, with the counter as its id.               *)
LEMMA AppendOK ==
    ASSUME NEW c \in Nat, NEW n \in Nat, NEW s, SeqOK(s, c, n),
           NEW r, r.command = c, r.doc_id = n
    PROVE  /\ SeqOK(Append(s, r), c, n + 1)
           /\ \A t : Apart(s, t) /\ SeqOK(t, c, n) => Apart(Append(s, r), t)
  <1> DEFINE a == Append(s, r)
             S == ToSet(s) \cup {r}
  <1>1. s \in Seq(S) /\ r \in S
    BY SeqMonotonic DEF SeqOK, IsSeq
  <1> HIDE DEF S
  <1>2. /\ a \in Seq(S) /\ Len(a) = Len(s) + 1
        /\ \A i \in 1 .. Len(s) : a[i] = s[i]
        /\ a[Len(s) + 1] = r
    BY <1>1, AppendProperties
  <1>3. IsSeq(a) /\ DOMAIN a = 1 .. Len(s) + 1 /\ DOMAIN s = 1 .. Len(s) /\ Len(s) \in Nat
    BY <1>1, <1>2, SeqOfAny, LenProperties
  <1> HIDE DEF a
  <1>4. \A i \in DOMAIN a : (i \in DOMAIN s /\ a[i] = s[i]) \/ (i = Len(s) + 1 /\ a[i] = r)
    BY <1>2, <1>3
  <1>5. \A i \in DOMAIN a : LineOK(a[i], c, n + 1)
    <2>1. LineOK(r, c, n + 1)
      BY DEF LineOK
    <2>2. \A q : LineOK(q, c, n) => LineOK(q, c, n + 1)
      BY DEF LineOK
    <2> QED BY <1>4, <2>1, <2>2 DEF SeqOK
  <1>6. ASSUME NEW q, LineOK(q, c, n)
        PROVE  Distinct(r, q) /\ Distinct(q, r)
    BY <1>6 DEF LineOK, Distinct
  <1>7. \A i, j \in DOMAIN a : i # j => Distinct(a[i], a[j])
    BY <1>4, <1>6 DEF SeqOK
  <1>8. \A t : Apart(s, t) /\ SeqOK(t, c, n) => Apart(a, t)
    BY <1>4, <1>6 DEF Apart, SeqOK
  <1> QED BY <1>3, <1>5, <1>7, <1>8 DEF SeqOK, a

LEMMA Later ==
    ASSUME NEW c \in Nat, NEW n \in Nat, NEW b \in Nat, NEW m \in Nat,
           c < b \/ (c = b /\ n <= m)
    PROVE  /\ \A s : SeqOK(s, c, n) => SeqOK(s, b, m)
           /\ \A d : DirOK(d, c, n) => DirOK(d, b, m)
  <1>1. \A r : LineOK(r, c, n) => LineOK(r, b, m)
    BY DEF LineOK
  <1>2. \A s : SeqOK(s, c, n) => SeqOK(s, b, m)
    BY <1>1 DEF SeqOK
  <1> QED BY <1>2 DEF DirOK

LEMMA WithOK ==
    ASSUME NEW c, NEW n, NEW d, DirOK(d, c, n), NEW f, NEW s, SeqOK(s, c, n),
           \A g \in DOMAIN d \ {f} : Apart(s, d[g]),
           \A b \in AllBundled : f # b.file => Apart(s, b.lines)
    PROVE  DirOK(With(d, f, s), c, n)
  <1> DEFINE w == With(d, f, s)
  <1>1. DOMAIN w = DOMAIN d \cup {f} /\ w[f] = s
        /\ \A g \in DOMAIN d \ {f} : w[g] = d[g]
    BY DEF With
  <1> HIDE DEF w
  <1>2. \A g \in DOMAIN w : SeqOK(w[g], c, n)
    BY <1>1 DEF DirOK
  <1>3. \A g, h \in DOMAIN w : g # h => Apart(w[g], w[h])
    BY <1>1 DEF DirOK, Apart, Distinct
  <1>4. \A g \in DOMAIN w, b \in AllBundled : g # b.file => Apart(w[g], b.lines)
    BY <1>1 DEF DirOK
  <1> QED BY <1>2, <1>3, <1>4 DEF DirOK, w

LEMMA EmptyOK == \A c, n, t : SeqOK(<<>>, c, n) /\ Apart(<<>>, t) /\ Apart(t, <<>>)
  BY DEF SeqOK, Apart, IsSeq

-----------------------------------------------------------------------------
(* The writer. *)

Fields == {"suite", "split", "chunk", "size", "buffer"}
Shaped(x) ==
    /\ x = [i \in {"dir", "writer"} |-> x[i]]
    /\ x.writer = [i \in Fields |-> x.writer[i]]

(* What is on the disk and in the buffer, together.                        *)
FilesOK(x, c, n) ==
    /\ Shaped(x)
    /\ DirOK(x.dir, c, n)
    /\ SeqOK(x.writer.buffer, c, n)
    /\ \A f \in DOMAIN x.dir : Apart(x.writer.buffer, x.dir[f])
    /\ \A b \in AllBundled : Apart(x.writer.buffer, b.lines)
    /\ Opened(x.writer) => Chunk(x.writer) \in DOMAIN x.dir

LEMMA FlushOK ==
    ASSUME NEW c, NEW n, NEW x, FilesOK(x, c, n)
    PROVE  FilesOK(Flush(x), c, n)
  <1>1. CASE ~Opened(x.writer)
    BY <1>1 DEF Flush
  <1>2. CASE Opened(x.writer)
    <2> DEFINE w == x.writer
               v == [w EXCEPT !.buffer = <<>>]
               f == Chunk(w)
               s == x.dir[f] \o w.buffer
               y == Flush(x)
    <2>1. y.dir = With(x.dir, f, s) /\ y.writer = v /\ y = [i \in {"dir", "writer"} |-> y[i]]
      BY <1>2 DEF Flush
    <2>2. v = [i \in Fields |-> v[i]] /\ v.buffer = <<>> /\ Chunk(v) = f
      BY DEF FilesOK, Shaped, Fields, Chunk
    <2>3. f \in DOMAIN x.dir
      BY <1>2 DEF FilesOK
    <2>4. SeqOK(x.dir[f], c, n) /\ SeqOK(w.buffer, c, n) /\ Apart(x.dir[f], w.buffer)
      BY <2>3 DEF FilesOK, DirOK, Apart, Distinct
    <2>5. SeqOK(s, c, n) /\ \A g \in DOMAIN x.dir \ {f} : Apart(s, x.dir[g])
      <3>1. \A g \in DOMAIN x.dir \ {f} : Apart(x.dir[f], x.dir[g]) /\ Apart(w.buffer, x.dir[g])
        BY <2>3 DEF FilesOK, DirOK
      <3> QED BY <2>4, <3>1, ConcatOK
    <2>6. DirOK(With(x.dir, f, s), c, n)
      <3>1. \A b \in AllBundled : f # b.file => Apart(s, b.lines)
        BY <2>3, <2>4, ConcatOK DEF FilesOK, DirOK
      <3> QED BY <2>5, <3>1, WithOK DEF FilesOK
    <2>7. f \in DOMAIN With(x.dir, f, s)
      BY DEF With
    <2> HIDE DEF y, v, f, s
    <2> QED BY <2>1, <2>2, <2>6, <2>7, EmptyOK DEF FilesOK, Shaped, y
  <1> QED BY <1>1, <1>2

LEMMA StartNewChunkOK ==
    ASSUME NEW c, NEW n, NEW x, FilesOK(x, c, n)
    PROVE  FilesOK(StartNewChunk(x), c, n)
  <1> DEFINE y == Flush(x)
             w == [y.writer EXCEPT !.chunk = @ + 1, !.size = 0]
             z == StartNewChunk(x)
  <1>1. FilesOK(y, c, n)
    BY FlushOK
  <1>2. z.dir = With(y.dir, Chunk(w), <<>>) /\ z.writer = w
        /\ z = [i \in {"dir", "writer"} |-> z[i]]
    BY DEF StartNewChunk
  <1> HIDE DEF y, z
  <1>3. w = [i \in Fields |-> w[i]] /\ w.buffer = y.writer.buffer
    BY <1>1 DEF FilesOK, Shaped, Fields
  <1> HIDE DEF w
  <1>4. DirOK(z.dir, c, n)
    BY <1>1, <1>2, WithOK, EmptyOK DEF FilesOK
  <1>5. DOMAIN z.dir = DOMAIN y.dir \cup {Chunk(w)}
        /\ \A f \in DOMAIN z.dir : \/ z.dir[f] = y.dir[f] /\ f \in DOMAIN y.dir
                                 \/ z.dir[f] = <<>>
    BY <1>2 DEF With
  <1> QED BY <1>1, <1>2, <1>3, <1>4, <1>5, EmptyOK DEF FilesOK, Shaped, z

LEMMA BundledOK ==
    ASSUME NEW c \in Nat \ {0}, NEW n, NEW b \in AllBundled
    PROVE  SeqOK(b.lines, c, n)
  BY BundledAssumption DEF AllBundled, SeqOK, IsSeq, LineOK, Distinct

LEMMA WriteOK ==
    ASSUME NEW c \in Nat \ {0}, NEW n \in Nat, NEW x, FilesOK(x, c, n),
           NEW r, r.command = c, r.doc_id = n
    PROVE  FilesOK(Write(x, r), c, n + 1)
  <1> DEFINE y == IF x.writer.size + r.size > ChunkSize \/ ~Opened(x.writer)
                    THEN StartNewChunk(x) ELSE x
             z == [y EXCEPT !.writer.buffer = Append(@, r), !.writer.size = @ + r.size]
  <1>1. Write(x, r) = IF Len(z.writer.buffer) >= FlushAt THEN Flush(z) ELSE z
    BY DEF Write
  <1>2. FilesOK(y, c, n)
    BY StartNewChunkOK
  <1> HIDE DEF y
  <1>3. Shaped(z) /\ z.dir = y.dir /\ z.writer.buffer = Append(y.writer.buffer, r)
        /\ Chunk(z.writer) = Chunk(y.writer) /\ z.writer.chunk = y.writer.chunk
    BY <1>2 DEF FilesOK, Shaped, Fields, Chunk
  <1> HIDE DEF z
  <1>4. SeqOK(z.writer.buffer, c, n + 1)
    BY <1>2, <1>3, AppendOK DEF FilesOK
  <1>5. \A f \in DOMAIN z.dir : Apart(z.writer.buffer, z.dir[f])
    BY <1>2, <1>3, AppendOK DEF FilesOK, DirOK
  <1>6. DirOK(z.dir, c, n + 1)
    BY <1>2, <1>3, Later DEF FilesOK
  <1>7. \A b \in AllBundled : Apart(z.writer.buffer, b.lines)
    <2>1. SeqOK(y.writer.buffer, c, n)
      BY <1>2 DEF FilesOK
    <2>2. \A t : Apart(y.writer.buffer, t) /\ SeqOK(t, c, n) => Apart(z.writer.buffer, t)
      BY <1>3, <2>1, AppendOK
    <2> QED BY <1>2, <2>2, BundledOK DEF FilesOK
  <1>8. FilesOK(z, c, n + 1)
    BY <1>2, <1>3, <1>4, <1>5, <1>6, <1>7 DEF FilesOK, Opened
  <1> QED BY <1>1, <1>8, FlushOK

-----------------------------------------------------------------------------
(* The commands. *)

IdInv ==
    /\ command \in Nat /\ counter \in Nat
    /\ DirOK(dir, command, counter)
    /\ writer = [i \in Fields |-> writer[i]]
    /\ pc = "record" => FilesOK(Files, command, counter)
    /\ pc = "copy" => copies \subseteq AllBundled
    /\ pc # "idle" => command # 0

LEMMA IdInit == Init => IdInv
  BY DEF Init, IdInv, DirOK, NewWriter, Fields

(* A step that leaves the disk and the writer as they are. *)
LEMMA IdleStep ==
    ASSUME IdInv, UNCHANGED <<dir, command, counter, writer>>,
           pc # "record" => pc' # "record",
           pc' = "copy" => copies' \subseteq AllBundled,
           pc = "idle" => pc' = "idle"
    PROVE  IdInv'
  BY DEF IdInv, Files

LEMMA IdStep == IdInv /\ [Next]_vars => IdInv'
  <1> SUFFICES ASSUME IdInv, [Next]_vars PROVE IdInv'
    OBVIOUS
  <1>1. ASSUME StartDownload \/ StartEval
        PROVE  IdInv'
    <2>1. /\ command' = command + 1 /\ counter' = 1 /\ UNCHANGED <<dir, writer>>
          /\ pc' \in {"clear", "suite", "idle"}
      BY <1>1 DEF StartDownload, StartEval, Begin
    <2>2. DirOK(dir, command + 1, 1)
      <3>1. /\ command \in Nat /\ counter \in Nat /\ command + 1 \in Nat /\ 1 \in Nat
            /\ command < command + 1 /\ DirOK(dir, command, counter)
        BY DEF IdInv
      <3>2. \A d : DirOK(d, command, counter) => DirOK(d, command + 1, 1)
        BY <3>1, Later
      <3> QED BY <3>1, <3>2
    <2> QED BY <2>1, <2>2 DEF IdInv
  <1>2. ASSUME EditConfig \/ NextSuite \/ Load \/ LoadFails \/ SkipEntry
        PROVE  IdInv'
    <2>1. UNCHANGED <<dir, command, counter, writer>>
      BY <1>2 DEF EditConfig, NextSuite, Load, LoadFails, SkipEntry
    <2>2. /\ pc # "record" => pc' # "record"
          /\ pc = "idle" => pc' = "idle"
      BY <1>2 DEF EditConfig, NextSuite, Load, LoadFails, SkipEntry
    <2>3. pc' = "copy" => copies' \subseteq AllBundled
      BY <1>2 DEF EditConfig, NextSuite, Load, LoadFails, SkipEntry, Bundled, AllBundled, IdInv,
         place
    <2> QED BY <2>1, <2>2, <2>3, IdleStep
  <1>3. ASSUME Clear
        PROVE  IdInv'
    BY <1>3 DEF Clear, IdInv, DirOK
  <1>4. ASSUME Copy
        PROVE  IdInv'
    <2>1. CASE copies = {}
      BY <1>4, <2>1, IdleStep DEF Copy
    <2>2. CASE copies # {}
      <3>1. PICK f \in copies : dir' = With(dir, f.file, f.lines) /\ copies' = copies \ {f}
        BY <1>4, <2>2 DEF Copy
      <3>2. /\ pc = "copy" /\ UNCHANGED <<pc, counter, writer, command>>
            /\ f \in AllBundled /\ command \in Nat \ {0}
        BY <1>4, <2>2, <3>1 DEF Copy, IdInv
      <3>3. \A g \in DOMAIN dir \ {f.file} : Apart(f.lines, dir[g])
        BY <3>2 DEF IdInv, DirOK, Apart, Distinct
      <3>4. \A b \in AllBundled : f.file # b.file => Apart(f.lines, b.lines)
        BY <3>2, BundledAssumption DEF AllBundled, Apart, Distinct
      <3>5. DirOK(dir', command, counter)
        BY <3>1, <3>2, <3>3, <3>4, BundledOK, WithOK DEF IdInv
      <3> QED BY <3>1, <3>2, <3>5 DEF IdInv
    <2> QED BY <2>1, <2>2
  <1>5. ASSUME NextSplit
        PROVE  IdInv'
    <2>1. pc = "split" /\ UNCHANGED <<dir, command, counter>>
      BY <1>5 DEF NextSplit
    <2>2. CASE pc' # "record"
      <3>1. UNCHANGED writer /\ pc' # "copy"
        BY <1>5, <2>1, <2>2 DEF NextSplit
      <3> QED BY <2>1, <2>2, <3>1, IdleStep
    <2>3. CASE pc' = "record"
      <3>1. writer' = NewWriter(Suite, Head(splits))
        BY <1>5, <2>1, <2>3 DEF NextSplit
      <3>2. /\ writer' = [i \in Fields |-> writer'[i]]
            /\ writer'.buffer = <<>> /\ writer'.chunk = 0
        BY <3>1 DEF NewWriter, Fields
      <3>3. FilesOK([dir |-> dir, writer |-> writer'], command, counter)
        BY <3>2, EmptyOK DEF FilesOK, Shaped, Opened, IdInv
      <3> QED BY <2>1, <2>3, <3>2, <3>3 DEF IdInv, Files
    <2> QED BY <2>2, <2>3
  <1>6. ASSUME WriteRecord
        PROVE  IdInv'
    <2> DEFINE r == [suite |-> Suite, split |-> Head(splits), example |-> Head(rest).example,
                     size |-> Head(rest).size, doc_id |-> counter, command |-> command]
               x == Write(Files, r)
    <2>1. /\ pc = "record" /\ dir' = x.dir /\ writer' = x.writer
          /\ counter' = counter + 1 /\ UNCHANGED <<pc, command>>
      BY <1>6 DEF WriteRecord, Become
    <2>2. FilesOK(x, command, counter + 1)
      BY <2>1, WriteOK DEF IdInv
    <2> HIDE DEF x
    <2>3. x = [dir |-> x.dir, writer |-> x.writer]
      BY <2>2 DEF FilesOK, Shaped
    <2> QED BY <2>1, <2>2, <2>3 DEF IdInv, Files, FilesOK, Shaped
  <1>7. ASSUME EndSplit \/ (Raise /\ pc = "record")
        PROVE  IdInv'
    <2> DEFINE x == Flush(Files)
    <2>1. /\ pc = "record" /\ dir' = x.dir /\ writer' = x.writer
          /\ pc' \in {"split", "idle"} /\ UNCHANGED <<counter, command>>
      BY <1>7 DEF EndSplit, Raise, Become, Close
    <2>2. FilesOK(x, command, counter)
      BY <2>1, FlushOK DEF IdInv
    <2> QED BY <2>1, <2>2 DEF IdInv, FilesOK, Shaped
  <1>8. ASSUME Raise, pc # "record"
        PROVE  IdInv'
    BY <1>8, IdleStep DEF Raise
  <1>9. ASSUME Kill
        PROVE  IdInv'
    <2>1. dir' \in Partial /\ pc' = "idle" /\ UNCHANGED <<counter, writer, command>> /\ pc # "idle"
      BY <1>9 DEF Kill
    <2>2. DirOK(dir', command, counter)
      <3>1. CASE pc = "clear"
        <4>1. PICK keep \in SUBSET DOMAIN dir : dir' = [f \in keep |-> dir[f]]
          BY <2>1, <3>1 DEF Partial
        <4> QED BY <4>1 DEF IdInv, DirOK
      <3>2. CASE pc = "copy" /\ dir' # dir
        <4>a. PICK f \in copies : \E n \in 0 .. Len(f.lines) :
                dir' = With(dir, f.file, SubSeq(f.lines, 1, n))
          BY <2>1, <3>2 DEF Partial
        <4>1. PICK n \in 0 .. Len(f.lines) : dir' = With(dir, f.file, SubSeq(f.lines, 1, n))
          BY <4>a
        <4>2. f \in AllBundled /\ command \in Nat \ {0}
          BY <3>2 DEF IdInv
        <4>3. /\ SeqOK(f.lines, command, counter)
              /\ \A g \in DOMAIN dir \ {f.file} : Apart(f.lines, dir[g])
              /\ \A b \in AllBundled : f.file # b.file => Apart(f.lines, b.lines)
          <5>1. SeqOK(f.lines, command, counter)
            BY <4>2, BundledOK
          <5>2. \A g \in DOMAIN dir \ {f.file} : Apart(f.lines, dir[g])
            BY <4>2 DEF IdInv, DirOK, Apart, Distinct
          <5>3. \A b \in AllBundled : f.file # b.file => Apart(f.lines, b.lines)
            BY <4>2, BundledAssumption DEF AllBundled, Apart, Distinct
          <5> QED BY <5>1, <5>2, <5>3
        <4> QED BY <4>1, <4>3, SubSeqOK, WithOK DEF IdInv
      <3>3. CASE pc = "record" /\ Opened(writer)
        <4> DEFINE f == Chunk(writer)
        <4>1. PICK n \in 0 .. Len(dir[f]) : dir' = With(dir, f, SubSeq(dir[f], 1, n))
          BY <2>1, <3>3 DEF Partial
        <4>2. f \in DOMAIN dir
          BY <3>3 DEF IdInv, FilesOK, Files
        <4>3. /\ SeqOK(dir[f], command, counter)
              /\ \A g \in DOMAIN dir \ {f} : Apart(dir[f], dir[g])
              /\ \A b \in AllBundled : f # b.file => Apart(dir[f], b.lines)
          BY <4>2 DEF IdInv, DirOK
        <4> HIDE DEF f
        <4> QED BY <4>1, <4>3, SubSeqOK, WithOK DEF IdInv
      <3>4. CASE dir' = dir
        BY <3>4 DEF IdInv
      <3>5. pc = "clear" \/ pc = "copy" \/ (pc = "record" /\ Opened(writer)) \/ dir' = dir
        BY <2>1 DEF Partial
      <3> QED BY <3>1, <3>2, <3>3, <3>4, <3>5
    <2> QED BY <2>1, <2>2 DEF IdInv
  <1>10. CASE UNCHANGED vars
    BY <1>10, IdleStep DEF vars, place, IdInv
  <1> QED
    BY <1>1, <1>2, <1>3, <1>4, <1>5, <1>6, <1>7, <1>8, <1>9, <1>10 DEF Next

(* One command gives no document id twice, whatever suites it goes through, *)
(* wherever chunks and buffers end, and whatever was killed or raised       *)
(* before: document_id_counter of evals.py is enough to tell its lines      *)
(* apart.                                                                   *)
THEOREM IdsUniqueHolds == Spec => []IdsUnique
  <1>1. IdInv => IdsUnique
    <2> SUFFICES ASSUME IdInv, NEW p \in Records, NEW q \in Records, p # q
                 PROVE  Distinct(Line(p), Line(q))
      BY DEF IdsUnique, Distinct
    <2>1. PICK f, k : f \in DOMAIN dir /\ k \in DOMAIN dir[f] /\ p = <<f, k>>
      BY DEF Records
    <2>2. PICK g, l : g \in DOMAIN dir /\ l \in DOMAIN dir[g] /\ q = <<g, l>>
      BY DEF Records
    <2>3. Line(p) = dir[f][k] /\ Line(q) = dir[g][l]
      BY <2>1, <2>2 DEF Line
    <2>4. CASE f = g
      BY <2>1, <2>2, <2>3, <2>4 DEF IdInv, DirOK, SeqOK
    <2>5. CASE f # g
      <3>1. Apart(dir[f], dir[g])
        BY <2>1, <2>2, <2>5 DEF IdInv, DirOK
      <3> QED BY <2>1, <2>2, <2>3, <3>1 DEF Apart
    <2> QED BY <2>4, <2>5
  <1> QED BY <1>1, IdInit, IdStep, PTL DEF Spec

-----------------------------------------------------------------------------
(* Files of lines. *)

FileOf(e, s, n) == [suite |-> e, split |-> s, number |-> n]
AllOf(lines, c) == \A k \in DOMAIN lines : lines[k].command = c
NoneOf(lines, c) == \A k \in DOMAIN lines : lines[k].command # c
Home(lines, e) == \A k \in DOMAIN lines : lines[k].suite = e /\ lines[k].size \in Nat
Fits(lines) == Len(lines) > 1 => Bytes(lines) <= ChunkSize
FileFits(lines, e) == IsSeq(lines) /\ Home(lines, e) /\ Fits(lines)

(* In every state, whatever was killed: lines of its suite, and not too many. *)
DirFits(d) == IsFiniteSet(DOMAIN d) /\ \A f \in DOMAIN d : FileFits(d[f], f.suite)

(* Command c has begun the chunks 1 to n of a split and no others, and     *)
(* what is in them.                                                        *)
Begun(d, c, e, s, n) ==
    /\ \A m \in 1 .. n : FileOf(e, s, m) \in DOMAIN d /\ AllOf(d[FileOf(e, s, m)], c)
    /\ \A f \in DOMAIN d :
          f = FileOf(e, s, f.number) /\ f.number \notin 1 .. n => NoneOf(d[f], c)
Chunks(d, e, s, n) == [m \in 1 .. n |-> d[FileOf(e, s, m)]]
Written(d, e, s, n) == FlattenSeq(Chunks(d, e, s, n))

(* A writer that was given G: the lines of its chunks and its buffer are   *)
(* G, those of the last chunk have size bytes.                             *)
LastChunk(x) == x.dir[Chunk(x.writer)] \o x.writer.buffer
Given(x, c, G) ==
    LET w == x.writer
    IN  /\ Shaped(x) /\ w.chunk \in Nat /\ w.size \in Nat /\ IsSeq(w.buffer)
        /\ DirFits(x.dir) /\ Begun(x.dir, c, w.suite, w.split, w.chunk)
        /\ AllOf(w.buffer, c) /\ Home(w.buffer, w.suite)
        /\ ~Opened(w) => w.buffer = <<>> /\ G = <<>>
        /\ Opened(w) =>
             /\ Bytes(LastChunk(x)) = w.size /\ Fits(LastChunk(x))
             /\ Strip(Written(x.dir, w.suite, w.split, w.chunk) \o w.buffer) = G

(* Two directories that differ in the chunks 1 to n of a split only.       *)
SameBut(d, d2, e, s, n) ==
    \A f : f \notin {FileOf(e, s, m) : m \in 1 .. n} =>
             (f \in DOMAIN d2 <=> f \in DOMAIN d) /\ (f \in DOMAIN d => d2[f] = d[f])
SameWriter(x, y) == y.writer.suite = x.writer.suite /\ y.writer.split = x.writer.split

-----------------------------------------------------------------------------
LEMMA NoLines ==
    /\ \A c : AllOf(<<>>, c) /\ NoneOf(<<>>, c)
    /\ \A e : FileFits(<<>>, e) /\ Home(<<>>, e)
    /\ Fits(<<>>) /\ Sized(<<>>)
  <1>1. DOMAIN <<>> = {} /\ Len(<<>>) = 0 /\ IsSeq(<<>>)
    BY NoSeq
  <1>2. Fits(<<>>)
    BY <1>1 DEF Fits
  <1> QED BY <1>1, <1>2 DEF AllOf, NoneOf, Home, FileFits, Sized

LEMMA HomeSized == \A s, e : Home(s, e) => Sized(s)
  BY DEF Home, Sized

LEMMA ConcatHas ==
    ASSUME NEW s, NEW t, IsSeq(s), IsSeq(t)
    PROVE  /\ \A c : AllOf(s, c) /\ AllOf(t, c) => AllOf(s \o t, c)
           /\ \A e : Home(s, e) /\ Home(t, e) => Home(s \o t, e)
  <1> DEFINE u == s \o t
  <1>1. /\ IsSeq(u) /\ Len(u) = Len(s) + Len(t)
        /\ \A i \in 1 .. Len(s) + Len(t) : u[i] = IF i <= Len(s) THEN s[i] ELSE t[i - Len(s)]
    BY ConcatSeq
  <1>2. /\ Len(s) \in Nat /\ DOMAIN s = 1 .. Len(s)
        /\ Len(t) \in Nat /\ DOMAIN t = 1 .. Len(t)
    BY SeqFacts
  <1> HIDE DEF u
  <1>3. DOMAIN u = 1 .. Len(s) + Len(t)
    BY <1>1, SeqFacts
  <1>4. \A i \in DOMAIN u : \/ i \in DOMAIN s /\ u[i] = s[i]
                            \/ i - Len(s) \in DOMAIN t /\ u[i] = t[i - Len(s)]
    BY <1>1, <1>2, <1>3
  <1>5. \A c : AllOf(s, c) /\ AllOf(t, c) => AllOf(u, c)
    BY <1>4 DEF AllOf
  <1>6. \A e : Home(s, e) /\ Home(t, e) => Home(u, e)
    BY <1>4 DEF Home
  <1> QED BY <1>5, <1>6 DEF u

LEMMA AppendHas ==
    ASSUME NEW s, NEW r, IsSeq(s)
    PROVE  /\ \A c : AllOf(s, c) /\ r.command = c => AllOf(Append(s, r), c)
           /\ \A e : Home(s, e) /\ r.suite = e /\ r.size \in Nat => Home(Append(s, r), e)
  <1> DEFINE u == Append(s, r)
  <1>1. /\ IsSeq(u) /\ Len(u) = Len(s) + 1
        /\ \A i \in 1 .. Len(s) : u[i] = s[i]
        /\ u[Len(s) + 1] = r
    BY AppendSeq
  <1>2. Len(s) \in Nat /\ DOMAIN s = 1 .. Len(s)
    BY SeqFacts
  <1> HIDE DEF u
  <1>3. DOMAIN u = 1 .. Len(s) + 1
    BY <1>1, SeqFacts
  <1>4. \A i \in DOMAIN u : (i \in DOMAIN s /\ u[i] = s[i]) \/ u[i] = r
    BY <1>1, <1>2, <1>3
  <1>5. \A c : AllOf(s, c) /\ r.command = c => AllOf(u, c)
    BY <1>4 DEF AllOf
  <1>6. \A e : Home(s, e) /\ r.suite = e /\ r.size \in Nat => Home(u, e)
    BY <1>4 DEF Home
  <1> QED BY <1>5, <1>6 DEF u

LEMMA PrefixFits ==
    ASSUME NEW s, NEW e, FileFits(s, e), NEW n \in 0 .. Len(s)
    PROVE  FileFits(SubSeq(s, 1, n), e)
  <1> DEFINE p == SubSeq(s, 1, n)
  <1>1. IsSeq(s) /\ Len(s) \in Nat /\ DOMAIN s = 1 .. Len(s) /\ Sized(s) /\ Home(s, e) /\ Fits(s)
    BY SeqFacts, HomeSized DEF FileFits
  <1>2. IsSeq(p) /\ Len(p) = n /\ \A i \in 1 .. n : p[i] = s[i]
    BY <1>1, PrefixSeq
  <1>3. Bytes(p) <= Bytes(s) /\ Sized(p)
    BY <1>1, BytesPrefix
  <1> HIDE DEF p
  <1>4. DOMAIN p = 1 .. n /\ \A i \in 1 .. n : i \in 1 .. Len(s)
    BY <1>1, <1>2, SeqFacts
  <1>5. Home(p, e)
    BY <1>1, <1>2, <1>4 DEF Home
  <1>6. Bytes(p) \in Nat /\ Bytes(s) \in Nat
    BY <1>1, <1>2, <1>3, BytesAre
  <1>7. Fits(p)
    <2>1. ASSUME Len(p) > 1 PROVE Bytes(p) <= ChunkSize
      <3>1. Bytes(s) <= ChunkSize
        BY <1>1, <1>2, <2>1 DEF Fits
      <3> QED BY <1>3, <1>6, <3>1, NumbersAssumption
    <2> QED BY <2>1 DEF Fits
  <1> QED BY <1>2, <1>5, <1>7 DEF FileFits, p

LEMMA WithFits ==
    ASSUME NEW d, DirFits(d), NEW f, NEW s, FileFits(s, f.suite)
    PROVE  DirFits(With(d, f, s))
  <1> DEFINE w == With(d, f, s)
  <1>1. DOMAIN w = DOMAIN d \cup {f} /\ w[f] = s
        /\ \A g \in DOMAIN d \ {f} : w[g] = d[g]
    BY DEF With
  <1>2. IsFiniteSet(DOMAIN w)
    BY <1>1, FS_AddElement DEF DirFits
  <1> HIDE DEF w
  <1>3. ASSUME NEW g \in DOMAIN w PROVE FileFits(w[g], g.suite)
    <2>1. CASE g = f
      BY <1>1, <2>1
    <2>2. CASE g # f
      BY <1>1, <2>2 DEF DirFits
    <2> QED BY <2>1, <2>2
  <1> QED BY <1>2, <1>3 DEF DirFits, w

-----------------------------------------------------------------------------
(* The chunks of a split, one after the other. *)

LEMMA ChunkLists ==
    ASSUME NEW d, NEW e, NEW s, NEW n \in Nat,
           \A m \in 1 .. n : IsSeq(d[FileOf(e, s, m)])
    PROVE  AllSeqs(Chunks(d, e, s, n)) /\ Len(Chunks(d, e, s, n)) = n
           /\ IsSeq(Written(d, e, s, n))
  <1> DEFINE T == {d[FileOf(e, s, m)] : m \in 1 .. n}
             q == Chunks(d, e, s, n)
  <1>1. q = [m \in 1 .. n |-> d[FileOf(e, s, m)]] /\ \A m \in 1 .. n : q[m] \in T
    BY DEF Chunks
  <1> HIDE DEF T
  <1>2. q \in Seq(T) /\ Len(q) = n
    BY <1>1
  <1>3. AllSeqs(q)
    BY <1>1, <1>2, SeqOfAny DEF AllSeqs
  <1> QED BY <1>2, <1>3, FlattenIsSeq DEF Written

LEMMA WrittenNone == \A d, e, s : Written(d, e, s, 0) = <<>>
  <1> TAKE d, e, s
  <1>1. \A m \in 1 .. 0 : IsSeq(d[FileOf(e, s, m)])
    OBVIOUS
  <1>2. IsSeq(Chunks(d, e, s, 0)) /\ Len(Chunks(d, e, s, 0)) = 0
    BY <1>1, ChunkLists DEF AllSeqs
  <1>3. Chunks(d, e, s, 0) = <<>>
    BY <1>2, NoSeq
  <1> QED BY <1>3, FlattenNone DEF Written

LEMMA WrittenNext ==
    ASSUME NEW d, NEW e, NEW s, NEW n \in Nat,
           \A m \in 1 .. n + 1 : IsSeq(d[FileOf(e, s, m)])
    PROVE  Written(d, e, s, n + 1) = Written(d, e, s, n) \o d[FileOf(e, s, n + 1)]
  <1> DEFINE p == Chunks(d, e, s, n)
             q == Chunks(d, e, s, n + 1)
             t == d[FileOf(e, s, n + 1)]
             a == Append(p, t)
  <1>1. n + 1 \in Nat /\ n + 1 \in 1 .. n + 1 /\ \A m \in 1 .. n : m \in 1 .. n + 1
    OBVIOUS
  <1>2. AllSeqs(p) /\ Len(p) = n /\ AllSeqs(q) /\ Len(q) = n + 1
    BY <1>1, ChunkLists
  <1>3. IsSeq(t)
    BY <1>1
  <1>4. /\ \A m \in 1 .. n : p[m] = q[m]
        /\ q[n + 1] = t
    BY <1>1 DEF Chunks
  <1> HIDE DEF p, q, t
  <1>5. /\ IsSeq(a) /\ Len(a) = n + 1
        /\ \A i \in 1 .. n : a[i] = p[i]
        /\ a[n + 1] = t
    BY <1>2, AppendSeq DEF AllSeqs
  <1> HIDE DEF a
  <1>6. ASSUME NEW i \in 1 .. n + 1 PROVE q[i] = a[i]
    <2>1. i \in 1 .. n \/ i = n + 1
      OBVIOUS
    <2> QED BY <1>4, <1>5, <2>1
  <1>7. q = a
    BY <1>2, <1>5, <1>6, SameSeq DEF AllSeqs
  <1>8. FlattenSeq(a) = FlattenSeq(p) \o t
    BY <1>2, <1>3, FlattenAppend DEF a
  <1> QED BY <1>7, <1>8 DEF Written, p, q, t

LEMMA WrittenSame ==
    ASSUME NEW d, NEW d2, NEW e, NEW s, NEW n, \A m \in 1 .. n : d2[FileOf(e, s, m)] = d[FileOf(e, s, m)]
    PROVE  Written(d2, e, s, n) = Written(d, e, s, n)
  <1>1. Chunks(d2, e, s, n) = Chunks(d, e, s, n)
    BY DEF Chunks
  <1> QED BY <1>1 DEF Written

-----------------------------------------------------------------------------
(* The writer, given lines. *)

LEMMA ChunkIs == \A w : Chunk(w) = FileOf(w.suite, w.split, w.chunk)
  BY DEF Chunk, FileOf

LEMMA FileOfIs == \A e, s, n : /\ FileOf(e, s, n).suite = e /\ FileOf(e, s, n).split = s
                             /\ FileOf(e, s, n).number = n
  BY DEF FileOf

(* The chunk that is open. *)
LEMMA OpenChunk ==
    ASSUME NEW x, NEW c, NEW G, Given(x, c, G), Opened(x.writer)
    PROVE  LET w == x.writer
               f == FileOf(w.suite, w.split, w.chunk)
           IN  /\ w.chunk \in 1 .. w.chunk /\ Chunk(w) = f /\ f \in DOMAIN x.dir
               /\ FileFits(x.dir[f], w.suite) /\ AllOf(x.dir[f], c)
               /\ LastChunk(x) = x.dir[f] \o w.buffer
               /\ IsSeq(LastChunk(x)) /\ Home(LastChunk(x), w.suite) /\ AllOf(LastChunk(x), c)
               /\ \A m \in 1 .. w.chunk : IsSeq(x.dir[FileOf(w.suite, w.split, m)])
               /\ IsSeq(Written(x.dir, w.suite, w.split, w.chunk))
  <1> DEFINE w == x.writer
             f == FileOf(w.suite, w.split, w.chunk)
  <1>1. /\ w.chunk \in Nat /\ w.chunk > 0 /\ IsSeq(w.buffer)
        /\ DirFits(x.dir) /\ Begun(x.dir, c, w.suite, w.split, w.chunk)
        /\ AllOf(w.buffer, c) /\ Home(w.buffer, w.suite)
    BY DEF Given, Opened
  <1>2. w.chunk \in 1 .. w.chunk /\ Chunk(w) = f /\ LastChunk(x) = x.dir[f] \o w.buffer
    <2>1. Chunk(w) = f
      BY ChunkIs
    <2>2. w.chunk \in 1 .. w.chunk
      <3> HIDE DEF w
      <3> QED BY <1>1
    <2> QED BY <2>1, <2>2 DEF LastChunk
  <1>3. \A m \in 1 .. w.chunk :
           /\ FileOf(w.suite, w.split, m) \in DOMAIN x.dir
           /\ AllOf(x.dir[FileOf(w.suite, w.split, m)], c)
           /\ FileFits(x.dir[FileOf(w.suite, w.split, m)], w.suite)
    <2> HIDE DEF w
    <2>1. ASSUME NEW m \in 1 .. w.chunk
          PROVE  FileOf(w.suite, w.split, m) \in DOMAIN x.dir
                 /\ AllOf(x.dir[FileOf(w.suite, w.split, m)], c)
      BY <1>1 DEF Begun
    <2> QED BY <1>1, <2>1, FileOfIs DEF DirFits
  <1>4. /\ f \in DOMAIN x.dir /\ FileFits(x.dir[f], w.suite) /\ AllOf(x.dir[f], c)
        /\ IsSeq(x.dir[f]) /\ Home(x.dir[f], w.suite)
    BY <1>2, <1>3 DEF FileFits
  <1>5. \A m \in 1 .. w.chunk : IsSeq(x.dir[FileOf(w.suite, w.split, m)])
    BY <1>3 DEF FileFits
  <1> HIDE DEF w, f
  <1>6. IsSeq(LastChunk(x)) /\ Home(LastChunk(x), w.suite) /\ AllOf(LastChunk(x), c)
    BY <1>1, <1>2, <1>4, ConcatSeq, ConcatHas
  <1>7. IsSeq(Written(x.dir, w.suite, w.split, w.chunk))
    BY <1>1, <1>5, ChunkLists
  <1> QED BY <1>2, <1>4, <1>5, <1>6, <1>7 DEF w, f

(* What is written of a split when the last chunk gets other lines.        *)
LEMMA WrittenLast ==
    ASSUME NEW d, NEW e, NEW s, NEW n \in Nat, n > 0,
           \A m \in 1 .. n : FileOf(e, s, m) \in DOMAIN d /\ IsSeq(d[FileOf(e, s, m)]),
           NEW t, IsSeq(t)
    PROVE  Written(With(d, FileOf(e, s, n), d[FileOf(e, s, n)] \o t), e, s, n)
             = Written(d, e, s, n) \o t
  <1> DEFINE f == FileOf(e, s, n)
             d2 == With(d, f, d[f] \o t)
             l == n - 1
  <1>1. l \in Nat /\ l + 1 = n /\ n \in 1 .. n /\ \A m \in 1 .. l : m \in 1 .. n /\ m # n
    OBVIOUS
  <1>2. d2[f] = d[f] \o t /\ IsSeq(d[f])
    BY <1>1 DEF With
  <1>3. IsSeq(d2[f])
    BY <1>2, ConcatSeq
  <1>4. ASSUME NEW m \in 1 .. l PROVE d2[FileOf(e, s, m)] = d[FileOf(e, s, m)]
    <2>1. FileOf(e, s, m) \in DOMAIN d /\ FileOf(e, s, m) # f
      BY <1>1, FileOfIs
    <2> QED BY <2>1 DEF With
  <1> HIDE DEF d2, l
  <1>5. \A m \in 1 .. l + 1 : IsSeq(d2[FileOf(e, s, m)])
    <2>1. ASSUME NEW m \in 1 .. l + 1 PROVE IsSeq(d2[FileOf(e, s, m)])
      <3>1. m \in 1 .. l \/ m = n
        BY <1>1
      <3> QED BY <1>1, <1>3, <1>4, <3>1
    <2> QED BY <2>1
  <1>6. Written(d2, e, s, l + 1) = Written(d2, e, s, l) \o d2[FileOf(e, s, l + 1)]
    BY <1>1, <1>5, WrittenNext
  <1>7. Written(d, e, s, l + 1) = Written(d, e, s, l) \o d[FileOf(e, s, l + 1)]
    BY <1>1, WrittenNext
  <1>8. Written(d2, e, s, l) = Written(d, e, s, l)
    BY <1>4, WrittenSame
  <1>9. IsSeq(Written(d, e, s, l))
    BY <1>1, ChunkLists
  <1>10. (Written(d, e, s, l) \o d[f]) \o t = Written(d, e, s, l) \o (d[f] \o t)
    <2> DEFINE q == Written(d, e, s, l)
               r == d[f]
    <2>1. IsSeq(q) /\ IsSeq(r)
      BY <1>2, <1>9
    <2> HIDE DEF q, r
    <2>2. (q \o r) \o t = q \o (r \o t)
      BY <2>1, ConcatThree
    <2> QED BY <2>2 DEF q, r
  <1>11. Written(d2, e, s, n) = Written(d, e, s, l) \o (d[f] \o t)
         /\ Written(d, e, s, n) = Written(d, e, s, l) \o d[f]
    BY <1>1, <1>2, <1>6, <1>7, <1>8
  <1>12. Written(d2, e, s, n) = Written(d, e, s, n) \o t
    BY <1>10, <1>11
  <1> QED BY <1>12 DEF d2

(* _flush_buffer moves lines from the buffer into the open chunk.          *)
LEMMA FlushGiven ==
    ASSUME NEW x, NEW c, NEW G, Given(x, c, G)
    PROVE  LET y == Flush(x)
           IN  /\ Given(y, c, G) /\ y.writer.buffer = <<>> /\ SameWriter(x, y)
               /\ y.writer.chunk = x.writer.chunk /\ y.writer.size = x.writer.size
               /\ SameBut(x.dir, y.dir, x.writer.suite, x.writer.split, x.writer.chunk)
  <1>1. CASE ~Opened(x.writer)
    <2>1. Flush(x) = x /\ x.writer.buffer = <<>>
      BY <1>1 DEF Flush, Given
    <2> QED BY <2>1 DEF SameWriter, SameBut
  <1>2. CASE Opened(x.writer)
    <2> DEFINE w == x.writer
               v == [w EXCEPT !.buffer = <<>>]
               n == w.chunk
               f == FileOf(w.suite, w.split, n)
               t == x.dir[f] \o w.buffer
               d == With(x.dir, f, t)
               y == Flush(x)
    <2>1. /\ Chunk(w) = f /\ f \in DOMAIN x.dir /\ n \in 1 .. n
          /\ LastChunk(x) = t /\ IsSeq(t) /\ Home(t, w.suite) /\ AllOf(t, c)
          /\ FileFits(x.dir[f], w.suite)
      BY <1>2, OpenChunk
    <2>2. /\ n \in Nat /\ w.size \in Nat /\ IsSeq(w.buffer)
          /\ DirFits(x.dir) /\ Begun(x.dir, c, w.suite, w.split, n)
          /\ Bytes(t) = w.size /\ Fits(t)
          /\ Strip(Written(x.dir, w.suite, w.split, n) \o w.buffer) = G
      BY <1>2, <2>1 DEF Given
    <2>3. y.dir = d /\ y.writer = v /\ y = [i \in {"dir", "writer"} |-> y[i]]
      BY <1>2, <2>1 DEF Flush
    <2>4. /\ v = [i \in Fields |-> v[i]] /\ v.buffer = <<>> /\ v.chunk = n /\ v.size = w.size
          /\ v.suite = w.suite /\ v.split = w.split
      BY DEF Given, Shaped, Fields
    <2>5. DirFits(d)
      <3>1. FileFits(t, f.suite)
        <4>1. f.suite = w.suite
          BY FileOfIs
        <4> HIDE DEF t, f, w
        <4> QED BY <2>1, <2>2, <4>1 DEF FileFits
      <3> HIDE DEF t, f
      <3> QED BY <2>2, <3>1, WithFits
    <2>6. DOMAIN d = DOMAIN x.dir /\ d[f] = t /\ \A g \in DOMAIN x.dir : g # f => d[g] = x.dir[g]
      BY <2>1 DEF With
    <2>7. Begun(d, c, w.suite, w.split, n)
      <3> HIDE DEF w, f, n, t, d
      <3>1. ASSUME NEW m \in 1 .. n
            PROVE  FileOf(w.suite, w.split, m) \in DOMAIN d
                   /\ AllOf(d[FileOf(w.suite, w.split, m)], c)
        BY <2>1, <2>2, <2>6 DEF Begun
      <3>2. ASSUME NEW g \in DOMAIN d, g = FileOf(w.suite, w.split, g.number), g.number \notin 1 .. n
            PROVE  NoneOf(d[g], c)
        <4>1. g # f
          BY <2>1, <3>2, FileOfIs DEF f
        <4> QED BY <2>2, <2>6, <3>2, <4>1 DEF Begun
      <3> QED BY <3>1, <3>2 DEF Begun
    <2>8. Written(d, w.suite, w.split, n) = Written(x.dir, w.suite, w.split, n) \o w.buffer
      <3>1. /\ n > 0
            /\ \A m \in 1 .. n : FileOf(w.suite, w.split, m) \in DOMAIN x.dir
                                 /\ IsSeq(x.dir[FileOf(w.suite, w.split, m)])
        <4>1. \A m \in 1 .. n : IsSeq(x.dir[FileOf(w.suite, w.split, m)])
          BY <1>2, OpenChunk
        <4> HIDE DEF w
        <4> QED BY <2>1, <2>2, <4>1 DEF Begun
      <3> DEFINE e == w.suite
                 s == w.split
                 b == w.buffer
                 h == x.dir
      <3>2. /\ n \in Nat /\ n > 0 /\ IsSeq(b) /\ d = With(h, FileOf(e, s, n), h[FileOf(e, s, n)] \o b)
            /\ \A m \in 1 .. n : FileOf(e, s, m) \in DOMAIN h /\ IsSeq(h[FileOf(e, s, m)])
        BY <2>2, <3>1
      <3> HIDE DEF d, h, b, e, s, n
      <3>3. Written(d, e, s, n) = Written(h, e, s, n) \o b
        BY <3>2, WrittenLast
      <3> QED BY <3>3 DEF h, b, e, s
    <2>9. LastChunk(y) = t
      <3>1. Chunk(v) = f
        BY <2>4, ChunkIs
      <3> HIDE DEF y, v, f, t, d
      <3>2. t \o <<>> = t
        BY <2>1, NoSeq
      <3> QED BY <2>3, <2>4, <2>6, <3>1, <3>2 DEF LastChunk
    <2>10. Written(d, w.suite, w.split, n) \o <<>> = Written(d, w.suite, w.split, n)
      <3>1. \A m \in 1 .. n : IsSeq(d[FileOf(w.suite, w.split, m)])
        <4> HIDE DEF d, w, n
        <4> QED BY <2>5, <2>7 DEF DirFits, FileFits, Begun
      <3> HIDE DEF d, w, n
      <3> QED BY <2>2, <3>1, ChunkLists, NoSeq
    <2>11. SameBut(x.dir, d, w.suite, w.split, n)
      <3> HIDE DEF d, w, n
      <3> QED BY <2>1, <2>6 DEF SameBut, f
    <2> HIDE DEF y, v, f, t, d, w
    <2>12. Opened(v)
      BY <1>2, <2>4 DEF Opened, w, n
    <2>13. Given(y, c, G)
      BY <2>2, <2>3, <2>4, <2>5, <2>7, <2>8, <2>9, <2>10, <2>12, NoSeq, NoLines DEF Given, Shaped
    <2> QED BY <2>3, <2>4, <2>11, <2>13 DEF SameWriter, w, y
  <1> QED BY <1>1, <1>2

(* What is given is what the chunks and an empty buffer hold.              *)
LEMMA Emptied ==
    ASSUME NEW x, NEW c, NEW G, Given(x, c, G), x.writer.buffer = <<>>
    PROVE  LET w == x.writer
           IN  /\ \A m \in 1 .. w.chunk : IsSeq(x.dir[FileOf(w.suite, w.split, m)])
               /\ IsSeq(Written(x.dir, w.suite, w.split, w.chunk))
               /\ Strip(Written(x.dir, w.suite, w.split, w.chunk)) = G
  <1> DEFINE w == x.writer
             l == Written(x.dir, w.suite, w.split, w.chunk)
  <1>1. w.chunk \in Nat
    BY DEF Given
  <1>2. CASE Opened(w)
    <2>1. IsSeq(l) /\ \A m \in 1 .. w.chunk : IsSeq(x.dir[FileOf(w.suite, w.split, m)])
      BY <1>2, OpenChunk
    <2>2. Strip(l \o <<>>) = G
      BY <1>2 DEF Given
    <2> HIDE DEF l
    <2>3. l \o <<>> = l
      BY <2>1, NoSeq
    <2> QED BY <2>1, <2>2, <2>3 DEF l
  <1>3. CASE ~Opened(w)
    <2>1. w.chunk = 0 /\ G = <<>>
      BY <1>1, <1>3 DEF Given, Opened
    <2>2. l = <<>>
      BY <2>1, WrittenNone
    <2>3. \A m \in 1 .. w.chunk : FALSE
      <3> HIDE DEF w
      <3> QED BY <2>1
    <2> QED BY <2>1, <2>2, <2>3, NoSeq, StripNone
  <1> QED BY <1>2, <1>3

LEMMA NewChunkGiven ==
    ASSUME NEW x, NEW c, NEW G, Given(x, c, G)
    PROVE  LET z == StartNewChunk(x)
           IN  /\ Given(z, c, G) /\ Opened(z.writer) /\ SameWriter(x, z)
               /\ LastChunk(z) = <<>>
               /\ SameBut(x.dir, z.dir, x.writer.suite, x.writer.split, z.writer.chunk)
  <1> DEFINE y == Flush(x)
             v == y.writer
             w == [v EXCEPT !.chunk = @ + 1, !.size = 0]
             z == StartNewChunk(x)
             e == x.writer.suite
             s == x.writer.split
             n == x.writer.chunk
             d == y.dir
             f == FileOf(e, s, n + 1)
             h == With(d, f, <<>>)
  <1>1. /\ Given(y, c, G) /\ v.buffer = <<>> /\ v.suite = e /\ v.split = s /\ v.chunk = n
        /\ SameBut(x.dir, d, e, s, n)
    BY FlushGiven DEF SameWriter
  <1> HIDE DEF y
  <1>2. /\ w = [i \in Fields |-> w[i]] /\ w.chunk = n + 1 /\ w.size = 0 /\ w.buffer = <<>>
        /\ w.suite = e /\ w.split = s
    BY <1>1 DEF Given, Shaped, Fields
  <1>3. z.writer = w /\ z = [i \in {"dir", "writer"} |-> z[i]] /\ z.dir = With(d, Chunk(w), <<>>)
    BY DEF StartNewChunk, y
  <1> HIDE DEF w, z
  <1>4. Chunk(w) = f
    BY <1>2, ChunkIs
  <1>5. z.dir = h
    BY <1>3, <1>4
  <1>6. n \in Nat /\ DirFits(d) /\ Begun(d, c, e, s, n)
    BY <1>1 DEF Given
  <1> HIDE DEF e, s, n, d
  <1>7. DOMAIN h = DOMAIN d \cup {f} /\ h[f] = <<>> /\ \A g \in DOMAIN d : g # f => h[g] = d[g]
    BY DEF With
  <1>8. DirFits(h)
    <2> HIDE DEF f
    <2> QED BY <1>6, WithFits, NoLines
  <1>9. \A m \in 1 .. n : FileOf(e, s, m) \in DOMAIN d /\ FileOf(e, s, m) # f
    <2>1. \A m \in 1 .. n : m # n + 1
      BY <1>6
    <2> QED BY <1>6, <2>1, FileOfIs DEF Begun
  <1> HIDE DEF h
  <1>10. Begun(h, c, e, s, n + 1)
    <2>1. ASSUME NEW m \in 1 .. n + 1 PROVE FileOf(e, s, m) \in DOMAIN h /\ AllOf(h[FileOf(e, s, m)], c)
      <3>1. CASE m \in 1 .. n
        BY <1>6, <1>7, <1>9, <3>1 DEF Begun
      <3>2. CASE m = n + 1
        BY <1>7, <3>2, NoLines
      <3> QED BY <1>6, <3>1, <3>2
    <2>2. ASSUME NEW g \in DOMAIN h, g = FileOf(e, s, g.number), g.number \notin 1 .. n + 1
          PROVE  NoneOf(h[g], c)
      <3>1. n + 1 \in 1 .. n + 1 /\ \A i : i \notin 1 .. n + 1 => i \notin 1 .. n
        BY <1>6
      <3>2. g # f
        BY <2>2, <3>1, FileOfIs
      <3>3. g \in DOMAIN d /\ g.number \notin 1 .. n
        BY <1>7, <2>2, <3>1, <3>2
      <3> HIDE DEF f
      <3> QED BY <1>6, <1>7, <2>2, <3>2, <3>3 DEF Begun
    <2> QED BY <2>1, <2>2 DEF Begun
  <1>11. Opened(w) /\ LastChunk(z) = <<>>
    <2>1. <<>> \o <<>> = <<>>
      BY NoSeq
    <2> HIDE DEF f
    <2> QED BY <1>2, <1>3, <1>4, <1>5, <1>6, <1>7, <2>1 DEF Opened, LastChunk
  <1>12. Strip(Written(h, e, s, n + 1) \o <<>>) = G
    <2>1. /\ \A m \in 1 .. n : IsSeq(d[FileOf(e, s, m)]) /\ h[FileOf(e, s, m)] = d[FileOf(e, s, m)]
          /\ IsSeq(Written(d, e, s, n)) /\ Strip(Written(d, e, s, n)) = G
      <3>1. /\ \A m \in 1 .. n : IsSeq(d[FileOf(e, s, m)])
            /\ IsSeq(Written(d, e, s, n)) /\ Strip(Written(d, e, s, n)) = G
        BY <1>1, Emptied DEF d
      <3>2. \A m \in 1 .. n : h[FileOf(e, s, m)] = d[FileOf(e, s, m)]
        BY <1>7, <1>9
      <3> QED BY <3>1, <3>2
    <2>2. \A m \in 1 .. n + 1 : IsSeq(h[FileOf(e, s, m)])
      <3>1. ASSUME NEW m \in 1 .. n + 1 PROVE IsSeq(h[FileOf(e, s, m)])
        <4>1. m \in 1 .. n \/ m = n + 1
          BY <1>6
        <4> QED BY <1>7, <2>1, <4>1, NoSeq
      <3> QED BY <3>1
    <2>3. Written(h, e, s, n + 1) = Written(h, e, s, n) \o h[f]
      BY <1>6, <2>2, WrittenNext
    <2>4. Written(h, e, s, n) = Written(d, e, s, n)
      BY <2>1, WrittenSame
    <2> DEFINE l == Written(d, e, s, n)
    <2> HIDE DEF l, f
    <2>5. IsSeq(l) /\ Strip(l) = G /\ Written(h, e, s, n + 1) = l \o <<>>
      BY <1>7, <2>1, <2>3, <2>4 DEF l
    <2> QED BY <2>5, NoSeq
  <1>13. SameBut(x.dir, h, e, s, n + 1)
    <2>1. \A m \in 1 .. n : m \in 1 .. n + 1
      BY <1>6
    <2>2. ASSUME NEW g, g \notin {FileOf(e, s, m) : m \in 1 .. n + 1}
          PROVE  (g \in DOMAIN h <=> g \in DOMAIN x.dir) /\ (g \in DOMAIN x.dir => h[g] = x.dir[g])
      <3>1. g # f /\ g \notin {FileOf(e, s, m) : m \in 1 .. n}
        BY <1>6, <2>1, <2>2
      <3>2. (g \in DOMAIN d <=> g \in DOMAIN x.dir) /\ (g \in DOMAIN x.dir => d[g] = x.dir[g])
        BY <1>1, <3>1 DEF SameBut
      <3> HIDE DEF f
      <3> QED BY <1>7, <3>1, <3>2
    <2> QED BY <2>2 DEF SameBut
  <1>14. Given(z, c, G)
    <2>1. /\ n + 1 \in Nat /\ 0 \in Nat /\ Bytes(<<>>) = 0 /\ Fits(<<>>)
          /\ IsSeq(<<>>) /\ AllOf(<<>>, c) /\ Home(<<>>, e)
      BY <1>6, BytesNone, NoLines, NoSeq
    <2> QED BY <1>2, <1>3, <1>5, <1>8, <1>10, <1>11, <1>12, <2>1 DEF Given, Shaped
  <1> QED BY <1>2, <1>3, <1>5, <1>11, <1>13, <1>14 DEF SameWriter, z, e, s

LEMMA WriteGiven ==
    ASSUME NEW x, NEW c, NEW G, Given(x, c, G), IsSeq(G),
           NEW r, r.command = c, r.suite = x.writer.suite, r.size \in Nat
    PROVE  LET z == Write(x, r)
           IN  /\ Given(z, c, Append(G, [example |-> r.example, size |-> r.size]))
               /\ SameWriter(x, z)
               /\ SameBut(x.dir, z.dir, x.writer.suite, x.writer.split, z.writer.chunk)
  <1> DEFINE y == IF x.writer.size + r.size > ChunkSize \/ ~Opened(x.writer)
                    THEN StartNewChunk(x) ELSE x
             z == [y EXCEPT !.writer.buffer = Append(@, r), !.writer.size = @ + r.size]
             q == [example |-> r.example, size |-> r.size]
             H == Append(G, q)
             e == x.writer.suite
             s == x.writer.split
  <1>1. Write(x, r) = IF Len(z.writer.buffer) >= FlushAt THEN Flush(z) ELSE z
    BY DEF Write
  <1>2. /\ Given(y, c, G) /\ Opened(y.writer) /\ SameWriter(x, y)
        /\ SameBut(x.dir, y.dir, e, s, y.writer.chunk)
        /\ y.writer.size + r.size <= ChunkSize \/ LastChunk(y) = <<>>
    <2>1. CASE x.writer.size + r.size > ChunkSize \/ ~Opened(x.writer)
      BY <2>1, NewChunkGiven
    <2>2. CASE ~(x.writer.size + r.size > ChunkSize \/ ~Opened(x.writer))
      <3>1. x.writer.size + r.size <= ChunkSize
        BY <2>2, NumbersAssumption DEF Given
      <3>2. y = x /\ Opened(x.writer)
        BY <2>2
      <3> HIDE DEF y
      <3> QED BY <3>1, <3>2 DEF SameWriter, SameBut
    <2> QED BY <2>1, <2>2
  <1> HIDE DEF y
  <1> DEFINE v == y.writer
             w == z.writer
             n == v.chunk
  <1>3. /\ Shaped(z) /\ z.dir = y.dir /\ w.buffer = Append(v.buffer, r) /\ w.size = v.size + r.size
        /\ w.chunk = n /\ w.suite = v.suite /\ w.split = v.split
    BY <1>2 DEF Given, Shaped, Fields
  <1> HIDE DEF z
  <1>4. /\ n \in Nat /\ v.size \in Nat /\ IsSeq(v.buffer) /\ AllOf(v.buffer, c) /\ Home(v.buffer, v.suite)
        /\ DirFits(y.dir) /\ Begun(y.dir, c, v.suite, v.split, n)
        /\ Bytes(LastChunk(y)) = v.size
        /\ Strip(Written(y.dir, v.suite, v.split, n) \o v.buffer) = G
    BY <1>2 DEF Given
  <1>5. /\ Chunk(v) = FileOf(v.suite, v.split, n) /\ IsSeq(y.dir[Chunk(v)])
        /\ LastChunk(y) = y.dir[Chunk(v)] \o v.buffer
        /\ IsSeq(LastChunk(y)) /\ Home(LastChunk(y), v.suite)
        /\ IsSeq(Written(y.dir, v.suite, v.split, n))
    BY <1>2, OpenChunk DEF FileFits
  <1>6. v.suite = e /\ v.split = s
    BY <1>2 DEF SameWriter
  <1> HIDE DEF v, w, n
  <1>7. Chunk(w) = Chunk(v)
    BY <1>3, ChunkIs DEF n
  <1>8. /\ IsSeq(w.buffer) /\ AllOf(w.buffer, c) /\ Home(w.buffer, w.suite)
    BY <1>3, <1>4, <1>6, AppendSeq, AppendHas
  <1>9. LastChunk(z) = Append(LastChunk(y), r)
    <2> DEFINE b == v.buffer
               l == y.dir[Chunk(v)]
    <2>1. IsSeq(l) /\ IsSeq(b)
      BY <1>4, <1>5
    <2>2. LastChunk(z) = l \o Append(b, r) /\ LastChunk(y) = l \o b
      BY <1>3, <1>5, <1>7 DEF LastChunk, w
    <2> HIDE DEF b, l
    <2> QED BY <2>1, <2>2, ConcatAppend
  <1>10. Bytes(LastChunk(z)) = w.size /\ w.size \in Nat
    <2>1. Bytes(Append(LastChunk(y), r)) = Bytes(LastChunk(y)) + r.size
      BY <1>5, HomeSized, BytesAppend
    <2> QED BY <1>3, <1>4, <1>9, <2>1
  <1>11. Fits(LastChunk(z))
    <2>1. CASE y.writer.size + r.size <= ChunkSize
      BY <1>3, <1>10, <2>1 DEF Fits, v
    <2>2. CASE LastChunk(y) = <<>>
      <3>1. Len(LastChunk(z)) = 1
        BY <1>9, <2>2
      <3> QED BY <3>1 DEF Fits
    <2> QED BY <1>2, <2>1, <2>2
  <1>12. Strip(Written(z.dir, w.suite, w.split, w.chunk) \o w.buffer) = H
    <2> DEFINE l == Written(y.dir, v.suite, v.split, n)
               b == v.buffer
    <2>1. IsSeq(l) /\ IsSeq(b) /\ Strip(l \o b) = G
      BY <1>4, <1>5
    <2>2. Written(z.dir, w.suite, w.split, w.chunk) = l /\ w.buffer = Append(b, r)
      BY <1>3
    <2> HIDE DEF l, b
    <2>3. l \o Append(b, r) = Append(l \o b, r) /\ IsSeq(l \o b)
      BY <2>1, ConcatAppend, ConcatSeq
    <2> DEFINE lb == l \o b
    <2> HIDE DEF lb, q
    <2>4. Strip(Append(lb, r)) = Append(Strip(lb), q)
      BY <2>3, StripAppend DEF lb, q
    <2> QED BY <2>1, <2>2, <2>3, <2>4 DEF lb
  <1>13. Opened(w) /\ Begun(z.dir, c, w.suite, w.split, w.chunk) /\ DirFits(z.dir) /\ w.chunk \in Nat
    BY <1>2, <1>3, <1>4 DEF Opened, v, n
  <1> HIDE DEF H
  <1>14. Given(z, c, H)
    BY <1>3, <1>8, <1>10, <1>11, <1>12, <1>13 DEF Given, w
  <1>15. SameWriter(x, z) /\ SameBut(x.dir, z.dir, e, s, w.chunk)
    BY <1>2, <1>3, <1>6 DEF SameWriter, v, w, n
  <1>16. CASE Len(z.writer.buffer) >= FlushAt
    <2> DEFINE u == Flush(z)
    <2>1. Write(x, r) = u
      BY <1>1, <1>16
    <2>2. /\ Given(u, c, H) /\ SameWriter(z, u) /\ u.writer.chunk = w.chunk
          /\ SameBut(z.dir, u.dir, w.suite, w.split, w.chunk)
      BY <1>14, FlushGiven DEF w
    <2> HIDE DEF u
    <2>3. SameWriter(x, u)
      BY <1>15, <2>2 DEF SameWriter
    <2>4. SameBut(x.dir, u.dir, e, s, w.chunk)
      BY <1>3, <1>6, <1>15, <2>2 DEF SameBut
    <2> QED BY <2>1, <2>2, <2>3, <2>4 DEF H
  <1>17. CASE ~(Len(z.writer.buffer) >= FlushAt)
    BY <1>1, <1>14, <1>15, <1>17 DEF w, H
  <1> QED BY <1>16, <1>17

-----------------------------------------------------------------------------
(* The invariant, and the steps that neither write nor remove. *)

(* What a finished split, a finished suite and copied files look like.     *)
SplitWhole(d, c, e, s) ==
    \E n \in Nat : Begun(d, c, e, s, n) /\ Strip(Written(d, e, s, n)) = Made(e, s)
FilesWhole(d, B) == \A b \in B : b.file \in DOMAIN d /\ d[b.file] = b.lines
SplitsOf(C, e) == ToSet(C[e]) \cap DOMAIN Examples[e]
SuiteWhole(C, d, c, e) ==
    IF Bundled(e) THEN FilesWhole(d, BundledFiles[e])
    ELSE \A s \in SplitsOf(C, e) : SplitWhole(d, c, e, s)

-----------------------------------------------------------------------------
(* The progress of a command. *)

Sizes == [example : Nat, size : Nat]
Filled == [example : Nat, size : Nat \ {0}]
Here == pc \in {"copy", "split", "record"}
Going == result \in {"running", "ok"}
Coming == IF pc = "idle" THEN {} ELSE IF Here THEN ToSet(todo) \ {Suite} ELSE ToSet(todo)
ComingSplits == IF pc = "record" THEN ToSet(splits) \ {Head(splits)} ELSE ToSet(splits)

ConfigFits(C) ==
    /\ DOMAIN C \subseteq DOMAIN BundledConfig
    /\ \A e \in DOMAIN C : IsSeq(C[e]) /\ OnceIn(C[e])

Phases == {"idle", "clear", "suite", "load", "copy", "split", "record"}
Course ==
    /\ ConfigFits(Config) /\ pc \in Phases
    /\ result = "running" <=> pc # "idle"
    /\ pc = "clear" => mode = "download" /\ ToSet(todo) = DOMAIN Config
    /\ pc # "idle" => /\ todo \in Seq(DOMAIN Config) /\ OnceIn(todo)
                      /\ failed \cap ToSet(todo) = {}
    /\ pc \in {"load", "copy", "split", "record"} => todo # <<>>
    /\ pc = "copy" => Bundled(Suite) /\ copies \subseteq BundledFiles[Suite]
    /\ pc \in {"split", "record"} =>
          ~Bundled(Suite) /\ splits \in Seq(ToSet(Config[Suite])) /\ OnceIn(splits)
    /\ pc = "record" => splits # <<>> /\ Head(splits) \in DOMAIN Examples[Suite]

(* What is still to come has no line of this command. *)
Unbegun ==
    pc # "idle" =>
        \A f \in DOMAIN dir :
            ~NoneOf(dir[f], command) =>
                /\ f.suite \notin Coming
                /\ pc \in {"split", "record"} /\ f.suite = Suite => f.split \notin ComingSplits

(* What has been processed is there as a whole. *)
Due(e) == pc # "idle" /\ e \in ToSet(todo)
Processed ==
    /\ Going => \A e \in DOMAIN Config :
                   mode \in {"download", e} /\ e \notin failed =>
                       SuiteWhole(Config, dir, command, e) \/ Due(e)
    /\ pc = "copy" => FilesWhole(dir, BundledFiles[Suite] \ copies)
    /\ pc \in {"split", "record"} =>
          \A s \in SplitsOf(Config, Suite) \ ToSet(splits) : SplitWhole(dir, command, Suite, s)

(* The record at hand. *)
Writing ==
    pc = "record" =>
        LET E == Entries(Suite, Head(splits))
        IN  /\ writer.suite = Suite /\ writer.split = Head(splits)
            /\ \E i \in 0 .. Len(E) :
                  /\ rest = SubSeq(E, i + 1, Len(E))
                  /\ Given(Files, command, Chosen(SubSeq(E, 1, i), Filled))

(* After the removal, a download has what it wrote and nothing else. *)
FileFresh(C, d, c, f) ==
    IF Bundled(f.suite) THEN \E b \in BundledFiles[f.suite] : f = b.file /\ d[f] = b.lines
    ELSE /\ f.split \in SplitsOf(C, f.suite) /\ f = FileOf(f.suite, f.split, f.number)
         /\ AllOf(d[f], c)
Fresh ==
    Going /\ mode = "download" /\ pc # "clear" =>
        \A f \in DOMAIN dir :
            /\ f.suite \in DOMAIN Config \ failed /\ f.suite \notin Coming
            /\ FileFresh(Config, dir, command, f)

WholeInv ==
    /\ DirFits(dir) /\ Course /\ Unbegun /\ Processed /\ Writing /\ Fresh

-----------------------------------------------------------------------------
LEMMA TailFacts ==
    ASSUME NEW S, NEW s \in Seq(S), s # <<>>
    PROVE  /\ Head(s) \in ToSet(s) /\ ToSet(s) \subseteq S /\ Tail(s) \in Seq(S)
           /\ OnceIn(s) => OnceIn(Tail(s)) /\ ToSet(Tail(s)) = ToSet(s) \ {Head(s)}
  <1> DEFINE t == Tail(s)
  <1>1. /\ Len(s) \in Nat /\ Len(s) # 0 /\ Head(s) = s[1] /\ DOMAIN s = 1 .. Len(s)
        /\ \A i \in 1 .. Len(s) : s[i] \in S
    BY EmptySeq
  <1>2. /\ t \in Seq(S) /\ Len(t) = Len(s) - 1 /\ \A i \in 1 .. Len(t) : t[i] = s[i + 1]
    BY HeadTailProperties
  <1> HIDE DEF t
  <1>3. DOMAIN t = 1 .. Len(t)
    BY <1>2
  <1>4. Head(s) \in ToSet(s) /\ ToSet(s) \subseteq S
    BY <1>1 DEF ToSet
  <1>5. ASSUME OnceIn(s) PROVE OnceIn(t) /\ ToSet(t) = ToSet(s) \ {Head(s)}
    <2>1. \A i \in 1 .. Len(t) : i + 1 \in 1 .. Len(s) /\ i + 1 # 1 /\ t[i] = s[i + 1] /\ i \in Nat
      BY <1>1, <1>2
    <2>2. OnceIn(t)
      <3>1. ASSUME NEW i \in 1 .. Len(t), NEW j \in 1 .. Len(t), t[i] = t[j] PROVE i = j
        <4>1. i + 1 = j + 1
          BY <1>5, <2>1, <3>1 DEF OnceIn
        <4> QED BY <2>1, <4>1
      <3> QED BY <3>1 DEF OnceIn
    <2>3. \A x \in ToSet(t) : x \in ToSet(s) \ {Head(s)}
      <3>1. 1 \in 1 .. Len(s)
        BY <1>1
      <3> QED BY <1>1, <1>3, <1>5, <2>1, <3>1 DEF ToSet, OnceIn
    <2>4. ASSUME NEW x \in ToSet(s), x # Head(s) PROVE x \in ToSet(t)
      <3>1. PICK i \in 1 .. Len(s) : x = s[i]
        BY <1>1 DEF ToSet
      <3>2. i - 1 \in 1 .. Len(t) /\ (i - 1) + 1 = i
        BY <1>1, <1>2, <2>4, <3>1
      <3>3. x = t[i - 1]
        BY <1>2, <3>1, <3>2
      <3> QED BY <1>3, <3>2, <3>3 DEF ToSet
    <2> QED BY <2>2, <2>3, <2>4
  <1> QED BY <1>2, <1>4, <1>5 DEF t

LEMMA EmptyToSet == ToSet(<<>>) = {}
  BY NoSeq DEF ToSet

LEMMA WholeInit == Init => WholeInv
  <1> SUFFICES ASSUME Init PROVE WholeInv
    OBVIOUS
  <1>1. dir = <<>> /\ DOMAIN dir = {} /\ pc = "idle" /\ result = "none" /\ userConfig = NoConfig
    BY NoSeq DEF Init
  <1>2. DirFits(dir)
    BY <1>1, FS_EmptySet DEF DirFits
  <1>3. Course
    <2>1. \A e \in DOMAIN BundledConfig : IsSeq(BundledConfig[e]) /\ OnceIn(BundledConfig[e])
      BY ConfigAssumption DEF IsSeq, OnceIn, IsInjective
    <2> QED BY <1>1, <2>1 DEF Course, Config, ConfigFits, Phases
  <1> QED BY <1>1, <1>2, <1>3 DEF WholeInv, Unbegun, Processed, Writing, Fresh, Going

(* A step that takes a command out of its way, or leaves it there.         *)
LEMMA StoppedStep ==
    ASSUME WholeInv, UNCHANGED userConfig, DirFits(dir'), pc' = "idle", result' \in {"error", "none"}
    PROVE  WholeInv'
  <1>1. Course'
    BY DEF WholeInv, Course, Config, Phases
  <1> QED BY <1>1 DEF WholeInv, Unbegun, Processed, Writing, Fresh, Going

LEMMA EditStep ==
    ASSUME WholeInv, EditConfig
    PROVE  WholeInv'
  <1>1. /\ pc = "idle" /\ pc' = "idle" /\ result' = "none" /\ UNCHANGED dir /\ userConfig # NoConfig
    BY DEF EditConfig
  <1>2. PICK e \in DOMAIN userConfig :
          \/ userConfig' = [d \in DOMAIN userConfig \ {e} |-> userConfig[d]]
          \/ Len(userConfig[e]) > 1 /\ userConfig' = [userConfig EXCEPT ![e] = Tail(@)]
    BY DEF EditConfig
  <1>3. ConfigFits(userConfig)
    BY <1>1 DEF WholeInv, Course, Config
  <1>4. ConfigFits(userConfig')
    <2>1. CASE userConfig' = [d \in DOMAIN userConfig \ {e} |-> userConfig[d]]
      BY <1>3, <2>1 DEF ConfigFits
    <2>2. CASE Len(userConfig[e]) > 1 /\ userConfig' = [userConfig EXCEPT ![e] = Tail(@)]
      <3> DEFINE s == userConfig[e]
                 S == ToSet(s)
      <3>1. IsSeq(s) /\ OnceIn(s) /\ s # <<>>
        BY <1>3, <2>2, NoSeq DEF ConfigFits
      <3>2. s \in Seq(S)
        BY <3>1 DEF IsSeq
      <3> HIDE DEF s, S
      <3>3. Tail(s) \in Seq(S) /\ OnceIn(Tail(s))
        BY <3>1, <3>2, TailFacts
      <3>4. IsSeq(Tail(s)) /\ OnceIn(Tail(s))
        BY <3>3, SeqOfAny
      <3>5. DOMAIN userConfig' = DOMAIN userConfig
            /\ \A d \in DOMAIN userConfig : userConfig'[d] = IF d = e THEN Tail(s) ELSE userConfig[d]
        BY <2>2 DEF s
      <3> QED BY <1>3, <3>4, <3>5 DEF ConfigFits
    <2> QED BY <1>2, <2>1, <2>2
  <1>5. ConfigFits(BundledConfig)
    BY ConfigAssumption DEF ConfigFits, IsSeq, OnceIn, IsInjective
  <1>6. Course'
    BY <1>1, <1>4, <1>5 DEF Course, Config, Phases
  <1>7. DirFits(dir')
    BY <1>1 DEF WholeInv
  <1> QED BY <1>1, <1>6, <1>7 DEF WholeInv, Unbegun, Processed, Writing, Fresh, Going

(* A new command finds no line of its own. *)
LEMMA NoneYet == IdInv => \A f \in DOMAIN dir : NoneOf(dir[f], command + 1)
  BY DEF IdInv, DirOK, SeqOK, LineOK, NoneOf

LEMMA AllChosen ==
    ConfigFits(Config) =>
        LET s == Chosen(SuiteOrder, DOMAIN Config)
        IN  s \in Seq(DOMAIN Config) /\ OnceIn(s) /\ ToSet(s) = DOMAIN Config
  <1> SUFFICES ASSUME ConfigFits(Config)
               PROVE  LET s == Chosen(SuiteOrder, DOMAIN Config)
                      IN  s \in Seq(DOMAIN Config) /\ OnceIn(s) /\ ToSet(s) = DOMAIN Config
    OBVIOUS
  <1> DEFINE S == DOMAIN Config
             s == Chosen(SuiteOrder, S)
  <1>1. SuiteOrder \in Seq(DOMAIN BundledConfig) /\ OnceIn(SuiteOrder)
        /\ ToSet(SuiteOrder) = DOMAIN BundledConfig
    BY ConfigAssumption DEF IsInjective, OnceIn
  <1>2. S \subseteq DOMAIN BundledConfig
    BY DEF ConfigFits
  <1> HIDE DEF S
  <1>3. ToSet(s) = ToSet(SuiteOrder) \cap S /\ OnceIn(s)
    BY <1>1, ChosenOnce
  <1>4. s \in Seq(ToSet(SuiteOrder) \cap S)
    BY <1>1, SeqOfAny, PickedLists
  <1>5. ToSet(SuiteOrder) \cap S = S
    BY <1>1, <1>2
  <1> HIDE DEF s
  <1>6. s \in Seq(S) /\ OnceIn(s) /\ ToSet(s) = S
    BY <1>3, <1>4, <1>5
  <1> QED BY <1>6 DEF S, s

LEMMA StartStep ==
    ASSUME IdInv, WholeInv, StartDownload \/ StartEval
    PROVE  WholeInv'
  <1>1. /\ pc = "idle" /\ UNCHANGED dir /\ CopyConfig /\ command' = command + 1 /\ failed' = {}
    BY DEF StartDownload, StartEval, Begin
  <1>2. Config' = Config /\ ConfigFits(Config)
    BY <1>1 DEF CopyConfig, Config, WholeInv, Course
  <1>3. \A f \in DOMAIN dir' : NoneOf(dir'[f], command')
    BY <1>1, NoneYet
  <1>4. DirFits(dir')
    BY <1>1 DEF WholeInv
  <1>5. CASE StartDownload
    <2>1. /\ mode' = "download" /\ pc' = "clear" /\ result' = "running"
          /\ todo' = Chosen(SuiteOrder, DOMAIN Config)
      BY <1>5 DEF StartDownload, Begin
    <2>2. todo' \in Seq(DOMAIN Config) /\ OnceIn(todo') /\ ToSet(todo') = DOMAIN Config
      BY <1>2, <2>1, AllChosen
    <2>3. Course'
      BY <1>1, <1>2, <2>1, <2>2 DEF Course, Phases
    <2>4. Unbegun'
      BY <1>3 DEF Unbegun
    <2>5. Processed'
      BY <1>2, <2>1, <2>2 DEF Processed, Due
    <2> QED BY <1>4, <2>1, <2>3, <2>4, <2>5 DEF WholeInv, Writing, Fresh
  <1>6. CASE StartEval
    <2>1. PICK e \in ToSet(SuiteOrder) :
             IF e \in DOMAIN Config
               THEN Begin(e, "suite", <<e>>) /\ result' = "running"
               ELSE Begin(e, "idle", <<>>) /\ result' = "ok"
      BY <1>6 DEF StartEval
    <2>2. mode' = e /\ e # "download"
      BY <2>1, ConfigAssumption DEF Begin
    <2>3. Unbegun'
      BY <1>3 DEF Unbegun
    <2>4. CASE e \in DOMAIN Config
      <3>1. pc' = "suite" /\ todo' = <<e>> /\ result' = "running"
        BY <2>1, <2>4 DEF Begin
      <3>2. todo' \in Seq(DOMAIN Config) /\ Len(todo') = 1 /\ todo'[1] = e
        BY <2>4, <3>1, Single
      <3>3. DOMAIN todo' = 1 .. 1
        BY <3>2
      <3>4. OnceIn(todo') /\ e \in ToSet(todo')
        BY <3>2, <3>3 DEF OnceIn, ToSet
      <3>5. Course'
        BY <1>1, <1>2, <3>1, <3>2, <3>4 DEF Course, Phases
      <3>6. Processed'
        BY <2>2, <3>1, <3>4 DEF Processed, Due
      <3> QED BY <1>4, <2>2, <2>3, <3>1, <3>5, <3>6 DEF WholeInv, Writing, Fresh
    <2>5. CASE e \notin DOMAIN Config
      <3>1. pc' = "idle" /\ result' = "ok"
        BY <2>1, <2>5 DEF Begin
      <3>2. Course'
        BY <1>2, <3>1 DEF Course, Phases
      <3>3. Processed'
        BY <1>2, <2>2, <2>5, <3>1 DEF Processed
      <3> QED BY <1>4, <2>2, <2>3, <3>1, <3>2, <3>3 DEF WholeInv, Writing, Fresh
    <2> QED BY <2>4, <2>5
  <1> QED BY <1>5, <1>6

LEMMA ClearStep ==
    ASSUME WholeInv, Clear
    PROVE  WholeInv'
  <1>1. /\ pc = "clear" /\ pc' = "suite" /\ dir' = <<>> /\ DOMAIN dir' = {} /\ Config' = Config
        /\ UNCHANGED <<todo, mode, failed, result>>
    BY NoSeq DEF Clear, place, Config
  <1>2. DirFits(dir')
    BY <1>1, FS_EmptySet DEF DirFits
  <1>3. Course'
    BY <1>1 DEF WholeInv, Course, Phases
  <1>4. Processed'
    BY <1>1 DEF WholeInv, Course, Processed, Due
  <1> QED BY <1>1, <1>2, <1>3, <1>4 DEF WholeInv, Unbegun, Writing, Fresh

LEMMA NextSuiteStep ==
    ASSUME WholeInv, NextSuite
    PROVE  WholeInv'
  <1>1. /\ pc = "suite" /\ Config' = Config /\ UNCHANGED <<dir, todo, mode, failed, command>>
        /\ IF todo = <<>> THEN pc' = "idle" /\ result' = "ok" ELSE pc' = "load" /\ UNCHANGED result
    BY DEF NextSuite, place, Config
  <1>2. result = "running"
    BY <1>1 DEF WholeInv, Course
  <1>3. DirFits(dir')
    BY <1>1 DEF WholeInv
  <1>4. Course'
    BY <1>1 DEF WholeInv, Course, Phases
  <1>5. Coming' = Coming
    BY <1>1, EmptyToSet DEF Coming, Here
  <1>6. Unbegun'
    BY <1>1, <1>5 DEF WholeInv, Unbegun
  <1>7. Processed'
    BY <1>1, <1>2, EmptyToSet DEF WholeInv, Processed, Due, Going
  <1>8. Fresh'
    BY <1>1, <1>2, <1>5 DEF WholeInv, Fresh, Going
  <1> QED BY <1>1, <1>3, <1>4, <1>6, <1>7, <1>8 DEF WholeInv, Writing

LEMMA LoadStep ==
    ASSUME WholeInv, Load
    PROVE  WholeInv'
  <1>1. /\ pc = "load" /\ Config' = Config /\ UNCHANGED <<dir, todo, mode, failed, command, result>>
        /\ IF Bundled(Suite)
             THEN pc' = "copy" /\ copies' = BundledFiles[Suite] /\ UNCHANGED splits
             ELSE pc' = "split" /\ splits' = Config[Suite] /\ UNCHANGED copies
    BY DEF Load, Config
  <1>2. Suite' = Suite /\ Suite \in ToSet(todo) /\ Suite \in DOMAIN Config
    <2>1. todo \in Seq(DOMAIN Config) /\ todo # <<>>
      BY <1>1 DEF WholeInv, Course
    <2> QED BY <1>1, <2>1, TailFacts DEF Suite
  <1>3. DirFits(dir')
    BY <1>1 DEF WholeInv
  <1>4. Course'
    <2>1. IsSeq(Config[Suite]) /\ OnceIn(Config[Suite])
      BY <1>2 DEF WholeInv, Course, ConfigFits
    <2> QED BY <1>1, <1>2, <2>1 DEF WholeInv, Course, Phases, IsSeq
  <1>5. Coming' \subseteq Coming /\ Suite \in Coming
    BY <1>1, <1>2 DEF Coming, Here
  <1>6. Unbegun'
    BY <1>1, <1>2, <1>5 DEF WholeInv, Unbegun
  <1>7. Processed'
    BY <1>1, <1>2 DEF WholeInv, Processed, Due, Going, FilesWhole, SplitsOf
  <1>8. Fresh'
    BY <1>1, <1>5 DEF WholeInv, Fresh, Going
  <1> QED BY <1>1, <1>3, <1>4, <1>6, <1>7, <1>8 DEF WholeInv, Writing

LEMMA LoadFailsStep ==
    ASSUME WholeInv, LoadFails
    PROVE  WholeInv'
  <1>1. /\ pc = "load" /\ pc' = "suite" /\ Config' = Config
        /\ UNCHANGED <<dir, mode, command, result>>
        /\ failed' = failed \cup {Suite} /\ todo' = Tail(todo)
    BY DEF LoadFails, Config
  <1>2. /\ todo \in Seq(DOMAIN Config) /\ todo # <<>> /\ OnceIn(todo)
        /\ failed \cap ToSet(todo) = {}
    BY <1>1 DEF WholeInv, Course
  <1>3. /\ Suite \in ToSet(todo) /\ todo' \in Seq(DOMAIN Config) /\ OnceIn(todo')
        /\ ToSet(todo') = ToSet(todo) \ {Suite}
    BY <1>1, <1>2, TailFacts DEF Suite
  <1>4. DirFits(dir')
    BY <1>1 DEF WholeInv
  <1>5. Course'
    BY <1>1, <1>2, <1>3 DEF WholeInv, Course, Phases
  <1>6. Coming' \subseteq Coming /\ Suite \in Coming
    BY <1>1, <1>3 DEF Coming, Here
  <1>7. Unbegun'
    BY <1>1, <1>6 DEF WholeInv, Unbegun
  <1>8. Processed'
    BY <1>1, <1>3 DEF WholeInv, Processed, Due, Going
  <1>9. Fresh'
    BY <1>1, <1>6 DEF WholeInv, Fresh, Going
  <1> QED BY <1>1, <1>4, <1>5, <1>7, <1>8, <1>9 DEF WholeInv, Writing

-----------------------------------------------------------------------------
(* Copying a bundled suite. *)

(* A file that both directories have with the same lines, or neither has.  *)
Same(d, d2, f) == (f \in DOMAIN d2 <=> f \in DOMAIN d) /\ (f \in DOMAIN d => d2[f] = d[f])

LEMMA SplitFrame ==
    ASSUME NEW d, NEW d2, NEW c, NEW e, NEW s, SplitWhole(d, c, e, s),
           \A n : Same(d, d2, FileOf(e, s, n))
    PROVE  SplitWhole(d2, c, e, s)
  <1>1. PICK n \in Nat : Begun(d, c, e, s, n) /\ Strip(Written(d, e, s, n)) = Made(e, s)
    BY DEF SplitWhole
  <1>2. \A m \in 1 .. n : /\ FileOf(e, s, m) \in DOMAIN d2
                          /\ d2[FileOf(e, s, m)] = d[FileOf(e, s, m)]
                          /\ AllOf(d2[FileOf(e, s, m)], c)
    BY <1>1 DEF Begun, Same
  <1>3. ASSUME NEW f \in DOMAIN d2, f = FileOf(e, s, f.number), f.number \notin 1 .. n
        PROVE  NoneOf(d2[f], c)
    <2>1. Same(d, d2, f)
      BY <1>3
    <2>2. f \in DOMAIN d /\ d2[f] = d[f]
      BY <2>1 DEF Same
    <2> QED BY <1>1, <1>3, <2>2 DEF Begun
  <1>4. Begun(d2, c, e, s, n)
    BY <1>2, <1>3 DEF Begun
  <1>5. Written(d2, e, s, n) = Written(d, e, s, n)
    BY <1>2, WrittenSame
  <1> QED BY <1>1, <1>4, <1>5 DEF SplitWhole

LEMMA BundleFacts ==
    ASSUME NEW e, Bundled(e), NEW b \in BundledFiles[e]
    PROVE  /\ b.file.suite = e /\ FileFits(b.lines, e)
           /\ \A c : c # 0 => NoneOf(b.lines, c)
           /\ \A a \in BundledFiles[e] : a.file = b.file => a = b
  <1>1. e \in DOMAIN BundledFiles /\ b \in UNION {BundledFiles[i] : i \in DOMAIN BundledFiles}
        /\ \A a \in BundledFiles[e] : a \in UNION {BundledFiles[i] : i \in DOMAIN BundledFiles}
    BY DEF Bundled
  <1>2. /\ b.lines \in Seq(ToSet(b.lines)) /\ \A k \in DOMAIN b.lines : b.lines[k].command = 0
        /\ \A a \in BundledFiles[e] : a.file = b.file => a = b
    BY <1>1, BundledAssumption
  <1>3. /\ b.file.suite = e
        /\ \A k \in DOMAIN b.lines : b.lines[k].suite = e /\ b.lines[k].size \in Nat
        /\ Len(b.lines) > 1 => Bytes(b.lines) <= ChunkSize
    BY <1>1, BundleAssumption
  <1> QED BY <1>2, <1>3 DEF FileFits, IsSeq, Home, Fits, NoneOf

LEMMA SuiteFrame ==
    ASSUME NEW C, NEW d, NEW d2, NEW c, NEW e, SuiteWhole(C, d, c, e),
           \A f : f.suite = e => Same(d, d2, f)
    PROVE  SuiteWhole(C, d2, c, e)
  <1>1. CASE Bundled(e)
    <2>1. ASSUME NEW b \in BundledFiles[e] PROVE b.file \in DOMAIN d2 /\ d2[b.file] = b.lines
      <3>1. Same(d, d2, b.file)
        BY <1>1, BundleFacts
      <3>2. b.file \in DOMAIN d /\ d[b.file] = b.lines
        BY <1>1 DEF SuiteWhole, FilesWhole
      <3> QED BY <3>1, <3>2 DEF Same
    <2> QED BY <1>1, <2>1 DEF SuiteWhole, FilesWhole
  <1>2. CASE ~Bundled(e)
    <2>1. ASSUME NEW s \in SplitsOf(C, e) PROVE SplitWhole(d2, c, e, s)
      <3>1. SplitWhole(d, c, e, s)
        BY <1>2 DEF SuiteWhole
      <3>2. \A n : Same(d, d2, FileOf(e, s, n))
        BY FileOfIs
      <3> QED BY <3>1, <3>2, SplitFrame
    <2> QED BY <1>2, <2>1 DEF SuiteWhole
  <1> QED BY <1>1, <1>2

LEMMA WithSame == \A d, f, l, g : g # f => Same(d, With(d, f, l), g)
  BY DEF Same, With

LEMMA CopyStep ==
    ASSUME IdInv, WholeInv, Copy
    PROVE  WholeInv'
  <1>1. /\ pc = "copy" /\ Config' = Config /\ UNCHANGED <<mode, failed, command, result>>
        /\ IF copies = {}
             THEN pc' = "suite" /\ todo' = Tail(todo) /\ UNCHANGED <<dir, copies>>
             ELSE \E f \in copies : /\ dir' = With(dir, f.file, f.lines) /\ copies' = copies \ {f}
                                    /\ UNCHANGED <<pc, todo>>
    BY DEF Copy, Config
  <1>2. /\ todo \in Seq(DOMAIN Config) /\ todo # <<>> /\ OnceIn(todo)
        /\ failed \cap ToSet(todo) = {}
        /\ Bundled(Suite) /\ copies \subseteq BundledFiles[Suite]
    BY <1>1 DEF WholeInv, Course
  <1>3. /\ Suite \in ToSet(todo) /\ Tail(todo) \in Seq(DOMAIN Config) /\ OnceIn(Tail(todo))
        /\ ToSet(Tail(todo)) = ToSet(todo) \ {Suite} /\ Suite \in DOMAIN Config \ failed
    BY <1>2, TailFacts DEF Suite
  <1>4. CASE copies = {}
    <2>1. DirFits(dir')
      BY <1>1, <1>4 DEF WholeInv
    <2>2. Course'
      BY <1>1, <1>2, <1>3, <1>4 DEF WholeInv, Course, Phases
    <2>3. Coming' = Coming
      BY <1>1, <1>3, <1>4 DEF Coming, Here
    <2>4. Unbegun'
      BY <1>1, <1>4, <2>3 DEF WholeInv, Unbegun
    <2>5. SuiteWhole(Config, dir, command, Suite)
      BY <1>1, <1>2, <1>4 DEF WholeInv, Processed, SuiteWhole
    <2>6. Processed'
      BY <1>1, <1>3, <1>4, <2>5 DEF WholeInv, Processed, Due, Going
    <2>7. Fresh'
      BY <1>1, <1>4, <2>3 DEF WholeInv, Fresh, Going
    <2> QED BY <1>1, <1>4, <2>1, <2>2, <2>4, <2>6, <2>7 DEF WholeInv, Writing
  <1>5. CASE copies # {}
    <2>1. PICK b \in copies : /\ dir' = With(dir, b.file, b.lines) /\ copies' = copies \ {b}
                              /\ UNCHANGED <<pc, todo>>
      BY <1>1, <1>5
    <2>2. /\ b \in BundledFiles[Suite] /\ b.file.suite = Suite /\ FileFits(b.lines, Suite)
          /\ NoneOf(b.lines, command)
          /\ \A a \in BundledFiles[Suite] : a.file = b.file => a = b
      <3>1. command # 0
        BY <1>1 DEF IdInv
      <3> DEFINE e == Suite
      <3>2. Bundled(e) /\ b \in BundledFiles[e]
        BY <1>2
      <3> HIDE DEF e
      <3>3. /\ b.file.suite = e /\ FileFits(b.lines, e)
            /\ \A c : c # 0 => NoneOf(b.lines, c)
            /\ \A a \in BundledFiles[e] : a.file = b.file => a = b
        BY <3>2, BundleFacts
      <3> QED BY <3>1, <3>2, <3>3 DEF e
    <2>3. /\ DOMAIN dir' = DOMAIN dir \cup {b.file} /\ dir'[b.file] = b.lines
          /\ \A f \in DOMAIN dir : f # b.file => dir'[f] = dir[f]
      BY <2>1 DEF With
    <2>4. DirFits(dir')
      BY <2>1, <2>2, WithFits DEF WholeInv
    <2>5. Suite' = Suite /\ Coming' = Coming /\ pc' = "copy"
      BY <1>1, <2>1 DEF Suite, Coming, Here
    <2>6. Course'
      BY <1>1, <1>2, <2>1, <2>5 DEF WholeInv, Course, Phases
    <2>7. Unbegun'
      BY <1>1, <2>2, <2>3, <2>5 DEF WholeInv, Unbegun
    <2>8. ASSUME NEW e \in DOMAIN Config, e # Suite, SuiteWhole(Config, dir, command, e)
          PROVE  SuiteWhole(Config, dir', command, e)
      <3>1. \A f : f.suite = e => Same(dir, dir', f)
        BY <2>1, <2>2, <2>8, WithSame
      <3> QED BY <2>8, <3>1, SuiteFrame
    <2>9. FilesWhole(dir', BundledFiles[Suite] \ copies')
      <3>1. FilesWhole(dir, BundledFiles[Suite] \ copies)
        BY <1>1 DEF WholeInv, Processed
      <3>2. ASSUME NEW a \in BundledFiles[Suite] \ copies' PROVE a.file \in DOMAIN dir' /\ dir'[a.file] = a.lines
        <4>1. CASE a = b
          BY <2>3, <4>1
        <4>2. CASE a # b
          BY <2>1, <2>2, <2>3, <3>1, <4>2 DEF FilesWhole
        <4> QED BY <4>1, <4>2
      <3> QED BY <3>2 DEF FilesWhole
    <2>10. Processed'
      <3>1. ASSUME Going', NEW e \in DOMAIN Config, mode \in {"download", e}, e \notin failed
            PROVE  SuiteWhole(Config, dir', command, e) \/ Due(e)'
        <4>1. SuiteWhole(Config, dir, command, e) \/ Due(e)
          BY <1>1, <3>1 DEF WholeInv, Processed, Going
        <4>2. Due(e)' <=> Due(e)
          BY <2>1 DEF Due
        <4>3. Due(Suite)
          BY <1>1, <1>3 DEF Due
        <4> QED BY <2>8, <4>1, <4>2, <4>3
      <3> QED BY <1>1, <2>5, <2>9, <3>1 DEF Processed
    <2>11. Fresh'
      <3>1. ASSUME Going', mode' = "download", NEW f \in DOMAIN dir'
            PROVE  /\ f.suite \in DOMAIN Config \ failed /\ f.suite \notin Coming
                   /\ FileFresh(Config, dir', command, f)
        <4>1. CASE f = b.file
          <5>1. Suite \notin Coming
            BY <1>1 DEF Coming, Here
          <5> QED BY <1>2, <1>3, <2>2, <2>3, <4>1, <5>1 DEF FileFresh
        <4>2. CASE f # b.file
          <5>1. f \in DOMAIN dir /\ dir'[f] = dir[f]
            BY <2>3, <4>2
          <5> QED BY <1>1, <3>1, <5>1 DEF WholeInv, Fresh, Going, FileFresh
        <4> QED BY <4>1, <4>2
      <3> QED BY <1>1, <2>5, <3>1 DEF Fresh
    <2> QED BY <2>4, <2>5, <2>6, <2>7, <2>10, <2>11 DEF WholeInv, Writing
  <1> QED BY <1>4, <1>5

-----------------------------------------------------------------------------
(* The records of a split. *)

LEMMA EntriesAre ==
    ASSUME NEW e, NEW s, e \in DOMAIN Examples, s \in DOMAIN Examples[e]
    PROVE  Entries(e, s) \in Seq(Sizes)
  <1> DEFINE X == Examples[e][s]
             L(k) == [j \in DOMAIN X[k] |-> [example |-> k, size |-> X[k][j]]]
             ss == [k \in DOMAIN X |-> L(k)]
  <1>1. X \in Seq(Seq(Nat))
    BY ExamplesAssumption
  <1>2. Len(X) \in Nat /\ DOMAIN X = 1 .. Len(X) /\ \A k \in 1 .. Len(X) : X[k] \in Seq(Nat)
    <2> HIDE DEF X
    <2> QED BY <1>1
  <1> HIDE DEF X
  <1>3. ASSUME NEW k \in 1 .. Len(X) PROVE L(k) \in Seq(Sizes)
    <2> DEFINE t == X[k]
    <2>1. t \in Seq(Nat) /\ k \in Nat
      BY <1>2
    <2> HIDE DEF t
    <2>2. DOMAIN t = 1 .. Len(t) /\ Len(t) \in Nat /\ \A j \in 1 .. Len(t) : t[j] \in Nat
      BY <2>1
    <2>3. \A j \in 1 .. Len(t) : [example |-> k, size |-> t[j]] \in Sizes
      BY <2>1, <2>2 DEF Sizes
    <2>4. [j \in 1 .. Len(t) |-> [example |-> k, size |-> t[j]]] \in Seq(Sizes)
      <3> HIDE DEF Sizes
      <3> QED BY <2>2, <2>3
    <2> QED BY <2>2, <2>4 DEF t
  <1> HIDE DEF L
  <1>4. ss \in Seq(Seq(Sizes))
    BY <1>2, <1>3
  <1>5. Entries(e, s) = FlattenSeq(ss)
    BY DEF Entries, L, X
  <1> HIDE DEF ss
  <1> QED BY <1>4, <1>5, FlattenType

LEMMA AtHand ==
    ASSUME NEW S, NEW E \in Seq(S), NEW i \in 0 .. Len(E)
    PROVE  LET r == SubSeq(E, i + 1, Len(E))
           IN  /\ r = <<>> => i = Len(E) /\ SubSeq(E, 1, i) = E
               /\ r # <<>> =>
                    /\ i + 1 \in 0 .. Len(E) /\ Head(r) = E[i + 1] /\ E[i + 1] \in S
                    /\ Tail(r) = SubSeq(E, (i + 1) + 1, Len(E))
                    /\ \A T : Chosen(SubSeq(E, 1, i + 1), T)
                                = IF E[i + 1] \in T THEN Append(Chosen(SubSeq(E, 1, i), T), E[i + 1])
                                  ELSE Chosen(SubSeq(E, 1, i), T)
  <1> DEFINE n == Len(E)
             r == SubSeq(E, i + 1, n)
             p == SubSeq(E, 1, i)
  <1>1. n \in Nat /\ i \in Nat /\ i <= n /\ \A k \in 1 .. n : E[k] \in S
    OBVIOUS
  <1>2. IsSeq(E)
    BY SeqOfAny
  <1>3. r \in Seq(S) /\ Len(r) = n - i /\ \A k \in 1 .. n - i : r[k] = E[i + k]
    <2>1. i + 1 \in 1 .. n + 1 /\ n \in i .. n
      BY <1>1
    <2>2. \A k \in i + 1 .. n : E[k] \in S
      BY <1>1
    <2>3. /\ r \in Seq(S)
          /\ Len(r) = IF i + 1 <= n THEN n - (i + 1) + 1 ELSE 0
          /\ \A k \in 1 .. n - (i + 1) + 1 : r[k] = E[(i + 1) + k - 1]
      BY <1>1, <2>1, <2>2, SubSeqProperties
    <2> HIDE DEF r, n
    <2>4. Len(r) = n - i
      BY <1>1, <2>3
    <2>5. \A k \in 1 .. n - i : (i + 1) + k - 1 = i + k /\ k \in 1 .. n - (i + 1) + 1
      BY <1>1
    <2> QED BY <2>3, <2>4, <2>5
  <1>4. IsSeq(p) /\ Len(p) = i /\ \A k \in 1 .. i : p[k] = E[k]
    BY <1>2, PrefixSeq
  <1> HIDE DEF r, p, n
  <1>5. ASSUME r = <<>> PROVE i = n /\ p = E
    <2>1. i = n
      BY <1>1, <1>3, <1>5, NoSeq
    <2> QED BY <1>2, <1>4, <2>1, SameSeq DEF n
  <1>6. ASSUME r # <<>>
        PROVE  /\ i + 1 \in 0 .. n /\ Head(r) = E[i + 1] /\ E[i + 1] \in S
               /\ Tail(r) = SubSeq(E, (i + 1) + 1, n)
               /\ SubSeq(E, 1, i + 1) = Append(p, E[i + 1])
    <2>1. i < n
      <3>1. Len(r) # 0
        BY <1>3, <1>6, EmptySeq
      <3> QED BY <1>1, <1>3, <3>1
    <2>2. i + 1 \in 0 .. n /\ i + 1 \in 1 .. n /\ 1 \in 1 .. n - i
      BY <1>1, <2>1
    <2>3. Head(r) = r[1] /\ Tail(r) \in Seq(S) /\ Len(Tail(r)) = Len(r) - 1
          /\ \A k \in 1 .. Len(Tail(r)) : Tail(r)[k] = r[k + 1]
      BY <1>3, <1>6, HeadTailProperties
    <2>4. Tail(r) = SubSeq(E, (i + 1) + 1, n)
      <3> DEFINE t == Tail(r)
                 u == SubSeq(E, (i + 1) + 1, n)
                 j == i + 1
      <3>1. /\ u \in Seq(S)
            /\ Len(u) = IF j + 1 <= n THEN n - (j + 1) + 1 ELSE 0
            /\ \A k \in 1 .. n - (j + 1) + 1 : u[k] = E[(j + 1) + k - 1]
        <4>1. \A k \in (j + 1) .. n : E[k] \in S
          BY <1>1
        <4>2. j \in Nat /\ j + 1 \in Nat /\ j <= n
          BY <1>1, <2>2
        <4> HIDE DEF j
        <4>3. j + 1 \in Int /\ n \in Int
          BY <1>1, <4>2
        <4>4. u = SubSeq(E, j + 1, n)
          BY DEF j
        <4> HIDE DEF u
        <4> QED BY <4>1, <4>3, <4>4, SubSeqProperties
      <3>2. Len(t) = (n - i) - 1
        BY <1>3, <2>3
      <3> HIDE DEF t, u
      <3>3. Len(u) = Len(t)
        BY <1>1, <2>2, <3>1, <3>2
      <3>4. ASSUME NEW k \in 1 .. Len(t) PROVE t[k] = u[k]
        <4>1. k \in Nat /\ k + 1 \in 1 .. n - i /\ k \in 1 .. n - (j + 1) + 1
              /\ i + (k + 1) = (j + 1) + k - 1
          BY <1>1, <2>1, <3>2
        <4>2. t[k] = r[k + 1]
          BY <2>3 DEF t
        <4>3. r[k + 1] = E[i + (k + 1)]
          BY <1>3, <4>1
        <4>4. u[k] = E[(j + 1) + k - 1]
          BY <3>1, <4>1
        <4> HIDE DEF j
        <4> QED BY <4>1, <4>2, <4>3, <4>4
      <3>5. t \in Seq(S)
        BY <2>3 DEF t
      <3>6. t = u
        BY <3>1, <3>3, <3>4, <3>5, SeqEqual
      <3> QED BY <3>6 DEF t, u
    <2>5. SubSeq(E, 1, i + 1) = Append(p, E[i + 1])
      <3> DEFINE q == SubSeq(E, 1, i + 1)
                 a == Append(p, E[i + 1])
      <3>1. IsSeq(q) /\ Len(q) = i + 1 /\ \A k \in 1 .. i + 1 : q[k] = E[k]
        BY <1>2, <2>2, PrefixSeq DEF n
      <3>2. /\ IsSeq(a) /\ Len(a) = i + 1 /\ a[i + 1] = E[i + 1]
            /\ \A k \in 1 .. i : a[k] = p[k]
        BY <1>4, AppendSeq
      <3> HIDE DEF q, a
      <3>3. ASSUME NEW k \in 1 .. i + 1 PROVE q[k] = a[k]
        <4>1. k \in 1 .. i \/ k = i + 1
          BY <1>1
        <4> QED BY <1>4, <3>1, <3>2, <4>1
      <3>4. q = a
        BY <3>1, <3>2, <3>3, SameSeq
      <3> QED BY <3>4 DEF q, a
    <2>6. Head(r) = E[i + 1] /\ E[i + 1] \in S
      BY <1>1, <1>3, <2>2, <2>3
    <2> QED BY <2>2, <2>4, <2>5, <2>6
  <1>7. \A T : Chosen(Append(p, E[i + 1]), T)
                = IF E[i + 1] \in T THEN Append(Chosen(p, T), E[i + 1]) ELSE Chosen(p, T)
    BY <1>4, ChosenAppend
  <1> QED BY <1>5, <1>6, <1>7 DEF n, p, r

(* At a record. *)
LEMMA RecordFacts ==
    ASSUME WholeInv, pc \in {"split", "record"}
    PROVE  /\ todo \in Seq(DOMAIN Config) /\ todo # <<>> /\ OnceIn(todo)
           /\ Suite \in ToSet(todo) /\ Suite \in DOMAIN Config \ failed
           /\ Tail(todo) \in Seq(DOMAIN Config) /\ OnceIn(Tail(todo))
           /\ ToSet(Tail(todo)) = ToSet(todo) \ {Suite}
           /\ ~Bundled(Suite) /\ Suite \in DOMAIN Examples
           /\ splits \in Seq(ToSet(Config[Suite])) /\ OnceIn(splits)
           /\ splits # <<>> =>
                /\ Head(splits) \in ToSet(splits) /\ Head(splits) \in ToSet(Config[Suite])
                /\ Tail(splits) \in Seq(ToSet(Config[Suite])) /\ OnceIn(Tail(splits))
                /\ ToSet(Tail(splits)) = ToSet(splits) \ {Head(splits)}
  <1>1. /\ todo \in Seq(DOMAIN Config) /\ todo # <<>> /\ OnceIn(todo)
        /\ failed \cap ToSet(todo) = {} /\ ~Bundled(Suite)
        /\ splits \in Seq(ToSet(Config[Suite])) /\ OnceIn(splits)
        /\ ConfigFits(Config)
    BY DEF WholeInv, Course
  <1>2. /\ Suite \in ToSet(todo) /\ Tail(todo) \in Seq(DOMAIN Config) /\ OnceIn(Tail(todo))
        /\ ToSet(Tail(todo)) = ToSet(todo) \ {Suite} /\ Suite \in DOMAIN Config \ failed
    BY <1>1, TailFacts DEF Suite
  <1>3. Suite \in DOMAIN Examples
    BY <1>1, <1>2, ExamplesAssumption DEF ConfigFits, Bundled
  <1>4. splits # <<>> =>
                /\ Head(splits) \in ToSet(splits) /\ Head(splits) \in ToSet(Config[Suite])
                /\ Tail(splits) \in Seq(ToSet(Config[Suite])) /\ OnceIn(Tail(splits))
                /\ ToSet(Tail(splits)) = ToSet(splits) \ {Head(splits)}
    <2> DEFINE S == ToSet(Config[Suite])
    <2>1. splits \in Seq(S)
      BY <1>1
    <2> HIDE DEF S
    <2>2. splits # <<>> => /\ Head(splits) \in ToSet(splits) /\ Head(splits) \in S
                           /\ Tail(splits) \in Seq(S) /\ OnceIn(Tail(splits))
                           /\ ToSet(Tail(splits)) = ToSet(splits) \ {Head(splits)}
      BY <1>1, <2>1, TailFacts
    <2> QED BY <2>2 DEF S
  <1> QED BY <1>1, <1>2, <1>3, <1>4

LEMMA NextSplitStep ==
    ASSUME IdInv, WholeInv, NextSplit
    PROVE  WholeInv'
  <1>1. /\ pc = "split" /\ Config' = Config
        /\ UNCHANGED <<dir, mode, failed, command, result>>
    BY DEF NextSplit, Config
  <1> DEFINE h == Head(splits)
  <1>2. /\ todo \in Seq(DOMAIN Config) /\ todo # <<>> /\ OnceIn(todo)
        /\ Suite \in ToSet(todo) /\ Suite \in DOMAIN Config \ failed
        /\ Tail(todo) \in Seq(DOMAIN Config) /\ OnceIn(Tail(todo))
        /\ ToSet(Tail(todo)) = ToSet(todo) \ {Suite} /\ ~Bundled(Suite) /\ Suite \in DOMAIN Examples
        /\ splits # <<>> => /\ h \in ToSet(splits) /\ h \in ToSet(Config[Suite])
                            /\ Tail(splits) \in Seq(ToSet(Config[Suite])) /\ OnceIn(Tail(splits))
                            /\ ToSet(Tail(splits)) = ToSet(splits) \ {h}
    BY <1>1, RecordFacts
  <1>3. DirFits(dir')
    BY <1>1 DEF WholeInv
  <1>4. CASE splits = <<>>
    <2>1. pc' = "suite" /\ todo' = Tail(todo)
      BY <1>4 DEF NextSplit
    <2>2. Course'
      BY <1>1, <1>2, <2>1 DEF WholeInv, Course, Phases
    <2>3. Coming' = Coming
      BY <1>1, <1>2, <2>1 DEF Coming, Here
    <2>4. Unbegun'
      BY <1>1, <2>1, <2>3 DEF WholeInv, Unbegun
    <2>5. SuiteWhole(Config, dir, command, Suite)
      BY <1>1, <1>2, <1>4, EmptyToSet DEF WholeInv, Processed, SuiteWhole
    <2>6. Processed'
      BY <1>1, <1>2, <2>1, <2>5 DEF WholeInv, Processed, Due, Going
    <2>7. Fresh'
      BY <1>1, <2>1, <2>3 DEF WholeInv, Fresh, Going
    <2> QED BY <1>3, <2>1, <2>2, <2>4, <2>6, <2>7 DEF WholeInv, Writing
  <1>5. CASE splits # <<>> /\ h \notin DOMAIN Examples[Suite]
    <2>1. splits' = Tail(splits) /\ UNCHANGED <<pc, todo>> /\ Suite' = Suite
      BY <1>5 DEF NextSplit, Suite
    <2>2. Course'
      BY <1>1, <1>2, <1>5, <2>1 DEF WholeInv, Course, Phases
    <2>3. Coming' = Coming /\ ComingSplits' \subseteq ComingSplits
      BY <1>1, <1>2, <1>5, <2>1 DEF Coming, Here, ComingSplits
    <2>4. Unbegun'
      BY <1>1, <2>1, <2>3 DEF WholeInv, Unbegun
    <2>5. SplitsOf(Config, Suite) \ ToSet(splits') = SplitsOf(Config, Suite) \ ToSet(splits)
      BY <1>2, <1>5, <2>1 DEF SplitsOf
    <2>6. Processed'
      BY <1>1, <2>1, <2>5 DEF WholeInv, Processed, Due, Going
    <2>7. Fresh'
      BY <1>1, <2>1, <2>3 DEF WholeInv, Fresh, Going
    <2> QED BY <1>1, <1>3, <2>1, <2>2, <2>4, <2>6, <2>7 DEF WholeInv, Writing
  <1>6. CASE splits # <<>> /\ h \in DOMAIN Examples[Suite]
    <2>1. /\ pc' = "record" /\ writer' = NewWriter(Suite, h) /\ rest' = Entries(Suite, h)
          /\ UNCHANGED <<splits, todo>> /\ Suite' = Suite
      BY <1>1, <1>6 DEF NextSplit, Suite
    <2>2. Course'
      BY <1>1, <1>2, <1>6, <2>1 DEF WholeInv, Course, Phases
    <2>3. Coming' = Coming /\ ComingSplits' \subseteq ComingSplits
      BY <1>1, <2>1 DEF Coming, Here, ComingSplits
    <2>4. Unbegun'
      BY <1>1, <2>1, <2>3 DEF WholeInv, Unbegun
    <2>5. Processed'
      BY <1>1, <2>1 DEF WholeInv, Processed, Due, Going
    <2>6. Fresh'
      BY <1>1, <2>1, <2>3 DEF WholeInv, Fresh, Going
    <2>7. Writing'
      <3> DEFINE E == Entries(Suite, h)
                 w == NewWriter(Suite, h)
                 x == [dir |-> dir, writer |-> w]
      <3>1. E \in Seq(Sizes)
        BY <1>2, <1>6, EntriesAre
      <3>2. /\ w = [i \in Fields |-> w[i]] /\ w.buffer = <<>> /\ w.chunk = 0 /\ w.size = 0
            /\ w.suite = Suite /\ w.split = h
        BY DEF NewWriter, Fields
      <3>3. Begun(dir, command, Suite, h, 0)
        <4>1. \A m \in 1 .. 0 : FALSE
          OBVIOUS
        <4>2. ASSUME NEW f \in DOMAIN dir, f = FileOf(Suite, h, f.number)
              PROVE  NoneOf(dir[f], command)
          <5>1. f.suite = Suite /\ f.split = h
            BY <4>2, FileOfIs
          <5>2. h \in ComingSplits
            BY <1>1, <1>2, <1>6 DEF ComingSplits
          <5> HIDE DEF h
          <5> QED BY <1>1, <5>1, <5>2 DEF WholeInv, Unbegun
        <4> QED BY <4>1, <4>2 DEF Begun
      <3> HIDE DEF w, E
      <3>4. Given(x, command, <<>>)
        BY <1>1, <1>3, <3>2, <3>3, NoSeq, NoLines DEF Given, Shaped, Opened
      <3>5. 0 \in 0 .. Len(E) /\ SubSeq(E, 0 + 1, Len(E)) = E /\ SubSeq(E, 1, 0) = <<>>
        <4>1. Len(E) \in Nat /\ IsSeq(E)
          BY <3>1, SeqOfAny
        <4>2. 0 \in 0 .. Len(E) /\ Len(E) \in 0 .. Len(E)
          BY <4>1
        <4>3. IsSeq(SubSeq(E, 1, Len(E))) /\ Len(SubSeq(E, 1, Len(E))) = Len(E)
              /\ \A i \in 1 .. Len(E) : SubSeq(E, 1, Len(E))[i] = E[i]
          BY <4>1, <4>2, PrefixSeq
        <4>4. IsSeq(SubSeq(E, 1, 0)) /\ Len(SubSeq(E, 1, 0)) = 0
          BY <4>1, <4>2, PrefixSeq
        <4>5. SubSeq(E, 1, Len(E)) = E
          BY <4>1, <4>3, SameSeq
        <4>6. SubSeq(E, 1, 0) = <<>>
          BY <4>4, NoSeq
        <4> QED BY <4>2, <4>5, <4>6
      <3>6. Chosen(SubSeq(E, 1, 0), Filled) = <<>>
        BY <3>5, ChosenNone
      <3>7. Files' = x /\ command' = command /\ rest' = E /\ Head(splits') = h
            /\ writer' = w /\ Entries(Suite', Head(splits')) = E
        BY <1>1, <2>1 DEF Files, E, w
      <3> HIDE DEF x, h
      <3>8. \E i \in 0 .. Len(E) : /\ rest' = SubSeq(E, i + 1, Len(E))
                                   /\ Given(Files', command', Chosen(SubSeq(E, 1, i), Filled))
        BY <3>4, <3>5, <3>6, <3>7
      <3> QED BY <2>1, <3>2, <3>7, <3>8 DEF Writing
    <2> QED BY <1>3, <2>2, <2>4, <2>5, <2>6, <2>7 DEF WholeInv
  <1> QED BY <1>4, <1>5, <1>6

-----------------------------------------------------------------------------
(* The steps on a record. *)

LEMMA SameElsewhere ==
    ASSUME NEW d, NEW d2, NEW e, NEW s, NEW n, SameBut(d, d2, e, s, n)
    PROVE  /\ \A f : f.suite # e \/ f.split # s => Same(d, d2, f)
           /\ \A f : f \notin {FileOf(e, s, m) : m \in 1 .. n} => Same(d, d2, f)
  <1>1. \A f : f \notin {FileOf(e, s, m) : m \in 1 .. n} => Same(d, d2, f)
    BY DEF SameBut, Same
  <1>2. \A f : f.suite # e \/ f.split # s => f \notin {FileOf(e, s, m) : m \in 1 .. n}
    BY FileOfIs
  <1> QED BY <1>1, <1>2

(* A step that changes the chunks of the split at hand, or ends it.        *)
LEMMA DiskStep ==
    ASSUME WholeInv, pc = "record", NEW n,
           SameBut(dir, dir', Suite, Head(splits), n),
           Begun(dir', command, Suite, Head(splits), n), DirFits(dir'),
           UNCHANGED <<todo, mode, failed, command, result, userConfig>>,
           \/ pc' = "record" /\ splits' = splits
           \/ /\ pc' = "split" /\ splits' = Tail(splits)
              /\ SplitWhole(dir', command, Suite, Head(splits))
    PROVE  DirFits(dir') /\ Course' /\ Unbegun' /\ Processed' /\ Fresh'
  <1> DEFINE e == Suite
             h == Head(splits)
             T == {FileOf(e, h, m) : m \in 1 .. n}
  <1>1. /\ Config' = Config /\ Suite' = Suite /\ result = "running"
        /\ splits # <<>> /\ h \in DOMAIN Examples[e]
    BY DEF Config, Suite, WholeInv, Course
  <1>2. /\ Suite \in ToSet(todo) /\ Suite \in DOMAIN Config \ failed /\ ~Bundled(Suite)
        /\ h \in ToSet(splits) /\ h \in ToSet(Config[Suite])
        /\ Tail(splits) \in Seq(ToSet(Config[Suite])) /\ OnceIn(Tail(splits))
        /\ ToSet(Tail(splits)) = ToSet(splits) \ {h}
    BY <1>1, RecordFacts
  <1>3. /\ \A f : f.suite # e \/ f.split # h => Same(dir, dir', f)
        /\ \A f : f \notin T => Same(dir, dir', f)
    BY SameElsewhere
  <1>4. \A f \in T : f.suite = e /\ f.split = h /\ f = FileOf(f.suite, f.split, f.number)
                     /\ AllOf(dir'[f], command)
    BY FileOfIs DEF Begun
  <1> HIDE DEF T
  <1>5. Course'
    BY <1>1, <1>2 DEF WholeInv, Course, Phases
  <1>6. Coming' = Coming /\ ComingSplits' = ComingSplits
        /\ e \notin Coming /\ h \notin ComingSplits
    BY <1>1, <1>2 DEF Coming, ComingSplits, Here
  <1>7. Unbegun'
    <2>1. ASSUME NEW f \in DOMAIN dir', ~NoneOf(dir'[f], command)
          PROVE  f.suite \notin Coming /\ (f.suite = e => f.split \notin ComingSplits)
      <3>1. CASE f \in T
        BY <1>4, <1>6, <3>1
      <3>2. CASE f \notin T
        <4>1. f \in DOMAIN dir /\ dir'[f] = dir[f]
          BY <1>3, <2>1, <3>2 DEF Same
        <4> QED BY <2>1, <4>1 DEF WholeInv, Unbegun
      <3> QED BY <3>1, <3>2
    <2> QED BY <1>1, <1>6, <2>1 DEF Unbegun
  <1>8. Processed'
    <2>1. ASSUME NEW i \in DOMAIN Config, mode \in {"download", i}, i \notin failed
          PROVE  SuiteWhole(Config, dir', command, i) \/ Due(i)'
      <3>1. CASE i = e
        BY <1>2, <3>1 DEF Due
      <3>2. CASE i # e
        <4>1. SuiteWhole(Config, dir, command, i) \/ Due(i)
          BY <1>1, <2>1 DEF WholeInv, Processed, Going
        <4>2. Due(i) => Due(i)'
          BY DEF Due
        <4>3. SuiteWhole(Config, dir, command, i) => SuiteWhole(Config, dir', command, i)
          BY <1>3, <3>2, SuiteFrame
        <4> QED BY <4>1, <4>2, <4>3
      <3> QED BY <3>1, <3>2
    <2>2. ASSUME NEW s \in SplitsOf(Config, e) \ ToSet(splits')
          PROVE  SplitWhole(dir', command, e, s)
      <3>1. CASE s \in ToSet(splits)
        BY <1>2, <2>2, <3>1
      <3>2. CASE s \notin ToSet(splits)
        <4>1. SplitWhole(dir, command, e, s)
          BY <2>2, <3>2 DEF WholeInv, Processed
        <4>2. \A m : Same(dir, dir', FileOf(e, s, m))
          BY <1>2, <1>3, <3>2, FileOfIs
        <4> HIDE DEF e
        <4> QED BY <4>1, <4>2, SplitFrame
      <3> QED BY <3>1, <3>2
    <2> QED BY <1>1, <2>1, <2>2 DEF Processed
  <1>9. Fresh'
    <2>1. ASSUME mode = "download", NEW f \in DOMAIN dir'
          PROVE  /\ f.suite \in DOMAIN Config \ failed /\ f.suite \notin Coming
                 /\ FileFresh(Config, dir', command, f)
      <3>1. CASE f \in T
        <4>1. h \in SplitsOf(Config, e)
          BY <1>1, <1>2 DEF SplitsOf
        <4> QED BY <1>2, <1>4, <1>6, <3>1, <4>1 DEF FileFresh
      <3>2. CASE f \notin T
        <4>1. f \in DOMAIN dir /\ dir'[f] = dir[f]
          BY <1>3, <2>1, <3>2 DEF Same
        <4> QED BY <1>1, <2>1, <4>1 DEF WholeInv, Fresh, Going, FileFresh
      <3> QED BY <3>1, <3>2
    <2> QED BY <1>1, <1>6, <2>1 DEF Fresh
  <1> QED BY <1>5, <1>7, <1>8, <1>9

LEMMA SkipStep ==
    ASSUME WholeInv, SkipEntry
    PROVE  WholeInv'
  <1> DEFINE E == Entries(Suite, Head(splits))
  <1>1. /\ pc = "record" /\ rest # <<>> /\ Head(rest).size = 0 /\ rest' = Tail(rest)
        /\ UNCHANGED <<dir, userConfig, pc, mode, todo, splits, copies, failed, writer, result, command>>
    BY DEF SkipEntry
  <1>2. E \in Seq(Sizes)
    BY <1>1, RecordFacts, EntriesAre DEF WholeInv, Course
  <1>3. /\ writer.suite = Suite /\ writer.split = Head(splits)
        /\ \E i \in 0 .. Len(E) : /\ rest = SubSeq(E, i + 1, Len(E))
                                  /\ Given(Files, command, Chosen(SubSeq(E, 1, i), Filled))
    BY <1>1 DEF WholeInv, Writing
  <1>4. E' = E /\ Suite' = Suite /\ Head(splits') = Head(splits) /\ Files' = Files
    BY <1>1 DEF Suite, Files
  <1> HIDE DEF E
  <1>5. PICK i \in 0 .. Len(E) : /\ rest = SubSeq(E, i + 1, Len(E))
                                 /\ Given(Files, command, Chosen(SubSeq(E, 1, i), Filled))
    BY <1>3
  <1>6. /\ i + 1 \in 0 .. Len(E) /\ Tail(rest) = SubSeq(E, (i + 1) + 1, Len(E))
        /\ Head(rest) = E[i + 1]
        /\ Chosen(SubSeq(E, 1, i + 1), Filled)
             = IF E[i + 1] \in Filled THEN Append(Chosen(SubSeq(E, 1, i), Filled), E[i + 1])
               ELSE Chosen(SubSeq(E, 1, i), Filled)
    BY <1>1, <1>2, <1>5, AtHand
  <1>7. E[i + 1] \notin Filled
    BY <1>1, <1>6 DEF Filled
  <1>8. \E j \in 0 .. Len(E) : /\ rest' = SubSeq(E, j + 1, Len(E))
                               /\ Given(Files, command, Chosen(SubSeq(E, 1, j), Filled))
    BY <1>1, <1>5, <1>6, <1>7
  <1>9. Writing'
    BY <1>1, <1>3, <1>4, <1>8 DEF Writing, E
  <1>10. DirFits(dir') /\ Course' /\ Unbegun' /\ Processed' /\ Fresh'
    BY <1>1 DEF WholeInv, Course, Unbegun, Processed, Fresh, Config, Suite, Coming, ComingSplits,
       Here, Going, Due
  <1> QED BY <1>9, <1>10 DEF WholeInv

LEMMA WriteStep ==
    ASSUME WholeInv, WriteRecord
    PROVE  WholeInv'
  <1> DEFINE h == Head(splits)
             E == Entries(Suite, h)
             r == [suite |-> Suite, split |-> h, example |-> Head(rest).example,
                   size |-> Head(rest).size, doc_id |-> counter, command |-> command]
             x == Write(Files, r)
  <1>1. /\ pc = "record" /\ rest # <<>> /\ Head(rest).size > 0 /\ rest' = Tail(rest)
        /\ dir' = x.dir /\ writer' = x.writer
        /\ UNCHANGED <<userConfig, pc, mode, todo, splits, copies, failed, result, command>>
    BY DEF WriteRecord, Become
  <1>2. E \in Seq(Sizes)
    BY <1>1, RecordFacts, EntriesAre DEF WholeInv, Course
  <1>3. /\ writer.suite = Suite /\ writer.split = h
        /\ \E i \in 0 .. Len(E) : /\ rest = SubSeq(E, i + 1, Len(E))
                                  /\ Given(Files, command, Chosen(SubSeq(E, 1, i), Filled))
    BY <1>1 DEF WholeInv, Writing
  <1>4. E' = E /\ Suite' = Suite /\ Head(splits') = h
    BY <1>1 DEF Suite
  <1> HIDE DEF E, x
  <1>5. PICK i \in 0 .. Len(E) : /\ rest = SubSeq(E, i + 1, Len(E))
                                 /\ Given(Files, command, Chosen(SubSeq(E, 1, i), Filled))
    BY <1>3
  <1> DEFINE G == Chosen(SubSeq(E, 1, i), Filled)
             q == E[i + 1]
  <1>6. /\ i + 1 \in 0 .. Len(E) /\ Tail(rest) = SubSeq(E, (i + 1) + 1, Len(E))
        /\ Head(rest) = q /\ q \in Sizes
        /\ Chosen(SubSeq(E, 1, i + 1), Filled) = IF q \in Filled THEN Append(G, q) ELSE G
    <2>1. E \in Seq(Sizes) /\ i \in 0 .. Len(E) /\ rest = SubSeq(E, i + 1, Len(E)) /\ rest # <<>>
      BY <1>1, <1>2, <1>5
    <2>2. /\ i + 1 \in 0 .. Len(E) /\ Head(rest) = E[i + 1] /\ E[i + 1] \in Sizes
          /\ Tail(rest) = SubSeq(E, (i + 1) + 1, Len(E))
          /\ \A T : Chosen(SubSeq(E, 1, i + 1), T)
                      = IF E[i + 1] \in T THEN Append(Chosen(SubSeq(E, 1, i), T), E[i + 1])
                        ELSE Chosen(SubSeq(E, 1, i), T)
      BY <2>1, AtHand
    <2> QED BY <2>2
  <1>7. q \in Filled /\ q = [example |-> r.example, size |-> r.size] /\ r.size \in Nat
    BY <1>1, <1>6 DEF Filled, Sizes
  <1>8. IsSeq(G)
    <2>1. i \in 0 .. Len(E) /\ IsSeq(E)
      BY <1>2, SeqOfAny
    <2>2. IsSeq(SubSeq(E, 1, i))
      BY <2>1, PrefixSeq
    <2> QED BY <2>2, ChosenIsSeq
  <1>9. Files.writer = writer /\ Files.dir = dir
    BY DEF Files
  <1>10. /\ Given(x, command, Append(G, q)) /\ SameWriter(Files, x)
         /\ SameBut(dir, x.dir, Suite, h, x.writer.chunk)
    <2>1. r.command = command /\ r.suite = Files.writer.suite
      BY <1>3, <1>9
    <2> DEFINE p == [example |-> r.example, size |-> r.size]
    <2>2. p = q /\ r.size \in Nat /\ Given(Files, command, G)
      BY <1>5, <1>7
    <2> HIDE DEF G, r, q
    <2>3. /\ Given(x, command, Append(G, p)) /\ SameWriter(Files, x)
          /\ SameBut(Files.dir, x.dir, Files.writer.suite, Files.writer.split, x.writer.chunk)
      BY <1>8, <2>1, <2>2, WriteGiven DEF x
    <2> QED BY <1>3, <1>9, <2>2, <2>3
  <1>11. /\ x.writer.suite = Suite /\ x.writer.split = h
         /\ x = [dir |-> x.dir, writer |-> x.writer]
         /\ DirFits(x.dir) /\ Begun(x.dir, command, Suite, h, x.writer.chunk)
    BY <1>3, <1>9, <1>10 DEF SameWriter, Given, Shaped
  <1>12. Files' = x
    BY <1>1, <1>11 DEF Files
  <1>13. \E j \in 0 .. Len(E) : /\ rest' = SubSeq(E, j + 1, Len(E))
                                /\ Given(x, command, Chosen(SubSeq(E, 1, j), Filled))
    BY <1>1, <1>6, <1>7, <1>10
  <1> HIDE DEF h
  <1>14. Writing'
    BY <1>1, <1>4, <1>11, <1>12, <1>13 DEF Writing, E
  <1>15. DirFits(dir') /\ Course' /\ Unbegun' /\ Processed' /\ Fresh'
    BY <1>1, <1>10, <1>11, DiskStep DEF h
  <1> QED BY <1>14, <1>15 DEF WholeInv

LEMMA EndStep ==
    ASSUME WholeInv, EndSplit
    PROVE  WholeInv'
  <1> DEFINE h == Head(splits)
             E == Entries(Suite, h)
             x == Flush(Files)
             n == x.writer.chunk
  <1>1. /\ pc = "record" /\ rest = <<>> /\ pc' = "split" /\ splits' = Tail(splits)
        /\ dir' = x.dir /\ UNCHANGED <<userConfig, mode, todo, failed, result, command>>
    BY DEF EndSplit, Become, Close
  <1>2. E \in Seq(Sizes)
    BY <1>1, RecordFacts, EntriesAre DEF WholeInv, Course
  <1>3. /\ writer.suite = Suite /\ writer.split = h
        /\ \E i \in 0 .. Len(E) : /\ rest = SubSeq(E, i + 1, Len(E))
                                  /\ Given(Files, command, Chosen(SubSeq(E, 1, i), Filled))
    BY <1>1 DEF WholeInv, Writing
  <1> DEFINE G == Chosen(E, Filled)
  <1>4. Given(Files, command, G)
    <2> HIDE DEF E
    <2>1. PICK i \in 0 .. Len(E) : /\ rest = SubSeq(E, i + 1, Len(E))
                                   /\ Given(Files, command, Chosen(SubSeq(E, 1, i), Filled))
      BY <1>3
    <2>2. SubSeq(E, 1, i) = E
      BY <1>1, <1>2, <2>1, AtHand
    <2> QED BY <2>1, <2>2
  <1>5. G = Made(Suite, h)
    BY DEF Made, Filled
  <1>6. Files.writer = writer /\ Files.dir = dir
    BY DEF Files
  <1> HIDE DEF x, G
  <1>7. /\ Given(x, command, G) /\ x.writer.buffer = <<>>
        /\ x.writer.suite = Suite /\ x.writer.split = h
        /\ SameBut(dir, x.dir, Suite, h, n)
    BY <1>3, <1>4, <1>6, FlushGiven DEF SameWriter, x
  <1>8. Strip(Written(x.dir, Suite, h, n)) = G
    BY <1>7, Emptied
  <1>9. n \in Nat /\ DirFits(x.dir) /\ Begun(x.dir, command, Suite, h, n)
    BY <1>7 DEF Given
  <1> HIDE DEF h, n
  <1>10. SplitWhole(x.dir, command, Suite, h)
    BY <1>5, <1>8, <1>9 DEF SplitWhole
  <1>11. DirFits(dir') /\ Course' /\ Unbegun' /\ Processed' /\ Fresh'
    BY <1>1, <1>7, <1>9, <1>10, DiskStep DEF h
  <1> QED BY <1>1, <1>11 DEF WholeInv, Writing

LEMMA RaiseStep ==
    ASSUME WholeInv, Raise
    PROVE  WholeInv'
  <1>1. pc' = "idle" /\ result' = "error" /\ UNCHANGED userConfig
    BY DEF Raise
  <1>2. DirFits(dir')
    <2>1. CASE dir' = dir
      BY <2>1 DEF WholeInv
    <2>2. CASE pc = "record" /\ Become(Close(Files))
      <3>1. PICK G : Given(Files, command, G)
        BY <2>2 DEF WholeInv, Writing
      <3>2. Given(Flush(Files), command, G)
        BY <3>1, FlushGiven
      <3> QED BY <2>2, <3>2 DEF Given, Become, Close
    <2> QED BY <2>1, <2>2 DEF Raise
  <1> QED BY <1>1, <1>2, StoppedStep

LEMMA KillStep ==
    ASSUME IdInv, WholeInv, Kill
    PROVE  WholeInv'
  <1>1. pc' = "idle" /\ result' = "error" /\ UNCHANGED userConfig /\ dir' \in Partial
    BY DEF Kill
  <1>2. DirFits(dir)
    BY DEF WholeInv
  <1>3. CASE dir' = dir
    BY <1>1, <1>2, <1>3, StoppedStep
  <1>4. CASE pc = "clear"
    <2>1. PICK keep \in SUBSET DOMAIN dir : dir' = [f \in keep |-> dir[f]]
      BY <1>1, <1>4 DEF Partial
    <2>2. IsFiniteSet(keep)
      BY <1>2, FS_Subset DEF DirFits
    <2>3. DirFits(dir')
      BY <1>2, <2>1, <2>2 DEF DirFits
    <2> QED BY <1>1, <2>3, StoppedStep
  <1>5. CASE pc = "copy" /\ dir' # dir
    <2>1. PICK b \in copies : \E n \in 0 .. Len(b.lines) :
                 dir' = With(dir, b.file, SubSeq(b.lines, 1, n))
      BY <1>1, <1>5 DEF Partial
    <2>2. PICK n \in 0 .. Len(b.lines) : dir' = With(dir, b.file, SubSeq(b.lines, 1, n))
      BY <2>1
    <2> DEFINE e == Suite
    <2>3. Bundled(e) /\ b \in BundledFiles[e]
      BY <1>5 DEF WholeInv, Course
    <2> HIDE DEF e
    <2>4. b.file.suite = e /\ FileFits(b.lines, e)
      BY <2>3, BundleFacts
    <2>5. FileFits(SubSeq(b.lines, 1, n), b.file.suite)
      BY <2>4, PrefixFits
    <2>6. DirFits(dir')
      BY <1>2, <2>2, <2>5, WithFits
    <2> QED BY <1>1, <2>6, StoppedStep
  <1>6. CASE pc = "record" /\ Opened(writer)
    <2> DEFINE f == Chunk(writer)
    <2>1. PICK n \in 0 .. Len(dir[f]) : dir' = With(dir, f, SubSeq(dir[f], 1, n))
      BY <1>1, <1>6 DEF Partial
    <2>2. f \in DOMAIN dir
      BY <1>6 DEF IdInv, FilesOK, Files
    <2> HIDE DEF f
    <2>3. FileFits(SubSeq(dir[f], 1, n), f.suite)
      BY <1>2, <2>2, PrefixFits DEF DirFits
    <2>4. DirFits(dir')
      BY <1>2, <2>1, <2>3, WithFits
    <2> QED BY <1>1, <2>4, StoppedStep
  <1>7. pc = "clear" \/ pc = "copy" \/ (pc = "record" /\ Opened(writer)) \/ dir' = dir
    BY <1>1 DEF Partial
  <1> QED BY <1>3, <1>4, <1>5, <1>6, <1>7

LEMMA WholeStep == IdInv /\ WholeInv /\ [Next]_vars => WholeInv'
  <1> SUFFICES ASSUME IdInv, WholeInv, [Next]_vars PROVE WholeInv'
    OBVIOUS
  <1>1. CASE UNCHANGED vars
    <2>1. UNCHANGED <<dir, userConfig, pc, mode, todo, splits, copies, rest, failed, writer, result, command>>
      BY <1>1 DEF vars, place
    <2> QED BY <2>1 DEF WholeInv, Course, Unbegun, Processed, Writing, Fresh, Config, Suite,
           Coming, ComingSplits, Here, Going, Due, Files
  <1>2. CASE Next
    BY <1>2, StartStep, EditStep, ClearStep, NextSuiteStep, LoadStep, LoadFailsStep, CopyStep,
       NextSplitStep, SkipStep, WriteStep, EndStep, RaiseStep, KillStep DEF Next
  <1> QED BY <1>1, <1>2

-----------------------------------------------------------------------------
(* What is kept when a command has ended. *)

LEMMA MembersFinite == ASSUME NEW s, IsSeq(s) PROVE IsFiniteSet(ToSet(s))
  <1>1. Len(s) \in Nat /\ DOMAIN s = 1 .. Len(s)
    BY SeqFacts
  <1> DEFINE I == 1 .. Len(s)
             f == [i \in I |-> s[i]]
  <1>2. f \in Surjection(I, ToSet(s))
    BY <1>1 DEF Surjection, ToSet
  <1>3. IsFiniteSet(I)
    BY <1>1, UpTo
  <1> HIDE DEF I, f
  <1> QED BY <1>2, <1>3, FS_Surjection

LEMMA KeptIs ==
    ASSUME DirFits(dir), NEW e, NEW s, NEW n \in Nat, Begun(dir, command, e, s, n)
    PROVE  Kept(e, s) = Written(dir, e, s, n)
  <1> DEFINE N == Cardinality(DOMAIN dir)
             F(m) == FileOf(e, s, m)
             ss == [m \in 1 .. N |-> Current(Lines(F(m)))]
  <1>1. IsFiniteSet(DOMAIN dir) /\ N \in Nat
    BY FS_CardinalityType DEF DirFits
  <1>2. \A m \in 1 .. n : F(m) \in DOMAIN dir /\ AllOf(dir[F(m)], command)
    BY DEF Begun
  <1>3. \A f \in DOMAIN dir : IsSeq(dir[f])
    BY DEF DirFits, FileFits
  <1>4. n <= N
    <2> DEFINE I == 1 .. n
               T == {F(m) : m \in I}
               g == [m \in I |-> F(m)]
    <2>1. IsFiniteSet(I) /\ Cardinality(I) = n
      BY UpTo
    <2>2. /\ \A m \in I : g[m] \in T
          /\ \A k, l \in I : g[k] = g[l] => k = l
          /\ \A f \in T : \E m \in I : f = g[m]
      BY FileOfIs
    <2>3. T \subseteq DOMAIN dir
      BY <1>2
    <2> HIDE DEF I, T, g
    <2>4. Cardinality(T) = n
      BY <2>1, <2>2, Renamed
    <2>5. Cardinality(T) <= N
      BY <1>1, <2>3, FS_Subset
    <2> QED BY <2>4, <2>5
  <1>5. Kept(e, s) = FlattenSeq(ss)
    BY DEF Kept, FileOf
  <1>6. \A m : IsSeq(Lines(F(m)))
    BY <1>3, NoSeq DEF Lines
  <1>7. \A m : IsSeq(Current(Lines(F(m))))
    BY <1>6, ChosenIsSeq DEF Current
  <1>8. ASSUME NEW m \in 1 .. n PROVE Current(Lines(F(m))) = dir[F(m)]
    <2> DEFINE l == dir[F(m)]
               T == {r \in ToSet(l) : r.command = command}
    <2>1. IsSeq(l) /\ AllOf(l, command) /\ Lines(F(m)) = l
      BY <1>2, <1>3 DEF Lines
    <2>2. DOMAIN l = 1 .. Len(l) /\ Len(l) \in Nat /\ \A k \in DOMAIN l : l[k] \in ToSet(l)
      BY <2>1, SeqFacts
    <2>3. \A k \in 1 .. Len(l) : l[k] \in T
      BY <2>1, <2>2 DEF AllOf
    <2>4. l \in Seq(ToSet(l))
      BY <2>1 DEF IsSeq
    <2>5. Current(l) = Chosen(l, T)
      BY DEF Current
    <2> HIDE DEF T, l
    <2>6. l \in Seq(T)
      <3>1. l = [k \in 1 .. Len(l) |-> l[k]]
        BY <2>2, <2>4
      <3> QED BY <2>2, <2>3, <3>1, SeqDef
    <2>7. Current(l) = l
      BY <2>5, <2>6, ChosenAll
    <2> QED BY <2>1, <2>7 DEF l
  <1>9. ASSUME NEW m \in n + 1 .. N PROVE Current(Lines(F(m))) = <<>>
    <2>1. CASE F(m) \in DOMAIN dir
      <3> DEFINE l == dir[F(m)]
                 T == {r \in ToSet(l) : r.command = command}
      <3>1. m \notin 1 .. n
        OBVIOUS
      <3>2. F(m) = FileOf(e, s, F(m).number) /\ F(m).number = m
        BY FileOfIs
      <3>3. NoneOf(l, command) /\ IsSeq(l) /\ Lines(F(m)) = l
        BY <1>3, <2>1, <3>1, <3>2 DEF Begun, Lines
      <3>4. DOMAIN l = 1 .. Len(l)
        BY <3>3, SeqFacts
      <3>5. \A k \in 1 .. Len(l) : l[k] \notin T
        BY <3>3, <3>4 DEF NoneOf
      <3>6. Current(l) = Chosen(l, T)
        BY DEF Current
      <3> HIDE DEF T, l
      <3>7. Current(l) = <<>>
        BY <3>3, <3>5, <3>6, ChosenNoMember
      <3> QED BY <3>3, <3>7 DEF l
    <2>2. CASE F(m) \notin DOMAIN dir
      BY <2>2, ChosenNone DEF Lines, Current
    <2> QED BY <2>1, <2>2
  <1> DEFINE T == {Current(Lines(F(m))) : m \in 1 .. N}
  <1>10. IsSeq(ss) /\ Len(ss) = N /\ \A m \in 1 .. N : ss[m] = Current(Lines(F(m)))
    <2>1. \A m \in 1 .. N : Current(Lines(F(m))) \in T
      OBVIOUS
    <2> HIDE DEF T, N
    <2>2. ss \in Seq(T)
      BY <1>1, <2>1
    <2> QED BY <1>1, <2>2, SeqOfAny
  <1>11. AllSeqs(ss)
    BY <1>7, <1>10 DEF AllSeqs
  <1> HIDE DEF ss, N, F
  <1>12. FlattenSeq(ss) = FlattenSeq(SubSeq(ss, 1, n))
    <2>1. n \in 0 .. Len(ss)
      BY <1>1, <1>4, <1>10
    <2>2. \A k \in n + 1 .. Len(ss) : ss[k] = <<>>
      <3>1. \A k \in n + 1 .. N : k \in 1 .. N
        BY <1>1
      <3> QED BY <1>9, <1>10, <3>1
    <2> QED BY <1>11, <2>1, <2>2, FlattenPad
  <1>13. SubSeq(ss, 1, n) = Chunks(dir, e, s, n)
    <2> DEFINE p == SubSeq(ss, 1, n)
               q == Chunks(dir, e, s, n)
    <2>1. n \in 0 .. Len(ss)
      BY <1>1, <1>4, <1>10
    <2>2. IsSeq(p) /\ Len(p) = n /\ \A m \in 1 .. n : p[m] = ss[m]
      BY <1>10, <2>1, PrefixSeq
    <2>3. \A m \in 1 .. n : IsSeq(dir[FileOf(e, s, m)])
      BY <1>2, <1>3 DEF F
    <2>4. IsSeq(q) /\ Len(q) = n
      BY <2>3, ChunkLists DEF AllSeqs
    <2>5. ASSUME NEW m \in 1 .. n PROVE p[m] = q[m]
      <3>1. m \in 1 .. N
        BY <1>1, <1>4
      <3>2. p[m] = dir[F(m)]
        BY <1>8, <1>10, <2>2, <3>1
      <3> QED BY <3>2 DEF Chunks, F
    <2> HIDE DEF p, q
    <2>6. p = q
      BY <2>2, <2>4, <2>5, SameSeq
    <2> QED BY <2>6 DEF p, q
  <1> QED BY <1>5, <1>12, <1>13 DEF Written

LEMMA WholeInvariant == Spec => [](IdInv /\ WholeInv)
  BY IdInit, IdStep, WholeInit, WholeStep, PTL DEF Spec

LEMMA EndedWhole ==
    ASSUME WholeInv, Ended, NEW e \in Done
    PROVE  e \in DOMAIN Config /\ SuiteWhole(Config, dir, command, e)
  BY DEF WholeInv, Processed, Due, Ended, Done, Going

(* What a finished command has processed is in the directory as a whole,   *)
(* and no chunk is too large, for any files, buffer and chunk sizes and    *)
(* whatever was killed, raised or edited before: what is written, flushed  *)
(* and still in the buffer adds up to the examples gone through.           *)
THEOREM ChunksWholeHolds == Spec => []ChunksWhole
  <1>1. WholeInv => LinesWhole
    <2> SUFFICES ASSUME WholeInv, Ended, NEW e \in Done
                 PROVE  IF Bundled(e) THEN \A f \in BundledFiles[e] : Lines(f.file) = f.lines
                        ELSE \A s \in Splits(e) : Strip(Kept(e, s)) = Made(e, s)
      BY DEF LinesWhole
    <2>1. SuiteWhole(Config, dir, command, e)
      BY EndedWhole
    <2>2. CASE Bundled(e)
      BY <2>1, <2>2 DEF SuiteWhole, FilesWhole, Lines
    <2>3. CASE ~Bundled(e)
      <3>1. ASSUME NEW s \in Splits(e) PROVE Strip(Kept(e, s)) = Made(e, s)
        <4>1. SplitWhole(dir, command, e, s)
          BY <2>1, <2>3 DEF SuiteWhole, Splits, SplitsOf
        <4>2. PICK n \in Nat : /\ Begun(dir, command, e, s, n)
                               /\ Strip(Written(dir, e, s, n)) = Made(e, s)
          BY <4>1 DEF SplitWhole
        <4>3. Kept(e, s) = Written(dir, e, s, n)
          BY <4>2, KeptIs DEF WholeInv
        <4> QED BY <4>2, <4>3
      <3> QED BY <2>3, <3>1
    <2> QED BY <2>2, <2>3
  <1>2. WholeInv => ChunksFit
    BY DEF WholeInv, DirFits, FileFits, Fits, ChunksFit
  <1>3. IdInv /\ WholeInv => ChunksWhole
    BY <1>1, <1>2 DEF ChunksWhole
  <1> QED BY <1>3, WholeInvariant, PTL

-----------------------------------------------------------------------------
(* The count of a suite's lines. *)

Rows(d, f) == {<<f, k>> : k \in DOMAIN d[f]}

LEMMA RowsCount ==
    ASSUME NEW d, NEW f, IsSeq(d[f])
    PROVE  IsFiniteSet(Rows(d, f)) /\ Cardinality(Rows(d, f)) = Len(d[f])
  <1> DEFINE n == Len(d[f])
             I == 1 .. n
             g == [k \in I |-> <<f, k>>]
             R == Rows(d, f)
  <1>1. n \in Nat /\ DOMAIN d[f] = I
    BY SeqFacts
  <1>2. IsFiniteSet(I) /\ Cardinality(I) = n
    <2> HIDE DEF n
    <2> QED BY <1>1, UpTo
  <1>3. /\ \A k \in I : g[k] \in R
        /\ \A k, l \in I : g[k] = g[l] => k = l
        /\ \A p \in R : \E k \in I : p = g[k]
    <2> HIDE DEF I
    <2> QED BY <1>1 DEF Rows
  <1> HIDE DEF I, g, R, n
  <1>4. IsFiniteSet(R) /\ Cardinality(R) = n
    BY <1>2, <1>3, Renamed
  <1> QED BY <1>4 DEF R, n

(* The lines of a split, when its files are all of this command.           *)
SplitRows(d, e, s) == UNION {Rows(d, f) : f \in {g \in DOMAIN d : g.suite = e /\ g.split = s}}

LEMMA SplitCount ==
    ASSUME NEW d, NEW c, NEW e, NEW s, SplitWhole(d, c, e, s),
           \A f \in DOMAIN d : f.suite = e /\ f.split = s => f = FileOf(e, s, f.number) /\ AllOf(d[f], c),
           \A f \in DOMAIN d : IsSeq(d[f])
    PROVE  IsFiniteSet(SplitRows(d, e, s)) /\ Cardinality(SplitRows(d, e, s)) = Len(Made(e, s))
           /\ Len(Made(e, s)) \in Nat
  <1>1. PICK n \in Nat : Begun(d, c, e, s, n) /\ Strip(Written(d, e, s, n)) = Made(e, s)
    BY DEF SplitWhole
  <1> DEFINE A == 1 .. n
             F(m) == FileOf(e, s, m)
             R == [m \in A |-> Rows(d, F(m))]
             q == Chunks(d, e, s, n)
             g == Lengths(q)
  <1>2. \A m \in A : F(m) \in DOMAIN d /\ IsSeq(d[F(m)])
    BY <1>1 DEF Begun
  <1>3. /\ AllSeqs(q) /\ Len(q) = n /\ IsSeq(Written(d, e, s, n))
        /\ \A m \in A : q[m] = d[F(m)]
    BY <1>2, ChunkLists DEF Chunks
  <1>4. IsFiniteSet(A)
    BY UpTo
  <1>5. \A m \in A : IsFiniteSet(R[m]) /\ Cardinality(R[m]) = Len(d[F(m)]) /\ Len(d[F(m)]) \in Nat
    BY <1>2, RowsCount, SeqFacts
  <1>6. g \in [A -> Nat] /\ \A m \in A : g[m] = Len(d[F(m)])
    <2> HIDE DEF q, A
    <2>1. DOMAIN g = A /\ \A m \in A : g[m] = Len(d[F(m)])
      BY <1>3 DEF Lengths, A
    <2> QED BY <1>5, <2>1 DEF Lengths
  <1>7. \A k, l \in A : k # l => R[k] \cap R[l] = {}
    <2>1. \A k, l \in A : k # l => F(k) # F(l)
      BY FileOfIs
    <2> HIDE DEF F, A
    <2> QED BY <2>1 DEF Rows
  <1>8. SplitRows(d, e, s) = UNION {R[m] : m \in A}
    <2>1. ASSUME NEW f \in DOMAIN d, f.suite = e, f.split = s, f \notin {F(m) : m \in A}
          PROVE  Rows(d, f) = {}
      <3>1. f = FileOf(e, s, f.number) /\ AllOf(d[f], c)
        BY <2>1
      <3>2. f.number \notin A
        BY <2>1, <3>1
      <3>3. NoneOf(d[f], c)
        BY <1>1, <3>1, <3>2 DEF Begun
      <3> QED BY <3>1, <3>3 DEF AllOf, NoneOf, Rows
    <2>2. \A m \in A : F(m) \in DOMAIN d /\ F(m).suite = e /\ F(m).split = s /\ R[m] = Rows(d, F(m))
      BY <1>2, FileOfIs
    <2> HIDE DEF F, A, R
    <2>3. \A p \in SplitRows(d, e, s) : p \in UNION {R[m] : m \in A}
      BY <2>1, <2>2 DEF SplitRows
    <2>4. \A p \in UNION {R[m] : m \in A} : p \in SplitRows(d, e, s)
      BY <2>2 DEF SplitRows
    <2> QED BY <2>3, <2>4
  <1>9. IsFiniteSet(SplitRows(d, e, s)) /\ Cardinality(SplitRows(d, e, s)) = SumOf(g)
    <2>1. \A m \in A : IsFiniteSet(R[m]) /\ Cardinality(R[m]) = g[m]
      BY <1>5, <1>6
    <2>2. g \in NatsOn(A)
      BY <1>6 DEF NatsOn
    <2> HIDE DEF A, R, g
    <2>3. IsFiniteSet(UNION {R[m] : m \in A}) /\ Cardinality(UNION {R[m] : m \in A}) = SumOf(g)
      BY <1>4, <1>7, <2>1, <2>2, FamilySum
    <2> QED BY <1>8, <2>3
  <1>10. Len(FlattenSeq(q)) = SumOf(g)
    <2> HIDE DEF q
    <2> QED BY <1>3, Uniform, FlattenLength
  <1>11. Len(Made(e, s)) = Len(Written(d, e, s, n)) /\ Len(Made(e, s)) \in Nat
    <2> DEFINE l == Written(d, e, s, n)
    <2> HIDE DEF l
    <2>1. IsSeq(l) /\ Strip(l) = Made(e, s)
      BY <1>1, <1>3 DEF l
    <2>2. Len(Strip(l)) = Len(l) /\ Len(l) \in Nat
      BY <2>1, StripFacts, SeqFacts
    <2> QED BY <2>1, <2>2 DEF l
  <1> QED BY <1>9, <1>10, <1>11 DEF Written

(* The lines of a suite.                                                   *)
SuiteFiles(d, e) == {f \in DOMAIN d : f.suite = e}
SuiteRows(d, e) == UNION {Rows(d, f) : f \in SuiteFiles(d, e)}

LEMMA QuestionsAre ==
    ASSUME DirFits(dir), NEW e
    PROVE  QuestionsOf(e) = Cardinality(SuiteRows(dir, e))
  <1> DEFINE Q == {p \in Records : Line(p).suite = e}
  <1>1. \A f \in DOMAIN dir : \A k \in DOMAIN dir[f] : dir[f][k].suite = f.suite
    BY DEF DirFits, FileFits, Home
  <1>2. ASSUME NEW p \in Q PROVE p \in SuiteRows(dir, e)
    <2>1. PICK f \in DOMAIN dir : p \in {<<f, k>> : k \in DOMAIN dir[f]}
      BY DEF Records
    <2>2. PICK k \in DOMAIN dir[f] : p = <<f, k>>
      BY <2>1
    <2>3. Line(p) = dir[f][k]
      BY <2>2 DEF Line
    <2>4. f.suite = e
      BY <1>1, <2>2, <2>3
    <2> QED BY <2>1, <2>4 DEF SuiteRows, SuiteFiles, Rows
  <1>3. ASSUME NEW p \in SuiteRows(dir, e) PROVE p \in Q
    <2>1. PICK f \in SuiteFiles(dir, e) : p \in Rows(dir, f)
      BY DEF SuiteRows
    <2>2. PICK k \in DOMAIN dir[f] : p = <<f, k>>
      BY <2>1 DEF Rows
    <2>3. f \in DOMAIN dir /\ f.suite = e
      BY DEF SuiteFiles
    <2>4. Line(p) = dir[f][k] /\ p \in Records
      BY <2>2, <2>3 DEF Line, Records
    <2> QED BY <1>1, <2>2, <2>3, <2>4
  <1>4. Q = SuiteRows(dir, e)
    <2> HIDE DEF Q
    <2> QED BY <1>2, <1>3
  <1> QED BY <1>4 DEF QuestionsOf

LEMMA BundledCount ==
    ASSUME NEW d, NEW e, Bundled(e), FilesWhole(d, BundledFiles[e]),
           \A f \in SuiteFiles(d, e) : \E b \in BundledFiles[e] : f = b.file
    PROVE  Cardinality(SuiteRows(d, e)) = SumOf([b \in BundledFiles[e] |-> Len(b.lines)])
  <1> DEFINE A == BundledFiles[e]
             R == [b \in A |-> Rows(d, b.file)]
             g == [b \in A |-> Len(b.lines)]
  <1>1. IsFiniteSet(A)
    BY BundleAssumption DEF Bundled
  <1>2. ASSUME NEW b \in A
        PROVE  /\ b.file \in SuiteFiles(d, e) /\ d[b.file] = b.lines
               /\ IsSeq(b.lines) /\ Len(b.lines) \in Nat
               /\ \A a \in A : a.file = b.file => a = b
    <2>1. b.file.suite = e /\ FileFits(b.lines, e) /\ \A a \in A : a.file = b.file => a = b
      BY BundleFacts
    <2>2. b.file \in DOMAIN d /\ d[b.file] = b.lines
      BY DEF FilesWhole
    <2> QED BY <2>1, <2>2, SeqFacts DEF SuiteFiles, FileFits
  <1>3. \A b \in A : IsFiniteSet(R[b]) /\ Cardinality(R[b]) = g[b]
    BY <1>2, RowsCount
  <1>4. g \in NatsOn(A)
    BY <1>2 DEF NatsOn
  <1>5. \A a, b \in A : a # b => R[a] \cap R[b] = {}
    <2>1. \A a, b \in A : a # b => a.file # b.file
      BY <1>2
    <2> HIDE DEF A
    <2> QED BY <2>1 DEF Rows
  <1>6. \A b \in A : R[b] = Rows(d, b.file)
    OBVIOUS
  <1>7. \A f \in SuiteFiles(d, e) : \E b \in A : f = b.file
    OBVIOUS
  <1> HIDE DEF A, R, g
  <1>8. SuiteRows(d, e) = UNION {R[b] : b \in A}
    <2>1. \A p \in SuiteRows(d, e) : p \in UNION {R[b] : b \in A}
      BY <1>6, <1>7 DEF SuiteRows
    <2>2. \A p \in UNION {R[b] : b \in A} : p \in SuiteRows(d, e)
      BY <1>2, <1>6 DEF SuiteRows
    <2> QED BY <2>1, <2>2
  <1>9. Cardinality(UNION {R[b] : b \in A}) = SumOf(g)
    BY <1>1, <1>3, <1>4, <1>5, FamilySum
  <1> QED BY <1>8, <1>9 DEF g, A

LEMMA WrittenCount ==
    ASSUME NEW d, NEW c, NEW e, NEW A, IsFiniteSet(A), DirFits(d),
           \A s \in A : SplitWhole(d, c, e, s),
           \A f \in SuiteFiles(d, e) : f.split \in A /\ f = FileOf(e, f.split, f.number) /\ AllOf(d[f], c)
    PROVE  Cardinality(SuiteRows(d, e)) = SumOf([s \in A |-> Len(Made(e, s))])
  <1> DEFINE R == [s \in A |-> SplitRows(d, e, s)]
             g == [s \in A |-> Len(Made(e, s))]
  <1>1. \A f \in DOMAIN d : IsSeq(d[f])
    BY DEF DirFits, FileFits
  <1>2. ASSUME NEW s \in A
        PROVE  IsFiniteSet(SplitRows(d, e, s)) /\ Cardinality(SplitRows(d, e, s)) = Len(Made(e, s))
               /\ Len(Made(e, s)) \in Nat
    <2>1. SplitWhole(d, c, e, s)
      OBVIOUS
    <2>2. \A f \in DOMAIN d : f.suite = e /\ f.split = s => f = FileOf(e, s, f.number) /\ AllOf(d[f], c)
      BY DEF SuiteFiles
    <2> QED BY <1>1, <2>1, <2>2, SplitCount
  <1>3. \A s \in A : IsFiniteSet(R[s]) /\ Cardinality(R[s]) = g[s]
    BY <1>2
  <1>4. g \in NatsOn(A)
    BY <1>2 DEF NatsOn
  <1>5. \A s, t \in A : s # t => R[s] \cap R[t] = {}
    BY DEF SplitRows, Rows
  <1>6. \A s \in A : R[s] = SplitRows(d, e, s)
    OBVIOUS
  <1> HIDE DEF R, g
  <1>7. SuiteRows(d, e) = UNION {R[s] : s \in A}
    <2>1. ASSUME NEW f \in SuiteFiles(d, e) PROVE f.split \in A /\ Rows(d, f) \subseteq R[f.split]
      BY <1>6 DEF SplitRows, SuiteFiles
    <2>2. \A p \in SuiteRows(d, e) : p \in UNION {R[s] : s \in A}
      BY <2>1 DEF SuiteRows
    <2>3. \A p \in UNION {R[s] : s \in A} : p \in SuiteRows(d, e)
      BY <1>6 DEF SplitRows, SuiteRows, SuiteFiles
    <2> QED BY <2>2, <2>3
  <1>0. IsFiniteSet(A)
    OBVIOUS
  <1>8. IsFiniteSet(UNION {R[s] : s \in A}) /\ Cardinality(UNION {R[s] : s \in A}) = SumOf(g)
    BY <1>0, <1>3, <1>4, <1>5, FamilySum
  <1> QED BY <1>7, <1>8 DEF g

(* After --download the counts of decon evals are those of this download:  *)
(* nothing older is left, nothing of a failed or removed suite, and nothing *)
(* is counted twice, for any configuration and any number of chunks.       *)
THEOREM StatsCompleteHolds == Spec => []StatsComplete
  <1>1. WholeInv => StatsComplete
    <2> SUFFICES ASSUME WholeInv, Ended, mode = "download", NEW e \in ToSet(SuiteOrder)
                 PROVE  QuestionsOf(e) = IF e \in Done THEN Total(e) ELSE 0
      BY DEF StatsComplete
    <2>1. DirFits(dir) /\ ConfigFits(Config)
      BY DEF WholeInv, Course
    <2>2. ASSUME NEW f \in DOMAIN dir
          PROVE  f.suite \in DOMAIN Config \ failed /\ FileFresh(Config, dir, command, f)
      BY DEF WholeInv, Fresh, Going, Ended
    <2>3. QuestionsOf(e) = Cardinality(SuiteRows(dir, e))
      BY <2>1, QuestionsAre
    <2>4. e \in Done <=> e \in DOMAIN Config \ failed
      BY DEF Done
    <2>5. CASE e \notin Done
      <3>1. SuiteFiles(dir, e) = {}
        BY <2>2, <2>4, <2>5 DEF SuiteFiles
      <3>2. SuiteRows(dir, e) = {}
        BY <3>1 DEF SuiteRows
      <3> QED BY <2>3, <2>5, <3>2, FS_EmptySet
    <2>6. CASE e \in Done /\ Bundled(e)
      <3>1. FilesWhole(dir, BundledFiles[e])
        BY <2>6, EndedWhole DEF SuiteWhole
      <3>2. \A f \in SuiteFiles(dir, e) : \E b \in BundledFiles[e] : f = b.file
        BY <2>2, <2>6 DEF SuiteFiles, FileFresh
      <3>3. Cardinality(SuiteRows(dir, e)) = SumOf([b \in BundledFiles[e] |-> Len(b.lines)])
        BY <2>6, <3>1, <3>2, BundledCount
      <3> QED BY <2>3, <2>6, <3>3 DEF Total
    <2>7. CASE e \in Done /\ ~Bundled(e)
      <3> DEFINE A == Splits(e)
      <3>1. IsFiniteSet(A)
        <4>1. IsSeq(Config[e])
          BY <2>1, <2>4, <2>7 DEF ConfigFits
        <4>2. IsFiniteSet(ToSet(Config[e]))
          BY <4>1, MembersFinite
        <4> QED BY <4>2, FS_Subset DEF Splits
      <3>2. \A s \in A : SplitWhole(dir, command, e, s)
        BY <2>7, EndedWhole DEF SuiteWhole, Splits, SplitsOf
      <3>3. \A f \in SuiteFiles(dir, e) :
               f.split \in A /\ f = FileOf(e, f.split, f.number) /\ AllOf(dir[f], command)
        BY <2>2, <2>7 DEF SuiteFiles, FileFresh, Splits, SplitsOf
      <3>4. Total(e) = SumOf([s \in A |-> Len(Made(e, s))])
        BY <2>7 DEF Total
      <3> HIDE DEF A
      <3>5. Cardinality(SuiteRows(dir, e)) = SumOf([s \in A |-> Len(Made(e, s))])
        BY <2>1, <3>1, <3>2, <3>3, WrittenCount
      <3> QED BY <2>3, <2>7, <3>4, <3>5
    <2> QED BY <2>5, <2>6, <2>7
  <1> QED BY <1>1, WholeInvariant, PTL

=============================================================================
