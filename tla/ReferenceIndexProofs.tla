------------------------ MODULE ReferenceIndexProofs ------------------------
(***************************************************************************)
(* The reference index, for every number of threads and every set of       *)
(* reference files with no more n-grams than there are ids: the ids of     *)
(* n-grams, the entries that deduplication leaves, the maps the index is   *)
(* made of.                                                                *)
(*                                                                         *)
(* The ids are drawn from a counter, so all ids in use are below the       *)
(* number of n-grams that have one, and the counter is that number (or has *)
(* wrapped to 0 when all ids are used up, and then no n-gram is left       *)
(* without one).  What makes it inductive is the claim on an n-gram        *)
(* between its look-up and its insertion: the n-gram that a thread is      *)
(* about to number has no id yet, and no other thread is numbering it.     *)
(* The arguments for the entries and for the maps stand before their       *)
(* parts.                                                                  *)
(***************************************************************************)
EXTENDS ReferenceIndex, FiniteSetTheorems, TLAPS

Steps == {"idle", "line", "question", "lookup", "allocate", "add",
          "answer", "answer_ids", "passage", "passage_ids"}

(* Numbered by a counter: m gives the n-grams of G ids, n is the next one. *)
Numbered(m, n, G) ==
    /\ m = [g \in DOMAIN m |-> m[g]]
    /\ DOMAIN m \subseteq G
    /\ n = IF Cardinality(DOMAIN m) = IdWidth THEN 0 ELSE Cardinality(DOMAIN m)
    /\ \A g \in DOMAIN m : m[g] \in Nat /\ m[g] < Cardinality(DOMAIN m)
    /\ \A g, h \in DOMAIN m : m[g] = m[h] => g = h

Shapes ==
    /\ input \in Inputs
    /\ todo \subseteq DOMAIN input
    /\ pc \in [Threads -> Steps]
    /\ pos \in [Threads -> Nat]
    /\ file \in [Threads -> DOMAIN input \cup {None}]
    /\ grams \in [Threads -> Seq(AllGrams(input))]

(* In these steps a thread stands on an entry of its file. *)
OnEntry(t) ==
    /\ file[t] \in DOMAIN input
    /\ pos[t] \in DOMAIN input[file[t]]
    /\ Line(t).kind = "entry"

Places ==
    \A t \in Threads :
        /\ pc[t] = "line" => file[t] \in DOMAIN input /\ pos[t] \in Nat \ {0}
        /\ pc[t] \notin {"idle", "line"} => OnEntry(t)

Pending == \A t \in Threads : pc[t] \in {"allocate", "add"} => grams[t] # <<>>

Claims ==
    /\ \A t \in Threads : pc[t] = "allocate" => Head(grams[t]) \notin DOMAIN ids
    /\ \A t, u \in Threads :
          pc[t] = "allocate" /\ pc[u] = "allocate" /\ Head(grams[t]) = Head(grams[u]) => t = u

IdInv == Shapes /\ Places /\ Pending /\ Numbered(ids, next, AllGrams(input)) /\ Claims

-----------------------------------------------------------------------------
(* A new n-gram gets an id that no other has: check-and-draw of            *)
(* get_or_create_ngram_id and or_insert_with of the fields.                *)
LEMMA FreshId ==
    ASSUME NEW m, NEW n, NEW G, IsFiniteSet(G), Cardinality(G) <= IdWidth,
           Numbered(m, n, G), NEW g \in G, g \notin DOMAIN m
    PROVE  Numbered(Put(m, g, n), Advance(n), G)
  <1> DEFINE D == DOMAIN m
             E == D \cup {g}
             p == Put(m, g, n)
  <1>1. D \subseteq G /\ E \subseteq G
    BY DEF Numbered
  <1>2. IsFiniteSet(D) /\ IsFiniteSet(E)
    BY <1>1, FS_Subset
  <1>3. Cardinality(E) = Cardinality(D) + 1
    BY <1>2, FS_AddElement
  <1>4. Cardinality(D) \in Nat /\ Cardinality(E) \in Nat /\ Cardinality(G) \in Nat
    BY <1>2, FS_CardinalityType
  <1>5. Cardinality(E) <= Cardinality(G)
    BY <1>1, FS_Subset
  <1>6. IdWidth \in Nat
    BY WidthAssumption DEF WidthAssumption
  <1>7. Cardinality(D) < IdWidth
    BY <1>3, <1>4, <1>5, <1>6
  <1>8. n = Cardinality(D)
    BY <1>7, <1>4 DEF Numbered
  <1>9. DOMAIN p = E /\ p = [h \in DOMAIN p |-> p[h]]
    BY DEF Put
  <1>10. p[g] = n /\ \A h \in D : p[h] = m[h]
    BY DEF Put
  <1>11. \A h \in D : m[h] \in Nat /\ m[h] < Cardinality(D)
    BY DEF Numbered
  <1>12. \A h \in DOMAIN p : p[h] \in Nat /\ p[h] < Cardinality(DOMAIN p)
    BY <1>3, <1>4, <1>8, <1>9, <1>10, <1>11
  <1>13. \A h, k \in DOMAIN p : p[h] = p[k] => h = k
    <2>1. \A h, k \in D : m[h] = m[k] => h = k
      BY DEF Numbered
    <2>2. \A h \in D : p[h] # n
      BY <1>4, <1>8, <1>10, <1>11
    <2> QED
      BY <2>1, <2>2, <1>9, <1>10
  <1>14. Advance(n) = IF Cardinality(DOMAIN p) = IdWidth THEN 0 ELSE Cardinality(DOMAIN p)
    BY <1>3, <1>8, <1>9 DEF Advance
  <1> HIDE DEF p
  <1> QED
    BY <1>1, <1>9, <1>12, <1>13, <1>14 DEF Numbered, p

(* Asking again for an n-gram changes nothing. *)
LEMMA KnownId ==
    ASSUME NEW m, m = [g \in DOMAIN m |-> m[g]], NEW h \in DOMAIN m
    PROVE  Put(m, h, m[h]) = m
  <1>1. DOMAIN m \cup {h} = DOMAIN m
    OBVIOUS
  <1> QED
    BY <1>1 DEF Put

(* The n-grams of a text are a sequence. *)
LEMMA WindowsSeq ==
    ASSUME NEW text \in Seq(Tokens), NEW n \in Nat \ {0}, NEW S,
           Elements(Windows(text, n)) \subseteq S
    PROVE  Windows(text, n) \in Seq(S)
  <1>1. CASE Len(text) < n
    BY <1>1 DEF Windows
  <1>2. CASE ~(Len(text) < n)
    <2> DEFINE m == Len(text) - n + 1
               w == [k \in 1 .. m |-> SubSeq(text, k, k + n - 1)]
    <2>1. m \in Nat
      BY <1>2
    <2>2. Windows(text, n) = w
      BY <1>2 DEF Windows
    <2>3. \A k \in 1 .. m : w[k] \in S
      BY <2>2 DEF Elements
    <2> HIDE DEF m
    <2>4. w \in [1 .. m -> S]
      BY <2>3
    <2> HIDE DEF w
    <2> QED
      BY <2>1, <2>2, <2>4
  <1> QED
    BY <1>1, <1>2

(* An entry has n-grams that AllGrams knows. *)
LEMMA EntryGrams ==
    ASSUME input \in Inputs, NEW t \in Threads, OnEntry(t)
    PROVE  /\ Line(t) \in EntryLine
           /\ GramsOf(Line(t)) \subseteq AllGrams(input)
  <1>1. input[file[t]] \in Seq(SomeLine \cup EntryLine)
    BY InputAssumption DEF InputAssumption, OnEntry
  <1>2. Line(t) \in SomeLine \cup EntryLine
    BY <1>1 DEF OnEntry, Line
  <1>3. Line(t) \in EntryLine
    BY <1>2 DEF OnEntry, SomeLine
  <1>4. Line(t) \in Entries(input)
    BY DEF OnEntry, Line, Entries
  <1> QED
    BY <1>3, <1>4 DEF AllGrams

LEMMA QuestionGramsSeq ==
    ASSUME input \in Inputs, NEW t \in Threads, OnEntry(t)
    PROVE  QuestionGrams(Line(t).question) \in Seq(AllGrams(input))
  <1> DEFINE q == Line(t).question
             G == AllGrams(input)
  <1>1. q \in Seq(Tokens) /\ Elements(QuestionGrams(q)) \subseteq G
    BY EntryGrams DEF EntryLine, GramsOf
  <1>2. NgramSize \in Nat \ {0}
    BY SizeAssumption DEF SizeAssumption
  <1> HIDE DEF q, G
  <1>3. CASE Len(q) < NgramSize
    <2>1. QuestionGrams(q) = <<q>>
      BY <1>3 DEF QuestionGrams
    <2>2. q \in G
      BY <1>1, <2>1 DEF Elements
    <2> QED
      BY <2>1, <2>2 DEF q, G
  <1>4. CASE ~(Len(q) < NgramSize)
    <2>1. QuestionGrams(q) = Windows(q, NgramSize)
      BY <1>4 DEF QuestionGrams
    <2> QED
      BY <1>1, <1>2, <2>1, WindowsSeq DEF q, G
  <1> QED
    BY <1>3, <1>4 DEF q, G

LEMMA FieldGramsSeq ==
    ASSUME input \in Inputs, NEW t \in Threads, OnEntry(t), NEW f \in Fields
    PROVE  FieldGrams(f, Line(t)[f]) \in Seq(AllGrams(input))
  <1> DEFINE G == AllGrams(input)
  <1>1. /\ Line(t).answer \in Seq(Tokens) /\ Line(t).passage \in Seq(Tokens)
        /\ Elements(FieldGrams("answer", Line(t).answer)) \subseteq G
        /\ Elements(FieldGrams("passage", Line(t).passage)) \subseteq G
    BY EntryGrams DEF EntryLine, GramsOf
  <1>2. AnswerNgramSize \in Nat \ {0} /\ PassageNgramSize \in Nat \ {0}
    BY SizeAssumption DEF SizeAssumption
  <1> HIDE DEF G
  <1>3. CASE f = "answer"
    <2> DEFINE a == Line(t).answer
    <2>1. CASE Len(a) > ShortAnswer
      <3>1. FieldGrams("answer", a) = Windows(a, AnswerNgramSize)
        BY <2>1 DEF FieldGrams
      <3> QED
        BY <1>1, <1>2, <1>3, <3>1, WindowsSeq DEF G
    <2>2. CASE ~(Len(a) > ShortAnswer)
      BY <1>3, <2>2 DEF FieldGrams
    <2> QED
      BY <2>1, <2>2
  <1>4. CASE f = "passage"
    <2>1. FieldGrams("passage", Line(t).passage) = Windows(Line(t).passage, PassageNgramSize)
      BY DEF FieldGrams
    <2> QED
      BY <1>1, <1>2, <1>4, <2>1, WindowsSeq DEF G
  <1> QED
    BY <1>3, <1>4 DEF Fields

-----------------------------------------------------------------------------
(* Actions that leave the ids and the n-grams to come alone, and move one  *)
(* thread that numbers nothing, keep the invariant if they keep the shapes *)
(* and the places.                                                         *)
Quiet(t) ==
    /\ UNCHANGED <<input, grams, ids, next>>
    /\ pc[t] # "allocate" /\ pc'[t] \notin {"allocate", "add"}
    /\ \A u \in Threads \ {t} :
          pc'[u] = pc[u] /\ pos'[u] = pos[u] /\ file'[u] = file[u]

LEMMA QuietKeeps ==
    ASSUME IdInv, NEW t \in Threads, Quiet(t),
           todo' \subseteq DOMAIN input,
           pc' \in [Threads -> Steps], pos' \in [Threads -> Nat],
           file' \in [Threads -> DOMAIN input \cup {None}],
           pc'[t] = "line" => file'[t] \in DOMAIN input /\ pos'[t] \in Nat \ {0},
           pc'[t] \notin {"idle", "line"} => OnEntry(t)'
    PROVE  IdInv'
  <1>1. Shapes'
    BY DEF IdInv, Shapes, Quiet
  <1>2. Places'
    BY DEF IdInv, Places, Quiet, OnEntry, Line
  <1>3. Numbered(ids, next, AllGrams(input))'
    BY DEF IdInv, Quiet, Numbered
  <1>4. Claims'
    BY DEF IdInv, Claims, Quiet
  <1>5. Pending'
    BY DEF IdInv, Pending, Quiet
  <1> QED
    BY <1>1, <1>2, <1>3, <1>4, <1>5 DEF IdInv

LEMMA InitIds == Init => IdInv
  <1> SUFFICES ASSUME Init PROVE IdInv
    OBVIOUS
  <1> DEFINE G == AllGrams(input)
  <1>1. Shapes
    BY DEF Init, Shapes, Steps
  <1>2. Places /\ Pending /\ Claims
    BY DEF Init, Places, Pending, Claims
  <1>3. DOMAIN ids = {} /\ next = 0 /\ ids = [g \in DOMAIN ids |-> ids[g]]
    BY DEF Init, Empty
  <1>4. Cardinality({}) = 0
    BY FS_EmptySet
  <1> HIDE DEF G
  <1>5. Numbered(ids, next, G)
    BY <1>3, <1>4 DEF Numbered
  <1> QED
    BY <1>1, <1>2, <1>5 DEF IdInv, G

LEMMA ListIds == IdInv /\ (List \/ Assemble) => IdInv'
  <1> SUFFICES ASSUME IdInv, List \/ Assemble PROVE IdInv'
    OBVIOUS
  <1>1. UNCHANGED <<input, pc, file, pos, grams, ids, next>> /\ todo' \subseteq DOMAIN input
    BY DEF List, Assemble, local, idMap, IdInv, Shapes
  <1> QED
    BY <1>1 DEF IdInv, Shapes, Places, OnEntry, Line, Pending, Claims, Numbered

(* The lines of a file: nothing is numbered. *)
LEMMA LineIds ==
    ASSUME IdInv, NEW t \in Threads,
           Take(t) \/ Comment(t) \/ Broken(t) \/ Filter(t) \/ Duplicate(t) \/ Accept(t)
              \/ Close(t)
    PROVE  IdInv'
  <1> USE DEF IdInv, Shapes, At
  <1>1. CASE Take(t)
    <2>1. Quiet(t)
      BY <1>1 DEF Take, Quiet, builder, idMap
    <2>2. /\ todo' \subseteq DOMAIN input /\ pc' \in [Threads -> Steps]
          /\ pos' \in [Threads -> Nat] /\ file' \in [Threads -> DOMAIN input \cup {None}]
          /\ pc'[t] = "line" /\ file'[t] \in DOMAIN input /\ pos'[t] = 1
      BY <1>1 DEF Take, Steps
    <2>3. pc'[t] \notin {"idle", "line"} => OnEntry(t)'
      BY <2>2
    <2> HIDE DEF IdInv, Shapes
    <2> QED
      BY <2>1, <2>2, <2>3, QuietKeeps
  <1>2. CASE Broken(t) \/ Close(t)
    <2>1. Quiet(t)
      BY <1>2 DEF Broken, Close, AtLine, Quiet, builder, idMap
    <2>2. /\ todo' \subseteq DOMAIN input /\ pc' \in [Threads -> Steps]
          /\ pos' \in [Threads -> Nat] /\ file' \in [Threads -> DOMAIN input \cup {None}]
          /\ pc'[t] = "idle"
      BY <1>2 DEF Broken, Close, Steps
    <2> QED
      BY <2>1, <2>2, QuietKeeps
  <1>3. CASE Comment(t) \/ Filter(t) \/ Duplicate(t) \/ (Accept(t) /\ ~Line(t).asked)
    <2>1. /\ pc[t] = "line" /\ NextLine(t)
          /\ UNCHANGED <<input, todo, file, grams, ids, next>>
      BY <1>3 DEF Comment, Filter, Duplicate, Accept, AtLine, builder, idMap
    <2>2. file[t] \in DOMAIN input /\ pos[t] \in Nat \ {0}
      BY <2>1 DEF Places
    <2>3. Quiet(t)
      BY <2>1 DEF NextLine, Quiet
    <2>4. /\ pc' \in [Threads -> Steps] /\ pos' \in [Threads -> Nat]
          /\ pc'[t] = "line" /\ pos'[t] \in Nat \ {0}
      BY <2>1, <2>2 DEF NextLine, Steps
    <2> QED
      BY <2>1, <2>2, <2>3, <2>4, QuietKeeps
  <1>4. CASE Accept(t) /\ Line(t).asked
    <2>1. /\ pc[t] = "line" /\ pc' = [pc EXCEPT ![t] = "question"]
          /\ UNCHANGED <<input, todo, file, pos, grams, ids, next>>
          /\ pos[t] <= Len(input[file[t]]) /\ Line(t).kind = "entry"
      BY <1>4 DEF Accept, AtLine, builder, idMap
    <2>2. file[t] \in DOMAIN input /\ pos[t] \in Nat \ {0}
      BY <2>1 DEF Places
    <2>3. input[file[t]] \in Seq(SomeLine \cup EntryLine)
      BY <2>2, InputAssumption DEF InputAssumption
    <2>4. pos[t] \in DOMAIN input[file[t]]
      BY <2>1, <2>2, <2>3
    <2>5. OnEntry(t)'
      BY <2>1, <2>2, <2>4 DEF OnEntry, Line
    <2>6. Quiet(t)
      BY <2>1 DEF Quiet
    <2>7. pc' \in [Threads -> Steps] /\ pc'[t] = "question"
      BY <2>1 DEF Steps
    <2> QED
      BY <2>1, <2>5, <2>6, <2>7, QuietKeeps
  <1> QED
    BY <1>1, <1>2, <1>3, <1>4

(* A thread on an entry that goes on to another step of it, with a new     *)
(* sequence of n-grams of the entry to come.                               *)
LEMMA EntryKeeps ==
    ASSUME IdInv, NEW t \in Threads,
           UNCHANGED <<input, todo, file, ids, next>>,
           pc[t] \notin {"idle", "line", "allocate"},
           grams' \in [Threads -> Seq(AllGrams(input))],
           \A u \in Threads \ {t} : grams'[u] = grams[u],
           \/ /\ pos' = pos
              /\ \E s \in Steps \ {"idle", "line", "allocate", "add"} : pc' = [pc EXCEPT ![t] = s]
           \/ NextLine(t)
    PROVE  IdInv'
  <1>1. OnEntry(t) /\ file[t] \in DOMAIN input /\ pos[t] \in Nat \ {0}
    <2>1. OnEntry(t)
      BY DEF IdInv, Places
    <2>2. input[file[t]] \in Seq(SomeLine \cup EntryLine)
      BY <2>1, InputAssumption DEF InputAssumption, OnEntry, IdInv, Shapes
    <2> QED
      BY <2>1, <2>2 DEF OnEntry
  <1>2. pc' \in [Threads -> Steps] /\ pos' \in [Threads -> Nat] /\ pc'[t] \notin {"allocate", "add"}
    <2>1. pc \in [Threads -> Steps] /\ pos \in [Threads -> Nat]
      BY DEF IdInv, Shapes
    <2>2. CASE NextLine(t)
      BY <1>1, <2>1, <2>2 DEF NextLine, Steps
    <2>3. CASE /\ pos' = pos
               /\ \E s \in Steps \ {"idle", "line", "allocate", "add"} : pc' = [pc EXCEPT ![t] = s]
      BY <2>1, <2>3
    <2> QED
      BY <2>2, <2>3
  <1>3. \A u \in Threads \ {t} : pc'[u] = pc[u] /\ pos'[u] = pos[u]
    BY DEF IdInv, Shapes, NextLine
  <1>4. Shapes'
    BY <1>2 DEF IdInv, Shapes
  <1>5. Places'
    <2>1. ASSUME NEW u \in Threads, u # t
          PROVE  /\ pc'[u] = "line" => file'[u] \in DOMAIN input' /\ pos'[u] \in Nat \ {0}
                 /\ pc'[u] \notin {"idle", "line"} => OnEntry(u)'
      BY <2>1, <1>3 DEF IdInv, Places, OnEntry, Line
    <2>2. CASE NextLine(t)
      <3>1. pc'[t] = "line" /\ file'[t] \in DOMAIN input' /\ pos'[t] \in Nat \ {0}
        BY <2>2, <1>1 DEF NextLine, IdInv, Shapes
      <3> QED
        BY <3>1, <2>1 DEF Places
    <2>3. CASE /\ pos' = pos
               /\ \E s \in Steps \ {"idle", "line", "allocate", "add"} : pc' = [pc EXCEPT ![t] = s]
      <3>1. OnEntry(t)'
        BY <2>3, <1>1 DEF OnEntry, Line
      <3> QED
        BY <3>1, <2>3, <2>1 DEF Places, IdInv, Shapes
    <2> QED
      BY <2>2, <2>3
  <1>6. Numbered(ids, next, AllGrams(input))'
    BY DEF IdInv, Numbered
  <1>7. Claims'
    <2>1. \A u \in Threads : pc'[u] = "allocate" =>
             pc[u] = "allocate" /\ grams'[u] = grams[u]
      BY <1>2, <1>3
    <2>2. Claims /\ ids' = ids
      BY DEF IdInv
    <2> QED
      BY <2>1, <2>2 DEF Claims
  <1>8. Pending'
    BY <1>2, <1>3 DEF IdInv, Pending
  <1> QED
    BY <1>4, <1>5, <1>6, <1>7, <1>8 DEF IdInv

(* The steps inside an entry that draw no id. *)
LEMMA EntryIds ==
    ASSUME IdInv, NEW t \in Threads,
           \/ BeginQuestion(t) \/ AddDoc(t) \/ StoreDocument(t)
           \/ \E f \in Fields : SkipField(t, f) \/ BeginField(t, f) \/ StoreField(t, f)
    PROVE  IdInv'
  <1> DEFINE G == AllGrams(input)
  <1>0. /\ pc \in [Threads -> Steps] /\ grams \in [Threads -> Seq(G)] /\ input \in Inputs
        /\ pc[t] \notin {"idle", "line"} => OnEntry(t)
    BY DEF IdInv, Shapes, Places
  <1> DEFINE Frame == UNCHANGED <<input, todo, file, ids, next>>
             Inside == pc[t] \notin {"idle", "line", "allocate"}
             More == /\ grams' \in [Threads -> Seq(G)]
                     /\ \A u \in Threads \ {t} : grams'[u] = grams[u]
             Goes == \/ /\ pos' = pos
                        /\ \E s \in Steps \ {"idle", "line", "allocate", "add"} :
                              pc' = [pc EXCEPT ![t] = s]
                     \/ NextLine(t)
  <1>1. CASE BeginQuestion(t)
    <2>1. Frame /\ Inside /\ Goes
      BY <1>1, <1>0 DEF BeginQuestion, At, idMap, Steps
    <2>2. QuestionGrams(Line(t).question) \in Seq(G)
      BY <1>0, <1>1, QuestionGramsSeq DEF BeginQuestion, At
    <2>3. More
      BY <1>0, <1>1, <2>2 DEF BeginQuestion
    <2> QED
      BY <2>1, <2>3, EntryKeeps
  <1>2. CASE AddDoc(t)
    <2>1. Frame /\ Inside /\ Goes
      BY <1>2, <1>0 DEF AddDoc, At, idMap, Steps
    <2>2. grams[t] # <<>>
      BY <1>2 DEF IdInv, AddDoc, At, Pending
    <2>3. More
      BY <1>0, <1>2, <2>2 DEF AddDoc
    <2> QED
      BY <2>1, <2>3, EntryKeeps
  <1>3. CASE StoreDocument(t)
    <2>1. Frame /\ Inside /\ Goes /\ More
      BY <1>3, <1>0 DEF StoreDocument, At, idMap, Steps
    <2> QED
      BY <2>1, EntryKeeps
  <1>4. ASSUME NEW f \in Fields, SkipField(t, f) PROVE IdInv'
    <2>1. Frame /\ Inside /\ Goes /\ More
      BY <1>4, <1>0 DEF SkipField, After, At, builder, idMap, Steps, Fields
    <2> QED
      BY <2>1, EntryKeeps
  <1>5. ASSUME NEW f \in Fields, BeginField(t, f) PROVE IdInv'
    <2>1. Frame /\ Inside /\ Goes
      BY <1>5, <1>0 DEF BeginField, IdStep, At, idMap, Steps, Fields
    <2>2. FieldGrams(f, Line(t)[f]) \in Seq(G)
      BY <1>0, <1>5, FieldGramsSeq DEF BeginField, At, Fields
    <2>3. More
      BY <1>0, <1>5, <2>2 DEF BeginField
    <2> QED
      BY <2>1, <2>3, EntryKeeps
  <1>6. ASSUME NEW f \in Fields, StoreField(t, f) PROVE IdInv'
    <2>1. Frame /\ Inside /\ Goes /\ More
      BY <1>6, <1>0 DEF StoreField, After, IdStep, At, idMap, Steps, Fields
    <2> QED
      BY <2>1, EntryKeeps
  <1> QED
    BY <1>1, <1>2, <1>3, <1>4, <1>5, <1>6

(* The first n-gram to come is one of the file set. *)
LEMMA HeadGram ==
    ASSUME IdInv, NEW t \in Threads, grams[t] # <<>>
    PROVE  /\ Head(grams[t]) \in AllGrams(input)
           /\ Tail(grams[t]) \in Seq(AllGrams(input))
  <1>1. grams[t] \in Seq(AllGrams(input))
    BY DEF IdInv, Shapes
  <1> QED
    BY <1>1

LEMMA LookupIds ==
    ASSUME IdInv, NEW t \in Threads, Lookup(t)
    PROVE  IdInv'
  <1>1. /\ UNCHANGED <<input, todo, file, pos, grams, ids, next>>
        /\ pc[t] = "lookup" /\ grams[t] # <<>> /\ ~Held(Head(grams[t]))
        /\ \/ pc' = [pc EXCEPT ![t] = "add"]
           \/ pc' = [pc EXCEPT ![t] = "allocate"] /\ Head(grams[t]) \notin DOMAIN ids
           \/ pc' = pc
    BY DEF Lookup, At, builder, idMap
  <1>2. pc \in [Threads -> Steps]
    BY DEF IdInv, Shapes
  <1>3. Shapes'
    BY <1>1, <1>2 DEF IdInv, Shapes, Steps
  <1>4. Places'
    <2>1. \A u \in Threads : OnEntry(u)' <=> OnEntry(u)
      BY <1>1 DEF OnEntry, Line
    <2>2. OnEntry(t)
      BY <1>1 DEF IdInv, Places
    <2>3. \A u \in Threads : u # t => pc'[u] = pc[u]
      BY <1>1, <1>2
    <2>4. pc'[t] \in {"lookup", "add", "allocate"}
      BY <1>1, <1>2
    <2> QED
      BY <1>1, <2>1, <2>2, <2>3, <2>4 DEF IdInv, Places
  <1>5. Pending'
    BY <1>1, <1>2 DEF IdInv, Pending
  <1>6. Numbered(ids, next, AllGrams(input))'
    BY <1>1 DEF IdInv, Numbered
  <1>7. Claims'
    <2>1. \A u \in Threads : pc[u] = "allocate" => Head(grams[u]) # Head(grams[t])
      BY <1>1 DEF Held
    <2> QED
      BY <1>1, <1>2, <2>1 DEF IdInv, Claims
  <1> QED
    BY <1>3, <1>4, <1>5, <1>6, <1>7 DEF IdInv

LEMMA AllocateIds ==
    ASSUME IdInv, NEW t \in Threads, Allocate(t)
    PROVE  IdInv'
  <1> DEFINE G == AllGrams(input)
             g == Head(grams[t])
  <1>1. /\ UNCHANGED <<input, todo, file, pos, grams>>
        /\ pc[t] = "allocate" /\ pc' = [pc EXCEPT ![t] = "add"]
        /\ ids' = Put(ids, g, next) /\ next' = Advance(next)
    BY DEF Allocate, At
  <1>2. pc \in [Threads -> Steps] /\ input \in Inputs
    BY DEF IdInv, Shapes
  <1>3. grams[t] # <<>> /\ g \in G /\ g \notin DOMAIN ids
    BY <1>1, HeadGram DEF IdInv, Pending, Claims
  <1>4. IsFiniteSet(G) /\ Cardinality(G) <= IdWidth
    BY <1>2, InputAssumption DEF InputAssumption
  <1>5. DOMAIN ids' = DOMAIN ids \cup {g}
    BY <1>1 DEF Put
  <1>6. Numbered(ids', next', G)
    <2> HIDE DEF G, g
    <2> QED
      BY <1>1, <1>3, <1>4, FreshId DEF IdInv, G
  <1>7. Shapes'
    BY <1>1, <1>2 DEF IdInv, Shapes, Steps
  <1>8. Places'
    <2>1. \A u \in Threads : OnEntry(u)' <=> OnEntry(u)
      BY <1>1 DEF OnEntry, Line
    <2> QED
      BY <1>1, <1>2, <2>1 DEF IdInv, Places
  <1>9. Pending'
    BY <1>1, <1>2, <1>3 DEF IdInv, Pending
  <1>10. Claims'
    <2>1. \A u \in Threads : pc[u] = "allocate" /\ u # t =>
             Head(grams[u]) # g /\ Head(grams[u]) \notin DOMAIN ids
      BY <1>1 DEF IdInv, Claims
    <2>2. \A u \in Threads : pc'[u] = "allocate" => pc[u] = "allocate" /\ u # t
      BY <1>1, <1>2
    <2>3. \A u, v \in Threads :
             pc[u] = "allocate" /\ pc[v] = "allocate" /\ Head(grams[u]) = Head(grams[v]) => u = v
      BY DEF IdInv, Claims
    <2> HIDE DEF g
    <2> QED
      BY <1>1, <1>5, <2>1, <2>2, <2>3 DEF Claims
  <1> QED
    BY <1>1, <1>6, <1>7, <1>8, <1>9, <1>10 DEF IdInv

LEMMA FieldIds ==
    ASSUME IdInv, NEW t \in Threads, NEW f \in Fields, FieldId(t, f)
    PROVE  IdInv'
  <1> DEFINE G == AllGrams(input)
             g == Head(grams[t])
  <1>1. /\ UNCHANGED <<input, todo, file, pos, pc>>
        /\ pc[t] = IdStep(f) /\ grams[t] # <<>> /\ ~Held(g)
        /\ grams' = [grams EXCEPT ![t] = Tail(@)]
        /\ ids' = Put(ids, g, Get(ids, g, next))
        /\ next' = IF g \in DOMAIN ids THEN next ELSE Advance(next)
    BY DEF FieldId, At
  <1>2. /\ input \in Inputs /\ grams \in [Threads -> Seq(G)]
        /\ pc[t] \notin {"idle", "line", "allocate", "add"}
    BY <1>1 DEF IdInv, Shapes, IdStep
  <1>3. g \in G /\ Tail(grams[t]) \in Seq(G)
    BY <1>1, HeadGram
  <1>4. IsFiniteSet(G) /\ Cardinality(G) <= IdWidth
    BY <1>2, InputAssumption DEF InputAssumption
  <1>5. DOMAIN ids' = DOMAIN ids \cup {g}
    BY <1>1 DEF Put
  <1>6. Numbered(ids', next', G)
    <2>1. CASE g \in DOMAIN ids
      <3>1. ids' = Put(ids, g, ids[g]) /\ next' = next
        BY <1>1, <2>1 DEF Get
      <3>2. ids' = ids
        BY <2>1, <3>1, KnownId DEF IdInv, Numbered
      <3> QED
        BY <3>1, <3>2 DEF IdInv
    <2>2. CASE g \notin DOMAIN ids
      <3>1. ids' = Put(ids, g, next) /\ next' = Advance(next)
        BY <1>1, <2>2 DEF Get
      <3> HIDE DEF G, g
      <3> QED
        BY <1>3, <1>4, <2>2, <3>1, FreshId DEF IdInv, G
    <2> QED
      BY <2>1, <2>2
  <1>7. Shapes'
    BY <1>1, <1>2, <1>3 DEF IdInv, Shapes
  <1>8. Places'
    BY <1>1 DEF IdInv, Places, OnEntry, Line
  <1>9. \A u \in Threads : pc[u] \in {"allocate", "add"} => grams'[u] = grams[u]
    BY <1>1, <1>2
  <1>10. Pending'
    BY <1>1, <1>9 DEF IdInv, Pending
  <1>11. Claims'
    <2>1. \A u \in Threads : pc[u] = "allocate" =>
             Head(grams[u]) # g /\ Head(grams[u]) \notin DOMAIN ids
      BY <1>1 DEF IdInv, Claims, Held
    <2>2. \A u, v \in Threads :
             pc[u] = "allocate" /\ pc[v] = "allocate" /\ Head(grams[u]) = Head(grams[v]) => u = v
      BY DEF IdInv, Claims
    <2> HIDE DEF g
    <2> QED
      BY <1>1, <1>5, <1>9, <2>1, <2>2 DEF Claims
  <1> QED
    BY <1>1, <1>6, <1>7, <1>8, <1>10, <1>11 DEF IdInv

-----------------------------------------------------------------------------
LEMMA IdsInductive == IdInv /\ [Next]_vars => IdInv'
  <1> SUFFICES ASSUME IdInv, [Next]_vars PROVE IdInv'
    OBVIOUS
  <1>1. CASE List \/ Assemble
    BY <1>1, ListIds
  <1>2. ASSUME NEW t \in Threads, Step(t) PROVE IdInv'
    <2>1. CASE \/ Take(t) \/ Comment(t) \/ Broken(t) \/ Filter(t) \/ Duplicate(t)
               \/ Accept(t) \/ Close(t)
      BY <2>1, LineIds
    <2>2. CASE \/ BeginQuestion(t) \/ AddDoc(t) \/ StoreDocument(t)
               \/ \E f \in Fields : SkipField(t, f) \/ BeginField(t, f) \/ StoreField(t, f)
      BY <2>2, EntryIds
    <2>3. CASE Lookup(t)
      BY <2>3, LookupIds
    <2>4. CASE Allocate(t)
      BY <2>4, AllocateIds
    <2>5. CASE \E f \in Fields : FieldId(t, f)
      BY <2>5, FieldIds
    <2> QED
      BY <1>2, <2>1, <2>2, <2>3, <2>4, <2>5 DEF Step
  <1>3. CASE UNCHANGED vars
    BY <1>3 DEF vars, local, idMap, IdInv, Shapes, Places, OnEntry, Line, Pending, Claims,
            Numbered
  <1> QED
    BY <1>1, <1>2, <1>3 DEF Next

(* Whatever the number of threads, the files and the order in which the    *)
(* threads meet the n-grams, no two n-grams get one id                     *)
(* (get_or_create_ngram_id, process_answer_field, process_passage_field).  *)
THEOREM NgramIds == Spec => []OneId
  <1>1. Init => IdInv
    BY InitIds
  <1>2. IdInv /\ [Next]_vars => IdInv'
    BY IdsInductive
  <1>3. IdInv => OneId
    BY DEF IdInv, Numbered, OneId
  <1> QED
    BY <1>1, <1>2, <1>3, PTL DEF Spec

(* An id that an n-gram has got stays its id: a thread may use the one it  *)
(* read after the map's entry was released.                                *)
IdsKept == \A g \in DOMAIN ids : g \in DOMAIN ids' /\ ids'[g] = ids[g]

LEMMA IdsKeptStep ==
    ASSUME IdInv, Next
    PROVE  IdsKept
  <1>1. CASE ids' = ids
    BY <1>1 DEF IdsKept
  <1>2. ASSUME NEW t \in Threads, Allocate(t) PROVE IdsKept
    <2>1. Head(grams[t]) \notin DOMAIN ids
      BY <1>2 DEF Allocate, At, IdInv, Claims
    <2> QED
      BY <1>2, <2>1 DEF Allocate, Put, IdsKept
  <1>3. ASSUME NEW t \in Threads, NEW f \in Fields, FieldId(t, f) PROVE IdsKept
    BY <1>3 DEF FieldId, Put, Get, IdsKept
  <1>4. List \/ Assemble => ids' = ids
    BY DEF List, Assemble, builder, idMap
  <1>5. ASSUME NEW t \in Threads,
               \/ Take(t) \/ Comment(t) \/ Broken(t) \/ Filter(t) \/ Duplicate(t)
               \/ Accept(t) \/ Close(t)
        PROVE  ids' = ids
    BY <1>5 DEF Take, Comment, Broken, Filter, Duplicate, Accept, Close, builder, idMap
  <1>6. ASSUME NEW t \in Threads,
               BeginQuestion(t) \/ Lookup(t) \/ AddDoc(t) \/ StoreDocument(t)
        PROVE  ids' = ids
    <2>1. BeginQuestion(t) => ids' = ids
      BY DEF BeginQuestion, idMap
    <2>2. Lookup(t) => ids' = ids
      BY DEF Lookup, builder, idMap
    <2>3. AddDoc(t) => ids' = ids
      BY DEF AddDoc, idMap
    <2>4. StoreDocument(t) => ids' = ids
      BY DEF StoreDocument, idMap
    <2> QED
      BY <1>6, <2>1, <2>2, <2>3, <2>4
  <1>7. ASSUME NEW t \in Threads, NEW f \in Fields,
               SkipField(t, f) \/ BeginField(t, f) \/ StoreField(t, f)
        PROVE  ids' = ids
    BY <1>7 DEF SkipField, BeginField, StoreField, builder, idMap
  <1> QED
    BY <1>1, <1>2, <1>3, <1>4, <1>5, <1>6, <1>7 DEF Next, Step

(* No step of any thread moves an n-gram to another id or takes its id     *)
(* away (get_or_create_ngram_id, or_insert_with).                          *)
THEOREM IdsStable == Spec => [][IdsKept]_vars
  <1>1. IdInv /\ Next => IdsKept
    BY IdsKeptStep
  <1>2. Init => IdInv
    BY InitIds
  <1>3. IdInv /\ [Next]_vars => IdInv'
    BY IdsInductive
  <1> QED
    BY <1>1, <1>2, <1>3, PTL DEF Spec

-----------------------------------------------------------------------------
(* What deduplication leaves, and what the maps hold when the files are    *)
(* read.  A candidate is an entry, given as its file and its line, that    *)
(* passes the filters and has no broken line before it.  The argument      *)
(* rests on where the threads stand: no two in one file, none in a file    *)
(* that nobody has taken; so each candidate is handled by one thread, once,*)
(* and with document ids that differ what a map holds for a document can   *)
(* only come from that candidate.                                          *)

Cur(t) == <<file[t], pos[t]>>
Working(t) == pc[t] # "idle"
InEntry(t) == pc[t] \notin {"idle", "line"}
DocAt(c) == EntryAt(c).doc % DocWidth

Asking == {"lookup", "allocate", "add"}
AfterQuestion == {"answer", "answer_ids", "passage", "passage_ids"}
Past(f) == IF f = "answer" THEN {"passage", "passage_ids"} ELSE {}
EntrySteps == {"question"} \cup Asking \cup AfterQuestion

(* A candidate is behind when the thread that read its file has passed it; *)
(* Done(c, S): it is behind, or a thread stands on it in a step of S.      *)
Behind(c) ==
    /\ phase # "list" /\ c[1] \notin todo
    /\ \A t \in Threads : Working(t) /\ file[t] = c[1] => c[2] < pos[t]
Done(c, S) == Behind(c) \/ \E t \in Threads : pc[t] \in S /\ c = Cur(t)

OneThread == \A t, u \in Threads : Working(t) /\ Working(u) /\ file[t] = file[u] => t = u
Ahead ==
    \A t \in Threads : Working(t) =>
        /\ phase # "list" /\ file[t] \notin todo
        /\ \A l \in 1 .. pos[t] - 1 : input[file[t]][l].kind # "bad"
Accepted == \A t \in Threads : InEntry(t) => Passes(Line(t)) /\ Line(t).asked
Joined ==
    \/ phase # "built" /\ index.built = FALSE
    \/ /\ phase = "built" /\ todo = {} /\ \A t \in Threads : pc[t] = "idle"
       /\ index = Assembled
Alone == OneThread /\ Ahead /\ Accepted /\ Joined

(* How a step of a thread moves it: it takes a file, leaves it at a broken *)
(* line or at the end, goes to the next line, or goes from step to step of *)
(* an entry.                                                               *)
Starts(t) ==
    /\ pc[t] = "idle" /\ pc'[t] = "line" /\ pos'[t] = 1
    /\ file'[t] \in todo /\ todo' = todo \ {file'[t]}
Leaves(t) ==
    /\ pc[t] = "line" /\ pc'[t] = "idle" /\ pos'[t] = pos[t]
    /\ pos[t] <= Len(input[file[t]]) => Line(t).kind = "bad"
GoesOn(t) ==
    /\ pc[t] # "idle" /\ pc'[t] = "line" /\ pos'[t] = pos[t] + 1
    /\ pos[t] \in DOMAIN input[file[t]] /\ Line(t).kind # "bad"
Within(t) ==
    /\ pc'[t] \in EntrySteps /\ pos'[t] = pos[t]
    /\ \/ pc[t] \in EntrySteps
       \/ /\ pc[t] = "line" /\ OnEntry(t)
          /\ Passes(Line(t)) /\ Line(t).asked
Moves(t) ==
    /\ phase = "build" /\ phase' \in {"build", "panicked"} /\ UNCHANGED <<input, index>>
    /\ \A u \in Threads \ {t} : pc'[u] = pc[u] /\ pos'[u] = pos[u] /\ file'[u] = file[u]
    /\ \/ Starts(t)
       \/ /\ todo' = todo /\ file'[t] = file[t]
          /\ Leaves(t) \/ GoesOn(t) \/ Within(t)

(* Where a line is, in its file. *)
LEMMA LinesOfFile ==
    ASSUME input \in Inputs, NEW f \in DOMAIN input
    PROVE  input[f] \in Seq(SomeLine \cup EntryLine) /\ DOMAIN input[f] = 1 .. Len(input[f])
  <1>1. input[f] \in Seq(SomeLine \cup EntryLine)
    BY InputAssumption DEF InputAssumption
  <1> QED
    BY <1>1

LEMMA StepMoves ==
    ASSUME IdInv, NEW t \in Threads, Step(t)
    PROVE  Moves(t)
  <1>0. /\ pc \in [Threads -> Steps] /\ pos \in [Threads -> Nat]
        /\ file \in [Threads -> DOMAIN input \cup {None}] /\ input \in Inputs
        /\ todo \subseteq DOMAIN input
        /\ pc[t] = "line" => file[t] \in DOMAIN input /\ pos[t] \in Nat \ {0}
        /\ pc[t] \notin {"idle", "line"} => OnEntry(t)
    BY DEF IdInv, Shapes, Places
  <1> DEFINE Frame == phase = "build" /\ phase' \in {"build", "panicked"}
                      /\ UNCHANGED <<input, index>>
             Fixed == UNCHANGED <<todo, file>>
  <1>1. CASE Take(t)
    <2>1. Frame
      BY <1>1 DEF Take, At
    <2>2. Starts(t)
      BY <1>0, <1>1 DEF Take, At, Starts
    <2>3. \A u \in Threads \ {t} : pc'[u] = pc[u] /\ pos'[u] = pos[u] /\ file'[u] = file[u]
      BY <1>0, <1>1 DEF Take
    <2> QED
      BY <2>1, <2>2, <2>3 DEF Moves
  <1>2. CASE Broken(t) \/ Close(t)
    <2>1. Frame /\ Fixed /\ pos' = pos /\ pc' = [pc EXCEPT ![t] = "idle"] /\ pc[t] = "line"
      BY <1>2 DEF Broken, Close, AtLine, At
    <2>2. pos[t] <= Len(input[file[t]]) => Line(t).kind = "bad"
      BY <1>2, <1>0, <2>1, LinesOfFile DEF Broken, Close, AtLine
    <2>3. Leaves(t)
      BY <1>0, <2>1, <2>2 DEF Leaves
    <2> QED
      BY <1>0, <2>1, <2>3 DEF Moves
  <1>3. CASE Comment(t) \/ Filter(t) \/ Duplicate(t) \/ (Accept(t) /\ ~Line(t).asked)
    <2>1. Frame /\ Fixed /\ NextLine(t) /\ pc[t] = "line"
      BY <1>3 DEF Comment, Filter, Duplicate, Accept, AtLine, At
    <2>2. pos[t] <= Len(input[file[t]]) /\ Line(t).kind # "bad"
      BY <1>3 DEF Comment, Filter, Duplicate, Accept, AtLine
    <2>3. pos[t] \in DOMAIN input[file[t]]
      BY <1>0, <2>1, <2>2, LinesOfFile
    <2>4. GoesOn(t)
      BY <1>0, <2>1, <2>2, <2>3 DEF GoesOn, NextLine
    <2> QED
      BY <1>0, <2>1, <2>4 DEF Moves, NextLine
  <1>4. CASE Accept(t) /\ Line(t).asked
    <2>1. /\ Frame /\ Fixed /\ pos' = pos /\ pc' = [pc EXCEPT ![t] = "question"]
          /\ pc[t] = "line" /\ Passes(Line(t))
      BY <1>4 DEF Accept, AtLine, At
    <2>2. pos[t] <= Len(input[file[t]]) /\ Line(t).kind = "entry"
      BY <1>4 DEF Accept, AtLine
    <2>3. OnEntry(t)
      BY <1>0, <2>1, <2>2, LinesOfFile DEF OnEntry
    <2>4. Within(t)
      BY <1>0, <1>4, <2>1, <2>3 DEF Within, EntrySteps
    <2> QED
      BY <1>0, <2>1, <2>4 DEF Moves
  <1> DEFINE Goes == \/ /\ pos' = pos
                        /\ \E s \in EntrySteps : pc' = [pc EXCEPT ![t] = s]
                     \/ NextLine(t)
  <1>5. ASSUME Frame, Fixed, pc[t] \in EntrySteps, Goes
        PROVE  Moves(t)
    <2>1. OnEntry(t)
      BY <1>0, <1>5 DEF EntrySteps, Asking, AfterQuestion
    <2>2. CASE NextLine(t)
      <3>1. pos[t] \in DOMAIN input[file[t]] /\ Line(t).kind # "bad"
        BY <2>1 DEF OnEntry
      <3>2. GoesOn(t)
        BY <1>0, <1>5, <2>2, <3>1 DEF GoesOn, NextLine, EntrySteps, Asking, AfterQuestion
      <3> QED
        BY <1>0, <1>5, <2>2, <3>2 DEF Moves, NextLine
    <2>3. CASE /\ pos' = pos
               /\ \E s \in EntrySteps : pc' = [pc EXCEPT ![t] = s]
      <3>1. Within(t)
        BY <1>0, <1>5, <2>3 DEF Within
      <3> QED
        BY <1>0, <1>5, <2>3, <3>1 DEF Moves
    <2> QED
      BY <1>5, <2>2, <2>3
  <1>6. CASE BeginQuestion(t) \/ Lookup(t) \/ Allocate(t) \/ AddDoc(t) \/ StoreDocument(t)
    <2>1. Frame
      BY <1>6 DEF BeginQuestion, Lookup, Allocate, AddDoc, StoreDocument, At
    <2>2. Fixed /\ pc[t] \in EntrySteps
      BY <1>6 DEF BeginQuestion, Lookup, Allocate, AddDoc, StoreDocument, At,
                  EntrySteps, Asking, AfterQuestion
    <2>3. pos' = pos /\ \E s \in EntrySteps : pc' = [pc EXCEPT ![t] = s]
      <3>1. BeginQuestion(t) \/ AddDoc(t) \/ Allocate(t) \/ StoreDocument(t) =>
               /\ pos' = pos
               /\ \/ pc' = [pc EXCEPT ![t] = "lookup"] \/ pc' = [pc EXCEPT ![t] = "answer"]
                  \/ pc' = [pc EXCEPT ![t] = "add"]
        BY DEF BeginQuestion, Allocate, AddDoc, StoreDocument
      <3>2. Lookup(t) =>
               /\ pos' = pos
               /\ \/ pc' = [pc EXCEPT ![t] = "add"] \/ pc' = [pc EXCEPT ![t] = "allocate"]
                  \/ pc' = [pc EXCEPT ![t] = "lookup"]
        BY <1>0 DEF Lookup, At
      <3> QED
        BY <1>6, <3>1, <3>2 DEF EntrySteps, Asking, AfterQuestion
    <2> QED
      BY <2>1, <2>2, <2>3, <1>5
  <1>7. ASSUME NEW f \in Fields,
               SkipField(t, f) \/ BeginField(t, f) \/ FieldId(t, f) \/ StoreField(t, f)
        PROVE  Moves(t)
    <2>1. f \in {"answer", "passage"} /\ IdStep(f) \in {"answer_ids", "passage_ids"}
      BY DEF Fields, IdStep
    <2>2. Frame /\ Fixed
      BY <1>7 DEF SkipField, BeginField, FieldId, StoreField, At
    <2>3. pc[t] \in EntrySteps
      BY <1>7, <2>1 DEF SkipField, BeginField, FieldId, StoreField, At, EntrySteps,
                        AfterQuestion
    <2>4. Goes
      <3>1. SkipField(t, f) \/ StoreField(t, f) => Goes
        BY DEF SkipField, StoreField, After, EntrySteps, AfterQuestion
      <3>2. BeginField(t, f) => Goes
        BY <2>1 DEF BeginField, EntrySteps, AfterQuestion
      <3>3. FieldId(t, f) => Goes
        <4>1. FieldId(t, f) => pos' = pos /\ pc' = pc
          BY DEF FieldId
        <4>2. pc = [pc EXCEPT ![t] = pc[t]]
          BY <1>0
        <4> QED
          BY <2>3, <4>1, <4>2
      <3> QED
        BY <1>7, <3>1, <3>2, <3>3
    <2> QED
      BY <2>2, <2>3, <2>4, <1>5
  <1> QED
    BY <1>1, <1>2, <1>3, <1>4, <1>6, <1>7 DEF Step

LEMMA AloneInit == Init => Alone
  BY DEF Init, Alone, OneThread, Ahead, Accepted, Joined, Working, InEntry

LEMMA AloneStep ==
    ASSUME IdInv, Alone, NEW t \in Threads, Moves(t)
    PROVE  Alone'
  <1>0. /\ pc \in [Threads -> Steps] /\ pos \in [Threads -> Nat] /\ todo \subseteq DOMAIN input
    BY DEF IdInv, Shapes
  <1>1. OneThread'
    <2>1. \A u, v \in Threads : Working(u) /\ Working(v) /\ file[u] = file[v] => u = v
      BY DEF Alone, OneThread
    <2>2. \A u \in Threads : Working(u) => file[u] \notin todo
      BY DEF Alone, Ahead
    <2>3. \A u \in Threads \ {t} : (Working(u)' <=> Working(u)) /\ file'[u] = file[u]
      BY DEF Moves, Working
    <2>4. CASE Starts(t)
      <3>1. file'[t] \in todo
        BY <2>4 DEF Starts
      <3> QED
        BY <2>1, <2>2, <2>3, <3>1 DEF OneThread
    <2>5. CASE file'[t] = file[t] /\ Working(t)
      BY <2>1, <2>3, <2>5 DEF OneThread
    <2>6. Starts(t) \/ (file'[t] = file[t] /\ Working(t))
      BY DEF Moves, Leaves, GoesOn, Within, Working, EntrySteps, Asking, AfterQuestion
    <2> QED
      BY <2>4, <2>5, <2>6
  <1>2. Ahead'
    <2> SUFFICES ASSUME NEW u \in Threads, Working(u)'
                 PROVE  /\ phase' # "list" /\ file'[u] \notin todo'
                        /\ \A l \in 1 .. pos'[u] - 1 : input'[file'[u]][l].kind # "bad"
      BY DEF Ahead
    <2>1. phase' # "list" /\ input' = input
      BY DEF Moves
    <2>2. CASE u # t
      <3>1. Working(u) /\ pos'[u] = pos[u] /\ file'[u] = file[u]
        BY <2>2 DEF Moves, Working
      <3>2. file[u] \notin todo /\ \A l \in 1 .. pos[u] - 1 : input[file[u]][l].kind # "bad"
        BY <3>1 DEF Alone, Ahead
      <3>3. todo' \subseteq todo
        BY DEF Moves, Starts
      <3> QED
        BY <2>1, <3>1, <3>2, <3>3
    <2>3. CASE u = t /\ Starts(t)
      BY <2>1, <2>3 DEF Starts
    <2>4. CASE u = t /\ ~Starts(t)
      <3>1. todo' = todo /\ file'[t] = file[t] /\ (GoesOn(t) \/ Within(t))
        BY <2>4 DEF Moves, Leaves, Working
      <3>2. Working(t)
        BY <3>1 DEF GoesOn, Within, Working, EntrySteps, Asking, AfterQuestion
      <3>3. file[t] \notin todo /\ \A l \in 1 .. pos[t] - 1 : input[file[t]][l].kind # "bad"
        BY <3>2 DEF Alone, Ahead
      <3>4. \A l \in 1 .. pos'[t] - 1 : input[file[t]][l].kind # "bad"
        <4>1. CASE Within(t)
          BY <3>3, <4>1 DEF Within
        <4>2. CASE GoesOn(t)
          <5>1. pos'[t] = pos[t] + 1 /\ input[file[t]][pos[t]].kind # "bad" /\ pos[t] \in Nat
            BY <1>0, <4>2 DEF GoesOn, Line
          <5> QED
            BY <3>3, <5>1
        <4> QED
          BY <3>1, <4>1, <4>2
      <3> QED
        BY <2>1, <2>4, <3>1, <3>3, <3>4
    <2> QED
      BY <2>2, <2>3, <2>4
  <1>3. Accepted'
    <2> SUFFICES ASSUME NEW u \in Threads, InEntry(u)'
                 PROVE  Passes(Line(u))' /\ Line(u)'.asked
      BY DEF Accepted
    <2>1. input' = input
      BY DEF Moves
    <2>2. (InEntry(u) /\ pos'[u] = pos[u] /\ file'[u] = file[u]) \/ (u = t /\ Within(t))
      <3>1. CASE u = t
        <4>1. pc'[t] \notin {"idle", "line"}
          BY <3>1 DEF InEntry
        <4> QED
          BY <3>1, <4>1 DEF Moves, Starts, Leaves, GoesOn
      <3>2. CASE u # t
        BY <3>2 DEF Moves, InEntry
      <3> QED
        BY <3>1, <3>2
    <2>3. InEntry(u) => Passes(Line(u)) /\ Line(u).asked
      BY DEF Alone, Accepted
    <2>4. u = t /\ Within(t) => pos'[u] = pos[u] /\ file'[u] = file[u]
      BY DEF Moves, Within, Starts, EntrySteps, Asking, AfterQuestion
    <2>5. Within(t) => InEntry(t) \/ (Passes(Line(t)) /\ Line(t).asked)
      BY DEF Within, InEntry, EntrySteps, Asking, AfterQuestion
    <2>6. Line(u)' = Line(u) /\ Passes(Line(u)) /\ Line(u).asked
      BY <2>1, <2>2, <2>3, <2>4, <2>5 DEF Line
    <2> QED
      BY <2>6 DEF Passes, TooShort, TooFewWords, Combined
  <1>4. Joined'
    BY DEF Moves, Alone, Joined
  <1> QED
    BY <1>1, <1>2, <1>3, <1>4 DEF Alone

(* Listing, joining and standing still. *)
LEMMA AloneRest ==
    ASSUME IdInv, Alone, List \/ Assemble \/ UNCHANGED vars
    PROVE  Alone'
  <1>1. CASE List
    <2>1. \A t \in Threads : pc[t] = "idle"
      BY <1>1 DEF List, Alone, Ahead, Working
    <2>2. \A t \in Threads : pc'[t] = "idle"
      BY <1>1, <2>1 DEF List, local
    <2>3. phase' \in {"error", "build"} /\ index' = index /\ index.built = FALSE
      BY <1>1 DEF List, Alone, Joined
    <2> QED
      BY <2>2, <2>3 DEF Alone, OneThread, Ahead, Accepted, Joined, Working, InEntry
  <1>2. CASE Assemble
    <2>1. \A t \in Threads : pc'[t] = "idle"
      BY <1>2 DEF Assemble, local
    <2>2. phase' = "built" /\ todo' = {} /\ index' = Assembled
      BY <1>2 DEF Assemble
    <2>3. Assembled' = Assembled
      BY <1>2 DEF Assemble, question, fields, Assembled, Idf, Total, Hot, HotThreshold,
                  Sentinel, AnswerTokens
    <2> QED
      BY <2>1, <2>2, <2>3 DEF Alone, OneThread, Ahead, Accepted, Joined, Working, InEntry
  <1>3. CASE UNCHANGED vars
    <2>1. UNCHANGED <<input, phase, todo, pc, file, pos, index>>
      BY <1>3 DEF vars, local
    <2>2. Assembled' = Assembled
      BY <1>3 DEF vars, question, fields, Assembled, Idf, Total, Hot, HotThreshold,
                  Sentinel, AnswerTokens
    <2> QED
      BY <2>1, <2>2 DEF Alone, OneThread, Ahead, Accepted, Joined, Working, InEntry, Line
  <1> QED
    BY <1>1, <1>2, <1>3

-----------------------------------------------------------------------------
(* Candidates. *)

LEMMA CandidateFacts ==
    ASSUME input \in Inputs, NEW c \in AllCandidates
    PROVE  /\ c = <<c[1], c[2]>> /\ c[1] \in DOMAIN input
           /\ c[2] \in 1 .. Len(input[c[1]]) /\ c[2] \in Nat \ {0}
           /\ \A l \in 1 .. c[2] : input[c[1]][l].kind # "bad"
           /\ EntryAt(c).kind = "entry" /\ Passes(EntryAt(c)) /\ EntryAt(c) \in EntryLine
           /\ DocAt(c) \in Nat /\ DocAt(c) < DocWidth
  <1>1. PICK f \in DOMAIN input : \E k \in Candidates(f) : c = <<f, k>>
    BY DEF AllCandidates
  <1>2. PICK k \in Candidates(f) : c = <<f, k>>
    BY <1>1
  <1>3. DOMAIN input[f] = 1 .. Len(input[f]) /\ input[f] \in Seq(SomeLine \cup EntryLine)
    BY LinesOfFile
  <1>4. Len(input[f]) \in Nat
    BY <1>3
  <1>5. /\ k \in 1 .. Len(input[f]) /\ \A l \in 1 .. k : input[f][l].kind # "bad"
        /\ input[f][k].kind = "entry" /\ Passes(input[f][k])
    BY <1>2, <1>3 DEF Candidates, Reached
  <1>6. EntryAt(c) = input[f][k] /\ c[1] = f /\ c[2] = k
    BY <1>2 DEF EntryAt
  <1>7. EntryAt(c) \in SomeLine \cup EntryLine
    BY <1>3, <1>4, <1>5, <1>6
  <1>8. EntryAt(c) \in EntryLine
    BY <1>5, <1>6, <1>7 DEF SomeLine
  <1>9. EntryAt(c).doc \in Nat
    BY <1>8 DEF EntryLine
  <1>10. DocAt(c) \in Nat /\ DocAt(c) < DocWidth
    BY <1>9, WidthAssumption DEF WidthAssumption, DocAt
  <1> QED
    BY <1>2, <1>4, <1>5, <1>6, <1>8, <1>10

LEMMA CandidateIf ==
    ASSUME input \in Inputs, NEW f \in DOMAIN input, NEW k \in DOMAIN input[f],
           \A l \in 1 .. k : input[f][l].kind # "bad",
           input[f][k].kind = "entry", Passes(input[f][k])
    PROVE  <<f, k>> \in AllCandidates
  BY DEF AllCandidates, Candidates, Reached

(* What depends on the reference files only. *)
LEMMA SameInput ==
    ASSUME input' = input
    PROVE  /\ AllCandidates' = AllCandidates /\ (DistinctDocs' <=> DistinctDocs)
           /\ \A c : EntryAt(c)' = EntryAt(c) /\ DocAt(c)' = DocAt(c)
           /\ \A f : Reached(f)' = Reached(f)
           /\ \A k : WithKey(k)' = WithKey(k)
  <1>1. \A f : Reached(f)' = Reached(f)
    BY DEF Reached
  <1>2. \A c : EntryAt(c)' = EntryAt(c)
    BY DEF EntryAt
  <1>3. \A f : Candidates(f)' = Candidates(f)
    BY <1>1 DEF Candidates, Passes, TooShort, TooFewWords, Combined
  <1>4. AllCandidates' = AllCandidates
    BY <1>3 DEF AllCandidates
  <1>5. DistinctDocs' <=> DistinctDocs
    BY <1>2, <1>4 DEF DistinctDocs
  <1>6. \A c : DocAt(c)' = DocAt(c)
    BY <1>2 DEF DocAt
  <1>7. \A k : WithKey(k)' = WithKey(k)
    BY <1>2, <1>4 DEF WithKey, Keyed
  <1> QED
    BY <1>1, <1>2, <1>4, <1>5, <1>6, <1>7

(* A thread in an entry stands on a candidate. *)
LEMMA CurFacts ==
    ASSUME IdInv, Alone, NEW t \in Threads, InEntry(t)
    PROVE  /\ Cur(t) \in AllCandidates /\ EntryAt(Cur(t)) = Line(t) /\ DocAt(Cur(t)) = Doc(t)
           /\ Line(t) \in EntryLine /\ Passes(Line(t)) /\ Line(t).asked
  <1>1. OnEntry(t) /\ Passes(Line(t)) /\ Line(t).asked /\ input \in Inputs /\ pos[t] \in Nat
    BY DEF IdInv, Places, Shapes, Alone, Accepted, InEntry
  <1>2. \A l \in 1 .. pos[t] - 1 : input[file[t]][l].kind # "bad"
    BY DEF Alone, Ahead, Working, InEntry
  <1>3. \A l \in 1 .. pos[t] : input[file[t]][l].kind # "bad"
    <2>1. input[file[t]][pos[t]].kind = "entry"
      BY <1>1 DEF OnEntry, Line
    <2>2. \A l \in 1 .. pos[t] : l = pos[t] \/ l \in 1 .. pos[t] - 1
      BY <1>1
    <2> QED
      BY <1>2, <2>1, <2>2
  <1>4. Cur(t) \in AllCandidates
    BY <1>1, <1>3, CandidateIf DEF OnEntry, Line, Cur
  <1>5. EntryAt(Cur(t)) = Line(t)
    BY DEF EntryAt, Cur, Line
  <1>6. Line(t) \in EntryLine
    BY <1>1, EntryGrams
  <1> QED
    BY <1>1, <1>4, <1>5, <1>6 DEF DocAt, Doc

(* The candidate on which a thread stands is done exactly if the thread is *)
(* in one of the steps.                                                    *)
LEMMA DoneCur ==
    ASSUME IdInv, Alone, NEW t \in Threads, Working(t), NEW S \in SUBSET EntrySteps
    PROVE  Done(Cur(t), S) <=> pc[t] \in S
  <1>1. pos[t] \in Nat /\ Cur(t)[1] = file[t] /\ Cur(t)[2] = pos[t]
    BY DEF IdInv, Shapes, Cur
  <1>2. ~Behind(Cur(t))
    BY <1>1 DEF Behind
  <1>3. \A u \in Threads : pc[u] \in S => Working(u)
    BY DEF Working, EntrySteps, Asking, AfterQuestion
  <1>4. \A u \in Threads : pc[u] \in S /\ Cur(t) = Cur(u) => u = t
    BY <1>3 DEF Alone, OneThread, Cur
  <1> QED
    BY <1>2, <1>4 DEF Done

(* What a step of a thread gets done: nothing but of its own candidate. *)
LEMMA DoneStep ==
    ASSUME IdInv, Alone, NEW t \in Threads, Moves(t), NEW c \in AllCandidates,
           NEW S \in SUBSET EntrySteps
    PROVE  Done(c, S)' <=> IF Working(t) /\ c = Cur(t)
                             THEN pos'[t] # pos[t] \/ pc'[t] \in S
                             ELSE Done(c, S)
  <1>0. /\ pc \in [Threads -> Steps] /\ pos \in [Threads -> Nat] /\ input \in Inputs
        /\ phase # "list" /\ phase' # "list"
    BY DEF IdInv, Shapes, Moves
  <1>1. /\ c = <<c[1], c[2]>> /\ c[1] \in DOMAIN input /\ c[2] \in Nat \ {0}
        /\ c[2] \in 1 .. Len(input[c[1]])
        /\ \A l \in 1 .. c[2] : input[c[1]][l].kind # "bad"
    BY <1>0, CandidateFacts
  <1>2. \A u \in Threads \ {t} : pc'[u] = pc[u] /\ pos'[u] = pos[u] /\ file'[u] = file[u]
    BY DEF Moves
  <1>3. \A u \in Threads : Working(u) => file[u] \notin todo
    BY DEF Alone, Ahead
  <1>4. \A u \in Threads : pc[u] \in S => Working(u)
    BY DEF Working, EntrySteps, Asking, AfterQuestion
  <1>5. "line" \notin S /\ "idle" \notin S
    BY DEF EntrySteps, Asking, AfterQuestion
  <1>6. CASE Starts(t)
    <2>1. ~Working(t) /\ pc[t] \notin S /\ pc'[t] \notin S /\ pc'[t] = "line"
      BY <1>5, <1>6 DEF Starts, Working
    <2>2. (\E u \in Threads : pc'[u] \in S /\ c = Cur(u)')
             <=> \E u \in Threads : pc[u] \in S /\ c = Cur(u)
      BY <1>2, <2>1 DEF Cur
    <2>3. Behind(c)' <=> Behind(c)
      <3>1. CASE c[1] = file'[t]
        <4>1. ~Behind(c)
          BY <1>6, <3>1 DEF Starts, Behind
        <4>2. ~(c[2] < pos'[t]) /\ Working(t)'
          BY <1>1, <1>6, <2>1 DEF Starts, Working
        <4> QED
          BY <3>1, <4>1, <4>2 DEF Behind
      <3>2. CASE c[1] # file'[t]
        <4>1. c[1] \in todo' <=> c[1] \in todo
          BY <1>6, <3>2 DEF Starts
        <4>2. \A u \in Threads \ {t} :
                 (Working(u)' /\ file'[u] = c[1] => c[2] < pos'[u])
                    <=> (Working(u) /\ file[u] = c[1] => c[2] < pos[u])
          BY <1>2 DEF Working
        <4> QED
          BY <1>0, <2>1, <3>2, <4>1, <4>2 DEF Behind
      <3> QED
        BY <3>1, <3>2
    <2> QED
      BY <2>1, <2>2, <2>3 DEF Done
  <1>7. CASE ~Starts(t)
    <2>0. /\ todo' = todo /\ file'[t] = file[t] /\ Working(t)
          /\ Leaves(t) \/ GoesOn(t) \/ Within(t)
      BY <1>7 DEF Moves, Leaves, GoesOn, Within, Working, EntrySteps, Asking, AfterQuestion
    <2>1. \A u \in Threads \ {t} :
             /\ (Working(u)' /\ file'[u] = c[1] => c[2] < pos'[u])
                  <=> (Working(u) /\ file[u] = c[1] => c[2] < pos[u])
             /\ (pc'[u] \in S /\ c = Cur(u)') <=> (pc[u] \in S /\ c = Cur(u))
      BY <1>2 DEF Working, Cur
    <2>2. CASE c = Cur(t)
      <3>1. c[1] = file[t] /\ c[2] = pos[t]
        BY <2>2 DEF Cur
      <3>2. ~Leaves(t)
        BY <1>1, <3>1 DEF Leaves, Line
      <3>3. Working(t)'
        BY <2>0, <3>2 DEF GoesOn, Within, Working, EntrySteps, Asking, AfterQuestion
      <3>4. \A u \in Threads \ {t} : ~(Working(u) /\ file[u] = file[t])
        BY <2>0 DEF Alone, OneThread
      <3>5. \A u \in Threads \ {t} : ~(pc[u] \in S /\ c = Cur(u))
        BY <1>4, <3>1, <3>4 DEF Cur
      <3>6. CASE GoesOn(t)
        <4>1. pos'[t] = pos[t] + 1 /\ pc'[t] = "line"
          BY <3>6 DEF GoesOn
        <4>2. c[2] < pos'[t] /\ pos'[t] # pos[t]
          BY <1>0, <3>1, <4>1
        <4>3. Behind(c)'
          <5>1. \A u \in Threads : Working(u)' /\ file'[u] = c[1] => c[2] < pos'[u]
            BY <2>1, <3>1, <3>4, <4>2
          <5>2. c[1] \notin todo'
            BY <1>3, <2>0, <3>1
          <5> QED
            BY <1>0, <5>1, <5>2 DEF Behind
        <4> QED
          BY <2>0, <2>2, <4>2, <4>3 DEF Done
      <3>7. CASE Within(t)
        <4>1. pos'[t] = pos[t]
          BY <3>7 DEF Within
        <4>2. ~Behind(c)'
          <5>1. ~(c[2] < pos'[t]) /\ file'[t] = c[1]
            BY <1>1, <2>0, <3>1, <4>1
          <5> QED
            BY <3>3, <5>1 DEF Behind
        <4>3. Cur(t)' = c
          BY <2>0, <2>2, <4>1 DEF Cur
        <4> QED
          BY <2>0, <2>1, <2>2, <3>5, <4>1, <4>2, <4>3 DEF Done
      <3> QED
        BY <2>0, <3>2, <3>6, <3>7
    <2>3. CASE c # Cur(t)
      <3>1. ~(pc[t] \in S /\ c = Cur(t)) /\ ~(pc'[t] \in S /\ c = Cur(t)')
        <4>1. pc'[t] \in S => pos'[t] = pos[t]
          BY <1>5, <2>0 DEF Leaves, GoesOn, Within
        <4> QED
          BY <2>0, <2>3, <4>1 DEF Cur
      <3>2. (Working(t)' /\ file'[t] = c[1] => c[2] < pos'[t])
              <=> (Working(t) /\ file[t] = c[1] => c[2] < pos[t])
        <4>1. CASE c[1] # file[t]
          BY <2>0, <4>1
        <4>2. CASE c[1] = file[t]
          <5>1. c[2] # pos[t]
            BY <1>1, <2>3, <4>2 DEF Cur
          <5>2. CASE Leaves(t)
            <6>1. ~Working(t)'
              BY <5>2 DEF Leaves, Working
            <6>2. c[2] < pos[t]
              <7>1. CASE pos[t] <= Len(input[file[t]])
                <8>1. input[file[t]][pos[t]].kind = "bad"
                  BY <5>2, <7>1 DEF Leaves, Line
                <8>2. pos[t] \in Nat \ {0}
                  BY <5>2 DEF Leaves, IdInv, Places
                <8>3. ~(pos[t] \in 1 .. c[2])
                  BY <1>1, <4>2, <8>1
                <8> QED
                  BY <1>1, <8>2, <8>3
              <7>2. CASE ~(pos[t] <= Len(input[file[t]]))
                <8>1. Len(input[file[t]]) \in Nat
                  BY <1>0, <1>1, <4>2, LinesOfFile
                <8> QED
                  BY <1>0, <1>1, <4>2, <7>2, <8>1
              <7> QED
                BY <7>1, <7>2
            <6> QED
              BY <6>1, <6>2
          <5>3. CASE GoesOn(t)
            <6>1. pos'[t] = pos[t] + 1 /\ Working(t)'
              BY <5>3 DEF GoesOn, Working
            <6>2. c[2] < pos'[t] <=> c[2] < pos[t]
              BY <1>0, <1>1, <5>1, <6>1
            <6> QED
              BY <2>0, <6>1, <6>2
          <5>4. CASE Within(t)
            <6>1. pos'[t] = pos[t] /\ Working(t)'
              BY <5>4 DEF Within, Working, EntrySteps, Asking, AfterQuestion
            <6> QED
              BY <2>0, <6>1
          <5> QED
            BY <2>0, <5>2, <5>3, <5>4
        <4> QED
          BY <4>1, <4>2
      <3>3. Behind(c)' <=> Behind(c)
        BY <1>0, <2>0, <2>1, <3>2 DEF Behind
      <3> QED
        BY <2>1, <2>3, <3>1, <3>3 DEF Done
    <2> QED
      BY <2>2, <2>3
  <1> QED
    BY <1>6, <1>7

-----------------------------------------------------------------------------
(* The marks of check_and_mark_duplicate: every key in the map was marked  *)
(* by a candidate that some thread has come to, the first of the key in    *)
(* its file; every keyed candidate that a thread has come to finds its key *)
(* marked; and the one a thread works on has marked its key itself.        *)
Owns(c) ==
    Keyed(EntryAt(c)) =>
       EntryAt(c).key \in DOMAIN marked /\ marked[EntryAt(c).key] = EntryAt(c)
Marker(c, k) ==
    /\ Keyed(EntryAt(c)) /\ EntryAt(c).key = k
    /\ \A a \in WithKey(k) : a[1] = c[1] => c[2] <= a[2]
MarkedFirst ==
    \A k \in DOMAIN marked : \E c \in AllCandidates :
        Marker(c, k) /\ marked[k] = EntryAt(c) /\ Done(c, EntrySteps)
SeenMarked ==
    \A c \in AllCandidates :
        Keyed(EntryAt(c)) /\ Done(c, EntrySteps) => EntryAt(c).key \in DOMAIN marked
CurrentOwns == \A t \in Threads : InEntry(t) => Owns(Cur(t))
Marks == MarkedFirst /\ SeenMarked /\ CurrentOwns

Kept(c, S) == Done(c, S) /\ Usable(EntryAt(c)) /\ Owns(c)

LEMMA MarkedStep ==
    ASSUME NEW t \in Threads, Step(t)
    PROVE  \/ marked' = marked
           \/ /\ Accept(t) /\ Keyed(Line(t)) /\ Line(t).key \notin DOMAIN marked
              /\ marked' = Put(marked, Line(t).key, Line(t))
  <1>1. CASE Accept(t)
    BY <1>1 DEF Accept
  <1>2. CASE Take(t) \/ Comment(t) \/ Broken(t) \/ Filter(t) \/ Duplicate(t) \/ Close(t)
    BY <1>2 DEF Take, Comment, Broken, Filter, Duplicate, Close
  <1>3. CASE BeginQuestion(t) \/ Lookup(t) \/ Allocate(t) \/ AddDoc(t) \/ StoreDocument(t)
    BY <1>3 DEF BeginQuestion, Lookup, Allocate, AddDoc, StoreDocument
  <1>4. ASSUME NEW f \in Fields,
               SkipField(t, f) \/ BeginField(t, f) \/ FieldId(t, f) \/ StoreField(t, f)
        PROVE  marked' = marked
    BY <1>4 DEF SkipField, BeginField, FieldId, StoreField
  <1> QED
    BY <1>1, <1>2, <1>3, <1>4 DEF Step

(* The entry a thread is about to look at. *)
LEMMA LineFacts ==
    ASSUME IdInv, Alone, NEW t \in Threads, AtLine(t, "entry"), Passes(Line(t))
    PROVE  Cur(t) \in AllCandidates /\ EntryAt(Cur(t)) = Line(t) /\ Working(t) /\ OnEntry(t)
  <1>1. /\ file[t] \in DOMAIN input /\ pos[t] \in Nat \ {0} /\ input \in Inputs
        /\ pos[t] <= Len(input[file[t]]) /\ input[file[t]][pos[t]].kind = "entry" /\ Working(t)
    BY DEF IdInv, Places, Shapes, AtLine, At, Line, Working
  <1>2. pos[t] \in DOMAIN input[file[t]]
    BY <1>1, LinesOfFile
  <1>3. \A l \in 1 .. pos[t] - 1 : input[file[t]][l].kind # "bad"
    BY <1>1 DEF Alone, Ahead
  <1>4. \A l \in 1 .. pos[t] : input[file[t]][l].kind # "bad"
    <2>1. \A l \in 1 .. pos[t] : l = pos[t] \/ l \in 1 .. pos[t] - 1
      BY <1>1
    <2> QED
      BY <1>1, <1>3, <2>1
  <1>5. Passes(input[file[t]][pos[t]])
    BY DEF Line
  <1>6. Cur(t) \in AllCandidates
    BY <1>1, <1>2, <1>4, <1>5, CandidateIf DEF Cur
  <1> QED
    BY <1>1, <1>2, <1>6 DEF EntryAt, Cur, Line, OnEntry

(* What is newly seen in a step is the entry on the thread's line. *)
LEMMA SeenStep ==
    ASSUME IdInv, Alone, NEW t \in Threads, Moves(t), NEW c \in AllCandidates
    PROVE  /\ Done(c, EntrySteps) => Done(c, EntrySteps)'
           /\ Done(c, EntrySteps)' /\ ~Done(c, EntrySteps) => pc[t] = "line" /\ c = Cur(t)
  <1>1. Done(c, EntrySteps)' <=> IF Working(t) /\ c = Cur(t)
                                   THEN pos'[t] # pos[t] \/ pc'[t] \in EntrySteps
                                   ELSE Done(c, EntrySteps)
    BY DoneStep
  <1>2. Working(t) /\ c = Cur(t) => (Done(c, EntrySteps) <=> pc[t] \in EntrySteps)
    BY DoneCur
  <1>3. pc[t] \in EntrySteps => GoesOn(t) \/ Within(t)
    BY DEF Moves, Starts, Leaves, EntrySteps, Asking, AfterQuestion
  <1>4. pos[t] \in Nat /\ pc[t] \in Steps
    BY DEF IdInv, Shapes
  <1>5. pc[t] \in EntrySteps => pos'[t] # pos[t] \/ pc'[t] \in EntrySteps
    BY <1>3, <1>4 DEF GoesOn, Within
  <1>6. Working(t) /\ pc[t] \notin EntrySteps => pc[t] = "line"
    BY <1>4 DEF Working, Steps, EntrySteps, Asking, AfterQuestion
  <1> QED
    BY <1>1, <1>2, <1>5, <1>6

(* A thread on a line that goes on leaves no candidate unmarked. *)
LEMMA LineSteps ==
    ASSUME IdInv, NEW t \in Threads, Step(t), pc[t] = "line"
    PROVE  \/ Comment(t) \/ Broken(t) \/ Filter(t) \/ Duplicate(t) \/ Accept(t) \/ Close(t)
  <1>1. ~Take(t)
    BY DEF Take, At
  <1>2. ~(BeginQuestion(t) \/ Lookup(t) \/ Allocate(t) \/ AddDoc(t) \/ StoreDocument(t))
    BY DEF BeginQuestion, Lookup, Allocate, AddDoc, StoreDocument, At
  <1>3. ASSUME NEW f \in Fields
        PROVE  ~(SkipField(t, f) \/ BeginField(t, f) \/ FieldId(t, f) \/ StoreField(t, f))
    BY DEF SkipField, BeginField, FieldId, StoreField, At, Fields, IdStep
  <1> QED
    BY <1>1, <1>2, <1>3 DEF Step

LEMMA MarksStep ==
    ASSUME IdInv, Alone, Marks, NEW t \in Threads, Step(t)
    PROVE  Marks'
  <1>1. Moves(t) /\ input' = input /\ input \in Inputs
    BY StepMoves DEF Moves, IdInv, Shapes
  <1>2. /\ AllCandidates' = AllCandidates
        /\ \A c : EntryAt(c)' = EntryAt(c)
        /\ \A k : WithKey(k)' = WithKey(k)
    BY <1>1, SameInput
  <1>3. \A c : Keyed(EntryAt(c))' <=> Keyed(EntryAt(c))
    BY <1>2 DEF Keyed
  <1>4. \A c, k : Marker(c, k)' <=> Marker(c, k)
    BY <1>2, <1>3 DEF Marker
  <1>5. \A c \in AllCandidates : Done(c, EntrySteps) => Done(c, EntrySteps)'
    BY <1>1, SeenStep
  <1>6. \A c \in AllCandidates :
           Done(c, EntrySteps)' /\ ~Done(c, EntrySteps) => pc[t] = "line" /\ c = Cur(t)
    BY <1>1, SeenStep
  <1>7. \A u \in Threads \ {t} : (InEntry(u)' <=> InEntry(u)) /\ Cur(u)' = Cur(u)
    BY <1>1 DEF Moves, InEntry, Cur
  <1>8. InEntry(t)' => Cur(t)' = Cur(t) /\ (InEntry(t) \/ Accept(t))
    <2>1. InEntry(t)' => Within(t)
      BY <1>1 DEF Moves, Starts, Leaves, GoesOn, InEntry
    <2>2. Within(t) => Cur(t)' = Cur(t)
      BY <1>1 DEF Moves, Within, Starts, Cur, EntrySteps, Asking, AfterQuestion
    <2>3. Within(t) => InEntry(t) \/ pc[t] = "line"
      BY DEF Within, InEntry, EntrySteps, Asking, AfterQuestion
    <2>4. pc[t] = "line" /\ Within(t) => Accept(t)
      <3>1. pc[t] = "line" /\ Within(t) =>
              ~(Comment(t) \/ Broken(t) \/ Filter(t) \/ Duplicate(t) \/ Close(t))
        <4>1. pc \in [Threads -> Steps]
          BY DEF IdInv, Shapes
        <4>2. Comment(t) \/ Filter(t) \/ Duplicate(t) => pc'[t] = "line"
          BY <4>1 DEF Comment, Filter, Duplicate, NextLine
        <4>3. Broken(t) \/ Close(t) => pc'[t] = "idle"
          BY <4>1 DEF Broken, Close
        <4> QED
          BY <4>2, <4>3 DEF Within, EntrySteps, Asking, AfterQuestion
      <3> QED
        BY <3>1, LineSteps
    <2> QED
      BY <2>1, <2>2, <2>3, <2>4
  <1>9. MarkedFirst /\ SeenMarked /\ CurrentOwns
    BY DEF Marks
  <1>10. CASE marked' = marked
    <2>1. MarkedFirst'
      BY <1>2, <1>4, <1>5, <1>9, <1>10 DEF MarkedFirst
    <2>2. SeenMarked'
      <3> SUFFICES ASSUME NEW c \in AllCandidates, Keyed(EntryAt(c)), Done(c, EntrySteps)'
                   PROVE  EntryAt(c).key \in DOMAIN marked
        BY <1>2, <1>3, <1>10 DEF SeenMarked
      <3>1. CASE Done(c, EntrySteps)
        BY <1>9, <3>1 DEF SeenMarked
      <3>2. CASE ~Done(c, EntrySteps)
        <4>1. pc[t] = "line" /\ c = Cur(t)
          BY <1>6, <3>2
        <4>2. EntryAt(c) = Line(t)
          BY <4>1 DEF EntryAt, Cur, Line
        <4>3. Line(t).kind = "entry" /\ Passes(Line(t)) /\ pos[t] <= Len(input[file[t]])
          <5>1. Line(t).kind = "entry" /\ Passes(Line(t)) /\ c[2] \in 1 .. Len(input[c[1]])
            BY <1>1, <4>2, CandidateFacts
          <5> QED
            BY <4>1, <5>1 DEF Cur
        <4>4. Duplicate(t) \/ Accept(t)
          <5>1. ~(Comment(t) \/ Broken(t) \/ Filter(t))
            BY <4>3 DEF Comment, Broken, Filter, AtLine, Passes
          <5>2. ~Close(t)
            <6>1. pos[t] \in Nat /\ Len(input[file[t]]) \in Nat
              BY <1>1, <4>1, LinesOfFile DEF IdInv, Shapes, Places
            <6> QED
              BY <4>3, <6>1 DEF Close
          <5> QED
            BY <4>1, <5>1, <5>2, LineSteps
        <4>5. CASE Duplicate(t)
          BY <4>2, <4>5 DEF Duplicate
        <4>6. CASE Accept(t)
          <5>1. marked' = Put(marked, Line(t).key, Line(t))
            BY <4>2, <4>6 DEF Accept
          <5>2. Line(t).key \in DOMAIN marked'
            BY <5>1 DEF Put
          <5> QED
            BY <1>10, <4>2, <5>2
        <4> QED
          BY <4>4, <4>5, <4>6
      <3> QED
        BY <3>1, <3>2
    <2>3. CurrentOwns'
      <3> SUFFICES ASSUME NEW u \in Threads, InEntry(u)'
                   PROVE  Owns(Cur(u))'
        BY DEF CurrentOwns
      <3>1. EntryAt(Cur(u))' = EntryAt(Cur(u))
        <4>1. Cur(u)' = Cur(u)
          BY <1>7, <1>8
        <4> QED
          BY <1>1, <4>1 DEF EntryAt, Cur
      <3>2. CASE InEntry(u)
        <4>1. Owns(Cur(u))
          BY <1>9, <3>2 DEF CurrentOwns
        <4> QED
          BY <1>10, <3>1, <4>1 DEF Owns, Keyed
      <3>3. CASE ~InEntry(u)
        <4>1. u = t /\ Accept(t)
          BY <1>7, <1>8, <3>3
        <4>2. EntryAt(Cur(t)) = Line(t)
          BY DEF EntryAt, Cur, Line
        <4>3. CASE ~Keyed(Line(t))
          BY <3>1, <4>1, <4>2, <4>3 DEF Owns, Keyed
        <4>4. CASE Keyed(Line(t))
          <5>1. marked' = Put(marked, Line(t).key, Line(t))
            BY <4>1, <4>4 DEF Accept
          <5>2. Line(t).key \in DOMAIN marked' /\ marked'[Line(t).key] = Line(t)
            BY <5>1 DEF Put
          <5> QED
            BY <3>1, <4>1, <4>2, <5>2 DEF Owns
        <4> QED
          BY <4>3, <4>4
      <3> QED
        BY <3>2, <3>3
    <2> QED
      BY <2>1, <2>2, <2>3 DEF Marks
  <1>11. CASE /\ Accept(t) /\ Keyed(Line(t)) /\ Line(t).key \notin DOMAIN marked
              /\ marked' = Put(marked, Line(t).key, Line(t))
    <2>0. Cur(t) \in AllCandidates /\ EntryAt(Cur(t)) = Line(t) /\ Working(t)
      BY <1>11, LineFacts DEF Accept
    <2>  PICK c0 \in AllCandidates : c0 = Cur(t)
      BY <2>0
    <2>  PICK k0 : k0 = Line(t).key
      OBVIOUS
    <2>1. c0 \in AllCandidates /\ EntryAt(c0) = Line(t) /\ Working(t)
      BY <2>0
    <2>2. DOMAIN marked' = DOMAIN marked \cup {k0} /\ marked'[k0] = Line(t)
          /\ \A k \in DOMAIN marked : marked'[k] = marked[k]
      BY <1>11 DEF Put
    <2>3. Done(c0, EntrySteps)'
      <3>1. pos'[t] # pos[t] \/ pc'[t] \in EntrySteps
        <4>1. pc \in [Threads -> Steps] /\ pos \in [Threads -> Nat]
          BY DEF IdInv, Shapes
        <4> QED
          BY <1>11, <4>1 DEF Accept, NextLine, EntrySteps
      <3> QED
        BY <1>1, <2>1, <3>1, DoneStep
    <2>4. Marker(c0, k0)
      <3> SUFFICES ASSUME NEW a \in WithKey(k0), a[1] = c0[1] PROVE c0[2] <= a[2]
        BY <1>11, <2>1 DEF Marker
      <3>1. a \in AllCandidates /\ Keyed(EntryAt(a)) /\ EntryAt(a).key = k0
        BY DEF WithKey
      <3>2. ~Done(a, EntrySteps)
        BY <1>9, <1>11, <3>1 DEF SeenMarked
      <3>3. a[2] \in Nat /\ pos[t] \in Nat /\ c0[1] = file[t] /\ c0[2] = pos[t]
        BY <1>1, <3>1, CandidateFacts DEF IdInv, Shapes, Cur
      <3>4. ASSUME a[2] < pos[t] PROVE FALSE
        <4>1. \A u \in Threads : Working(u) /\ file[u] = file[t] => u = t
          BY <2>1 DEF Alone, OneThread
        <4>2. phase # "list" /\ file[t] \notin todo
          BY <2>1 DEF Alone, Ahead
        <4>3. Behind(a)
          BY <3>3, <3>4, <4>1, <4>2 DEF Behind
        <4> QED
          BY <3>2, <4>3 DEF Done
      <3> QED
        BY <3>3, <3>4
    <2>5. MarkedFirst'
      <3> SUFFICES ASSUME NEW k \in DOMAIN marked'
                   PROVE  \E c \in AllCandidates :
                             Marker(c, k)' /\ marked'[k] = EntryAt(c) /\ Done(c, EntrySteps)'
        BY <1>2 DEF MarkedFirst
      <3>1. CASE k = k0
        BY <1>4, <2>1, <2>2, <2>3, <2>4, <3>1
      <3>2. CASE k # k0
        <4>1. k \in DOMAIN marked
          BY <2>2, <3>2
        <4>2. PICK c \in AllCandidates : Marker(c, k) /\ marked[k] = EntryAt(c)
                                         /\ Done(c, EntrySteps)
          BY <1>9, <4>1 DEF MarkedFirst
        <4> QED
          BY <1>4, <1>5, <2>2, <4>1, <4>2
      <3> QED
        BY <3>1, <3>2
    <2>6. SeenMarked'
      <3> SUFFICES ASSUME NEW c \in AllCandidates, Keyed(EntryAt(c)), Done(c, EntrySteps)'
                   PROVE  EntryAt(c).key \in DOMAIN marked'
        BY <1>2, <1>3 DEF SeenMarked
      <3>1. CASE Done(c, EntrySteps)
        BY <1>9, <2>2, <3>1 DEF SeenMarked
      <3>2. CASE ~Done(c, EntrySteps)
        <4>1. c = c0
          BY <1>6, <3>2
        <4> QED
          BY <2>1, <2>2, <4>1
      <3> QED
        BY <3>1, <3>2
    <2>7. CurrentOwns'
      <3> SUFFICES ASSUME NEW u \in Threads, InEntry(u)'
                   PROVE  Owns(Cur(u))'
        BY DEF CurrentOwns
      <3>1. EntryAt(Cur(u))' = EntryAt(Cur(u))
        <4>1. Cur(u)' = Cur(u)
          BY <1>7, <1>8
        <4> QED
          BY <1>1, <4>1 DEF EntryAt, Cur
      <3>2. CASE u # t
        <4>1. Owns(Cur(u))
          BY <1>7, <1>9, <3>2 DEF CurrentOwns
        <4> QED
          BY <2>2, <3>1, <4>1 DEF Owns, Keyed
      <3>3. CASE u = t
        BY <2>1, <2>2, <3>1, <3>3 DEF Owns
      <3> QED
        BY <3>2, <3>3
    <2> QED
      BY <2>5, <2>6, <2>7 DEF Marks
  <1> QED
    BY <1>10, <1>11, MarkedStep

LEMMA MarksRest ==
    ASSUME IdInv, Alone, Marks, List \/ Assemble \/ UNCHANGED vars
    PROVE  Marks'
  <1>1. UNCHANGED <<input, pc, file, pos, marked>>
    BY DEF List, Assemble, vars, local
  <1>2. /\ AllCandidates' = AllCandidates
        /\ \A c : EntryAt(c)' = EntryAt(c)
        /\ \A k : WithKey(k)' = WithKey(k)
    BY <1>1, SameInput
  <1>3. \A c, k : Marker(c, k)' <=> Marker(c, k)
    BY <1>2 DEF Marker, Keyed
  <1>4. CurrentOwns'
    BY <1>1, <1>2 DEF Marks, CurrentOwns, InEntry, Owns, Keyed, Cur, EntryAt
  <1>5. CASE List
    <2>1. \A t \in Threads : pc[t] = "idle"
      BY <1>5 DEF List, Alone, Ahead, Working
    <2>2. \A c \in AllCandidates : ~Done(c, EntrySteps) /\ ~Done(c, EntrySteps)'
      <3> SUFFICES ASSUME NEW c \in AllCandidates
                   PROVE  ~Done(c, EntrySteps) /\ ~Done(c, EntrySteps)'
        OBVIOUS
      <3>1. c[1] \in DOMAIN input
        BY CandidateFacts DEF IdInv, Shapes
      <3>2. ~Behind(c) /\ ~Behind(c)'
        BY <1>5, <3>1 DEF List, Behind
      <3> QED
        BY <1>1, <2>1, <3>2 DEF Done, EntrySteps, Asking, AfterQuestion
    <2>3. DOMAIN marked = {}
      BY <2>2 DEF Marks, MarkedFirst
    <2>4. MarkedFirst' /\ SeenMarked'
      BY <1>1, <1>2, <2>2, <2>3 DEF MarkedFirst, SeenMarked
    <2> QED
      BY <1>4, <2>4 DEF Marks
  <1>6. CASE Assemble \/ UNCHANGED vars
    <2>1. todo' = todo /\ (phase = "list" <=> phase' = "list")
      BY <1>6 DEF Assemble, vars
    <2>2. \A c : Done(c, EntrySteps)' <=> Done(c, EntrySteps)
      BY <1>1, <2>1 DEF Done, Behind, Working, Cur
    <2>3. MarkedFirst' /\ SeenMarked'
      BY <1>1, <1>2, <1>3, <2>2 DEF MarkedFirst, SeenMarked, Marks, Keyed
    <2> QED
      BY <1>4, <2>3 DEF Marks
  <1> QED
    BY <1>5, <1>6

-----------------------------------------------------------------------------
(* The steps of an entry, and where they lead. *)

LEMMA StageStep ==
    ASSUME IdInv, NEW t \in Threads, Step(t), InEntry(t)
    PROVE  \/ /\ BeginQuestion(t) /\ pc[t] = "question" /\ pos'[t] = pos[t]
              /\ pc'[t] = IF Line(t).question = <<>> THEN "answer" ELSE "lookup"
           \/ /\ Lookup(t) \/ Allocate(t) \/ AddDoc(t)
              /\ pc[t] \in Asking /\ pos'[t] = pos[t] /\ pc'[t] \in Asking
           \/ /\ StoreDocument(t) /\ pc[t] = "lookup" /\ pos'[t] = pos[t] /\ pc'[t] = "answer"
           \/ \E f \in Fields :
                 \/ /\ BeginField(t, f) \/ FieldId(t, f)
                    /\ pc[t] \in {f, IdStep(f)} /\ pos'[t] = pos[t] /\ pc'[t] = IdStep(f)
                 \/ /\ SkipField(t, f) \/ StoreField(t, f)
                    /\ pc[t] \in {f, IdStep(f)}
                    /\ IF f = "answer" THEN pos'[t] = pos[t] /\ pc'[t] = "passage"
                                       ELSE pos'[t] = pos[t] + 1 /\ pc'[t] = "line"
  <1>0. pc \in [Threads -> Steps] /\ pos \in [Threads -> Nat]
    BY DEF IdInv, Shapes
  <1>1. ~(Take(t) \/ Comment(t) \/ Broken(t) \/ Filter(t) \/ Duplicate(t) \/ Accept(t) \/ Close(t))
    BY DEF Take, Comment, Broken, Filter, Duplicate, Accept, Close, AtLine, At, InEntry
  <1>2. CASE BeginQuestion(t)
    BY <1>0, <1>2 DEF BeginQuestion, At
  <1>3. CASE Lookup(t)
    BY <1>0, <1>3 DEF Lookup, At, Asking
  <1>4. CASE Allocate(t)
    BY <1>0, <1>4 DEF Allocate, At, Asking
  <1>5. CASE AddDoc(t)
    BY <1>0, <1>5 DEF AddDoc, At, Asking
  <1>6. CASE StoreDocument(t)
    BY <1>0, <1>6 DEF StoreDocument, At
  <1>7. ASSUME NEW f \in Fields, BeginField(t, f) \/ FieldId(t, f)
        PROVE  pc[t] \in {f, IdStep(f)} /\ pos'[t] = pos[t] /\ pc'[t] = IdStep(f)
    BY <1>0, <1>7 DEF BeginField, FieldId, At
  <1>8. ASSUME NEW f \in Fields, SkipField(t, f) \/ StoreField(t, f)
        PROVE  /\ pc[t] \in {f, IdStep(f)}
               /\ IF f = "answer" THEN pos'[t] = pos[t] /\ pc'[t] = "passage"
                                  ELSE pos'[t] = pos[t] + 1 /\ pc'[t] = "line"
    <2>1. pc[t] \in {f, IdStep(f)} /\ After(t, f)
      BY <1>8 DEF SkipField, StoreField, At
    <2> QED
      BY <1>0, <2>1 DEF After, NextLine
  <1> QED
    BY <1>1, <1>2, <1>3, <1>4, <1>5, <1>6, <1>7, <1>8 DEF Step

(* A candidate on the line of a thread is a duplicate or accepted. *)
LEMMA OnLine ==
    ASSUME IdInv, NEW t \in Threads, Step(t), pc[t] = "line", Cur(t) \in AllCandidates
    PROVE  Duplicate(t) \/ Accept(t)
  <1>1. input \in Inputs /\ file[t] \in DOMAIN input /\ pos[t] \in Nat
    BY DEF IdInv, Shapes, Places
  <1>2. EntryAt(Cur(t)) = Line(t) /\ Cur(t)[1] = file[t] /\ Cur(t)[2] = pos[t]
    BY DEF EntryAt, Cur, Line
  <1>3. Line(t).kind = "entry" /\ Passes(Line(t)) /\ pos[t] \in 1 .. Len(input[file[t]])
    BY <1>1, <1>2, CandidateFacts
  <1>4. ~(Comment(t) \/ Broken(t) \/ Filter(t))
    BY <1>3 DEF Comment, Broken, Filter, AtLine, Passes
  <1>5. ~Close(t)
    <2>1. Len(input[file[t]]) \in Nat
      BY <1>1, LinesOfFile
    <2> QED
      BY <1>1, <1>3, <2>1 DEF Close
  <1> QED
    BY <1>4, <1>5, LineSteps

(* Of the candidates that are kept a step changes only that on which the   *)
(* thread stands.                                                          *)
LEMMA KeptStep ==
    ASSUME IdInv, Alone, Marks, DistinctDocs, NEW t \in Threads, Step(t),
           NEW c \in AllCandidates, NEW S \in SUBSET (Asking \cup AfterQuestion)
    PROVE  Kept(c, S)' <=> IF InEntry(t) /\ c = Cur(t)
                             THEN Usable(Line(t)) /\ (pos'[t] # pos[t] \/ pc'[t] \in S)
                             ELSE Kept(c, S)
  <1>1. Moves(t) /\ input' = input /\ input \in Inputs
    BY StepMoves DEF Moves, IdInv, Shapes
  <1>2. EntryAt(c)' = EntryAt(c)
    BY <1>1, SameInput
  <1>3. S \in SUBSET EntrySteps /\ "question" \notin S /\ "line" \notin S
    BY DEF EntrySteps, Asking, AfterQuestion
  <1>4. Done(c, S)' <=> IF Working(t) /\ c = Cur(t)
                          THEN pos'[t] # pos[t] \/ pc'[t] \in S ELSE Done(c, S)
    BY <1>1, <1>3, DoneStep
  <1>5. Done(c, S) => Done(c, EntrySteps)
    BY <1>3 DEF Done
  <1>6. ASSUME Done(c, EntrySteps) PROVE Owns(c)' <=> Owns(c)
    <2>1. Keyed(EntryAt(c)) => EntryAt(c).key \in DOMAIN marked
      BY <1>6 DEF Marks, SeenMarked
    <2>2. CASE marked' = marked
      BY <1>2, <2>2 DEF Owns, Keyed
    <2>3. CASE /\ Line(t).key \notin DOMAIN marked
               /\ marked' = Put(marked, Line(t).key, Line(t))
      <3>1. \A k \in DOMAIN marked : k \in DOMAIN marked' /\ marked'[k] = marked[k]
        BY <2>3 DEF Put
      <3> QED
        BY <1>2, <2>1, <3>1 DEF Owns, Keyed
    <2> QED
      BY <2>2, <2>3, MarkedStep
  <1>7. Usable(EntryAt(c))' <=> Usable(EntryAt(c))
    BY <1>2 DEF Usable
  <1>8. c = Cur(t) => EntryAt(c) = Line(t)
    BY DEF EntryAt, Cur, Line
  <1>9. CASE InEntry(t) /\ c = Cur(t)
    <2>1. Working(t) /\ pc[t] \in EntrySteps
      <3>1. pc[t] \in Steps
        BY DEF IdInv, Shapes
      <3> QED
        BY <1>9, <3>1 DEF Working, InEntry, Steps, EntrySteps, Asking, AfterQuestion
    <2>2. Done(c, EntrySteps)
      BY <1>9, <2>1 DEF Done
    <2>3. Owns(c)
      BY <1>9 DEF Marks, CurrentOwns
    <2> QED
      BY <1>4, <1>6, <1>7, <1>8, <1>9, <2>1, <2>2, <2>3 DEF Kept
  <1>10. CASE ~(Working(t) /\ c = Cur(t))
    <2>1. ~(InEntry(t) /\ c = Cur(t))
      BY <1>10 DEF InEntry, Working
    <2> QED
      BY <1>4, <1>5, <1>6, <1>7, <1>10, <2>1 DEF Kept
  <1>11. CASE pc[t] = "line" /\ c = Cur(t)
    <2>1. Working(t) /\ ~InEntry(t)
      BY <1>11 DEF Working, InEntry
    <2>2. ~Done(c, S) /\ ~Done(c, EntrySteps)
      <3>1. EntrySteps \in SUBSET EntrySteps /\ "line" \notin EntrySteps
        BY DEF EntrySteps, Asking, AfterQuestion
      <3> QED
        BY <1>3, <1>11, <2>1, <3>1, DoneCur
    <2>3. ~Kept(c, S)'
      <3>1. CASE Duplicate(t)
        <4>1. Keyed(EntryAt(c)) /\ EntryAt(c).key \in DOMAIN marked /\ marked' = marked
          BY <1>8, <1>11, <3>1 DEF Duplicate
        <4>2. PICK e \in AllCandidates :
                 marked[EntryAt(c).key] = EntryAt(e) /\ Done(e, EntrySteps)
          BY <4>1 DEF Marks, MarkedFirst
        <4>3. EntryAt(e) # EntryAt(c)
          BY <2>2, <4>2 DEF DistinctDocs
        <4>4. ~Owns(c)'
          BY <1>2, <4>1, <4>2, <4>3 DEF Owns, Keyed
        <4> QED
          BY <4>4 DEF Kept
      <3>2. CASE Accept(t) /\ Line(t).asked
        <4>1. pc'[t] = "question" /\ pos'[t] = pos[t]
          BY <3>2 DEF Accept, IdInv, Shapes
        <4> QED
          BY <1>3, <1>4, <1>11, <2>1, <4>1 DEF Kept
      <3>3. CASE ~Line(t).asked
        BY <1>7, <1>8, <1>11, <3>3 DEF Kept, Usable
      <3> QED
        BY <1>11, <3>1, <3>2, <3>3, OnLine
    <2> QED
      BY <1>11, <2>1, <2>2, <2>3 DEF Kept
  <1>12. pc[t] \in Steps
    BY DEF IdInv, Shapes
  <1>13. Working(t) => pc[t] = "line" \/ InEntry(t)
    BY DEF Working, InEntry
  <1> QED
    BY <1>9, <1>10, <1>11, <1>13

(* Where a thread stands, its candidate is kept if it is usable.           *)
LEMMA KeptCur ==
    ASSUME IdInv, Alone, Marks, NEW t \in Threads, InEntry(t),
           NEW S \in SUBSET EntrySteps
    PROVE  Kept(Cur(t), S) <=> pc[t] \in S /\ Usable(Line(t))
  <1>1. Working(t) /\ Owns(Cur(t)) /\ EntryAt(Cur(t)) = Line(t)
    BY DEF Working, InEntry, Marks, CurrentOwns, EntryAt, Cur, Line
  <1>2. Done(Cur(t), S) <=> pc[t] \in S
    BY <1>1, DoneCur
  <1> QED
    BY <1>1, <1>2 DEF Kept

(* Outside of the threads' steps nothing is kept or lost.                  *)
LEMMA KeptRest ==
    ASSUME IdInv, Alone, List \/ Assemble \/ UNCHANGED vars,
           NEW c \in AllCandidates, NEW S \in SUBSET EntrySteps
    PROVE  /\ Kept(c, S)' <=> Kept(c, S)
           /\ Done(c, S)' <=> Done(c, S)
           /\ phase' = "list" \/ List => ~Done(c, S)
  <1>1. UNCHANGED <<input, pc, file, pos, marked>>
    BY DEF List, Assemble, vars, local
  <1>2. EntryAt(c)' = EntryAt(c)
    BY <1>1, SameInput
  <1>3. (Done(c, S)' <=> Done(c, S)) /\ (phase' = "list" \/ List => ~Done(c, S))
    <2>1. ASSUME phase = "list" PROVE ~Done(c, S)
      <3>1. \A t \in Threads : pc[t] = "idle"
        BY <2>1 DEF Alone, Ahead, Working
      <3> QED
        BY <2>1, <3>1 DEF Done, Behind, EntrySteps, Asking, AfterQuestion
    <2>2. CASE List
      <3>1. c[1] \in DOMAIN input
        BY CandidateFacts DEF IdInv, Shapes
      <3>2. ~Behind(c)' /\ phase = "list"
        BY <2>2, <3>1 DEF List, Behind
      <3>3. ~\E t \in Threads : pc'[t] \in S /\ c = Cur(t)'
        <4>1. \A t \in Threads : pc'[t] = "idle"
          BY <1>1, <3>2 DEF Alone, Ahead, Working
        <4> QED
          BY <4>1 DEF EntrySteps, Asking, AfterQuestion
      <3> QED
        BY <2>1, <3>2, <3>3 DEF Done
    <2>3. CASE Assemble \/ UNCHANGED vars
      <3>1. todo' = todo /\ (phase = "list" <=> phase' = "list")
        BY <2>3 DEF Assemble, vars
      <3>2. Done(c, S)' <=> Done(c, S)
        BY <1>1, <3>1 DEF Done, Behind, Working, Cur
      <3>3. ~List \/ phase = "list"
        BY DEF List
      <3> QED
        BY <2>1, <3>1, <3>2, <3>3
    <2> QED
      BY <2>2, <2>3
  <1> QED
    BY <1>1, <1>2, <1>3 DEF Kept, Usable, Owns, Keyed

-----------------------------------------------------------------------------
(* The documents are those of the candidates that are kept and past their  *)
(* question, and the counts of lines are the numbers of those that have    *)
(* begun it.                                                               *)
Counting == Asking \cup AfterQuestion
Filled == \A t \in Threads : pc[t] \in Asking => Line(t).question # <<>>
Docs ==
    /\ IsFiniteSet(DOMAIN documents)
    /\ \A d \in DOMAIN documents :
          /\ DOMAIN documents[d] = {"unique", "entry", "answer", "passage"}
          /\ \E c \in AllCandidates :
                Kept(c, AfterQuestion) /\ d = DocAt(c) /\ documents[d].entry = EntryAt(c)
    /\ \A c \in AllCandidates : Kept(c, AfterQuestion) => DocAt(c) \in DOMAIN documents

CountedOf(f) == {c \in AllCandidates : c[1] = f /\ Kept(c, Counting)}
Closed(f) ==
    /\ f \notin todo /\ \A t \in Threads : Working(t) => file[t] # f
    /\ Reached(f) = DOMAIN input[f]
CountedClosed == {c \in AllCandidates : Closed(c[1]) /\ Kept(c, Counting)}
Lines ==
    /\ count \in [Threads -> Nat]
    /\ \A t \in Threads : Working(t) =>
          IsFiniteSet(CountedOf(file[t])) /\ count[t] = Cardinality(CountedOf(file[t]))
    /\ stats \in [lines : Nat, dups : Nat, short : Nat, few : Nat]
    /\ IsFiniteSet(CountedClosed) /\ stats.lines = Cardinality(CountedClosed)

LEMMA FilledStep ==
    ASSUME IdInv, Filled, NEW t \in Threads, Step(t)
    PROVE  Filled'
  <1>1. Moves(t) /\ input' = input
    BY StepMoves DEF Moves
  <1> SUFFICES ASSUME NEW u \in Threads, pc'[u] \in Asking
               PROVE  Line(u)'.question # <<>>
    BY DEF Filled
  <1>2. CASE u # t
    BY <1>1, <1>2 DEF Moves, Filled, Line
  <1>3. CASE u = t
    <2>1. Within(t) /\ file'[t] = file[t] /\ pos'[t] = pos[t]
      BY <1>1, <1>3 DEF Moves, Starts, Leaves, GoesOn, Within, Asking, AfterQuestion, EntrySteps
    <2>2. Line(t)' = Line(t)
      BY <1>1, <2>1 DEF Line
    <2>3. InEntry(t)
      <3>1. pc[t] = "line" => pc'[t] # "lookup" /\ pc'[t] # "allocate" /\ pc'[t] # "add"
        <4>1. pc \in [Threads -> Steps]
          BY DEF IdInv, Shapes
        <4>2. Comment(t) \/ Filter(t) \/ Duplicate(t) => pc'[t] = "line"
          BY <4>1 DEF Comment, Filter, Duplicate, NextLine
        <4>3. Broken(t) \/ Close(t) => pc'[t] = "idle"
          BY <4>1 DEF Broken, Close
        <4>4. Accept(t) => pc'[t] \in {"line", "question"}
          BY <4>1 DEF Accept, NextLine
        <4> QED
          BY <4>2, <4>3, <4>4, LineSteps
      <3> QED
        BY <1>3, <2>1, <3>1 DEF Within, InEntry, EntrySteps, Asking, AfterQuestion
    <2>4. pc[t] \in Asking \/ (pc[t] = "question" /\ Line(t).question # <<>>)
      BY <1>3, <2>3, StageStep DEF Asking, Fields, IdStep
    <2> QED
      BY <1>3, <2>2, <2>4 DEF Filled
  <1> QED
    BY <1>2, <1>3

(* Which actions write the documents, the lines counted and the totals.    *)
LEMMA DocumentsStep ==
    ASSUME NEW t \in Threads, Step(t)
    PROVE  documents' = documents \/ StoreDocument(t) \/ \E f \in Fields : BeginField(t, f)
  <1>1. Take(t) \/ Comment(t) \/ Broken(t) \/ Filter(t) \/ Duplicate(t) \/ Close(t) \/ Accept(t)
           => documents' = documents
    BY DEF Take, Comment, Broken, Filter, Duplicate, Close, Accept, builder, question
  <1>2. BeginQuestion(t) \/ Lookup(t) \/ Allocate(t) \/ AddDoc(t) => documents' = documents
    BY DEF BeginQuestion, Lookup, Allocate, AddDoc, builder, question
  <1>3. ASSUME NEW f \in Fields, SkipField(t, f) \/ FieldId(t, f) \/ StoreField(t, f)
        PROVE  documents' = documents
    BY <1>3 DEF SkipField, FieldId, StoreField, builder, question
  <1> QED
    BY <1>1, <1>2, <1>3 DEF Step

LEMMA CountStep ==
    ASSUME NEW t \in Threads, Step(t)
    PROVE  /\ \/ count' = count
              \/ Take(t)
              \/ BeginQuestion(t) /\ Line(t).question # <<>>
           /\ stats' = stats \/ Filter(t) \/ Duplicate(t) \/ Close(t)
  <1>1. Comment(t) \/ Broken(t) \/ Accept(t) => count' = count /\ stats' = stats
    BY DEF Comment, Broken, Accept
  <1>2. Filter(t) \/ Duplicate(t) \/ Close(t) => count' = count
    BY DEF Filter, Duplicate, Close
  <1>3. Take(t) => stats' = stats
    BY DEF Take
  <1>4. Lookup(t) \/ Allocate(t) \/ AddDoc(t) \/ StoreDocument(t)
          => count' = count /\ stats' = stats
    BY DEF Lookup, Allocate, AddDoc, StoreDocument
  <1>5. BeginQuestion(t) => stats' = stats /\ (Line(t).question = <<>> => count' = count)
    BY DEF BeginQuestion
  <1>6. ASSUME NEW f \in Fields,
               SkipField(t, f) \/ BeginField(t, f) \/ FieldId(t, f) \/ StoreField(t, f)
        PROVE  count' = count /\ stats' = stats
    BY <1>6 DEF SkipField, BeginField, FieldId, StoreField
  <1> QED
    BY <1>1, <1>2, <1>3, <1>4, <1>5, <1>6 DEF Step

(* The candidates past their question change with StoreDocument only.      *)
LEMMA PastQuestionStep ==
    ASSUME IdInv, Alone, Marks, Filled, DistinctDocs, NEW t \in Threads, Step(t),
           ~StoreDocument(t), NEW c \in AllCandidates
    PROVE  Kept(c, AfterQuestion)' <=> Kept(c, AfterQuestion)
  <1>0. AfterQuestion \in SUBSET (Asking \cup AfterQuestion)
        /\ AfterQuestion \in SUBSET EntrySteps
    BY DEF EntrySteps
  <1>1. CASE ~(InEntry(t) /\ c = Cur(t))
    BY <1>0, <1>1, KeptStep
  <1>2. CASE InEntry(t) /\ c = Cur(t)
    <2>1. Kept(c, AfterQuestion) <=> pc[t] \in AfterQuestion /\ Usable(Line(t))
      BY <1>0, <1>2, KeptCur
    <2>2. Kept(c, AfterQuestion)'
             <=> Usable(Line(t)) /\ (pos'[t] # pos[t] \/ pc'[t] \in AfterQuestion)
      BY <1>0, <1>2, KeptStep
    <2>3. pos[t] \in Nat
      BY DEF IdInv, Shapes
    <2>4. Usable(Line(t)) =>
             (pos'[t] # pos[t] \/ pc'[t] \in AfterQuestion <=> pc[t] \in AfterQuestion)
      BY <1>2, <2>3, StageStep DEF Usable, Asking, AfterQuestion, Fields, IdStep
    <2> QED
      BY <2>1, <2>2, <2>4
  <1> QED
    BY <1>1, <1>2

(* The candidates counted change when a question that is not empty begins. *)
LEMMA CountedStep ==
    ASSUME IdInv, Alone, Marks, DistinctDocs, NEW t \in Threads, Step(t),
           NEW c \in AllCandidates
    PROVE  Kept(c, Counting)' <=>
              Kept(c, Counting)
                \/ (BeginQuestion(t) /\ Line(t).question # <<>> /\ c = Cur(t))
  <1>0. Counting \in SUBSET (Asking \cup AfterQuestion) /\ Counting \in SUBSET EntrySteps
    BY DEF EntrySteps, Counting
  <1>1. CASE ~(InEntry(t) /\ c = Cur(t))
    <2>1. BeginQuestion(t) => InEntry(t)
      BY DEF BeginQuestion, At, InEntry
    <2> QED
      BY <1>0, <1>1, <2>1, KeptStep
  <1>2. CASE InEntry(t) /\ c = Cur(t)
    <2>1. Kept(c, Counting) <=> pc[t] \in Counting /\ Usable(Line(t))
      BY <1>0, <1>2, KeptCur
    <2>2. Kept(c, Counting)' <=> Usable(Line(t)) /\ (pos'[t] # pos[t] \/ pc'[t] \in Counting)
      BY <1>0, <1>2, KeptStep
    <2>3. pos[t] \in Nat /\ Line(t).asked
      BY <1>2 DEF IdInv, Shapes, Alone, Accepted
    <2>4. CASE BeginQuestion(t)
      <3>1. pc[t] = "question" /\ pc[t] \notin Counting
        BY <2>4 DEF BeginQuestion, At, Counting, Asking, AfterQuestion
      <3>2. pc'[t] = IF Line(t).question = <<>> THEN "answer" ELSE "lookup"
        BY <2>4 DEF BeginQuestion, IdInv, Shapes
      <3>3. pc'[t] \in Counting
        BY <3>2 DEF Counting, Asking, AfterQuestion
      <3> QED
        BY <1>2, <2>1, <2>2, <2>3, <2>4, <3>1, <3>3 DEF Usable
    <2>5. CASE ~BeginQuestion(t)
      <3>1. pc[t] \in Counting /\ (pos'[t] # pos[t] \/ pc'[t] \in Counting)
        BY <1>2, <2>3, <2>5, StageStep DEF Counting, Asking, AfterQuestion, Fields, IdStep
      <3> QED
        BY <2>1, <2>2, <2>5, <3>1
    <2> QED
      BY <2>4, <2>5
  <1> QED
    BY <1>1, <1>2

(* No action but StoreDocument gives a document or another entry to one.   *)
LEMMA EntriesOfDocuments ==
    ASSUME Docs, NEW t \in Threads, Step(t), ~StoreDocument(t)
    PROVE  /\ DOMAIN documents' = DOMAIN documents
           /\ \A d \in DOMAIN documents :
                 DOMAIN documents'[d] = DOMAIN documents[d]
                 /\ documents'[d].entry = documents[d].entry
  <1>1. CASE documents' = documents
    BY <1>1
  <1>2. ASSUME NEW f \in Fields, BeginField(t, f)
        PROVE  /\ DOMAIN documents' = DOMAIN documents
               /\ \A d \in DOMAIN documents :
                     DOMAIN documents'[d] = DOMAIN documents[d]
                     /\ documents'[d].entry = documents[d].entry
    <2>1. f # "entry"
      BY DEF Fields
    <2>2. \A d \in DOMAIN documents : "entry" \in DOMAIN documents[d]
      BY DEF Docs
    <2>3. CASE Doc(t) \notin DOMAIN documents
      BY <1>2, <2>3 DEF BeginField
    <2>4. CASE Doc(t) \in DOMAIN documents
      <3>1. documents' = [documents EXCEPT ![Doc(t)][f] = Len(Line(t)[f])]
        BY <1>2, <2>4 DEF BeginField
      <3> QED
        BY <2>1, <2>2, <3>1
    <2> QED
      BY <2>3, <2>4
  <1> QED
    BY <1>1, <1>2, DocumentsStep

LEMMA DocsStep ==
    ASSUME IdInv, Alone, Marks, Filled, DistinctDocs, Docs, NEW t \in Threads, Step(t)
    PROVE  Docs'
  <1>1. input' = input /\ input \in Inputs
    BY StepMoves DEF Moves, IdInv, Shapes
  <1>2. /\ AllCandidates' = AllCandidates
        /\ \A c : EntryAt(c)' = EntryAt(c) /\ DocAt(c)' = DocAt(c)
    BY <1>1, SameInput
  <1> DEFINE K(c) == Kept(c, AfterQuestion)
  <1>3. CASE StoreDocument(t)
    <2>1. pc[t] = "lookup" /\ InEntry(t)
      BY <1>3 DEF StoreDocument, At, InEntry
    <2>2. PICK c0 \in AllCandidates :
             c0 = Cur(t) /\ EntryAt(c0) = Line(t) /\ DocAt(c0) = Doc(t)
      BY <2>1, CurFacts
    <2>3. Usable(Line(t))
      BY <2>1 DEF Filled, Asking, Usable, Alone, Accepted
    <2>4. K(c0)' /\ \A c \in AllCandidates : c # c0 => (K(c)' <=> K(c))
      <3>1. AfterQuestion \in SUBSET (Asking \cup AfterQuestion)
        OBVIOUS
      <3>2. pc'[t] \in AfterQuestion
        BY <1>3 DEF StoreDocument, IdInv, Shapes, AfterQuestion
      <3> QED
        BY <2>1, <2>2, <2>3, <3>1, <3>2, KeptStep
    <2>5. documents' = Put(documents, Doc(t),
                           [unique |-> Cardinality(found[t]), entry |-> Line(t),
                            answer |-> 0, passage |-> 0])
      BY <1>3 DEF StoreDocument
    <2>6. /\ DOMAIN documents' = DOMAIN documents \cup {Doc(t)}
          /\ DOMAIN documents'[Doc(t)] = {"unique", "entry", "answer", "passage"}
          /\ documents'[Doc(t)].entry = Line(t)
          /\ \A d \in DOMAIN documents \ {Doc(t)} : documents'[d] = documents[d]
      BY <2>5 DEF Put
    <2>7. IsFiniteSet(DOMAIN documents')
      BY <2>6, FS_AddElement DEF Docs
    <2>8. ASSUME NEW d \in DOMAIN documents'
          PROVE  /\ DOMAIN documents'[d] = {"unique", "entry", "answer", "passage"}
                 /\ \E c \in AllCandidates :
                       K(c)' /\ d = DocAt(c) /\ documents'[d].entry = EntryAt(c)
      <3>1. CASE d = Doc(t)
        BY <2>2, <2>4, <2>6, <3>1
      <3>2. CASE d # Doc(t)
        <4>1. d \in DOMAIN documents /\ documents'[d] = documents[d]
          BY <2>6, <3>2
        <4>2. PICK c \in AllCandidates :
                 K(c) /\ d = DocAt(c) /\ documents[d].entry = EntryAt(c)
          BY <4>1 DEF Docs
        <4>3. c # c0
          BY <2>2, <3>2, <4>2
        <4>4. DOMAIN documents[d] = {"unique", "entry", "answer", "passage"}
          BY <4>1 DEF Docs
        <4> QED
          BY <2>4, <4>1, <4>2, <4>3, <4>4
      <3> QED
        BY <3>1, <3>2
    <2>9. ASSUME NEW c \in AllCandidates, K(c)' PROVE DocAt(c) \in DOMAIN documents'
      BY <2>2, <2>4, <2>6, <2>9 DEF Docs
    <2> HIDE DEF K
    <2> QED
      BY <1>2, <2>7, <2>8, <2>9 DEF Docs, K
  <1>4. CASE ~StoreDocument(t)
    <2>1. \A c \in AllCandidates : K(c)' <=> K(c)
      BY <1>4, PastQuestionStep
    <2>2. /\ DOMAIN documents' = DOMAIN documents
          /\ \A d \in DOMAIN documents :
                DOMAIN documents'[d] = DOMAIN documents[d]
                /\ documents'[d].entry = documents[d].entry
      BY <1>4, EntriesOfDocuments
    <2> HIDE DEF K
    <2> QED
      BY <1>2, <2>1, <2>2 DEF Docs, K
  <1> QED
    BY <1>3, <1>4

(* The files that are read to their end: a step adds the one that its      *)
(* thread closes.                                                          *)
LEMMA ClosedStep ==
    ASSUME IdInv, Alone, NEW t \in Threads, Step(t), NEW f \in DOMAIN input
    PROVE  /\ Closed(f)' <=> Closed(f) \/ (Close(t) /\ f = file[t])
           /\ Working(t) => ~Closed(file[t])
  <1>1. Moves(t) /\ input' = input /\ input \in Inputs
    BY StepMoves DEF Moves, IdInv, Shapes
  <1>2. Reached(f)' = Reached(f)
    BY <1>1, SameInput
  <1>3. Working(t) => ~Closed(file[t])
    BY DEF Closed
  <1>4. \A u \in Threads \ {t} : (Working(u)' <=> Working(u)) /\ file'[u] = file[u]
    BY <1>1 DEF Moves, Working
  <1>5. Close(t) => Working(t)
    BY DEF Close, At, Working
  <1>6. CASE Starts(t)
    <2>1. ~Working(t) /\ Working(t)' /\ ~Close(t)
      BY <1>5, <1>6 DEF Starts, Working
    <2>2. CASE f = file'[t]
      BY <1>6, <2>1, <2>2 DEF Starts, Closed
    <2>3. CASE f # file'[t]
      <3>1. f \in todo' <=> f \in todo
        BY <1>6, <2>3 DEF Starts
      <3> QED
        BY <1>1, <1>2, <1>4, <2>1, <2>3, <3>1 DEF Closed
    <2> QED
      BY <2>2, <2>3
  <1>7. CASE ~Starts(t)
    <2>1. /\ todo' = todo /\ file'[t] = file[t] /\ Working(t)
          /\ Leaves(t) \/ GoesOn(t) \/ Within(t)
      BY <1>1, <1>7 DEF Moves, Leaves, GoesOn, Within, Working, EntrySteps, Asking, AfterQuestion
    <2>2. CASE f # file[t]
      BY <1>1, <1>2, <1>4, <2>1, <2>2 DEF Closed
    <2>3. CASE f = file[t]
      <3>1. ~Closed(f)
        BY <1>3, <2>1, <2>3
      <3>2. CASE Close(t)
        <4>1. pos[t] > Len(input[f]) /\ pc'[t] = "idle"
          BY <2>3, <3>2 DEF Close, IdInv, Shapes
        <4>2. f \notin todo'
          BY <2>1, <2>3 DEF Alone, Ahead
        <4>3. \A u \in Threads : Working(u)' => file'[u] # f
          BY <1>4, <2>1, <2>3, <4>1 DEF Working, Alone, OneThread
        <4>4. Reached(f) = DOMAIN input[f]
          <5>1. \A l \in 1 .. pos[t] - 1 : input[f][l].kind # "bad"
            BY <2>1, <2>3 DEF Alone, Ahead
          <5>2. pos[t] \in Nat /\ DOMAIN input[f] = 1 .. Len(input[f]) /\ Len(input[f]) \in Nat
            BY <1>1, LinesOfFile DEF IdInv, Shapes
          <5>3. \A k \in DOMAIN input[f] : \A l \in 1 .. k : l \in 1 .. pos[t] - 1
            BY <4>1, <5>2
          <5> QED
            BY <5>1, <5>3 DEF Reached
        <4> QED
          BY <1>1, <1>2, <2>3, <3>2, <4>2, <4>3, <4>4 DEF Closed
      <3>3. CASE ~Close(t)
        <4>1. CASE GoesOn(t) \/ Within(t)
          <5>1. Working(t)'
            BY <4>1 DEF GoesOn, Within, Working, EntrySteps, Asking, AfterQuestion
          <5> QED
            BY <2>1, <2>3, <3>1, <3>3, <5>1 DEF Closed
        <4>2. CASE Leaves(t)
          <5>1. pc[t] = "line" /\ Broken(t)
            <6>1. pc[t] = "line" /\ pc'[t] = "idle"
              BY <4>2 DEF Leaves
            <6>2. pc \in [Threads -> Steps]
              BY DEF IdInv, Shapes
            <6>3. Comment(t) \/ Filter(t) \/ Duplicate(t) \/ Accept(t)
                    => pc'[t] \in {"line", "question"}
              BY <6>2 DEF Comment, Filter, Duplicate, Accept, NextLine
            <6> QED
              BY <3>3, <6>1, <6>3, LineSteps
          <5>2. input[f][pos[t]].kind = "bad" /\ pos[t] <= Len(input[f]) /\ pos[t] \in Nat \ {0}
            BY <2>3, <5>1 DEF Broken, AtLine, Line, IdInv, Places
          <5>3. pos[t] \in DOMAIN input[f]
            BY <1>1, <5>2, LinesOfFile
          <5>4. pos[t] \in 1 .. pos[t]
            BY <5>2
          <5>5. pos[t] \notin Reached(f)
            BY <5>2, <5>4 DEF Reached
          <5> QED
            BY <1>1, <1>2, <3>1, <3>3, <5>3, <5>5 DEF Closed
        <4> QED
          BY <2>1, <4>1, <4>2
      <3> QED
        BY <3>2, <3>3
    <2> QED
      BY <2>2, <2>3
  <1> QED
    BY <1>3, <1>6, <1>7

LEMMA LinesStep ==
    ASSUME IdInv, Alone, Marks, DistinctDocs, Lines, NEW t \in Threads, Step(t)
    PROVE  Lines'
  <1>1. Moves(t) /\ input' = input /\ input \in Inputs
    BY StepMoves DEF Moves, IdInv, Shapes
  <1>2. AllCandidates' = AllCandidates
    BY <1>1, SameInput
  <1>3. \A c \in AllCandidates : c[1] \in DOMAIN input
    BY <1>1, CandidateFacts
  <1> DEFINE K(c) == Kept(c, Counting)
             Begins == BeginQuestion(t) /\ Line(t).question # <<>>
  <1>4. \A c \in AllCandidates : K(c)' <=> K(c) \/ (Begins /\ c = Cur(t))
    BY CountedStep
  <1>5. \A f \in DOMAIN input : Closed(f)' <=> Closed(f) \/ (Close(t) /\ f = file[t])
    BY ClosedStep
  <1>6. Working(t) => ~Closed(file[t])
    <2>1. Working(t) => file[t] \in DOMAIN input
      BY DEF IdInv, Places, OnEntry, Working
    <2> QED
      BY <2>1, ClosedStep
  <1>7. \A u \in Threads \ {t} : (Working(u)' <=> Working(u)) /\ file'[u] = file[u]
    BY <1>1 DEF Moves, Working
  <1>8. \A f : CountedOf(f) = {c \in AllCandidates : c[1] = f /\ K(c)}
    BY DEF CountedOf
  <1>9. \A f : CountedOf(f)' = {c \in AllCandidates : c[1] = f /\ K(c)'}
    BY <1>2 DEF CountedOf
  <1>10. CountedClosed = {c \in AllCandidates : Closed(c[1]) /\ K(c)}
    BY DEF CountedClosed
  <1>11. CountedClosed' = {c \in AllCandidates : Closed(c[1])' /\ K(c)'}
    BY <1>2 DEF CountedClosed
  <1>12. count \in [Threads -> Nat] /\ stats \in [lines : Nat, dups : Nat, short : Nat, few : Nat]
    BY DEF Lines
  <1> HIDE DEF K
  <1>13. CASE Begins
    <2>1. Working(t) /\ InEntry(t) /\ pc[t] = "question"
      BY <1>13 DEF BeginQuestion, At, Working, InEntry
    <2>2. /\ count' = [count EXCEPT ![t] = @ + 1] /\ stats' = stats /\ file' = file
          /\ pc' = [pc EXCEPT ![t] = "lookup"]
      BY <1>13 DEF BeginQuestion
    <2>3. Cur(t) \in AllCandidates /\ Cur(t)[1] = file[t]
      BY <2>1, CurFacts DEF Cur
    <2>4. ~K(Cur(t))
      <3>1. Counting \in SUBSET EntrySteps /\ "question" \notin Counting
        BY DEF EntrySteps, Counting, Asking, AfterQuestion
      <3> QED
        BY <2>1, <3>1, KeptCur DEF K
    <2>5. \A f : f # file[t] => CountedOf(f)' = CountedOf(f)
      BY <1>4, <1>8, <1>9, <2>3
    <2>6. CountedOf(file[t])' = CountedOf(file[t]) \cup {Cur(t)} /\ Cur(t) \notin CountedOf(file[t])
      <3>1. file'[t] = file[t]
        BY <2>2
      <3>2. CountedOf(file[t])' = {c \in AllCandidates : c[1] = file[t] /\ K(c)'}
        BY <1>2, <3>1 DEF CountedOf, K
      <3> QED
        BY <1>4, <1>8, <1>13, <2>3, <2>4, <3>2
    <2>7. count' \in [Threads -> Nat]
      BY <1>12, <2>2
    <2>8. ASSUME NEW u \in Threads, Working(u)'
          PROVE  IsFiniteSet(CountedOf(file[u]))' /\ count'[u] = Cardinality(CountedOf(file[u]))'
      <3>1. CASE u = t
        <4>1. IsFiniteSet(CountedOf(file[t])) /\ count[t] = Cardinality(CountedOf(file[t]))
          BY <2>1 DEF Lines
        <4>2. count'[t] = count[t] + 1
          BY <1>12, <2>2
        <4> QED
          BY <2>6, <3>1, <4>1, <4>2, FS_AddElement
      <3>2. CASE u # t
        <4>1. Working(u) /\ file'[u] = file[u]
          BY <1>7, <2>8, <3>2
        <4>2. file[u] # file[t]
          BY <2>1, <3>2, <4>1 DEF Alone, OneThread
        <4>3. IsFiniteSet(CountedOf(file[u])) /\ count[u] = Cardinality(CountedOf(file[u]))
          BY <4>1 DEF Lines
        <4>4. CountedOf(file[u])' = {c \in AllCandidates : c[1] = file[u] /\ K(c)'}
          BY <1>2, <4>1 DEF CountedOf, K
        <4>5. CountedOf(file[u])' = CountedOf(file[u])
          BY <1>4, <1>8, <2>3, <4>2, <4>4
        <4> QED
          BY <1>12, <2>2, <3>2, <4>3, <4>5
      <3> QED
        BY <3>1, <3>2
    <2>9. CountedClosed' = CountedClosed
      <3>1. ~Close(t)
        BY <2>1 DEF Close, At
      <3> QED
        BY <1>3, <1>4, <1>5, <1>6, <1>10, <1>11, <2>1, <2>3, <3>1
    <2> QED
      BY <1>12, <2>2, <2>7, <2>8, <2>9 DEF Lines
  <1>14. CASE ~Begins
    <2>1. \A c \in AllCandidates : K(c)' <=> K(c)
      BY <1>4, <1>14
    <2>2. count' = count \/ Take(t)
      BY <1>14, CountStep
    <2>3. ASSUME NEW u \in Threads, Working(u)'
          PROVE  IsFiniteSet(CountedOf(file[u]))' /\ count'[u] = Cardinality(CountedOf(file[u]))'
      <3>1. CountedOf(file[u])' = {c \in AllCandidates : c[1] = file'[u] /\ K(c)}
        BY <1>2, <2>1 DEF CountedOf, K
      <3>2. CASE u = t /\ Take(t)
        <4>1. file'[t] \in todo /\ count'[t] = 0
          BY <3>2, <1>12 DEF Take, IdInv, Shapes
        <4>2. \A c \in AllCandidates : c[1] = file'[t] => ~K(c)
          <5> SUFFICES ASSUME NEW c \in AllCandidates, c[1] \in todo PROVE ~Done(c, Counting)
            BY <4>1 DEF K, Kept
          <5>1. ~Behind(c)
            BY DEF Behind
          <5>2. ASSUME NEW w \in Threads, pc[w] \in Counting, c = Cur(w) PROVE FALSE
            <6>1. Working(w) /\ c[1] = file[w]
              BY <5>2 DEF Working, Counting, Asking, AfterQuestion, Cur
            <6> QED
              BY <6>1 DEF Alone, Ahead
          <5> QED
            BY <5>1, <5>2 DEF Done
        <4>3. CountedOf(file[u])' = {}
          BY <3>1, <3>2, <4>2
        <4> QED
          BY <3>2, <4>1, <4>3, FS_EmptySet
      <3>3. CASE ~(u = t /\ Take(t))
        <4>1. Working(u) /\ file'[u] = file[u] /\ count'[u] = count[u]
          <5>1. CASE u # t
            <6>1. Working(u) /\ file'[u] = file[u]
              BY <1>7, <2>3, <5>1
            <6>2. count'[u] = count[u]
              BY <1>12, <2>2, <5>1 DEF Take
            <6> QED
              BY <6>1, <6>2
          <5>2. CASE u = t
            <6>1. ~Take(t) /\ count' = count
              BY <2>2, <3>3, <5>2
            <6>2. ~Starts(t)
              <7>1. pc[t] = "idle" => Take(t)
                BY DEF Step, Take, Comment, Broken, Filter, Duplicate, Accept, Close, AtLine,
                       BeginQuestion, Lookup, Allocate, AddDoc, StoreDocument, SkipField,
                       BeginField, FieldId, StoreField, At, IdStep, Fields
              <7> QED
                BY <6>1, <7>1 DEF Starts
            <6>3. file'[t] = file[t] /\ Working(t)
              BY <1>1, <6>2 DEF Moves, Leaves, GoesOn, Within, Working, EntrySteps, Asking,
                                AfterQuestion
            <6> QED
              BY <5>2, <6>1, <6>3
          <5> QED
            BY <5>1, <5>2
        <4>2. CountedOf(file[u])' = CountedOf(file[u])
          BY <1>8, <3>1, <4>1
        <4>3. IsFiniteSet(CountedOf(file[u])) /\ count[u] = Cardinality(CountedOf(file[u]))
          BY <4>1 DEF Lines
        <4> QED
          BY <4>1, <4>2, <4>3
      <3> QED
        BY <3>2, <3>3
    <2>4. count' \in [Threads -> Nat]
      BY <1>12, <2>2 DEF Take
    <2>5. CASE ~Close(t)
      <3>1. CountedClosed' = CountedClosed
        BY <1>3, <1>5, <1>10, <1>11, <2>1, <2>5
      <3>2. stats' \in [lines : Nat, dups : Nat, short : Nat, few : Nat] /\ stats'.lines = stats.lines
        <4>1. stats' = stats \/ stats' = [stats EXCEPT !.short = @ + 1]
                \/ stats' = [stats EXCEPT !.few = @ + 1] \/ stats' = [stats EXCEPT !.dups = @ + 1]
          BY <2>5, CountStep DEF Filter, Duplicate
        <4> QED
          BY <1>12, <4>1
      <3> QED
        BY <2>3, <2>4, <3>1, <3>2 DEF Lines
    <2>6. CASE Close(t)
      <3>1. Working(t) /\ file[t] \in DOMAIN input /\ stats' = [stats EXCEPT !.lines = @ + count[t]]
        BY <2>6 DEF Close, At, Working, IdInv, Places
      <3> DEFINE A == CountedClosed
                 B == CountedOf(file[t])
      <3>2. CountedClosed' = A \cup B
        BY <1>3, <1>5, <1>8, <1>10, <1>11, <2>1, <2>6
      <3>3. A \cap B = {}
        BY <1>6, <1>8, <1>10, <3>1
      <3>4. IsFiniteSet(A) /\ IsFiniteSet(B) /\ stats.lines = Cardinality(A) /\ count[t] = Cardinality(B)
        BY <3>1 DEF Lines
      <3> HIDE DEF A, B
      <3>5. IsFiniteSet(A \cup B) /\ Cardinality(A \cup B) = stats.lines + count[t]
        <4>1. Cardinality(A \cup B) = Cardinality(A) + Cardinality(B) - Cardinality({})
          BY <3>3, <3>4, FS_Union
        <4>2. Cardinality(A) \in Nat /\ Cardinality(B) \in Nat
          BY <1>12, <3>4
        <4>3. Cardinality({}) = 0
          BY FS_EmptySet
        <4>4. IsFiniteSet(A \cup B)
          BY <3>4, FS_Union
        <4>5. Cardinality(A \cup B) = Cardinality(A) + Cardinality(B)
          BY <4>1, <4>2, <4>3
        <4> QED
          BY <3>4, <4>4, <4>5
      <3>6. stats' \in [lines : Nat, dups : Nat, short : Nat, few : Nat]
            /\ stats'.lines = stats.lines + count[t]
        BY <1>12, <3>1
      <3> QED
        BY <2>3, <2>4, <3>2, <3>5, <3>6 DEF Lines
    <2> QED
      BY <2>5, <2>6
  <1> QED
    BY <1>13, <1>14

(* The invariant of the entries.                                           *)
EntriesInv ==
    /\ IdInv /\ Alone /\ Marks /\ Filled
    /\ DistinctDocs => Docs /\ Lines

LEMMA EntriesInit == Init => EntriesInv
  <1> SUFFICES ASSUME Init PROVE EntriesInv
    OBVIOUS
  <1>1. IdInv /\ Alone
    BY InitIds, AloneInit
  <1>2. /\ phase = "list" /\ pc = [t \in Threads |-> "idle"] /\ DOMAIN marked = {}
        /\ DOMAIN documents = {} /\ count = [t \in Threads |-> 0]
        /\ stats = [lines |-> 0, dups |-> 0, short |-> 0, few |-> 0]
    BY DEF Init, Empty
  <1>3. \A c, S : S \in SUBSET EntrySteps => ~Done(c, S)
    BY <1>2 DEF Done, Behind, EntrySteps, Asking, AfterQuestion
  <1>4. EntrySteps \in SUBSET EntrySteps /\ AfterQuestion \in SUBSET EntrySteps
        /\ Counting \in SUBSET EntrySteps
    BY DEF EntrySteps, Counting
  <1>5. Marks
    BY <1>2, <1>3, <1>4 DEF Marks, MarkedFirst, SeenMarked, CurrentOwns, InEntry
  <1>6. Filled
    BY <1>2 DEF Filled, Asking
  <1>7. Docs
    BY <1>2, <1>3, <1>4, FS_EmptySet DEF Docs, Kept
  <1>8. CountedClosed = {}
    BY <1>3, <1>4 DEF CountedClosed, Kept
  <1>9. Lines
    BY <1>2, <1>8, FS_EmptySet DEF Lines, Working
  <1> QED
    BY <1>1, <1>5, <1>6, <1>7, <1>9 DEF EntriesInv

LEMMA FilledRest ==
    ASSUME Filled, List \/ Assemble \/ UNCHANGED vars
    PROVE  Filled'
  <1>1. UNCHANGED <<input, pc, file, pos>>
    BY DEF List, Assemble, vars, local
  <1> QED
    BY <1>1 DEF Filled, Line

LEMMA DocsRest ==
    ASSUME IdInv, Alone, Docs, List \/ Assemble \/ UNCHANGED vars
    PROVE  Docs'
  <1>1. UNCHANGED <<input, documents>>
    BY DEF List, Assemble, vars, question
  <1>2. /\ AllCandidates' = AllCandidates
        /\ \A c : EntryAt(c)' = EntryAt(c) /\ DocAt(c)' = DocAt(c)
    BY <1>1, SameInput
  <1>3. \A c \in AllCandidates : Kept(c, AfterQuestion)' <=> Kept(c, AfterQuestion)
    <2>1. AfterQuestion \in SUBSET EntrySteps
      BY DEF EntrySteps
    <2> QED
      BY <2>1, KeptRest
  <1> QED
    BY <1>1, <1>2, <1>3 DEF Docs

LEMMA LinesRest ==
    ASSUME IdInv, Alone, Lines, List \/ Assemble \/ UNCHANGED vars
    PROVE  Lines'
  <1>1. UNCHANGED <<input, pc, file, count, stats>>
    BY DEF List, Assemble, vars, local
  <1>2. AllCandidates' = AllCandidates /\ \A f : Reached(f)' = Reached(f)
    BY <1>1, SameInput
  <1>3. Counting \in SUBSET EntrySteps
    BY DEF EntrySteps, Counting
  <1>4. \A c \in AllCandidates : Kept(c, Counting)' <=> Kept(c, Counting)
    BY <1>3, KeptRest
  <1>5. \A f : CountedOf(f)' = CountedOf(f)
    BY <1>2, <1>4 DEF CountedOf
  <1>6. \A t \in Threads : CountedOf(file[t])' = CountedOf(file[t])
    BY <1>1, <1>2, <1>4 DEF CountedOf
  <1>7. CountedClosed' = CountedClosed
    <2>1. CASE List
      <3>1. \A c \in AllCandidates : ~Kept(c, Counting)
        BY <1>3, <2>1, KeptRest DEF Kept
      <3> QED
        BY <1>2, <1>4, <3>1 DEF CountedClosed
    <2>2. CASE Assemble \/ UNCHANGED vars
      <3>1. todo' = todo
        BY <2>2 DEF Assemble, vars
      <3>2. \A f : Closed(f)' <=> Closed(f)
        BY <1>1, <1>2, <3>1 DEF Closed, Working
      <3> QED
        BY <1>2, <1>4, <3>2 DEF CountedClosed
    <2> QED
      BY <2>1, <2>2
  <1> QED
    BY <1>1, <1>6, <1>7 DEF Lines, Working

LEMMA EntriesInductive == EntriesInv /\ [Next]_vars => EntriesInv'
  <1> SUFFICES ASSUME EntriesInv, [Next]_vars PROVE EntriesInv'
    OBVIOUS
  <1>1. IdInv /\ Alone /\ Marks /\ Filled /\ (DistinctDocs => Docs /\ Lines) /\ IdInv'
    BY IdsInductive DEF EntriesInv
  <1>2. CASE List \/ Assemble \/ UNCHANGED vars
    <2>1. DistinctDocs' => DistinctDocs
      <3>1. input' = input
        BY <1>2 DEF List, Assemble, vars
      <3> QED
        BY <3>1, SameInput
    <2> QED
      BY <1>1, <1>2, <2>1, AloneRest, MarksRest, FilledRest, DocsRest, LinesRest DEF EntriesInv
  <1>3. ASSUME NEW t \in Threads, Step(t) PROVE EntriesInv'
    <2>1. Moves(t) /\ input' = input
      BY <1>1, <1>3, StepMoves DEF Moves
    <2>2. DistinctDocs' => DistinctDocs
      BY <2>1, SameInput
    <2> QED
      BY <1>1, <1>3, <2>1, <2>2, AloneStep, MarksStep, FilledStep, DocsStep, LinesStep
      DEF EntriesInv
  <1> QED
    BY <1>2, <1>3 DEF Next

(* At the end every candidate is done. *)
LEMMA AllDone ==
    ASSUME Alone, index.built, NEW c \in AllCandidates, NEW S
    PROVE  Done(c, S)
  <1>1. phase = "built" /\ todo = {} /\ \A t \in Threads : ~Working(t)
    BY DEF Alone, Joined, Working
  <1> QED
    BY <1>1 DEF Done, Behind

LEMMA SurvivorsHold == EntriesInv => Survivors
  <1> SUFFICES ASSUME EntriesInv, index.built, DistinctDocs
               PROVE  Survivors
    BY DEF Survivors
  <1>1. IdInv /\ Alone /\ Marks /\ Docs /\ Lines /\ input \in Inputs
    BY DEF EntriesInv, IdInv, Shapes
  <1>2. \A c \in AllCandidates : \A S : Done(c, S)
    BY <1>1, AllDone
  <1>3. \A d \in DOMAIN documents : \E c \in AllCandidates :
           /\ Usable(EntryAt(c)) /\ Owns(c) /\ d = DocAt(c) /\ documents[d].entry = EntryAt(c)
    BY <1>1 DEF Docs, Kept
  <1>4. \A c \in AllCandidates : Usable(EntryAt(c)) /\ Owns(c) => DocAt(c) \in DOMAIN documents
    BY <1>1, <1>2 DEF Docs, Kept
  <1>5. \A c, e \in AllCandidates : DocAt(c) = DocAt(e) \/ EntryAt(c) = EntryAt(e) => c = e
    BY DEF DistinctDocs, DocAt
  <1>6. \A c \in AllCandidates : Stored(c) <=> Usable(EntryAt(c)) /\ Owns(c)
    <2> SUFFICES ASSUME NEW c \in AllCandidates
                 PROVE  Stored(c) <=> Usable(EntryAt(c)) /\ Owns(c)
      OBVIOUS
    <2>1. ASSUME Stored(c) PROVE Usable(EntryAt(c)) /\ Owns(c)
      <3>1. PICK d \in DOMAIN documents : documents[d].entry = EntryAt(c)
        BY <2>1 DEF Stored
      <3>2. PICK e \in AllCandidates :
               Usable(EntryAt(e)) /\ Owns(e) /\ documents[d].entry = EntryAt(e)
        BY <1>3, <3>1
      <3> QED
        BY <1>5, <3>1, <3>2
    <2>2. ASSUME Usable(EntryAt(c)), Owns(c) PROVE Stored(c)
      <3>1. DocAt(c) \in DOMAIN documents
        BY <1>4, <2>2
      <3>2. PICK e \in AllCandidates :
               DocAt(c) = DocAt(e) /\ documents[DocAt(c)].entry = EntryAt(e)
        BY <1>3, <3>1
      <3> QED
        BY <1>5, <3>1, <3>2 DEF Stored
    <2> QED
      BY <2>1, <2>2
  <1>7. \A d \in DOMAIN documents : \E c \in AllCandidates :
           Usable(EntryAt(c)) /\ documents[d].entry = EntryAt(c)
    BY <1>3
  <1>8. \A c \in AllCandidates : ~Keyed(EntryAt(c)) /\ Usable(EntryAt(c)) => Stored(c)
    BY <1>6 DEF Owns
  <1>9. ASSUME NEW k \in UsedKeys
        PROVE  LET kept == {c \in WithKey(k) : Stored(c)}
               IN  /\ Cardinality(kept) <= 1
                   /\ (\A c \in WithKey(k) : Usable(EntryAt(c))) => kept # {}
                   /\ \A c, e \in WithKey(k) :
                         c \in kept /\ (\A a \in WithKey(k) : a[1] = c[1]) => c[2] <= e[2]
    <2> DEFINE kept == {c \in WithKey(k) : Stored(c)}
    <2>1. k \in DOMAIN marked
      BY <1>1, <1>2 DEF UsedKeys, Marks, SeenMarked
    <2>2. PICK m \in AllCandidates : Marker(m, k) /\ marked[k] = EntryAt(m)
      BY <1>1, <2>1 DEF Marks, MarkedFirst
    <2>3. \A c \in WithKey(k) : c \in AllCandidates /\ Keyed(EntryAt(c)) /\ EntryAt(c).key = k
      BY DEF WithKey
    <2>4. m \in WithKey(k) /\ Owns(m)
      BY <2>1, <2>2 DEF Marker, WithKey, Owns
    <2>5. \A c \in WithKey(k) : Owns(c) => c = m
      BY <1>5, <2>2, <2>3 DEF Owns
    <2>6. kept \subseteq {m}
      BY <1>6, <2>3, <2>5
    <2>7. Cardinality(kept) <= 1
      <3>1. IsFiniteSet({m}) /\ Cardinality({m}) = 1
        BY FS_Singleton
      <3>2. kept \in SUBSET {m}
        BY <2>6
      <3> HIDE DEF kept
      <3>3. Cardinality(kept) <= Cardinality({m})
        BY <3>1, <3>2, FS_Subset
      <3> QED
        BY <3>1, <3>3
    <2>8. (\A c \in WithKey(k) : Usable(EntryAt(c))) => kept # {}
      BY <1>6, <2>3, <2>4
    <2>9. \A c, e \in WithKey(k) :
             c \in kept /\ (\A a \in WithKey(k) : a[1] = c[1]) => c[2] <= e[2]
      BY <2>2, <2>6 DEF Marker
    <2> QED
      BY <2>7, <2>8, <2>9
  <1>10. stats.lines <= Total /\ ((\A f \in DOMAIN input : Reached(f) = DOMAIN input[f]) => stats.lines = Total)
    <2> DEFINE D == DOMAIN documents
               C == CountedClosed
               f == [c \in C |-> DocAt(c)]
    <2>1. IsFiniteSet(C) /\ stats.lines = Cardinality(C) /\ IsFiniteSet(D)
      BY <1>1 DEF Lines, Docs
    <2>2. \A c \in C : c \in AllCandidates /\ DocAt(c) \in D
      BY <1>4 DEF CountedClosed, Kept
    <2>3. f \in Injection(C, D)
      BY <1>5, <2>2 DEF Injection, IsInjective
    <2>4. (\A g \in DOMAIN input : Reached(g) = DOMAIN input[g]) => f \in Surjection(C, D)
      <3> SUFFICES ASSUME \A g \in DOMAIN input : Reached(g) = DOMAIN input[g], NEW d \in D
                   PROVE  \E c \in C : f[c] = d
        BY <2>3 DEF Surjection, Injection
      <3>1. PICK c \in AllCandidates : Usable(EntryAt(c)) /\ Owns(c) /\ d = DocAt(c)
        BY <1>3
      <3>2. Kept(c, Counting)
        BY <1>2, <3>1 DEF Kept
      <3>3. Closed(c[1])
        <4>1. c[1] \in DOMAIN input
          BY <1>1, CandidateFacts
        <4>2. todo = {} /\ \A t \in Threads : ~Working(t)
          BY <1>1 DEF Alone, Joined, Working
        <4> QED
          BY <4>1, <4>2 DEF Closed
      <3>4. c \in C
        BY <3>2, <3>3 DEF CountedClosed
      <3> QED
        BY <3>1, <3>4
    <2> HIDE DEF C, D, f
    <2>5. Cardinality(C) <= Cardinality(D)
      BY <2>1, <2>3, FS_Injection
    <2>6. f \in Surjection(C, D) => Cardinality(C) = Cardinality(D)
      BY <2>1, <2>3, FS_Injection
    <2> QED
      BY <2>1, <2>4, <2>5, <2>6 DEF Total, D
  <1> QED
    BY <1>7, <1>8, <1>9, <1>10 DEF Survivors

(* Whatever the number of threads and the order in which they come to the  *)
(* entries, of the entries of one key check_and_mark_duplicate leaves one  *)
(* at most, none if the first was not usable; no other entry is lost, and  *)
(* the lines that the files report are the documents.                      *)
THEOREM SurvivorsKept == Spec => []Survivors
  <1>1. Init => EntriesInv
    BY EntriesInit
  <1>2. EntriesInv /\ [Next]_vars => EntriesInv'
    BY EntriesInductive
  <1>3. EntriesInv => Survivors
    BY SurvivorsHold
  <1> QED
    BY <1>1, <1>2, <1>3, PTL DEF Spec

-----------------------------------------------------------------------------
(* What the maps of n-grams hold.  A thread between the begin of a question*)
(* and the storing of the document has found the ids of the n-grams that   *)
(* went before, and its document stands under each of them; a stored       *)
(* document stands under exactly the ids of its question.                  *)
OwnGrams(e) == Elements(QuestionGrams(e.question))

Kinds == found \in [Threads -> SUBSET Nat] /\ got \in [Threads -> Nat] /\ maxDoc \in 0 .. DocWidth - 1

AskedOf(t) ==
    /\ Elements(grams[t]) \subseteq OwnGrams(Line(t))
    /\ \A g \in OwnGrams(Line(t)) : g \in Elements(grams[t]) \/ (g \in DOMAIN ids /\ ids[g] \in found[t])
    /\ \A i \in found[t] :
          /\ \E g \in OwnGrams(Line(t)) : g \in DOMAIN ids /\ ids[g] = i
          /\ i \in DOMAIN docsOf /\ Doc(t) \in docsOf[i]
    /\ pc[t] = "add" => Head(grams[t]) \in DOMAIN ids /\ got[t] = ids[Head(grams[t])]
    /\ Doc(t) <= maxDoc
Asked == \A t \in Threads : pc[t] \in Asking => AskedOf(t)

Under(d, i) ==
    \/ d \in DOMAIN documents /\ i \in questionIds[d]
    \/ \E t \in Threads : pc[t] \in Asking /\ d = Doc(t) /\ i \in found[t]
StoredOf(d) ==
    /\ d <= maxDoc
    /\ OwnGrams(documents[d].entry) \subseteq DOMAIN ids
    /\ questionIds[d] = {ids[g] : g \in OwnGrams(documents[d].entry)}
    /\ \A i \in questionIds[d] : i \in DOMAIN docsOf /\ d \in docsOf[i]
Sets ==
    /\ DOMAIN questionIds = DOMAIN documents
    /\ \A d \in DOMAIN documents : StoredOf(d)
    /\ \A i \in DOMAIN docsOf : docsOf[i] # {} /\ \A d \in docsOf[i] : Under(d, i)
SetsInv == Kinds /\ Asked /\ Sets

(* With different document ids, a thread that has not stored its document  *)
(* finds it in no map, and no other thread works on it.                    *)
LEMMA FreshDocument ==
    ASSUME IdInv, Alone, Marks, DistinctDocs, Docs, NEW t \in Threads, InEntry(t),
           pc[t] \notin AfterQuestion
    PROVE  Doc(t) \notin DOMAIN documents
  <1> SUFFICES ASSUME Doc(t) \in DOMAIN documents PROVE FALSE
    OBVIOUS
  <1>1. PICK c \in AllCandidates : Kept(c, AfterQuestion) /\ Doc(t) = DocAt(c)
    BY DEF Docs
  <1>2. Cur(t) \in AllCandidates /\ DocAt(Cur(t)) = Doc(t)
    BY CurFacts
  <1>3. c = Cur(t)
    BY <1>1, <1>2 DEF DistinctDocs, DocAt
  <1>4. AfterQuestion \in SUBSET EntrySteps
    BY DEF EntrySteps
  <1> QED
    BY <1>1, <1>3, <1>4, KeptCur

LEMMA OtherDocument ==
    ASSUME IdInv, Alone, DistinctDocs, NEW t \in Threads, InEntry(t),
           NEW u \in Threads, InEntry(u), Doc(t) = Doc(u)
    PROVE  t = u
  <1>1. Cur(t) = Cur(u)
    <2>1. Cur(t) \in AllCandidates /\ DocAt(Cur(t)) = Doc(t)
      BY CurFacts
    <2>2. Cur(u) \in AllCandidates /\ DocAt(Cur(u)) = Doc(u)
      BY CurFacts
    <2> QED
      BY <2>1, <2>2 DEF DistinctDocs, DocAt
  <1>2. file[t] = file[u] /\ Working(t) /\ Working(u)
    BY <1>1 DEF Cur, InEntry, Working
  <1> QED
    BY <1>2 DEF Alone, OneThread

LEMMA HeadAndTail ==
    ASSUME NEW S, NEW s \in Seq(S), s # <<>>
    PROVE  Elements(s) = {Head(s)} \cup Elements(Tail(s))
  <1>1. Len(s) \in Nat \ {0} /\ DOMAIN s = 1 .. Len(s)
    OBVIOUS
  <1>2. Tail(s) \in Seq(S) /\ Len(Tail(s)) = Len(s) - 1
        /\ DOMAIN Tail(s) = 1 .. Len(s) - 1
    BY <1>1
  <1>3. \A k \in 1 .. Len(s) - 1 : Tail(s)[k] = s[k + 1]
    BY <1>1
  <1>4. Head(s) = s[1]
    OBVIOUS
  <1>5. ASSUME NEW x \in Elements(s) PROVE x \in {Head(s)} \cup Elements(Tail(s))
    <2>1. PICK k \in 1 .. Len(s) : x = s[k]
      BY <1>1, <1>5 DEF Elements
    <2>2. CASE k = 1
      BY <1>4, <2>1, <2>2
    <2>3. CASE k # 1
      <3>1. k - 1 \in 1 .. Len(s) - 1 /\ (k - 1) + 1 = k
        BY <1>1, <2>3
      <3>2. x = Tail(s)[k - 1]
        BY <1>3, <2>1, <3>1
      <3> QED
        BY <1>2, <3>1, <3>2 DEF Elements
    <2> QED
      BY <2>2, <2>3
  <1>6. ASSUME NEW x \in Elements(Tail(s)) PROVE x \in Elements(s)
    <2>1. PICK k \in 1 .. Len(s) - 1 : x = Tail(s)[k]
      BY <1>2, <1>6 DEF Elements
    <2>2. k + 1 \in DOMAIN s /\ x = s[k + 1]
      BY <1>1, <1>3, <2>1
    <2> QED
      BY <2>2 DEF Elements
  <1>7. Head(s) \in Elements(s)
    <2>1. 1 \in DOMAIN s
      BY <1>1
    <2> QED
      BY <1>4, <2>1 DEF Elements
  <1> QED
    BY <1>5, <1>6, <1>7

(* The sets under the ids only grow, and so do the greatest document id.   *)
LEMMA SetsGrow ==
    ASSUME NEW t \in Threads, Step(t)
    PROVE  /\ docsOf' = docsOf \/ AddDoc(t)
           /\ \A i \in DOMAIN docsOf : i \in DOMAIN docsOf' /\ docsOf[i] \subseteq docsOf'[i]
           /\ maxDoc' = maxDoc \/ BeginQuestion(t)
           /\ questionIds' = questionIds \/ StoreDocument(t)
  <1>1. CASE Take(t) \/ Comment(t) \/ Broken(t) \/ Filter(t) \/ Duplicate(t) \/ Close(t) \/ Accept(t)
    <2>1. UNCHANGED builder
      BY <1>1 DEF Take, Comment, Broken, Filter, Duplicate, Close, Accept
    <2> QED
      BY <2>1 DEF builder, question
  <1>2. CASE Lookup(t) \/ Allocate(t)
    BY <1>2 DEF Lookup, Allocate, builder, question
  <1>3. CASE BeginQuestion(t)
    BY <1>3 DEF BeginQuestion, question
  <1>4. CASE AddDoc(t)
    <2>1. docsOf' = Put(docsOf, got[t], Get(docsOf, got[t], {}) \cup {Doc(t)})
          /\ questionIds' = questionIds /\ maxDoc' = maxDoc
      BY <1>4 DEF AddDoc
    <2>2. \A i \in DOMAIN docsOf : i \in DOMAIN docsOf' /\ docsOf[i] \subseteq docsOf'[i]
      BY <2>1 DEF Put, Get
    <2> QED
      BY <1>4, <2>1, <2>2
  <1>5. CASE StoreDocument(t)
    BY <1>5 DEF StoreDocument
  <1>6. ASSUME NEW f \in Fields,
               SkipField(t, f) \/ BeginField(t, f) \/ FieldId(t, f) \/ StoreField(t, f)
        PROVE  UNCHANGED <<docsOf, maxDoc, questionIds>>
    BY <1>6 DEF SkipField, BeginField, FieldId, StoreField, builder, question
  <1> QED
    BY <1>1, <1>2, <1>3, <1>4, <1>5, <1>6 DEF Step

LEMMA KindsStep ==
    ASSUME IdInv, Alone, Kinds, NEW t \in Threads, Step(t)
    PROVE  /\ Kinds' /\ maxDoc <= maxDoc'
           /\ \A u \in Threads \ {t} :
                 found'[u] = found[u] /\ got'[u] = got[u] /\ grams'[u] = grams[u]
  <1>0. /\ DOMAIN found = Threads /\ DOMAIN got = Threads /\ DOMAIN grams = Threads
        /\ next \in Nat /\ \A g \in DOMAIN ids : ids[g] \in Nat
    <2>1. Numbered(ids, next, AllGrams(input)) /\ input \in Inputs
      BY DEF IdInv, Shapes
    <2>2. DOMAIN ids \subseteq AllGrams(input) /\ IsFiniteSet(AllGrams(input))
      BY <2>1, InputAssumption DEF Numbered, InputAssumption
    <2>3. Cardinality(DOMAIN ids) \in Nat
      BY <2>2, FS_Subset, FS_CardinalityType
    <2> QED
      BY <2>1, <2>3 DEF Numbered, Kinds, IdInv, Shapes
  <1> DEFINE Same == \A u \in Threads \ {t} :
                        found'[u] = found[u] /\ got'[u] = got[u] /\ grams'[u] = grams[u]
             Kind == found' \in [Threads -> SUBSET Nat] /\ got' \in [Threads -> Nat]
  <1>1. CASE Take(t) \/ Comment(t) \/ Broken(t) \/ Filter(t) \/ Duplicate(t) \/ Close(t) \/ Accept(t)
    <2>1. UNCHANGED <<grams, found, got, builder>>
      BY <1>1 DEF Take, Comment, Broken, Filter, Duplicate, Close, Accept
    <2> QED
      BY <2>1 DEF builder, Kinds
  <1>2. CASE BeginQuestion(t)
    <2>1. maxDoc' = (IF Doc(t) > maxDoc THEN Doc(t) ELSE maxDoc) /\ got' = got
      BY <1>2 DEF BeginQuestion
    <2>2. Doc(t) \in Nat /\ Doc(t) < DocWidth
      <3>1. InEntry(t)
        BY <1>2 DEF BeginQuestion, At, InEntry
      <3>2. Cur(t) \in AllCandidates /\ DocAt(Cur(t)) = Doc(t) /\ input \in Inputs
        BY <3>1, CurFacts DEF IdInv, Shapes
      <3> QED
        BY <3>2, CandidateFacts
    <2>3. maxDoc' \in 0 .. DocWidth - 1 /\ maxDoc <= maxDoc'
      BY <2>1, <2>2, WidthAssumption DEF Kinds, WidthAssumption
    <2>4. Same /\ Kind
      <3>1. \/ grams' = grams /\ found' = found
            \/ /\ grams' = [grams EXCEPT ![t] = QuestionGrams(Line(t).question)]
               /\ found' = [found EXCEPT ![t] = {}]
        BY <1>2 DEF BeginQuestion
      <3> QED
        BY <1>0, <2>1, <3>1 DEF Kinds
    <2> QED
      BY <2>3, <2>4 DEF Kinds
  <1>3. CASE Lookup(t)
    <2>1. UNCHANGED <<grams, found, maxDoc>>
          /\ (got' = got \/ (Head(grams[t]) \in DOMAIN ids /\ got' = [got EXCEPT ![t] = ids[Head(grams[t])]]))
      BY <1>3 DEF Lookup, builder
    <2> QED
      BY <1>0, <2>1 DEF Kinds
  <1>4. CASE Allocate(t)
    <2>1. UNCHANGED <<grams, found, maxDoc>> /\ got' = [got EXCEPT ![t] = next]
      BY <1>4 DEF Allocate
    <2> QED
      BY <1>0, <2>1 DEF Kinds
  <1>5. CASE AddDoc(t)
    <2>1. /\ found' = [found EXCEPT ![t] = @ \cup {got[t]}]
          /\ grams' = [grams EXCEPT ![t] = Tail(@)] /\ got' = got /\ maxDoc' = maxDoc
      BY <1>5 DEF AddDoc
    <2> QED
      BY <1>0, <2>1 DEF Kinds
  <1>6. CASE StoreDocument(t)
    BY <1>6 DEF StoreDocument, Kinds
  <1>7. ASSUME NEW f \in Fields, SkipField(t, f) \/ StoreField(t, f)
        PROVE  UNCHANGED <<grams, found, got, maxDoc>>
    BY <1>7 DEF SkipField, StoreField, builder
  <1>8. ASSUME NEW f \in Fields, BeginField(t, f)
        PROVE  Same /\ Kind /\ maxDoc' = maxDoc
    <2>1. /\ grams' = [grams EXCEPT ![t] = FieldGrams(f, Line(t)[f])]
          /\ found' = [found EXCEPT ![t] = {}] /\ got' = got /\ maxDoc' = maxDoc
      BY <1>8 DEF BeginField
    <2> QED
      BY <1>0, <2>1 DEF Kinds
  <1>9. ASSUME NEW f \in Fields, FieldId(t, f)
        PROVE  Same /\ Kind /\ maxDoc' = maxDoc
    <2>1. /\ found' = [found EXCEPT ![t] = @ \cup {Get(ids, Head(grams[t]), next)}]
          /\ grams' = [grams EXCEPT ![t] = Tail(@)] /\ got' = got /\ maxDoc' = maxDoc
      BY <1>9 DEF FieldId
    <2>2. Get(ids, Head(grams[t]), next) \in Nat
      BY <1>0 DEF Get
    <2> HIDE DEF Get
    <2> QED
      BY <1>0, <2>1, <2>2 DEF Kinds
  <1>10. maxDoc \in Nat
    BY DEF Kinds
  <1> QED
    BY <1>1, <1>2, <1>3, <1>4, <1>5, <1>6, <1>7, <1>8, <1>9, <1>10 DEF Step, Kinds

LEMMA AskedStep ==
    ASSUME IdInv, Alone, Kinds, Asked, NEW t \in Threads, Step(t)
    PROVE  Asked'
  <1>1. Moves(t) /\ input' = input /\ Next
    BY StepMoves DEF Moves, Next
  <1>2. \A g \in DOMAIN ids : g \in DOMAIN ids' /\ ids'[g] = ids[g]
    BY <1>1, IdsKeptStep DEF IdsKept
  <1>3. \A i \in DOMAIN docsOf : i \in DOMAIN docsOf' /\ docsOf[i] \subseteq docsOf'[i]
    BY SetsGrow
  <1>4. /\ maxDoc <= maxDoc' /\ maxDoc \in Nat /\ maxDoc' \in Nat /\ Kinds'
        /\ \A u \in Threads \ {t} :
              found'[u] = found[u] /\ got'[u] = got[u] /\ grams'[u] = grams[u]
    BY KindsStep DEF Kinds
  <1>5. \A u \in Threads : InEntry(u) => Doc(u) \in Nat
    <2> SUFFICES ASSUME NEW u \in Threads, InEntry(u) PROVE Doc(u) \in Nat
      OBVIOUS
    <2>1. Cur(u) \in AllCandidates /\ DocAt(Cur(u)) = Doc(u) /\ input \in Inputs
      BY CurFacts DEF IdInv, Shapes
    <2> QED
      BY <2>1, CandidateFacts
  <1> SUFFICES ASSUME NEW u \in Threads, pc'[u] \in Asking
               PROVE  AskedOf(u)'
    BY DEF Asked
  <1>6. CASE u # t
    <2>1. pc'[u] = pc[u] /\ Line(u)' = Line(u) /\ Doc(u)' = Doc(u)
      BY <1>1, <1>6 DEF Moves, Line, Doc
    <2>2. AskedOf(u) /\ InEntry(u)
      BY <2>1 DEF Asked, InEntry, Asking
    <2>3. found'[u] = found[u] /\ got'[u] = got[u] /\ grams'[u] = grams[u]
      BY <1>4, <1>6
    <2>4. Doc(u) <= maxDoc'
      BY <1>4, <1>5, <2>2 DEF AskedOf
    <2>5. \A i \in found[u] :
             /\ \E g \in OwnGrams(Line(u)) : g \in DOMAIN ids' /\ ids'[g] = i
             /\ i \in DOMAIN docsOf' /\ Doc(u) \in docsOf'[i]
      BY <1>2, <1>3, <2>2 DEF AskedOf
    <2>6. \A g \in OwnGrams(Line(u)) :
             g \in Elements(grams[u]) \/ (g \in DOMAIN ids' /\ ids'[g] \in found[u])
      BY <1>2, <2>2 DEF AskedOf
    <2>7. pc[u] = "add" => Head(grams[u]) \in DOMAIN ids' /\ got[u] = ids'[Head(grams[u])]
      BY <1>2, <2>2 DEF AskedOf
    <2>8. Elements(grams[u]) \subseteq OwnGrams(Line(u))
      BY <2>2 DEF AskedOf
    <2>9. /\ OwnGrams(Line(u))' = OwnGrams(Line(u)) /\ Elements(grams[u])' = Elements(grams[u])
          /\ Head(grams[u])' = Head(grams[u])
      BY <2>1, <2>3 DEF OwnGrams, Elements, QuestionGrams, Windows
    <2> QED
      BY <2>1, <2>3, <2>4, <2>5, <2>6, <2>7, <2>8, <2>9 DEF AskedOf
  <1>7. CASE u = t
    <2>0. /\ pc \in [Threads -> Steps] /\ grams \in [Threads -> Seq(AllGrams(input))]
          /\ found \in [Threads -> SUBSET Nat] /\ got \in [Threads -> Nat]
      BY DEF IdInv, Shapes, Kinds
    <2>1. /\ Within(t) /\ Line(t)' = Line(t) /\ Doc(t)' = Doc(t)
          /\ BeginQuestion(t) \/ Lookup(t) \/ Allocate(t) \/ AddDoc(t)
      <3>1. Within(t) /\ file'[t] = file[t] /\ pos'[t] = pos[t]
        BY <1>1, <1>7 DEF Moves, Starts, Leaves, GoesOn, Within, Asking, AfterQuestion, EntrySteps
      <3>2. InEntry(t)
        <4>1. pc[t] = "line" => pc'[t] \notin Asking
          <5>1. Comment(t) \/ Filter(t) \/ Duplicate(t) => pc'[t] = "line"
            BY <2>0 DEF Comment, Filter, Duplicate, NextLine
          <5>2. Broken(t) \/ Close(t) => pc'[t] = "idle"
            BY <2>0 DEF Broken, Close
          <5>3. Accept(t) => pc'[t] \in {"line", "question"}
            BY <2>0 DEF Accept, NextLine
          <5> QED
            BY <5>1, <5>2, <5>3, LineSteps DEF Asking
        <4> QED
          BY <1>7, <3>1, <4>1 DEF Within, InEntry, EntrySteps, Asking, AfterQuestion
      <3>3. BeginQuestion(t) \/ Lookup(t) \/ Allocate(t) \/ AddDoc(t)
        BY <1>7, <3>2, StageStep DEF Asking, Fields, IdStep
      <3> QED
        BY <1>1, <3>1, <3>3 DEF Line, Doc
    <2>2. OwnGrams(Line(t))' = OwnGrams(Line(t))
      BY <2>1 DEF OwnGrams, Elements, QuestionGrams, Windows
    <2>3. InEntry(t)
      BY <2>1 DEF BeginQuestion, Lookup, Allocate, AddDoc, At, InEntry
    <2>4. CASE BeginQuestion(t)
      <3>1. /\ pc'[t] = "lookup" /\ grams'[t] = QuestionGrams(Line(t).question)
            /\ found'[t] = {}
            /\ maxDoc' = IF Doc(t) > maxDoc THEN Doc(t) ELSE maxDoc
        BY <1>7, <2>0, <2>4 DEF BeginQuestion, Asking
      <3>2. Elements(grams[t])' = OwnGrams(Line(t))
        BY <3>1 DEF OwnGrams, Elements
      <3>3. Doc(t) <= maxDoc'
        BY <1>4, <1>5, <2>3, <3>1
      <3> QED
        BY <1>7, <2>1, <2>2, <3>1, <3>2, <3>3 DEF AskedOf
    <2>5. CASE Lookup(t)
      <3>1. AskedOf(t)
        BY <2>5 DEF Lookup, At, Asked, Asking
      <3>2. /\ UNCHANGED <<grams, found, ids, docsOf, maxDoc>>
            /\ pc'[t] = "add" => Head(grams[t]) \in DOMAIN ids /\ got'[t] = ids[Head(grams[t])]
        BY <2>0, <2>5 DEF Lookup, At, builder, idMap, question
      <3>3. Elements(grams[t])' = Elements(grams[t]) /\ Head(grams[t])' = Head(grams[t])
        BY <3>2 DEF Elements
      <3> QED
        BY <1>7, <2>1, <2>2, <3>1, <3>2, <3>3 DEF AskedOf
    <2>6. CASE Allocate(t)
      <3>1. AskedOf(t)
        BY <2>6 DEF Allocate, At, Asked, Asking
      <3>2. /\ UNCHANGED <<grams, found, docsOf, maxDoc>>
            /\ ids' = Put(ids, Head(grams[t]), next) /\ got'[t] = next
        BY <2>0, <2>6 DEF Allocate, question
      <3>3. Head(grams[t]) \in DOMAIN ids' /\ got'[t] = ids'[Head(grams[t])]
        BY <3>2 DEF Put
      <3>4. Elements(grams[t])' = Elements(grams[t]) /\ Head(grams[t])' = Head(grams[t])
        BY <3>2 DEF Elements
      <3>5. \A g \in OwnGrams(Line(t)) :
               g \in Elements(grams[t]) \/ (g \in DOMAIN ids' /\ ids'[g] \in found[t])
        BY <1>2, <3>1 DEF AskedOf
      <3>6. \A i \in found[t] :
               /\ \E g \in OwnGrams(Line(t)) : g \in DOMAIN ids' /\ ids'[g] = i
               /\ i \in DOMAIN docsOf /\ Doc(t) \in docsOf[i]
        BY <1>2, <3>1 DEF AskedOf
      <3> QED
        BY <1>7, <2>1, <2>2, <3>1, <3>2, <3>3, <3>4, <3>5, <3>6 DEF AskedOf
    <2>7. CASE AddDoc(t)
      <3>1. AskedOf(t) /\ pc[t] = "add"
        BY <2>7 DEF AddDoc, At, Asked, Asking
      <3>2. /\ docsOf' = Put(docsOf, got[t], Get(docsOf, got[t], {}) \cup {Doc(t)})
            /\ found'[t] = found[t] \cup {got[t]}
            /\ grams'[t] = Tail(grams[t]) /\ ids' = ids /\ maxDoc' = maxDoc
            /\ pc'[t] = "lookup"
        BY <2>0, <2>7 DEF AddDoc, idMap
      <3>3. grams[t] # <<>> /\ grams[t] \in Seq(AllGrams(input))
        BY <2>0, <3>1 DEF IdInv, Pending
      <3>4. Elements(grams[t]) = {Head(grams[t])} \cup Elements(Tail(grams[t]))
        BY <3>3, HeadAndTail
      <3>5. Elements(grams[t])' = Elements(Tail(grams[t]))
        BY <3>2 DEF Elements
      <3>6. Head(grams[t]) \in DOMAIN ids /\ got[t] = ids[Head(grams[t])]
            /\ Head(grams[t]) \in OwnGrams(Line(t))
        BY <3>1, <3>4 DEF AskedOf
      <3>7. got[t] \in DOMAIN docsOf' /\ Doc(t) \in docsOf'[got[t]]
        BY <3>2 DEF Put
      <3>8. \A g \in OwnGrams(Line(t)) :
               g \in Elements(Tail(grams[t])) \/ (g \in DOMAIN ids' /\ ids'[g] \in found'[t])
        BY <3>1, <3>2, <3>4, <3>6 DEF AskedOf
      <3>9. \A i \in found'[t] :
               /\ \E g \in OwnGrams(Line(t)) : g \in DOMAIN ids' /\ ids'[g] = i
               /\ i \in DOMAIN docsOf' /\ Doc(t) \in docsOf'[i]
        BY <1>3, <3>1, <3>2, <3>6, <3>7 DEF AskedOf
      <3>10. Elements(Tail(grams[t])) \subseteq OwnGrams(Line(t)) /\ Doc(t) <= maxDoc
        BY <3>1, <3>4 DEF AskedOf
      <3> QED
        BY <1>7, <2>1, <2>2, <3>2, <3>5, <3>8, <3>9, <3>10 DEF AskedOf
    <2> QED
      BY <2>1, <2>4, <2>5, <2>6, <2>7
  <1> QED
    BY <1>6, <1>7

LEMMA SetsStep ==
    ASSUME IdInv, Alone, Marks, Filled, DistinctDocs, Docs, SetsInv, NEW t \in Threads, Step(t)
    PROVE  Sets'
  <1>1. Moves(t) /\ input' = input /\ Next /\ input \in Inputs
    BY StepMoves DEF Moves, Next, IdInv, Shapes
  <1>2. \A g \in DOMAIN ids : g \in DOMAIN ids' /\ ids'[g] = ids[g]
    BY <1>1, IdsKeptStep DEF IdsKept
  <1>3. /\ \A i \in DOMAIN docsOf : i \in DOMAIN docsOf' /\ docsOf[i] \subseteq docsOf'[i]
        /\ docsOf' = docsOf \/ AddDoc(t)
        /\ questionIds' = questionIds \/ StoreDocument(t)
    BY SetsGrow
  <1>4. /\ maxDoc <= maxDoc' /\ maxDoc \in Nat /\ maxDoc' \in Nat
        /\ \A u \in Threads \ {t} : found'[u] = found[u]
    BY KindsStep DEF Kinds, SetsInv
  <1>5. \A d \in DOMAIN documents : d \in Nat
    <2> SUFFICES ASSUME NEW d \in DOMAIN documents PROVE d \in Nat
      OBVIOUS
    <2>1. PICK c \in AllCandidates : d = DocAt(c)
      BY DEF Docs
    <2> QED
      BY <1>1, <2>1, CandidateFacts
  <1>6. \A u \in Threads \ {t} : pc'[u] = pc[u] /\ Doc(u)' = Doc(u)
    BY <1>1 DEF Moves, Line, Doc
  <1>7. Sets /\ Asked /\ Kinds
    BY DEF SetsInv
  <1>8. /\ found \in [Threads -> SUBSET Nat] /\ pc \in [Threads -> Steps]
    BY <1>7 DEF Kinds, IdInv, Shapes
  (* A document stored before keeps what it has. *)
  <1>9. ASSUME NEW d \in DOMAIN documents, documents'[d].entry = documents[d].entry,
               questionIds'[d] = questionIds[d]
        PROVE  StoredOf(d)'
    <2>1. StoredOf(d)
      BY <1>7 DEF Sets
    <2>2. d <= maxDoc'
      BY <1>4, <1>5, <2>1 DEF StoredOf
    <2>3. OwnGrams(documents[d].entry)' = OwnGrams(documents[d].entry)
      BY <1>9 DEF OwnGrams, Elements, QuestionGrams, Windows
    <2> DEFINE O == OwnGrams(documents[d].entry)
    <2>4. O \subseteq DOMAIN ids /\ questionIds[d] = {ids[g] : g \in O}
          /\ \A i \in questionIds[d] : i \in DOMAIN docsOf /\ d \in docsOf[i]
      BY <2>1 DEF StoredOf
    <2> HIDE DEF O
    <2>5. O \subseteq DOMAIN ids' /\ questionIds[d] = {ids'[g] : g \in O}
      BY <1>2, <2>4
    <2>6. \A i \in questionIds[d] : i \in DOMAIN docsOf' /\ d \in docsOf'[i]
      BY <1>3, <2>4
    <2> QED
      BY <1>9, <2>2, <2>3, <2>5, <2>6 DEF StoredOf, O
  (* Other threads stand under the ids as before. *)
  <1>10. \A u \in Threads \ {t} : \A d, i :
            (pc[u] \in Asking /\ d = Doc(u) /\ i \in found[u])
               <=> (pc'[u] \in Asking /\ d = Doc(u)' /\ i \in found'[u])
    BY <1>4, <1>6
  <1>11. CASE StoreDocument(t)
    <2>1. /\ pc[t] = "lookup" /\ grams[t] = <<>>
          /\ questionIds' = Put(questionIds, Doc(t), found[t])
          /\ documents' = Put(documents, Doc(t),
                             [unique |-> Cardinality(found[t]), entry |-> Line(t),
                              answer |-> 0, passage |-> 0])
          /\ UNCHANGED <<ids, docsOf, maxDoc, found>>
      BY <1>11 DEF StoreDocument, At, idMap
    <2>2. InEntry(t) /\ pc[t] \notin AfterQuestion /\ AskedOf(t)
      BY <1>7, <2>1 DEF InEntry, AfterQuestion, Asked, Asking
    <2> DEFINE D == Doc(t)
    <2>3. D \notin DOMAIN documents
      BY <2>2, FreshDocument
    <2>4. /\ DOMAIN documents' = DOMAIN documents \cup {D}
          /\ DOMAIN questionIds' = DOMAIN questionIds \cup {D}
          /\ questionIds'[D] = found[t]
          /\ documents'[D].entry = Line(t)
          /\ \A d \in DOMAIN documents :
                documents'[d] = documents[d] /\ questionIds'[d] = questionIds[d]
      BY <1>7, <2>1, <2>3 DEF Put, Sets
    <2>6. \A d \in DOMAIN documents : StoredOf(d)'
      BY <1>9, <2>4
    <2>7. /\ D <= maxDoc' /\ OwnGrams(Line(t)) \subseteq DOMAIN ids'
          /\ found[t] = {ids'[g] : g \in OwnGrams(Line(t))}
          /\ \A i \in found[t] : i \in DOMAIN docsOf' /\ D \in docsOf'[i]
      <3>1. Elements(grams[t]) = {}
        BY <2>1 DEF Elements
      <3>2. \A g \in OwnGrams(Line(t)) : g \in DOMAIN ids /\ ids[g] \in found[t]
        BY <2>2, <3>1 DEF AskedOf
      <3>3. \A i \in found[t] :
               /\ \E g \in OwnGrams(Line(t)) : g \in DOMAIN ids /\ ids[g] = i
               /\ i \in DOMAIN docsOf /\ D \in docsOf[i]
        BY <2>2 DEF AskedOf
      <3> QED
        BY <2>1, <2>2, <3>2, <3>3 DEF AskedOf
    <2>8. ASSUME NEW d, d = D PROVE StoredOf(d)'
      <3>1. OwnGrams(documents[d].entry)' = OwnGrams(Line(t))
        BY <2>4, <2>8 DEF OwnGrams, Elements, QuestionGrams, Windows
      <3> QED
        BY <2>4, <2>7, <2>8, <3>1 DEF StoredOf
    <2>9. ASSUME NEW i \in DOMAIN docsOf, NEW d \in docsOf[i] PROVE Under(d, i)'
      <3>1. Under(d, i)
        BY <1>7 DEF Sets
      <3>2. CASE d \in DOMAIN documents /\ i \in questionIds[d]
        BY <2>4, <3>2 DEF Under
      <3>3. CASE \E u \in Threads : pc[u] \in Asking /\ d = Doc(u) /\ i \in found[u]
        <4>1. PICK u \in Threads : pc[u] \in Asking /\ d = Doc(u) /\ i \in found[u]
          BY <3>3
        <4>2. CASE u = t
          BY <2>4, <4>1, <4>2 DEF Under
        <4>3. CASE u # t
          BY <1>10, <4>1, <4>3 DEF Under
        <4> QED
          BY <4>2, <4>3
      <3> QED
        BY <3>1, <3>2, <3>3 DEF Under
    <2>10. \A i \in DOMAIN docsOf : docsOf[i] # {}
      BY <1>7 DEF Sets
    <2>11. DOMAIN questionIds' = DOMAIN documents'
      BY <1>7, <2>4 DEF Sets
    <2>12. \A d \in DOMAIN documents' : StoredOf(d)'
      BY <2>4, <2>6, <2>8
    <2> QED
      BY <2>1, <2>9, <2>10, <2>11, <2>12 DEF Sets
  <1>12. CASE ~StoreDocument(t)
    <2>1. /\ DOMAIN documents' = DOMAIN documents /\ questionIds' = questionIds
          /\ \A d \in DOMAIN documents : documents'[d].entry = documents[d].entry
      BY <1>3, <1>12, EntriesOfDocuments
    <2>2. \A d \in DOMAIN documents' : StoredOf(d)'
      BY <1>9, <2>1
    <2>3. ASSUME NEW i, NEW d, Under(d, i) PROVE Under(d, i)'
      <3>1. CASE d \in DOMAIN documents /\ i \in questionIds[d]
        BY <2>1, <3>1 DEF Under
      <3>2. CASE \E u \in Threads : pc[u] \in Asking /\ d = Doc(u) /\ i \in found[u]
        <4>1. PICK u \in Threads : pc[u] \in Asking /\ d = Doc(u) /\ i \in found[u]
          BY <3>2
        <4>2. CASE u # t
          BY <1>10, <4>1, <4>2 DEF Under
        <4>3. CASE u = t
          <5>1. InEntry(t) /\ pc[t] \in Asking
            BY <4>1, <4>3 DEF InEntry, Asking
          <5>2. Lookup(t) \/ Allocate(t) \/ AddDoc(t)
            BY <1>12, <5>1, StageStep DEF Asking, Fields, IdStep
          <5>3. pc'[t] \in Asking /\ found[t] \subseteq found'[t]
            <6>1. Lookup(t) => pc'[t] \in Asking /\ found' = found
              BY <1>8 DEF Lookup, At, Asking
            <6>2. Allocate(t) => pc'[t] \in Asking /\ found' = found
              BY <1>8 DEF Allocate, Asking
            <6>3. AddDoc(t) => pc'[t] \in Asking /\ found[t] \subseteq found'[t]
              BY <1>8 DEF AddDoc, Asking
            <6> QED
              BY <5>2, <6>1, <6>2, <6>3
          <5>4. Doc(t)' = Doc(t)
            BY <1>1, <5>2 DEF Lookup, Allocate, AddDoc, Doc, Line
          <5> QED
            BY <4>1, <4>3, <5>3, <5>4 DEF Under
        <4> QED
          BY <4>2, <4>3
      <3> QED
        BY <2>3, <3>1, <3>2 DEF Under
    <2>4. ASSUME NEW i \in DOMAIN docsOf'
          PROVE  docsOf'[i] # {} /\ \A d \in docsOf'[i] : Under(d, i)'
      <3>1. CASE docsOf' = docsOf
        BY <1>7, <2>3, <2>4, <3>1 DEF Sets
      <3>2. CASE AddDoc(t)
        <4>1. /\ docsOf' = Put(docsOf, got[t], Get(docsOf, got[t], {}) \cup {Doc(t)})
              /\ found'[t] = found[t] \cup {got[t]} /\ pc'[t] \in Asking /\ Doc(t)' = Doc(t)
          <5>1. AddDoc(t) => pos' = pos /\ file' = file
            BY DEF AddDoc
          <5> QED
            BY <1>1, <1>8, <3>2, <5>1 DEF AddDoc, Asking, Doc, Line
        <4>2. CASE i = got[t]
          <5>1. docsOf'[i] = (IF i \in DOMAIN docsOf THEN docsOf[i] ELSE {}) \cup {Doc(t)}
            BY <4>1, <4>2 DEF Put, Get
          <5>2. ASSUME NEW d, d = Doc(t) PROVE Under(d, i)'
            BY <4>1, <4>2, <5>2 DEF Under
          <5>3. \A d : i \in DOMAIN docsOf /\ d \in docsOf[i] => Under(d, i)'
            BY <1>7, <2>3 DEF Sets
          <5> QED
            BY <5>1, <5>2, <5>3
        <4>3. CASE i # got[t]
          <5>1. i \in DOMAIN docsOf /\ docsOf'[i] = docsOf[i]
            BY <2>4, <4>1, <4>3 DEF Put
          <5> QED
            BY <1>7, <2>3, <5>1 DEF Sets
        <4> QED
          BY <4>2, <4>3
      <3> QED
        BY <1>3, <3>1, <3>2
    <2>5. DOMAIN questionIds' = DOMAIN documents'
      BY <1>7, <2>1 DEF Sets
    <2> QED
      BY <2>2, <2>4, <2>5 DEF Sets
  <1> QED
    BY <1>11, <1>12

-----------------------------------------------------------------------------
(* What the maps of frequencies hold.  A frequency is the number of the    *)
(* members of a set; the set is of the documents with the id in the field, *)
(* and for a token of the fields of documents that contain it, a question  *)
(* that is being read included.                                            *)
Tally(freq, x, A) == IsFiniteSet(A) /\ IF x \in DOMAIN freq THEN freq[x] = Cardinality(A) ELSE A = {}

WithId(f, i) == {d \in DOMAIN fieldIds[f] : i \in fieldIds[f][d]}
Tracked ==
    /\ DOMAIN fieldIds = Fields /\ DOMAIN fieldFreq = Fields /\ DOMAIN fieldTokens = Fields
    /\ \A f \in Fields :
          /\ \A d \in DOMAIN fieldTokens[f] : \E c \in AllCandidates : d = DocAt(c) /\ Done(c, Past(f))
          /\ DOMAIN fieldIds[f] \subseteq DOMAIN fieldTokens[f]
FieldTallies == \A f \in Fields : \A i : Tally(fieldFreq[f], i, WithId(f, i))

AllUses(x) ==
    Uses(x) \cup {<<"question", Doc(t)>> :
                    t \in {u \in Threads : pc[u] \in Asking /\ x \in Elements(Line(u).question)}}
TokenTallies == \A x : Tally(tokenFreq, x, AllUses(x))
FrequenciesInv == Tracked /\ FieldTallies /\ TokenTallies

(* fetch_add on the counters of a set of keys: each counts one more. *)
LEMMA OneMore ==
    ASSUME NEW freq, NEW S, NEW x, NEW A, Tally(freq, x, A), NEW p, p \notin A,
           NEW B, B = IF x \in S THEN A \cup {p} ELSE A
    PROVE  Tally(Bump(freq, S), x, B)
  <1>1. DOMAIN Bump(freq, S) = DOMAIN freq \cup S
    BY DEF Bump
  <1>2. CASE x \in S
    <2>1. Bump(freq, S)[x] = (IF x \in DOMAIN freq THEN freq[x] ELSE 0) + 1
      BY <1>2 DEF Bump, Get
    <2>2. IsFiniteSet(A \cup {p}) /\ Cardinality(A \cup {p}) = Cardinality(A) + 1
      BY FS_AddElement DEF Tally
    <2>3. Cardinality(A) = IF x \in DOMAIN freq THEN freq[x] ELSE 0
      BY FS_EmptySet DEF Tally
    <2> QED
      BY <1>1, <1>2, <2>1, <2>2, <2>3 DEF Tally
  <1>3. CASE x \notin S
    <2>1. x \in DOMAIN freq => Bump(freq, S)[x] = freq[x]
      BY <1>3 DEF Bump
    <2> QED
      BY <1>1, <1>3, <2>1 DEF Tally
  <1> QED
    BY <1>2, <1>3

(* Which actions write the maps of the fields and of the tokens.           *)
LEMMA FieldMapsStep ==
    ASSUME NEW t \in Threads, Step(t)
    PROVE  /\ UNCHANGED fields \/ \E f \in Fields : StoreField(t, f)
           /\ \/ tokenFreq' = tokenFreq
              \/ BeginQuestion(t) /\ Line(t).question # <<>>
              \/ \E f \in Fields : StoreField(t, f)
  <1>1. CASE Take(t) \/ Comment(t) \/ Broken(t) \/ Filter(t) \/ Duplicate(t) \/ Close(t) \/ Accept(t)
    <2>1. UNCHANGED builder
      BY <1>1 DEF Take, Comment, Broken, Filter, Duplicate, Close, Accept
    <2> QED
      BY <2>1 DEF builder
  <1>2. CASE BeginQuestion(t)
    BY <1>2 DEF BeginQuestion
  <1>3. CASE Lookup(t) \/ Allocate(t) \/ AddDoc(t) \/ StoreDocument(t)
    BY <1>3 DEF Lookup, Allocate, AddDoc, StoreDocument, builder
  <1>4. ASSUME NEW f \in Fields, SkipField(t, f) \/ BeginField(t, f) \/ FieldId(t, f)
        PROVE  UNCHANGED fields /\ tokenFreq' = tokenFreq
    BY <1>4 DEF SkipField, BeginField, FieldId, builder
  <1> QED
    BY <1>1, <1>2, <1>3, <1>4 DEF Step

LEMMA FreshField ==
    ASSUME IdInv, Alone, DistinctDocs, Tracked, NEW t \in Threads, NEW f \in Fields, StoreField(t, f)
    PROVE  /\ Doc(t) \notin DOMAIN fieldTokens[f] /\ Doc(t) \notin DOMAIN fieldIds[f]
           /\ InEntry(t) /\ pc[t] \notin Past(f)
  <1>1. InEntry(t) /\ pc[t] \notin Past(f) /\ Past(f) \in SUBSET EntrySteps
    BY DEF StoreField, At, InEntry, Past, Fields, IdStep, EntrySteps, AfterQuestion
  <1>2. ASSUME Doc(t) \in DOMAIN fieldTokens[f] PROVE FALSE
    <2>1. PICK c \in AllCandidates : Doc(t) = DocAt(c) /\ Done(c, Past(f))
      BY <1>2 DEF Tracked
    <2>2. Cur(t) \in AllCandidates /\ DocAt(Cur(t)) = Doc(t)
      BY <1>1, CurFacts
    <2>3. c = Cur(t)
      BY <2>1, <2>2 DEF DistinctDocs, DocAt
    <2>4. Working(t)
      BY <1>1 DEF InEntry, Working
    <2> QED
      BY <1>1, <2>1, <2>3, <2>4, DoneCur
  <1> QED
    BY <1>1, <1>2 DEF Tracked

(* A candidate past a field stays past it. *)
LEMMA PastStep ==
    ASSUME IdInv, Alone, NEW t \in Threads, Step(t), NEW f \in Fields, NEW c \in AllCandidates,
           Done(c, Past(f))
    PROVE  Done(c, Past(f))'
  <1>0. Past(f) \in SUBSET EntrySteps /\ Past(f)' = Past(f)
    BY DEF Past, EntrySteps, AfterQuestion
  <1>1. Moves(t)
    BY StepMoves
  <1>2. PICK P \in SUBSET EntrySteps : P = Past(f)
    BY <1>0
  <1>3. Done(c, P)' <=> IF Working(t) /\ c = Cur(t) THEN pos'[t] # pos[t] \/ pc'[t] \in P
                        ELSE Done(c, P)
    BY <1>1, DoneStep
  <1>4. ASSUME Working(t), c = Cur(t) PROVE pos'[t] # pos[t] \/ pc'[t] \in P
    <2>1. pc[t] \in P
      BY <1>2, <1>4, DoneCur
    <2>2. pc[t] \in {"passage", "passage_ids"} /\ P = {"passage", "passage_ids"} /\ InEntry(t)
      BY <1>2, <2>1 DEF Past, InEntry
    <2>3. pos[t] \in Nat
      BY DEF IdInv, Shapes
    <2> QED
      BY <2>2, <2>3, StageStep DEF Asking, Fields, IdStep
  <1> QED
    BY <1>2, <1>3, <1>4

LEMMA TrackedStep ==
    ASSUME IdInv, Alone, Tracked, NEW t \in Threads, Step(t)
    PROVE  Tracked'
  <1>1. input' = input /\ Moves(t)
    BY StepMoves DEF Moves
  <1>2. AllCandidates' = AllCandidates /\ \A c : DocAt(c)' = DocAt(c)
    BY <1>1, SameInput
  <1>3. ASSUME NEW g \in Fields, NEW d \in DOMAIN fieldTokens[g]
        PROVE  \E c \in AllCandidates : d = DocAt(c) /\ Done(c, Past(g))'
    <2>1. PICK c \in AllCandidates : d = DocAt(c) /\ Done(c, Past(g))
      BY <1>3 DEF Tracked
    <2> QED
      BY <2>1, PastStep
  <1>4. CASE UNCHANGED fields
    BY <1>2, <1>3, <1>4 DEF Tracked, fields
  <1>5. ASSUME NEW f \in Fields, StoreField(t, f) PROVE Tracked'
    <2>1. InEntry(t)
      BY <1>5 DEF StoreField, At, InEntry, Fields, IdStep
    <2>2. PICK c0 \in AllCandidates : c0 = Cur(t) /\ DocAt(c0) = Doc(t)
      BY <2>1, CurFacts
    <2>3. Done(c0, Past(f))'
      <3>1. PICK P \in SUBSET EntrySteps : P = Past(f)
        BY DEF Past, EntrySteps, AfterQuestion
      <3>2. pos'[t] # pos[t] \/ pc'[t] \in P
        <4>1. pos \in [Threads -> Nat] /\ pc \in [Threads -> Steps]
          BY DEF IdInv, Shapes
        <4> QED
          BY <1>5, <3>1, <4>1 DEF StoreField, After, NextLine, Past, Fields
      <3>3. Working(t)
        BY <2>1 DEF InEntry, Working
      <3>4. Done(c0, P)'
        BY <1>1, <2>2, <3>2, <3>3, DoneStep
      <3> QED
        BY <3>1, <3>4 DEF Past
    <2>4. /\ fieldIds' = IF found[t] = {} THEN fieldIds
                         ELSE [fieldIds EXCEPT ![f] = Put(@, Doc(t), found[t])]
          /\ fieldFreq' = [fieldFreq EXCEPT ![f] = Bump(@, found[t])]
          /\ fieldTokens' = [fieldTokens EXCEPT ![f] = Put(@, Doc(t), Line(t)[f])]
      BY <1>5 DEF StoreField
    <2>5. DOMAIN fieldIds' = Fields /\ DOMAIN fieldFreq' = Fields /\ DOMAIN fieldTokens' = Fields
      BY <2>4 DEF Tracked
    <2>6. \A g \in Fields : g # f => fieldTokens'[g] = fieldTokens[g] /\ fieldIds'[g] = fieldIds[g]
      BY <2>4 DEF Tracked
    <2>7. DOMAIN fieldTokens'[f] = DOMAIN fieldTokens[f] \cup {Doc(t)}
      BY <2>4 DEF Tracked, Put
    <2>8. DOMAIN fieldIds'[f] \subseteq DOMAIN fieldIds[f] \cup {Doc(t)}
      BY <2>4 DEF Tracked, Put
    <2>9. ASSUME NEW g \in Fields, NEW d \in DOMAIN fieldTokens'[g]
          PROVE  \E c \in AllCandidates : d = DocAt(c) /\ Done(c, Past(g))'
      <3>1. CASE d \in DOMAIN fieldTokens[g]
        BY <1>3, <3>1
      <3>2. CASE d \notin DOMAIN fieldTokens[g]
        <4>1. g = f /\ d = Doc(t)
          BY <2>6, <2>7, <2>9, <3>2
        <4> QED
          BY <2>2, <2>3, <4>1
      <3> QED
        BY <3>1, <3>2
    <2>10. \A g \in Fields : DOMAIN fieldIds'[g] \subseteq DOMAIN fieldTokens'[g]
      BY <2>6, <2>7, <2>8 DEF Tracked
    <2> QED
      BY <1>2, <2>5, <2>9, <2>10 DEF Tracked
  <1> QED
    BY <1>4, <1>5, FieldMapsStep

LEMMA FieldTalliesStep ==
    ASSUME IdInv, Alone, DistinctDocs, Tracked, FieldTallies, NEW t \in Threads, Step(t)
    PROVE  FieldTallies'
  <1>1. CASE UNCHANGED fields
    BY <1>1 DEF fields, FieldTallies, WithId, Tally
  <1>2. ASSUME NEW f \in Fields, StoreField(t, f) PROVE FieldTallies'
    <2>1. /\ fieldIds' = IF found[t] = {} THEN fieldIds
                         ELSE [fieldIds EXCEPT ![f] = Put(@, Doc(t), found[t])]
          /\ fieldFreq' = [fieldFreq EXCEPT ![f] = Bump(@, found[t])]
      BY <1>2 DEF StoreField
    <2>2. Doc(t) \notin DOMAIN fieldIds[f]
      BY <1>2, FreshField
    <2> SUFFICES ASSUME NEW g \in Fields, NEW i PROVE Tally(fieldFreq[g], i, WithId(g, i))'
      BY DEF FieldTallies
    <2>3. CASE g # f
      <3>1. fieldIds'[g] = fieldIds[g] /\ fieldFreq'[g] = fieldFreq[g]
        BY <2>1, <2>3 DEF Tracked
      <3> QED
        BY <3>1 DEF FieldTallies, WithId, Tally
    <2>4. CASE g = f
      <3> DEFINE A == WithId(f, i)
                 B == IF i \in found[t] THEN A \cup {Doc(t)} ELSE A
      <3>1. WithId(g, i)' = B
        <4>1. CASE found[t] = {}
          BY <2>1, <2>4, <4>1 DEF WithId
        <4>2. CASE found[t] # {}
          <5>1. fieldIds'[f] = Put(fieldIds[f], Doc(t), found[t])
            BY <2>1, <4>2 DEF Tracked
          <5>2. /\ DOMAIN fieldIds'[f] = DOMAIN fieldIds[f] \cup {Doc(t)}
                /\ fieldIds'[f][Doc(t)] = found[t]
                /\ \A d \in DOMAIN fieldIds[f] : fieldIds'[f][d] = fieldIds[f][d]
            BY <2>2, <5>1 DEF Put
          <5>3. \A d : d \in WithId(g, i)' <=> d \in DOMAIN fieldIds'[f] /\ i \in fieldIds'[f][d]
            BY <2>4 DEF WithId
          <5>4. \A d : d \in A <=> d \in DOMAIN fieldIds[f] /\ i \in fieldIds[f][d]
            BY DEF WithId
          <5> HIDE DEF A
          <5>5. \A d : d \in WithId(g, i)' <=> d \in B
            BY <2>2, <5>2, <5>3, <5>4
          <5> QED
            BY <5>5
        <4> QED
          BY <4>1, <4>2
      <3>2. fieldFreq'[g] = Bump(fieldFreq[f], found[t])
        BY <2>1, <2>4 DEF Tracked
      <3>3. Tally(fieldFreq[f], i, A) /\ Doc(t) \notin A
        BY <2>2 DEF FieldTallies, WithId
      <3> HIDE DEF A
      <3>4. Tally(Bump(fieldFreq[f], found[t]), i, B)
        BY <3>3, OneMore
      <3> HIDE DEF B
      <3> QED
        BY <3>1, <3>2, <3>4 DEF Tally
    <2> QED
      BY <2>3, <2>4
  <1> QED
    BY <1>1, <1>2, FieldMapsStep

(* Which threads read a question: one more when it begins, one less when   *)
(* the document is stored.                                                 *)
LEMMA AskingStep ==
    ASSUME IdInv, NEW t \in Threads, Step(t)
    PROVE  /\ pc'[t] \in Asking <=>
                 \/ pc[t] \in Asking /\ ~StoreDocument(t)
                 \/ BeginQuestion(t) /\ Line(t).question # <<>>
           /\ pc'[t] \in Asking => Line(t)' = Line(t) /\ Doc(t)' = Doc(t)
           /\ \A u \in Threads \ {t} : pc'[u] = pc[u] /\ Line(u)' = Line(u) /\ Doc(u)' = Doc(u)
           /\ StoreDocument(t) => pc[t] \in Asking
           /\ BeginQuestion(t) => pc[t] = "question"
  <1>0. pc \in [Threads -> Steps]
    BY DEF IdInv, Shapes
  <1>1. Moves(t) /\ input' = input
    BY StepMoves DEF Moves
  <1>2. \A u \in Threads \ {t} : pc'[u] = pc[u] /\ Line(u)' = Line(u) /\ Doc(u)' = Doc(u)
    BY <1>1 DEF Moves, Line, Doc
  <1>3. (StoreDocument(t) => pc[t] \in Asking) /\ (BeginQuestion(t) => pc[t] = "question")
    BY DEF StoreDocument, BeginQuestion, At, Asking
  <1>4. pc'[t] \in Asking => Line(t)' = Line(t) /\ Doc(t)' = Doc(t)
    <2>1. pc'[t] \in Asking => file'[t] = file[t] /\ pos'[t] = pos[t]
      BY <1>1 DEF Moves, Starts, Leaves, GoesOn, Within, Asking, EntrySteps, AfterQuestion
    <2> QED
      BY <1>1, <2>1 DEF Line, Doc
  <1>5. CASE InEntry(t)
    <2>1. CASE BeginQuestion(t)
      <3>1. pc'[t] = IF Line(t).question = <<>> THEN "answer" ELSE "lookup"
        BY <1>0, <2>1 DEF BeginQuestion
      <3> QED
        BY <1>2, <1>3, <1>4, <2>1, <3>1 DEF Asking
    <2>2. CASE StoreDocument(t)
      <3>1. pc'[t] = "answer" /\ pc[t] = "lookup"
        BY <1>0, <2>2 DEF StoreDocument, At
      <3> QED
        BY <1>2, <1>3, <1>4, <2>2, <3>1 DEF Asking
    <2>3. CASE ~BeginQuestion(t) /\ ~StoreDocument(t)
      <3>1. pc'[t] \in Asking <=> pc[t] \in Asking
        BY <1>5, <2>3, StageStep DEF Asking, Fields, IdStep
      <3> QED
        BY <1>2, <1>3, <1>4, <2>3, <3>1
    <2> QED
      BY <2>1, <2>2, <2>3
  <1>6. CASE ~InEntry(t)
    <2>1. pc[t] \notin Asking /\ ~StoreDocument(t) /\ ~BeginQuestion(t)
      BY <1>3, <1>6 DEF InEntry, Asking
    <2>2. pc'[t] \notin Asking
      <3>1. CASE pc[t] = "line"
        <4>1. Comment(t) \/ Filter(t) \/ Duplicate(t) => pc'[t] = "line"
          BY <1>0 DEF Comment, Filter, Duplicate, NextLine
        <4>2. Broken(t) \/ Close(t) => pc'[t] = "idle"
          BY <1>0 DEF Broken, Close
        <4>3. Accept(t) => pc'[t] \in {"line", "question"}
          BY <1>0 DEF Accept, NextLine
        <4> QED
          BY <3>1, <4>1, <4>2, <4>3, LineSteps DEF Asking
      <3>2. CASE pc[t] = "idle"
        BY <1>1, <3>2 DEF Moves, Starts, Leaves, GoesOn, Within, Asking, EntrySteps, AfterQuestion
      <3> QED
        BY <1>6, <3>1, <3>2 DEF InEntry
    <2> QED
      BY <1>2, <1>3, <1>4, <2>1, <2>2
  <1> QED
    BY <1>5, <1>6

(* The uses of a token, one by one. *)
InDocument(p, x) ==
    \E d \in DOMAIN documents : p = <<"question", d>> /\ x \in Elements(documents[d].entry.question)
InField(p, x) ==
    \E f \in Fields : \E d \in DOMAIN fieldTokens[f] :
        p = <<f, d>> /\ x \in Elements(fieldTokens[f][d])
InReading(p, x) ==
    \E t \in Threads :
        pc[t] \in Asking /\ p = <<"question", Doc(t)>> /\ x \in Elements(Line(t).question)

LEMMA UsesAre ==
    ASSUME NEW p, NEW x
    PROVE  /\ p \in AllUses(x) <=> InDocument(p, x) \/ InField(p, x) \/ InReading(p, x)
           /\ p \in AllUses(x)' <=> InDocument(p, x)' \/ InField(p, x)' \/ InReading(p, x)'
  <1>1. p \in AllUses(x) <=> InDocument(p, x) \/ InField(p, x) \/ InReading(p, x)
    <2>1. p \in Uses(x) <=> InDocument(p, x) \/ InField(p, x)
      BY DEF Uses, InDocument, InField
    <2>2. p \in AllUses(x) <=> p \in Uses(x) \/ InReading(p, x)
      BY DEF AllUses, InReading
    <2> QED
      BY <2>1, <2>2
  <1>2. p \in AllUses(x)' <=> InDocument(p, x)' \/ InField(p, x)' \/ InReading(p, x)'
    <2>1. p \in Uses(x)' <=> InDocument(p, x)' \/ InField(p, x)'
      BY DEF Uses, InDocument, InField
    <2>2. p \in AllUses(x)' <=> p \in Uses(x)' \/ InReading(p, x)'
      BY DEF AllUses, InReading
    <2> QED
      BY <2>1, <2>2
  <1> QED
    BY <1>1, <1>2

LEMMA TokenTalliesStep ==
    ASSUME IdInv, Alone, Marks, DistinctDocs, Docs, Tracked, TokenTallies,
           NEW t \in Threads, Step(t)
    PROVE  TokenTallies'
  <1> SUFFICES ASSUME NEW x PROVE Tally(tokenFreq, x, AllUses(x))'
    BY DEF TokenTallies
  <1>0. Tally(tokenFreq, x, AllUses(x))
    BY DEF TokenTallies
  <1>1. /\ pc'[t] \in Asking <=>
              \/ pc[t] \in Asking /\ ~StoreDocument(t)
              \/ BeginQuestion(t) /\ Line(t).question # <<>>
        /\ pc'[t] \in Asking => Line(t)' = Line(t) /\ Doc(t)' = Doc(t)
        /\ \A u \in Threads \ {t} : pc'[u] = pc[u] /\ Line(u)' = Line(u) /\ Doc(u)' = Doc(u)
        /\ StoreDocument(t) => pc[t] \in Asking
        /\ BeginQuestion(t) => pc[t] = "question"
    BY AskingStep
  <1>2. ~StoreDocument(t) =>
           /\ DOMAIN documents' = DOMAIN documents
           /\ \A d \in DOMAIN documents : documents'[d].entry = documents[d].entry
    BY EntriesOfDocuments
  <1>3. ~StoreDocument(t) => \A p : InDocument(p, x)' <=> InDocument(p, x)
    BY <1>2 DEF InDocument, Elements
  <1>4. UNCHANGED fields => \A p : InField(p, x)' <=> InField(p, x)
    BY DEF fields, InField, Elements
  <1>5. ASSUME NEW p
        PROVE  InReading(p, x)' <=>
                  \/ \E u \in Threads \ {t} :
                        pc[u] \in Asking /\ p = <<"question", Doc(u)>> /\ x \in Elements(Line(u).question)
                  \/ /\ pc'[t] \in Asking
                     /\ p = <<"question", Doc(t)>> /\ x \in Elements(Line(t).question)
    <2>1. \A u \in Threads \ {t} :
             (pc'[u] \in Asking /\ p = <<"question", Doc(u)'>> /\ x \in Elements(Line(u).question)')
               <=> (pc[u] \in Asking /\ p = <<"question", Doc(u)>> /\ x \in Elements(Line(u).question))
      BY <1>1 DEF Elements
    <2>2. pc'[t] \in Asking =>
             (p = <<"question", Doc(t)'>> /\ x \in Elements(Line(t).question)'
                <=> p = <<"question", Doc(t)>> /\ x \in Elements(Line(t).question))
      BY <1>1 DEF Elements
    <2> QED
      BY <2>1, <2>2 DEF InReading
  <1>6. ASSUME NEW p
        PROVE  InReading(p, x) <=>
                  \/ \E u \in Threads \ {t} :
                        pc[u] \in Asking /\ p = <<"question", Doc(u)>> /\ x \in Elements(Line(u).question)
                  \/ /\ pc[t] \in Asking
                     /\ p = <<"question", Doc(t)>> /\ x \in Elements(Line(t).question)
    BY DEF InReading
  <1>7. CASE BeginQuestion(t) /\ Line(t).question # <<>>
    <2> DEFINE q == <<"question", Doc(t)>>
               A == AllUses(x)
               S == Elements(Line(t).question)
               B == IF x \in S THEN A \cup {q} ELSE A
    <2>1. pc[t] = "question" /\ InEntry(t) /\ pc[t] \notin AfterQuestion /\ pc[t] \notin Asking
          /\ pc'[t] \in Asking /\ ~StoreDocument(t)
      BY <1>1, <1>7 DEF InEntry, AfterQuestion, Asking
    <2>2. tokenFreq' = Bump(tokenFreq, S) /\ UNCHANGED fields
      BY <1>7 DEF BeginQuestion
    <2>3. ~InDocument(q, x)
      BY <2>1, FreshDocument DEF InDocument
    <2>4. ~InField(q, x)
      BY DEF InField, Fields
    <2>5. ~InReading(q, x)
      <3> SUFFICES ASSUME NEW u \in Threads, pc[u] \in Asking, Doc(u) = Doc(t) PROVE FALSE
        BY DEF InReading
      <3>1. InEntry(u)
        BY DEF InEntry, Asking
      <3>2. u = t
        BY <2>1, <3>1, OtherDocument
      <3> QED
        BY <2>1, <3>2
    <2>6. q \notin A
      BY <2>3, <2>4, <2>5, UsesAre
    <2>7. \A p : p \in AllUses(x)' <=> p \in B
      <3> SUFFICES ASSUME NEW p PROVE p \in AllUses(x)' <=> p \in A \/ (x \in S /\ p = q)
        OBVIOUS
      <3>1. p \in A <=> InDocument(p, x) \/ InField(p, x) \/ InReading(p, x)
        BY UsesAre
      <3>2. p \in AllUses(x)' <=> InDocument(p, x)' \/ InField(p, x)' \/ InReading(p, x)'
        BY UsesAre
      <3>3. InReading(p, x)' <=> InReading(p, x) \/ (x \in S /\ p = q)
        BY <1>5, <1>6, <2>1
      <3> QED
        BY <1>3, <1>4, <2>1, <2>2, <3>1, <3>2, <3>3
    <2> HIDE DEF A, S, q
    <2>8. Tally(Bump(tokenFreq, S), x, B)
      BY <1>0, <2>6, OneMore DEF A
    <2>9. AllUses(x)' = B
      <3> HIDE DEF B
      <3> QED
        BY <2>7
    <2> HIDE DEF B
    <2> QED
      BY <2>2, <2>8, <2>9 DEF Tally
  <1>8. ASSUME NEW f \in Fields, StoreField(t, f) PROVE Tally(tokenFreq, x, AllUses(x))'
    <2> DEFINE q == <<f, Doc(t)>>
               A == AllUses(x)
               S == Elements(Line(t)[f])
               B == IF x \in S THEN A \cup {q} ELSE A
    <2>1. Doc(t) \notin DOMAIN fieldTokens[f] /\ InEntry(t)
      BY <1>8, FreshField
    <2>2. pc[t] \notin Asking /\ ~BeginQuestion(t) /\ ~StoreDocument(t) /\ pc'[t] \notin Asking
      <3>1. pc[t] \notin Asking /\ pc[t] # "question"
        BY <1>8 DEF StoreField, At, Asking, IdStep, Fields
      <3> QED
        BY <1>1, <3>1
    <2>3. /\ tokenFreq' = Bump(tokenFreq, S)
          /\ fieldTokens' = [fieldTokens EXCEPT ![f] = Put(@, Doc(t), Line(t)[f])]
      BY <1>8 DEF StoreField
    <2>4. /\ \A g \in Fields : g # f => fieldTokens'[g] = fieldTokens[g]
          /\ DOMAIN fieldTokens'[f] = DOMAIN fieldTokens[f] \cup {Doc(t)}
          /\ fieldTokens'[f][Doc(t)] = Line(t)[f]
          /\ \A d \in DOMAIN fieldTokens[f] : fieldTokens'[f][d] = fieldTokens[f][d]
      BY <2>1, <2>3 DEF Put, Tracked
    <2>5. q \notin A
      <3>1. ~InDocument(q, x) /\ ~InReading(q, x)
        BY DEF InDocument, InReading, Fields
      <3>2. ~InField(q, x)
        BY <2>1 DEF InField
      <3> QED
        BY <3>1, <3>2, UsesAre
    <2>6. \A p : p \in AllUses(x)' <=> p \in B
      <3> SUFFICES ASSUME NEW p PROVE p \in AllUses(x)' <=> p \in A \/ (x \in S /\ p = q)
        OBVIOUS
      <3>1. p \in A <=> InDocument(p, x) \/ InField(p, x) \/ InReading(p, x)
        BY UsesAre
      <3>2. p \in AllUses(x)' <=> InDocument(p, x)' \/ InField(p, x)' \/ InReading(p, x)'
        BY UsesAre
      <3>3. InReading(p, x)' <=> InReading(p, x)
        BY <1>5, <1>6, <2>2
      <3>4. InField(p, x)' <=> InField(p, x) \/ (x \in S /\ p = q)
        <4>1. InField(p, x)' <=>
                 \E g \in Fields : \E d \in DOMAIN fieldTokens'[g] :
                    p = <<g, d>> /\ x \in Elements(fieldTokens'[g][d])
          BY DEF InField, Elements
        <4>2. ASSUME NEW g \in Fields, NEW d \in DOMAIN fieldTokens'[g],
                     p = <<g, d>>, x \in Elements(fieldTokens'[g][d])
              PROVE  InField(p, x) \/ (x \in S /\ p = q)
          <5>1. CASE g = f /\ d = Doc(t)
            BY <2>4, <4>2, <5>1
          <5>2. CASE ~(g = f /\ d = Doc(t))
            <6>1. d \in DOMAIN fieldTokens[g] /\ fieldTokens'[g][d] = fieldTokens[g][d]
              BY <2>4, <5>2
            <6> QED
              BY <4>2, <6>1 DEF InField
          <5> QED
            BY <5>1, <5>2
        <4>3. ASSUME InField(p, x) PROVE InField(p, x)'
          <5>1. PICK g \in Fields : \E d \in DOMAIN fieldTokens[g] :
                   p = <<g, d>> /\ x \in Elements(fieldTokens[g][d])
            BY <4>3 DEF InField
          <5>2. PICK d \in DOMAIN fieldTokens[g] :
                   p = <<g, d>> /\ x \in Elements(fieldTokens[g][d])
            BY <5>1
          <5>3. d \in DOMAIN fieldTokens'[g] /\ fieldTokens'[g][d] = fieldTokens[g][d]
            BY <2>4
          <5> QED
            BY <4>1, <5>2, <5>3
        <4>4. ASSUME x \in S, p = q PROVE InField(p, x)'
          <5>1. Doc(t) \in DOMAIN fieldTokens'[f] /\ x \in Elements(fieldTokens'[f][Doc(t)])
            BY <2>4, <4>4
          <5> QED
            BY <4>1, <4>4, <5>1
        <4> HIDE DEF S, q
        <4> QED
          BY <4>1, <4>2, <4>3, <4>4
      <3> QED
        BY <1>3, <2>2, <3>1, <3>2, <3>3, <3>4
    <2> HIDE DEF A, S, q
    <2>7. Tally(Bump(tokenFreq, S), x, B)
      BY <1>0, <2>5, OneMore DEF A
    <2>8. AllUses(x)' = B
      <3> HIDE DEF B
      <3> QED
        BY <2>6
    <2> HIDE DEF B
    <2> QED
      BY <2>3, <2>7, <2>8 DEF Tally
  <1>9. CASE /\ ~(BeginQuestion(t) /\ Line(t).question # <<>>)
             /\ ~\E f \in Fields : StoreField(t, f)
    <2>1. tokenFreq' = tokenFreq /\ UNCHANGED fields
      BY <1>9, FieldMapsStep
    <2>2. \A p : p \in AllUses(x)' <=> p \in AllUses(x)
      <3> SUFFICES ASSUME NEW p PROVE p \in AllUses(x)' <=> p \in AllUses(x)
        OBVIOUS
      <3>1. p \in AllUses(x) <=> InDocument(p, x) \/ InField(p, x) \/ InReading(p, x)
        BY UsesAre
      <3>2. p \in AllUses(x)' <=> InDocument(p, x)' \/ InField(p, x)' \/ InReading(p, x)'
        BY UsesAre
      <3>3. InField(p, x)' <=> InField(p, x)
        BY <1>4, <2>1
      <3>4. CASE ~StoreDocument(t)
        <4>1. InReading(p, x)' <=> InReading(p, x)
          BY <1>1, <1>5, <1>6, <1>9, <3>4
        <4> QED
          BY <1>3, <3>1, <3>2, <3>3, <3>4, <4>1
      <3>5. CASE StoreDocument(t)
        <4>1. pc[t] = "lookup" /\ pc[t] \in Asking /\ pc'[t] \notin Asking
          BY <1>1, <3>5 DEF StoreDocument, BeginQuestion, At
        <4>2. InEntry(t) /\ pc[t] \notin AfterQuestion
          BY <4>1 DEF InEntry, AfterQuestion
        <4>3. Doc(t) \notin DOMAIN documents
          BY <4>2, FreshDocument
        <4>4. documents' = Put(documents, Doc(t),
                              [unique |-> Cardinality(found[t]), entry |-> Line(t),
                               answer |-> 0, passage |-> 0])
          BY <3>5 DEF StoreDocument
        <4>5. /\ DOMAIN documents' = DOMAIN documents \cup {Doc(t)}
              /\ documents'[Doc(t)].entry = Line(t)
              /\ \A d \in DOMAIN documents : documents'[d] = documents[d]
          BY <4>3, <4>4 DEF Put
        <4>6. InDocument(p, x)' <=> InDocument(p, x)
                                      \/ (p = <<"question", Doc(t)>> /\ x \in Elements(Line(t).question))
          <5>1. InDocument(p, x)' <=>
                   \E d \in DOMAIN documents' :
                      p = <<"question", d>> /\ x \in Elements(documents'[d].entry.question)
            BY DEF InDocument, Elements
          <5> QED
            BY <4>5, <5>1 DEF InDocument
        <4>7. InReading(p, x) <=> InReading(p, x)'
                                      \/ (p = <<"question", Doc(t)>> /\ x \in Elements(Line(t).question))
          BY <1>5, <1>6, <4>1
        <4> QED
          BY <3>1, <3>2, <3>3, <4>6, <4>7
      <3> QED
        BY <3>4, <3>5
    <2>3. AllUses(x)' = AllUses(x)
      BY <2>2
    <2> QED
      BY <1>0, <2>1, <2>3 DEF Tally
  <1> QED
    BY <1>7, <1>8, <1>9

-----------------------------------------------------------------------------
(* The invariant of the index.                                             *)
IndexInv ==
    /\ EntriesInv /\ Kinds /\ Asked
    /\ DistinctDocs => Sets /\ FrequenciesInv

LEMMA IndexInit == Init => IndexInv
  <1> SUFFICES ASSUME Init PROVE IndexInv
    OBVIOUS
  <1>1. EntriesInv
    BY EntriesInit
  <1>2. /\ pc = [t \in Threads |-> "idle"]
        /\ got = [t \in Threads |-> 0] /\ found = [t \in Threads |-> {}]
        /\ DOMAIN docsOf = {} /\ DOMAIN questionIds = {} /\ DOMAIN documents = {}
        /\ DOMAIN tokenFreq = {} /\ maxDoc = 0
    BY DEF Init, Empty
  <1>3. /\ fieldIds = [f \in Fields |-> Empty]
        /\ fieldFreq = [f \in Fields |-> Empty]
        /\ fieldTokens = [f \in Fields |-> Empty]
    BY DEF Init
  <1>4. DOMAIN Empty = {}
    BY DEF Empty
  <1>5. Kinds /\ Asked
    BY <1>2, WidthAssumption DEF Kinds, Asked, Asking
  <1>6. Sets
    BY <1>2 DEF Sets
  <1>7. Tracked
    BY <1>3, <1>4 DEF Tracked
  <1>8. FieldTallies
    <2>1. \A f \in Fields : \A i : WithId(f, i) = {}
      BY <1>3, <1>4 DEF WithId
    <2> QED
      BY <1>3, <1>4, <2>1, FS_EmptySet DEF FieldTallies, Tally
  <1>9. TokenTallies
    <2>1. \A x : AllUses(x) = {}
      <3> SUFFICES ASSUME NEW x, NEW p, p \in AllUses(x) PROVE FALSE
        OBVIOUS
      <3>1. InDocument(p, x) \/ InField(p, x) \/ InReading(p, x)
        BY UsesAre
      <3>2. ~InField(p, x)
        BY <1>3, <1>4 DEF InField
      <3> QED
        BY <1>2, <3>1, <3>2 DEF InDocument, InReading, Asking
    <2> QED
      BY <1>2, <2>1, FS_EmptySet DEF TokenTallies, Tally
  <1> QED
    BY <1>1, <1>5, <1>6, <1>7, <1>8, <1>9 DEF IndexInv, FrequenciesInv

(* The steps of the caller read the maps and change none of them. *)
LEMMA MapsRest ==
    ASSUME IdInv, Alone, List \/ Assemble \/ UNCHANGED vars
    PROVE  /\ Kinds => Kinds'
           /\ Asked => Asked'
           /\ Sets => Sets'
           /\ FrequenciesInv => FrequenciesInv'
  <1>1. /\ UNCHANGED <<input, pc, file, pos, grams, got, found>>
        /\ UNCHANGED <<ids, docsOf, questionIds, documents, tokenFreq, maxDoc>>
        /\ UNCHANGED <<fieldIds, fieldFreq, fieldTokens>>
    BY DEF List, Assemble, vars, local, idMap, question, fields
  <1>2. \A t : Line(t)' = Line(t) /\ Doc(t)' = Doc(t)
    BY <1>1 DEF Line, Doc
  <1>3. Kinds => Kinds'
    BY <1>1 DEF Kinds
  <1>4. Asked => Asked'
    <2>1. \A t : OwnGrams(Line(t))' = OwnGrams(Line(t))
      BY <1>2 DEF OwnGrams, QuestionGrams, Windows, Elements
    <2>2. \A t : Elements(grams[t])' = Elements(grams[t])
      BY <1>1 DEF Elements
    <2>3. \A t : AskedOf(t) => AskedOf(t)'
      BY <1>1, <1>2, <2>1, <2>2 DEF AskedOf
    <2> QED
      BY <1>1, <2>3 DEF Asked
  <1>5. Sets => Sets'
    BY <1>1, <1>2 DEF Sets, StoredOf, Under, OwnGrams, QuestionGrams, Windows, Elements
  <1>6. Tracked => Tracked'
    <2>1. /\ AllCandidates' = AllCandidates
          /\ \A c : EntryAt(c)' = EntryAt(c) /\ DocAt(c)' = DocAt(c)
      BY <1>1, SameInput
    <2>2. \A f \in Fields : Past(f) \in SUBSET EntrySteps
      BY DEF Past, EntrySteps, AfterQuestion
    <2>3. \A f \in Fields : \A c \in AllCandidates : Done(c, Past(f))' <=> Done(c, Past(f))
      BY <2>2, KeptRest
    <2> QED
      BY <1>1, <2>1, <2>3 DEF Tracked
  <1>7. FieldTallies => FieldTallies'
    BY <1>1 DEF FieldTallies, WithId, Tally
  <1>8. TokenTallies => TokenTallies'
    <2>1. \A x : AllUses(x)' = AllUses(x)
      BY <1>1, <1>2 DEF AllUses, Uses, Elements
    <2> QED
      BY <1>1, <2>1 DEF TokenTallies, Tally
  <1> QED
    BY <1>3, <1>4, <1>5, <1>6, <1>7, <1>8 DEF FrequenciesInv

LEMMA IndexInductive == IndexInv /\ [Next]_vars => IndexInv'
  <1> SUFFICES ASSUME IndexInv, [Next]_vars PROVE IndexInv'
    OBVIOUS
  <1>1. /\ IdInv /\ Alone /\ Marks /\ Filled /\ Kinds /\ Asked
        /\ DistinctDocs => Docs /\ Sets /\ FrequenciesInv
    BY DEF IndexInv, EntriesInv
  <1>2. EntriesInv'
    BY EntriesInductive DEF IndexInv
  <1>3. CASE List \/ Assemble \/ UNCHANGED vars
    <2>1. DistinctDocs' => DistinctDocs
      <3>1. input' = input
        BY <1>3 DEF List, Assemble, vars
      <3> QED
        BY <3>1, SameInput
    <2> QED
      BY <1>1, <1>2, <1>3, <2>1, MapsRest DEF IndexInv
  <1>4. ASSUME NEW t \in Threads, Step(t) PROVE IndexInv'
    <2>1. Moves(t) /\ input' = input
      BY <1>1, <1>4, StepMoves DEF Moves
    <2>2. DistinctDocs' => DistinctDocs
      BY <2>1, SameInput
    <2>3. Kinds' /\ Asked'
      BY <1>1, <1>4, KindsStep, AskedStep
    <2>4. DistinctDocs => Sets'
      BY <1>1, <1>4, SetsStep DEF SetsInv
    <2>5. DistinctDocs => FrequenciesInv'
      BY <1>1, <1>4, TrackedStep, FieldTalliesStep, TokenTalliesStep DEF FrequenciesInv
    <2> QED
      BY <1>2, <2>2, <2>3, <2>4, <2>5 DEF IndexInv
  <1> QED
    BY <1>3, <1>4 DEF Next

(* After the join nobody reads a question any more. *)
LEMMA AfterJoin ==
    ASSUME IndexInv, index.built, DistinctDocs
    PROVE  /\ index = Assembled
           /\ \A t \in Threads : pc[t] \notin Asking
           /\ \A d, i : Under(d, i) <=> d \in DOMAIN documents /\ i \in questionIds[d]
           /\ Sets /\ FrequenciesInv /\ IsFiniteSet(DOMAIN documents)
           /\ \A g, h \in DOMAIN ids : ids[g] = ids[h] => g = h
  <1>1. Alone /\ Sets /\ FrequenciesInv /\ Docs /\ IdInv
    BY DEF IndexInv, EntriesInv
  <1>2. index = Assembled /\ \A t \in Threads : pc[t] \notin Asking
    BY <1>1 DEF Alone, Joined, Asking
  <1> QED
    BY <1>1, <1>2 DEF Under, Docs, IdInv, Numbered

(* The sentinel, max_doc_id + 1, has room above the document ids. *)
RoomForSentinel == maxDoc + 1 # DocWidth

LEMMA SetsHold == IndexInv /\ RoomForSentinel => SetsMatch
  <1> SUFFICES ASSUME IndexInv, RoomForSentinel, index.built, DistinctDocs
               PROVE  SetsMatch
    BY DEF SetsMatch
  <1>1. /\ index = Assembled
        /\ \A d, i : Under(d, i) <=> d \in DOMAIN documents /\ i \in questionIds[d]
        /\ Sets
        /\ \A g, h \in DOMAIN ids : ids[g] = ids[h] => g = h
    BY AfterJoin
  <1>2. /\ index.sets = [id \in DOMAIN docsOf |-> IF id \in Hot THEN {Sentinel} ELSE docsOf[id]]
        /\ index.hot = [id \in Hot |-> docsOf[id]]
        /\ index.sentinel = Sentinel
    BY <1>1 DEF Assembled
  <1>3. Hot \subseteq DOMAIN docsOf
    BY DEF Hot
  <1>4. \A i : DocumentsOf(i) = IF i \in DOMAIN docsOf THEN docsOf[i] ELSE {}
    BY <1>2, <1>3 DEF DocumentsOf, Get
  <1>5. Sentinel = maxDoc + 1 /\ maxDoc \in Nat
    BY WidthAssumption DEF Sentinel, RoomForSentinel, IndexInv, Kinds
  <1>6. \A d \in DOMAIN documents : d <= maxDoc /\ d # Sentinel
    <2>1. \A d \in DOMAIN documents : d <= maxDoc
      BY <1>1 DEF Sets, StoredOf
    <2>2. ~(Sentinel <= maxDoc)
      BY <1>5
    <2> QED
      BY <2>1, <2>2
  <1>7. ASSUME NEW d \in DOMAIN documents
        PROVE  LET own == Elements(QuestionGrams(documents[d].entry.question))
               IN  /\ own \subseteq DOMAIN ids
                   /\ \A g \in DOMAIN ids : d \in DocumentsOf(ids[g]) <=> g \in own
    <2> DEFINE own == OwnGrams(documents[d].entry)
    <2>1. /\ own \subseteq DOMAIN ids
          /\ questionIds[d] = {ids[g] : g \in own}
          /\ \A i \in questionIds[d] : i \in DOMAIN docsOf /\ d \in docsOf[i]
      BY <1>1 DEF Sets, StoredOf
    <2> HIDE DEF own
    <2>2. ASSUME NEW g \in DOMAIN ids
          PROVE  d \in DocumentsOf(ids[g]) <=> g \in own
      <3>1. ASSUME g \in own PROVE d \in DocumentsOf(ids[g])
        BY <1>4, <2>1, <3>1
      <3>2. ASSUME d \in DocumentsOf(ids[g]) PROVE g \in own
        <4>1. ids[g] \in DOMAIN docsOf /\ d \in docsOf[ids[g]]
          BY <1>4, <3>2
        <4>2. ids[g] \in questionIds[d]
          BY <1>1, <4>1 DEF Sets
        <4>3. PICK h \in own : ids[h] = ids[g]
          BY <2>1, <4>2
        <4> QED
          BY <1>1, <2>1, <4>3
      <3> QED
        BY <3>1, <3>2
    <2> QED
      BY <2>1, <2>2 DEF own, OwnGrams
  <1>8. index.sentinel \notin DOMAIN documents
    BY <1>2, <1>6
  <1>9. ASSUME NEW id \in DOMAIN index.sets
        PROVE  /\ index.sets[id] # {}
               /\ index.sentinel \in index.sets[id] <=> id \in DOMAIN index.hot
    <2>1. /\ docsOf[id] # {} /\ id \in DOMAIN docsOf
          /\ \A d \in docsOf[id] : d \in DOMAIN documents
      BY <1>1, <1>2, <1>9 DEF Sets
    <2>2. CASE id \in Hot
      BY <1>2, <1>9, <2>2
    <2>3. CASE id \notin Hot
      BY <1>2, <1>6, <1>9, <2>1, <2>3
    <2> QED
      BY <2>2, <2>3
  <1> QED
    BY <1>7, <1>8, <1>9 DEF SetsMatch

LEMMA FrequenciesHold == IndexInv => FrequenciesMatch
  <1> SUFFICES ASSUME IndexInv, index.built, DistinctDocs
               PROVE  FrequenciesMatch
    BY DEF FrequenciesMatch
  <1>1. /\ index = Assembled
        /\ \A t \in Threads : pc[t] \notin Asking
        /\ \A d, i : Under(d, i) <=> d \in DOMAIN documents /\ i \in questionIds[d]
        /\ Sets /\ Tracked /\ FieldTallies /\ TokenTallies /\ IsFiniteSet(DOMAIN documents)
    BY AfterJoin DEF FrequenciesInv
  <1>2. ASSUME NEW d \in DOMAIN documents, NEW id \in DOMAIN index.question[d]
        PROVE  index.question[d][id][2] \in 1 .. Total
    <2>1. index.question = [e \in DOMAIN documents |->
                              [i \in questionIds[e] |-> <<Total, Cardinality(docsOf[i])>>]]
      BY <1>1 DEF Assembled
    <2>2. id \in questionIds[d] /\ index.question[d][id][2] = Cardinality(docsOf[id])
      BY <1>2, <2>1
    <2>3. d \in docsOf[id] /\ docsOf[id] \in SUBSET DOMAIN documents
      BY <1>1, <1>2, <2>2 DEF Sets, StoredOf
    <2>4. IsFiniteSet(docsOf[id]) /\ Cardinality(docsOf[id]) <= Cardinality(DOMAIN documents)
      BY <1>1, <2>3, FS_Subset
    <2>5. Cardinality(docsOf[id]) # 0
      BY <2>3, <2>4, FS_EmptySet
    <2>6. Cardinality(docsOf[id]) \in Nat /\ Cardinality(DOMAIN documents) \in Nat
      BY <1>1, <2>4, FS_CardinalityType
    <2> QED
      BY <2>2, <2>4, <2>5, <2>6 DEF Total
  <1>3. \A f \in Fields : \A id \in DOMAIN fieldFreq[f] :
           fieldFreq[f][id] = Cardinality({d \in DOMAIN fieldIds[f] : id \in fieldIds[f][d]})
    BY <1>1 DEF FieldTallies, Tally, WithId
  <1>4. \A x \in DOMAIN tokenFreq : tokenFreq[x] = Cardinality(Uses(x))
    <2>1. \A x : AllUses(x) = Uses(x)
      BY <1>1 DEF AllUses
    <2> QED
      BY <1>1, <2>1 DEF TokenTallies, Tally
  <1> QED
    BY <1>2, <1>3, <1>4 DEF FrequenciesMatch

(* The frequencies behind the scores are counts of the documents, however  *)
(* the fetch_adds and or_inserts of the threads fall.                      *)
THEOREM FrequenciesCounted == Spec => []FrequenciesMatch
  <1>1. Init => IndexInv
    BY IndexInit
  <1>2. IndexInv /\ [Next]_vars => IndexInv'
    BY IndexInductive
  <1>3. IndexInv => FrequenciesMatch
    BY FrequenciesHold
  <1> QED
    BY <1>1, <1>2, <1>3, PTL DEF Spec

(* No update of a shared map is lost: a document is found under exactly    *)
(* the n-grams of its question.  The condition is that of the code: with a *)
(* document that has the greatest id of all, max_doc_id + 1 wraps and the  *)
(* sentinel is document 0.                                                 *)
THEOREM NothingLost == Spec => [](RoomForSentinel => IndexMatches)
  <1>1. Init => IndexInv
    BY IndexInit
  <1>2. IndexInv /\ [Next]_vars => IndexInv'
    BY IndexInductive
  <1>3. IndexInv => (RoomForSentinel => IndexMatches)
    BY SetsHold, FrequenciesHold DEF IndexMatches
  <1> QED
    BY <1>1, <1>2, <1>3, PTL DEF Spec

=============================================================================
