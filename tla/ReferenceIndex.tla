--------------------------- MODULE ReferenceIndex ---------------------------
(***************************************************************************)
(* build_simple_index: the reference files are read by the threads of the  *)
(* rayon pool, which fill the concurrent maps of one ReferenceIndexBuilder;*)
(* after the join the maps are turned into the read-only index.            *)
(*                                                                         *)
(* A reference file is a sequence of lines: comments, lines that do not    *)
(* parse, and entries.  Texts are sequences of tokens as they are after    *)
(* cleaning; an n-gram stands for its hash (no two n-grams collide).       *)
(*                                                                         *)
(* Updates of the maps that commute and that nobody reads before the join  *)
(* are one action per map operation group; the operations whose order can  *)
(* matter (the mark of a duplicate, the id of an n-gram) are actions of    *)
(* their own.                                                              *)
(***************************************************************************)
EXTENDS Naturals, Sequences, FiniteSets

CONSTANTS
    Threads, Tokens, Keys,
    Inputs,        \* functions from files to sequences of lines
    None,          \* in Keys: the key of an entry without a fingerprint; no file
    NgramSize, AnswerNgramSize, PassageNgramSize,
    ShortAnswer,   \* short_answer_token_threshold
    MinTokens,     \* eval_min_token_length
    MinWords,      \* eval_min_unique_word_count
    Dedup, IndexAnswers, IndexPassages,   \* the Boolean settings
    Overflow,      \* OVERFLOW_THRESHOLD
    IdWidth,       \* 2^32, the values of an n-gram id
    DocWidth,      \* 2^32, the values of a document id
    HotFloor       \* the least hot bucket threshold, 2000

-----------------------------------------------------------------------------
(* Texts. *)

Elements(s) == {s[k] : k \in DOMAIN s}

Windows(text, n) ==
    IF Len(text) < n THEN <<>>
    ELSE [k \in 1 .. Len(text) - n + 1 |-> SubSeq(text, k, k + n - 1)]

(* A question shorter than the n-gram size is one n-gram. *)
QuestionGrams(text) ==
    IF Len(text) < NgramSize THEN <<text>> ELSE Windows(text, NgramSize)

(* Short answers are matched token by token and have no n-grams. *)
FieldGrams(f, text) ==
    IF f = "passage" THEN Windows(text, PassageNgramSize)
    ELSE IF Len(text) > ShortAnswer THEN Windows(text, AnswerNgramSize) ELSE <<>>

IdStep(f) == IF f = "answer" THEN "answer_ids" ELSE "passage_ids"
Indexed(f) == IF f = "answer" THEN IndexAnswers ELSE IndexPassages

(* build_combined_text_for_filtering *)
Combined(e) ==
    (IF IndexPassages THEN e.passage ELSE <<>>) \o e.question
        \o (IF IndexAnswers THEN e.answer ELSE <<>>)

TooShort(e) == Len(Combined(e)) < MinTokens
TooFewWords(e) == Cardinality(Elements(Combined(e))) < MinWords

(* What an entry can have as n-grams, and what a file can hold. *)
GramsOf(e) ==
    Elements(QuestionGrams(e.question)) \cup Elements(FieldGrams("answer", e.answer))
        \cup Elements(FieldGrams("passage", e.passage))
Entries(x) == UNION {{x[f][k] : k \in {l \in DOMAIN x[f] : x[f][l].kind = "entry"}} :
                       f \in DOMAIN x}
AllGrams(x) == UNION {GramsOf(e) : e \in Entries(x)}

SomeLine == [kind : {"comment", "bad"}]
EntryLine == [kind : {"entry"}, doc : Nat, key : Keys, asked : BOOLEAN,
              question : Seq(Tokens), answer : Seq(Tokens), passage : Seq(Tokens)]

ASSUME WidthAssumption == IdWidth \in Nat \ {0} /\ DocWidth \in Nat \ {0}
ASSUME SizeAssumption  == {NgramSize, AnswerNgramSize, PassageNgramSize} \subseteq Nat \ {0}
ASSUME InputAssumption ==
    \A x \in Inputs :
        /\ \A f \in DOMAIN x : x[f] \in Seq(SomeLine \cup EntryLine)
        /\ IsFiniteSet(AllGrams(x)) /\ Cardinality(AllGrams(x)) <= IdWidth

-----------------------------------------------------------------------------
VARIABLES
    input,         \* the reference files
    phase,         \* "list", "build", "built", "error", "panicked"
    todo,          \* the files no thread has taken
    pc, file, pos, \* where each thread stands: step, file, line
    grams,         \* the n-grams of the field that are still to come
    got,           \* the id got or created for the first of them
    found,         \* the ids of the field's n-grams that went before
    count,         \* lines_processed of the file
    ids, next,     \* question_ngram_to_id, next_ngram_id
    docsOf,        \* question_ngram_id_to_eval_doc_ids
    questionIds,   \* eval_doc_id_to_question_ngram_ids
    fieldIds,      \* eval_doc_id_to_answer_ngram_ids and ..._passage_...
    fieldFreq,     \* answer_ngram_doc_freq, passage_ngram_doc_freq
    fieldTokens,   \* eval_doc_id_to_answer_tokens(_ordered), ..._passage_...
    tokenFreq,     \* token_eval_doc_freq
    documents,     \* eval_documents, eval_document_metadata
    marked,        \* dedup_map: key -> the entry that marked it
    maxDoc,        \* max_doc_id
    stats,         \* the four totals
    index          \* the index returned

local    == <<pc, file, pos, grams, got, found, count>>
idMap    == <<ids, next>>
question == <<docsOf, questionIds, documents>>
fields   == <<fieldIds, fieldFreq, fieldTokens>>
vars == <<input, phase, todo, local, idMap, question, fields, tokenFreq, marked,
          maxDoc, stats, index>>

Fields == {"answer", "passage"}

-----------------------------------------------------------------------------
(* Maps. *)

Put(f, k, v) == [x \in DOMAIN f \cup {k} |-> IF x = k THEN v ELSE f[x]]
Get(f, k, default) == IF k \in DOMAIN f THEN f[k] ELSE default
Bump(f, S) == [x \in DOMAIN f \cup S |->
                 IF x \in S THEN Get(f, x, 0) + 1 ELSE f[x]]
Advance(n) == IF n + 1 = IdWidth THEN 0 ELSE n + 1   \* fetch_add wraps
Empty == [x \in {} |-> {}]

-----------------------------------------------------------------------------
Init ==
    /\ input \in Inputs
    /\ phase = "list"
    /\ todo = {}
    /\ pc = [t \in Threads |-> "idle"]
    /\ file = [t \in Threads |-> None]
    /\ pos = [t \in Threads |-> 0]
    /\ grams = [t \in Threads |-> <<>>]
    /\ got = [t \in Threads |-> 0]
    /\ found = [t \in Threads |-> {}]
    /\ count = [t \in Threads |-> 0]
    /\ ids = Empty /\ next = 0
    /\ docsOf = Empty /\ questionIds = Empty /\ documents = Empty
    /\ fieldIds = [f \in Fields |-> Empty]
    /\ fieldFreq = [f \in Fields |-> Empty]
    /\ fieldTokens = [f \in Fields |-> Empty]
    /\ tokenFreq = Empty
    /\ marked = Empty
    /\ maxDoc = 0
    /\ stats = [lines |-> 0, dups |-> 0, short |-> 0, few |-> 0]
    /\ index = [built |-> FALSE]

(* get_reference_files: no files, no index. *)
List ==
    /\ phase = "list"
    /\ todo' = DOMAIN input
    /\ phase' = IF DOMAIN input = {} THEN "error" ELSE "build"
    /\ UNCHANGED <<input, local, idMap, question, fields, tokenFreq, marked, maxDoc,
                   stats, index>>

-----------------------------------------------------------------------------
(* process_simple_reference_file *)

Line(t) == input[file[t]][pos[t]]
At(t, step) == phase = "build" /\ pc[t] = step
AtLine(t, kind) == At(t, "line") /\ pos[t] <= Len(input[file[t]]) /\ Line(t).kind = kind
NextLine(t) ==
    /\ pos' = [pos EXCEPT ![t] = @ + 1]
    /\ pc' = [pc EXCEPT ![t] = "line"]

builder == <<idMap, question, fields, tokenFreq, maxDoc>>

Take(t) ==
    /\ At(t, "idle")
    /\ \E f \in todo : todo' = todo \ {f} /\ file' = [file EXCEPT ![t] = f]
    /\ pc' = [pc EXCEPT ![t] = "line"]
    /\ pos' = [pos EXCEPT ![t] = 1]
    /\ count' = [count EXCEPT ![t] = 0]
    /\ UNCHANGED <<input, phase, grams, got, found, builder, marked, stats, index>>

Comment(t) ==
    /\ AtLine(t, "comment")
    /\ NextLine(t)
    /\ UNCHANGED <<input, phase, todo, file, grams, got, found, count, builder, marked,
                   stats, index>>

(* The rest of the file is given up, and its count of lines with it; the   *)
(* entries before the line stay in the maps.                               *)
Broken(t) ==
    /\ AtLine(t, "bad")
    /\ pc' = [pc EXCEPT ![t] = "idle"]
    /\ UNCHANGED <<input, phase, todo, file, pos, grams, got, found, count, builder,
                   marked, stats, index>>

Filter(t) ==
    /\ AtLine(t, "entry")
    /\ \/ /\ TooShort(Line(t))
          /\ stats' = [stats EXCEPT !.short = @ + 1]
       \/ /\ ~TooShort(Line(t)) /\ TooFewWords(Line(t))
          /\ stats' = [stats EXCEPT !.few = @ + 1]
    /\ NextLine(t)
    /\ UNCHANGED <<input, phase, todo, file, grams, got, found, count, builder, marked,
                   index>>

Passes(e) == ~TooShort(e) /\ ~TooFewWords(e)
Keyed(e) == Dedup /\ e.key # None

Duplicate(t) ==
    /\ AtLine(t, "entry") /\ Passes(Line(t))
    /\ Keyed(Line(t)) /\ Line(t).key \in DOMAIN marked
    /\ stats' = [stats EXCEPT !.dups = @ + 1]
    /\ NextLine(t)
    /\ UNCHANGED <<input, phase, todo, file, grams, got, found, count, builder, marked,
                   index>>

\* Mutant of Accept: the key is marked only when the entry is stored.
MutAccept(t) ==
    /\ AtLine(t, "entry") /\ Passes(Line(t))
    /\ ~(Keyed(Line(t)) /\ Line(t).key \in DOMAIN marked)
    /\ IF Line(t).asked
         THEN pc' = [pc EXCEPT ![t] = "question"] /\ UNCHANGED pos
         ELSE NextLine(t)
    /\ UNCHANGED <<input, phase, todo, file, grams, got, found, count, builder, marked,
                   stats, index>>

(* check_and_mark_duplicate marks the key in the same step; the entry      *)
(* without a question is left out only after that.                         *)
Accept(t) ==
    /\ AtLine(t, "entry") /\ Passes(Line(t))
    /\ ~(Keyed(Line(t)) /\ Line(t).key \in DOMAIN marked)
    /\ marked' = IF Keyed(Line(t)) THEN Put(marked, Line(t).key, Line(t)) ELSE marked
    /\ IF Line(t).asked
         THEN pc' = [pc EXCEPT ![t] = "question"] /\ UNCHANGED pos
         ELSE NextLine(t)
    /\ UNCHANGED <<input, phase, todo, file, grams, got, found, count, builder, stats,
                   index>>

(* The end of the file: its lines are added to the total. *)
Close(t) ==
    /\ At(t, "line") /\ pos[t] > Len(input[file[t]])
    /\ stats' = [stats EXCEPT !.lines = @ + count[t]]
    /\ pc' = [pc EXCEPT ![t] = "idle"]
    /\ UNCHANGED <<input, phase, todo, file, pos, grams, got, found, count, builder,
                   marked, index>>

-----------------------------------------------------------------------------
(* process_question_field *)

Doc(t) == Line(t).doc % DocWidth

(* A question that is empty after cleaning is skipped, its answer and its  *)
(* passage are not.                                                        *)
BeginQuestion(t) ==
    /\ At(t, "question")
    /\ maxDoc' = IF Doc(t) > maxDoc THEN Doc(t) ELSE maxDoc
    /\ IF Line(t).question = <<>>
         THEN /\ pc' = [pc EXCEPT ![t] = "answer"]
              /\ UNCHANGED <<grams, found, count, tokenFreq>>
         ELSE /\ pc' = [pc EXCEPT ![t] = "lookup"]
              /\ grams' = [grams EXCEPT ![t] = QuestionGrams(Line(t).question)]
              /\ found' = [found EXCEPT ![t] = {}]
              /\ count' = [count EXCEPT ![t] = @ + 1]
              /\ tokenFreq' = Bump(tokenFreq, Elements(Line(t).question))
    /\ UNCHANGED <<input, phase, todo, file, pos, got, idMap, question, fields, marked,
                   stats, index>>

\* Mutant of Held: the entry is released between look-up and insertion.
MutHeld(g) == FALSE /\ g # <<>>

\* Mutant of Held: an n-gram is claimed before it is looked up, by the very
\* thread that is to look it up.
MutHeldStay(g) == \E u \in Threads : pc[u] = "lookup" /\ grams[u] # <<>> /\ Head(grams[u]) = g

(* get_or_create_ngram_id holds the map's entry from the look-up to the    *)
(* insertion of a new id; others wait for it.                              *)
Held(g) == \E u \in Threads : pc[u] = "allocate" /\ Head(grams[u]) = g

Lookup(t) ==
    /\ At(t, "lookup") /\ grams[t] # <<>>
    /\ ~Held(Head(grams[t]))
    /\ \/ /\ Head(grams[t]) \in DOMAIN ids
          /\ pc' = [pc EXCEPT ![t] = "add"]
          /\ got' = [got EXCEPT ![t] = ids[Head(grams[t])]]
          /\ UNCHANGED phase
       \/ /\ Head(grams[t]) \notin DOMAIN ids /\ next < Overflow
          /\ pc' = [pc EXCEPT ![t] = "allocate"]
          /\ UNCHANGED <<phase, got>>
       \/ /\ Head(grams[t]) \notin DOMAIN ids /\ next >= Overflow
          /\ phase' = "panicked"
          /\ UNCHANGED <<pc, got>>
    /\ UNCHANGED <<input, todo, file, pos, grams, found, count, builder, marked,
                   stats, index>>

Allocate(t) ==
    /\ At(t, "allocate")
    /\ ids' = Put(ids, Head(grams[t]), next)
    /\ next' = Advance(next)
    /\ got' = [got EXCEPT ![t] = next]
    /\ pc' = [pc EXCEPT ![t] = "add"]
    /\ UNCHANGED <<input, phase, todo, file, pos, grams, found, count, question,
                   fields, tokenFreq, marked, maxDoc, stats, index>>

\* Mutant of AddDoc: the set of an n-gram seen before is replaced.
MutAddDoc(t) ==
    /\ At(t, "add")
    /\ docsOf' = Put(docsOf, got[t], {Doc(t)})
    /\ found' = [found EXCEPT ![t] = @ \cup {got[t]}]
    /\ grams' = [grams EXCEPT ![t] = Tail(@)]
    /\ pc' = [pc EXCEPT ![t] = "lookup"]
    /\ UNCHANGED <<input, phase, todo, file, pos, got, count, idMap, questionIds,
                   documents, fields, tokenFreq, marked, maxDoc, stats, index>>

(* add_doc_to_ngram *)
AddDoc(t) ==
    /\ At(t, "add")
    /\ docsOf' = Put(docsOf, got[t], Get(docsOf, got[t], {}) \cup {Doc(t)})
    /\ found' = [found EXCEPT ![t] = @ \cup {got[t]}]
    /\ grams' = [grams EXCEPT ![t] = Tail(@)]
    /\ pc' = [pc EXCEPT ![t] = "lookup"]
    /\ UNCHANGED <<input, phase, todo, file, pos, got, count, idMap, questionIds,
                   documents, fields, tokenFreq, marked, maxDoc, stats, index>>

StoreDocument(t) ==
    /\ At(t, "lookup") /\ grams[t] = <<>>
    /\ questionIds' = Put(questionIds, Doc(t), found[t])
    /\ documents' = Put(documents, Doc(t),
                        [unique |-> Cardinality(found[t]), entry |-> Line(t),
                         answer |-> 0, passage |-> 0])
    /\ pc' = [pc EXCEPT ![t] = "answer"]
    /\ UNCHANGED <<input, phase, todo, file, pos, grams, got, found, count, idMap, docsOf,
                   fields, tokenFreq, marked, maxDoc, stats, index>>

-----------------------------------------------------------------------------
(* process_answer_field, process_passage_field.  A field that is absent or *)
(* empty after cleaning leaves no trace in the maps.                       *)

After(t, f) == IF f = "answer" THEN pc' = [pc EXCEPT ![t] = "passage"] /\ UNCHANGED pos
                               ELSE NextLine(t)

SkipField(t, f) ==
    /\ At(t, f)
    /\ ~Indexed(f) \/ Line(t)[f] = <<>>
    /\ After(t, f)
    /\ UNCHANGED <<input, phase, todo, file, grams, got, found, count, builder, marked,
                   stats, index>>

BeginField(t, f) ==
    /\ At(t, f)
    /\ Indexed(f) /\ Line(t)[f] # <<>>
    /\ documents' = IF Doc(t) \in DOMAIN documents
                      THEN [documents EXCEPT ![Doc(t)][f] = Len(Line(t)[f])]
                      ELSE documents
    /\ grams' = [grams EXCEPT ![t] = FieldGrams(f, Line(t)[f])]
    /\ found' = [found EXCEPT ![t] = {}]
    /\ pc' = [pc EXCEPT ![t] = IdStep(f)]
    /\ UNCHANGED <<input, phase, todo, file, pos, got, count, idMap, docsOf, questionIds,
                   fields, tokenFreq, marked, maxDoc, stats, index>>

\* Mutant of FieldId: the counter is read and not advanced.
MutFieldId(t, f) ==
    LET g == Head(grams[t])
        id == Get(ids, g, next)
    IN  /\ At(t, IdStep(f)) /\ grams[t] # <<>>
        /\ ~Held(g)
        /\ ids' = Put(ids, g, id)
        /\ found' = [found EXCEPT ![t] = @ \cup {id}]
        /\ grams' = [grams EXCEPT ![t] = Tail(@)]
        /\ UNCHANGED <<input, phase, todo, pc, file, pos, got, count, next, question,
                       fields, tokenFreq, marked, maxDoc, stats, index>>

(* Here a new id is drawn without the check for overflow. *)
FieldId(t, f) ==
    LET g == Head(grams[t])
        id == Get(ids, g, next)
    IN  /\ At(t, IdStep(f)) /\ grams[t] # <<>>
        /\ ~Held(g)
        /\ ids' = Put(ids, g, id)
        /\ next' = IF g \in DOMAIN ids THEN next ELSE Advance(next)
        /\ found' = [found EXCEPT ![t] = @ \cup {id}]
        /\ grams' = [grams EXCEPT ![t] = Tail(@)]
        /\ UNCHANGED <<input, phase, todo, pc, file, pos, got, count, question, fields,
                       tokenFreq, marked, maxDoc, stats, index>>

StoreField(t, f) ==
    LET text == Line(t)[f]
    IN  /\ At(t, IdStep(f)) /\ grams[t] = <<>>
        /\ fieldIds' = IF found[t] = {} THEN fieldIds
                       ELSE [fieldIds EXCEPT ![f] = Put(@, Doc(t), found[t])]
        /\ fieldFreq' = [fieldFreq EXCEPT ![f] = Bump(@, found[t])]
        /\ fieldTokens' = [fieldTokens EXCEPT ![f] = Put(@, Doc(t), text)]
        /\ tokenFreq' = Bump(tokenFreq, Elements(text))
        /\ After(t, f)
        /\ UNCHANGED <<input, phase, todo, file, grams, got, found, count, idMap, question,
                       marked, maxDoc, stats, index>>

-----------------------------------------------------------------------------
(* The rest of build_simple_index, after the join. *)

Total == Cardinality(DOMAIN documents)

Root(n) == CHOOSE r \in 0 .. n : r * r <= n /\ (r + 1) * (r + 1) > n
HotThreshold == IF 2 * Root(stats.lines) > HotFloor THEN 2 * Root(stats.lines) ELSE HotFloor
Hot == {id \in DOMAIN docsOf : Cardinality(docsOf[id]) > HotThreshold}
Sentinel == (maxDoc + 1) % DocWidth

(* An inverse document frequency ln(total / frequency) is kept as the pair *)
(* of its operands.                                                        *)
Idf(freq) == [x \in DOMAIN freq |-> <<Total, freq[x]>>]

AnswerTokens == UNION {Elements(fieldTokens["answer"][d]) : d \in DOMAIN fieldTokens["answer"]}

Assembled ==
    [built    |-> TRUE,
     question |-> [d \in DOMAIN documents |->
                     [id \in questionIds[d] |-> <<Total, Cardinality(docsOf[id])>>]],
     answer   |-> Idf(fieldFreq["answer"]),
     passage  |-> Idf(fieldFreq["passage"]),
     token    |-> Idf([x \in AnswerTokens |-> tokenFreq[x]]),
     sets     |-> [id \in DOMAIN docsOf |-> IF id \in Hot THEN {Sentinel} ELSE docsOf[id]],
     hot      |-> [id \in Hot |-> docsOf[id]],
     sentinel |-> Sentinel]

Assemble ==
    /\ phase = "build" /\ todo = {} /\ \A t \in Threads : pc[t] = "idle"
    /\ index' = Assembled
    /\ phase' = "built"
    /\ UNCHANGED <<input, todo, local, idMap, question, fields, tokenFreq, marked,
                   maxDoc, stats>>

Step(t) ==
    \/ Take(t) \/ Comment(t) \/ Broken(t) \/ Filter(t) \/ Duplicate(t) \/ Accept(t)
    \/ Close(t)
    \/ BeginQuestion(t) \/ Lookup(t) \/ Allocate(t) \/ AddDoc(t) \/ StoreDocument(t)
    \/ \E f \in Fields :
          SkipField(t, f) \/ BeginField(t, f) \/ FieldId(t, f) \/ StoreField(t, f)

Next == List \/ Assemble \/ \E t \in Threads : Step(t)

Spec == Init /\ [][Next]_vars

\* The pool runs each of its threads, and the caller goes on after the join.
FairSpec == Spec /\ WF_vars(List \/ Assemble) /\ \A t \in Threads : WF_vars(Step(t))

-----------------------------------------------------------------------------
(* Properties. *)

TypeOK ==
    /\ input \in Inputs
    /\ phase \in {"list", "build", "built", "error", "panicked"}
    /\ todo \subseteq DOMAIN input
    /\ \A t \in Threads : pc[t] # "idle" => file[t] \in DOMAIN input \ todo
    /\ next \in 0 .. IdWidth - 1
    /\ \A g \in DOMAIN ids : ids[g] \in 0 .. IdWidth - 1
    /\ DOMAIN questionIds = DOMAIN documents
    /\ maxDoc \in 0 .. DocWidth - 1

(* "Common n-grams across different fields get the same ID": the threads   *)
(* that meet an n-gram, in questions, answers and passages, agree on one   *)
(* id for it, and no two n-grams share an id, whatever the order in which  *)
(* they look it up (get_or_create_ngram_id and the two or_insert_with).    *)
OneId == \A g, h \in DOMAIN ids : ids[g] = ids[h] => g = h

Usable(e) == e.asked /\ e.question # <<>>
Reached(f) == {k \in DOMAIN input[f] : \A l \in 1 .. k : input[f][l].kind # "bad"}
Candidates(f) == {k \in Reached(f) : input[f][k].kind = "entry" /\ Passes(input[f][k])}
AllCandidates == UNION {{<<f, k>> : k \in Candidates(f)} : f \in DOMAIN input}
EntryAt(c) == input[c[1]][c[2]]
DistinctDocs ==
    \A c, e \in AllCandidates :
        EntryAt(c).doc % DocWidth = EntryAt(e).doc % DocWidth => c = e
Stored(c) == \E d \in DOMAIN documents : documents[d].entry = EntryAt(c)
UsedKeys == {EntryAt(c).key : c \in {a \in AllCandidates : Keyed(EntryAt(a))}}
WithKey(k) == {c \in AllCandidates : Keyed(EntryAt(c)) /\ EntryAt(c).key = k}

(* What deduplication leaves (check_and_mark_duplicate under threads):     *)
(* every usable entry without a key; of the entries of one key never two,  *)
(* one if each of them is usable, and if they are all in one file, the     *)
(* first.  (An entry without a question that comes first takes the key     *)
(* with it, which is why the second part has a condition.)  The lines      *)
(* counted, from which the hot threshold is derived, are the documents     *)
(* unless a file was given up.                                             *)
Survivors ==
    index.built /\ DistinctDocs =>
        /\ \A d \in DOMAIN documents : \E c \in AllCandidates :
              Usable(EntryAt(c)) /\ documents[d].entry = EntryAt(c)
        /\ \A c \in AllCandidates :
              ~Keyed(EntryAt(c)) /\ Usable(EntryAt(c)) => Stored(c)
        /\ \A k \in UsedKeys :
              LET kept == {c \in WithKey(k) : Stored(c)}
              IN  /\ Cardinality(kept) <= 1
                  /\ (\A c \in WithKey(k) : Usable(EntryAt(c))) => kept # {}
                  /\ \A c, e \in WithKey(k) :
                        c \in kept /\ (\A a \in WithKey(k) : a[1] = c[1]) => c[2] <= e[2]
        /\ stats.lines <= Total
        /\ (\A f \in DOMAIN input : Reached(f) = DOMAIN input[f]) => stats.lines = Total

(* The documents that the index gives for an n-gram: those of its set, or, *)
(* for a hot one, those put aside when the sentinel took their place.      *)
DocumentsOf(id) == IF id \in DOMAIN index.hot THEN index.hot[id]
                   ELSE Get(index.sets, id, {})

(* No concurrent update of a set is lost: a document is found under an     *)
(* n-gram exactly if its question contains it.  The sentinel is no         *)
(* document and stands in the sets of the hot n-grams only.                *)
SetsMatch ==
    index.built /\ DistinctDocs =>
        /\ \A d \in DOMAIN documents :
              LET own == Elements(QuestionGrams(documents[d].entry.question))
              IN  /\ own \subseteq DOMAIN ids
                  /\ \A g \in DOMAIN ids : d \in DocumentsOf(ids[g]) <=> g \in own
        /\ index.sentinel \notin DOMAIN documents
        /\ \A id \in DOMAIN index.sets :
              /\ index.sets[id] # {}
              /\ index.sentinel \in index.sets[id] <=> id \in DOMAIN index.hot

Uses(x) ==
    {<<"question", d>> : d \in {c \in DOMAIN documents :
                                   x \in Elements(documents[c].entry.question)}}
      \cup UNION {{<<f, d>> : d \in {c \in DOMAIN fieldTokens[f] :
                                         x \in Elements(fieldTokens[f][c])}} : f \in Fields}

(* The frequencies behind the scores are counts of documents: of a         *)
(* question n-gram between 1 and all of them, of an answer or passage      *)
(* n-gram the number of documents with it in this field.  A token counts   *)
(* once in each field of a document that contains it.                      *)
FrequenciesMatch ==
    index.built /\ DistinctDocs =>
        /\ \A d \in DOMAIN documents : \A id \in DOMAIN index.question[d] :
              index.question[d][id][2] \in 1 .. Total
        /\ \A f \in Fields : \A id \in DOMAIN fieldFreq[f] :
              fieldFreq[f][id] =
                 Cardinality({d \in DOMAIN fieldIds[f] : id \in fieldIds[f][d]})
        /\ \A x \in DOMAIN tokenFreq : tokenFreq[x] = Cardinality(Uses(x))

(* No update of a shared map is lost while the files are read in parallel: *)
(* what build_simple_index assembles is the function of the stored entries *)
(* that a sequential build computes.                                       *)
IndexMatches == SetsMatch /\ FrequenciesMatch

(* The threads never wait for each other for good: every build ends.       *)
BuildEnds == <>(phase \in {"built", "error", "panicked"})

=============================================================================
