----------------------------- MODULE LineMatches -----------------------------
(***************************************************************************)
(* One training line after its clusters are known                          *)
(* (process_simple_training_file): each document that a cluster matches is *)
(* checked against two early exits, its passage is looked for before the   *)
(* question and its answer after it, the three overlaps are scored, and an *)
(* entry is reported unless the line has one with the same key.            *)
(*                                                                         *)
(* Positions count from 0, as in the code.  The documents of a cluster are *)
(* the keys of a hash map and come in any order.  The texts and ratios     *)
(* that only the reports show are left out.                                *)
(***************************************************************************)
EXTENDS Scoring, Sequences, FiniteSetsExt

CONSTANTS
    Inputs,        \* the lines with their clusters, documents and settings
    NgramSize, AnswerNgramSize, PassageNgramSize,
    PassageMisses, \* passage_max_consecutive_misses
    ShortAnswer,   \* short_answer_token_threshold
    ShortWindow,   \* short_answer_window_length
    LongWindow,    \* min_long_answer_window
    MinDistance,   \* min_passage_distance
    Nothing        \* no document, no boundary

Texts == Seq(Nat)   \* of token ids

(* The first and the last n-gram of a match are n-grams of the line.       *)
OnLine(m, tokens) ==
    /\ m.first \in Nat /\ m.last \in Nat /\ m.first <= m.last
    /\ m.last + NgramSize <= Len(tokens)

(* A threshold is a score, of 0 to 1; the decay may be left out.           *)
SettingsFit(c) ==
    /\ c.threshold \in Nat \X (Nat \ {0}) /\ AtMost(c.threshold, One)
    /\ {c.start, c.end} \subseteq Nat \cup {Unset}

(* What the index and the clusters give: a document has a question of at   *)
(* least one token, and a cluster lies on the line's n-grams.              *)
InputsFit ==
    /\ {NgramSize, AnswerNgramSize, PassageNgramSize} \subseteq Nat \ {0}
    /\ {PassageMisses, ShortAnswer, ShortWindow, LongWindow, MinDistance} \subseteq Nat
    /\ \A x \in Inputs :
          /\ x.tokens \in Texts /\ SettingsFit(x.config)
          /\ \A d \in DOMAIN x.docs :
                /\ x.docs[d].length \in Nat \ {0} /\ IsFiniteSet(x.docs[d].grams)
                /\ x.docs[d].answer \in Texts /\ x.docs[d].passage \in Texts
          /\ Len(x.clusters) \in Nat /\ DOMAIN x.clusters = 1 .. Len(x.clusters)
          /\ \A k \in 1 .. Len(x.clusters) :
                /\ DOMAIN x.clusters[k] \subseteq DOMAIN x.docs
                /\ \A d \in DOMAIN x.clusters[k] : OnLine(x.clusters[k][d], x.tokens)

ASSUME InputsAssumption == InputsFit

VARIABLES
    input,     \* tokens, usable, clusters, docs, common, config
    step,      \* what happens next to the document at hand
    cluster,   \* number of the cluster
    left,      \* its documents that are still to come
    doc,       \* the document at hand
    passage,   \* boundaries and overlap of its passage
    answer,    \* ranges and overlap of its answer
    keys,      \* processed_contaminations
    reported,  \* the entries, in the order of the report
    dropped    \* the documents left out, each with the step that did it

scan == <<cluster, left, doc>>
vars == <<input, step, scan, passage, answer, keys, reported, dropped>>

NoMatch == [found |-> FALSE, ranges |-> <<>>, overlap |-> Zero]

Init ==
    /\ input \in Inputs
    /\ step = "prepare"
    /\ cluster = 0 /\ left = {} /\ doc = Nothing
    /\ passage = NoMatch /\ answer = NoMatch
    /\ keys = {} /\ reported = <<>> /\ dropped = {}

-----------------------------------------------------------------------------
Length == Len(input.tokens)
Gram(i, n) == SubSeq(input.tokens, i + 1, i + n)
GramsIn(text, n) == {SubSeq(text, k, k + n - 1) : k \in 1 .. Len(text) - n + 1}
MinOf(a, b) == IF a < b THEN a ELSE b
MaxOf(a, b) == IF a > b THEN a ELSE b
Below(a, b) == IF a > b THEN a - b ELSE 0        \* saturating_sub

(* The match of document d in cluster k: first and last n-gram, n-grams.   *)
Match(k, d) == input.clusters[k][d]
Doc(d) == input.docs[d]
HasAnswer(d) == Doc(d).answer # <<>>
HasPassage(d) == Doc(d).passage # <<>>

QuestionOverlap(k, d) == Overlap(Match(k, d).matched, Doc(d).grams, input.common)
QuestionStart(k, d) == Match(k, d).first
QuestionEnd(k, d) == Match(k, d).last + NgramSize - 1
ClusterLength(k, d) == QuestionEnd(k, d) - QuestionStart(k, d) + 1

(* calculate_excess_tokens: a cluster longer than the question may have    *)
(* run into the answer, which is looked for that much earlier.             *)
Excess(k, d) == Below(ClusterLength(k, d), Doc(d).length)
AnswerStart(k, d) == Below(QuestionEnd(k, d), Excess(k, d)) + 1

Minimum == MinimumQuestion(input.config.threshold)

-----------------------------------------------------------------------------
(* The passage: backwards from the question (passage_boundary.rs). *)

PassageWindow(k, d) == MaxOf(2 * Len(Doc(d).passage), MinDistance)

(* The window ends before the token that precedes the question. *)
PassageEnd(k, d) == Below(QuestionStart(k, d), 1)
PassageBegin(k, d) == Below(PassageEnd(k, d), PassageWindow(k, d))

\* Mutant of LookBack: misses are counted from the start of the traversal.
MutLookBack(grams, seen, i) ==
    IF seen.misses > PassageMisses THEN seen
    ELSE IF Gram(i, PassageNgramSize) \in grams
      THEN [first |-> i, last |-> MaxOf(seen.last, i + PassageNgramSize - 1),
            misses |-> seen.misses, hits |-> seen.hits \cup {Gram(i, PassageNgramSize)}]
      ELSE IF seen.hits = {} THEN seen ELSE [seen EXCEPT !.misses = @ + 1]

(* One position of the traversal, which stops after too many misses; those *)
(* before the first hit do not count.                                      *)
LookBack(grams, seen, i) ==
    IF seen.misses > PassageMisses THEN seen
    ELSE IF Gram(i, PassageNgramSize) \in grams
      THEN [first |-> i, last |-> MaxOf(seen.last, i + PassageNgramSize - 1),
            misses |-> 0, hits |-> seen.hits \cup {Gram(i, PassageNgramSize)}]
      ELSE IF seen.hits = {} THEN seen ELSE [seen EXCEPT !.misses = @ + 1]

PassageGrams(d) == GramsIn(Doc(d).passage, PassageNgramSize)
NothingSeen == [first |-> 0, last |-> 0, misses |-> 0, hits |-> {}]

(* What has been seen after the first j positions from behind. *)
Looked(k, d) ==
    LET seen[j \in Nat] ==
          IF j = 0 THEN NothingSeen
          ELSE LookBack(PassageGrams(d), seen[j - 1], PassageEnd(k, d) - PassageNgramSize + 1 - j)
    IN  seen

PassageMatch(k, d) ==
    LET n == PassageEnd(k, d) - PassageBegin(k, d) - PassageNgramSize + 1
        seen == Looked(k, d)[n]
    IN  IF n < 1 \/ Weight(PassageGrams(d), input.common) = 0 \/ seen.hits = {} THEN NoMatch
        ELSE [found |-> TRUE, ranges |-> <<<<seen.first, seen.last>>>>,
              overlap |-> Overlap(seen.hits, PassageGrams(d), input.common)]

-----------------------------------------------------------------------------
(* The answer: after the question (answer_boundary.rs). *)

IsShort(d) == Len(Doc(d).answer) <= ShortAnswer
AnswerWindow(d) == IF IsShort(d) THEN ShortWindow
                   ELSE MaxOf(2 * Len(Doc(d).answer), LongWindow)
AnswerEnd(k, d) == MinOf(AnswerStart(k, d) + AnswerWindow(d), Length)

(* The answer has to begin in the window and may end behind it. *)
ExactStarts(k, d) ==
    {i \in AnswerStart(k, d) .. AnswerEnd(k, d) - 1 :
        /\ i + Len(Doc(d).answer) <= Length
        /\ Gram(i, Len(Doc(d).answer)) = Doc(d).answer}

ExactMatch(k, d) ==
    LET at == Min(ExactStarts(k, d))
        tokens == GramsIn(Doc(d).answer, 1)
    IN  IF ExactStarts(k, d) = {} THEN NoMatch
        ELSE [found |-> TRUE, ranges |-> <<<<at, at + Len(Doc(d).answer) - 1>>>>,
              overlap |-> Overlap(tokens, tokens, input.common)]

(* A hit that begins at most an n-gram's length behind the last range      *)
(* extends it, another one begins a new range.                             *)
Join(ranges, i) ==
    LET last == ranges[Len(ranges)]
        end == i + AnswerNgramSize - 1
    IN  IF ranges # <<>> /\ i <= last[2] + AnswerNgramSize
          THEN [ranges EXCEPT ![Len(ranges)] = <<last[1], MaxOf(last[2], end)>>]
          ELSE Append(ranges, <<i, end>>)

AnswerGrams(d) == GramsIn(Doc(d).answer, AnswerNgramSize)
AnswerHits(k, d) ==
    {i \in AnswerStart(k, d) .. AnswerEnd(k, d) - AnswerNgramSize :
        Gram(i, AnswerNgramSize) \in AnswerGrams(d)}

(* The ranges of the hits among the first j positions of the window. *)
Joined(k, d) ==
    LET ranges[j \in Nat] ==
          IF j = 0 THEN <<>>
          ELSE LET i == AnswerStart(k, d) + j - 1
               IN  IF i \in AnswerHits(k, d) THEN Join(ranges[j - 1], i) ELSE ranges[j - 1]
    IN  ranges

RangesMatch(k, d) ==
    LET hits == AnswerHits(k, d)
        n == AnswerEnd(k, d) - AnswerStart(k, d) - AnswerNgramSize + 1
    IN  IF hits = {} \/ Weight(AnswerGrams(d), input.common) = 0 THEN NoMatch
        ELSE [found |-> TRUE, ranges |-> Joined(k, d)[n],
              overlap |-> Overlap({Gram(i, AnswerNgramSize) : i \in hits}, AnswerGrams(d),
                                  input.common)]

AnswerMatch(k, d) == IF IsShort(d) THEN ExactMatch(k, d) ELSE RangesMatch(k, d)

-----------------------------------------------------------------------------
(* The score of document d with passage p and answer a. *)
ScoreInput(k, d, p, a) ==
    [question |-> QuestionOverlap(k, d), answer |-> a.overlap, passage |-> p.overlap,
     hasAnswer |-> HasAnswer(d), hasPassage |-> HasPassage(d),
     grams |-> Cardinality(Doc(d).grams), questionLength |-> Doc(d).length,
     answerTokens |-> Cardinality(GramsIn(Doc(d).answer, 1)),
     passageLength |-> Len(Doc(d).passage)]

Contaminated(s) == AtMost(input.config.threshold, Combined(s, input.config))

-----------------------------------------------------------------------------
(* A line that does not parse or has fewer tokens than two n-grams is      *)
(* skipped.                                                                *)
Prepare ==
    /\ step = "prepare"
    /\ step' = IF input.usable /\ Length >= 2 * NgramSize THEN "pick" ELSE "done"
    /\ UNCHANGED <<input, scan, passage, answer, keys, reported, dropped>>

NextCluster ==
    /\ step = "pick" /\ left = {}
    /\ IF cluster < Len(input.clusters)
         THEN /\ cluster' = cluster + 1
              /\ left' = DOMAIN input.clusters[cluster + 1]
              /\ UNCHANGED step
         ELSE step' = "done" /\ UNCHANGED <<cluster, left>>
    /\ UNCHANGED <<input, doc, passage, answer, keys, reported, dropped>>

Pick ==
    /\ step = "pick"
    /\ \E d \in left : doc' = d /\ left' = left \ {d}
    /\ step' = "question"
    /\ UNCHANGED <<input, cluster, passage, answer, keys, reported, dropped>>

Drop(why) ==
    /\ dropped' = dropped \cup {<<cluster, doc, why>>}
    /\ step' = "pick"
    /\ UNCHANGED <<input, scan, passage, answer, keys, reported>>

(* build_contamination_entry_from_match *)
TooRare ==
    /\ step = "question"
    /\ Less(QuestionOverlap(cluster, doc), Minimum)
    /\ Drop("minimum")

LengthMinimum(d) ==
    Interpolate(Doc(d).length, input.config.start, input.config.end, Minimum)

(* evaluate_document_match *)
TooRareForLength ==
    /\ step = "question"
    /\ ~Less(QuestionOverlap(cluster, doc), Minimum)
    /\ Less(QuestionOverlap(cluster, doc), LengthMinimum(doc))
    /\ Drop("length")

FindPassage ==
    /\ step = "question"
    /\ ~Less(QuestionOverlap(cluster, doc), Minimum)
    /\ ~Less(QuestionOverlap(cluster, doc), LengthMinimum(doc))
    /\ passage' = IF HasPassage(doc) THEN PassageMatch(cluster, doc) ELSE NoMatch
    /\ step' = "answer"
    /\ UNCHANGED <<input, scan, answer, keys, reported, dropped>>

FindAnswer ==
    /\ step = "answer"
    /\ answer' = IF HasAnswer(doc) THEN AnswerMatch(cluster, doc) ELSE NoMatch
    /\ step' = "score"
    /\ UNCHANGED <<input, scan, passage, keys, reported, dropped>>

Acquit ==
    /\ step = "score"
    /\ ~Contaminated(ScoreInput(cluster, doc, passage, answer))
    /\ Drop("score")

Convict ==
    /\ step = "score"
    /\ Contaminated(ScoreInput(cluster, doc, passage, answer))
    /\ step' = "finalize"
    /\ UNCHANGED <<input, scan, passage, answer, keys, reported, dropped>>

\* Mutant of EntryEnd: the question is not cut where the answer begins.
MutEntryEnd(k, d, a) == QuestionEnd(k, d)

(* finalize_contaminated_entry: the question ends before the answer if the *)
(* cluster is longer than it.                                              *)
EntryEnd(k, d, a) ==
    IF a.found /\ a.ranges[1][1] <= QuestionEnd(k, d) /\ ClusterLength(k, d) > Doc(d).length
      THEN Below(a.ranges[1][1], 1) ELSE QuestionEnd(k, d)

Entry ==
    [doc |-> doc, cluster |-> cluster, start |-> QuestionStart(cluster, doc),
     end |-> EntryEnd(cluster, doc, answer), passage |-> passage.ranges,
     answers |-> answer.ranges]

Key == <<Doc(doc).instance, QuestionStart(cluster, doc)>>

\* Mutant of Report: the key is looked up and not kept.
MutReport ==
    /\ step = "finalize" /\ Key \notin keys
    /\ reported' = Append(reported, Entry)
    /\ step' = "pick"
    /\ UNCHANGED <<input, scan, passage, answer, keys, dropped>>

Report ==
    /\ step = "finalize" /\ Key \notin keys
    /\ keys' = keys \cup {Key}
    /\ reported' = Append(reported, Entry)
    /\ step' = "pick"
    /\ UNCHANGED <<input, scan, passage, answer, dropped>>

Repeat ==
    /\ step = "finalize" /\ Key \in keys
    /\ Drop("repeat")

Next ==
    \/ Prepare \/ NextCluster \/ Pick \/ TooRare \/ TooRareForLength \/ FindPassage
    \/ FindAnswer \/ Acquit \/ Convict \/ Report \/ Repeat

Spec == Init /\ [][Next]_vars

-----------------------------------------------------------------------------
(* Properties. *)

\* What the full check of a match would have been given.
Full(k, d) == ScoreInput(k, d, IF HasPassage(d) THEN PassageMatch(k, d) ELSE NoMatch,
                               IF HasAnswer(d) THEN AnswerMatch(k, d) ELSE NoMatch)

Early == {x \in dropped : x[3] \in {"minimum", "length"}}

\* The question keeps a weight of 0.7 at least.
LongQuestion(d) ==
    Cardinality(Doc(d).grams) >= (CASE HasAnswer(d) /\ HasPassage(d) -> 20
                                    [] HasAnswer(d) /\ ~HasPassage(d) -> 18
                                    [] ~HasAnswer(d) /\ HasPassage(d) -> 13
                                    [] OTHER -> 0)

\* Answer and passage do not lower the score that the length requires.
LengthOfQuestion(k, d) ==
    /\ AtMost(<<3, 10>>, input.config.threshold)
    /\ Required(Full(k, d), input.config) =
          Interpolate(Doc(d).length, input.config.start, input.config.end,
                      input.config.threshold)

(* What the early exits leave out (minimum_question_idf_threshold, and the *)
(* same adjusted to the question's length) cannot reach the threshold with *)
(* the answer and the passage, if the question has enough n-grams to keep  *)
(* its weight and, for the second exit, the whole document is not allowed  *)
(* a lower score than the question alone, nor the threshold below 0.3.     *)
EarlyExitsSound ==
    \A x \in Early :
        LongQuestion(x[2]) /\ (x[3] = "length" => LengthOfQuestion(x[1], x[2]))
            => ~Contaminated(Full(x[1], x[2]))

(* Scaling the score and comparing it with the threshold comes to the same *)
(* as comparing it with the score that the length requires                 *)
(* (calculate_combined_contamination_score, is_contaminated), unless the   *)
(* threshold is 0, which everything reaches.                               *)
ReportedAsRequired ==
    Less(Zero, input.config.threshold) =>
        /\ \A j \in DOMAIN reported :
              LET s == Full(reported[j].cluster, reported[j].doc)
              IN  AtMost(Required(s, input.config), Base(s))
        /\ \A x \in dropped : x[3] = "score" =>
              LET s == Full(x[1], x[2]) IN Less(Base(s), Required(s, input.config))

(* The parts of an entry are in the line and stand in the order passage,   *)
(* question, answer without overlap, also when the cluster has run into    *)
(* the answer (finalize_contaminated_entry, calculate_excess_tokens).      *)
PartsInOrder ==
    \A j \in DOMAIN reported :
        LET e == reported[j]
            parts == e.passage \o <<<<e.start, e.end>>>> \o e.answers
        IN  /\ \A m \in DOMAIN parts : 0 <= parts[m][1] /\ parts[m][1] <= parts[m][2]
                                       /\ parts[m][2] < Length
            /\ \A m \in DOMAIN parts \ {1} : parts[m - 1][2] < parts[m][1]

PassageFits(k, d, p) ==
    LET n == PassageNgramSize
        hits == {i \in 0 .. QuestionStart(k, d) - 1 - n :
                    /\ i >= QuestionStart(k, d) - 1 - PassageWindow(k, d)
                    /\ Gram(i, n) \in PassageGrams(d)}
        chained == {i \in hits : \A j \in i .. Max(hits) - PassageMisses :
                                     \E h \in hits : j <= h /\ h <= j + PassageMisses}
    IN  IF hits = {} THEN ~p.found
        ELSE p.ranges = <<<<Min(chained), Max(hits) + n - 1>>>>

AnswerFits(k, d, a) ==
    LET n == AnswerNgramSize
        hits == {i \in AnswerStart(k, d) .. Length - n :
                    /\ i + n <= AnswerStart(k, d) + AnswerWindow(d)
                    /\ Gram(i, n) \in AnswerGrams(d)}
        r == a.ranges
    IN  /\ \A i \in hits : \E m \in DOMAIN r : r[m][1] <= i /\ i + n - 1 <= r[m][2]
        /\ \A m \in DOMAIN r : r[m][1] \in hits /\ r[m][2] - n + 1 \in hits
        /\ \A m \in DOMAIN r : \A i \in hits :
              r[m][1] <= i /\ i + n - 1 < r[m][2] =>
                 \E h \in hits : i < h /\ h <= i + n - 1 + n
        /\ \A m \in DOMAIN r \ {1} : r[m][1] > r[m - 1][2] + n

ExactFits(k, d, a) ==
    LET begins == {i \in AnswerStart(k, d) .. AnswerStart(k, d) + ShortWindow - 1 :
                      \A j \in DOMAIN Doc(d).answer :
                         i + j <= Length /\ input.tokens[i + j] = Doc(d).answer[j]}
    IN  IF begins = {} THEN ~a.found ELSE a.ranges[1][1] = Min(begins)

(* The traversals compute what is said of them: the passage reaches from   *)
(* the last hit that ends two tokens before the question back to the first *)
(* that is reached without too many misses; the ranges of a long answer    *)
(* cover exactly its hits in the window, those close together in one       *)
(* range; a short answer is found where it first occurs.                   *)
BoundariesFit ==
    /\ step \in {"answer", "score", "finalize"} /\ HasPassage(doc) /\ input.common = {} =>
          PassageFits(cluster, doc, passage)
    /\ step \in {"score", "finalize"} /\ HasAnswer(doc) /\ input.common = {} =>
          IF IsShort(doc) THEN ExactFits(cluster, doc, answer)
                          ELSE AnswerFits(cluster, doc, answer)

KeyOf(k, d) == <<Doc(d).instance, QuestionStart(k, d)>>
Guilty == {x \in UNION {{k} \X DOMAIN input.clusters[k] : k \in DOMAIN input.clusters} :
              \A y \in dropped : y[3] # "repeat" => <<y[1], y[2]>> # x}

(* Whatever the order in which the hash map gives the documents of a       *)
(* cluster: every key of a contaminated match is reported exactly once,    *)
(* from the first cluster that has it.                                     *)
EachKeyOnce ==
    step = "done" /\ cluster > 0 =>
        \A x \in Guilty :
            LET own == {j \in DOMAIN reported :
                           KeyOf(reported[j].cluster, reported[j].doc) = KeyOf(x[1], x[2])}
            IN  Cardinality(own) = 1 /\ \A j \in own : reported[j].cluster <= x[1]

=============================================================================
