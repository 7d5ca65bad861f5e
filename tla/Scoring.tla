------------------------------- MODULE Scoring -------------------------------
(***************************************************************************)
(* The score of a document that a training line matches (scoring.rs).      *)
(* The f32 numbers of the code are exact fractions here; properties about  *)
(* rounding are out of the model.                                          *)
(***************************************************************************)
EXTENDS Integers, FiniteSets

CONSTANT Unset   \* a decay length that is not configured

-----------------------------------------------------------------------------
(* Fractions <<numerator, denominator>> of natural numbers, reduced. *)

gcd[n \in Nat] == [m \in Nat |-> IF n = 0 THEN m ELSE gcd[m % n][n]]

Frac(n, d) == LET g == gcd[d][n] IN <<n \div g, d \div g>>
Zero == <<0, 1>>
One  == <<1, 1>>
Plus(x, y)  == Frac(x[1] * y[2] + y[1] * x[2], x[2] * y[2])
Minus(x, y) == Frac(x[1] * y[2] - y[1] * x[2], x[2] * y[2])   \* for y <= x
Times(x, y) == Frac(x[1] * y[1], x[2] * y[2])
Over(x, y)  == Frac(x[1] * y[2], x[2] * y[1])
AtMost(x, y) == x[1] * y[2] <= y[1] * x[2]
Less(x, y)   == ~AtMost(y, x)

-----------------------------------------------------------------------------
(* calculate_question_idf_overlap, calculate_answer_cluster_idf_overlap:   *)
(* the n-grams that all documents share weigh ln(1) = 0, the others are    *)
(* given the weight 1.                                                     *)
Weight(S, common) == Cardinality(S \ common)
Overlap(part, whole, common) ==
    IF Weight(whole, common) > 0
      THEN Frac(Weight(part \cap whole, common), Weight(whole, common)) ELSE Zero

(* interpolate_threshold: 1 for short texts, the target for long ones. *)
Interpolate(length, start, end, target) ==
    IF start = Unset THEN target
    ELSE IF length <= start THEN One
    ELSE IF end = Unset \/ length >= end THEN target
    ELSE Minus(One, Times(Minus(One, target), Frac(length - start, end - start)))

\* Mutant of MinimumQuestion: the weights of another kind of document.
MutMinimumQuestion(threshold) ==
    IF AtMost(threshold, <<1, 10>>) THEN Zero
    ELSE Over(Minus(threshold, <<1, 10>>), <<9, 10>>)

(* calculate_minimum_question_idf_threshold *)
MinimumQuestion(threshold) ==
    IF AtMost(threshold, <<3, 10>>) THEN Zero
    ELSE Over(Minus(threshold, <<3, 10>>), <<7, 10>>)

QuestionConfidence(grams) == IF grams < 20 THEN Frac(20 + grams, 40) ELSE One
AnswerConfidence(tokens)  == IF tokens < 4 THEN Frac(4 + tokens, 8) ELSE One

(* What a document has: hasAnswer, hasPassage, the number of unique        *)
(* n-grams of its question and of unique tokens of its answer.  The weight *)
(* that a short question loses goes to the answer and the passage, what a  *)
(* short answer loses to the passage.                                      *)
Weights(s) ==
    LET sure == QuestionConfidence(s.grams)
        lost(w) == Times(w, Minus(One, sure))
        three == LET a == Plus(<<1, 5>>, Times(<<1, 2>>, lost(<<7, 10>>)))
                     p == Plus(<<1, 10>>, Times(<<1, 2>>, lost(<<7, 10>>)))
                     c == AnswerConfidence(s.answerTokens)
                 IN  [question |-> Times(<<7, 10>>, sure), answer |-> Times(a, c),
                      passage |-> Plus(p, Times(a, Minus(One, c)))]
    IN  CASE s.hasAnswer /\ s.hasPassage -> three
          [] s.hasAnswer /\ ~s.hasPassage ->
               [question |-> Times(<<3, 4>>, sure), answer |-> Plus(<<1, 4>>, lost(<<3, 4>>)),
                passage |-> Zero]
          [] ~s.hasAnswer /\ s.hasPassage ->
               [question |-> Times(<<17, 20>>, sure), answer |-> Zero,
                passage |-> Plus(<<3, 20>>, lost(<<17, 20>>))]
          [] OTHER -> [question |-> One, answer |-> Zero, passage |-> Zero]

Base(s) ==
    LET w == Weights(s)
        b == Plus(Times(w.question, s.question),
                  Plus(Times(w.answer, s.answer), Times(w.passage, s.passage)))
    IN  IF AtMost(b, One) THEN b ELSE One

Required(s, c) ==
    Interpolate(s.questionLength + (IF s.hasAnswer THEN s.answerTokens ELSE 0)
                  + (IF s.hasPassage THEN s.passageLength ELSE 0),
                c.start, c.end, c.threshold)

\* Mutant of Scaled: scaled by the threshold that is required.
MutScaled(base, required, threshold) ==
    IF AtMost(required, threshold) \/ base = One THEN base ELSE Times(base, required)

(* A score that must reach more than the threshold is scaled down so that  *)
(* it can be compared with the threshold; a perfect one stays perfect.     *)
Scaled(base, required, threshold) ==
    IF AtMost(required, threshold) \/ base = One THEN base
    ELSE Times(base, Over(threshold, required))

(* calculate_combined_contamination_score *)
Combined(s, c) == Scaled(Base(s), Required(s, c), c.threshold)

=============================================================================
