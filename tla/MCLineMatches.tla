---------------------------- MODULE MCLineMatches ----------------------------
(* Instances of LineMatches for TLC. *)
EXTENDS LineMatches, TLC

CONSTANTS d1, d2, d3

Words(S, n) == [1 .. n -> S]
Question == <<7, 8, 9>>
Free == [threshold |-> <<1, 2>>, start |-> Unset, end |-> Unset]

Line(tokens, clusters, docs, common, config) ==
    [tokens |-> tokens, usable |-> TRUE, clusters |-> clusters, docs |-> docs,
     common |-> common, config |-> config]
\* The n-grams of a question, <<100, 1>> to <<100, n>>.
Numbered(n) == {100} \X (1 .. n)
Document(instance, n, length, a, p) ==
    [instance |-> instance, grams |-> Numbered(n), length |-> length, answer |-> a, passage |-> p]
Matched(first, last, m) == [first |-> first, last |-> last, matched |-> Numbered(m)]
One1(first, last, m) == <<d1 :> Matched(first, last, m)>>

(* Every text of up to seven tokens before the question. *)
PassageLines ==
    {Line(before \o Question, One1(Len(before), Len(before) + 1, 20),
          d1 :> Document(1, 20, 3, <<>>, p), {}, Free) :
        before \in UNION {Words({0, 3, 4}, n) : n \in {1, 2, 3, 7}},
        p \in {<<3, 4, 3>>, <<4, 3>>, <<3>>}}

(* Every text of seven tokens after it, in part covered by the cluster. *)
AnswerLines ==
    {Line(Question \o after, One1(0, last, 20),
          d1 :> Document(1, 20, 3, a, <<>>), {}, Free) :
        after \in Words({0, 1, 2}, 7), last \in {1, 3}, a \in {<<1, 2, 1>>, <<1, 2>>}}

(* Documents with and without answer and passage, both, one or none of     *)
(* them in the line, at thresholds and decay lengths of every kind.        *)
ScoreLines ==
    {Line(ends[1] \o Question \o ends[2], One1(3, 4, m),
          d1 :> Document(1, n, length, a, p), {}, [threshold |-> t, start |-> decay[1],
                                                   end |-> decay[2]]) :
        ends \in {<<<<0, 0, 0>>, <<0, 0>>>>, <<<<3, 4, 0>>, <<1, 2>>>>, <<<<0, 0, 0>>, <<1, 2>>>>},
        n \in {1, 4, 13, 18, 20}, m \in {1, 3, 4, 9, 12, 13, 14, 16, 17, 18, 20},
        length \in {3, 8}, a \in {<<>>, <<1, 2>>}, p \in {<<>>, <<3, 4>>},
        t \in {<<0, 1>>, <<1, 5>>, <<1, 2>>, <<4, 5>>, <<1, 1>>},
        decay \in {<<Unset, Unset>>, <<4, Unset>>, <<3, 12>>}}

(* Documents of one instance, in one cluster and in two; weights of zero;  *)
(* a line that is too short and one that does not parse.                   *)
KeyLines ==
    LET docs == (d1 :> Document(1, 20, 3, <<1, 2>>, <<>>)) @@ (d2 :> Document(1, 20, 3, <<2, 1>>, <<3, 4>>))
                  @@ (d3 :> Document(2, 20, 3, <<>>, <<>>))
        all(first) == (d1 :> Matched(first, first + 1, 20)) @@ (d2 :> Matched(first, first + 1, 20))
                        @@ (d3 :> Matched(first, first + 1, 12))
        tokens == Question \o <<1, 2>> \o Question \o <<2, 1>>
        some == {Line(tokens, clusters, docs, common, Free) :
                    clusters \in {<<all(0)>>, <<all(0), all(5)>>, <<all(0), all(0)>>, <<>>},
                    common \in {{}, {<<1>>, <<2>>, <<3, 4>>}}}
    IN  some \cup {[x EXCEPT !.usable = FALSE] : x \in some}
             \cup {[x EXCEPT !.tokens = <<7, 8, 9>>, !.clusters = <<>>] : x \in some}

\* matched n-grams are n-grams of the document
Lines ==
    {x \in PassageLines \cup AnswerLines \cup ScoreLines \cup KeyLines :
        \A k \in DOMAIN x.clusters : \A d \in DOMAIN x.clusters[k] :
            x.clusters[k][d].matched \subseteq x.docs[d].grams}

=============================================================================
