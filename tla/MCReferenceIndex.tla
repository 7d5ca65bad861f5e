-------------------------- MODULE MCReferenceIndex --------------------------
(* Instances of ReferenceIndex for TLC. *)
EXTENDS ReferenceIndex, TLC

CONSTANTS f1, f2, f3, k1, t1, t2

Entry(doc, key, q, a, p) ==
    [kind |-> "entry", doc |-> doc, key |-> key, asked |-> TRUE,
     question |-> q, answer |-> a, passage |-> p]
Unasked(doc, key, a) == [Entry(doc, key, <<>>, a, <<>>) EXCEPT !.asked = FALSE]
Other(kind) == [kind |-> kind]

Two(s, t) == (f1 :> s) @@ (f2 :> t)
Three(s, t, u) == Two(s, t) @@ (f3 :> u)

(* Two files at once with: a question shared in part, and shorter than an  *)
(* n-gram; an answer that is another question; duplicates in two files and *)
(* in one, with and without a question; a broken line after an entry; an   *)
(* entry too short, one of too few words; a question that cleaning empties;*)
(* two documents with one id; an id beyond the width; more n-grams than    *)
(* ids may be drawn.                                                       *)
SomeInputs ==
    {<<>>,
     Two(<<Entry(1, None, <<1, 2, 3>>, <<2, 3>>, <<>>)>>,
         <<Entry(2, None, <<2, 3>>, <<>>, <<1, 2>>)>>),
     Two(<<Entry(1, k1, <<1, 2, 3, 1>>, <<>>, <<>>)>>,
         <<Entry(2, k1, <<1, 2, 3, 1>>, <<>>, <<>>), Other("comment"),
           Entry(3, None, <<2, 3, 1>>, <<1>>, <<>>)>>),
     Two(<<Unasked(1, k1, <<1, 2>>)>>,
         <<Entry(2, k1, <<1, 2>>, <<>>, <<>>), Entry(3, k1, <<1, 2>>, <<>>, <<>>)>>),
     Two(<<Entry(1, None, <<1, 2>>, <<>>, <<>>), Other("bad"),
           Entry(2, None, <<2, 1>>, <<>>, <<>>)>>,
         <<Entry(3, None, <<1, 2>>, <<1, 2, 3>>, <<>>), Entry(4, None, <<1>>, <<>>, <<>>),
           Entry(5, None, <<1, 1, 1>>, <<>>, <<>>)>>),
     Two(<<Entry(1, k1, <<>>, <<1, 2>>, <<2, 1>>)>>,
         <<Entry(2, None, <<1, 2>>, <<2, 1>>, <<1, 2>>)>>),
     Two(<<Entry(2, None, <<1, 2, 3>>, <<2, 1>>, <<>>)>>,
         <<Entry(2, None, <<3, 2, 1>>, <<2, 1>>, <<>>)>>),
     Two(<<Entry(1, None, <<1, 2, 3, 2, 1>>, <<3, 2>>, <<2, 3>>)>>,
         <<Entry(2, None, <<2, 3, 2, 3>>, <<3, 2, 1>>, <<>>)>>),
     Three(<<Entry(1, k1, <<1, 2, 3>>, <<>>, <<>>)>>, <<Entry(2, k1, <<1, 2, 3>>, <<>>, <<>>)>>,
           <<Unasked(3, k1, <<1, 2>>), Entry(4, None, <<3, 1, 2, 3>>, <<>>, <<>>)>>),
     Three(<<Entry(3, None, <<1, 2>>, <<1, 3>>, <<>>), Entry(15, None, <<3, 1>>, <<1, 2>>, <<>>)>>,
           <<Entry(20, None, <<1, 3>>, <<2, 1>>, <<>>)>>,
           <<Entry(5, k1, <<2, 1>>, <<>>, <<3, 1>>)>>),
     Two(<<Entry(1, None, <<1, 2, 3, 4, 5, 6>>, <<>>, <<>>)>>,
         <<Entry(2, None, <<6, 5, 4, 3, 2, 1>>, <<>>, <<>>)>>)}

=============================================================================
