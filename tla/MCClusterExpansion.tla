------------------------- MODULE MCClusterExpansion -------------------------
(* Instances of ClusterExpansion for TLC. *)
EXTENDS ClusterExpansion, TLC

CONSTANTS g1, g2, g3, d1, d2

(* Every line of up to six n-grams. *)
AllLines == UNION {[1 .. n -> Ids \cup {NoId}] : n \in 0 .. 6}

(* One document per id, a shared id, a shared hot id, and all ids shared.   *)
SomeIndexes ==
    {[docs |-> (g1 :> {d1}) @@ (g2 :> {d2}) @@ (g3 :> {d1, d2}), hot |-> hot] :
        hot \in {{}, {g3}}}
      \cup {[docs |-> (g1 :> {d1}) @@ (g2 :> {d1}) @@ (g3 :> {d1, d2}), hot |-> {}]}

=============================================================================
