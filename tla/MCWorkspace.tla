---------------------------- MODULE MCWorkspace ----------------------------
(* Instances of Workspace for TLC. *)
EXTENDS Workspace, TLC

CONSTANTS p1, p2, p3

Name(dir, stem, ext, zip) == [dir |-> dir, stem |-> <<stem>>, ext |-> ext, zip |-> zip]

(* x/a.jsonl and y/a.json.gz are this host's, x/b.json is another's. *)
MineDistinct == {Name("x", "a", "jsonl", "none"), Name("y", "a", "json", "gz")}
Distinct     == MineDistinct \cup {Name("x", "b", "json", "none")}

(* The file whose outputs may be missing: one that a marker makes skipped. *)
MinePlain == {Name("x", "a", "jsonl", "none")}

Symmetric == Permutations(Procs)

=============================================================================
