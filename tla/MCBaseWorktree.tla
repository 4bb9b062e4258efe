--------------------------- MODULE MCBaseWorktree ---------------------------
EXTENDS BaseWorktree, TLC

CONSTANTS p1, p2

\* main has left the feature branch at root.
MergeBases ==
  [c \in Commit \X Commit |-> IF c[1] = c[2] THEN c[1] ELSE "root"]

Bare   == [contract |-> FALSE, discharged |-> [k \in Key |-> FALSE],
           witness |-> NoWitness, reached |-> FALSE]
Argued == [Bare EXCEPT !.contract = TRUE, !.reached = TRUE]
Reread == [Bare EXCEPT !.discharged = [k \in {} |-> TRUE]]

At(s, c, e) == [subject |-> s, copy |-> c, evidence |-> e]

One  == {At("s", 1, Argued)}
Two  == {At("s", 1, Argued), At("s", 2, Bare)}
Both == {At("s", 1, Bare), At("t", 1, Bare)}

Contents(sites, skipped, package) ==
  [sites |-> sites, skipped |-> skipped, package |-> package]

History3(root, feature, skipped, package) ==
  [root |-> Contents(root, skipped, package),
   feature |-> Contents(feature, skipped, package),
   main |-> Contents({}, {}, "crate")]

\* s is in a vendored file, or the manifest names no package.
Histories ==
  {History3(Both, One, {}, "crate"), History3(One, Both, {"s"}, "crate"),
   History3(One, Both, {}, NoName), History3(One, Two, {}, "crate")}

Starts == {<<"feature", "main">>, <<"feature", "root">>, <<"root", "main">>}

Processes == Permutations({p1, p2})
=============================================================================
