------------------------- MODULE MCT8nDifferential -------------------------
(* Answers whose exception lists overlap without being the same, one that  *)
(* no mapper knows, one that commits to something else.                    *)
EXTENDS T8nDifferential, TLC

Rejects(names, wording) == <<[tx |-> 0, error |-> [names |-> names, wording |-> wording]]>>

MCAnswers ==
  {[consensus |-> "c1", lazy |-> TRUE, rejected |-> Rejects({"A"}, "a")],
   [consensus |-> "c1", lazy |-> FALSE, rejected |-> Rejects({"A", "B"}, "ab")],
   [consensus |-> "c1", lazy |-> FALSE, rejected |-> Rejects({"B"}, "b")],
   [consensus |-> "c1", lazy |-> FALSE, rejected |-> Rejects({}, "ab")],
   [consensus |-> "c2", lazy |-> FALSE, rejected |-> <<>>]}

Symmetry == Permutations(Tests)
=============================================================================
