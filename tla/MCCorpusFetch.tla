--------------------------- MODULE MCCorpusFetch ---------------------------
(* A catalog of one-block and two-block batches, one of them republished,  *)
(* among lines and archives that the fetch must refuse.                    *)
EXTENDS CorpusFetch

Fixture(n) == "f" \o ToString(n)
Rows(first, last) ==
  [i \in 1 .. last - first + 1 |-> [path |-> Fixture(first + i - 1), number |-> first + i - 1]]

Good(first, last) ==
  [identity |-> <<first, last>>, safe |-> TRUE, roots |-> {"blockchain_tests"},
   fixtures |-> {Fixture(n) : n \in first .. last}, artifacts |-> Rows(first, last)]

Line(first, last, archive) ==
  [wellFormed |-> TRUE, start |-> first, end |-> last, size |-> last - first + 1,
   artifacts |-> last - first + 1, archive |-> archive]

\* The same range published again, with its rows the other way round.
Republished ==
  [Good(1, 2) EXCEPT !.artifacts = <<Rows(1, 2)[2], Rows(1, 2)[1]>>]

\* Refused once the archive is open.
Unsafe     == [Good(0, 0) EXCEPT !.safe = FALSE]
Mislabeled == [Good(0, 0) EXCEPT !.identity = <<1, 1>>]
Repeating  == [Good(1, 2) EXCEPT !.artifacts = <<Rows(1, 2)[1], Rows(1, 2)[1]>>]
TwoRoots   == [Good(3, 3) EXCEPT !.roots = {"blockchain_tests", "nested/blockchain_tests"}]

MCLines ==
  {Line(0, 0, Good(0, 0)), Line(1, 2, Good(1, 2)), Line(1, 2, Republished),
   Line(3, 3, Good(3, 3)), Line(3, 3, TwoRoots), Line(1, 2, Repeating),
   Line(0, 0, Mislabeled), Line(0, 0, Unsafe)}

Cases(formats, paths) == [i \in DOMAIN paths |-> [format |-> formats[i], path |-> paths[i]]]

MCReleases ==
  {[hasIndex |-> TRUE, hasRootHash |-> TRUE,
    cases |-> Cases(<<"blockchain_test", "blockchain_test", "state_test">>, <<"a", "a", "b">>),
    files |-> [p \in {"a", "b"} |-> <<<<TRUE, FALSE>>, <<TRUE>>>>]],
   [hasIndex |-> TRUE, hasRootHash |-> TRUE,
    cases |-> Cases(<<"blockchain_test", "blockchain_test">>, <<"a", "b">>),
    files |-> [p \in {"a"} |-> <<<<TRUE>>>>]],
   [hasIndex |-> TRUE, hasRootHash |-> FALSE, cases |-> <<>>, files |-> [p \in {} |-> <<>>]]}
=============================================================================
