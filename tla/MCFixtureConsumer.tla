------------------------- MODULE MCFixtureConsumer -------------------------
(* Two tests of one file, one of the same file in another format, one of a *)
(* second file.                                                            *)
EXTENDS FixtureConsumer

MCCases ==
  [t \in {"a1", "a2", "a3", "b1"} |->
     CASE t = "a1" -> [file |-> "a", name |-> "x", format |-> "blockchain"]
       [] t = "a2" -> [file |-> "a", name |-> "y", format |-> "blockchain"]
       [] t = "a3" -> [file |-> "a", name |-> "x", format |-> "transaction"]
       [] t = "b1" -> [file |-> "b", name |-> None, format |-> "state"]]

Record(name, pass, skip) ==
  [dict |-> TRUE, typed |-> TRUE, name |-> name, pass |-> pass, skip |-> skip]

Ends(records) == [exit |-> 0, json |-> "list", records |-> records]

MCOutcomes ==
  {Ends(<<Record("x", TRUE, FALSE), Record("y", TRUE, FALSE)>>),
   Ends(<<Record("x", FALSE, TRUE), Record("y", FALSE, FALSE)>>),
   Ends(<<Record("x", TRUE, FALSE), Record("x", TRUE, FALSE)>>),
   Ends(<<[Record("x", TRUE, FALSE) EXCEPT !.typed = FALSE], Record("y", TRUE, TRUE)>>),
   [exit |-> 0, json |-> "invalid", records |-> <<>>],
   [exit |-> 1, json |-> "list", records |-> <<>>]}
=============================================================================
