------------------------- MODULE CorpusPublication -------------------------
(***************************************************************************)
(* What fetching a rolling corpus promises the benchmark that runs on it:  *)
(* there is either no corpus, or a whole one.  A corpus appears in one     *)
(* step and never changes; it can only be taken away, by whoever empties   *)
(* its directory or starts to write the next manifest.                     *)
(***************************************************************************)
EXTENDS Integers, Sequences, FiniteSets

CONSTANTS Count,  \* batches in a corpus
          None    \* no corpus

VARIABLE corpus

(***************************************************************************)
(* The batches cover one unbroken range of blocks.                         *)
(***************************************************************************)
Contiguous(c) ==
  \A i \in 1 .. Len(c.batches) - 1 :
    c.batches[i].end + 1 = c.batches[i + 1].start

(***************************************************************************)
(* The rows the manifest gives for the file named f, and the batches that  *)
(* brought a file of that name.                                            *)
(***************************************************************************)
RowsOf(c, f) == {i \in DOMAIN c.blocks : c.blocks[i].fixture = f}
HoldersOf(c, f) ==
  {k \in DOMAIN c.batches : f \in c.batches[k].archive.fixtures}

Whole(c) ==
  /\ Len(c.batches) = Count
  /\ Contiguous(c)
     \* one row for every fixture file, and none for anything else
  /\ \A f \in UNION {c.batches[k].archive.fixtures : k \in DOMAIN c.batches} :
       Cardinality(RowsOf(c, f)) = Cardinality(HoldersOf(c, f))
  /\ c.fixture_count = Len(c.blocks)
     \* the benchmark walks one directory per batch
  /\ \A k \in DOMAIN c.batches :
       Cardinality({r \in c.fixture_roots :
                      r[1] = <<c.batches[k].start, c.batches[k].end>>}) = 1
     \* rows come in the order of their blocks
  /\ \A i, j \in DOMAIN c.blocks :
       i < j => c.blocks[i].number <= c.blocks[j].number

Init == corpus = None

Publish == corpus = None /\ corpus' # None /\ Whole(corpus')
Withdraw == corpus' = None

Next == Publish \/ Withdraw
Spec == Init /\ [][Next]_corpus
=============================================================================
