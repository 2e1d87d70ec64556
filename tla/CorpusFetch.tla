---------------------------- MODULE CorpusFetch ----------------------------
(***************************************************************************)
(* The corpora the guest benchmarks run on.                                *)
(*                                                                         *)
(* eest/scripts/fetch-devnet-batches.py resolves the latest batches of a   *)
(* rolling catalog, downloads, verifies and extracts each of them under an *)
(* output root, and writes a manifest last.  The catalog and its objects   *)
(* change while it runs; it can fail at every step and it can be killed    *)
(* between any two, and whatever it wrote stays behind.                    *)
(*                                                                         *)
(* eest/consume/evmz_fixture_source.py describes a released corpus with a  *)
(* manifest of the same place and shape.                                   *)
(*                                                                         *)
(* A batch archive is a record: the block range its own metadata claims,   *)
(* whether every member stays inside the extraction directory, the         *)
(* blockchain_tests directories, the fixture files below them, and the     *)
(* artifact rows of its metadata.  Its SHA-256 is the archive itself.      *)
(***************************************************************************)
EXTENDS Integers, Sequences, FiniteSets, SequencesExt

CONSTANTS
  Count,      \* --latest-batches
  Lines,      \* the lines the publisher may put in batches.jsonl
  Releases,   \* the released corpora --input may resolve to
  MaxChanges, \* bound on what the publisher does
  MaxRuns     \* bound on how often either script is started

ASSUME CountIsInteger == Count \in Int
ASSUME BoundsAreNatural == MaxChanges \in Nat /\ MaxRuns \in Nat

\* Fixtures are files below a blockchain_tests directory, so an archive with
\* fixtures has such a directory.
ASSUME LinesAreTyped ==
  \A line \in Lines :
    /\ {line.start, line.end, line.size, line.artifacts} \subseteq Int
    /\ LET archive == line.archive IN
         /\ archive.artifacts \in Seq({archive.artifacts[i] : i \in DOMAIN archive.artifacts})
         /\ IsFiniteSet(archive.fixtures) /\ IsFiniteSet(archive.roots)
         /\ archive.fixtures # {} => archive.roots # {}

ASSUME ReleasesAreTyped ==
  \A rel \in Releases :
    /\ rel.cases \in Seq({rel.cases[i] : i \in DOMAIN rel.cases})
    /\ \A path \in DOMAIN rel.files : rel.files[path] \in Seq(Seq(BOOLEAN))

VARIABLES
  catalog,  \* the lines of batches.jsonl
  objects,  \* block range of an archive's path -> the archive stored there
  changes,  \* how often the publisher acted
  pc,       \* where the fetching process stands, "idle" when none runs
  batches,  \* the batches this run resolved
  at,       \* the batch being fetched
  blocks,   \* rows gathered from the archives' metadata
  disk,     \* what lies under --output-root
  manifest, \* what lies at --resolved-manifest
  exit,     \* how the last run ended
  starts    \* how often either script was started

server    == <<catalog, objects, changes>>
process   == <<pc, batches, at, blocks, exit, starts>>
fetchVars == <<server, process, disk, manifest>>

Archives == {line.archive : line \in Lines}
BatchId(b) == <<b.start, b.end>>
Ids == {BatchId(line) : line \in Lines}

Absent == [mode |-> "absent"] \* no object, no manifest
Torn   == [mode |-> "torn"]   \* a manifest cut short

TarFile(id, archive) == [kind |-> "archive", batch |-> id, archive |-> archive]
Extracted(id, archive, whole) ==
  [kind |-> "dir", batch |-> id, archive |-> archive, whole |-> whole]

FetchInit ==
  /\ catalog = <<>>
  /\ objects = [id \in Ids |-> Absent]
  /\ changes = 0
  /\ pc = "idle" /\ batches = <<>> /\ at = 0 /\ blocks = <<>>
  /\ disk = {} /\ manifest = Absent
  /\ exit = "none" /\ starts = 0

-----------------------------------------------------------------------------
(***************************************************************************)
(* The publisher of the catalog: it adds batches, replaces an archive or   *)
(* announces a line before or without the other half, and lets the oldest  *)
(* batch expire.                                                           *)
(***************************************************************************)
Changed == changes < MaxChanges /\ changes' = changes + 1

Store(line) == objects' = [objects EXCEPT ![BatchId(line)] = line.archive]
Announce(line) == catalog' = Append(catalog, line)

AddBatch == Changed /\ \E line \in Lines : Store(line) /\ Announce(line)
Upload == Changed /\ (\E line \in Lines : Store(line)) /\ UNCHANGED catalog
ListBatch == Changed /\ (\E line \in Lines : Announce(line)) /\ UNCHANGED objects

Expire ==
  /\ Changed
  /\ catalog # <<>>
  /\ catalog' = Tail(catalog)
  /\ objects' = [objects EXCEPT ![BatchId(Head(catalog))] = Absent]

Publisher ==
  (AddBatch \/ Upload \/ ListBatch \/ Expire) /\ UNCHANGED <<process, disk, manifest>>

-----------------------------------------------------------------------------
(***************************************************************************)
(* resolve_catalog.                                                        *)
(***************************************************************************)
StartFetch ==
  /\ pc = "idle" /\ starts < MaxRuns
  /\ pc' = "list" /\ exit' = "none" /\ starts' = starts + 1
  /\ UNCHANGED <<server, batches, at, blocks, disk, manifest>>

\* Lines that are not `wellFormed' lack a field, are of another schema or
\* network, or carry an empty length, an unsafe path or no SHA-256.
ValidateBatch(line) ==
  /\ line.wellFormed
  /\ line.start >= 0
  /\ line.end >= line.start
  /\ line.end - line.start + 1 = line.size
  /\ line.artifacts >= line.size

ValidateSequence(s) ==
  /\ s # <<>>
  /\ \A i \in 1 .. Len(s) - 1 : s[i].end + 1 = s[i + 1].start

\* list.sort is stable: of two lines with one start the later stays later.
StartsBefore(lines, i, j) ==
  \/ lines[i].start < lines[j].start
  \/ lines[i].start = lines[j].start /\ i < j

SortsByStart(order, lines) ==
  \A j, k \in DOMAIN lines : j < k => StartsBefore(lines, order[j], order[k])

InOrder(order, lines) == [k \in DOMAIN lines |-> lines[order[k]]]

LatestOf(records, n) ==
  SubSeq(records, IF Len(records) > n THEN Len(records) - n + 1 ELSE 1, Len(records))

\* The list is read once; the objects are read later, one at a time.
ResolveCatalog ==
  /\ pc = "list"
  /\ Count > 0
  /\ \A i \in DOMAIN catalog : ValidateBatch(catalog[i])
  /\ \E order \in [DOMAIN catalog -> DOMAIN catalog] :
       /\ SortsByStart(order, catalog)
       /\ batches' = LatestOf(InOrder(order, catalog), Count)
  /\ Len(batches') = Count
  /\ ValidateSequence(batches')
  /\ at' = 1
  /\ pc' = "root"
  /\ UNCHANGED <<server, blocks, exit, starts, disk, manifest>>

\* Mutant: the directory may hold what an earlier run left.
OutputRootIsUsable == TRUE

OutputRootIsEmpty == disk = {}

CheckRoot ==
  /\ pc = "root"
  /\ OutputRootIsEmpty
  /\ pc' = "fetch"
  /\ UNCHANGED <<server, batches, at, blocks, exit, starts, disk, manifest>>

-----------------------------------------------------------------------------
(***************************************************************************)
(* download_batch, one batch after the other.                              *)
(***************************************************************************)
batch == batches[at]

\* Length and SHA-256 of what came back against the resolved line.
PayloadMatches(payload, b) == payload = b.archive

DownloadBatch ==
  /\ pc = "fetch"
  /\ LET payload == objects[BatchId(batch)] IN
       /\ payload # Absent
       /\ PayloadMatches(payload, batch)
       /\ disk' = disk \union {TarFile(BatchId(batch), payload)}
  /\ pc' = "members"
  /\ UNCHANGED <<server, batches, at, blocks, exit, starts, manifest>>

stored == (CHOOSE e \in disk : e.kind = "archive" /\ e.batch = BatchId(batch)).archive

\* The member names are checked before anything is extracted; mkdir refuses
\* a directory that is already there.
ListMembers ==
  /\ pc = "members"
  /\ stored.safe
  /\ ~\E e \in disk : e.kind = "dir" /\ e.batch = BatchId(batch)
  /\ disk' = disk \union {Extracted(BatchId(batch), stored, FALSE)}
  /\ pc' = "extract"
  /\ UNCHANGED <<server, batches, at, blocks, exit, starts, manifest>>

\* tar fills the directory, then the archive is unlinked.
Extract ==
  /\ pc = "extract"
  /\ disk' = (disk \ {TarFile(BatchId(batch), stored),
                      Extracted(BatchId(batch), stored, FALSE)})
             \union {Extracted(BatchId(batch), stored, TRUE)}
  /\ pc' = "verify"
  /\ UNCHANGED <<server, batches, at, blocks, exit, starts, manifest>>

extracted == (CHOOSE e \in disk : e.kind = "dir" /\ e.batch = BatchId(batch)).archive

FixtureCountMatches(b, archive) == Cardinality(archive.fixtures) = b.artifacts
IdentityMatches(b, archive) == archive.identity = BatchId(b)

\* Mutant: the rows are counted, their paths not compared.
ArtifactsCounted(b, archive) ==
  /\ Len(archive.artifacts) = b.artifacts
  /\ \A i \in DOMAIN archive.artifacts : archive.artifacts[i].number \in Int

ArtifactsMatch(b, archive) ==
  LET rows == archive.artifacts IN
  /\ Len(rows) = b.artifacts
  /\ archive.fixtures = {rows[i].path : i \in DOMAIN rows}
  /\ \A i \in DOMAIN rows : rows[i].number \in Int

RowsFrom(archive) ==
  [i \in DOMAIN archive.artifacts |->
     [number |-> archive.artifacts[i].number, fixture |-> archive.artifacts[i].path]]

\* Mutant: the loop goes one batch too far.
VerifyAndContinue ==
  /\ pc = "verify"
  /\ FixtureCountMatches(batch, extracted)
  /\ IdentityMatches(batch, extracted)
  /\ ArtifactsMatch(batch, extracted)
  /\ blocks' = blocks \o RowsFrom(extracted)
  /\ at' = at + 1
  /\ pc' = IF at > Len(batches) THEN "roots" ELSE "fetch"
  /\ UNCHANGED <<server, batches, exit, starts, disk, manifest>>

VerifyBatch ==
  /\ pc = "verify"
  /\ FixtureCountMatches(batch, extracted)
  /\ IdentityMatches(batch, extracted)
  /\ ArtifactsMatch(batch, extracted)
  /\ blocks' = blocks \o RowsFrom(extracted)
  /\ at' = at + 1
  /\ pc' = IF at = Len(batches) THEN "roots" ELSE "fetch"
  /\ UNCHANGED <<server, batches, exit, starts, disk, manifest>>

-----------------------------------------------------------------------------
(***************************************************************************)
(* The end of main: the directories found, the manifest written last.      *)
(***************************************************************************)
FixtureRoots ==
  UNION {{<<e.batch, r>> : r \in e.archive.roots} :
           e \in {d \in disk : d.kind = "dir" /\ d.whole}}

\* The sum of a list of numbers, added up from its first.
Total(q) ==
  LET total[k \in 0 .. Len(q)] == IF k = 0 THEN 0 ELSE total[k - 1] + q[k]
  IN  total[Len(q)]

SumOfArtifacts(s) == Total([k \in DOMAIN s |-> s[k].artifacts])

\* sorted is stable too.  The rank of a row is the number of rows before it.
RowBefore(rows, i, j) ==
  \/ rows[i].number < rows[j].number
  \/ rows[i].number = rows[j].number /\ i < j

RowRank(rows, i) == Cardinality({j \in DOMAIN rows : RowBefore(rows, j, i)})

SortedRows(rows) ==
  [k \in DOMAIN rows |-> rows[CHOOSE i \in DOMAIN rows : RowRank(rows, i) = k - 1]]

Resolved ==
  [mode |-> "rolling", batches |-> batches,
   fixture_count |-> SumOfArtifacts(batches),
   fixture_roots |-> FixtureRoots, blocks |-> SortedRows(blocks)]

\* Opening the manifest empties it.
OpenManifest ==
  /\ pc = "roots"
  /\ Cardinality(FixtureRoots) = Len(batches)
  /\ manifest' = Torn
  /\ pc' = "write"
  /\ UNCHANGED <<server, batches, at, blocks, exit, starts, disk>>

\* What the process held in memory goes with it.
ProcessEnds == pc' = "idle" /\ batches' = <<>> /\ at' = 0 /\ blocks' = <<>>

WriteManifest ==
  /\ pc = "write"
  /\ manifest' = Resolved
  /\ exit' = "ok" /\ ProcessEnds
  /\ UNCHANGED <<server, starts, disk>>

(***************************************************************************)
(* Every step reads or writes a file, a process or the network, so every   *)
(* step can fail, and must when its own conditions do not hold: the run    *)
(* ends with 1 and what it wrote stays where it is.  A process that is     *)
(* killed at any step ends the same way.                                   *)
(***************************************************************************)
Abort ==
  /\ pc # "idle"
  /\ exit' = "failed" /\ ProcessEnds
  /\ UNCHANGED <<server, starts, disk, manifest>>

\* Someone empties the output root, as the refusal of a non-empty one asks.
CleanRoot ==
  /\ pc = "idle" /\ disk # {}
  /\ disk' = {}
  /\ UNCHANGED <<server, process, manifest>>

-----------------------------------------------------------------------------
(***************************************************************************)
(* evmz_fixture_source: describe a released corpus.  A release is a record *)
(* of its index (its cases, <<format, path>>) and its files; a file is the *)
(* sequence of its fixtures, a fixture the sequence of its blocks, a block *)
(* TRUE when it carries stateless input bytes.                             *)
(***************************************************************************)
IndexedPaths(rel) ==
  {rel.cases[i].path : i \in {c \in DOMAIN rel.cases :
                                rel.cases[c].format = "blockchain_test"}}

BlocksIn(file) ==
  Total([i \in DOMAIN file |-> Cardinality({j \in DOMAIN file[i] : file[i][j]})])

\* Mutant: a file is counted once for every entry that names it.
CountPerCase(rel) ==
  Total([i \in DOMAIN rel.cases |->
           IF rel.cases[i].format = "blockchain_test"
           THEN BlocksIn(rel.files[rel.cases[i].path]) ELSE 0])

CountStatelessBlocks(rel) ==
  LET paths == SetToSeq(IndexedPaths(rel))
  IN  Total([i \in DOMAIN paths |-> BlocksIn(rel.files[paths[i]])])

IndexedTests(rel) ==
  Cardinality({i \in DOMAIN rel.cases : rel.cases[i].format = "blockchain_test"})

ReleaseManifest(rel) ==
  [mode |-> "tests-zkevm", release |-> rel,
   fixture_files |-> Cardinality(IndexedPaths(rel)),
   indexed_tests |-> IndexedTests(rel),
   fixture_count |-> CountStatelessBlocks(rel)]

ResolveRelease ==
  /\ pc = "idle" /\ starts < MaxRuns
  /\ starts' = starts + 1
  /\ \E rel \in Releases :
       IF rel.hasIndex /\ rel.hasRootHash /\ IndexedPaths(rel) \subseteq DOMAIN rel.files
       THEN manifest' = ReleaseManifest(rel) /\ exit' = "ok"
       ELSE exit' = "failed" /\ UNCHANGED manifest
  /\ UNCHANGED <<server, pc, batches, at, blocks, disk>>

-----------------------------------------------------------------------------
Fetcher ==
  \/ StartFetch \/ ResolveCatalog \/ CheckRoot
  \/ DownloadBatch \/ ListMembers \/ Extract \/ VerifyBatch
  \/ OpenManifest \/ WriteManifest \/ Abort

FetchNext == Publisher \/ Fetcher \/ CleanRoot \/ ResolveRelease

FetchSpec == FetchInit /\ [][FetchNext]_fetchVars

-----------------------------------------------------------------------------
(***************************************************************************)
(* The fetch stays within its state space.                                 *)
(***************************************************************************)
FetchTypeOK ==
  /\ catalog \in Seq(Lines)
  /\ objects \in [Ids -> Archives \union {Absent}]
  /\ pc \in {"idle", "list", "root", "fetch", "members", "extract", "verify",
            "roots", "write"}
  /\ batches \in Seq(Lines)
  /\ exit \in {"none", "ok", "failed"}
  /\ pc \in {"fetch", "members", "extract", "verify"} => at \in DOMAIN batches

IsRolling(m) == m.mode = "rolling"
IsRelease(m) == m.mode = "tests-zkevm"

\* The output root holds exactly the archives the manifest names, extracted.
Published ==
  /\ IsRolling(manifest)
  /\ disk = {Extracted(BatchId(manifest.batches[k]), manifest.batches[k].archive, TRUE) :
               k \in DOMAIN manifest.batches}

(***************************************************************************)
(* main returns 0 only when the manifest and the output root belong        *)
(* together, whatever earlier runs, failed or killed, left behind: the     *)
(* workflow uploads the two as soon as the script returns 0.               *)
(***************************************************************************)
SuccessMeansPublished ==
  [][exit' = "ok" /\ pc # "idle" => Published']_fetchVars

(***************************************************************************)
(* The fetch implements CorpusPublication: a corpus that was resolved from *)
(* one reading of the list and fetched later, object by object, from a     *)
(* catalog that moves, is published whole or not at all.                   *)
(***************************************************************************)
Publication ==
  INSTANCE CorpusPublication WITH
    None <- Absent,
    corpus <- IF Published THEN manifest ELSE Absent

ImplementsCorpusPublication == Publication!Spec

(***************************************************************************)
(* count_stateless_blocks counts every block with stateless input once,    *)
(* however many index entries name its file and whatever their format.     *)
(***************************************************************************)
ReleaseCountsAreExact ==
  IsRelease(manifest) =>
    LET rel == manifest.release
        named == {rel.cases[i].path :
                    i \in {j \in DOMAIN rel.cases :
                             rel.cases[j].format = "blockchain_test"}}
        Carrying(fixture) == {j \in DOMAIN fixture : fixture[j]}
        InFile(p) == UNION {{<<p, i, j>> : j \in Carrying(rel.files[p][i])} :
                              i \in DOMAIN rel.files[p]}
        found == UNION {InFile(p) : p \in named}
    IN  /\ manifest.fixture_count = Cardinality(found)
        /\ manifest.fixture_files = Cardinality(named)
        /\ manifest.indexed_tests >= manifest.fixture_files
=============================================================================
