------------------------- MODULE BenchReportProofs -------------------------
(***************************************************************************)
(* The benchmark report, for any fixtures, any output of the runners and   *)
(* any number of runs in any directories: what is reported was vetted, and *)
(* what a report compares are medians of two runs.                         *)
(***************************************************************************)
EXTENDS BenchReport, FunctionTheorems, FiniteSetTheorems, SequenceTheorems, TLAPS

Late == {"measured", "saving", "saved", "rendering", "reporting"}

Shapes ==
  /\ printed \in Seq(Outputs)
  /\ pc \in {"idle", "commands"} \union Late
  /\ at \in 0 .. Len(Commands)
  /\ DOMAIN checkpoints = Paths /\ DOMAIN reports = OutDirs
  /\ vm_csv \in [OutDirs -> Nat] /\ raw \in [OutDirs -> [Range(Commands) -> Nat]]
  /\ DOMAIN csv = OutDirs
  /\ pc # "idle" => args.out \in OutDirs /\ args.checkpoint \in Paths

\* What the commands of the running script have left so far is its own.
Progress ==
  /\ pc = "idle" => at = 0
  /\ pc # "idle" => /\ Run > 0
                    /\ \A k \in 1 .. at : raw[args.out][Commands[k]] = Run
                    /\ at >= VmCommands => vm_csv[args.out] = Run
  /\ pc \in Late => at = Len(Commands)
  /\ \A d \in OutDirs, c \in Range(Commands) : raw[d][c] \in 0 .. Run

\* A document names a run that passed its vetting, as has the running script.
OfTrustedRun(file) == Written(file) => file.run \in 1 .. Run /\ Trusted(file.run)

Vetting ==
  /\ pc \in Late => Trusted(Run)
  /\ \A p \in Paths : OfTrustedRun(checkpoints[p])
  /\ \A d \in OutDirs : OfTrustedRun(reports[d])

Inv == Shapes /\ Progress /\ Vetting

-----------------------------------------------------------------------------
(***************************************************************************)
(* Commands, sorting and the rows of the summary.                          *)
(***************************************************************************)
LEMMA CommandsAre ==
  /\ VmCommands \in Nat \ {0} /\ Len(Commands) \in Nat /\ Len(Commands) > VmCommands
  /\ DOMAIN Commands = 1 .. Len(Commands)
<1>1. Len(Fixtures) \in Nat \ {0}
  BY ReportConstants, EmptySeq
<1>2. Len(VmEngines) = 4
  BY DEF VmEngines
<1>3. VmCommands \in Nat \ {0}
  BY <1>1, <1>2 DEF VmCommands
<1> DEFINE C == Commands
           n == VmCommands + 2
<1>4. DOMAIN C = 1 .. n
  BY DEF Commands
<1>5. C = [k \in 1 .. n |-> C[k]]
  BY DEF Commands
<1> HIDE DEF C
<1>6. n \in Nat
  BY <1>3
<1> HIDE DEF n
<1>7. C \in Seq({C[k] : k \in 1 .. n}) /\ Len(C) = n
  BY <1>4, <1>5, <1>6
<1>8. Len(C) = VmCommands + 2
  BY <1>7 DEF n
<1>9. Len(Commands) = VmCommands + 2 /\ DOMAIN Commands = 1 .. VmCommands + 2
  BY <1>4, <1>8 DEF C, n
<1> QED BY <1>3, <1>9

\* Sorting by a strict total order R: an element comes to the place that the
\* number of elements before it tells.
Orders(R, S) ==
  /\ \A x \in S : <<x, x>> \notin R
  /\ \A x, y, z \in S : <<x, y>> \in R /\ <<y, z>> \in R => <<x, z>> \in R
  /\ \A x, y \in S : x # y => <<x, y>> \in R \/ <<y, x>> \in R

Preceding(R, S, x) == {y \in S : <<y, x>> \in R}
At(x, i, R, S) == x \in S /\ Cardinality(Preceding(R, S, x)) = i - 1
Sorts(q, R, S) ==
  /\ q = [i \in 1 .. Cardinality(S) |-> q[i]]
  /\ \A i \in 1 .. Cardinality(S) : (\E x : At(x, i, R, S)) => At(q[i], i, R, S)

LEMMA PrecedingGrow ==
  ASSUME NEW S, IsFiniteSet(S), NEW R, Orders(R, S), NEW x \in S
  PROVE  /\ Cardinality(Preceding(R, S, x)) \in Nat
         /\ Cardinality(Preceding(R, S, x)) < Cardinality(S)
         /\ \A z \in S : <<x, z>> \in R =>
              Cardinality(Preceding(R, S, x)) < Cardinality(Preceding(R, S, z))
<1> DEFINE P(z) == Preceding(R, S, z)
<1>1. ASSUME NEW z \in S PROVE P(z) \in SUBSET S /\ z \notin P(z) /\ IsFiniteSet(P(z))
                              /\ Cardinality(P(z)) \in Nat
  <2>1. P(z) \in SUBSET S /\ z \notin P(z)
    BY DEF Preceding, Orders
  <2> HIDE DEF P
  <2>2. IsFiniteSet(P(z))
    BY <2>1, FS_Subset
  <2> QED BY <2>1, <2>2, FS_CardinalityType
<1>2. Cardinality(P(x)) < Cardinality(S)
  <2>1. P(x) # S
    BY <1>1
  <2> HIDE DEF P
  <2>2. Cardinality(P(x)) <= Cardinality(S) /\ Cardinality(P(x)) # Cardinality(S)
    BY <1>1, <2>1, FS_Subset
  <2> QED BY <1>1, <2>2, FS_CardinalityType
<1>3. ASSUME NEW z \in S, <<x, z>> \in R PROVE Cardinality(P(x)) < Cardinality(P(z))
  <2>1. P(x) \in SUBSET P(z) /\ x \in P(z) /\ x \notin P(x)
    BY <1>1, <1>3 DEF Preceding, Orders
  <2> HIDE DEF P
  <2>2. Cardinality(P(x)) <= Cardinality(P(z)) /\ Cardinality(P(x)) # Cardinality(P(z))
    BY <1>1, <2>1, FS_Subset
  <2> QED BY <1>1, <2>2
<1> QED BY <1>1, <1>2, <1>3

LEMMA Sorting ==
  ASSUME NEW S, IsFiniteSet(S), NEW R, Orders(R, S), NEW q, Sorts(q, R, S)
  PROVE  LET n == Cardinality(S)
         IN /\ n \in Nat /\ q \in Bijection(1 .. n, S)
            /\ \A i, j \in 1 .. n : i < j => <<q[i], q[j]>> \in R
<1> DEFINE n == Cardinality(S)
           D == 1 .. n
           rank == [x \in S |-> Cardinality(Preceding(R, S, x)) + 1]
<1>0. n \in Nat
  BY FS_CardinalityType
<1> HIDE DEF n
<1>1. /\ rank \in [S -> D]
      /\ \A x \in S : rank[x] = Cardinality(Preceding(R, S, x)) + 1
      /\ \A x, z \in S : <<x, z>> \in R => rank[x] < rank[z]
  <2>1. ASSUME NEW x \in S
        PROVE  rank[x] \in D /\ \A z \in S : <<x, z>> \in R => rank[x] < rank[z]
    <3>1. /\ Cardinality(Preceding(R, S, x)) \in Nat /\ Cardinality(Preceding(R, S, x)) < n
          /\ \A z \in S : <<x, z>> \in R =>
               Cardinality(Preceding(R, S, x)) < Cardinality(Preceding(R, S, z))
      BY PrecedingGrow DEF n
    <3>2. \A z \in S : Cardinality(Preceding(R, S, z)) \in Nat
      BY PrecedingGrow
    <3> QED BY <1>0, <3>1, <3>2
  <2> QED BY <2>1
<1> HIDE DEF rank
<1>2. \A x, z \in S : rank[x] = rank[z] => x = z
  <2> SUFFICES ASSUME NEW x \in S, NEW z \in S, x # z PROVE rank[x] # rank[z]
    OBVIOUS
  <2>1. <<x, z>> \in R \/ <<z, x>> \in R
    BY DEF Orders
  <2>2. rank[x] \in Nat /\ rank[z] \in Nat
    BY <1>0, <1>1
  <2> QED BY <1>1, <2>1, <2>2
<1>3. rank \in Surjection(S, D)
  <2>1. IsFiniteSet(D) /\ Cardinality(D) = n
    BY <1>0, FS_Interval
  <2>2. rank \in Injection(S, D)
    BY <1>1, <1>2 DEF Injection, IsInjective
  <2>3. Cardinality(S) = n
    BY DEF n
  <2> HIDE DEF D
  <2> QED BY <2>1, <2>2, <2>3, FS_Injection
<1>4. ASSUME NEW i \in D PROVE q[i] \in S /\ rank[q[i]] = i
  <2>1. PICK x \in S : rank[x] = i
    BY <1>3 DEF Surjection
  <2>2. Cardinality(Preceding(R, S, x)) = i - 1
    <3>1. Cardinality(Preceding(R, S, x)) \in Nat
      BY PrecedingGrow
    <3> QED BY <1>1, <2>1, <3>1
  <2>3. q[i] \in S /\ Cardinality(Preceding(R, S, q[i])) = i - 1
    BY <2>2 DEF Sorts, At, n
  <2> QED BY <1>1, <2>3
<1>5. q \in [D -> S]
  <2>1. q = [i \in D |-> q[i]]
    BY DEF Sorts, n
  <2> QED BY <1>4, <2>1
<1>6. \A i, j \in D : q[i] = q[j] => i = j
  BY <1>4
<1>7. ASSUME NEW x \in S PROVE \E i \in D : q[i] = x
  <2>1. rank[x] \in D /\ rank[q[rank[x]]] = rank[x] /\ q[rank[x]] \in S
    BY <1>1, <1>4
  <2> QED BY <1>2, <2>1
<1>8. q \in Bijection(D, S)
  <2>1. q \in Injection(D, S)
    BY <1>5, <1>6 DEF Injection, IsInjective
  <2>2. q \in Surjection(D, S)
    BY <1>5, <1>7 DEF Surjection
  <2> QED BY <2>1, <2>2 DEF Bijection
<1>9. ASSUME NEW i \in D, NEW j \in D, i < j PROVE <<q[i], q[j]>> \in R
  <2>1. q[i] \in S /\ q[j] \in S /\ rank[q[i]] = i /\ rank[q[j]] = j
    BY <1>4
  <2>2. q[i] # q[j]
    BY <1>9, <2>1
  <2>3. ~(<<q[j], q[i]>> \in R)
    <3>1. i \in Nat /\ j \in Nat
      BY <1>0
    <3>2. ~(rank[q[j]] < rank[q[i]])
      BY <1>9, <2>1, <3>1
    <3> QED BY <1>1, <2>1, <3>2
  <2> QED BY <2>1, <2>2, <2>3 DEF Orders
<1> QED BY <1>0, <1>8, <1>9 DEF n

\* Sorting drops no name and repeats none.
LEMMA NamesSorted ==
  ASSUME NEW S \in SUBSET Nat, IsFiniteSet(S)
  PROVE  /\ Cardinality(S) \in Nat
         /\ SortedNames(S) \in Bijection(1 .. Cardinality(S), S)
<1> DEFINE R == {p \in S \X S : p[1] < p[2]}
<1>1. \A x, y \in S : <<x, y>> \in R <=> x < y
  OBVIOUS
<1> HIDE DEF R
<1>2. Orders(R, S)
  <2>1. \A x \in S : x \in Nat
    OBVIOUS
  <2> QED BY <1>1, <2>1 DEF Orders
<1>3. \A x \in S : Preceding(R, S, x) = {y \in S : y < x}
  BY <1>1 DEF Preceding
<1>4. Sorts(SortedNames(S), R, S)
  <2> DEFINE q == SortedNames(S)
             n == Cardinality(S)
             Place(x, i) == Cardinality({y \in S : y < x}) = i - 1
  <2>1. q = [i \in 1 .. n |-> CHOOSE x \in S : Place(x, i)]
    BY DEF SortedNames, SortedBy
  <2>2. \A x \in S : \A i : At(x, i, R, S) <=> Place(x, i)
    BY <1>3 DEF At
  <2> HIDE DEF q, Place
  <2>3. ASSUME NEW i \in 1 .. n, NEW x, At(x, i, R, S) PROVE At(q[i], i, R, S)
    <3>1. x \in S /\ Place(x, i)
      BY <2>2, <2>3 DEF At
    <3>2. q[i] \in S /\ Place(q[i], i)
      BY <2>1, <3>1
    <3> QED BY <2>2, <3>2
  <2>4. q = [i \in 1 .. n |-> q[i]]
    BY <2>1
  <2> QED BY <2>3, <2>4 DEF q, Sorts
<1> QED BY <1>2, <1>4, Sorting

LEMMA SortedHolds ==
  ASSUME NEW S \in SUBSET Nat, IsFiniteSet(S), NEW x \in S
  PROVE  \E i \in DOMAIN SortedNames(S) : SortedNames(S)[i] = x
  BY NamesSorted DEF Bijection, Surjection

\* The summary has every row that a runner printed.
LEMMA SummaryHolds ==
  ASSUME NEW o \in Outputs, NEW r \in (Range(o.zig) \cup Range(o.evm2)) \ {Header}
  PROVE  \E i \in DOMAIN CombineCsvText(o.zig, o.evm2) : CombineCsvText(o.zig, o.evm2)[i] = r
<1> DEFINE a == o.zig
           b == o.evm2
           lines == a \o b
           S == {i \in DOMAIN lines : lines[i] # Header}
           kept == SortedNames(S)
<1>1. a \in Seq(Range(a) \cup Range(b)) /\ b \in Seq(Range(a) \cup Range(b))
  BY OutputsAreLists
<1>2. r \in Range(a) \cup Range(b) /\ r # Header
  OBVIOUS
<1> HIDE DEF a, b
<1>3. /\ Len(a) \in Nat /\ Len(b) \in Nat /\ Len(lines) = Len(a) + Len(b)
      /\ DOMAIN lines = 1 .. Len(lines)
      /\ \A i \in 1 .. Len(a) + Len(b) :
           lines[i] = IF i <= Len(a) THEN a[i] ELSE b[i - Len(a)]
  BY <1>1, ConcatProperties
<1> HIDE DEF lines
<1>4. PICK j \in DOMAIN lines : lines[j] = r
  <2>1. CASE r \in Range(a)
    <3>1. PICK k \in 1 .. Len(a) : a[k] = r
      BY <1>1, <2>1 DEF Range
    <3>2. k \in 1 .. Len(a) + Len(b) /\ k <= Len(a)
      BY <1>3
    <3> QED BY <1>3, <3>1, <3>2
  <2>2. CASE r \in Range(b)
    <3>1. PICK k \in 1 .. Len(b) : b[k] = r
      BY <1>1, <2>2 DEF Range
    <3>2. k + Len(a) \in 1 .. Len(a) + Len(b) /\ ~(k + Len(a) <= Len(a)) /\ k + Len(a) - Len(a) = k
      BY <1>3
    <3> QED BY <1>3, <3>1, <3>2
  <2> QED BY <1>2, <2>1, <2>2
<1>5. j \in S /\ S \in SUBSET Nat /\ IsFiniteSet(S)
  <2>1. IsFiniteSet(1 .. Len(lines)) /\ S \in SUBSET (1 .. Len(lines))
    BY <1>3, FS_Interval
  <2> QED BY <1>2, <1>3, <1>4, <2>1, FS_Subset
<1> HIDE DEF S
<1>6. PICK i \in DOMAIN kept : kept[i] = j
  BY <1>5, SortedHolds
<1>7. CombineCsvText(a, b) = [m \in DOMAIN kept |-> lines[kept[m]]]
  BY DEF CombineCsvText, Picked, kept, S, lines
<1>8. CombineCsvText(a, b)[i] = r /\ i \in DOMAIN CombineCsvText(a, b)
  BY <1>4, <1>6, <1>7
<1> QED BY <1>8 DEF a, b

\* Rows that pass the vetting vouch for everything the runners printed.
LEMMA VettedIsTrusted ==
  ASSUME printed \in Seq(Outputs), Run > 0,
         LET rows == CombineCsvText(Output.zig, Output.evm2) IN
           ReferencesAgree(rows) /\ HostUntouched(rows)
  PROVE  Trusted(Run)
<1> DEFINE rows == CombineCsvText(Output.zig, Output.evm2)
<1>1. Output \in Outputs /\ Output = printed[Run]
  BY DEF Output, Run
<1>2. \A r \in KernelOutput(Run) : \E i \in DOMAIN rows : rows[i] = r
  BY <1>1, SummaryHolds DEF KernelOutput
<1> HIDE DEF rows
<1>3. ReferencesAgree(rows) /\ HostUntouched(rows)
  BY DEF rows
<1> QED BY <1>2, <1>3 DEF Trusted, ReferencesAgree, HostUntouched

-----------------------------------------------------------------------------
(***************************************************************************)
(* The invariant.                                                          *)
(***************************************************************************)
LEMMA InitEstablishes == Init => Inv
<1> SUFFICES ASSUME Init PROVE Inv
  OBVIOUS
<1>1. printed \in Seq(Outputs) /\ Run = 0
  BY DEF Init, Run
<1>2. Shapes
  BY <1>1, CommandsAre DEF Init, Shapes, Late
<1>3. Progress
  BY <1>1 DEF Init, Progress, Late
<1>4. Vetting
  BY DEF Init, Vetting, OfTrustedRun, Written, Absent, Late
<1> QED BY <1>2, <1>3, <1>4 DEF Inv

LEMMA StartPreserves ==
  ASSUME Inv, NEW out \in OutDirs, Start(out) PROVE Inv'
<1>1. PICK o \in Outputs : printed' = Append(printed, o)
  BY DEF Start
<1>2. /\ pc = "idle" /\ pc' = "commands" /\ at' = at /\ args'.out \in OutDirs /\ args'.checkpoint \in Paths
      /\ UNCHANGED <<checkpoints, reports, vm_csv, csv, raw>>
  BY DEF Start, files, Paths
<1>3. printed \in Seq(Outputs) /\ Run \in Nat
  BY DEF Inv, Shapes, Run
<1>4. printed' \in Seq(Outputs) /\ Run' = Run + 1 /\ \A n \in 1 .. Run : printed'[n] = printed[n]
  BY <1>1, <1>3 DEF Run
<1>5. Shapes'
  BY <1>2, <1>4 DEF Inv, Shapes
<1>6. at = 0
  BY <1>2 DEF Inv, Progress
<1>7. Progress'
  BY <1>2, <1>3, <1>4, <1>6, CommandsAre DEF Inv, Progress, Late
<1>8. \A n \in 1 .. Run : Trusted(n)' <=> Trusted(n)
  BY <1>4 DEF Trusted, KernelOutput
<1>9. \A n \in 1 .. Run : n \in 1 .. Run'
  BY <1>3, <1>4
<1>10. \A p \in Paths : OfTrustedRun(checkpoints[p])'
  BY <1>2, <1>8, <1>9 DEF Inv, Vetting, OfTrustedRun, Written
<1>11. \A d \in OutDirs : OfTrustedRun(reports[d])'
  BY <1>2, <1>8, <1>9 DEF Inv, Vetting, OfTrustedRun, Written
<1>12. Vetting'
  BY <1>2, <1>10, <1>11 DEF Vetting, Late
<1> QED BY <1>5, <1>7, <1>12 DEF Inv

\* A step of the script writes nothing, an empty file, or a document of a run
\* that was vetted.
Honest(old, new) == new = old \/ OfTrustedRun(new)

FilesHonest ==
  /\ DOMAIN checkpoints' = Paths /\ \A p \in Paths : Honest(checkpoints[p], checkpoints'[p])
  /\ DOMAIN reports' = OutDirs /\ \A d \in OutDirs : Honest(reports[d], reports'[d])
  /\ DOMAIN csv' = OutDirs

LEMMA VettingKept ==
  ASSUME Inv, printed' = printed, FilesHonest, pc' \in Late => Trusted(Run)
  PROVE  Vetting'
<1>1. Run' = Run /\ Trusted(Run)' = Trusted(Run)
  BY DEF Run, Trusted, KernelOutput
<1>2. ASSUME NEW p \in Paths PROVE OfTrustedRun(checkpoints[p])'
  <2>1. OfTrustedRun(checkpoints'[p])
    BY DEF FilesHonest, Honest, Inv, Vetting
  <2> QED BY <2>1 DEF OfTrustedRun, Run, Trusted, KernelOutput, Written
<1>3. ASSUME NEW d \in OutDirs PROVE OfTrustedRun(reports[d])'
  <2>1. OfTrustedRun(reports'[d])
    BY DEF FilesHonest, Honest, Inv, Vetting
  <2> QED BY <2>1 DEF OfTrustedRun, Run, Trusted, KernelOutput, Written
<1>4. pc' \in Late => Trusted(Run)'
  BY <1>1
<1> QED BY <1>2, <1>3, <1>4 DEF Vetting

LEMMA Unwritten ==
  ASSUME Inv, UNCHANGED <<checkpoints, reports>>, DOMAIN csv' = OutDirs PROVE FilesHonest
  BY DEF Inv, Shapes, FilesHonest, Honest

\* The script ends, wherever it is.
LEMMA EndPreserves ==
  ASSUME Inv, Exit, FilesHonest, vm_csv' \in [OutDirs -> Nat],
         raw' \in [OutDirs -> [Range(Commands) -> Nat]],
         \A d \in OutDirs, c \in Range(Commands) : raw'[d][c] \in 0 .. Run
  PROVE  Inv'
<1>1. pc' = "idle" /\ at' = 0 /\ printed' = printed
  BY DEF Exit
<1>2. Run' = Run
  BY <1>1 DEF Run
<1>3. Shapes'
  BY <1>1, CommandsAre DEF Inv, Shapes, FilesHonest, Late
<1>4. Progress'
  BY <1>1, <1>2 DEF Progress, Late
<1>5. Vetting'
  BY <1>1, VettingKept DEF Late
<1> QED BY <1>3, <1>4, <1>5 DEF Inv

\* The script goes on behind its vetting.
LEMMA LatePreserves ==
  ASSUME Inv, pc # "idle", pc' \in Late, at = Len(Commands), Trusted(Run), FilesHonest,
         UNCHANGED <<at, args, printed, vm_csv, raw>>
  PROVE  Inv'
<1>1. Run' = Run
  BY DEF Run
<1>2. Shapes'
  BY DEF Inv, Shapes, FilesHonest, Late
<1>3. Progress'
  BY <1>1 DEF Inv, Progress, Late
<1>4. Vetting'
  BY VettingKept
<1> QED BY <1>2, <1>3, <1>4 DEF Inv

LEMMA LateIs ==
  ASSUME Inv, pc \in Late
  PROVE  /\ pc # "idle" /\ at = Len(Commands) /\ Trusted(Run) /\ Run \in 1 .. Run
         /\ args.out \in OutDirs /\ args.checkpoint \in Paths
         /\ vm_csv \in [OutDirs -> Nat] /\ raw \in [OutDirs -> [Range(Commands) -> Nat]]
         /\ \A d \in OutDirs, c \in Range(Commands) : raw[d][c] \in 0 .. Run
         /\ DOMAIN csv = OutDirs /\ DOMAIN checkpoints = Paths /\ DOMAIN reports = OutDirs
<1>1. Run \in Nat /\ pc # "idle"
  BY DEF Inv, Shapes, Run, Late
<1>2. Run > 0 /\ at = Len(Commands) /\ Trusted(Run)
  BY <1>1 DEF Inv, Progress, Vetting
<1>3. Run \in 1 .. Run
  BY <1>1, <1>2
<1> QED BY <1>1, <1>2, <1>3 DEF Inv, Shapes, Progress

LEMMA CommandPreserves ==
  ASSUME Inv, RunCommand PROVE Inv'
<1> DEFINE c == Commands[at + 1]
           out == args.out
<1>1. /\ pc = "commands" /\ at < Len(Commands) /\ out \in OutDirs /\ Run \in Nat /\ at \in Nat
      /\ args.checkpoint \in Paths /\ Len(Commands) \in Nat
  BY CommandsAre DEF RunCommand, Inv, Shapes, Run
<1>2. at + 1 \in DOMAIN Commands /\ c \in Range(Commands)
  BY <1>1, CommandsAre DEF Range
<1>3. raw' = [raw EXCEPT ![out][c] = Run] /\ UNCHANGED <<checkpoints, reports, csv>>
  BY DEF RunCommand, RawOf
<1>4. raw \in [OutDirs -> [Range(Commands) -> Nat]] /\ vm_csv \in [OutDirs -> Nat] /\ DOMAIN csv = OutDirs
      /\ \A d \in OutDirs, x \in Range(Commands) : raw[d][x] \in 0 .. Run
  BY DEF Inv, Shapes, Progress
<1>5. \/ Exit /\ vm_csv' = vm_csv
      \/ /\ at' = at + 1 /\ UNCHANGED <<pc, args, printed>>
         /\ vm_csv' = [vm_csv EXCEPT ![out] = IF at + 1 = VmCommands THEN Run ELSE @]
  BY DEF RunCommand
<1> HIDE DEF c, out
<1>6. /\ raw' \in [OutDirs -> [Range(Commands) -> Nat]]
      /\ \A d \in OutDirs, x \in Range(Commands) :
           raw'[d][x] = IF d = out /\ x = c THEN Run ELSE raw[d][x]
  <2> DEFINE R == [Range(Commands) -> Nat]
             row == [raw[out] EXCEPT ![c] = Run]
  <2>1. raw[out] \in R
    BY <1>1, <1>4
  <2>2. row \in R /\ \A x \in Range(Commands) : row[x] = IF x = c THEN Run ELSE raw[out][x]
    BY <1>1, <1>2, <2>1
  <2>3. raw' = [raw EXCEPT ![out] = row]
    BY <1>3
  <2>4. raw \in [OutDirs -> R]
    BY <1>4
  <2> HIDE DEF R, row
  <2>5. raw' \in [OutDirs -> R] /\ \A d \in OutDirs : raw'[d] = IF d = out THEN row ELSE raw[d]
    BY <1>1, <2>2, <2>3, <2>4
  <2>6. \A d \in OutDirs, x \in Range(Commands) :
          raw'[d][x] = IF d = out /\ x = c THEN Run ELSE raw[d][x]
    BY <2>2, <2>5
  <2> QED BY <2>5, <2>6 DEF R
<1>7. \A d \in OutDirs, x \in Range(Commands) : raw'[d][x] \in 0 .. Run
  <2>1. Run \in 0 .. Run
    BY <1>1
  <2> QED BY <1>4, <1>6, <2>1
<1>8. FilesHonest
  BY <1>3, <1>4, Unwritten
<1>9. CASE Exit /\ vm_csv' = vm_csv
  BY <1>4, <1>6, <1>7, <1>8, <1>9, EndPreserves
<1>10. CASE /\ at' = at + 1 /\ UNCHANGED <<pc, args, printed>>
            /\ vm_csv' = [vm_csv EXCEPT ![out] = IF at + 1 = VmCommands THEN Run ELSE @]
  <2>1. Run' = Run /\ pc' = "commands" /\ args' = args
    BY <1>1, <1>10 DEF Run
  <2>2. vm_csv' \in [OutDirs -> Nat]
        /\ vm_csv'[out] = IF at + 1 = VmCommands THEN Run ELSE vm_csv[out]
    BY <1>1, <1>4, <1>10
  <2>3. at' \in 0 .. Len(Commands)
    BY <1>1, <1>10
  <2>4. Shapes'
    BY <1>6, <1>8, <1>10, <2>1, <2>2, <2>3 DEF Inv, Shapes, FilesHonest, out
  <2>5. /\ Run > 0 /\ \A k \in 1 .. at : raw[out][Commands[k]] = Run
        /\ at >= VmCommands => vm_csv[out] = Run
    BY <1>1 DEF Inv, Progress, out
  <2>6. ASSUME NEW k \in 1 .. at + 1 PROVE raw'[out][Commands[k]] = Run
    <3>1. Commands[k] \in Range(Commands)
      <4>1. k \in DOMAIN Commands
        BY <1>1, CommandsAre
      <4> QED BY <4>1 DEF Range
    <3>2. k \in 1 .. at \/ k = at + 1
      BY <1>1
    <3>3. CASE k = at + 1
      BY <1>1, <1>6, <3>1, <3>3 DEF c
    <3>4. CASE k \in 1 .. at
      BY <1>1, <1>6, <2>5, <3>1, <3>4
    <3> QED BY <3>2, <3>3, <3>4
  <2>7. at + 1 >= VmCommands => vm_csv'[out] = Run
    BY <1>1, <2>2, <2>5, CommandsAre
  <2>8. Progress'
    BY <1>7, <1>10, <2>1, <2>5, <2>6, <2>7 DEF Progress, Late, out
  <2>9. Vetting'
    BY <1>8, <1>10, <2>1, VettingKept DEF Late
  <2> QED BY <2>4, <2>8, <2>9 DEF Inv
<1> QED BY <1>5, <1>9, <1>10

LEMMA KernelPreserves ==
  ASSUME Inv, RunKernel PROVE Inv'
<1> DEFINE rows == CombineCsvText(Output.zig, Output.evm2)
<1>1. /\ pc = "commands" /\ at = Len(Commands) /\ UNCHANGED <<checkpoints, reports, vm_csv, raw>>
      /\ csv' = [csv EXCEPT ![args.out] = rows]
  BY DEF RunKernel
<1>2. /\ DOMAIN csv = OutDirs /\ args.out \in OutDirs /\ printed \in Seq(Outputs) /\ Run > 0
      /\ vm_csv \in [OutDirs -> Nat] /\ raw \in [OutDirs -> [Range(Commands) -> Nat]]
      /\ \A d \in OutDirs, c \in Range(Commands) : raw[d][c] \in 0 .. Run
  BY <1>1 DEF Inv, Shapes, Progress
<1>3. DOMAIN csv' = OutDirs /\ csv'[args.out] = rows
  BY <1>1, <1>2
<1>4. FilesHonest
  BY <1>1, <1>3, Unwritten
<1>5. \/ /\ ReferencesAgree(csv'[args.out]) /\ HostUntouched(csv'[args.out])
         /\ pc' = "measured" /\ UNCHANGED <<at, args, printed>>
      \/ Exit
  BY DEF RunKernel
<1> HIDE DEF rows
<1>6. CASE /\ ReferencesAgree(csv'[args.out]) /\ HostUntouched(csv'[args.out])
           /\ pc' = "measured" /\ UNCHANGED <<at, args, printed>>
  <2>1. ReferencesAgree(rows) /\ HostUntouched(rows)
    BY <1>3, <1>6
  <2>2. Trusted(Run)
    BY <1>2, <2>1, VettedIsTrusted DEF rows
  <2> QED BY <1>1, <1>4, <1>6, <2>2, LatePreserves DEF Late
<1>7. CASE Exit
  BY <1>1, <1>2, <1>4, <1>7, EndPreserves
<1> QED BY <1>5, <1>6, <1>7

\* The checkpoint and the report: emptied, then written.
LEMMA WritingPreserves ==
  ASSUME Inv, OpenCheckpoint \/ WriteCheckpoint \/ OpenReport PROVE Inv'
<1>1. /\ pc \in Late /\ pc' \in Late /\ UNCHANGED <<at, args, printed, vm_csv, raw, csv>>
  BY DEF OpenCheckpoint, WriteCheckpoint, OpenReport, Late
<1>2. /\ pc # "idle" /\ at = Len(Commands) /\ Trusted(Run) /\ Run \in 1 .. Run
      /\ args.out \in OutDirs /\ args.checkpoint \in Paths
      /\ DOMAIN csv = OutDirs /\ DOMAIN checkpoints = Paths /\ DOMAIN reports = OutDirs
  BY <1>1, LateIs
<1>3. OfTrustedRun(Torn) /\ OfTrustedRun(BuildCheckpoint)
  BY <1>2 DEF OfTrustedRun, Written, Torn, BuildCheckpoint
<1>4. FilesHonest
  <2>1. CASE OpenCheckpoint
    BY <1>1, <1>2, <1>3, <2>1 DEF OpenCheckpoint, FilesHonest, Honest
  <2>2. CASE WriteCheckpoint
    BY <1>1, <1>2, <1>3, <2>2 DEF WriteCheckpoint, FilesHonest, Honest
  <2>3. CASE OpenReport
    BY <1>1, <1>2, <1>3, <2>3 DEF OpenReport, FilesHonest, Honest
  <2> QED BY <2>1, <2>2, <2>3
<1> QED BY <1>1, <1>2, <1>4, LatePreserves

LEMMA ReportPreserves ==
  ASSUME Inv, WriteReport PROVE Inv'
<1>1. /\ pc \in Late /\ Exit /\ UNCHANGED <<checkpoints, vm_csv, csv, raw>>
      /\ reports' = [reports EXCEPT ![args.out] = RenderReport]
  BY DEF WriteReport, Late
<1>2. /\ Trusted(Run) /\ Run \in 1 .. Run /\ args.out \in OutDirs
      /\ vm_csv \in [OutDirs -> Nat] /\ raw \in [OutDirs -> [Range(Commands) -> Nat]]
      /\ \A d \in OutDirs, c \in Range(Commands) : raw[d][c] \in 0 .. Run
      /\ DOMAIN csv = OutDirs /\ DOMAIN checkpoints = Paths /\ DOMAIN reports = OutDirs
  BY <1>1, LateIs
<1>3. OfTrustedRun(RenderReport)
  BY <1>2 DEF OfTrustedRun, Written, RenderReport
<1>4. FilesHonest
  BY <1>1, <1>2, <1>3 DEF FilesHonest, Honest
<1> QED BY <1>1, <1>2, <1>4, EndPreserves

LEMMA LoadPreserves ==
  ASSUME Inv, LoadBaseline PROVE Inv'
<1>1. /\ pc \in Late /\ UNCHANGED <<checkpoints, reports, vm_csv, csv, raw>>
      /\ Exit \/ (pc' \in Late /\ UNCHANGED <<at, args, printed>>)
  BY DEF LoadBaseline, files, Late
<1>2. /\ pc # "idle" /\ at = Len(Commands) /\ Trusted(Run)
      /\ vm_csv \in [OutDirs -> Nat] /\ raw \in [OutDirs -> [Range(Commands) -> Nat]]
      /\ \A d \in OutDirs, c \in Range(Commands) : raw[d][c] \in 0 .. Run
      /\ DOMAIN csv = OutDirs
  BY <1>1, LateIs
<1>3. FilesHonest
  BY <1>1, <1>2, Unwritten
<1>4. CASE Exit
  BY <1>1, <1>2, <1>3, <1>4, EndPreserves
<1>5. CASE pc' \in Late /\ UNCHANGED <<at, args, printed>>
  BY <1>1, <1>2, <1>3, <1>5, LatePreserves
<1> QED BY <1>1, <1>4, <1>5

LEMMA KillPreserves ==
  ASSUME Inv, Kill PROVE Inv'
<1>1. Exit /\ UNCHANGED <<checkpoints, reports, vm_csv, csv, raw>>
  BY DEF Kill, files
<1>2. /\ vm_csv \in [OutDirs -> Nat] /\ raw \in [OutDirs -> [Range(Commands) -> Nat]]
      /\ \A d \in OutDirs, c \in Range(Commands) : raw[d][c] \in 0 .. Run
      /\ DOMAIN csv = OutDirs
  BY DEF Inv, Shapes, Progress
<1>3. FilesHonest
  BY <1>1, <1>2, Unwritten
<1> QED BY <1>1, <1>2, <1>3, EndPreserves

LEMMA StepPreserves == Inv /\ [Next]_vars => Inv'
<1> SUFFICES ASSUME Inv, [Next]_vars PROVE Inv'
  OBVIOUS
<1>1. CASE UNCHANGED vars
  <2>1. UNCHANGED <<checkpoints, reports, vm_csv, csv, raw, pc, args, at, printed>>
    BY <1>1 DEF vars, files
  <2>2. Run' = Run
    BY <2>1 DEF Run
  <2>3. Shapes' /\ Progress'
    BY <2>1, <2>2 DEF Inv, Shapes, Progress
  <2>4. FilesHonest
    BY <2>1, Unwritten DEF Inv, Shapes
  <2>5. pc' \in Late => Trusted(Run)
    BY <2>1 DEF Inv, Vetting
  <2>6. Vetting'
    BY <2>1, <2>4, <2>5, VettingKept
  <2> QED BY <2>3, <2>6 DEF Inv
<1> QED BY <1>1, StartPreserves, CommandPreserves, KernelPreserves, WritingPreserves,
        LoadPreserves, ReportPreserves, KillPreserves DEF Next

LEMMA Invariance == Spec => []Inv
<1> QED BY InitEstablishes, StepPreserves, PTL DEF Spec

(***************************************************************************)
(* main: a checkpoint names a run that was started, and a script past      *)
(* run_kernel has its own output of every command in raw/ and its own      *)
(* summary, whatever earlier runs left there.                              *)
(***************************************************************************)
THEOREM TypeCorrect == Spec => []TypeOK
<1>1. ASSUME Inv PROVE TypeOK
  <2>1. \A p \in Paths : Written(checkpoints[p]) => checkpoints[p].run \in 1 .. Run
    BY <1>1 DEF Inv, Vetting, OfTrustedRun
  <2>2. ASSUME pc \in Late
        PROVE  /\ at = Len(Commands) /\ vm_csv[args.out] = Run
               /\ \A c \in Range(Commands) : raw[args.out][c] = Run
    <3>1. /\ pc # "idle" /\ at = Len(Commands) /\ at >= VmCommands
      BY <1>1, <2>2, CommandsAre DEF Inv, Progress, Late
    <3>2. ASSUME NEW c \in Range(Commands) PROVE raw[args.out][c] = Run
      <4>1. PICK k \in DOMAIN Commands : c = Commands[k]
        BY DEF Range
      <4>2. k \in 1 .. at
        BY <3>1, CommandsAre
      <4> QED BY <1>1, <3>1, <4>1, <4>2 DEF Inv, Progress
    <3> QED BY <1>1, <3>1, <3>2 DEF Inv, Progress
  <2> QED BY <1>1, <2>1, <2>2 DEF Inv, Shapes, Progress, TypeOK, Late
<1> QED BY <1>1, Invariance, PTL

(***************************************************************************)
(* run_kernel: whatever runs failed or were killed since, and in whichever *)
(* directory, a checkpoint or a report stands on kernels that every engine *)
(* executed alike and without calling its host.                            *)
(***************************************************************************)
THEOREM ReportsAreVetted == Spec => []ResultsAreVetted
<1>1. Inv => ResultsAreVetted
  BY DEF Inv, Vetting, OfTrustedRun, ResultsAreVetted
<1> QED BY <1>1, Invariance, PTL

-----------------------------------------------------------------------------
(***************************************************************************)
(* Medians.  A list of numbers is seen through a bijection g from its      *)
(* places to where the numbers come from.                                  *)
(***************************************************************************)
LEMMA FirstNumbers ==
  ASSUME NEW a \in Nat \ {0}, NEW n \in Nat
  PROVE  IsFiniteSet(a .. n) /\ (a <= n + 1 => Cardinality(a .. n) = n - a + 1)
<1>1. IsFiniteSet(a .. n) /\ Cardinality(a .. n) = IF a > n THEN 0 ELSE n - a + 1
  BY FS_Interval
<1> QED BY <1>1

\* The places that lead into U: as many as U has elements.
Places(g, n, U) == {k \in 1 .. n : g[k] \in U}

LEMMA CountThrough ==
  ASSUME NEW n \in Nat, NEW T, NEW g \in Bijection(1 .. n, T), NEW U \in SUBSET T
  PROVE  /\ IsFiniteSet(Places(g, n, U)) /\ Cardinality(Places(g, n, U)) \in Nat
         /\ Cardinality(U) = Cardinality(Places(g, n, U))
<1> DEFINE D == {k \in 1 .. n : g[k] \in U}
           h == [k \in D |-> g[k]]
<1>1. IsFiniteSet(D)
  <2>1. IsFiniteSet(1 .. n) /\ D \in SUBSET (1 .. n)
    BY FS_Interval
  <2> HIDE DEF D
  <2> QED BY <2>1, FS_Subset
<1>2. /\ g \in [1 .. n -> T]
      /\ \A i, j \in 1 .. n : g[i] = g[j] => i = j
      /\ \A x \in T : \E k \in 1 .. n : g[k] = x
  BY DEF Bijection, Injection, Surjection, IsInjective
<1>3. h \in [D -> U] /\ \A i, j \in D : h[i] = h[j] => i = j
  BY <1>2
<1>4. \A x \in U : \E k \in D : h[k] = x
  BY <1>2
<1> HIDE DEF D, h
<1>5. h \in Bijection(D, U)
  BY <1>3, <1>4 DEF Bijection, Injection, Surjection, IsInjective
<1>6. IsFiniteSet(U) /\ Cardinality(U) = Cardinality(D)
  BY <1>1, <1>5, FS_Bijection DEF ExistsBijection
<1>7. Cardinality(D) \in Nat
  BY <1>1, FS_CardinalityType
<1> QED BY <1>1, <1>6, <1>7 DEF D, Places

LEMMA AllThrough ==
  ASSUME NEW n \in Nat, NEW T, NEW g \in Bijection(1 .. n, T)
  PROVE  Cardinality(T) = n
<1>1. IsFiniteSet(1 .. n) /\ Cardinality(1 .. n) = n
  BY FS_Interval
<1> QED BY <1>1, FS_Bijection DEF ExistsBijection

\* All of the places u .. w, or only some of them, lead into U.
LEMMA PlacesOf ==
  ASSUME NEW n \in Nat, NEW T, NEW g \in Bijection(1 .. n, T), NEW U \in SUBSET T,
         NEW u \in 1 .. n + 1, NEW w \in 0 .. n, u <= w + 1
  PROVE  /\ Cardinality(U) \in Nat
         /\ (\A i \in u .. w : g[i] \in U) => Cardinality(U) >= w - u + 1
         /\ (\A i \in 1 .. n : g[i] \in U => i \in u .. w) => Cardinality(U) <= w - u + 1
<1> DEFINE D == Places(g, n, U)
<1>2. IsFiniteSet(D) /\ Cardinality(U) = Cardinality(D) /\ Cardinality(D) \in Nat
  BY CountThrough
<1> HIDE DEF D
<1>3. IsFiniteSet(u .. w) /\ Cardinality(u .. w) = w - u + 1
  BY FirstNumbers
<1>4. ASSUME \A i \in u .. w : g[i] \in U PROVE Cardinality(U) >= w - u + 1
  <2>1. u .. w \in SUBSET D
    BY <1>4 DEF D, Places
  <2>2. Cardinality(u .. w) <= Cardinality(D)
    BY <1>2, <2>1, FS_Subset
  <2> QED BY <1>2, <1>3, <2>2
<1>5. ASSUME \A i \in 1 .. n : g[i] \in U => i \in u .. w PROVE Cardinality(U) <= w - u + 1
  <2>1. D \in SUBSET (u .. w)
    BY <1>5 DEF D, Places
  <2>2. Cardinality(D) <= Cardinality(u .. w)
    BY <1>3, <2>1, FS_Subset
  <2> QED BY <1>2, <1>3, <2>2
<1> QED BY <1>2, <1>4, <1>5

\* The two middle ones of sorted numbers make the median.
LEMMA MiddleIsMedian ==
  ASSUME NEW n \in Nat \ {0}, NEW I, NEW f \in [I -> Int], NEW p \in Bijection(1 .. n, I),
         \A i, j \in 1 .. n : i < j => f[p[i]] <= f[p[j]]
  PROVE  IsMedian2(f[p[(n + 1) \div 2]] + f[p[n \div 2 + 1]], f)
<1> DEFINE h == (n + 1) \div 2
           k == n \div 2 + 1
           a == f[p[h]]
           b == f[p[k]]
<1>1. /\ h \in 1 .. n /\ k \in 1 .. n
      /\ 2 * h >= n /\ 2 * (h - 1) < n
      /\ 2 * (n - k + 1) >= n /\ 2 * (n - k) < n
  OBVIOUS
<1> HIDE DEF h, k
<1>2. p \in [1 .. n -> I] /\ DOMAIN f = I /\ a \in Int /\ b \in Int
  <2>1. p \in [1 .. n -> I]
    BY DEF Bijection, Injection
  <2> QED BY <1>1, <2>1
<1>3. \A i \in 1 .. n : f[p[i]] \in Int
  BY <1>2
<1>4. \A i, j \in 1 .. n : i <= j => f[p[i]] <= f[p[j]]
  <2> SUFFICES ASSUME NEW i \in 1 .. n, NEW j \in 1 .. n, i <= j PROVE f[p[i]] <= f[p[j]]
    OBVIOUS
  <2>1. i < j \/ i = j
    OBVIOUS
  <2>2. f[p[i]] \in Int
    BY <1>3
  <2>3. i = j => f[p[i]] <= f[p[j]]
    BY <2>2
  <2> QED BY <2>1, <2>3
<1>5. Cardinality(I) = n
  BY AllThrough
<1> HIDE DEF a, b
<1>9. /\ 2 * Cardinality({i \in I : f[i] <= a}) >= n
      /\ 2 * Cardinality({i \in I : f[i] < a}) < n
  <2> DEFINE U == {i \in I : f[i] <= a}
             V == {i \in I : f[i] < a}
  <2>1. \A i \in 1 .. h : p[i] \in U
    BY <1>1, <1>2, <1>4 DEF a
  <2>2. ASSUME NEW i \in 1 .. n, p[i] \in V PROVE i \in 1 .. h - 1
    <3>1. ~(a <= f[p[i]])
      BY <1>2, <1>3, <2>2
    <3>2. ~(h <= i)
      BY <1>1, <1>4, <3>1 DEF a
    <3> QED BY <1>1, <3>2
  <2>3. /\ U \in SUBSET I /\ V \in SUBSET I /\ n \in Nat
        /\ 1 \in 1 .. n + 1 /\ h \in 0 .. n /\ 1 <= h + 1 /\ h - 1 \in 0 .. n /\ 1 <= (h - 1) + 1
    BY <1>1
  <2> HIDE DEF U, V
  <2>4. Cardinality(U) \in Nat /\ Cardinality(U) >= h - 1 + 1
    BY <2>1, <2>3, PlacesOf
  <2>5. Cardinality(V) \in Nat /\ Cardinality(V) <= (h - 1) - 1 + 1
    BY <2>2, <2>3, PlacesOf
  <2>6. 2 * Cardinality(U) >= n /\ 2 * Cardinality(V) < n
    BY <1>1, <2>4, <2>5
  <2> QED BY <2>6 DEF U, V
<1>10. /\ 2 * Cardinality({i \in I : f[i] >= b}) >= n
       /\ 2 * Cardinality({i \in I : f[i] > b}) < n
  <2> DEFINE U == {i \in I : f[i] >= b}
             V == {i \in I : f[i] > b}
  <2>1. \A i \in k .. n : p[i] \in U
    BY <1>1, <1>2, <1>3, <1>4 DEF b
  <2>2. ASSUME NEW i \in 1 .. n, p[i] \in V PROVE i \in k + 1 .. n
    <3>1. ~(f[p[i]] <= b)
      BY <1>2, <1>3, <2>2
    <3>2. ~(i <= k)
      BY <1>1, <1>4, <3>1 DEF b
    <3> QED BY <1>1, <3>2
  <2>3. /\ U \in SUBSET I /\ V \in SUBSET I /\ n \in Nat /\ n \in 0 .. n
        /\ k \in 1 .. n + 1 /\ k <= n + 1 /\ k + 1 \in 1 .. n + 1 /\ k + 1 <= n + 1
    BY <1>1
  <2> HIDE DEF U, V
  <2>4. Cardinality(U) \in Nat /\ Cardinality(U) >= n - k + 1
    BY <2>1, <2>3, PlacesOf
  <2>5. Cardinality(V) \in Nat /\ Cardinality(V) <= n - (k + 1) + 1
    BY <2>2, <2>3, PlacesOf
  <2>6. 2 * Cardinality(U) >= n /\ 2 * Cardinality(V) < n
    BY <1>1, <2>4, <2>5
  <2> QED BY <2>6 DEF U, V
<1>11. a \in Range(f) /\ b \in Range(f)
  BY <1>1, <1>2 DEF a, b, Range
<1>12. IsMedian2(a + b, f)
  BY <1>2, <1>5, <1>9, <1>10, <1>11 DEF IsMedian2
<1> QED BY <1>12 DEF a, b, h, k

\* Sorting by value, and by place among equals.
LEMMA MedianOf ==
  ASSUME NEW n \in Nat \ {0}, NEW I, NEW f \in [I -> Int], NEW g \in Bijection(1 .. n, I),
         NEW v, v = [k \in 1 .. n |-> f[g[k]]]
  PROVE  IsMedian2(Median2(v), f)
<1> DEFINE D == 1 .. n
           Less(i, j) == v[i] < v[j] \/ (v[i] = v[j] /\ i < j)
           R == {q \in D \X D : Less(q[1], q[2])}
           o == SortedBy(D, Less)
<1>1. g \in [D -> I]
  BY DEF Bijection, Injection
<1>2. v \in [D -> Int] /\ DOMAIN v = D /\ v \in Seq(Int) /\ Len(v) = n
  BY <1>1
<1>3. IsFiniteSet(D) /\ Cardinality(D) = n
  BY FS_Interval
<1>4. \A x, y \in D : <<x, y>> \in R <=> Less(x, y)
  OBVIOUS
<1>5. Orders(R, D)
  <2>1. \A x \in D : v[x] \in Int /\ x \in Int
    BY <1>2
  <2>2. \A x, y, z \in D : Less(x, y) /\ Less(y, z) => Less(x, z)
    BY <2>1
  <2>3. \A x \in D : ~Less(x, x)
    BY <2>1
  <2>4. \A x, y \in D : x # y => Less(x, y) \/ Less(y, x)
    BY <2>1
  <2> HIDE DEF R, Less
  <2> QED BY <1>4, <2>2, <2>3, <2>4 DEF Orders
<1>6. Sorts(o, R, D)
  <2> DEFINE Place(x, i) == Cardinality({y \in D : Less(y, x)}) = i - 1
  <2>1. o = [i \in 1 .. Cardinality(D) |-> CHOOSE x \in D : Place(x, i)]
    BY DEF SortedBy
  <2>2. \A x \in D : Preceding(R, D, x) = {y \in D : Less(y, x)}
    BY <1>4 DEF Preceding
  <2>3. \A x \in D : \A i : At(x, i, R, D) <=> Place(x, i)
    BY <2>2 DEF At
  <2> HIDE DEF o, Place, R, D
  <2>4. ASSUME NEW i \in 1 .. Cardinality(D), NEW x, At(x, i, R, D) PROVE At(o[i], i, R, D)
    <3>1. x \in D /\ Place(x, i)
      BY <2>3, <2>4 DEF At
    <3>2. o[i] \in D /\ Place(o[i], i)
      BY <2>1, <3>1
    <3> QED BY <2>3, <3>2
  <2>5. o = [i \in 1 .. Cardinality(D) |-> o[i]]
    BY <2>1
  <2> QED BY <2>4, <2>5 DEF Sorts
<1>7. Median2(v) = v[o[(n + 1) \div 2]] + v[o[n \div 2 + 1]]
  BY <1>2 DEF Median2
<1>8. o \in Bijection(D, D) /\ \A i, j \in D : i < j => <<o[i], o[j]>> \in R
  <2> HIDE DEF o, R
  <2> QED BY <1>3, <1>5, <1>6, Sorting
<1> HIDE DEF o, R
<1>9. o \in [D -> D] /\ \A i, j \in D : i < j => v[o[i]] <= v[o[j]]
  <2>1. o \in [D -> D]
    BY <1>8 DEF Bijection, Injection
  <2>2. ASSUME NEW i \in D, NEW j \in D, i < j PROVE v[o[i]] <= v[o[j]]
    <3>1. o[i] \in D /\ o[j] \in D /\ <<o[i], o[j]>> \in R
      BY <1>8, <2>1, <2>2
    <3>2. Less(o[i], o[j])
      BY <1>4, <3>1
    <3>3. v[o[i]] \in Int /\ v[o[j]] \in Int
      BY <1>2, <3>1
    <3> QED BY <3>2, <3>3
  <2> QED BY <2>1, <2>2
<1> DEFINE p == [i \in D |-> g[o[i]]]
<1>10. p \in Bijection(D, I)
  BY <1>8, Fun_BijTransitive
<1>11. \A i \in D : v[o[i]] = f[p[i]]
  BY <1>9
<1>12. \A i, j \in D : i < j => f[p[i]] <= f[p[j]]
  BY <1>9, <1>11
<1> HIDE DEF p
<1>13. IsMedian2(f[p[(n + 1) \div 2]] + f[p[n \div 2 + 1]], f)
  BY <1>10, <1>12, MiddleIsMedian
<1>14. (n + 1) \div 2 \in D /\ n \div 2 + 1 \in D
  OBVIOUS
<1> QED BY <1>7, <1>11, <1>13, <1>14

\* A list, and the numbers in it, as g goes through them.
Through(s, g, n) == [k \in 1 .. n |-> s[g[k]]]
NumbersThrough(s, g, n) == [k \in 1 .. n |-> s[g[k]].ns]

\* What a list has at some places is seen through a bijection to these.
LEMMA PickedIs ==
  ASSUME NEW s, NEW P \in SUBSET Nat, IsFiniteSet(P)
  PROVE  /\ Cardinality(P) \in Nat
         /\ \E g \in Bijection(1 .. Cardinality(P), P) : Picked(s, P) = Through(s, g, Cardinality(P))
<1> DEFINE g == SortedNames(P)
<1>1. Cardinality(P) \in Nat /\ g \in Bijection(1 .. Cardinality(P), P)
  BY NamesSorted
<1>2. DOMAIN g = 1 .. Cardinality(P)
  BY <1>1 DEF Bijection, Injection
<1>3. Picked(s, P) = [k \in 1 .. Cardinality(P) |-> s[g[k]]]
  BY <1>2 DEF Picked
<1> HIDE DEF g
<1> QED BY <1>1, <1>3 DEF Through

LEMMA PlacesAreFinite ==
  ASSUME NEW n \in Nat, NEW P \in SUBSET (1 .. n)
  PROVE  P \in SUBSET Nat /\ IsFiniteSet(P)
<1>1. IsFiniteSet(1 .. n)
  BY FS_Interval
<1>2. P \in SUBSET Nat
  OBVIOUS
<1>3. IsFiniteSet(P)
  BY <1>1, FS_Subset
<1> QED BY <1>2, <1>3

Lines(o) == o.zig \o o.evm2

\* The lines of a kernel that evmz printed a number for.
LinesOf(o, case) ==
  {i \in DOMAIN Lines(o) : Lines(o)[i].engine = "evmz" /\ Lines(o)[i].case = case /\ Lines(o)[i].ns # Unknown}

LEMMA LinesAre ==
  ASSUME NEW o \in Outputs
  PROVE  /\ Len(Lines(o)) \in Nat /\ DOMAIN Lines(o) = 1 .. Len(Lines(o))
         /\ \A i \in DOMAIN Lines(o) :
              Lines(o)[i] # Header => Lines(o)[i].case \in Nat /\ Lines(o)[i].ns \in Int
         /\ \A i \in DOMAIN Lines(o) : Lines(o)[i].engine = "evmz" => Lines(o)[i] # Header
<1> DEFINE S == Range(o.zig) \cup Range(o.evm2)
<1>1. o.zig \in Seq(S) /\ o.evm2 \in Seq(S)
  BY OutputsAreLists
<1>2. \A r \in S : r # Header => r.case \in Nat /\ r.ns \in Int
  BY OutputsAreNumbers
<1> HIDE DEF S
<1>3. Lines(o) \in Seq(S)
  BY <1>1, ConcatProperties DEF Lines
<1>4. /\ Len(Lines(o)) \in Nat /\ DOMAIN Lines(o) = 1 .. Len(Lines(o))
      /\ \A i \in DOMAIN Lines(o) : Lines(o)[i] \in S
  BY <1>3
<1>5. Header.engine # "evmz"
  BY DEF Header
<1> QED BY <1>2, <1>4, <1>5

LEMMA LinesOfAre ==
  ASSUME NEW o \in Outputs, NEW case, NEW i \in LinesOf(o, case)
  PROVE  i \in DOMAIN Lines(o) /\ Lines(o)[i].ns \in Int /\ case \in Nat
<1>1. i \in DOMAIN Lines(o) /\ Lines(o)[i].engine = "evmz" /\ Lines(o)[i].case = case
  BY DEF LinesOf
<1>2. Lines(o)[i] # Header
  BY <1>1, LinesAre
<1> QED BY <1>1, <1>2, LinesAre

LEMMA RowsAreLines ==
  ASSUME NEW o \in Outputs, NEW rows, rows = CombineCsvText(o.zig, o.evm2), NEW j \in DOMAIN rows
  PROVE  \E i \in DOMAIN Lines(o) : Lines(o)[i] = rows[j]
<1> DEFINE P == {i \in DOMAIN Lines(o) : Lines(o)[i] # Header}
<1>1. rows = Picked(Lines(o), P)
  BY DEF CombineCsvText, Lines
<1>2. P \in SUBSET Nat /\ IsFiniteSet(P)
  <2>1. P \in SUBSET (1 .. Len(Lines(o))) /\ Len(Lines(o)) \in Nat
    BY LinesAre
  <2> HIDE DEF P
  <2> QED BY <2>1, PlacesAreFinite
<1>3. P \in SUBSET DOMAIN Lines(o)
  OBVIOUS
<1> HIDE DEF P
<1>4. PICK g \in Bijection(1 .. Cardinality(P), P) :
        Picked(Lines(o), P) = Through(Lines(o), g, Cardinality(P))
  BY <1>2, PickedIs
<1>5. g \in [1 .. Cardinality(P) -> P]
  BY <1>4 DEF Bijection, Injection
<1>6. j \in 1 .. Cardinality(P) /\ rows[j] = Lines(o)[g[j]]
  BY <1>1, <1>4 DEF Through
<1>7. g[j] \in DOMAIN Lines(o)
  BY <1>3, <1>5, <1>6
<1> QED BY <1>6, <1>7

\* The numbers of some rows are those of the rows that have one.
LEMMA NumbersAre ==
  ASSUME NEW rows, NEW P \in SUBSET Nat, IsFiniteSet(P),
         NEW S, S = {i \in P : rows[i].ns # Unknown}
  PROVE  /\ Cardinality(S) \in Nat
         /\ \E g \in Bijection(1 .. Cardinality(S), S) :
              Numbers(rows, P) = NumbersThrough(rows, g, Cardinality(S))
<1>1. S \in SUBSET Nat /\ S \in SUBSET P
  OBVIOUS
<1>2. IsFiniteSet(S)
  BY <1>1, FS_Subset
<1>3. Numbers(rows, P) = [k \in DOMAIN Picked(rows, S) |-> Picked(rows, S)[k].ns]
  BY DEF Numbers
<1>4. Cardinality(S) \in Nat
      /\ \E g \in Bijection(1 .. Cardinality(S), S) : Picked(rows, S) = Through(rows, g, Cardinality(S))
  BY <1>1, <1>2, PickedIs
<1>5. PICK g \in Bijection(1 .. Cardinality(S), S) : Picked(rows, S) = Through(rows, g, Cardinality(S))
  BY <1>4
<1>6. DOMAIN Picked(rows, S) = 1 .. Cardinality(S)
      /\ \A k \in 1 .. Cardinality(S) : Picked(rows, S)[k] = rows[g[k]]
  BY <1>5 DEF Through
<1>7. Numbers(rows, P) = NumbersThrough(rows, g, Cardinality(S))
  BY <1>3, <1>6 DEF NumbersThrough
<1> QED BY <1>4, <1>5, <1>7

\* The summary's numbers of a kernel are those of its lines.
LEMMA SummaryNumbers ==
  ASSUME NEW o \in Outputs, NEW case, NEW rows, rows = CombineCsvText(o.zig, o.evm2)
  PROVE  \E n \in Nat : \E g \in Bijection(1 .. n, LinesOf(o, case)) :
           Samples(rows, "evmz", case) = NumbersThrough(Lines(o), g, n)
<1> DEFINE lines == Lines(o)
           P == {i \in DOMAIN lines : lines[i] # Header}
           n1 == Cardinality(P)
           Q == {i \in DOMAIN rows : rows[i].engine = "evmz" /\ rows[i].case = case}
           I == LinesOf(o, case)
<1>1. Len(lines) \in Nat /\ DOMAIN lines = 1 .. Len(lines)
      /\ \A i \in DOMAIN lines : lines[i].engine = "evmz" => lines[i] # Header
  BY LinesAre
<1>2. I = {i \in DOMAIN lines : lines[i].engine = "evmz" /\ lines[i].case = case /\ lines[i].ns # Unknown}
  BY DEF LinesOf
<1>3. rows = Picked(lines, P)
  BY DEF CombineCsvText, Lines
<1> HIDE DEF lines, I
<1>4. P \in SUBSET Nat /\ IsFiniteSet(P)
  <2>1. P \in SUBSET (1 .. Len(lines))
    BY <1>1
  <2> HIDE DEF P
  <2> QED BY <1>1, <2>1, PlacesAreFinite
<1>5. \A i : i \in P <=> i \in DOMAIN lines /\ lines[i] # Header
  OBVIOUS
<1> HIDE DEF P, n1
<1>6. n1 \in Nat /\ \E g \in Bijection(1 .. n1, P) : Picked(lines, P) = Through(lines, g, n1)
  BY <1>4, PickedIs DEF n1
<1>7. PICK g1 \in Bijection(1 .. n1, P) : Picked(lines, P) = Through(lines, g1, n1)
  BY <1>6
<1>8. DOMAIN rows = 1 .. n1 /\ \A k \in 1 .. n1 : rows[k] = lines[g1[k]]
  BY <1>3, <1>7 DEF Through
<1>9. /\ g1 \in [1 .. n1 -> P] /\ \A i, j \in 1 .. n1 : g1[i] = g1[j] => i = j
      /\ \A x \in P : \E k \in 1 .. n1 : g1[k] = x
  BY <1>7 DEF Bijection, Injection, Surjection, IsInjective
<1>10. Q \in SUBSET Nat /\ IsFiniteSet(Q)
  <2>1. Q \in SUBSET (1 .. n1)
    BY <1>8
  <2> HIDE DEF Q
  <2> QED BY <1>6, <2>1, PlacesAreFinite
<1>11. PICK S : S = {i \in Q : rows[i].ns # Unknown}
  OBVIOUS
<1>12. \A i : i \in S <=> /\ i \in 1 .. n1 /\ rows[i].engine = "evmz" /\ rows[i].case = case
                          /\ rows[i].ns # Unknown
  BY <1>8, <1>11
<1>13. Samples(rows, "evmz", case) = Numbers(rows, Q)
  BY DEF Samples
<1> HIDE DEF Q
<1> DEFINE n2 == Cardinality(S)
<1>14. n2 \in Nat /\ \E g \in Bijection(1 .. n2, S) : Numbers(rows, Q) = NumbersThrough(rows, g, n2)
  BY <1>10, <1>11, NumbersAre
<1> HIDE DEF n2
<1>15. PICK g2 \in Bijection(1 .. n2, S) : Numbers(rows, Q) = NumbersThrough(rows, g2, n2)
  BY <1>14
<1>16. /\ g2 \in [1 .. n2 -> S] /\ \A i, j \in 1 .. n2 : g2[i] = g2[j] => i = j
       /\ \A x \in S : \E k \in 1 .. n2 : g2[k] = x
  BY <1>15 DEF Bijection, Injection, Surjection, IsInjective
<1> DEFINE g == [k \in 1 .. n2 |-> g1[g2[k]]]
<1>17. \A k \in 1 .. n2 : g2[k] \in 1 .. n1 /\ g2[k] \in S /\ rows[g2[k]] = lines[g[k]]
  BY <1>8, <1>12, <1>16
<1>18. g \in [1 .. n2 -> I]
  <2>1. ASSUME NEW k \in 1 .. n2 PROVE g1[g2[k]] \in I
    <3>1. /\ rows[g2[k]] = lines[g1[g2[k]]] /\ g1[g2[k]] \in P
          /\ rows[g2[k]].engine = "evmz" /\ rows[g2[k]].case = case /\ rows[g2[k]].ns # Unknown
      BY <1>9, <1>12, <1>17
    <3> QED BY <1>2, <1>5, <3>1
  <2> QED BY <2>1
<1>19. \A i, j \in 1 .. n2 : g[i] = g[j] => i = j
  BY <1>9, <1>16, <1>17
<1>20. ASSUME NEW x \in I PROVE \E k \in 1 .. n2 : g[k] = x
  <2>1. x \in P /\ lines[x].engine = "evmz" /\ lines[x].case = case /\ lines[x].ns # Unknown
    BY <1>1, <1>2, <1>5
  <2>2. PICK i \in 1 .. n1 : g1[i] = x
    BY <1>9, <2>1
  <2>3. i \in S
    BY <1>8, <1>12, <2>1, <2>2
  <2> QED BY <1>16, <2>2, <2>3
<1>21. NumbersThrough(rows, g2, n2) = NumbersThrough(lines, g, n2)
  BY <1>17 DEF NumbersThrough
<1> HIDE DEF g
<1>22. g \in Bijection(1 .. n2, I)
  BY <1>18, <1>19, <1>20 DEF Bijection, Injection, Surjection, IsInjective
<1>23. Samples(rows, "evmz", case) = NumbersThrough(lines, g, n2)
  BY <1>13, <1>15, <1>21
<1> QED BY <1>14, <1>22, <1>23 DEF lines, I

LEMMA KernelMedians ==
  ASSUME NEW o \in Outputs, NEW rows, rows = CombineCsvText(o.zig, o.evm2)
  PROVE  /\ DOMAIN EngineMedians(rows, "evmz") \in SUBSET Nat
         /\ IsFiniteSet(DOMAIN EngineMedians(rows, "evmz"))
         /\ \A case \in DOMAIN EngineMedians(rows, "evmz") :
              IsMedian2(EngineMedians(rows, "evmz")[case], Measured(o, "kernel", case))
<1> DEFINE M == EngineMedians(rows, "evmz")
           E == {r \in Range(rows) : r.engine = "evmz" /\ r.ns # Unknown}
<1>1. M = [case \in {r.case : r \in E} |-> Median2(Samples(rows, "evmz", case))]
  BY DEF EngineMedians
<1> HIDE DEF M
<1>2. Len(Lines(o)) \in Nat /\ DOMAIN Lines(o) = 1 .. Len(Lines(o))
  BY LinesAre
<1>3. ASSUME NEW case \in DOMAIN M PROVE \E i \in DOMAIN Lines(o) : i \in LinesOf(o, case)
  <2>1. PICK r \in E : r.case = case
    BY <1>1
  <2>2. r \in Range(rows)
    OBVIOUS
  <2>3. PICK j \in DOMAIN rows : rows[j] = r
    BY <2>2 DEF Range
  <2>4. \E i \in DOMAIN Lines(o) : Lines(o)[i] = r
    BY <2>3, RowsAreLines
  <2>5. PICK i \in DOMAIN Lines(o) : Lines(o)[i] = r
    BY <2>4
  <2>6. r.engine = "evmz" /\ r.ns # Unknown
    OBVIOUS
  <2> HIDE DEF E
  <2> QED BY <2>1, <2>5, <2>6 DEF LinesOf
<1>4. ASSUME NEW case \in DOMAIN M PROVE case \in Nat
  BY <1>3, LinesOfAre
<1>5. IsFiniteSet(DOMAIN M)
  <2> DEFINE I == {i \in DOMAIN Lines(o) : Lines(o)[i].engine = "evmz" /\ Lines(o)[i].ns # Unknown
                                           /\ Lines(o)[i].case \in DOMAIN M}
             h == [i \in I |-> Lines(o)[i].case]
  <2>1. IsFiniteSet(I)
    <3>1. I \in SUBSET (1 .. Len(Lines(o)))
      BY <1>2
    <3> HIDE DEF I
    <3> QED BY <1>2, <3>1, PlacesAreFinite
  <2>2. h \in [I -> DOMAIN M]
    OBVIOUS
  <2>3. \A c \in DOMAIN M : \E i \in I : h[i] = c
    BY <1>3 DEF LinesOf
  <2> HIDE DEF I, h
  <2>4. h \in Surjection(I, DOMAIN M)
    BY <2>2, <2>3 DEF Surjection
  <2> QED BY <2>1, <2>4, FS_Surjection
<1>6. ASSUME NEW case \in DOMAIN M PROVE IsMedian2(M[case], Measured(o, "kernel", case))
  <2> DEFINE v == Samples(rows, "evmz", case)
             I == LinesOf(o, case)
             f == [i \in I |-> Lines(o)[i].ns]
  <2>1. \E n \in Nat : \E g \in Bijection(1 .. n, I) : v = NumbersThrough(Lines(o), g, n)
    BY SummaryNumbers
  <2>2. PICK n \in Nat : \E g \in Bijection(1 .. n, I) : v = NumbersThrough(Lines(o), g, n)
    BY <2>1
  <2>3. PICK g \in Bijection(1 .. n, I) : v = NumbersThrough(Lines(o), g, n)
    BY <2>2
  <2>4. ASSUME NEW i \in I PROVE Lines(o)[i].ns \in Int
    BY LinesOfAre
  <2>5. /\ f \in [I -> Int]
        /\ g \in [1 .. n -> I] /\ \A x \in I : \E k \in 1 .. n : g[k] = x
        /\ v = [k \in 1 .. n |-> f[g[k]]]
    <3>1. g \in [1 .. n -> I] /\ \A x \in I : \E k \in 1 .. n : g[k] = x
      BY <2>3 DEF Bijection, Injection, Surjection
    <3>2. v = [k \in 1 .. n |-> Lines(o)[g[k]].ns]
      BY <2>3 DEF NumbersThrough
    <3> HIDE DEF v, I
    <3> QED BY <2>4, <3>1, <3>2
  <2>6. n \in Nat \ {0}
    <3>1. PICK i \in DOMAIN Lines(o) : i \in I
      BY <1>3
    <3>2. PICK k \in 1 .. n : TRUE
      BY <2>5, <3>1
    <3> QED BY <2>2, <3>2
  <2>7. Measured(o, "kernel", case) = f
    BY DEF Measured, LinesOf, Lines
  <2>8. M[case] = Median2(v)
    BY <1>1
  <2> HIDE DEF v, f, I
  <2>9. IsMedian2(Median2(v), f)
    BY <2>3, <2>5, <2>6, MedianOf
  <2> QED BY <2>7, <2>8, <2>9
<1> QED BY <1>4, <1>5, <1>6 DEF M

LEMMA VmLoopMedians ==
  ASSUME NEW o \in Outputs, \A f \in Range(Fixtures) : Times(o, f, "evmz") # <<>>
  PROVE  /\ DOMAIN VmMedians(o) \in SUBSET Nat /\ IsFiniteSet(DOMAIN VmMedians(o))
         /\ \A f \in DOMAIN VmMedians(o) : IsMedian2(VmMedians(o)[f], Measured(o, "vm_loop", f))
<1>1. Fixtures \in Seq(Nat)
  BY ReportConstants
<1>2. DOMAIN VmMedians(o) = Range(Fixtures) /\ Range(Fixtures) \in SUBSET Nat
  BY <1>1 DEF VmMedians, Range
<1>3. IsFiniteSet(Range(Fixtures))
  <2>1. Len(Fixtures) \in Nat /\ DOMAIN Fixtures = 1 .. Len(Fixtures)
    BY <1>1
  <2>2. IsFiniteSet(1 .. Len(Fixtures))
    BY <2>1, FS_Interval
  <2>3. Fixtures \in Surjection(1 .. Len(Fixtures), Range(Fixtures))
    BY <1>1, <2>1 DEF Surjection, Range
  <2> QED BY <2>2, <2>3, FS_Surjection
<1>4. ASSUME NEW f \in Range(Fixtures)
      PROVE  IsMedian2(VmMedians(o)[f], Measured(o, "vm_loop", f))
  <2> DEFINE t == Times(o, f, "evmz")
             n == Len(t)
             g == [k \in 1 .. n |-> k]
  <2>1. t \in Seq(Int) /\ t # <<>>
    BY OutputsAreNumbers DEF Times
  <2> HIDE DEF t
  <2>2. n \in Nat \ {0} /\ t \in [1 .. n -> Int]
    BY <2>1, EmptySeq
  <2>3. g \in Bijection(1 .. n, 1 .. n)
    BY DEF Bijection, Injection, Surjection, IsInjective
  <2>4. t = [k \in 1 .. n |-> t[g[k]]]
    BY <2>2
  <2> HIDE DEF n, g
  <2>5. IsMedian2(Median2(t), t)
    BY <2>2, <2>3, <2>4, MedianOf
  <2> QED BY <2>5 DEF VmMedians, Measured, t
<1> QED BY <1>2, <1>3, <1>4

\* A document holds the medians of what a run's commands printed.
MediansOf(c, o) ==
  /\ DOMAIN c.kernel_ns_per_iter \in SUBSET Nat /\ IsFiniteSet(DOMAIN c.kernel_ns_per_iter)
  /\ \A x \in DOMAIN c.kernel_ns_per_iter :
       IsMedian2(c.kernel_ns_per_iter[x], Measured(o, "kernel", x))
  /\ DOMAIN c.vm_loop_median_ms \in SUBSET Nat /\ IsFiniteSet(DOMAIN c.vm_loop_median_ms)
  /\ \A x \in DOMAIN c.vm_loop_median_ms :
       IsMedian2(c.vm_loop_median_ms[x], Measured(o, "vm_loop", x))

RowCompares(row, old, new) ==
  /\ IsMedian2(row.new, Measured(new, row.metric, row.name))
  /\ IsMedian2(row.old, Measured(old, row.metric, row.name))

LEMMA SectionCompares ==
  ASSUME NEW section, NEW current, NEW older, NEW new, NEW old,
         DOMAIN current \in SUBSET Nat, IsFiniteSet(DOMAIN current),
         \A x \in DOMAIN current : IsMedian2(current[x], Measured(new, section, x)),
         \A x \in DOMAIN older : IsMedian2(older[x], Measured(old, section, x))
  PROVE  LET s == SectionDeltas(section, current, older)
         IN s \in Seq(Range(s)) /\ \A row \in Range(s) : RowCompares(row, old, new)
<1> DEFINE S == {x \in DOMAIN current \cap DOMAIN older : older[x] # 0}
           n == Cardinality(S)
           names == SortedNames(S)
           Row(x) == [metric |-> section, name |-> x, old |-> older[x], new |-> current[x]]
           s == SectionDeltas(section, current, older)
<1>1. S \in SUBSET Nat /\ S \in SUBSET DOMAIN current /\ S \in SUBSET DOMAIN older
  OBVIOUS
<1>2. s = [i \in DOMAIN names |-> Row(names[i])]
  BY DEF SectionDeltas
<1> HIDE DEF S, s
<1>3. IsFiniteSet(S)
  BY <1>1, FS_Subset
<1>4. n \in Nat /\ names \in Bijection(1 .. n, S)
  BY <1>1, <1>3, NamesSorted
<1>5. DOMAIN names = 1 .. n /\ \A i \in 1 .. n : names[i] \in S
  BY <1>4 DEF Bijection, Injection
<1> HIDE DEF n, names
<1>6. s = [i \in 1 .. n |-> s[i]] /\ DOMAIN s = 1 .. n /\ \A i \in 1 .. n : s[i] = Row(names[i])
  BY <1>2, <1>5
<1>7. ASSUME NEW x \in S PROVE RowCompares(Row(x), old, new)
  <2>1. IsMedian2(current[x], Measured(new, section, x)) /\ IsMedian2(older[x], Measured(old, section, x))
    BY <1>1
  <2> QED BY <2>1 DEF RowCompares
<1> HIDE DEF Row
<1>8. ASSUME NEW row \in Range(s) PROVE RowCompares(row, old, new)
  <2>1. PICK i \in 1 .. n : s[i] = row
    BY <1>6 DEF Range
  <2> QED BY <1>5, <1>6, <1>7, <2>1
<1>9. s \in Seq(Range(s))
  <2>1. \A i \in 1 .. n : s[i] \in Range(s)
    BY <1>6 DEF Range
  <2> QED BY <1>4, <1>6, <2>1
<1> QED BY <1>8, <1>9 DEF s

\* Cutting a table keeps rows of it.
LEMMA FirstRowsOf ==
  ASSUME NEW S, NEW s \in Seq(S), NEW n \in Nat
  PROVE  \A row \in Range(FirstRows(s, n)) : row \in Range(s)
<1> DEFINE m == Min({n, Len(s)})
<1>1. Len(s) \in Nat
  OBVIOUS
<1>2. m \in Nat /\ m <= Len(s)
  <2>1. \E x \in {n, Len(s)} : \A y \in {n, Len(s)} : x <= y
    BY <1>1
  <2>2. m \in {n, Len(s)} /\ \A y \in {n, Len(s)} : m <= y
    BY <2>1 DEF Min
  <2> QED BY <1>1, <2>2
<1>3. FirstRows(s, n) = SubSeq(s, 1, m)
  BY DEF FirstRows
<1> HIDE DEF m
<1>4. DOMAIN FirstRows(s, n) = 1 .. m /\ \A i \in 1 .. m : FirstRows(s, n)[i] = s[i] /\ i \in 1 .. Len(s)
  BY <1>1, <1>2, <1>3
<1> QED BY <1>1, <1>4 DEF Range

LEMMA TableCompares ==
  ASSUME NEW c, NEW new, MediansOf(c, new), NEW base, NEW old,
         base.kind # "absent" => MediansOf(base, old)
  PROVE  \A row \in Range(RenderCheckpointDelta(c, base)) :
           base.kind # "absent" /\ RowCompares(row, old, new)
<1> DEFINE a == SectionDeltas("kernel", c.kernel_ns_per_iter, base.kernel_ns_per_iter)
           b == SectionDeltas("vm_loop", c.vm_loop_median_ms, base.vm_loop_median_ms)
           table == RenderCheckpointDelta(c, base)
<1>1. CASE base.kind = "absent"
  <2>1. table = <<>>
    BY <1>1 DEF RenderCheckpointDelta
  <2>2. Range(table) = {}
    BY <2>1 DEF Range
  <2> QED BY <2>2
<1>2. CASE base.kind # "absent"
  <2>1. MediansOf(base, old)
    BY <1>2
  <2>2. a \in Seq(Range(a)) /\ \A row \in Range(a) : RowCompares(row, old, new)
    <3>1. /\ DOMAIN c.kernel_ns_per_iter \in SUBSET Nat /\ IsFiniteSet(DOMAIN c.kernel_ns_per_iter)
          /\ \A x \in DOMAIN c.kernel_ns_per_iter :
               IsMedian2(c.kernel_ns_per_iter[x], Measured(new, "kernel", x))
          /\ \A x \in DOMAIN base.kernel_ns_per_iter :
               IsMedian2(base.kernel_ns_per_iter[x], Measured(old, "kernel", x))
      BY <2>1 DEF MediansOf
    <3> QED BY <3>1, SectionCompares
  <2>3. b \in Seq(Range(b)) /\ \A row \in Range(b) : RowCompares(row, old, new)
    <3>1. /\ DOMAIN c.vm_loop_median_ms \in SUBSET Nat /\ IsFiniteSet(DOMAIN c.vm_loop_median_ms)
          /\ \A x \in DOMAIN c.vm_loop_median_ms :
               IsMedian2(c.vm_loop_median_ms[x], Measured(new, "vm_loop", x))
          /\ \A x \in DOMAIN base.vm_loop_median_ms :
               IsMedian2(base.vm_loop_median_ms[x], Measured(old, "vm_loop", x))
      BY <2>1 DEF MediansOf
    <3> QED BY <3>1, SectionCompares
  <2>4. table = FirstRows(a \o b, DeltaRows - 1)
    BY <1>2 DEF RenderCheckpointDelta
  <2> HIDE DEF a, b, table
  <2> DEFINE S == Range(a) \cup Range(b)
  <2>5. a \in Seq(S) /\ b \in Seq(S)
    BY <2>2, <2>3
  <2>6. \A row \in S : RowCompares(row, old, new)
    BY <2>2, <2>3
  <2> HIDE DEF S
  <2>7. a \o b \in Seq(S)
    BY <2>5, ConcatProperties
  <2>8. \A row \in Range(a \o b) : row \in S
    BY <2>7 DEF Range
  <2>9. DeltaRows - 1 \in Nat
    BY ReportConstants
  <2>10. \A row \in Range(table) : row \in S
    BY <2>4, <2>7, <2>8, <2>9, FirstRowsOf
  <2> QED BY <1>2, <2>6, <2>10 DEF table
<1> QED BY <1>1, <1>2

-----------------------------------------------------------------------------
(***************************************************************************)
(* Checkpoints, baselines and reports hold medians of what their runs      *)
(* printed, and until its own checkpoint is written, a run finds only      *)
(* earlier ones.                                                           *)
(***************************************************************************)
Older(file) == Written(file) => file.run < Run

Measures(file) == Written(file) => MediansOf(file, printed[file.run])

Loaded ==
  /\ Written(baseline) /\ baseline.run \in 1 .. Run /\ MediansOf(baseline, printed[baseline.run])
  /\ args.baseline # args.checkpoint => baseline.run < Run

ReportCompares(r) ==
  /\ Written(r.baseline) /\ r.args.baseline # r.args.checkpoint => r.baseline.run < r.run
  /\ \A row \in Range(r.deltas) :
       r.baseline.run \in 1 .. Run /\ RowCompares(row, printed[r.baseline.run], printed[r.run])

TimesPrinted(n) ==
  \A k \in 1 .. n : Commands[k].suite = "vm-loop" =>
                      Times(Output, Commands[k].fixture, Commands[k].engine) # <<>>

Rendering == {"rendering", "reporting"}

\* What the running script has seen and loaded.
Measuring ==
  /\ pc # "idle" => args.baseline \in Paths \cup {NoPath} /\ TimesPrinted(at)
  /\ pc \in Late => csv[args.out] = CombineCsvText(Output.zig, Output.evm2)
  /\ pc \in {"commands", "measured", "saving"} => \A p \in Paths : Older(checkpoints[p])
  /\ pc \in {"saved"} \cup Rendering => \A p \in Paths : p # args.checkpoint => Older(checkpoints[p])
  /\ pc \in Rendering => baseline = Absent \/ Loaded
  /\ pc \notin Rendering => baseline = Absent

\* What is on disk.
Recorded ==
  /\ \A p \in Paths : Measures(checkpoints[p])
  /\ \A d \in OutDirs : Written(reports[d]) => ReportCompares(reports[d])

DeltaInv == Inv /\ Measuring /\ Recorded

LEMMA InitMeasures == Init => DeltaInv
<1> SUFFICES ASSUME Init PROVE DeltaInv
  OBVIOUS
<1>1. Inv
  BY InitEstablishes
<1>2. Measuring
  BY DEF Init, Measuring, Late, Rendering
<1>3. Recorded
  BY DEF Init, Recorded, Measures, Written, Absent
<1> QED BY <1>1, <1>2, <1>3 DEF DeltaInv

\* A further run changes nothing of what the earlier ones printed.
LEMMA StartMeasures ==
  ASSUME DeltaInv, NEW out \in OutDirs, Start(out) PROVE Measuring' /\ Recorded'
<1>1. PICK o \in Outputs : printed' = Append(printed, o)
  BY DEF Start
<1>2. /\ pc = "idle" /\ pc' = "commands" /\ at' = at /\ baseline' = baseline
      /\ checkpoints' = checkpoints /\ reports' = reports
  BY DEF Start, files
<1>3. args'.baseline \in Paths \cup {NoPath}
  BY DEF Start
<1>4. printed \in Seq(Outputs) /\ Run \in Nat /\ at = 0
  BY <1>2 DEF DeltaInv, Inv, Shapes, Progress, Run
<1>5. Run' = Run + 1 /\ \A n \in 1 .. Run : printed'[n] = printed[n]
  BY <1>1, <1>4 DEF Run
<1>6. \A p \in Paths : Written(checkpoints[p]) => checkpoints[p].run \in 1 .. Run
  BY DEF DeltaInv, Inv, Vetting, OfTrustedRun
<1>7. \A d \in OutDirs : Written(reports[d]) => reports[d].run \in 1 .. Run
  BY DEF DeltaInv, Inv, Vetting, OfTrustedRun
<1>8. Measuring'
  <2>1. TimesPrinted(at)'
    BY <1>2, <1>4 DEF TimesPrinted
  <2>2. ASSUME NEW p \in Paths PROVE Older(checkpoints[p])'
    BY <1>2, <1>4, <1>5, <1>6 DEF Older, Written
  <2>3. baseline = Absent
    BY <1>2 DEF DeltaInv, Measuring, Rendering
  <2> QED BY <1>2, <1>3, <2>1, <2>2, <2>3 DEF Measuring, Late, Rendering
<1>9. ASSUME NEW p \in Paths PROVE Measures(checkpoints[p])'
  <2>1. Measures(checkpoints[p])
    BY DEF DeltaInv, Recorded
  <2> QED BY <1>2, <1>5, <1>6, <2>1 DEF Measures, Written
<1>10. ASSUME NEW d \in OutDirs, Written(reports[d]) PROVE ReportCompares(reports[d])'
  <2> DEFINE r == reports[d]
  <2>1. ReportCompares(r) /\ r.run \in 1 .. Run
    BY <1>7, <1>10 DEF DeltaInv, Recorded
  <2>2. reports'[d] = r
    BY <1>2
  <2> HIDE DEF r
  <2>3. ASSUME NEW row \in Range(r.deltas)
        PROVE  r.baseline.run \in 1 .. Run' /\ RowCompares(row, printed'[r.baseline.run], printed'[r.run])
    <3>1. r.baseline.run \in 1 .. Run /\ RowCompares(row, printed[r.baseline.run], printed[r.run])
      BY <2>1 DEF ReportCompares
    <3> QED BY <1>4, <1>5, <2>1, <3>1
  <2>4. Written(r.baseline) /\ r.args.baseline # r.args.checkpoint => r.baseline.run < r.run
    BY <2>1 DEF ReportCompares
  <2> QED BY <2>2, <2>3, <2>4 DEF ReportCompares, Written
<1>11. \A d \in OutDirs : Written(reports[d])' <=> Written(reports[d])
  BY <1>2 DEF Written
<1>12. Recorded'
  BY <1>9, <1>10, <1>11 DEF Recorded
<1> QED BY <1>8, <1>12

\* A document written by this run, and a report.
LEMMA RecordedKept ==
  ASSUME DeltaInv, printed' = printed,
         \A p \in Paths : checkpoints'[p] = checkpoints[p] \/ Measures(checkpoints'[p]),
         \A d \in OutDirs : \/ reports'[d] = reports[d]
                            \/ Written(reports'[d]) => ReportCompares(reports'[d])
  PROVE  Recorded'
<1>1. Run' = Run
  BY DEF Run
<1>2. ASSUME NEW p \in Paths PROVE Measures(checkpoints[p])'
  <2>1. Measures(checkpoints'[p])
    BY DEF DeltaInv, Recorded
  <2> QED BY <2>1 DEF Measures, Written
<1>3. ASSUME NEW d \in OutDirs, Written(reports'[d]) PROVE ReportCompares(reports[d])'
  <2>1. ReportCompares(reports'[d])
    BY <1>3 DEF DeltaInv, Recorded
  <2> QED BY <1>1, <2>1 DEF ReportCompares, Written
<1> QED BY <1>2, <1>3 DEF Recorded, Written

\* Nothing is written.
LEMMA NothingRecorded ==
  ASSUME DeltaInv, UNCHANGED <<printed, checkpoints, reports>> PROVE Recorded'
<1>1. \A p \in Paths : checkpoints'[p] = checkpoints[p] \/ Measures(checkpoints'[p])
  OBVIOUS
<1>2. \A d \in OutDirs : \/ reports'[d] = reports[d]
                         \/ Written(reports'[d]) => ReportCompares(reports'[d])
  OBVIOUS
<1> QED BY <1>1, <1>2, RecordedKept

LEMMA IdleMeasures == ASSUME Exit PROVE Measuring'
<1>1. pc' = "idle" /\ baseline' = Absent
  BY DEF Exit
<1> QED BY <1>1 DEF Measuring, Late, Rendering

\* The script ends without a report.
LEMMA EndMeasures ==
  ASSUME DeltaInv, Exit, UNCHANGED <<checkpoints, reports>> PROVE Measuring' /\ Recorded'
<1>1. printed' = printed
  BY DEF Exit
<1> QED BY <1>1, NothingRecorded, IdleMeasures

LEMMA CommandMeasures ==
  ASSUME DeltaInv, RunCommand PROVE Measuring' /\ Recorded'
<1>1. /\ pc = "commands" /\ at < Len(Commands) /\ at \in Nat /\ UNCHANGED <<checkpoints, reports>>
  BY DEF RunCommand, DeltaInv, Inv, Shapes
<1>2. \/ Exit
      \/ /\ at' = at + 1 /\ UNCHANGED <<pc, args, baseline, printed>>
         /\ Commands[at + 1].suite = "vm-loop" =>
              Times(Output, Commands[at + 1].fixture, Commands[at + 1].engine) # <<>>
  BY DEF RunCommand
<1>3. CASE Exit
  BY <1>1, <1>3, EndMeasures
<1>4. CASE /\ at' = at + 1 /\ UNCHANGED <<pc, args, baseline, printed>>
           /\ Commands[at + 1].suite = "vm-loop" =>
                Times(Output, Commands[at + 1].fixture, Commands[at + 1].engine) # <<>>
  <2>1. Run' = Run /\ Output' = Output
    BY <1>4 DEF Run, Output
  <2>2. /\ args.baseline \in Paths \cup {NoPath} /\ TimesPrinted(at) /\ baseline = Absent
        /\ \A p \in Paths : Older(checkpoints[p])
    BY <1>1 DEF DeltaInv, Measuring, Rendering
  <2>3. TimesPrinted(at)'
    <3>1. \A k \in 1 .. at + 1 : k \in 1 .. at \/ k = at + 1
      BY <1>1
    <3> QED BY <1>4, <2>1, <2>2, <3>1 DEF TimesPrinted
  <2>4. \A p \in Paths : Older(checkpoints[p])'
    BY <1>1, <2>1, <2>2 DEF Older, Written
  <2>5. Measuring'
    BY <1>1, <1>4, <2>2, <2>3, <2>4 DEF Measuring, Late, Rendering
  <2> QED BY <1>1, <1>4, <2>5, NothingRecorded
<1> QED BY <1>2, <1>3, <1>4

\* A step behind the commands.
LEMMA LaterMeasures ==
  ASSUME DeltaInv, pc # "idle", pc' \in Late, UNCHANGED <<at, args, printed>>,
         csv'[args.out] = CombineCsvText(Output.zig, Output.evm2),
         pc' \in {"measured", "saving"} => \A p \in Paths : Older(checkpoints'[p]),
         pc' \in {"saved"} \cup Rendering => \A p \in Paths : p # args.checkpoint => Older(checkpoints'[p]),
         \/ baseline' = Absent
         \/ /\ pc' \in Rendering
            /\ Written(baseline') /\ baseline'.run \in 1 .. Run
            /\ MediansOf(baseline', printed[baseline'.run])
            /\ args.baseline # args.checkpoint => baseline'.run < Run
  PROVE  Measuring'
<1>1. Run' = Run /\ Output' = Output
  BY DEF Run, Output
<1>2. args.baseline \in Paths \cup {NoPath} /\ TimesPrinted(at)
  BY DEF DeltaInv, Measuring
<1>3. TimesPrinted(at)'
  BY <1>1, <1>2 DEF TimesPrinted
<1>4. \A p \in Paths : Older(checkpoints'[p]) => Older(checkpoints[p])'
  BY <1>1 DEF Older, Written
<1>5. baseline' = Absent \/ (pc' \in Rendering /\ Loaded')
  BY <1>1 DEF Loaded, Written
<1>6. csv'[args'.out] = CombineCsvText(Output'.zig, Output'.evm2)
  BY <1>1
<1> QED BY <1>2, <1>3, <1>4, <1>5, <1>6 DEF Measuring, Late

LEMMA KernelMeasures ==
  ASSUME DeltaInv, RunKernel PROVE Measuring' /\ Recorded'
<1>1. /\ pc = "commands" /\ UNCHANGED <<checkpoints, reports>>
      /\ csv' = [csv EXCEPT ![args.out] = CombineCsvText(Output.zig, Output.evm2)]
      /\ Exit \/ (pc' = "measured" /\ UNCHANGED <<at, args, baseline, printed>>)
  BY DEF RunKernel
<1>2. CASE Exit
  BY <1>1, <1>2, EndMeasures
<1>3. CASE pc' = "measured" /\ UNCHANGED <<at, args, baseline, printed>>
  <2>1. DOMAIN csv = OutDirs /\ args.out \in OutDirs
    BY <1>1 DEF DeltaInv, Inv, Shapes
  <2>2. csv'[args.out] = CombineCsvText(Output.zig, Output.evm2)
    BY <1>1, <2>1
  <2>3. baseline = Absent /\ \A p \in Paths : Older(checkpoints[p])
    BY <1>1 DEF DeltaInv, Measuring, Rendering
  <2>4. Measuring'
    BY <1>1, <1>3, <2>2, <2>3, LaterMeasures DEF Late, Rendering
  <2> QED BY <1>1, <1>3, <2>4, NothingRecorded
<1> QED BY <1>1, <1>2, <1>3

\* Every fixture's evmz command was run and printed times.
LEMMA EvmzTimes ==
  ASSUME DeltaInv, pc \in Late, NEW f \in Range(Fixtures)
  PROVE  Times(Output, f, "evmz") # <<>>
<1>1. Len(Fixtures) \in Nat /\ DOMAIN Fixtures = 1 .. Len(Fixtures)
  BY ReportConstants
<1>2. PICK j \in 1 .. Len(Fixtures) : Fixtures[j] = f
  BY <1>1 DEF Range
<1> DEFINE k == (j - 1) * 4 + 1
<1>3. VmCommands = Len(Fixtures) * 4 /\ Len(VmEngines) = 4 /\ VmEngines[1] = "evmz"
  BY DEF VmCommands, VmEngines
<1>4. k \in 1 .. VmCommands /\ ((k - 1) \div 4) + 1 = j /\ ((k - 1) % 4) + 1 = 1
  BY <1>1, <1>3
<1>5. at = Len(Commands) /\ at > VmCommands /\ at \in Nat /\ VmCommands \in Nat
  BY CommandsAre DEF DeltaInv, Inv, Progress
<1> HIDE DEF k
<1>6. k \in 1 .. at /\ k <= VmCommands /\ k \in 1 .. VmCommands + 2
  BY <1>4, <1>5
<1>7. Commands[k] = VmCommand(f, "evmz")
  BY <1>2, <1>3, <1>4, <1>6 DEF Commands
<1>8. Commands[k].suite = "vm-loop" /\ Commands[k].fixture = f /\ Commands[k].engine = "evmz"
  BY <1>7 DEF VmCommand
<1>9. pc # "idle"
  BY DEF Late
<1> QED BY <1>6, <1>8, <1>9 DEF DeltaInv, Measuring, TimesPrinted

\* The checkpoint of the running script.
LEMMA CheckpointMeasures ==
  ASSUME DeltaInv, pc \in Late
  PROVE  /\ MediansOf(BuildCheckpoint, Output) /\ Written(BuildCheckpoint)
         /\ BuildCheckpoint.run = Run /\ Run \in 1 .. Run /\ Output = printed[Run] /\ Output \in Outputs
<1>1. Run \in 1 .. Run
  BY LateIs DEF DeltaInv
<1>2. Output \in Outputs /\ Output = printed[Run]
  <2>1. printed \in Seq(Outputs)
    BY DEF DeltaInv, Inv, Shapes
  <2> QED BY <1>1, <2>1 DEF Output, Run
<1> DEFINE rows == csv[args.out]
<1>3. rows = CombineCsvText(Output.zig, Output.evm2)
  BY DEF DeltaInv, Measuring
<1>4. /\ BuildCheckpoint.kernel_ns_per_iter = EngineMedians(rows, "evmz")
      /\ BuildCheckpoint.vm_loop_median_ms = VmMedians(Output)
      /\ Written(BuildCheckpoint) /\ BuildCheckpoint.run = Run
  BY DEF BuildCheckpoint, Written
<1> HIDE DEF rows
<1>5. /\ DOMAIN EngineMedians(rows, "evmz") \in SUBSET Nat
      /\ IsFiniteSet(DOMAIN EngineMedians(rows, "evmz"))
      /\ \A case \in DOMAIN EngineMedians(rows, "evmz") :
           IsMedian2(EngineMedians(rows, "evmz")[case], Measured(Output, "kernel", case))
  BY <1>2, <1>3, KernelMedians
<1>6. \A f \in Range(Fixtures) : Times(Output, f, "evmz") # <<>>
  BY EvmzTimes
<1>7. /\ DOMAIN VmMedians(Output) \in SUBSET Nat /\ IsFiniteSet(DOMAIN VmMedians(Output))
      /\ \A f \in DOMAIN VmMedians(Output) : IsMedian2(VmMedians(Output)[f], Measured(Output, "vm_loop", f))
  BY <1>2, <1>6, VmLoopMedians
<1>8. MediansOf(BuildCheckpoint, Output)
  BY <1>4, <1>5, <1>7 DEF MediansOf
<1> QED BY <1>1, <1>2, <1>4, <1>8

LEMMA WritingMeasures ==
  ASSUME DeltaInv, OpenCheckpoint \/ WriteCheckpoint \/ OpenReport PROVE Measuring' /\ Recorded'
<1>1. /\ pc \in Late /\ pc' \in Late /\ pc # "idle" /\ UNCHANGED <<at, args, printed, csv, baseline>>
  BY DEF OpenCheckpoint, WriteCheckpoint, OpenReport, Late
<1>2. /\ args.out \in OutDirs /\ args.checkpoint \in Paths
      /\ DOMAIN checkpoints = Paths /\ DOMAIN reports = OutDirs
  BY <1>1, LateIs DEF DeltaInv
<1>3. csv'[args.out] = CombineCsvText(Output.zig, Output.evm2)
  BY <1>1 DEF DeltaInv, Measuring
<1>4. CASE OpenCheckpoint
  <2>1. /\ pc = "measured" /\ pc' = "saving" /\ reports' = reports
        /\ checkpoints' = [checkpoints EXCEPT ![args.checkpoint] = Torn]
    BY <1>4 DEF OpenCheckpoint
  <2>2. baseline = Absent /\ \A p \in Paths : Older(checkpoints[p])
    BY <2>1 DEF DeltaInv, Measuring, Rendering
  <2>3. Older(Torn) /\ Measures(Torn)
    BY DEF Older, Measures, Written, Torn
  <2>4. \A p \in Paths : checkpoints'[p] = checkpoints[p] \/ checkpoints'[p] = Torn
    BY <1>2, <2>1
  <2>5. \A p \in Paths : Older(checkpoints'[p])
    BY <2>2, <2>3, <2>4
  <2>6. Measuring'
    BY <1>1, <1>3, <2>1, <2>2, <2>5, LaterMeasures DEF Rendering
  <2>7. Recorded'
    BY <1>1, <2>1, <2>3, <2>4, RecordedKept
  <2> QED BY <2>6, <2>7
<1>5. CASE WriteCheckpoint
  <2>1. /\ pc = "saving" /\ pc' = "saved" /\ reports' = reports
        /\ checkpoints' = [checkpoints EXCEPT ![args.checkpoint] = BuildCheckpoint]
    BY <1>5 DEF WriteCheckpoint
  <2>2. baseline = Absent /\ \A p \in Paths : Older(checkpoints[p])
    BY <2>1 DEF DeltaInv, Measuring, Rendering
  <2>3. Measures(BuildCheckpoint)
    BY <1>1, CheckpointMeasures DEF Measures
  <2>4. \A p \in Paths : checkpoints'[p] = IF p = args.checkpoint THEN BuildCheckpoint ELSE checkpoints[p]
    BY <1>2, <2>1
  <2>5. \A p \in Paths : p # args.checkpoint => Older(checkpoints'[p])
    BY <2>2, <2>4
  <2>6. Measuring'
    BY <1>1, <1>3, <2>1, <2>2, <2>5, LaterMeasures DEF Rendering
  <2>7. Recorded'
    BY <1>1, <2>1, <2>3, <2>4, RecordedKept
  <2> QED BY <2>6, <2>7
<1>6. CASE OpenReport
  <2>1. /\ pc = "rendering" /\ pc' = "reporting" /\ checkpoints' = checkpoints
        /\ reports' = [reports EXCEPT ![args.out] = Torn]
    BY <1>6 DEF OpenReport
  <2>2. /\ baseline = Absent \/ Loaded
        /\ \A p \in Paths : p # args.checkpoint => Older(checkpoints[p])
    BY <2>1 DEF DeltaInv, Measuring, Rendering
  <2>3. ~Written(Torn)
    BY DEF Written, Torn
  <2>4. \A d \in OutDirs : reports'[d] = reports[d] \/ reports'[d] = Torn
    BY <1>2, <2>1
  <2>5. \/ baseline' = Absent
        \/ /\ pc' \in Rendering
           /\ Written(baseline') /\ baseline'.run \in 1 .. Run
           /\ MediansOf(baseline', printed[baseline'.run])
           /\ args.baseline # args.checkpoint => baseline'.run < Run
    BY <1>1, <2>1, <2>2 DEF Loaded, Rendering
  <2>6. Measuring'
    BY <1>1, <1>3, <2>1, <2>2, <2>5, LaterMeasures
  <2>7. Recorded'
    BY <1>1, <2>1, <2>3, <2>4, RecordedKept
  <2> QED BY <2>6, <2>7
<1> QED BY <1>4, <1>5, <1>6

LEMMA LoadMeasures ==
  ASSUME DeltaInv, LoadBaseline PROVE Measuring' /\ Recorded'
<1>1. /\ pc = "saved" /\ pc \in Late /\ UNCHANGED <<checkpoints, reports, csv>>
  BY DEF LoadBaseline, files, Late
<1>2. baseline = Absent /\ \A p \in Paths : p # args.checkpoint => Older(checkpoints[p])
  BY <1>1 DEF DeltaInv, Measuring, Rendering
<1>3. csv'[args.out] = CombineCsvText(Output.zig, Output.evm2) /\ args.baseline \in Paths \cup {NoPath}
  BY <1>1 DEF DeltaInv, Measuring
<1>4. \/ Exit
      \/ pc' = "rendering" /\ UNCHANGED <<at, args, baseline, printed>>
      \/ /\ args.baseline # NoPath /\ checkpoints[args.baseline].kind = "document"
         /\ baseline' = checkpoints[args.baseline]
         /\ pc' = "rendering" /\ UNCHANGED <<at, args, printed>>
  BY DEF LoadBaseline
<1>5. CASE Exit
  BY <1>1, <1>5, EndMeasures
<1>6. CASE pc' = "rendering" /\ UNCHANGED <<at, args, baseline, printed>>
  <2>1. Measuring'
    BY <1>1, <1>2, <1>3, <1>6, LaterMeasures DEF Late
  <2> QED BY <1>1, <1>6, <2>1, NothingRecorded
<1>7. CASE /\ args.baseline # NoPath /\ checkpoints[args.baseline].kind = "document"
           /\ baseline' = checkpoints[args.baseline]
           /\ pc' = "rendering" /\ UNCHANGED <<at, args, printed>>
  <2> DEFINE base == checkpoints[args.baseline]
  <2>1. args.baseline \in Paths /\ Written(base)
    BY <1>3, <1>7 DEF Written
  <2>2. base.run \in 1 .. Run /\ MediansOf(base, printed[base.run])
    BY <2>1 DEF DeltaInv, Inv, Vetting, OfTrustedRun, Recorded, Measures
  <2>3. args.baseline # args.checkpoint => base.run < Run
    BY <1>2, <2>1 DEF Older
  <2>4. baseline' = base
    BY <1>7
  <2> HIDE DEF base
  <2>5. Measuring'
    BY <1>1, <1>2, <1>3, <1>7, <2>1, <2>2, <2>3, <2>4, LaterMeasures DEF Late, Rendering
  <2> QED BY <1>1, <1>7, <2>5, NothingRecorded
<1> QED BY <1>4, <1>5, <1>6, <1>7

LEMMA ReportMeasures ==
  ASSUME DeltaInv, WriteReport PROVE Measuring' /\ Recorded'
<1>1. /\ pc = "reporting" /\ pc \in Late /\ Exit /\ checkpoints' = checkpoints
      /\ reports' = [reports EXCEPT ![args.out] = RenderReport]
  BY DEF WriteReport, Late
<1>2. args.out \in OutDirs /\ DOMAIN reports = OutDirs
  BY <1>1, LateIs DEF DeltaInv
<1>3. baseline = Absent \/ Loaded
  BY <1>1 DEF DeltaInv, Measuring, Rendering
<1>4. MediansOf(BuildCheckpoint, Output) /\ Output = printed[Run]
  BY <1>1, CheckpointMeasures
<1>5. /\ RenderReport.run = Run /\ RenderReport.args = args /\ RenderReport.baseline = baseline
      /\ RenderReport.deltas = RenderCheckpointDelta(BuildCheckpoint, baseline)
  BY DEF RenderReport
<1>6. baseline.kind # "absent" => Loaded /\ MediansOf(baseline, printed[baseline.run])
  BY <1>3 DEF Absent, Loaded
<1>7. \A row \in Range(RenderReport.deltas) :
        baseline.kind # "absent" /\ RowCompares(row, printed[baseline.run], Output)
  BY <1>4, <1>5, <1>6, TableCompares
<1>8. ReportCompares(RenderReport)
  <2>1. Written(baseline) /\ args.baseline # args.checkpoint => baseline.run < Run
    BY <1>3 DEF Loaded, Written, Absent
  <2>2. ASSUME NEW row \in Range(RenderReport.deltas)
        PROVE  baseline.run \in 1 .. Run /\ RowCompares(row, printed[baseline.run], printed[Run])
    BY <1>4, <1>6, <1>7 DEF Loaded
  <2> QED BY <1>5, <2>1, <2>2 DEF ReportCompares
<1>9. \A d \in OutDirs : \/ reports'[d] = reports[d]
                         \/ Written(reports'[d]) => ReportCompares(reports'[d])
  BY <1>1, <1>2, <1>8
<1>10. printed' = printed
  BY <1>1 DEF Exit
<1>11. Recorded'
  BY <1>1, <1>9, <1>10, RecordedKept
<1> QED BY <1>1, <1>11, IdleMeasures

LEMMA StutterMeasures ==
  ASSUME DeltaInv, UNCHANGED vars PROVE Measuring' /\ Recorded'
<1>1. UNCHANGED <<checkpoints, reports, csv, pc, args, at, baseline, printed>>
  BY DEF vars, files
<1>2. Run' = Run /\ Output' = Output
  BY <1>1 DEF Run, Output
<1>3. Measuring'
  BY <1>1, <1>2 DEF DeltaInv, Measuring, TimesPrinted, Older, Written, Loaded
<1> QED BY <1>1, <1>3, NothingRecorded

LEMMA KillMeasures ==
  ASSUME DeltaInv, Kill PROVE Measuring' /\ Recorded'
  BY EndMeasures DEF Kill, files

LEMMA StepMeasures == DeltaInv /\ [Next]_vars => DeltaInv'
<1> SUFFICES ASSUME DeltaInv, [Next]_vars PROVE DeltaInv'
  OBVIOUS
<1>1. Inv'
  BY StepPreserves DEF DeltaInv
<1>2. Measuring' /\ Recorded'
  BY StutterMeasures, StartMeasures, CommandMeasures, KernelMeasures, WritingMeasures,
     LoadMeasures, ReportMeasures, KillMeasures DEF Next
<1> QED BY <1>1, <1>2 DEF DeltaInv

(***************************************************************************)
(* render_checkpoint_delta: whatever runs wrote, failed or were killed in  *)
(* the same directories, a delta of a report compares the median of what   *)
(* evmz measured in its run with the median of what it measured in the run *)
(* of the baseline, and that is an earlier run unless --baseline is the    *)
(* run's own checkpoint.                                                   *)
(***************************************************************************)
THEOREM DeltasCompared == Spec => []DeltasCompareRuns
<1>1. DeltaInv => DeltasCompareRuns
  BY DEF DeltaInv, Recorded, ReportCompares, RowCompares, DeltasCompareRuns
<1> QED BY <1>1, InitMeasures, StepMeasures, PTL DEF Spec

=============================================================================
