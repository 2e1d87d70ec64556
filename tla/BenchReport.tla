---------------------------- MODULE BenchReport ----------------------------
(***************************************************************************)
(* bench/scripts/report.py: it runs the VM-loop fixtures and the opcode    *)
(* kernels of every engine, vets the kernel rows, saves evmz's medians as  *)
(* a checkpoint and renders a report that compares engines and, with       *)
(* --baseline, this run with an earlier checkpoint.  Any command can fail, *)
(* the process can be killed between any two steps, and the files of       *)
(* earlier runs lie in the same directories.                               *)
(*                                                                         *)
(* What the commands of one run print is an input, one of Outputs.  Names  *)
(* of fixtures and cases are numbers, so that sorting them is defined.     *)
(* A median is kept doubled, to stay an integer; a number a runner could   *)
(* not tell is Unknown.                                                    *)
(***************************************************************************)
EXTENDS Integers, Sequences, FiniteSets, SequencesExt, FiniteSetsExt

CONSTANTS
  Fixtures,   \* VM_LOOP_FIXTURES
  Outputs,    \* what the commands of a run may print
  OutDirs,    \* --out-dir
  Stable,     \* a --checkpoint path outside of them
  KernelRows, \* rows the kernel table shows
  DeltaRows,  \* rows of the delta table, its header included
  MaxRuns     \* bound on the runs

ASSUME ReportConstants ==
  /\ Fixtures \in Seq(Nat) /\ Fixtures # <<>>
  /\ KernelRows \in Nat /\ DeltaRows \in Nat \ {0} /\ MaxRuns \in Nat

\* A runner prints a list of lines.
ASSUME OutputsAreLists ==
  \A o \in Outputs : o.zig \in Seq(Range(o.zig)) /\ o.evm2 \in Seq(Range(o.evm2))

\* The first line of a runner's output.
Header == [engine |-> "header"]

\* A row names its case and a number, evmz's times are numbers.
ASSUME OutputsAreNumbers ==
  \A o \in Outputs :
    /\ \A r \in (Range(o.zig) \cup Range(o.evm2)) : r # Header => r.case \in Nat /\ r.ns \in Int
    /\ \A f \in Range(Fixtures) : o.times[<<f, "evmz">>] \in Seq(Int)

VARIABLES
  checkpoints, \* path -> checkpoint file
  reports,     \* --out-dir -> report.md
  vm_csv,      \* --out-dir -> the run that wrote vm_loop_summary.csv
  csv,         \* --out-dir -> kernel_summary.csv
  raw,         \* --out-dir -> command -> the run whose output lies in raw/
  pc,          \* where the running script stands
  args,        \* its arguments
  at,          \* commands run
  baseline,    \* the document loaded from --baseline
  printed      \* what every run's commands print, the running one's last

files == <<checkpoints, reports, vm_csv, csv, raw>>
vars  == <<files, pc, args, at, baseline, printed>>

Unknown == -1
Absent  == [kind |-> "absent"]
Torn    == [kind |-> "torn"]
NoPath  == "none"
Paths   == OutDirs \cup {Stable}
NoArgs  == [out |-> NoPath, checkpoint |-> NoPath, baseline |-> NoPath]

\* The engines without --evm2-nightly, and the run's commands in order.
VmEngines == <<"evmz", "evmone-baseline", "evmone", "evm2">>
VmCommand(fixture, engine) == [suite |-> "vm-loop", fixture |-> fixture, engine |-> engine]
KernelCommand(engine) == [suite |-> "kernel", fixture |-> 0, engine |-> engine]
SortedBy(S, Before(_, _)) ==
  [i \in 1 .. Cardinality(S) |->
    CHOOSE x \in S : Cardinality({y \in S : Before(y, x)}) = i - 1]
SortedNames(S) == SortedBy(S, <)
VmCommands == Len(Fixtures) * Len(VmEngines)
Commands ==
  [k \in 1 .. VmCommands + 2 |->
    IF k <= VmCommands
    THEN VmCommand(Fixtures[((k - 1) \div Len(VmEngines)) + 1],
                   VmEngines[((k - 1) % Len(VmEngines)) + 1])
    ELSE KernelCommand(IF k = VmCommands + 1 THEN "zig" ELSE "evm2")]

Run    == Len(printed)
Output == printed[Run]

Init ==
  /\ checkpoints = [p \in Paths |-> Absent]
  /\ reports = [d \in OutDirs |-> Absent]
  /\ vm_csv = [d \in OutDirs |-> 0]
  /\ csv = [d \in OutDirs |-> <<>>]
  /\ raw = [d \in OutDirs |-> [c \in Range(Commands) |-> 0]]
  /\ pc = "idle" /\ at = 0 /\ baseline = Absent
  /\ args = NoArgs
  /\ printed = <<>>

\* main, parse_args, resolve_path: --checkpoint defaults to a file of the
\* output directory.
Start(out) ==
  /\ pc = "idle" /\ Run < MaxRuns
  /\ \E checkpoint \in {out, Stable}, base \in Paths \cup {NoPath} :
       args' = [out |-> out, checkpoint |-> checkpoint, baseline |-> base]
  /\ \E o \in Outputs : printed' = Append(printed, o)
  /\ pc' = "commands"
  /\ UNCHANGED <<files, at, baseline>>

\* The process ends, at its end or before; only the files remain.
Exit ==
  /\ pc' = "idle" /\ args' = NoArgs /\ at' = 0 /\ baseline' = Absent
  /\ UNCHANGED printed

(***************************************************************************)
(* Running the commands.                                                   *)
(***************************************************************************)
Median2(values) ==
  LET Less(i, j) == values[i] < values[j] \/ (values[i] = values[j] /\ i < j)
      order == SortedBy(DOMAIN values, Less)
      n == Len(values)
  IN values[order[(n + 1) \div 2]] + values[order[n \div 2 + 1]]

Times(output, fixture, engine) == output.times[<<fixture, engine>>]

\* Mutant: a command whose output lies in raw/ is not run again.
Kept(raws, command) == IF raws[command] = 0 THEN Run ELSE raws[command]

\* The run whose output lies in raw/ afterwards.
RawOf(raws, command) == Run

\* run_command keeps the output before it looks at the exit code; run_vm_loop
\* fails on an output without times, and writes its summary after the last one.
RunCommand ==
  /\ pc = "commands" /\ at < Len(Commands)
  /\ raw' = [raw EXCEPT ![args.out][Commands[at + 1]] = RawOf(raw[args.out], Commands[at + 1])]
  /\ UNCHANGED <<checkpoints, reports, csv>>
  /\ LET c == Commands[at + 1]
         Usable == c.suite = "vm-loop" => Times(Output, c.fixture, c.engine) # <<>>
     IN \/ Exit /\ UNCHANGED vm_csv
        \/ /\ Usable
           /\ at' = at + 1
           /\ vm_csv' = [vm_csv EXCEPT ![args.out] = IF at' = VmCommands THEN Run ELSE @]
           /\ UNCHANGED <<pc, args, baseline, printed>>

\* The entries of a list at some of its places, in their order.
Picked(s, places) ==
  LET kept == SortedNames(places) IN [k \in DOMAIN kept |-> s[kept[k]]]

\* combine_csv_text: one header, the rows of both outputs.
CombineCsvText(zig, evm2) ==
  LET lines == zig \o evm2
  IN Picked(lines, {i \in DOMAIN lines : lines[i] # Header})

\* Mutant: an engine is compared with its own rows only.
AgreesWithItself(rows) ==
  \A i, j \in DOMAIN rows :
    rows[i].case = rows[j].case /\ rows[i].engine = rows[j].engine
      => rows[i].gas = rows[j].gas

\* The references of run_kernel: one bytecode size and gas for every case.
ReferencesAgree(rows) ==
  \A i, j \in DOMAIN rows : rows[i].case = rows[j].case => rows[i].gas = rows[j].gas

HostUntouched(rows) == \A i \in DOMAIN rows : rows[i].host_calls = 0

\* run_kernel: the summary is written before its rows are vetted.
RunKernel ==
  /\ pc = "commands" /\ at = Len(Commands)
  /\ csv' = [csv EXCEPT ![args.out] = CombineCsvText(Output.zig, Output.evm2)]
  /\ UNCHANGED <<checkpoints, reports, vm_csv, raw>>
  /\ \/ /\ ReferencesAgree(csv'[args.out]) /\ HostUntouched(csv'[args.out])
        /\ pc' = "measured"
        /\ UNCHANGED <<at, args, baseline, printed>>
     \/ /\ ~(ReferencesAgree(csv'[args.out]) /\ HostUntouched(csv'[args.out]))
        /\ Exit

(***************************************************************************)
(* The checkpoint.                                                         *)
(***************************************************************************)
\* The numbers in some rows; an unknown one is left out.
Numbers(rows, places) ==
  LET kept == Picked(rows, {i \in places : rows[i].ns # Unknown})
  IN [k \in DOMAIN kept |-> kept[k].ns]

\* Mutant: the medians of a case over all engines.
SamplesOfCase(rows, engine, case) ==
  Numbers(rows, {i \in DOMAIN rows : rows[i].case = case})

\* The numbers of one group.
Samples(rows, engine, case) ==
  Numbers(rows, {i \in DOMAIN rows : rows[i].engine = engine /\ rows[i].case = case})

\* grouped_medians and flatten_engine_map.
EngineMedians(rows, engine) ==
  LET cases == {r.case : r \in {r \in Range(rows) : r.engine = engine /\ r.ns # Unknown}}
  IN [case \in cases |-> Median2(Samples(rows, engine, case))]

VmMedians(output) == [f \in Range(Fixtures) |-> Median2(Times(output, f, "evmz"))]

BuildCheckpoint ==
  [kind |-> "document", run |-> Run,
   kernel_ns_per_iter |-> EngineMedians(csv[args.out], "evmz"),
   vm_loop_median_ms |-> VmMedians(Output)]

\* write_text truncates the file first.
OpenCheckpoint ==
  /\ pc = "measured"
  /\ checkpoints' = [checkpoints EXCEPT ![args.checkpoint] = Torn]
  /\ pc' = "saving"
  /\ UNCHANGED <<reports, vm_csv, csv, raw, at, args, baseline, printed>>

WriteCheckpoint ==
  /\ pc = "saving"
  /\ checkpoints' = [checkpoints EXCEPT ![args.checkpoint] = BuildCheckpoint]
  /\ pc' = "saved"
  /\ UNCHANGED <<reports, vm_csv, csv, raw, at, args, baseline, printed>>

\* load_json, after this run's checkpoint was written.
LoadBaseline ==
  /\ pc = "saved"
  /\ UNCHANGED files
  /\ \/ /\ args.baseline = NoPath
        /\ pc' = "rendering"
        /\ UNCHANGED <<at, args, baseline, printed>>
     \/ /\ args.baseline # NoPath /\ checkpoints[args.baseline].kind = "document"
        /\ baseline' = checkpoints[args.baseline]
        /\ pc' = "rendering"
        /\ UNCHANGED <<at, args, printed>>
     \/ /\ args.baseline # NoPath /\ checkpoints[args.baseline].kind # "document"
        /\ Exit

(***************************************************************************)
(* The report.                                                             *)
(***************************************************************************)
\* render_kernel: cases by how far evmz is behind the best other engine, and
\* only the first of them.
BestOther(rows, case) ==
  LET others == {EngineMedians(rows, e)[case] :
                   e \in {e \in {"evmone-baseline", "evmone-advanced", "evm2-interpreter"} :
                            case \in DOMAIN EngineMedians(rows, e)}} \ {0}
  IN IF others = {} THEN 0 ELSE Min(others)

Ranked(rows) ==
  LET evmz == EngineMedians(rows, "evmz")
      cases == {c \in DOMAIN evmz : evmz[c] # 0 /\ BestOther(rows, c) # 0}
      Behind(a, b) ==
        LET left == evmz[a] * BestOther(rows, b)
            right == evmz[b] * BestOther(rows, a)
        IN left > right \/ (left = right /\ a > b)
  IN SortedBy(cases, Behind)

FirstRows(s, n) == SubSeq(s, 1, Min({n, Len(s)}))
RenderKernel(rows) == FirstRows(Ranked(rows), KernelRows)

\* render_checkpoint_delta: kernel rows first, then VM-loop rows.
SectionDeltas(section, current, old) ==
  LET names == SortedNames({n \in DOMAIN current \cap DOMAIN old : old[n] # 0})
  IN [i \in DOMAIN names |->
       [metric |-> section, name |-> names[i], old |-> old[names[i]], new |-> current[names[i]]]]

RenderCheckpointDelta(current, base) ==
  IF base.kind = "absent" THEN <<>>
  ELSE FirstRows(SectionDeltas("kernel", current.kernel_ns_per_iter, base.kernel_ns_per_iter)
                   \o SectionDeltas("vm_loop", current.vm_loop_median_ms, base.vm_loop_median_ms),
                 DeltaRows - 1)

RenderReport ==
  [kind |-> "document", run |-> Run, args |-> args, baseline |-> baseline,
   kernels |-> RenderKernel(csv[args.out]),
   deltas |-> RenderCheckpointDelta(BuildCheckpoint, baseline)]

OpenReport ==
  /\ pc = "rendering"
  /\ reports' = [reports EXCEPT ![args.out] = Torn]
  /\ pc' = "reporting"
  /\ UNCHANGED <<checkpoints, vm_csv, csv, raw, at, args, baseline, printed>>

WriteReport ==
  /\ pc = "reporting"
  /\ reports' = [reports EXCEPT ![args.out] = RenderReport]
  /\ UNCHANGED <<checkpoints, vm_csv, csv, raw>>
  /\ Exit

Kill == pc # "idle" /\ Exit /\ UNCHANGED files

Next ==
  \/ \E out \in OutDirs : Start(out)
  \/ RunCommand \/ RunKernel
  \/ OpenCheckpoint \/ WriteCheckpoint \/ LoadBaseline
  \/ OpenReport \/ WriteReport
  \/ Kill

Spec == Init /\ [][Next]_vars

(***************************************************************************)
(* Properties.                                                             *)
(***************************************************************************)
Written(file) == file.kind = "document"

\* Files and counters have the shapes the script gives them, and a script that
\* gave up half way left no document of its own: only a run past its vetting
\* owns a checkpoint.
TypeOK ==
  /\ pc \in {"idle", "commands", "measured", "saving", "saved", "rendering", "reporting"}
  /\ at \in 0 .. Len(Commands)
  /\ \A p \in Paths : Written(checkpoints[p]) => checkpoints[p].run \in 1 .. Run
  /\ \A d \in OutDirs, c \in Range(Commands) : raw[d][c] \in 0 .. Run
  /\ pc \in {"measured", "saving", "saved", "rendering", "reporting"}
       => /\ at = Len(Commands)
          /\ vm_csv[args.out] = Run
          /\ \A c \in Range(Commands) : raw[args.out][c] = Run

KernelOutput(n) == (Range(printed[n].zig) \cup Range(printed[n].evm2)) \ {Header}

\* Every engine executed every kernel alike, and none called its host.
Trusted(n) == \A r, s \in KernelOutput(n) : r.host_calls = 0 /\ (r.case = s.case => r.gas = s.gas)

\* "The report rejects kernel bytecode-size or gas mismatches across engines and
\* any host callbacks": a checkpoint or report, whichever run left it, and
\* whatever runs failed or were killed since, stands on kernels that every
\* engine executed alike.
ResultsAreVetted ==
  /\ \A p \in Paths : Written(checkpoints[p]) => Trusted(checkpoints[p].run)
  /\ \A d \in OutDirs : Written(reports[d]) => Trusted(reports[d].run)

\* m is the doubled median of the samples: the least number that half of them
\* do not exceed, and the greatest that half of them do not fall below.
IsMedian2(m, samples) ==
  LET D == DOMAIN samples
      n == Cardinality(D)
      Low(v)  == /\ 2 * Cardinality({i \in D : samples[i] <= v}) >= n
                 /\ 2 * Cardinality({i \in D : samples[i] < v}) < n
      High(v) == /\ 2 * Cardinality({i \in D : samples[i] >= v}) >= n
                 /\ 2 * Cardinality({i \in D : samples[i] > v}) < n
  IN \E a, b \in Range(samples) : m = a + b /\ Low(a) /\ High(b)

\* What evmz measured, straight from what a run's commands printed.
Measured(output, metric, name) ==
  IF metric = "vm_loop" THEN Times(output, name, "evmz")
  ELSE LET lines == output.zig \o output.evm2
           mine == {i \in DOMAIN lines : /\ lines[i].engine = "evmz" /\ lines[i].case = name
                                         /\ lines[i].ns # Unknown}
       IN [i \in mine |-> lines[i].ns]

\* A delta compares evmz with evmz: what this run measured, with what an earlier
\* run measured whose checkpoint lay at --baseline, as long as --baseline is not
\* the file this run's own checkpoint goes to.
DeltasCompareRuns ==
  \A d \in OutDirs : Written(reports[d]) =>
    LET r == reports[d] IN
    /\ Written(r.baseline) /\ r.args.baseline # r.args.checkpoint => r.baseline.run < r.run
    /\ \A row \in Range(r.deltas) :
         /\ IsMedian2(row.new, Measured(printed[r.run], row.metric, row.name))
         /\ IsMedian2(row.old, Measured(printed[r.baseline.run], row.metric, row.name))

\* "Use --baseline <path> to include evmz-vs-evmz deltas in the report": every
\* metric that both runs measured has its delta.
EveryDeltaReported ==
  \A d \in OutDirs :
    Written(reports[d]) /\ Written(reports[d].baseline) /\ reports[d].baseline.run < reports[d].run =>
    LET r == reports[d]
        Shown(metric) == {row.name : row \in {row \in Range(r.deltas) : row.metric = metric}}
        Measurable(n, metric, names) == {x \in names : Measured(printed[n], metric, x) # <<>>}
        Comparable(metric, names) ==
          Measurable(r.run, metric, names) \cap Measurable(r.baseline.run, metric, names)
    IN /\ Comparable("kernel", DOMAIN r.baseline.kernel_ns_per_iter) \subseteq Shown("kernel")
       /\ Comparable("vm_loop", Range(Fixtures)) \subseteq Shown("vm_loop")
=============================================================================
