--------------------------- MODULE MCBenchReport ---------------------------
(* Instances of the benchmark report for TLC. *)
EXTENDS BenchReport

Row(engine, case, gas, ns) ==
  [engine |-> engine, case |-> case, gas |-> gas, host_calls |-> 0, ns |-> ns]

\* A run in which evmz takes `ns` for one kernel, in two repeats that differ, and
\* `ms` for a fixture.
Prints(ms, ns, zig, evm2) ==
  [times |-> [p \in Range(Fixtures) \X Range(VmEngines) |-> IF p[2] = "evmz" THEN ms ELSE <<2>>],
   zig |-> <<Header, Row("evmz", 1, 7, ns), Row("evmz", 1, 7, ns + 2)>> \o zig,
   evm2 |-> <<Header>> \o evm2]

Agreeing == Prints(<<3, 1, 2>>, 1, <<Row("evmone-baseline", 1, 7, 3)>>,
                   <<Row("evm2-interpreter", 1, 7, 4), Row("evm2-interpreter", 2, 5, 2)>>)
Second == Prints(<<4, 2>>, 4, <<Row("evmz", 2, 5, Unknown)>>, <<Row("evm2-interpreter", 1, 7, 9)>>)
Mismatch == Prints(<<1>>, 1, <<>>, <<Row("evm2-interpreter", 1, 8, 4)>>)
Silent == [Agreeing EXCEPT !.times[<<1, "evm2">>] = <<>>]
Callback == [Agreeing EXCEPT !.evm2[2].host_calls = 1]

OneFixture == <<1>>
SmallOutputs == {Agreeing, Second, Mismatch, Silent, Callback}

\* --tier all has 28 kernels, and there are 14 fixtures.
AllKernels == [i \in 1 .. 28 |-> Row("evmz", i, 7, 5)]
FullOutput == [times |-> [p \in Range(Fixtures) \X Range(VmEngines) |-> <<1>>],
               zig |-> <<Header>> \o AllKernels, evm2 |-> <<Header>>]
FullOutputs == {FullOutput}
AllFixtures == [i \in 1 .. 14 |-> i]
=============================================================================
