------------------------------ MODULE Benchmarks ------------------------------
(***************************************************************************)
(* The benchmarks of the repository, one at a time: the sweeps that save   *)
(* shape by shape (BenchSweep), the comparison that saves one checkpoint   *)
(* per shape (BenchCheckpoints), the processes that time several methods   *)
(* in turn (BenchPaired), and those that do so for one token count after   *)
(* the other (BenchTokens).  Variables of one name are one variable; those *)
(* a benchmark does not have stay Unused.                                  *)
(***************************************************************************)
EXTENDS BenchSweep

CONSTANTS SHAPES, PairedRounds, TokenRounds, MaxPolls

\* There is something to compare, and a token count to compare it at.
ASSUME ListsAssumption ==
  SHAPES \in Seq(Range(SHAPES)) /\ SHAPES # <<>> /\ TokenCounts # <<>>
\* parse_args refuses other numbers of rounds.
ASSUME RoundsAssumption == {PairedRounds, TokenRounds} \subseteq Nat \ {0}

VARIABLES version, temp, fixed, wrong, polls, ran, spoilt, success, rendered

Unused == "unused"
Checkpoint == INSTANCE BenchCheckpoints
Paired == INSTANCE BenchPaired
Tokens == INSTANCE BenchTokens

OnDisk == <<sources, edits>>
Resumption == <<durable, next, args, sessions, promised>>
Heating == <<before, gpu>>
Guards == <<version, fixed, wrong, spoilt, success>>
Timing == <<temp, polls, ran>>
variables ==
  <<tool, loaded, hashed, pc, file, OnDisk, Resumption, Heating, Guards, Timing, report, rendered>>

Sweeping == tool \in {"prefill", "historical", "direct", "sweep"}
Checkpointing == tool \in {"checkpoints", "families"}
Pairing == tool \in {"moe", "mega", "paired", "m256"}
Tokenwise == tool \in {"optimized", "ffn", "cosmos", "vllm"}

BesideSweep == <<Guards, Timing, rendered>>
BesideCheckpoints == <<Guards, Timing, Heating, report>>
BesidePaired == <<OnDisk, Resumption, Heating, report, rendered>>
BesideTokens == <<Guards, Resumption, Heating, rendered>>

NoSources == sources = Unused /\ edits = Unused
NoResumption ==
  /\ durable = Unused /\ next = Unused /\ args = Unused
  /\ sessions = Unused /\ promised = Unused
NoHeating == before = Unused /\ gpu = Unused
NoGuard ==
  /\ version = Unused /\ fixed = Unused /\ wrong = Unused
  /\ spoilt = Unused /\ success = Unused
NoTiming == temp = Unused /\ polls = Unused /\ ran = Unused

StartBenchmarks ==
  \/ Init /\ NoGuard /\ NoTiming /\ rendered = Unused
  \/ Checkpoint!Init /\ NoGuard /\ NoTiming /\ NoHeating /\ report = Unused
  \/ Paired!Init /\ NoSources /\ NoResumption /\ NoHeating /\ report = Unused /\ rendered = Unused
  \/ Tokens!Init /\ NoGuard /\ NoResumption /\ NoHeating /\ rendered = Unused
BenchmarkStep ==
  \/ Sweeping /\ Next /\ UNCHANGED BesideSweep
  \/ Checkpointing /\ Checkpoint!Next /\ UNCHANGED BesideCheckpoints
  \/ Pairing /\ Paired!Next /\ UNCHANGED BesidePaired
  \/ Tokenwise /\ Tokens!Next /\ UNCHANGED BesideTokens

\* The interpreter goes on with the program, and an idle GPU cools down.  No
\* fairness makes the GPU cool in a benchmark that limits its wait, or any
\* process start.
SweepWork == Sweeping /\ Work /\ UNCHANGED BesideSweep
CheckpointWork == Checkpointing /\ Checkpoint!Work /\ UNCHANGED BesideCheckpoints
PairedWork == Pairing /\ Paired!Work /\ UNCHANGED BesidePaired
TokensWork == Tokenwise /\ Tokens!Work /\ UNCHANGED BesideTokens
SweepGpuCools == Sweeping /\ GpuCools /\ UNCHANGED BesideSweep

BenchmarksSpec ==
  /\ StartBenchmarks /\ [][BenchmarkStep]_variables
  /\ WF_variables(SweepWork) /\ WF_variables(CheckpointWork)
  /\ WF_variables(PairedWork) /\ WF_variables(TokensWork)
  /\ WF_variables(SweepGpuCools)

-----------------------------------------------------------------------------
(* Correctness; each is stated and explained in its module.                *)

\* A report names what its results were measured with (BenchSweep).
SweepProvenance == Sweeping => Provenance

\* The rows of a report made of checkpoints were measured with one library, one
\* script and one environment, and an audit that passes says so of what is there.
ReportUniform == Checkpointing => Checkpoint!Uniform /\ Checkpoint!AuditSound

\* A sweep's report marked complete passes its validator, and a comparison
\* through every shape that ends without an error has rendered every shape and
\* passes its audit.
ReportComplete ==
  /\ Sweeping => CompleteIsWhole
  /\ Checkpointing => Checkpoint!Whole

\* Cases and checkpoints whose save returned survive kills, restarts of the
\* host and later runs.
SavedKept ==
  /\ Sweeping => Kept
  /\ Checkpointing => Checkpoint!Kept

\* No method is favoured by its place in the order: by one round at most, and
\* not at all where the methods that are timed in turn divide the rounds.
OrdersFair ==
  /\ Pairing => Paired!OrdersFair
  /\ Tokenwise => Tokens!OrdersFair

\* A guarded report says success only of right results from the sources it
\* names; the cases of a report by token count are the first ones in order, of
\* the libraries it names where the benchmark verifies them.
SuccessIsSound ==
  /\ Pairing => Paired!SuccessIsSound
  /\ Tokenwise => Tokens!CasesSound

\* Every session of a sweep or comparison ends, provided the GPU cools down.
SessionsEnd == ((Sweeping \/ Checkpointing) /\ pc # "off") ~> pc = "off"

\* Every other benchmark ends, even if the GPU never cools down.
MeasureEnds == (Pairing \/ Tokenwise) ~> pc = "off"
=============================================================================
