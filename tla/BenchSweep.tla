------------------------------ MODULE BenchSweep ------------------------------
(***************************************************************************)
(* The sweeps that measure one shape after another into a report and its   *)
(* CSV: experiments/prefill/benchmark.py ("prefill"), which saves after    *)
(* every shape and resumes what it saved; historical_benchmark.py          *)
(* ("historical"), its earlier form, which also replaces a report;         *)
(* benchmarks/compare_thor.py ("direct"), which saves but never resumes;   *)
(* and sweep_thor.py ("sweep"), which runs compare_thor.py once per size   *)
(* in a process of its own and resumes the reports of both.  While they    *)
(* run, somebody rebuilds the library or edits a script, the process is    *)
(* killed, the host restarts.                                              *)
(***************************************************************************)
EXTENDS Integers, Sequences, FiniteSets, SequencesExt

CONSTANTS
  Operations,   \* the projections of the prefill model, in order
  TokenCounts,  \* the token counts, in order
  Dims(_, _),   \* the matrix shape of an operation at a token count
  Eligible(_),  \* the shapes the native kernel takes
  Sizes,        \* the square sizes of the Thor comparison, in order
  Settings,     \* measurement settings a session may be started with
  Clocks,       \* the frequencies somebody may fix the GPU's clock at
  MaxEdits,     \* bound: edits of the sources and changes of the clock
  MaxSessions,  \* bound: sessions started
  MaxThorSessions  \* bound: sessions of the Thor comparison

\* parse_args wants positive token counts, and each size once.
ASSUME SweepAssumption ==
  /\ Operations \in Seq(Range(Operations)) /\ TokenCounts \in Seq(Range(TokenCounts))
  /\ Sizes \in Seq(Range(Sizes)) /\ IsInjective(Sizes)
  /\ Range(TokenCounts) \subseteq Nat \ {0}
  /\ \A s \in Settings : s.limit \in Int
  /\ Clocks \subseteq Nat \ {0}

VARIABLES
  tool,       \* the tool of the session
  sources,    \* what is on disk of each source: how often it was edited
  edits,
  file,       \* the report a reader finds
  durable,    \* the reports a restart of the host may leave
  pc, next,   \* where the session is; where it goes after a save
  args,       \* its arguments; of a sweep also what it last read of the clock
  loaded,     \* the sources the measuring process runs
  hashed,     \* the sources it hashed into its report
  report,     \* the report in memory
  before,     \* cases the session found done
  gpu,        \* its temperature, and the clock that its limits fix
  sessions,   \* sessions started so far
  promised    \* history: the cases of the last prefill save that returned,
              \* unless it was since asked to start over

session == <<pc, next, args, loaded, hashed, report, before>>
disk == <<file, durable, promised>>
host == <<tool, sources, edits, gpu, sessions>>
vars == <<session, disk, host>>

Sources == {"library", "software", "script"}
Unedited == [s \in Sources |-> 0]
Absent == [kind |-> "absent", cases |-> <<>>]
Torn == [kind |-> "torn", cases |-> <<>>]
\* The clock is fixed where the limits of its frequency are equal.
Free == 0
Readings == Clocks \cup {Free}
NoArgs == [settings |-> [name |-> "none", limit |-> 0], resume |-> FALSE, max |-> 0,
           clock |-> FALSE, applied |-> Free, first |-> Free]

-----------------------------------------------------------------------------
(* The shapes to measure.                                                  *)

\* workloads: uses with equal dimensions are one shape, in order of first use.
AddUse(shapes, use) ==
  LET dims == Dims(use[1], use[2])
      same == {i \in DOMAIN shapes : shapes[i].dims = dims}
  IN IF same = {} THEN Append(shapes, [dims |-> dims, uses |-> {use}])
     ELSE [i \in DOMAIN shapes |->
             IF i \in same THEN [shapes[i] EXCEPT !.uses = @ \cup {use}] ELSE shapes[i]]
Uses ==
  [i \in 1 .. Len(TokenCounts) * Len(Operations) |->
     <<Operations[((i - 1) % Len(Operations)) + 1], TokenCounts[(i - 1) \div Len(Operations) + 1]>>]
Workloads ==
  LET after[i \in 0 .. Len(Uses)] ==
        IF i = 0 THEN <<>> ELSE AddUse(after[i - 1], Uses[i])
  IN after[Len(Uses)]
Squares == [i \in DOMAIN Sizes |-> [dims |-> Sizes[i], uses |-> {}]]

Prefill == tool \in {"prefill", "historical"}
Every == IF Prefill THEN Workloads ELSE Squares
\* The shapes a slice leaves; a negative limit counts from the end.
Expected(settings) ==
  LET limit == settings.limit
  IN IF limit = 0 \/ limit >= Len(Every) THEN Every
     ELSE SubSeq(Every, 1, IF limit < 0 THEN Len(Every) + limit ELSE limit)

\* What a process measured: the sources it ran and those it hashed.
Case(shape, results) ==
  [shape |-> shape, ran |-> loaded, hashed |-> hashed, results |-> results]
ShapesOf(cases) == [i \in DOMAIN cases |-> cases[i].shape]

\* What several readings of the clock amount to.
Together(steady, reading) == IF reading = steady THEN steady ELSE Free

\* setting: the clock a sweep was asked for and found, if any; steady: what was
\* read of the clock before and beside the cases; after: the last reading.
None == -1
NewReport(source, steady, segments) ==
  [kind |-> "report", settings |-> args.settings, source |-> source, cases |-> <<>>,
   resumed |-> <<>>, complete |-> FALSE, failure |-> FALSE, segments |-> segments,
   setting |-> None, steady |-> steady, after |-> None]

-----------------------------------------------------------------------------
(* Saving: a temporary file replaces the report.  The CSV beside it is      *)
(* rewritten next, from the same cases; no tool reads it back.             *)

\* prefill's save: the bytes are synced before the replacement, the directory
\* after it.  compare_backends.export syncs nothing: a restart may leave the
\* report before (written back by now), the new one, or its name without bytes.
Unsynced == {file, report, Torn}
Surviving == IF Prefill THEN durable \cup {report} ELSE Unsynced

\* The process is gone, and with it what it had in memory.
Ended ==
  /\ pc' = "off" /\ next' = "off" /\ args' = NoArgs /\ loaded' = Unedited /\ hashed' = Unedited
  /\ report' = Absent /\ before' = 0
Return ==
  IF next = "off" THEN Ended
  ELSE pc' = next /\ UNCHANGED <<next, args, loaded, hashed, report, before>>

Replace ==
  /\ pc = "save"
  /\ file' = report /\ durable' = Surviving
  /\ IF Prefill THEN pc' = "sync" /\ UNCHANGED <<next, args, loaded, hashed, report, before>>
     ELSE Return
  /\ UNCHANGED <<promised, host>>
SyncDirectory ==
  /\ pc = "sync" /\ Return
  /\ durable' = {file} /\ promised' = report.cases
  /\ UNCHANGED <<file, host>>

SaveThen(content, after) ==
  report' = content /\ pc' = "save" /\ next' = after

-----------------------------------------------------------------------------
(* Starting a session.                                                     *)

\* A new prefill run refuses an existing output; the historical one replaces it.
Accepts(resume) == tool = "prefill" /\ file # Absent => resume
Replaces(resume) == tool = "historical" /\ ~resume

\* The interpreter reads the script, imports the package and loads the
\* library; the sweep leaves that to its children.
Start ==
  /\ pc = "off" /\ sessions < IF Prefill THEN MaxSessions ELSE MaxThorSessions
  /\ tool' \in IF Prefill THEN {tool} ELSE {"direct", "sweep"}
  /\ \E settings \in Settings, resume \in BOOLEAN, max \in {0, 1}, clock \in BOOLEAN :
       /\ Accepts(resume)
       /\ clock => tool' = "sweep"
       /\ tool' = "direct" => ~resume
       /\ ~Prefill => max = 0
       /\ args' = [settings |-> settings, resume |-> resume, max |-> max, clock |-> clock,
                   applied |-> Free, first |-> Free]
       /\ promised' = IF Replaces(resume) THEN <<>> ELSE promised
  /\ pc' = "open" /\ loaded' = IF tool' = "sweep" THEN Unedited ELSE sources
  /\ sessions' = sessions + 1
  /\ UNCHANGED <<next, hashed, report, before, file, durable, sources, edits, gpu>>

\* The keys a resumed prefill compares; the script is not one of them.
AnyLibrary == {"software"}
PrefillCompared == {"library", "software"}
Resumable(r, source) ==
  /\ r.kind = "report" /\ ~r.complete
  /\ r.settings = args.settings
  /\ \A s \in PrefillCompared : r.source[s] = source[s]
  /\ IsPrefix(ShapesOf(r.cases), Expected(args.settings))
Resumed(r, source) ==
  [r EXCEPT !.failure = FALSE,
            !.resumed = Append(@, [done |-> Len(r.cases), script |-> source["script"]])]

OpenWith(content) ==
  /\ SaveThen(content, "loop")
  /\ before' = Len(content.cases) /\ hashed' = sources /\ UNCHANGED <<args, loaded>>
OpenPrefill ==
  /\ pc = "open" /\ Prefill
  /\ IF ~args.resume THEN OpenWith(NewReport(sources, Free, FALSE))
     ELSE IF Resumable(file, sources) THEN OpenWith(Resumed(file, sources))
     ELSE Ended
  /\ UNCHANGED <<disk, host>>
OpenDirect ==
  /\ pc = "open" /\ tool = "direct"
  /\ OpenWith(NewReport(sources, gpu.clock, FALSE))
  /\ UNCHANGED <<disk, host>>

-----------------------------------------------------------------------------
(* The cases measured in the session's own process.                        *)

Undone == Len(report.cases) < Len(Expected(args.settings))
NextShape == Expected(args.settings)[Len(report.cases) + 1]
Paused == args.max > 0 /\ Len(report.cases) - before >= args.max

\* prefill's run_case: the listed configurations and the defaults are tried on
\* the inputs.  One that needs too many resources is skipped, unless it is a
\* default: then, as after a wrong result, the case raises.  The fastest that
\* remains of each backend is its tuned configuration.  What is selected is
\* checked again on new inputs, by graph replays as well, and timed.
Backends(shape) == {"triton"} \cup IF Eligible(shape.dims) THEN {"cute"} ELSE {}
Candidates(shape) == Backends(shape) \X {"default", "listed"}
Fitting(shape) == {fits \in SUBSET Candidates(shape) : Backends(shape) \X {"default"} \subseteq fits}
Selected(shape, fits) ==
  (Backends(shape) \X {"default"}) \cup ({c[1] : c \in fits} \X {"tuned"})

\* compare_backends.run_case, also used by compare_thor: each implementation is
\* checked against the reference and by graph replays, then all are timed.
IMPLEMENTATIONS == {"cute_int8_gemm", "triton_int8_gemm", "torch_mm_bf16"}

Measured(shape) == Case(shape, IMPLEMENTATIONS)

Keep(case, reading) ==
  SaveThen([report EXCEPT !.cases = Append(@, case), !.steady = Together(@, reading)], "loop")
Fail == SaveThen([report EXCEPT !.failure = TRUE], "off")
MeasurePrefill ==
  /\ pc = "loop" /\ Prefill /\ Undone /\ ~Paused
  /\ \/ \E fits \in Fitting(NextShape) : Keep(Case(NextShape, Selected(NextShape, fits)), Free)
     \/ Fail
  /\ UNCHANGED <<args, loaded, hashed, before, disk, host>>
\* compare_thor reads the state of the GPU as well, and raises when it slowed down
\* meanwhile.
Heat == gpu' = [gpu EXCEPT !.heat = "hot"]
MeasureDirect ==
  /\ pc = "loop" /\ tool = "direct" /\ Undone
  /\ Heat
  /\ Keep(Measured(NextShape), gpu.clock) \/ Fail
  /\ UNCHANGED <<args, loaded, hashed, before, disk, tool, sources, edits, sessions>>

AnyCount == TRUE
AllMeasured == Len(report.cases) = Len(Expected(args.settings))
Finish(after) ==
  /\ SaveThen([report EXCEPT !.complete = TRUE, !.after = after], "off")
  /\ UNCHANGED <<args, loaded, hashed, before>>
FinishPrefill ==
  /\ pc = "loop" /\ Prefill /\ (Undone => Paused)
  /\ IF AllMeasured THEN Finish(None) ELSE Ended
  /\ UNCHANGED <<disk, host>>
FinishDirect ==
  /\ pc = "loop" /\ tool = "direct" /\ ~Undone /\ Finish(gpu.clock)
  /\ UNCHANGED <<disk, host>>

-----------------------------------------------------------------------------
(* sweep_thor.                                                             *)

\* plot_thor.load_report of a finished report: each size once, with every
\* implementation's result; and, if a setting of the clock is recorded, no
\* reading of another (validate_frequency_setting).
LoadReport(r, shapes) ==
  /\ IsInjective(ShapesOf(r.cases)) /\ Range(ShapesOf(r.cases)) = Range(shapes)
  /\ \A i \in DOMAIN r.cases : r.cases[i].results = IMPLEMENTATIONS
  /\ r.setting # None => r.steady = r.setting /\ r.after = r.setting
\* validate_report applies it to what was completed so far.
ValidReport(r, settings) ==
  /\ r.kind = "report" /\ r.settings = settings
  /\ Range(ShapesOf(r.cases)) \subseteq Range(Expected(settings))
  /\ LoadReport(r, ShapesOf(r.cases))
CurrentSources(r) == \A s \in {"library", "script"} : r.source[s] = sources[s]

\* A report of compare_thor gets its segments when it is resumed with cases.
Segmented(r) == [r EXCEPT !.segments = @ \/ r.cases # <<>>]
SweepOpen ==
  /\ pc = "open" /\ tool = "sweep"
  /\ IF args.resume /\ ~(file.kind = "report" /\ ValidReport(file, args.settings) /\ CurrentSources(file))
     THEN Ended
     ELSE /\ pc' = "cool" /\ report' = IF args.resume THEN Segmented(file) ELSE Absent
          /\ UNCHANGED <<next, args, loaded, hashed, before>>
  /\ UNCHANGED <<disk, host>>

Missing ==
  {i \in DOMAIN Expected(args.settings) :
     Expected(args.settings)[i] \notin Range(ShapesOf(report.cases))}
NextMissing == Expected(args.settings)[Min(Missing)]

\* cool_down waits without a limit and reads the current frequency, which may be
\* any if it is not fixed; then the child starts, hashes its sources and reads
\* the clock, as it does again at its end.
WhileHot == gpu.heat = "hot"
Cool == gpu.heat = "cool"
StartChild ==
  /\ pc = "cool" /\ Missing # {} /\ Cool
  /\ pc' = "child" /\ loaded' = sources
  /\ \E applied \in IF gpu.clock = Free THEN Clocks ELSE {gpu.clock} :
       args' = [args EXCEPT !.applied = applied]
  /\ UNCHANGED <<next, hashed, report, before, disk, host>>
HashChild ==
  /\ pc = "child" /\ pc' = "merge" /\ hashed' = sources
  /\ args' = [args EXCEPT !.first = gpu.clock]
  /\ UNCHANGED <<next, loaded, report, before, disk, host>>

\* A child that fails, because the GPU slowed down or otherwise, ends the sweep.
\* So does one whose sources differ and, by a KeyError, one resumed onto a report
\* without segments.  The frequency read after cooling down is recorded as the
\* setting if the session was asked for one; an earlier session's setting goes.
Mergeable ==
  report # Absent =>
    report.segments /\ \A s \in Sources : report.source[s] = hashed[s]
Merge ==
  /\ pc = "merge" /\ Heat
  /\ LET r == IF report = Absent THEN NewReport(hashed, args.first, TRUE) ELSE report
     IN \/ /\ Mergeable
           /\ SaveThen([r EXCEPT !.cases = Append(@, Measured(NextMissing)),
                                  !.complete = FALSE, !.failure = FALSE,
                                  !.setting = IF args.clock THEN args.applied ELSE None,
                                  !.steady = Together(Together(@, args.first), gpu.clock),
                                  !.after = gpu.clock], "cool")
           /\ UNCHANGED <<args, loaded, hashed, before>>
        \/ Ended
  /\ UNCHANGED <<disk, tool, sources, edits, sessions>>
\* The last reading is replaced after the report is validated.
FinishSweep ==
  /\ pc = "cool" /\ Missing = {}
  /\ IF ValidReport(report, args.settings)
     THEN /\ SaveThen([report EXCEPT !.complete = TRUE, !.failure = FALSE,
                                      !.after = gpu.clock], "off")
          /\ UNCHANGED <<args, loaded, hashed, before>>
     ELSE Ended
  /\ UNCHANGED <<disk, host>>

-----------------------------------------------------------------------------
(* The environment.                                                        *)

Edit(s) ==
  /\ edits < MaxEdits
  /\ sources' = [sources EXCEPT ![s] = @ + 1] /\ edits' = edits + 1
  /\ UNCHANGED <<session, disk, tool, gpu, sessions>>
SetClock ==
  /\ edits < MaxEdits /\ ~Prefill
  /\ \E clock \in Readings \ {gpu.clock} : gpu' = [gpu EXCEPT !.clock = clock]
  /\ edits' = edits + 1
  /\ UNCHANGED <<session, disk, tool, sources, sessions>>
GpuCools ==
  /\ gpu.heat # "cool" /\ gpu' = [gpu EXCEPT !.heat = "cool"]
  /\ UNCHANGED <<session, disk, tool, sources, edits, sessions>>
Kill == pc # "off" /\ Ended /\ UNCHANGED <<disk, host>>
HostRestart ==
  /\ file' \in durable /\ durable' = {file'}
  /\ Ended
  /\ UNCHANGED <<promised, host>>

-----------------------------------------------------------------------------

Init ==
  /\ tool \in {"prefill", "historical", "sweep"}
  /\ sources = Unedited /\ edits = 0
  /\ file = Absent /\ durable = {Absent}
  /\ pc = "off" /\ next = "off" /\ args = NoArgs
  /\ loaded = sources /\ hashed = sources /\ report = Absent /\ before = 0
  /\ \E clock \in IF Prefill THEN {Free} ELSE Clocks : gpu = [heat |-> "cool", clock |-> clock]
  /\ sessions = 0 /\ promised = <<>>

Work ==
  \/ OpenPrefill \/ MeasurePrefill \/ FinishPrefill
  \/ OpenDirect \/ MeasureDirect \/ FinishDirect
  \/ SweepOpen \/ StartChild \/ HashChild \/ Merge \/ FinishSweep
  \/ Replace \/ SyncDirectory
Environment == SetClock \/ GpuCools \/ Kill \/ HostRestart \/ \E s \in Sources : Edit(s)
Next == Start \/ Work \/ Environment

-----------------------------------------------------------------------------
(* Properties.                                                             *)

\* What a reader may find, now or after a restart of the host.
Reports == {r \in durable \cup {file} : r.kind = "report"}

\* Nothing was edited between reading the sources and hashing them.
Clean(c) == c.ran = c.hashed
ScriptOf(r, i) ==
  LET entries == {e \in DOMAIN r.resumed : r.resumed[e].done < i}
  IN IF entries = {} THEN r.source["script"] ELSE r.resumed[Max(entries)].script

\* Every result in a report was measured with the library and the software the
\* report names, whatever was rebuilt between its sessions, and the script
\* that measured it can be read from the report: resuming compares the first
\* two, and records the third.
Provenance ==
  \A r \in Reports : \A i \in DOMAIN r.cases :
    Clean(r.cases[i]) =>
      /\ \A s \in {"library", "software"} : r.cases[i].ran[s] = r.source[s]
      /\ r.cases[i].ran["script"] = ScriptOf(r, i)

\* The validators of a finished report: validate_results.validate wants the token
\* counts in ascending order, each shape once, with the uses that have it, every
\* use of every operation in exactly one case, and the four results of an
\* eligible shape or the two of another; plot_thor.load_report every size.
Ascending == \A i, j \in DOMAIN TokenCounts : i < j => TokenCounts[i] < TokenCounts[j]
Validate(r) ==
  /\ Ascending
  /\ IsInjective([i \in DOMAIN r.cases |-> r.cases[i].shape.dims])
  /\ \A i \in DOMAIN r.cases : \A u \in r.cases[i].shape.uses :
       u \in Range(Uses) /\ Dims(u[1], u[2]) = r.cases[i].shape.dims
  /\ \A u \in Range(Uses) : Cardinality({i \in DOMAIN r.cases : u \in r.cases[i].shape.uses}) = 1
  /\ \A i \in DOMAIN r.cases :
       r.cases[i].results = Backends(r.cases[i].shape) \X {"default", "tuned"}
Validates(r) ==
  IF Prefill THEN Validate(r) ELSE LoadReport(r, Expected(r.settings))

\* A report marked complete passes its validator, however many sessions, kills
\* and partial runs it took.  Three cases are apart: a sweep limited to the first
\* shapes; token counts in another order, which parse_args takes; and a fixed
\* clock that was changed after the last size, which the sweep reads into the
\* report after validating it.
Settled(r) == r.setting # None => r.after = r.steady
CompleteIsWhole ==
  \A r \in Reports :
    /\ r.complete
    /\ Prefill => r.settings.limit = 0 /\ Ascending
    /\ ~Prefill => Settled(r)
    => Validates(r)

\* Cases whose save returned are never lost: not by killing the process, not by
\* a restart of the host, not by a later run, unless the historical benchmark
\* was asked to start over.
Kept ==
  Prefill => \A content \in durable : IsPrefix(promised, content.cases)

\* Every session ends, finished or not, provided the GPU cools down.
SessionEnds == pc # "off" ~> pc = "off"

Spec == Init /\ [][Next]_vars /\ WF_vars(Work) /\ WF_vars(GpuCools)
=============================================================================
