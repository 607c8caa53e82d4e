------------------------------ MODULE BenchPaired ------------------------------
(***************************************************************************)
(* The benchmarks that time several methods in turn within one process:    *)
(* benchmarks/bench_moe_interleaved.py ("moe") and experiments/            *)
(* thor_mega_bf16/benchmark.py ("mega"), under the Guard that watches      *)
(* temperature and clocks, and without one experiments/cutlass/            *)
(* paired_benchmark.py ("paired") and experiments/m256-dispatch/measure.py *)
(* and its historical copy ("m256", one of its sweeps).  Meanwhile sources *)
(* are edited, the GPU heats and cools, its clocks move, a method starts   *)
(* to give wrong results, the process is killed.                           *)
(***************************************************************************)
EXTENDS Integers, Sequences, FiniteSets, SequencesExt

CONSTANTS
  PairedRounds,  \* bound: rounds of the paired benchmark, 60 by default
  MaxEdits,      \* bound: edits of the sources
  MaxPolls       \* bound: polls of the sensor within the 120 seconds

VARIABLES
  tool,
  version,   \* of the sources on disk
  loaded,    \* the version imported
  hashed,    \* the version hashed at the start
  temp,      \* degrees, one of each range the Guard tells apart
  fixed,     \* the clocks are where they must be
  wrong,     \* some method gives wrong results
  pc,
  polls,     \* polls since cooling began
  ran,       \* the methods timed, in order
  spoilt,    \* history: a method was timed while it gave wrong results
  success,   \* of the report in memory
  file       \* the report on disk

device == <<temp, fixed, wrong>>
vars == <<tool, version, loaded, hashed, device, pc, polls, ran, spoilt, success, file>>

Temperatures == <<50, 58, 66, 74>>
Guarded == tool \in {"moe", "mega"}

-----------------------------------------------------------------------------
(* The schedule.                                                           *)

Methods ==
  CASE tool = "moe" -> <<"before_split", "current_split", "interleaved">>
    [] tool = "mega" -> <<"mega_int8", "fp8_mega", "bf16_mega", "cosmos_bf16_compiled">>
    [] tool = "paired" -> <<"cute", "cutlass_production", "cutlass_matched">>
    [] tool = "m256" -> <<"cute_3", "cute_5", "cute_7">>
Rounds ==
  CASE tool = "moe" -> 3 [] tool = "mega" -> 4 [] tool = "paired" -> PairedRounds [] tool = "m256" -> 5
Samples == CASE tool = "moe" -> 2 [] tool = "mega" -> 3 [] OTHER -> 1

Rotated(s, offset) == SubSeq(s, offset + 1, Len(s)) \o SubSeq(s, 1, offset)
Turned(s, reversed) == IF reversed THEN Reverse(s) ELSE s
BySample(round, sample) ==
  Turned(Rotated(Methods, sample % Len(Methods)), sample % 2 = 1)
GuardOrder(round, sample) ==
  Turned(Rotated(Methods, (round + sample) % Len(Methods)), sample % 2 = 1)
PairedOrder(round) ==
  Turned(Rotated(Methods, round % Len(Methods)), (round \div Len(Methods)) % 2 = 1)
RotatedOrder(round) == Rotated(Methods, round % Len(Methods))
OrderOf(pass) ==
  CASE Guarded -> GuardOrder(pass \div Samples, pass % Samples)
    [] tool = "paired" -> PairedOrder(pass)
    [] tool = "m256" -> RotatedOrder(pass)

Passes == Rounds * Samples
Timed == Len(ran) = Passes * Len(Methods)
Current == OrderOf(Len(ran) \div Len(Methods))[(Len(ran) % Len(Methods)) + 1]

-----------------------------------------------------------------------------
(* The Guard.                                                              *)

\* state: it raises when a clock moved or at 70 degrees.
Sound == fixed /\ temp < 70
\* An exception goes on with the finally clause.
Steady == UNCHANGED <<tool, version, loaded, hashed, device, success, file>>
Raise == pc' = "finally" /\ Steady /\ UNCHANGED <<polls, ran, spoilt>>
Watched ==
  {"guard", "edges", "prepare", "check", "cool", "cooling", "before", "after", "recheck"}
StateFails == Guarded /\ pc \in Watched /\ ~Sound /\ Raise

\* cool: from 62 degrees on, wait until 54, for two minutes at most.
Never == FALSE
TimedOut == polls = MaxPolls
NeedNotCool ==
  /\ pc = "cool" /\ Sound /\ temp < 62 /\ pc' = "before"
  /\ Steady /\ UNCHANGED <<polls, ran, spoilt>>
BeginCooling ==
  /\ pc = "cool" /\ Sound /\ temp >= 62 /\ pc' = "cooling" /\ polls' = 0
  /\ Steady /\ UNCHANGED <<ran, spoilt>>
Cooled ==
  /\ pc = "cooling" /\ Sound /\ temp <= 54 /\ pc' = "before"
  /\ Steady /\ UNCHANGED <<polls, ran, spoilt>>
Poll ==
  /\ pc = "cooling" /\ Sound /\ temp > 54
  /\ IF TimedOut THEN Raise
     ELSE /\ polls' = IF polls = MaxPolls THEN polls ELSE polls + 1
          /\ Steady /\ UNCHANGED <<pc, ran, spoilt>>

\* measure: the L2 flush, the state before, the timed call, the state after.
Before ==
  /\ pc = "before" /\ Sound /\ pc' = "after"
  /\ Steady /\ UNCHANGED <<polls, ran, spoilt>>
Record(after) ==
  /\ ran' = Append(ran, Current) /\ spoilt' = (spoilt \/ wrong)
  /\ pc' = IF Len(ran') = Passes * Len(Methods) THEN "recheck" ELSE after
  /\ Steady /\ UNCHANGED polls
After == pc = "after" /\ Sound /\ Record("cool")

-----------------------------------------------------------------------------
(* main.                                                                   *)

Report(ok) == [kind |-> "report", success |-> ok, hashed |-> hashed, spoilt |-> spoilt]
Rest == <<tool, version, device, polls, ran, spoilt>>

\* The first report is saved before anything is imported.  A paired result is
\* never overwritten: the run raises before it measures.
FirstReport(next) == pc = "begin" /\ file' = Report(FALSE) /\ pc' = next
BeginMoe == tool = "moe" /\ FirstReport("guard") /\ UNCHANGED <<loaded, hashed, success, Rest>>
BeginMega == tool = "mega" /\ FirstReport("import") /\ UNCHANGED <<loaded, hashed, success, Rest>>
BeginPaired ==
  /\ tool = "paired" /\ pc = "begin"
  /\ pc' = IF file.kind = "absent" THEN "import" ELSE "off"
  /\ UNCHANGED <<loaded, hashed, success, file, Rest>>

\* m256 loads the library to see that it is there, and only then compares the
\* file with the one whose registers and shared memory were recorded.
Described == 0
LoadM256 ==
  /\ tool = "m256" /\ pc = "begin" /\ loaded' = version /\ pc' = "occupancy"
  /\ UNCHANGED <<hashed, success, file, Rest>>
CheckOccupancy ==
  /\ pc = "occupancy"
  /\ pc' = IF version = Described /\ file.kind = "absent" THEN "check" ELSE "off"
  /\ UNCHANGED <<loaded, hashed, success, file, Rest>>

\* moe hashes the packages and imports them then; mega imports and then hashes.
CheckState ==
  /\ pc = "guard" /\ Sound
  /\ pc' = IF tool = "moe" THEN "hash" ELSE "prepare"
  /\ UNCHANGED <<loaded, hashed, success, file, Rest>>
Hashing(next) ==
  /\ pc = "hash" /\ hashed' = version /\ pc' = next
  /\ UNCHANGED <<loaded, success, file, Rest>>
HashMoe == tool = "moe" /\ Hashing("import")
HashMega == tool = "mega" /\ Hashing("guard")
Importing(next) ==
  /\ pc = "import" /\ loaded' = version /\ pc' = next
  /\ UNCHANGED <<hashed, success, file, Rest>>
ImportMoe == tool = "moe" /\ Importing("edges")
ImportMega == tool = "mega" /\ Importing("hash")
ImportPaired == tool = "paired" /\ Importing("check")

\* mega prepares the weights in the four formats; the report saved now names
\* the sources.
PrepareMega ==
  /\ pc = "prepare" /\ Sound /\ file' = Report(FALSE) /\ pc' = "check"
  /\ UNCHANGED <<loaded, hashed, success, Rest>>

\* moe checks routes with padding, masks and equal experts first.
CheckEdges ==
  /\ pc = "edges" /\ Sound
  /\ pc' = IF wrong THEN "finally" ELSE "check"
  /\ UNCHANGED <<loaded, hashed, success, file, Rest>>
\* Every method is compared with its reference before it is timed: moe also
\* compares the padding and every bit of the methods with one another, mega
\* every method's second call with its first, paired and m256 replayed graphs.
Checked(ifWrong, ifRight) ==
  /\ pc = "check" /\ Sound /\ pc' = IF wrong THEN ifWrong ELSE ifRight
  /\ UNCHANGED <<loaded, hashed, success, file, Rest>>
CheckMoe == tool = "moe" /\ Checked("finally", "cool")
CheckMega == tool = "mega" /\ Checked("finally", "cool")
CheckPaired == tool = "paired" /\ Checked("off", "time")
CheckM256 == tool = "m256" /\ Checked("off", "time")
TimePaired == tool = "paired" /\ pc = "time" /\ Record("time")
TimeM256 == tool = "m256" /\ pc = "time" /\ Record("time")
\* The guarded ones compare again afterwards.
Rechecked ==
  /\ pc = "recheck" /\ Sound /\ pc' = "finally" /\ success' = ~wrong
  /\ UNCHANGED <<loaded, hashed, file, Rest>>
RecheckMoe == tool = "moe" /\ Rechecked
RecheckMega == tool = "mega" /\ Rechecked

\* The libraries are hashed after they were timed, and the result is written
\* in place.
Torn == [kind |-> "torn", success |-> FALSE, hashed |-> 0, spoilt |-> FALSE]
Open ==
  /\ pc = "recheck" /\ pc' = "writing"
  /\ hashed' = version /\ file' = Torn
  /\ UNCHANGED <<loaded, success, Rest>>
Written ==
  /\ pc = "writing" /\ pc' = "off" /\ file' = Report(TRUE)
  /\ UNCHANGED <<loaded, hashed, success, Rest>>
WritePaired == tool = "paired" /\ Open
PairedWritten == tool = "paired" /\ Written
WriteM256 == tool = "m256" /\ Open
M256Written == tool = "m256" /\ Written

\* A report is successful only if the sources hash to what they did.
AnySource == TRUE
Unchanged == hashed = version
Finally ==
  /\ pc = "finally" /\ pc' = "off"
  /\ success' = (success /\ Unchanged) /\ file' = Report(success')
  /\ UNCHANGED <<loaded, hashed, Rest>>

-----------------------------------------------------------------------------

Edit ==
  /\ version < MaxEdits /\ version' = version + 1
  /\ UNCHANGED <<tool, loaded, hashed, device, pc, polls, ran, spoilt, success, file>>
Drift ==
  /\ Guarded
  /\ \/ /\ \E i \in DOMAIN Temperatures :
             /\ temp \in {Temperatures[j] : j \in {i - 1, i + 1} \cap DOMAIN Temperatures}
             /\ temp' = Temperatures[i]
        /\ UNCHANGED fixed
     \/ fixed' = ~fixed /\ UNCHANGED temp
  /\ UNCHANGED <<tool, version, loaded, hashed, wrong, pc, polls, ran, spoilt, success, file>>
GoWrong ==
  /\ ~wrong /\ wrong' = TRUE
  /\ UNCHANGED <<tool, version, loaded, hashed, temp, fixed, pc, polls, ran, spoilt, success, file>>
Kill ==
  /\ pc # "off" /\ pc' = "off"
  /\ UNCHANGED <<loaded, hashed, success, file, Rest>>

NoFile == [kind |-> "absent", success |-> FALSE, hashed |-> 0, spoilt |-> FALSE]
Init ==
  /\ tool \in {"moe", "mega", "paired", "m256"}
  /\ version = 0 /\ loaded = 0 /\ hashed = 0
  /\ temp = 50 /\ fixed = TRUE /\ wrong \in BOOLEAN
  /\ pc = "begin" /\ polls = 0 /\ ran = <<>> /\ spoilt = FALSE /\ success = FALSE
  /\ file \in {NoFile, Torn}

Work ==
  \/ BeginMoe \/ BeginMega \/ BeginPaired \/ LoadM256 \/ CheckOccupancy
  \/ CheckState \/ HashMoe \/ HashMega \/ ImportMoe \/ ImportMega \/ ImportPaired
  \/ CheckEdges \/ PrepareMega \/ CheckMoe \/ CheckMega \/ CheckPaired \/ CheckM256
  \/ TimePaired \/ TimeM256 \/ RecheckMoe \/ RecheckMega
  \/ WritePaired \/ PairedWritten \/ WriteM256 \/ M256Written \/ Finally
  \/ StateFails \/ NeedNotCool \/ BeginCooling \/ Cooled \/ Poll \/ Before \/ After
Next == Work \/ Edit \/ Drift \/ GoWrong \/ Kill

-----------------------------------------------------------------------------
(* Properties.                                                             *)

PlaceOf(order, m) == CHOOSE i \in DOMAIN order : order[i] = m
Order(pass) == SubSeq(ran, pass * Len(Methods) + 1, (pass + 1) * Len(Methods))
Placed(m, place) == Cardinality({p \in 0 .. Passes - 1 : Order(p)[place] = m})
Precedes(a, b) ==
  Cardinality({p \in 0 .. Passes - 1 : PlaceOf(Order(p), a) < PlaceOf(Order(p), b)})

\* When everything was timed, every method came equally often first, second
\* and so on, or, where the methods do not divide the passes, once more often at
\* most; in the paired benchmark, whose ratios are taken round by round, each of
\* two methods also came before the other equally often, if its rounds turn
\* every rotation round as often (the 60 of the default do).
OrdersFair ==
  Timed =>
    /\ \A m \in Range(Methods) : \A i, j \in DOMAIN Methods :
         Placed(m, i) <= Placed(m, j) + (IF Passes % Len(Methods) = 0 THEN 0 ELSE 1)
    /\ tool = "paired" /\ PairedRounds % (2 * Len(Methods)) = 0 =>
         \A a, b \in Range(Methods) : a # b => Precedes(a, b) = Precedes(b, a)

\* A guarded report that says success was measured with the sources it names,
\* every sample with right results, whatever changed meanwhile.  (mega imports
\* before it hashes: of its sources this says only that they did not change
\* after that.)
SuccessIsSound ==
  Guarded /\ file.success =>
    Timed /\ ~file.spoilt /\ (tool = "moe" => file.hashed = loaded)

\* The benchmark ends, even if the GPU never cools down.
MeasureEnds == <>(pc = "off")

Spec == Init /\ [][Next]_vars /\ WF_vars(Work)
=============================================================================
