------------------------------ MODULE BenchTokens ------------------------------
(***************************************************************************)
(* The MoE benchmarks that measure one token count after the other within  *)
(* one process: benchmarks/bench_moe_optimized.py ("optimized", which also *)
(* runs a frozen package from before and checks the sources it named),     *)
(* bench_moe_ffn.py ("ffn"), bench_moe_cosmos.py ("cosmos") and            *)
(* bench_moe_vllm.py ("vllm").  Meanwhile sources are edited, the GPU heats *)
(* and cools or cannot be read, the process is killed.                     *)
(***************************************************************************)
EXTENDS Integers, Sequences, FiniteSets, SequencesExt

CONSTANTS
  TokenCounts,  \* the token counts, distinct and in order
  TokenRounds,  \* bound: rounds of one token count, 5 by default
  MaxEdits,     \* bound: edits of the sources
  MaxPolls      \* bound: polls of the sensor within the 240 seconds

VARIABLES
  tool,
  sources,   \* what is on disk of each part: how often it was edited
  edits,
  loaded,    \* what the process runs of each part
  hashed,    \* what it hashed of each part
  temp,      \* of the GPU, or "unread"
  polls,     \* polls since cooling began
  ran,       \* the orders in which the methods were timed, round by round
  pc,
  report,    \* the report in memory
  file       \* the report on disk

process == <<loaded, hashed, polls, ran, pc, report>>
vars == <<tool, sources, edits, temp, process, file>>

Parts == {"before", "source", "library"}
Unedited == [p \in Parts |-> 0]
NotLoaded == [p \in Parts |-> -1]

-----------------------------------------------------------------------------
(* What each benchmark compares, and what its report names.                *)

OptimizedMethods == <<"int8_before", "int8_auto", "vllm_bf16", "cosmos_bf16_compiled">>
FfnMethods == <<"int8_moe_ffn", "float_eager_experts">>
CosmosMethods == <<"int8_auto", "cosmos_bf16_eager", "cosmos_bf16_compiled">>
VllmMethods == <<"vllm_bf16", "cosmos_bf16_compiled">>
Methods ==
  CASE tool = "optimized" -> OptimizedMethods [] tool = "ffn" -> FfnMethods
    [] tool = "cosmos" -> CosmosMethods [] tool = "vllm" -> VllmMethods

OptimizedParts == Parts
FfnParts == {"source", "library"}
CosmosParts == {"source", "library"}
VllmParts == {"library"}
NamedParts ==
  CASE tool = "optimized" -> OptimizedParts [] tool = "ffn" -> FfnParts
    [] tool = "cosmos" -> CosmosParts [] tool = "vllm" -> VllmParts

\* Round by round the methods rotate; the two of ffn are turned round.
RotatedMethods(round) ==
  LET offset == round % Len(Methods)
  IN SubSeq(Methods, offset + 1, Len(Methods)) \o SubSeq(Methods, 1, offset)
TurnedMethods(round) == IF round % 2 = 1 THEN Reverse(Methods) ELSE Methods
OrderOf(round) == IF tool = "ffn" THEN TurnedMethods(round) ELSE RotatedMethods(round)

-----------------------------------------------------------------------------
(* The report.                                                             *)

NoReport == [kind |-> "absent", complete |-> FALSE, failed |-> FALSE, cases |-> <<>>]
NewReport == [NoReport EXCEPT !.kind = "report"]
Case(tokens) == [tokens |-> tokens, ran |-> loaded, source |-> hashed, orders |-> ran]

\* save writes a temporary file and renames it.
Save == file' = report'

AtOnly(place) == pc' = place /\ UNCHANGED <<loaded, hashed, polls, ran, report, file>>
Raise ==
  /\ pc' = "off" /\ loaded' = NotLoaded /\ hashed' = Unedited /\ polls' = 0 /\ ran' = <<>>
  /\ report' = NoReport
RaiseUnrecorded == Raise /\ UNCHANGED file
RaiseRecorded == Raise /\ file' = [report EXCEPT !.failed = TRUE]
\* optimized records whatever fails within a case, ffn nothing.
Failed == IF tool = "optimized" THEN RaiseRecorded ELSE RaiseUnrecorded
host == <<tool, sources, edits, temp>>

-----------------------------------------------------------------------------
(* main, before the cases.                                                 *)

Import ==
  /\ pc = "import" /\ loaded' = [loaded EXCEPT !["source"] = sources["source"]]
  /\ pc' = IF tool = "optimized" THEN "hash before" ELSE "hash after"
  /\ UNCHANGED <<hashed, polls, ran, report, file, host>>

\* load_before_package: what it hashed must be what was committed, then it is
\* imported.
HashBefore ==
  /\ pc = "hash before"
  /\ IF sources["before"] # 0 THEN RaiseUnrecorded
     ELSE /\ pc' = "load before" /\ hashed' = [hashed EXCEPT !["before"] = sources["before"]]
          /\ UNCHANGED <<loaded, polls, ran, report, file>>
  /\ UNCHANGED host
LoadBefore ==
  /\ pc = "load before" /\ pc' = "hash after"
  /\ loaded' = [loaded EXCEPT !["before"] = sources["before"]]
  /\ UNCHANGED <<hashed, polls, ran, report, file, host>>

\* The first report is saved before the first case.
HashAfter ==
  /\ pc = "hash after" /\ pc' = "calls"
  /\ hashed' = [p \in Parts |-> IF p # "before" /\ p \in NamedParts THEN sources[p] ELSE hashed[p]]
  /\ report' = NewReport /\ Save
  /\ UNCHANGED <<loaded, polls, ran, host>>

-----------------------------------------------------------------------------
(* One token count.                                                        *)

Tokens == TokenCounts[Len(report.cases) + 1]

\* Every method is called once; the first call loads the library.  Only ffn
\* does not record that a call raised; a result that is not finite (or, of ffn,
\* wrong) is recorded by optimized and vllm.
FirstCalls ==
  /\ pc = "calls"
  /\ \/ /\ pc' = "checks"
        /\ loaded' = [loaded EXCEPT !["library"] = IF @ = -1 THEN sources["library"] ELSE @]
        /\ UNCHANGED <<hashed, polls, ran, report, file>>
     \/ tool # "ffn" /\ RaiseRecorded
     \/ tool \notin {"optimized", "vllm"} /\ RaiseUnrecorded
  /\ UNCHANGED host
\* The results are compared with the references.
Check ==
  /\ pc = "checks"
  /\ \/ pc' = "cool" /\ polls' = 0 /\ UNCHANGED <<loaded, hashed, ran, report, file>>
     \/ Failed
  /\ UNCHANGED host

\* wait_for_cooling: to 60 degrees, for four minutes; without a sensor at once.
Cool ==
  /\ pc = "cool"
  /\ IF temp \in {"cool", "unread"}
     THEN pc' = "time" /\ ran' = <<>> /\ UNCHANGED <<loaded, hashed, polls, report, file>>
     ELSE IF polls = MaxPolls THEN Failed
     ELSE polls' = polls + 1 /\ UNCHANGED <<loaded, hashed, ran, pc, report, file>>
  /\ UNCHANGED host

\* One round of all methods, and then the sensor: a case that got hot is
\* discarded with everything that would come after it.
TimeRound ==
  /\ pc = "time" /\ pc' = "read" /\ ran' = Append(ran, OrderOf(Len(ran)))
  /\ UNCHANGED <<loaded, hashed, polls, report, file, host>>
ReadSensor ==
  /\ pc = "read"
  /\ IF temp = "hot" THEN Failed
     ELSE IF Len(ran) < TokenRounds THEN AtOnly("time")
     ELSE AtOnly(IF tool = "optimized" THEN "verify" ELSE "keep")
  /\ UNCHANGED host

\* verify_provenance: everything the report names is on disk as it was.
Verified == \A p \in NamedParts : sources[p] = hashed[p]
VerifyProvenance ==
  /\ pc = "verify"
  /\ IF Verified THEN AtOnly("keep") ELSE Failed
  /\ UNCHANGED host
KeepCase ==
  /\ pc = "keep"
  /\ LET cases == Append(report.cases, Case(Tokens))
     IN report' = [report EXCEPT !.cases = cases, !.complete = (Len(cases) = Len(TokenCounts))]
  /\ Save
  /\ pc' = IF report'.complete THEN "end" ELSE "calls"
  /\ UNCHANGED <<loaded, hashed, polls, ran, host>>
End == pc = "end" /\ RaiseUnrecorded /\ UNCHANGED host

-----------------------------------------------------------------------------
(* The environment.                                                        *)

Edit(p) ==
  /\ edits < MaxEdits /\ edits' = edits + 1
  /\ sources' = [sources EXCEPT ![p] = @ + 1]
  /\ UNCHANGED <<tool, temp, process, file>>
Drift ==
  /\ temp' \in (CASE temp = "cool" -> {"warm", "unread"} [] temp = "warm" -> {"cool", "hot", "unread"}
                  [] temp = "hot" -> {"warm", "unread"} [] temp = "unread" -> {"cool", "warm", "hot"})
  /\ UNCHANGED <<tool, sources, edits, process, file>>
Kill == pc # "off" /\ RaiseUnrecorded /\ UNCHANGED host

Init ==
  /\ tool \in {"optimized", "ffn", "cosmos", "vllm"}
  /\ sources = Unedited /\ edits = 0 /\ temp = "cool"
  /\ loaded = NotLoaded /\ hashed = Unedited /\ polls = 0 /\ ran = <<>>
  /\ pc = "import" /\ report = NoReport /\ file = NoReport

Work ==
  \/ Import \/ HashBefore \/ LoadBefore \/ HashAfter
  \/ FirstCalls \/ Check \/ Cool \/ TimeRound \/ ReadSensor \/ VerifyProvenance \/ KeepCase \/ End
Next == Work \/ Drift \/ Kill \/ \E p \in Parts : Edit(p)

-----------------------------------------------------------------------------
(* Properties.                                                             *)

\* Within a case no method is favoured by its place: how often two methods
\* were timed at one place differs by one round at most.
OrdersFair ==
  \A i \in DOMAIN file.cases :
    LET orders == file.cases[i].orders
        Placed(m, place) == Cardinality({r \in 0 .. Len(orders) - 1 : orders[r + 1][place] = m})
    IN \A m, n \in Range(Methods) : \A place \in DOMAIN Methods :
         Placed(m, place) - Placed(n, place) \in {-1, 0, 1}

\* The cases are those of the first token counts, in order, and a report is
\* complete with the last; optimized ran the frozen package and the library
\* that the report names.
CasesSound ==
  /\ file.complete <=> file.kind = "report" /\ Len(file.cases) = Len(TokenCounts)
  /\ \A i \in DOMAIN file.cases :
       LET case == file.cases[i]
       IN /\ case.tokens = TokenCounts[i]
          /\ tool = "optimized" =>
               \A p \in {"before", "library"} : case.ran[p] = case.source[p]

\* The benchmark ends, even if the GPU never cools down.
MeasureEnds == <>(pc = "off")

Spec == Init /\ [][Next]_vars /\ WF_vars(Work)
=============================================================================
