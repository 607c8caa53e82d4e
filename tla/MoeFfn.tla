-------------------------------- MODULE MoeFfn --------------------------------
(***************************************************************************)
(* moe_ffn: how a call chooses a path, sizes its buffers and moves rows    *)
(* through the two projections, run eagerly or captured into a graph that  *)
(* is replayed with other ids and masks.  The choice and the capacity are  *)
(* taken once, on the host; the routes are built anew by every run.        *)
(* The routing kernels are replaced by their contract, RouteSpec, which    *)
(* MoeRouting's invariants establish.                                      *)
(***************************************************************************)
EXTENDS RouteSpec, FiniteSetsExt, Sequences

CONSTANTS
  Ids,          \* the values topk_ids may hold
  Align,        \* rows a native capacity is rounded to (64)
  DenseRows,    \* rows per expert from which auto tries native (128)
  Rooms,        \* rows a workspace may have, for the widths a call may have
  Calls,        \* bound: the capture and its replays
  Setups        \* the environments explored, a subset of AllSetups

ASSUME FfnAssumption ==
  /\ Ids \subseteq Int /\ {Align, DenseRows, Calls} \subseteq Nat \ {0}
  /\ \A room \in Rooms : room \in Nat /\ Slots <= room  \* _validate

\* thor: SM110.  built: the native libraries the call needs are available.
\* bf16: output_dtype.  x_aligned, w_aligned: 16-byte alignment of the hidden
\* states, and of the weights and their scales.  room: rows whose elements the
\* 32-bit offsets still reach.  "cuda" is an explicit native
\* backend like "cutlass" and takes the same decisions.
AllSetups ==
  [backend : {"auto", "triton", "cutlass"}, capturing : BOOLEAN, thor : BOOLEAN,
   built : BOOLEAN, bf16 : BOOLEAN, x_aligned : BOOLEAN, w_aligned : BOOLEAN,
   room : Rooms]

ASSUME SetupAssumption == Setups \subseteq AllSetups

VARIABLES
  setup, ids, mask, call,      \* inputs
  phase, result,               \* host's or stream's next step; how the call ended
  selected, capacity, tiled,   \* path; rows per expert (0: ragged); tiles built
  routes,                      \* effective ids, the rest follows from them
  packed, gate_up, hidden, expert_output,  \* a tag per row
  output                       \* what each token's sum is made of

inputs == <<setup, ids, mask, call>>
plan == <<selected, capacity, tiled>>
rows == <<packed, gate_up, hidden, expert_output>>
vars == <<inputs, phase, result, plan, routes, rows, output>>

TokenSet == 0 .. Tokens - 1
Ranks == 0 .. TopK - 1
RoundUp(n) == ((n + Align - 1) \div Align) * Align
Inputs == [Assignments -> Ids] \X [TokenSet -> BOOLEAN]

\* A row holds what an expert made of a token in this run, zeros, or what the
\* allocator or the last replay left there.
Row(token, experts) == [token |-> token, experts |-> experts, run |-> call]
Pad == [token |-> -1, experts |-> <<>>, run |-> 0]
Stale == [token |-> -2, experts |-> <<>>, run |-> 0]
NoTerm == [token |-> -3, experts |-> <<>>, run |-> 0]
At(buffer, i) == IF i \in DOMAIN buffer THEN buffer[i] ELSE Stale

Total == Cardinality(Routed(routes))
Maximum == Max({CountOf(routes, e) : e \in ExpertSet})
Ragged == selected = "triton"
RowCount == IF Ragged THEN Slots ELSE Experts * capacity
RowSet == 0 .. RowCount - 1
Expert(i) == i \div capacity
Local(i) == i % capacity
TokenOf(a) == a \div TopK

\* The rows a kernel treats as live: the sorted prefix, or per expert the
\* first count rows.
Live(i) == IF Ragged THEN i < StartOf(routes, Experts)
                     ELSE Local(i) < CountOf(routes, Expert(i))
AssignmentAt(i) ==
  Sorted(routes)[IF Ragged THEN i ELSE StartOf(routes, Expert(i)) + Local(i)]

Init ==
  /\ setup \in Setups
  /\ \E in \in Inputs : ids = in[1] /\ mask = in[2]
  /\ call = 1 /\ phase = "select" /\ result = "none"
  /\ selected = "none" /\ capacity = 0 /\ tiled = FALSE
  /\ routes = [a \in Assignments |-> Experts]
  /\ packed = <<>> /\ gate_up = <<>> /\ hidden = <<>> /\ expert_output = <<>>
  /\ output = [t \in TokenSet |-> [r \in Ranks |-> Stale]]

-----------------------------------------------------------------------------
(* The host.                                                               *)

Explicit == setup.backend = "cutlass"

AutoNative ==
  /\ ~setup.capturing /\ setup.bf16 /\ setup.thor
  /\ Slots >= Experts * DenseRows /\ setup.x_aligned /\ setup.w_aligned /\ setup.built

Select ==
  /\ phase = "select"
  /\ selected' = IF setup.backend # "auto" THEN setup.backend
                 ELSE IF AutoNative THEN "cutlass" ELSE "triton"
  /\ tiled' = (selected' = "triton")
  /\ phase' = IF setup.capturing THEN "check" ELSE "route"
  /\ UNCHANGED <<inputs, result, capacity, routes, rows, output>>

End(how) == phase' = "ended" /\ result' = how

\* The three statistics reach the host; an invalid id ends the call.
AboveExperts == \E a \in Assignments : mask[TokenOf(a)] /\ ids[a] \notin 0 .. Experts
AnyInvalid == InvalidIds(ids, mask) # {}
Validate ==
  /\ phase = "validate"
  /\ IF AnyInvalid THEN End("ValueError")
     ELSE phase' = "check" /\ UNCHANGED result
  /\ UNCHANGED <<inputs, plan, routes, rows, output>>

Unsupported ==
  \/ ~setup.bf16 \/ ~setup.built
  \/ setup.thor /\ ~setup.x_aligned
  \/ ~setup.w_aligned
CheckExplicit ==
  /\ phase = "check"
  /\ IF Explicit /\ Unsupported THEN End("unsupported")
     ELSE phase' = "size" /\ UNCHANGED result
  /\ UNCHANGED <<inputs, plan, routes, rows, output>>

CapturedRows == RoundUp(Slots)
\* More than twice the routed rows would be computed.
SkewedBeforeRounding(rounded) == Experts * Maximum > 2 * Total
Skewed(rounded) == Experts * rounded > 2 * Total

Size ==
  /\ phase = "size"
  /\ CASE selected = "triton" -> phase' = "run" /\ UNCHANGED <<plan, result, output>>
       [] selected # "triton" /\ setup.capturing ->
            capacity' = CapturedRows /\ phase' = "workspace"
            /\ UNCHANGED <<selected, tiled, result, output>>
       [] selected # "triton" /\ ~setup.capturing /\ Maximum = 0 ->
            /\ output' = [t \in TokenSet |-> [r \in Ranks |-> NoTerm]]
            /\ End("zeros") /\ UNCHANGED plan
       [] OTHER ->
            /\ UNCHANGED <<result, output>>
            /\ IF setup.backend = "auto" /\ Skewed(RoundUp(Maximum))
                 THEN selected' = "triton" /\ tiled' = TRUE /\ phase' = "run"
                      /\ UNCHANGED capacity
                 ELSE capacity' = RoundUp(Maximum) /\ phase' = "workspace"
                      /\ UNCHANGED <<selected, tiled>>
  /\ UNCHANGED <<inputs, routes, rows>>

WorkspaceTooLarge == RowCount > setup.room
CheckWorkspace ==
  /\ phase = "workspace"
  /\ IF WorkspaceTooLarge THEN End("ValueError") ELSE phase' = "run" /\ UNCHANGED result
  /\ UNCHANGED <<inputs, plan, routes, rows, output>>

\* The buffers are allocated with the launches; in a capture nothing runs.
Launch ==
  /\ phase = "run"
  /\ LET fresh == [i \in RowSet |-> Stale]
     IN packed' = fresh /\ gate_up' = fresh /\ hidden' = fresh /\ expert_output' = fresh
  /\ IF setup.capturing THEN End("captured") ELSE phase' = "first" /\ UNCHANGED result
  /\ UNCHANGED <<inputs, plan, routes, output>>

\* The caller changes ids and mask in place and replays; the routes, the rows
\* and the output are those buffers again.
Replay ==
  /\ phase = "ended" /\ setup.capturing /\ result \in {"captured", "returned"}
  /\ call < Calls
  /\ call' = call + 1 /\ phase' = "route"
  /\ \E in \in Inputs : ids' = in[1] /\ mask' = in[2]
  /\ UNCHANGED <<setup, result, plan, routes, rows, output>>

-----------------------------------------------------------------------------
(* The stream.                                                             *)

Route ==
  /\ phase = "route"
  /\ routes' = EffectiveIds(ids, mask)
  /\ phase' = IF setup.capturing THEN "first" ELSE "validate"
  /\ UNCHANGED <<inputs, result, plan, rows, output>>

\* Ragged: only the rows of tiles are written, from the original tokens.
\* Thor: a gathering kernel takes them, and writes each row's activation.
\* Others: pack the tokens, then project every packed row.
FirstProjection ==
  /\ phase = "first"
  /\ IF ~Ragged /\ ~setup.thor
       THEN packed' = [i \in RowSet |->
              IF Live(i) THEN Row(TokenOf(AssignmentAt(i)), <<>>) ELSE Pad]
       ELSE UNCHANGED packed
  /\ IF Ragged \/ ~setup.thor
       THEN gate_up' = [i \in RowSet |->
              IF ~Ragged THEN [packed'[i] EXCEPT !.experts = <<Expert(i)>>]
              ELSE IF tiled /\ Live(i)
                THEN Row(TokenOf(AssignmentAt(i)), <<routes[AssignmentAt(i)]>>)
                ELSE gate_up[i]]
       ELSE UNCHANGED gate_up
  /\ IF Ragged \/ ~setup.thor THEN UNCHANGED hidden
     ELSE hidden' = [i \in RowSet |->
            IF Live(i) THEN Row(TokenOf(AssignmentAt(i)), <<Expert(i)>>) ELSE Pad]
  /\ phase' = IF Ragged \/ ~setup.thor THEN "activate" ELSE "second"
  /\ UNCHANGED <<inputs, result, plan, routes, expert_output, output>>

\* swiglu_quantize: every row is written, the dead ones without being read.
Activate ==
  /\ phase = "activate"
  /\ hidden' = [i \in RowSet |-> IF Live(i) THEN gate_up[i] ELSE Pad]
  /\ phase' = "second"
  /\ UNCHANGED <<inputs, result, plan, routes, packed, gate_up, expert_output, output>>

\* A ragged launch writes live rows only; a native one may skip the others.
SecondProjection ==
  /\ phase = "second"
  /\ \E skip \in BOOLEAN :
       /\ Ragged => skip
       /\ expert_output' = [i \in RowSet |->
            IF skip /\ (~Live(i) \/ (Ragged /\ ~tiled)) THEN expert_output[i]
            ELSE LET e == IF Ragged THEN routes[AssignmentAt(i)] ELSE Expert(i)
                 IN [hidden[i] EXCEPT !.experts = Append(@, e)]]
  /\ phase' = "combine"
  /\ UNCHANGED <<inputs, result, plan, routes, packed, gate_up, hidden, output>>

\* Where combine finds an assignment's row.
SortedSlot(a) == Rank(routes, a)
SlotOf(a) ==
  IF capacity = 0 THEN Rank(routes, a)
  ELSE routes[a] * capacity + Rank(routes, a) - StartOf(routes, routes[a])

Combine ==
  /\ phase = "combine"
  /\ output' = [t \in TokenSet |-> [r \in Ranks |->
       LET a == t * TopK + r
       IN IF a \in Routed(routes) THEN At(expert_output, SlotOf(a)) ELSE NoTerm]]
  /\ End("returned")
  /\ UNCHANGED <<inputs, plan, routes, rows>>

Next ==
  \/ Select \/ Validate \/ CheckExplicit \/ Size \/ CheckWorkspace \/ Launch \/ Replay
  \/ Route \/ FirstProjection \/ Activate \/ SecondProjection \/ Combine

Spec == Init /\ [][Next]_vars

-----------------------------------------------------------------------------
(* Correctness.                                                            *)

TypeOK ==
  /\ setup \in Setups /\ ids \in [Assignments -> Ids] /\ call \in 1 .. Calls
  /\ phase \in {"select", "route", "validate", "check", "size", "workspace", "run",
                "first", "activate", "second", "combine", "ended"}
  /\ result \in {"none", "ValueError", "unsupported", "zeros", "captured", "returned"}
  /\ selected \in {"none", "triton", "cutlass"} /\ capacity \in 0 .. RoundUp(Slots)
  /\ tiled \in BOOLEAN /\ routes \in [Assignments -> Bins]
  /\ \A b \in {packed, gate_up, hidden, expert_output} :
       b = <<>> \/ (DOMAIN b = RowSet /\ RowCount <= setup.room)

\* No run drops, duplicates or mixes up a row: each token's sum has exactly
\* the terms of its unmasked, valid assignments, each made in this run from
\* that token by that expert in both projections, whatever path was taken,
\* whatever the buffers held, and with the ids of this replay; no value leaves
\* its type, nor a buffer its size.
Wanted == EffectiveIds(ids, mask)
Term(a) ==
  IF a \in Routed(Wanted) THEN Row(TokenOf(a), <<Wanted[a], Wanted[a]>>) ELSE NoTerm
OutputComplete ==
  /\ TypeOK
  /\ phase = "ended" /\ result \in {"returned", "zeros"} =>
       output = [t \in TokenSet |-> [r \in Ranks |-> Term(t * TopK + r)]]

\* A native path starts only with its build, BF16 output and alignment, which
\* auto and the explicit backend test apart; auto takes it only outside a
\* capture, and then computes at most twice the rows that are routed.
Running == {"first", "activate", "second", "combine"}
NativeJustified ==
  phase \in Running /\ ~Ragged =>
    /\ setup.built /\ setup.bf16 /\ setup.w_aligned
    /\ setup.thor => setup.x_aligned
    /\ setup.backend = "auto" =>
         ~setup.capturing /\ RowCount <= 2 * Cardinality(Routed(Wanted))

\* An eager call never returns a result for an id that is out of range.
InvalidRejected ==
  phase = "ended" /\ ~setup.capturing /\ InvalidIds(ids, mask) # {} =>
    result = "ValueError"
=============================================================================
