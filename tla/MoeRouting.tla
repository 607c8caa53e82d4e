------------------------------ MODULE MoeRouting ------------------------------
(***************************************************************************)
(* The routing kernels of the MoE path (prepare_routes and                 *)
(* prepare_ragged_tiles).  Kernels of one call run one after the other on  *)
(* a stream; the programs of a kernel run in any order.  A captured graph  *)
(* replays the same launches on the same buffers with other ids and masks, *)
(* so every buffer starts a call with whatever the last call left in it.   *)
(***************************************************************************)
EXTENDS RouteSpec

CONSTANTS
  Ids,                    \* the values topk_ids may hold, invalid ones included
  Width,                  \* bits of the bins' index type (32 in the code)
  Chunk,                  \* assignments of a counting-sort chunk
  KeyBlock,               \* assignments of a program of the general sort
  BlockM,                 \* rows of a ragged tile
  TileBlock,              \* tiles of a program of the tile search
  Calls,                  \* bound: the first call and its replays
  ReplayInputs            \* bound: the ids and masks a replay may find

ASSUME ShapeAssumption ==
  /\ Ids \subseteq Int /\ Width \in Nat /\ 2 ^ Width \in Nat /\ Experts < 2 ^ Width
  /\ {Chunk, KeyBlock, BlockM, TileBlock} \subseteq Nat \ {0}
  /\ Calls \in Nat \ {0}
  /\ ReplayInputs \subseteq [Assignments -> Ids] \X [0 .. Tokens - 1 -> BOOLEAN]

VARIABLES
  ids, mask,                     \* the call's inputs
  counted,                       \* the sizes allow the counting sort
  include_tiles,                 \* tiles with the routes, or deferred
  kernel, todo, call,            \* launch being executed, its programs left
  keys, invalid,                 \* effective ids; invalid ids per program
  histogram, bases,              \* per chunk and bin
  counts, offsets, statistics,   \* per expert; the three totals
  order, inverse,                \* the sort and its inverse
  tile_offsets, tile_experts, tile_starts

inputs == <<ids, mask, counted, include_tiles, call>>
sorting == <<keys, invalid, histogram, bases>>
metadata == <<counts, offsets, statistics>>
permutation == <<order, inverse>>
tiles == <<tile_offsets, tile_experts, tile_starts>>
vars == <<inputs, kernel, todo, sorting, metadata, permutation, tiles>>

MaxTiles == CeilDiv(Slots, BlockM) + Experts
Tiles == 0 .. MaxTiles - 1
Stale == -7  \* what torch.empty returns

Block == IF counted THEN Chunk ELSE KeyBlock
BlockCount == CeilDiv(Slots, Block)
Blocks == 0 .. BlockCount - 1
TileBlocks == 0 .. CeilDiv(MaxTiles, TileBlock) - 1
InBlock(b) == {a \in Assignments : a \div Block = b}

\* The greatest of the first n values of f.
Larger(a, b) == IF a > b THEN a ELSE b
Largest(f, n) ==
  LET top[i \in 0 .. n] == IF i = 0 THEN 0 ELSE Larger(f[i - 1], top[i - 1])
  IN top[n]

\* The range check at the ids' own width; E collects what must not be routed.
Enabled(a) == mask[a \div TopK]
Key(a) == IF Enabled(a) /\ InRange(ids[a]) THEN ids[a] ELSE Experts
InvalidIn(b) == Cardinality({a \in InBlock(b) : Enabled(a) /\ ~InRange(ids[a])})

\* The launches of a call.  Tiles come with the routes or when the ragged
\* path is chosen later, after the offsets were built without them.
AfterRoutes == IF include_tiles THEN "tiles" ELSE "deferred"
Programs(k) ==
  CASE k \in {"histogram", "keys"} -> Blocks
    [] k = "scatter" -> Blocks \X Bins
    [] k = "inverse" -> Assignments
    [] k = "tiles" -> TileBlocks
    [] OTHER -> {0}
First == IF counted THEN "histogram" ELSE "keys"

\* Program p of kernel k runs; the last one lets the stream go on to next.
Run(k, p, next) ==
  /\ kernel = k /\ p \in todo
  /\ IF todo = {p}
       THEN kernel' = next /\ todo' = Programs(next)
       ELSE kernel' = kernel /\ todo' = todo \ {p}

Inputs == [Assignments -> Ids] \X [0 .. Tokens - 1 -> BOOLEAN]

Init ==
  /\ \E in \in Inputs : ids = in[1] /\ mask = in[2]
  /\ counted \in BOOLEAN /\ include_tiles \in BOOLEAN
  /\ kernel = First /\ todo = Programs(First) /\ call = 1
  /\ keys = [a \in Assignments |-> Stale] /\ invalid = [b \in Blocks |-> Stale]
  /\ histogram = [b \in Blocks |-> [e \in Bins |-> Stale]]
  /\ bases = [b \in Blocks |-> [e \in Bins |-> Stale]]
  /\ counts = [e \in ExpertSet |-> Stale] /\ offsets = [e \in Bins |-> Stale]
  /\ statistics = [invalid |-> Stale, maximum |-> Stale, total |-> Stale]
  /\ order = [s \in Assignments |-> Stale] /\ inverse = [a \in Assignments |-> Stale]
  /\ tile_offsets = [e \in Bins |-> Stale]
  /\ tile_experts = [t \in Tiles |-> Stale] /\ tile_starts = [t \in Tiles |-> Stale]

-----------------------------------------------------------------------------
(* The counting sort.                                                      *)

ChunkHistogram(b) ==
  /\ Run("histogram", b, "prefix")
  /\ keys' = [a \in Assignments |-> IF a \in InBlock(b) THEN Key(a) ELSE keys[a]]
  /\ histogram' = [histogram EXCEPT ![b] =
       [e \in Bins |-> Cardinality({a \in InBlock(b) : Key(a) % 2 ^ Width = e})]]
  /\ invalid' = [invalid EXCEPT ![b] = InvalidIn(b)]
  /\ UNCHANGED <<inputs, bases, metadata, permutation, tiles>>

InChunks(e) == [b \in Blocks |-> histogram[b][e]]
Totals == [e \in Bins |-> Prefix(InChunks(e), BlockCount)]
FullTiles(count) == [e \in Bins |-> Prefix([x \in ExpertSet |-> count[x] \div BlockM], e)]
TileEnds(count) == [e \in Bins |-> Prefix([x \in ExpertSet |-> CeilDiv(count[x], BlockM)], e)]
StatisticsOf(count) ==
  [invalid |-> Prefix(invalid, BlockCount), maximum |-> Largest(count, Experts),
   total |-> Prefix(count, Experts)]

\* Where each chunk's share of a bin starts: the bins before it, then the
\* chunks before it.
BinsOnlyBase(b, e) == Prefix(Totals, e)
Base(b, e) == Prefix(Totals, e) + Prefix(InChunks(e), b)

ChunkPrefix ==
  LET count == [e \in ExpertSet |-> Totals[e]]
  IN /\ Run("prefix", 0, "scatter")
     /\ counted
     /\ bases' = [b \in Blocks |-> [e \in Bins |-> Base(b, e)]]
     /\ counts' = count
     /\ offsets' = [e \in Bins |-> Prefix(Totals, e)]
     /\ tile_offsets' = IF include_tiles THEN TileEnds(count) ELSE tile_offsets
     /\ statistics' = StatisticsOf(count)
     /\ UNCHANGED <<inputs, keys, invalid, histogram, permutation, tile_experts,
                    tile_starts>>

\* One program per chunk and bin, the tail of unroutable assignments included.
ChunkScatter(b, e) ==
  LET selected == {a \in InBlock(b) : keys[a] = e}
      slot(a) == bases[b][e] + Cardinality({x \in selected : x < a})
      source(s) == {a \in selected : slot(a) = s}
  IN /\ Run("scatter", <<b, e>>, AfterRoutes)
     /\ order' = [s \in Assignments |->
          IF source(s) = {} THEN order[s] ELSE CHOOSE a \in source(s) : TRUE]
     /\ inverse' = [a \in Assignments |->
          IF a \notin selected THEN inverse[a] ELSE IF e < Experts THEN slot(a) ELSE -1]
     /\ UNCHANGED <<inputs, sorting, metadata, tiles>>

-----------------------------------------------------------------------------
(* The general path: keys, torch's stable argsort, histogram by atomics.   *)

RoutingKeys(b) ==
  /\ Run("keys", b, "argsort")
  /\ keys' = [a \in Assignments |-> IF a \in InBlock(b) THEN Key(a) ELSE keys[a]]
  /\ invalid' = [invalid EXCEPT ![b] = InvalidIn(b)]
  /\ UNCHANGED <<inputs, histogram, bases, metadata, permutation, tiles>>

Argsort ==
  /\ Run("argsort", 0, "zero")
  /\ order' = Sorted(keys)
  /\ UNCHANGED <<inputs, sorting, metadata, inverse, tiles>>

CountsKept == counts
CountsCleared == [e \in ExpertSet |-> 0]

ZeroCounts ==
  /\ Run("zero", 0, "inverse")
  /\ counts' = CountsCleared
  /\ UNCHANGED <<inputs, sorting, offsets, statistics, permutation, tiles>>

\* One lane: its atomic add is indivisible, the lanes' order is not fixed.
HistogramInverse(s) ==
  LET a == order[s]
      expert == keys[a]
      valid == InRange(expert)
  IN /\ Run("inverse", s, "prefix")
     /\ counts' = IF valid THEN [counts EXCEPT ![expert] = @ + 1] ELSE counts
     /\ inverse' = [inverse EXCEPT ![a] = IF valid THEN s ELSE -1]
     /\ UNCHANGED <<inputs, sorting, offsets, statistics, order, tiles>>

RoutingPrefix ==
  /\ Run("prefix", 0, AfterRoutes)
  /\ ~counted
  /\ offsets' = [e \in Bins |-> Prefix(counts, e)]
  /\ tile_offsets' = IF include_tiles THEN TileEnds(counts) ELSE tile_offsets
  /\ statistics' = StatisticsOf(counts)
  /\ UNCHANGED <<inputs, sorting, counts, permutation, tile_experts, tile_starts>>

-----------------------------------------------------------------------------
(* The ragged tiles.                                                       *)

\* prepare_ragged_tiles on routes that were built without tile offsets.
TilePrefix ==
  /\ Run("deferred", 0, "tiles")
  /\ tile_offsets' = TileEnds(counts)
  /\ UNCHANGED <<inputs, sorting, metadata, permutation, tile_experts, tile_starts>>

\* (E + 1).bit_length() rounds of a binary search for the first expert whose
\* exclusive tile end is above the target.
BitLength(n) ==
  LET bits[k \in 0 .. n] == IF k = 0 THEN 0 ELSE 1 + bits[k \div 2]
  IN bits[n]
SearchSteps == BitLength(Experts + 1)
Halve(range, target) ==
  LET mid == (range.lo + range.hi) \div 2
      right == mid < Experts /\ tile_offsets[mid + 1] <= target
  IN IF range.lo >= range.hi THEN range
     ELSE IF right THEN [range EXCEPT !.lo = mid + 1] ELSE [range EXCEPT !.hi = mid]
Search(target) ==
  LET after[n \in 0 .. SearchSteps] ==
        IF n = 0 THEN [lo |-> 0, hi |-> Experts] ELSE Halve(after[n - 1], target)
  IN after[SearchSteps].lo

RoutingTiles(b) ==
  LET mine == {t \in Tiles : t \div TileBlock = b}
      active(t) == t < tile_offsets[Experts]
      expert(t) == Search(t)
  IN /\ Run("tiles", b, "ready")
     /\ tile_experts' = [t \in Tiles |->
          IF t \notin mine THEN tile_experts[t] ELSE IF active(t) THEN expert(t) ELSE -1]
     /\ tile_starts' = [t \in Tiles |->
          IF t \notin mine THEN tile_starts[t]
          ELSE IF active(t)
            THEN offsets[expert(t)] + (t - tile_offsets[expert(t)]) * BlockM
            ELSE 0]
     /\ UNCHANGED <<inputs, sorting, metadata, permutation, tile_offsets>>

\* The caller writes other ids and masks into the same tensors and replays.
Replay ==
  /\ kernel \in {"deferred", "ready"} /\ call < Calls
  /\ \E in \in ReplayInputs : ids' = in[1] /\ mask' = in[2]
  /\ kernel' = First /\ todo' = Programs(First) /\ call' = call + 1
  /\ UNCHANGED <<counted, include_tiles, sorting, metadata, permutation, tiles>>

Next ==
  \/ \E b \in Blocks : ChunkHistogram(b)
  \/ ChunkPrefix
  \/ \E b \in Blocks, e \in Bins : ChunkScatter(b, e)
  \/ \E b \in Blocks : RoutingKeys(b)
  \/ Argsort
  \/ ZeroCounts
  \/ \E s \in Assignments : HistogramInverse(s)
  \/ RoutingPrefix
  \/ TilePrefix
  \/ \E b \in TileBlocks : RoutingTiles(b)
  \/ Replay

Spec == Init /\ [][Next]_vars

-----------------------------------------------------------------------------
(* Correctness.                                                            *)

TypeOK ==
  /\ ids \in [Assignments -> Ids] /\ mask \in [0 .. Tokens - 1 -> BOOLEAN]
  /\ kernel \in {"histogram", "prefix", "scatter", "keys", "argsort", "zero",
                 "inverse", "deferred", "tiles", "ready"}
  /\ todo \subseteq Programs(kernel) /\ todo # {} /\ call \in 1 .. Calls
  /\ keys \in [Assignments -> Bins \cup {Stale}]
  /\ counts \in [ExpertSet -> (0 .. Slots) \cup {Stale}]
  /\ offsets \in [Bins -> (0 .. Slots) \cup {Stale}]
  /\ order \in [Assignments -> Assignments \cup {Stale}]
  /\ inverse \in [Assignments -> Assignments \cup {-1, Stale}]

Wanted == EffectiveIds(ids, mask)
Routes == {"deferred", "tiles", "ready"}

\* Whatever the order of the programs and the buffers' old contents, order is
\* the stable sort of the assignments by expert, the masked and the invalid
\* at its end, and inverse takes each routed assignment back to its slot.
StableOrder ==
  kernel \in Routes => \A a \in Assignments :
    /\ order[Rank(Wanted, a)] = a
    /\ inverse[a] = IF a \in Routed(Wanted) THEN Rank(Wanted, a) ELSE -1

\* The counts, offsets and the totals that the host validates and sizes the
\* native workspace from describe exactly this call's ids and mask; no value
\* leaves its type before.
CountsExact ==
  /\ TypeOK
  /\ kernel \in Routes =>
       /\ \A e \in ExpertSet : counts[e] = CountOf(Wanted, e)
       /\ \A e \in Bins : offsets[e] = StartOf(Wanted, e)
       /\ statistics.total = Cardinality(Routed(Wanted))
       /\ \A e \in ExpertSet : CountOf(Wanted, e) <= statistics.maximum
       /\ Routed(Wanted) # {} => \E e \in ExpertSet : CountOf(Wanted, e) = statistics.maximum
       /\ statistics.invalid = Cardinality(InvalidIds(ids, mask))

\* The rows the ragged GEMM computes for a tile.
TileRows(t) ==
  IF tile_experts[t] < 0 THEN {}
  ELSE {s \in tile_starts[t] .. tile_starts[t] + BlockM - 1 :
          s < offsets[tile_experts[t] + 1]}

\* The fixed number of tiles is enough for any routing, every routed slot is
\* a row of exactly one of them, and that tile is one of the slot's expert.
TilesPartition ==
  kernel = "ready" =>
    /\ \A a \in Routed(Wanted) : \E t \in Tiles :
         inverse[a] \in TileRows(t) /\ tile_experts[t] = Wanted[a]
    /\ \A t, u \in Tiles : t # u => TileRows(t) \cap TileRows(u) = {}
    /\ \A t \in Tiles : tile_experts[t] \in ExpertSet \cup {-1}
    /\ UNION {TileRows(t) : t \in Tiles} = 0 .. Cardinality(Routed(Wanted)) - 1
=============================================================================
