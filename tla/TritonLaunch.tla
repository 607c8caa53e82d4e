----------------------------- MODULE TritonLaunch -----------------------------
(***************************************************************************)
(* The data-parallel Triton kernels: the portable GEMM and the baseline's, *)
(* the three producers of the packed expert inputs, the ragged GEMM, the   *)
(* activation and the combination.  A launch is a grid of programs that    *)
(* run in any order, the launches of a call follow each other, and a       *)
(* buffer from torch.empty holds anything before.  What one program stores *)
(* is a function from addresses to values; addresses are OffsetBits bits   *)
(* wide.  Columns are counted in groups of K; a program takes a block.     *)
(***************************************************************************)
EXTENDS RouteSpec

CONSTANTS
  OffsetBits,  \* bits of an offset (32 in the code)
  Launches,    \* the calls explored
  BlockRows,   \* rows of a program, and rows of a padding program
  PaddingRows,
  BlockGroups  \* groups of K a program takes

\* A call of gemm returns early if a size is 0; moe_ffn gives the combination
\* a capacity that holds the busiest expert, or 0 for ragged rows.
Gemms == {"gemm", "sglang"}
Packers == {"pack", "quantize_pack", "fused"}
ASSUME LaunchAssumption ==
  /\ {OffsetBits, BlockRows, PaddingRows, BlockGroups} \subseteq Nat \ {0}
  /\ 2 ^ (OffsetBits - 1) \in Nat /\ 2 ^ OffsetBits = 2 * 2 ^ (OffsetBits - 1)
  /\ \A l \in Launches : l.kernel \in Gemms =>
       /\ {l.m, l.n, l.k, l.tile_m, l.tile_n, l.band, l.group} \subseteq Nat \ {0}
       /\ {l.stride_m, l.stride_k} \subseteq Nat \ {0}
  /\ \A l \in Launches : l.kernel \notin Gemms =>
       /\ l.kernel \in Packers \cup {"ragged", "activate", "combine"}
       /\ {l.groups, l.tile_rows} \subseteq Nat \ {0} /\ l.capacity \in Nat
       /\ {l.cleared, l.from_tokens, l.interleaved} \subseteq BOOLEAN
       /\ l.kernel = "combine" /\ l.capacity # 0 =>
            \A e \in ExpertSet : CountOf(EffectiveIds(l.ids, l.mask), e) <= l.capacity

VARIABLES
  launch,   \* the call
  stage,    \* which of its launches runs
  waiting,  \* that launch's programs still to run
  memory,   \* the output: a value per address, and how often it was stored
  loaded    \* the input rows that were loaded

launch_vars == <<launch, stage, waiting, memory, loaded>>

Smaller(a, b) == IF a < b THEN a ELSE b
Interval(first, size) == first .. first + size - 1
Wrap(x) == ((x + 2 ^ (OffsetBits - 1)) % 2 ^ OffsetBits) - 2 ^ (OffsetBits - 1)
Fits(x) == Wrap(x) = x

\* The stores of a program: value v(x) at address(x) for the x in cells.
Stored(cells, address(_), v(_)) ==
  [where \in {address(x) : x \in cells} |-> v(CHOOSE x \in cells : address(x) = where)]
Nothing == [where \in {} |-> 0]
Garbage == <<"garbage">>
Zero == <<"zero">>
Value(kind, row, col) == <<kind, row, col>>

-----------------------------------------------------------------------------
(* GEMM: grouped_gemm, and the baseline's _w8a8_block_int8_matmul.         *)

\* Bands of tile rows; the last may be lower.
FullBand(l, first) == l.band
BandRows(l, first) == Smaller(CeilDiv(l.m, l.tile_m) - first, l.band)
TileOf(l, pid) ==
  LET band == l.band * CeilDiv(l.n, l.tile_n)
      first == (pid \div band) * l.band
      rows == BandRows(l, first)
  IN <<first + (pid % rows), (pid % band) \div rows>>
GemmGrid(l) == Interval(0, CeilDiv(l.m, l.tile_m) * CeilDiv(l.n, l.tile_n)) \X {0}

\* A group of K: the elements a program adds up and the scale it takes.
\* A load whose offset wraps around reads something else.
Groups(l) == Interval(0, CeilDiv(l.k, l.group))
Partial(l, g) == <<{kk \in Interval(g * l.group, l.group) : kk < l.k}, g>>
RowOf(l, r) ==
  IF \A kk \in Interval(0, l.k) : Fits(r * l.stride_m + kk * l.stride_k) THEN r ELSE -1
Product(l, r, c) == Value("product", <<RowOf(l, r), c>>, [g \in Groups(l) |-> Partial(l, g)])

\* The lanes past the edge: the portable kernel masks them, the baseline
\* loads the row and column they wrap to; neither stores them.
LanesOf(l, pid) ==
  LET tile == TileOf(l, pid)
  IN Interval(tile[1] * l.tile_m, l.tile_m) \X Interval(tile[2] * l.tile_n, l.tile_n)
Inside(l, lane) == lane[1] < l.m /\ lane[2] < l.n
GemmStores(l, pid) ==
  Stored({lane \in LanesOf(l, pid) : Inside(l, lane)},
         LAMBDA lane : Wrap(lane[1] * l.n + lane[2]),
         LAMBDA lane : IF l.kernel = "gemm" THEN Product(l, lane[1], lane[2])
                       ELSE Product(l, lane[1] % l.m, lane[2] % l.n))
GemmLoads(l, pid) ==
  {IF l.kernel = "gemm" THEN lane[1] ELSE lane[1] % l.m :
     lane \in {x \in LanesOf(l, pid) : l.kernel = "gemm" => x[1] < l.m}}

\* _validate: the offsets of A and of the output.
Accepted(l) ==
  /\ (l.m - 1) * l.stride_m + (l.k - 1) * l.stride_k <= 2 ^ (OffsetBits - 1) - 1
  /\ l.m * l.n <= 2 ^ (OffsetBits - 1)

-----------------------------------------------------------------------------
(* The packed expert inputs, [E, C, K].                                    *)

KeysOf(l) == EffectiveIds(l.ids, l.mask)
Start(l, e) == StartOf(KeysOf(l), e)
Count(l, e) == CountOf(KeysOf(l), e)
GroupSet(l) == Interval(0, l.groups)
Address(l, row, g) == Wrap(row * l.groups + g)
Token(a) == a \div TopK
Taken(x, size, limit) == {i \in Interval(x * size, size) : i < limit}
Columns(l, y) == Taken(y, BlockGroups, l.groups)
Grid(rows, l) == Interval(0, rows) \X Interval(0, CeilDiv(l.groups, BlockGroups))

\* pack_inputs: each packed row fetches its token.
PackStores(l, p) ==
  Stored(Taken(p[1], BlockRows, Experts * l.capacity) \X Columns(l, p[2]),
         LAMBDA x : Address(l, x[1], x[2]),
         LAMBDA x :
           LET e == x[1] \div l.capacity local == x[1] % l.capacity
           IN IF local >= Count(l, e) THEN Zero
              ELSE Value("token", Token(Sorted(KeysOf(l))[Start(l, e) + local]), x[2]))

\* The scatter: an assignment's destination, or none.
Slot(l, a) == IF KeysOf(l)[a] < Experts THEN Rank(KeysOf(l), a) ELSE -1
LocalRow(l, a) == Slot(l, a) - Start(l, KeysOf(l)[a])
HasRow(l, a) == Slot(l, a) >= 0 /\ LocalRow(l, a) \in Interval(0, l.capacity)
AnyToken(l, t) == TRUE
EnabledToken(l, t) == \E rank \in Interval(0, TopK) : HasRow(l, t * TopK + rank)
TokensOf(p) == Taken(p[1], BlockRows, Tokens)
ScatterStores(l, p) ==
  Stored({a \in Assignments : Token(a) \in TokensOf(p) /\ HasRow(l, a)} \X Columns(l, p[2]),
         LAMBDA x : Address(l, KeysOf(l)[x[1]] * l.capacity + LocalRow(l, x[1]), x[2]),
         LAMBDA x : Value("token", Token(x[1]), x[2]))
ScatterLoads(l, p) == {t \in TokensOf(p) : EnabledToken(l, t)}
TokenPrograms == CeilDiv(Tokens, BlockRows)

\* The padding: the rows of an expert from its count on.
WholeBlocks(l, e) == (Count(l, e) \div PaddingRows) * PaddingRows
PaddingFrom(l, e) == Count(l, e)
ZeroStores(l, e, rows, y) ==
  Stored({i \in rows : i < l.capacity} \X Columns(l, y),
         LAMBDA x : Address(l, e * l.capacity + x[1], x[2]), LAMBDA x : Zero)
\* quantize_pack_inputs clears it in a launch before the scatter ...
PaddingGrid(l) ==
  Interval(0, Experts) \X Interval(0, CeilDiv(l.capacity, PaddingRows))
                       \X Interval(0, CeilDiv(l.groups, BlockGroups))
PaddingStores(l, p) ==
  ZeroStores(l, p[1], Interval(PaddingFrom(l, p[1]) + p[2] * PaddingRows, PaddingRows), p[3])
\* ... and the Thor producers in the programs that follow the tokens'.
FusedStores(l, p) ==
  IF p[1] < TokenPrograms THEN ScatterStores(l, p)
  ELSE LET e == p[1] - TokenPrograms
       IN IF l.cleared THEN Nothing
          ELSE ZeroStores(l, e, PaddingFrom(l, e) .. l.capacity - 1, p[2])
FusedLoads(l, p) == IF p[1] < TokenPrograms THEN ScatterLoads(l, p) ELSE {}

-----------------------------------------------------------------------------
(* The ragged GEMM, over the tiles of tile_rows rows that routing made.     *)

TilesOf(l, e) == CeilDiv(Count(l, e), l.tile_rows)
TileStart(l, e) == Prefix([x \in ExpertSet |-> TilesOf(l, x)], e)
TileLimit(l) == CeilDiv(Slots, l.tile_rows) + Experts
ExpertOfTile(l, tile) ==
  {e \in ExpertSet : tile \in Interval(TileStart(l, e), TilesOf(l, e))}
RaggedGrid(l) == Interval(0, TileLimit(l) * CeilDiv(l.groups, BlockGroups)) \X {0}
RaggedRows(l, p) ==
  LET tile == p[1] \div CeilDiv(l.groups, BlockGroups)
  IN UNION {{row \in Interval(Start(l, e) + (tile - TileStart(l, e)) * l.tile_rows, l.tile_rows) :
               row < Start(l, e + 1)} : e \in ExpertOfTile(l, tile)}
SourceRow(l, row) == IF l.from_tokens THEN Token(Sorted(KeysOf(l))[row]) ELSE row
RaggedStores(l, p) ==
  Stored(RaggedRows(l, p) \X Columns(l, p[1] % CeilDiv(l.groups, BlockGroups)),
         LAMBDA x : Address(l, x[1], x[2]),
         LAMBDA x : Value("projected", <<SourceRow(l, x[1]), KeysOf(l)[Sorted(KeysOf(l))[x[1]]]>>, x[2]))
RaggedLoads(l, p) == {SourceRow(l, row) : row \in RaggedRows(l, p)}

-----------------------------------------------------------------------------
(* SwiGLU and requantization, over ragged (capacity 0) or packed rows.     *)

ActivationRows(l) == IF l.capacity = 0 THEN Slots ELSE Experts * l.capacity
LiveRow(l, row) ==
  IF l.capacity = 0 THEN row < Start(l, Experts)
  ELSE row % l.capacity < Count(l, row \div l.capacity)
\* Channel g's gate and up columns, in either layout.
GateUp(l, g) == IF l.interleaved THEN <<2 * g, 2 * g + 1>> ELSE <<g, l.groups + g>>
ActivateStores(l, p) ==
  Stored(Taken(p[1], BlockRows, ActivationRows(l)) \X {p[2]},
         LAMBDA x : Address(l, x[1], x[2]),
         LAMBDA x : IF LiveRow(l, x[1]) THEN Value("hidden", x[1], GateUp(l, x[2])) ELSE Zero)
ActivateLoads(l, p) == {row \in Taken(p[1], BlockRows, ActivationRows(l)) : LiveRow(l, row)}
ActivateGrid(l) == Interval(0, CeilDiv(ActivationRows(l), BlockRows)) \X GroupSet(l)

-----------------------------------------------------------------------------
(* The weighted sum of a token's expert rows.                              *)

ExpertRow(l, a) ==
  IF l.capacity = 0 THEN Slot(l, a) ELSE KeysOf(l)[a] * l.capacity + LocalRow(l, a)
Terms(l, t) == {a \in Interval(t * TopK, TopK) : Slot(l, a) >= 0}
CombineStores(l, p) ==
  Stored({p[1]} \X Columns(l, p[2]),
         LAMBDA x : Address(l, x[1], x[2]),
         LAMBDA x : Value("sum", {<<a % TopK, ExpertRow(l, a)>> : a \in Terms(l, x[1])}, x[2]))
CombineLoads(l, p) == {ExpertRow(l, a) : a \in Terms(l, p[1])}

-----------------------------------------------------------------------------
(* A call.                                                                 *)

Stages(l) == IF l.kernel = "quantize_pack" /\ ~l.cleared THEN 2 ELSE 1
LaunchGrid(l, s) ==
  IF l.kernel \in Packers /\ l.capacity = 0 THEN {}
  ELSE
  CASE l.kernel \in Gemms -> GemmGrid(l)
    [] l.kernel = "pack" -> Grid(CeilDiv(Experts * l.capacity, BlockRows), l)
    [] l.kernel = "fused" -> Grid(TokenPrograms + (IF l.cleared THEN 0 ELSE Experts), l)
    [] l.kernel = "quantize_pack" ->
         IF s < Stages(l) THEN PaddingGrid(l) ELSE Grid(TokenPrograms, l)
    [] l.kernel = "ragged" -> RaggedGrid(l)
    [] l.kernel = "activate" -> ActivateGrid(l)
    [] l.kernel = "combine" -> Grid(Tokens, l)
Stores(l, s, p) ==
  CASE l.kernel \in Gemms -> GemmStores(l, p[1])
    [] l.kernel = "pack" -> PackStores(l, p)
    [] l.kernel = "fused" -> FusedStores(l, p)
    [] l.kernel = "quantize_pack" -> IF s < Stages(l) THEN PaddingStores(l, p) ELSE ScatterStores(l, p)
    [] l.kernel = "ragged" -> RaggedStores(l, p)
    [] l.kernel = "activate" -> ActivateStores(l, p)
    [] l.kernel = "combine" -> CombineStores(l, p)
Loads(l, s, p) ==
  CASE l.kernel \in Gemms -> GemmLoads(l, p[1])
    [] l.kernel = "pack" ->
         {value[2] : value \in {v \in {PackStores(l, p)[x] : x \in DOMAIN PackStores(l, p)} : v # Zero}}
    [] l.kernel = "fused" -> FusedLoads(l, p)
    [] l.kernel = "quantize_pack" -> IF s < Stages(l) THEN {} ELSE ScatterLoads(l, p)
    [] l.kernel = "ragged" -> RaggedLoads(l, p)
    [] l.kernel = "activate" -> ActivateLoads(l, p)
    [] l.kernel = "combine" -> CombineLoads(l, p)

Size(l) ==
  CASE l.kernel \in Gemms -> l.m * l.n
    [] l.kernel \in Packers -> Experts * l.capacity * l.groups
    [] l.kernel = "ragged" -> Slots * l.groups
    [] l.kernel = "activate" -> ActivationRows(l) * l.groups
    [] l.kernel = "combine" -> Tokens * l.groups
Addresses(l) == Interval(0, Size(l))
\* moe_ffn bounds the elements of every buffer.
Workspace(l) == Size(l) <= 2 ^ (OffsetBits - 1) - 1
Runs(l) == IF l.kernel \in Gemms THEN Accepted(l) ELSE Workspace(l)

LaunchInit ==
  /\ launch \in {l \in Launches : Runs(l)}
  /\ stage = 1 /\ waiting = LaunchGrid(launch, 1) /\ loaded = {}
  /\ memory = [x \in Addresses(launch) |->
       [value |-> IF launch.kernel \in Packers /\ launch.cleared THEN Zero ELSE Garbage,
        stores |-> 0]]

RunProgram(p) ==
  /\ p \in waiting /\ waiting' = waiting \ {p}
  /\ LET stores == Stores(launch, stage, p)
     IN memory' = [x \in DOMAIN memory \cup DOMAIN stores |->
          IF x \notin DOMAIN stores THEN memory[x]
          ELSE [value |-> stores[x],
                stores |-> IF x \in DOMAIN memory THEN memory[x].stores + 1 ELSE 1]]
  /\ loaded' = loaded \cup Loads(launch, stage, p)
  /\ UNCHANGED <<launch, stage>>

\* The next launch of the call; nothing of the first one still runs.
NextLaunch ==
  /\ waiting = {} /\ stage < Stages(launch)
  /\ stage' = stage + 1 /\ waiting' = LaunchGrid(launch, stage')
  /\ UNCHANGED <<launch, memory, loaded>>

LaunchNext == NextLaunch \/ \E p \in waiting : RunProgram(p)
LaunchSpec == LaunchInit /\ [][LaunchNext]_launch_vars

-----------------------------------------------------------------------------
(* Correctness.                                                            *)

Finished == waiting = {} /\ stage = Stages(launch)

\* An assignment's row: its rank, or its place among those of its expert.
ExpectedRow(l, a) ==
  LET key == KeysOf(l)
  IN IF l.capacity = 0 THEN Rank(key, a)
     ELSE key[a] * l.capacity + Cardinality({b \in 0 .. a - 1 : key[b] = key[a]})

\* What the call should leave at an address, said without programs.
\* The ragged GEMM leaves the rows of no expert as they are.
Expected(l, x) ==
  LET row == x \div l.groups
      g == x % l.groups
      key == KeysOf(l)
  IN CASE l.kernel \in Packers ->
            LET e == row \div l.capacity
                local == row % l.capacity
            IN IF local < CountOf(key, e)
               THEN Value("token", Token(Sorted(key)[StartOf(key, e) + local]), g) ELSE Zero
       [] l.kernel = "ragged" ->
            IF row >= Cardinality(Routed(key)) THEN Garbage
            ELSE Value("projected",
                       <<IF l.from_tokens THEN Token(Sorted(key)[row]) ELSE row,
                         key[Sorted(key)[row]]>>, g)
       [] l.kernel = "activate" ->
            IF IF l.capacity = 0 THEN row < Cardinality(Routed(key))
               ELSE row % l.capacity < CountOf(key, row \div l.capacity)
            THEN Value("hidden", row, IF l.interleaved THEN <<2 * g, 2 * g + 1>>
                                      ELSE <<g, l.groups + g>>)
            ELSE Zero
       [] l.kernel = "combine" ->
            Value("sum", {<<rank, ExpectedRow(l, row * TopK + rank)>> :
                          rank \in {r \in 0 .. TopK - 1 : key[row * TopK + r] < Experts}}, g)
ExpectedProduct(l, x) ==
  Value("product", <<x \div l.n, x % l.n>>,
        [g \in 0 .. CeilDiv(l.k, l.group) - 1 |-> <<{kk \in 0 .. l.k - 1 : kk \div l.group = g}, g>>])

\* Whatever order the programs run in, the call leaves every output element
\* computed from its own inputs, and no element that nobody wrote.
OutputExact ==
  Finished => \A x \in Addresses(launch) :
    memory[x].value = IF launch.kernel \in Gemms THEN ExpectedProduct(launch, x)
                      ELSE Expected(launch, x)

\* No element is stored by two programs of a call (they would race), and none
\* outside the buffer.
StoredOnce ==
  /\ DOMAIN memory = Addresses(launch)
  /\ \A x \in Addresses(launch) : memory[x].stores <= 1

\* What routing excludes is not loaded: masked tokens may hold NaNs, and rows
\* no expert wrote hold anything.
OnlyLiveLoaded ==
  CASE launch.kernel \in Packers \/ (launch.kernel = "ragged" /\ launch.from_tokens) ->
         loaded \subseteq {Token(a) : a \in Routed(KeysOf(launch))}
    [] launch.kernel = "ragged" /\ ~launch.from_tokens -> loaded \subseteq Interval(0, Cardinality(Routed(KeysOf(launch))))
    [] launch.kernel = "activate" -> \A row \in loaded : LiveRow(launch, row)
    [] launch.kernel = "combine" -> \A row \in loaded : LiveRow(launch, row)
    [] OTHER -> loaded \subseteq Interval(0, launch.m)
===============================================================================
