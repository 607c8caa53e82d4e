------------------------------ MODULE CuteLaunch ------------------------------
(***************************************************************************)
(* grain_cute_g256 on SM110: one launch of the kernel that config names.   *)
(* The four kernels are the modules instantiated below.  One of them runs, *)
(* so variables of one name are one variable, and those a kernel does not  *)
(* have stay Unused.                                                       *)
(***************************************************************************)
EXTENDS Integers, Sequences, FiniteSets

CONSTANTS
  Configs,                           \* the configurations launched
  OneSmGroups, PingPongGroups, TwoSmGroups, \* K groups of a call, per kernel
  Warps, LeaderWarp, ScaleLanes, Lanes,  \* threads of the one-CTA kernels
  CopyThreads,                       \* threads of the cp.async kernel
  TwoSmSubs, TwoSmThread,            \* sub-tiles; the one thread of a two-SM role
  OneSmRing, PingPongRing, TwoSmRing, \* template parameter P, per kernel
  KBlocks, TileCounts                \* of the cp.async kernel

\* The switch on config: the kernel, its ring depth P, and the remaining
\* template parameters of the cp.async kernel.
KernelOf(id) ==
  CASE id \in {26, 27} -> "two-SM"
    [] id \in {28, 29} -> "one-SM"
    [] id \in 17 .. 25 -> "ping-pong"
    [] id \in 0 .. 16 -> "cp.async"
    [] OTHER -> "none"
RingOf(id) ==
  IF id \in 17 .. 21 \cup {27, 29} \/ (id \in 0 .. 14 /\ id % 2 = 0) THEN 2 ELSE 3
StoreBitsOf(id) == IF id <= 7 THEN 128 ELSE IF id = 16 THEN 16 ELSE 32
InstanceOf(id) == [stages |-> RingOf(id), async |-> id >= 8, bits |-> StoreBitsOf(id)]
Instances == {InstanceOf(id) : id \in 0 .. 16}

\* The rings of a specialised kernel have one depth in all configurations of a
\* model, which is the depth of each of them.
ASSUME ConfigAssumption ==
  /\ Configs \subseteq 0 .. 29
  /\ \A id \in Configs :
       /\ KernelOf(id) = "two-SM" => RingOf(id) = TwoSmRing
       /\ KernelOf(id) = "one-SM" => RingOf(id) = OneSmRing
       /\ KernelOf(id) = "ping-pong" => RingOf(id) = PingPongRing

VARIABLES
  config,
  ab_full, ab_empty, sf_full, sf_empty, acc_full, acc_empty,
  operand_full, operand_empty, accumulator_full, accumulator_empty,
  scale_full, scale_empty, barrier,
  operand, scale, tmem, tma, sf, copying, mma, retired, owed_empty, owed_full, owed,
  sequence, group, iteration, held, partial, total, pc, sub, phase, at_barrier,
  exchange, output, freed,
  kernel, tiles, shared, pending, block, count, next, read, write, slice,
  fragment, products, scales, processed, sum

Unused == "unused"

TwoSm == INSTANCE TwoSmPipeline WITH
  P <- TwoSmRing, Tiles <- 1, Groups <- TwoSmGroups, Subs <- TwoSmSubs,
  Parts <- {TwoSmThread}, PartWarps <- {TwoSmThread}, ScaleLanes <- {TwoSmThread},
  Lanes <- {TwoSmThread}, Lane0 <- TwoSmThread
OneSm == INSTANCE OneSmPipeline WITH
  P <- OneSmRing, Groups <- OneSmGroups, Warps <- Warps \ {LeaderWarp}
PingPong == INSTANCE PingPong WITH P <- PingPongRing, Groups <- PingPongGroups, Leader <- LeaderWarp
CpAsync == INSTANCE MultistageMainloop WITH Kernels <- Instances, Threads <- CopyThreads

ASSUME KernelAssumptions ==
  /\ OneSm!SizeAssumption /\ OneSm!ThreadAssumption
  /\ TwoSm!PAssumption /\ TwoSm!SizeAssumption /\ TwoSm!ThreadAssumption
  /\ PingPong!ShapeAssumption /\ CpAsync!ShapeAssumption

\* accepts: which of the configuration and configuration 0 take the call, its
\* M, N and K divided by their tiles and its pointers aligned for their loads.
\* A specialised kernel that does not falls back to configuration 0, whose
\* 64 x 64 tile divides every other; the rest refuse.
Refused == -1
FallsBack(id) == KernelOf(id) \in {"two-SM", "one-SM"}
ConfigRun(id, accepts) ==
  IF id \in accepts THEN id
  ELSE IF FallsBack(id) /\ 0 \in accepts THEN 0 ELSE Refused
Launched(k) == KernelOf(config) = k

\* The variables only the two-SM kernel has, and so on.
OnlyTwoSm == <<ab_full, ab_empty, sf_full, sf_empty, acc_full, acc_empty, copying,
               sequence, sub, freed>>
OnlyOneSm == <<operand_full, operand_empty, accumulator_full, accumulator_empty,
               scale_full, scale_empty, group, phase, at_barrier>>
OnlyPingPong == <<barrier, owed, iteration>>
OnlyCpAsync == <<kernel, tiles, shared, pending, block, count, next, read, write, slice,
                 fragment, products, scales, processed, sum>>
Rings == <<sf, owed_empty, owed_full, held, partial>>  \* of the specialised kernels
Tensor == <<operand, scale, tmem, tma, mma, retired, total>> \* of all but cp.async
vars == <<config, OnlyTwoSm, OnlyOneSm, OnlyPingPong, OnlyCpAsync, Rings, Tensor, pc,
          exchange, output>>

NoTwoSm ==
  /\ ab_full = Unused /\ ab_empty = Unused /\ sf_full = Unused /\ sf_empty = Unused
  /\ acc_full = Unused /\ acc_empty = Unused /\ copying = Unused
  /\ sequence = Unused /\ sub = Unused /\ freed = Unused
NoOneSm ==
  /\ operand_full = Unused /\ operand_empty = Unused /\ accumulator_full = Unused
  /\ accumulator_empty = Unused /\ scale_full = Unused /\ scale_empty = Unused
  /\ group = Unused /\ phase = Unused /\ at_barrier = Unused
NoPingPong ==
  /\ barrier = Unused /\ owed = Unused /\ iteration = Unused
NoCpAsync ==
  /\ kernel = Unused /\ tiles = Unused /\ shared = Unused /\ pending = Unused
  /\ block = Unused /\ count = Unused /\ next = Unused /\ read = Unused
  /\ write = Unused /\ slice = Unused /\ fragment = Unused /\ products = Unused
  /\ scales = Unused /\ processed = Unused /\ sum = Unused
NoRings ==
  /\ sf = Unused /\ owed_empty = Unused /\ owed_full = Unused /\ held = Unused
  /\ partial = Unused
NoTensor ==
  /\ operand = Unused /\ scale = Unused /\ tmem = Unused /\ tma = Unused
  /\ mma = Unused /\ retired = Unused /\ total = Unused

Init ==
  /\ \E id \in Configs : \E accepts \in {{}, {0}, {0, id}} : config = ConfigRun(id, accepts)
  /\ \/ Launched("two-SM") /\ TwoSm!Init /\ NoOneSm /\ NoPingPong /\ NoCpAsync
     \/ /\ Launched("one-SM") /\ OneSm!Init
        /\ NoTwoSm /\ NoPingPong /\ NoCpAsync /\ pc = Unused
     \/ Launched("ping-pong") /\ PingPong!Init /\ NoTwoSm /\ NoOneSm /\ NoCpAsync /\ NoRings
     \/ /\ Launched("cp.async") /\ CpAsync!Init /\ kernel = InstanceOf(config)
        /\ NoTwoSm /\ NoOneSm /\ NoPingPong /\ NoRings /\ NoTensor
     \/ /\ Launched("none")
        /\ NoTwoSm /\ NoOneSm /\ NoPingPong /\ NoCpAsync /\ NoRings /\ NoTensor
        /\ pc = Unused /\ exchange = Unused /\ output = Unused

Next ==
  \/ /\ Launched("two-SM") /\ TwoSm!Next
     /\ UNCHANGED <<config, OnlyOneSm, OnlyPingPong, OnlyCpAsync>>
  \/ /\ Launched("one-SM") /\ OneSm!Next
     /\ UNCHANGED <<config, OnlyTwoSm, OnlyPingPong, OnlyCpAsync, pc>>
  \/ /\ Launched("ping-pong") /\ PingPong!Next
     /\ UNCHANGED <<config, OnlyTwoSm, OnlyOneSm, OnlyCpAsync, Rings>>
  \/ /\ Launched("cp.async") /\ CpAsync!Next
     /\ UNCHANGED <<config, OnlyTwoSm, OnlyOneSm, OnlyPingPong, Rings, Tensor>>

Spec == Init /\ [][Next]_vars

\* Resident warps and the engines do not all stop while one can move.
FairSpec == Spec /\ WF_vars(Next)

-----------------------------------------------------------------------------
(* Correctness, of whichever kernel runs.                                  *)

\* Barriers keep their counts and no cursor leaves its range; no thread of the
\* cp.async kernel copies a tile past the last.
TypeOK ==
  /\ config \in Configs \cup {0, Refused}
  /\ Launched("two-SM") => TwoSm!TypeOK
  /\ Launched("one-SM") => OneSm!TypeOK
  /\ Launched("ping-pong") => PingPong!TypeOK
  /\ Launched("cp.async") => CpAsync!TypeOK

\* No operand is refilled or overwritten while an MMA, or in the cp.async kernel
\* another thread, reads it; barriers keep their counts meanwhile.
OperandStable ==
  /\ TypeOK
  /\ Launched("two-SM") => TwoSm!OperandStable
  /\ Launched("one-SM") => OneSm!OperandStable
  /\ Launched("ping-pong") => PingPong!OperandStable
  /\ Launched("cp.async") => CpAsync!StageStable

\* What a warp promotes, in the one-SM kernel and, one group late, in the
\* ping-pong kernel, is the product and the scales of its own group.
PromotionStable ==
  /\ Launched("one-SM") => OneSm!FragmentStable
  /\ Launched("ping-pong") => PingPong!PromotionStable

\* Each sum of the cp.async kernel has every group once, in order, with its own scales.
GroupsExact == Launched("cp.async") => CpAsync!GroupsExact

\* An epilogue that stages its rows in the operands' storage does so when
\* nothing may still be in flight there; whatever the store, no row is lost.
ExchangeSound ==
  /\ Launched("one-SM") => OneSm!ExchangeSound
  /\ Launched("ping-pong") => PingPong!ExchangeSound
  /\ Launched("cp.async") => CpAsync!ExchangeSound

\* Every launch that is not refused returns.
Returned ==
  CASE Launched("two-SM") -> freed
    [] Launched("one-SM") -> phase = "freed"
    [] Launched("none") -> TRUE
    [] OTHER -> \A w \in DOMAIN pc : pc[w] \in {"done", "exited"}
KernelReturns == <>Returned
=============================================================================
