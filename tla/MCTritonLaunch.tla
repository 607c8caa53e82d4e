---------------------------- MODULE MCTritonLaunch ----------------------------
(***************************************************************************)
(* Instance of TritonLaunch for TLC: GEMMs with tails in M, N and K, with  *)
(* full and partial bands and outputs at the limit of the offsets; every   *)
(* MoE launch for choices of three tokens, some masked or invalid, with   *)
(* capacities of exactly the busiest expert and more.                      *)
(***************************************************************************)
EXTENDS TritonLaunch, FiniteSetsExt

Gemm(kernel, m, n, k, tile_m, tile_n, band, stride_m, stride_k) ==
  [kernel |-> kernel, m |-> m, n |-> n, k |-> k, tile_m |-> tile_m, tile_n |-> tile_n,
   band |-> band, group |-> 2, stride_m |-> stride_m, stride_k |-> stride_k]
GemmLaunches ==
  {Gemm(kernel, shape[1], shape[2], 3, tile[1], tile[2], 2, 3, 1) :
     kernel \in {"gemm", "sglang"}, shape \in {<<5, 3>>, <<4, 4>>, <<3, 5>>, <<1, 1>>},
     tile \in {<<1, 2>>, <<2, 2>>}}
  \cup {Gemm("gemm", 6, 2, 3, 1, 2, 4, stride[1], stride[2]) :
          stride \in {<<1, 6>>, <<2, 3>>, <<2, 2>>, <<3, 1>>, <<1, 5>>}}
  \cup {Gemm("gemm", m, 2, 1, 2, 2, 2, 1, 1) : m \in {8, 9}}

Inputs ==
  {id \in [Assignments -> {0, 1, -1}] : id[3] = 1 /\ id[5] = id[0]}
    \X {mask \in [0 .. Tokens - 1 -> BOOLEAN] : mask[1] /\ (mask[0] \/ mask[2])}
Busiest(in) == Max({CountOf(EffectiveIds(in[1], in[2]), e) : e \in ExpertSet})
Moe(kernel, in, capacity, flag) ==
  [kernel |-> kernel, ids |-> in[1], mask |-> in[2], capacity |-> capacity,
   groups |-> IF capacity = 1 THEN 3 ELSE 1,
   cleared |-> flag, from_tokens |-> flag, interleaved |-> flag, tile_rows |-> 2]
MoeLaunches ==
  UNION {{Moe(kernel, in, capacity, flag) :
            kernel \in {"pack", "quantize_pack", "fused"},
            capacity \in {Busiest(in), Busiest(in) + 1}, flag \in BOOLEAN}
         \cup {Moe(kernel, in, capacity, flag) :
                 kernel \in {"activate", "combine"}, capacity \in {0, Busiest(in)}, flag \in BOOLEAN}
         \cup {Moe("ragged", in, 0, flag) : flag \in BOOLEAN}
         : in \in Inputs}
MCLaunches == GemmLaunches \cup MoeLaunches
=============================================================================
