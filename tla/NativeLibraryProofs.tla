-------------------------- MODULE NativeLibraryProofs --------------------------
(***************************************************************************)
(* The native libraries, of which there are two models: which of their     *)
(* kernels a call gets (GemmDispatch), and how they are built and accepted *)
(* (NativeBuild, whose specification is BuildSpec).                        *)
(*                                                                         *)
(* Of the calls: whatever is called, by any number of threads and with any *)
(* measured tables whose tiles divide their shapes, the kernel that was    *)
(* chosen is the one that runs, and an explicit backend is honoured.       *)
(***************************************************************************)
EXTENDS GemmDispatch, NativeBuild, TLAPS

-----------------------------------------------------------------------------
(* The choices.                                                            *)

LEMMA Tiles ==
  /\ Tile("cutlass", 0) = <<64, 64>> /\ Tile("cuda", 0) = <<64, 64>>
  /\ Tile("cutlass", 7) = <<128, 128>> /\ Tile("cuda", 7) = <<128, 128>>
  /\ Tile("cutlass", 32) = <<64, 64>>
  /\ Tile("cuda", 17) = <<64, 64>> /\ Tile("cuda", 27) = <<256, 128>>
  /\ Tile("cuda", 28) = <<128, 128>>
BY DEF Tile, BaseTile, ThorTile

LEMMA TilesDivide ==
  ASSUME NEW c, CallSound(c)
  PROVE  Multiples(c, <<256, 256>>) => Multiples(c, <<256, 128>>)
<1>1. M(c) \in Nat /\ N(c) \in Nat
  BY DEF CallSound, M, N
<1> QED BY <1>1 DEF Multiples

LEMMA Configured ==
  ASSUME NEW arch
  PROVE  /\ Configurations("cuda", arch) = IF arch = "sm_110" THEN 0 .. 29 ELSE 0 .. 16
         /\ Configurations("cutlass", arch) = IF arch = "sm_110" THEN 0 .. 33 ELSE 0 .. 31
BY DEF Configurations

LEMMA EntriesDivide ==
  ASSUME TablesFit, NEW c, Measured(c)
  PROVE  /\ Multiples(c, Tile("cuda", Entry(c).cuda)) /\ Entry(c).cuda \in Configurations("cuda", c.arch)
         /\ Multiples(c, Tile("cutlass", Entry(c).cutlass))
         /\ Entry(c).cutlass \in Configurations("cutlass", c.arch)
         /\ Entry(c).cutlass \in Int /\ (c.arch # "sm_110" => Entry(c).cutlass < 32)
<1>1. /\ Entry(c).cuda \in Configurations("cuda", c.arch)
      /\ Entry(c).cutlass \in Configurations("cutlass", c.arch)
      /\ Divides(Tile("cuda", Entry(c).cuda), c.shape)
      /\ Divides(Tile("cutlass", Entry(c).cutlass), c.shape)
  BY DEF TablesFit, Measured, Entry, Key
<1> QED BY <1>1, Configured DEF Divides, Multiples, M, N

\* A kernel that takes the call runs as it is.
LEMMA TakenRuns ==
  ASSUME NEW c, NEW lib, NEW id, Takes(c, lib, id)
  PROVE  Launched(c, lib, id) = Kernel(lib, id)
BY DEF Launched

\* The hand-over keeps the backend, and concerns two kernels of CUDA.
LEMMA ExecutedKernels ==
  ASSUME NEW c, NEW k
  PROVE  /\ Executed(c, k).backend = k.backend
         /\ ~HandedOver(c, k) => Executed(c, k) = k
         /\ HandedOver(c, k) <=> k.backend = "cuda" /\ k.id \in {26, 27} /\ ~c.vector
<1>1. Kernel("cuda", 0).backend = "cuda"
  BY DEF Kernel
<1> QED BY <1>1 DEF Executed, HandedOver, ReadsVectors

\* The 64 x 64 configuration takes every supported call.
LEMMA ZeroTakes ==
  ASSUME NEW c, Supported(c)
  PROVE  Takes(c, "cutlass", 0) /\ Takes(c, "cuda", 0)
BY Tiles DEF Supported, Compatible, Takes, ReadsVectors

LEMMA CutlassTakes ==
  ASSUME TablesFit, NEW c, CallSound(c), Supported(c), VectorAligned(c)
  PROVE  Takes(c, "cutlass", CutlassChoice(c))
<1> DEFINE id == CutlassChoice(c)
<1>1. Multiples(c, <<64, 64>>)
  BY DEF Supported, Compatible
<1>2. CASE c.arch = "sm_121" /\ c.shape \in DOMAIN CutlassEntries
  BY <1>2 DEF CutlassChoice, TablesFit, Takes, ReadsVectors, Divides, Multiples, M, N
<1>3. CASE ~(c.arch = "sm_121" /\ c.shape \in DOMAIN CutlassEntries) /\ Measured(c)
  <2>1. id = Entry(c).cutlass
    BY <1>3 DEF CutlassChoice
  <2> QED BY <2>1, <1>3, EntriesDivide DEF Takes, ReadsVectors, VectorAligned
<1>4. CASE ~(c.arch = "sm_121" /\ c.shape \in DOMAIN CutlassEntries) /\ ~Measured(c)
  <2>1. \/ c.arch = "sm_110" /\ id = 32
        \/ id = 7 /\ Multiples(c, <<128, 128>>)
        \/ id = 0
    BY <1>4 DEF CutlassChoice
  <2> QED BY <2>1, <1>1, Tiles DEF Takes, ReadsVectors, VectorAligned
<1> QED BY <1>2, <1>3, <1>4

\* The tile of CUDA's choice divides the problem; only the offset scale_b of a
\* two-SM kernel is left to configuration 0.
LEMMA CudaRuns ==
  ASSUME TablesFit, NEW c, CallSound(c), Supported(c)
  PROVE  Launched(c, "cuda", CudaChoice(c)) = Executed(c, Kernel("cuda", CudaChoice(c)))
<1>1. Multiples(c, <<64, 64>>)
  BY DEF Supported, Compatible
<1>2. PICK id : id = CudaChoice(c)
  OBVIOUS
<1>3. Multiples(c, Tile("cuda", id))
  <2>1. CASE Measured(c)
    BY <1>2, <2>1, EntriesDivide DEF CudaChoice
  <2>2. CASE ~Measured(c)
    <3>1. \/ id = 27 /\ Multiples(c, <<256, 256>>)
          \/ id = 28 /\ Multiples(c, <<128, 128>>)
          \/ id = 17
          \/ id = 7 /\ Multiples(c, <<128, 128>>)
          \/ id = 0
      BY <1>2, <2>2 DEF CudaChoice
    <3> QED BY <3>1, <1>1, Tiles, TilesDivide
  <2> QED BY <2>1, <2>2
<1>4. PICK k : k = Kernel("cuda", id) /\ k.backend = "cuda" /\ k.id = id
  <2>1. Kernel("cuda", id).backend = "cuda" /\ Kernel("cuda", id).id = id
    BY DEF Kernel
  <2> QED BY <2>1
<1>5. CASE HandedOver(c, k)
  <2>1. id \in {26, 27} /\ ~c.vector
    BY <1>4, <1>5, ExecutedKernels
  <2>2. ~Takes(c, "cuda", id) /\ FallsBack("cuda", id)
    BY <2>1 DEF Takes, ReadsVectors, FallsBack
  <2>3. Takes(c, "cuda", 0)
    BY ZeroTakes
  <2> QED BY <1>2, <1>4, <1>5, <2>2, <2>3 DEF Launched, Executed
<1>6. CASE ~HandedOver(c, k)
  <2>1. Takes(c, "cuda", id)
    BY <1>3, <1>4, <1>6 DEF HandedOver, Takes
  <2> QED BY <1>2, <1>4, <1>6, <2>1, TakenRuns, ExecutedKernels
<1> QED BY <1>2, <1>4, <1>5, <1>6

-----------------------------------------------------------------------------
(* The invariant.                                                          *)

\* What get_kernel_config may return for a call.
Fitting(c, k) ==
  /\ k.backend \in {"triton", "cuda", "cutlass"}
  /\ k.backend \in Native => Launched(c, k.backend, k.id) = Executed(c, k)
  /\ c.backend # "auto" => k.backend = c.backend

Functions ==
  /\ pc = [t \in Threads |-> pc[t]] /\ call = [t \in Threads |-> call[t]]
  /\ purpose = [t \in Threads |-> purpose[t]] /\ config = [t \in Threads |-> config[t]]
  /\ outcome = [t \in Threads |-> outcome[t]]

Honoured(c, k) ==
  c.backend # "auto" /\ c.api = "int8_gemm" => k.backend \in {c.backend, "none", "zeros", "error"}

ThreadInv(t) ==
  /\ call[t] \in CallsOf[t]
  /\ pc[t] = "launch" => Fitting(call[t], config[t])
  /\ pc[t] = "cuda" => call[t].backend # "cutlass"
  /\ pc[t] \in {"batched", "moe"} => call[t].api # "int8_gemm"
  /\ pc[t] = "idle" => outcome[t] = None
  /\ outcome[t].backend # "refused"
  /\ Honoured(call[t], outcome[t])
IInv == Functions /\ \A t \in Threads : ThreadInv(t)

LEMMA KernelBackend ==
  /\ \A b, id : Kernel(b, id).backend = b /\ Kernel(b, id).id = id
  /\ None.backend = "none" /\ Error.backend = "error" /\ Refused.backend = "refused"
  /\ Triton.backend = "triton"
BY DEF Kernel, None, Error, Refused, Triton

LEMMA InitInv == CallsSound /\ Init => IInv
<1> SUFFICES ASSUME CallsSound, Init PROVE IInv
  OBVIOUS
<1>1. Functions
  BY DEF Init, Functions
<1>2. ASSUME NEW t \in Threads PROVE ThreadInv(t)
  <2>1. call[t] \in CallsOf[t]
    BY DEF Init, First, CallsSound
  <2>2. pc[t] = "idle" /\ outcome[t] = None
    BY DEF Init
  <2> QED BY <2>1, <2>2, KernelBackend DEF ThreadInv, Honoured
<1> QED BY <1>1, <1>2 DEF IInv

\* It is enough to look at the thread that moves.
LEMMA OneThread ==
  ASSUME IInv, NEW t \in Threads, NEW p, NEW o, NEW c, NEW k,
         call' = [call EXCEPT ![t] = c], outcome' = [outcome EXCEPT ![t] = o],
         pc' = [pc EXCEPT ![t] = p], config' = [config EXCEPT ![t] = k],
         purpose' = [x \in Threads |-> purpose'[x]],
         ThreadInv(t)'
  PROVE  IInv'
<1>1. Functions'
  BY DEF IInv, Functions
<1>2. ASSUME NEW x \in Threads, x # t PROVE ThreadInv(x)'
  <2>1. call'[x] = call[x] /\ outcome'[x] = outcome[x] /\ pc'[x] = pc[x] /\ config'[x] = config[x]
    BY <1>2 DEF IInv, Functions
  <2>2. ThreadInv(x)
    BY DEF IInv
  <2> QED BY <2>1, <2>2 DEF ThreadInv
<1> QED BY <1>1, <1>2 DEF IInv

-----------------------------------------------------------------------------
(* The steps.                                                              *)

\* get_kernel_config returns a kernel that fits the call.
LEMMA ChosenInv ==
  ASSUME IInv, NEW t \in Threads, NEW k, Fitting(call[t], k),
         Chosen(t, k), UNCHANGED <<call, purpose>>
  PROVE  IInv'
<1>1. Functions /\ ThreadInv(t) /\ purpose' = [x \in Threads |-> purpose'[x]]
  BY DEF IInv, Functions
<1>2. CASE purpose[t] = "describe"
  <2>1. /\ pc' = [pc EXCEPT ![t] = "call"]
        /\ UNCHANGED <<call, purpose, config, outcome>>
    BY <1>2 DEF Chosen, Goto
  <2>2. /\ call' = [call EXCEPT ![t] = call[t]] /\ config' = [config EXCEPT ![t] = config[t]]
        /\ outcome' = [outcome EXCEPT ![t] = outcome[t]]
    BY <2>1, <1>1 DEF Functions
  <2>3. ThreadInv(t)'
    BY <2>1, <1>1 DEF ThreadInv, Functions
  <2> QED BY <2>1, <2>2, <2>3, <1>1, OneThread
<1>3. CASE purpose[t] # "describe"
  <2>1. /\ pc' = [pc EXCEPT ![t] = "launch"] /\ config' = [config EXCEPT ![t] = k]
        /\ UNCHANGED <<call, purpose, outcome>>
    BY <1>3 DEF Chosen, Goto
  <2>2. /\ call' = [call EXCEPT ![t] = call[t]]
        /\ outcome' = [outcome EXCEPT ![t] = outcome[t]]
    BY <2>1, <1>1 DEF Functions
  <2>3. /\ pc'[t] = "launch" /\ config'[t] = k
        /\ call'[t] = call[t] /\ outcome'[t] = outcome[t]
    BY <2>1, <1>1 DEF Functions
  <2>4. ThreadInv(t)'
    BY <2>3, <1>1 DEF ThreadInv, Fitting, Honoured
  <2> QED BY <2>1, <2>2, <2>4, <1>1, OneThread
<1> QED BY <1>2, <1>3

\* get_kernel_config raises.
LEMMA RaisedInv ==
  ASSUME IInv, NEW t \in Threads, Raised(t), UNCHANGED <<call, purpose>>
  PROVE  IInv'
<1>1. Functions /\ ThreadInv(t) /\ purpose' = [x \in Threads |-> purpose'[x]]
  BY DEF IInv, Functions
<1>2. CASE purpose[t] = "describe"
  <2>1. /\ pc' = [pc EXCEPT ![t] = "call"]
        /\ UNCHANGED <<call, purpose, config, outcome>>
    BY <1>2 DEF Raised, Goto
  <2>2. /\ call' = [call EXCEPT ![t] = call[t]] /\ config' = [config EXCEPT ![t] = config[t]]
        /\ outcome' = [outcome EXCEPT ![t] = outcome[t]]
    BY <2>1, <1>1 DEF Functions
  <2>3. ThreadInv(t)'
    BY <2>1, <1>1 DEF ThreadInv, Functions
  <2> QED BY <2>1, <2>2, <2>3, <1>1, OneThread
<1>3. CASE purpose[t] # "describe"
  <2>1. /\ pc' = [pc EXCEPT ![t] = "ended"] /\ outcome' = [outcome EXCEPT ![t] = Error]
        /\ UNCHANGED <<call, purpose, config>>
    BY <1>3 DEF Raised, Goto
  <2>2. /\ call' = [call EXCEPT ![t] = call[t]] /\ config' = [config EXCEPT ![t] = config[t]]
    BY <2>1, <1>1 DEF Functions
  <2>3. pc'[t] = "ended" /\ call'[t] = call[t] /\ outcome'[t].backend = "error"
    BY <2>1, <1>1, KernelBackend DEF Functions
  <2>4. ThreadInv(t)'
    BY <2>3, <1>1 DEF ThreadInv, Honoured
  <2> QED BY <2>1, <2>2, <2>4, <1>1, OneThread
<1> QED BY <1>2, <1>3

LEMMA OnwardInv ==
  ASSUME IInv, NEW t \in Threads, Onward(t), UNCHANGED <<call, purpose>>,
         call[t].backend # "cutlass"
  PROVE  IInv'
<1>1. Functions /\ ThreadInv(t) /\ purpose' = [x \in Threads |-> purpose'[x]]
  BY DEF IInv, Functions
<1>2. /\ pc' = [pc EXCEPT ![t] = "cuda"]
      /\ UNCHANGED <<call, purpose, config, outcome>>
  BY DEF Onward, Goto
<1>3. /\ call' = [call EXCEPT ![t] = call[t]] /\ config' = [config EXCEPT ![t] = config[t]]
      /\ outcome' = [outcome EXCEPT ![t] = outcome[t]]
  BY <1>2, <1>1 DEF Functions
<1>4. ThreadInv(t)'
  BY <1>2, <1>1 DEF ThreadInv, Functions
<1> QED BY <1>2, <1>3, <1>4, <1>1, OneThread

\* A call ends with a kernel that is no refusal and honours its backend.
LEMMA EndedInv ==
  ASSUME IInv, NEW t \in Threads, NEW k, Ended(t, k), UNCHANGED <<call, config>>,
         purpose' = [x \in Threads |-> purpose'[x]],
         k.backend # "refused", Honoured(call[t], k)
  PROVE  IInv'
<1>1. Functions /\ ThreadInv(t)
  BY DEF IInv
<1>2. /\ pc' = [pc EXCEPT ![t] = "ended"] /\ outcome' = [outcome EXCEPT ![t] = k]
  BY DEF Ended, Goto
<1>3. /\ call' = [call EXCEPT ![t] = call[t]] /\ config' = [config EXCEPT ![t] = config[t]]
  BY <1>1 DEF Functions
<1>4. pc'[t] = "ended" /\ call'[t] = call[t] /\ outcome'[t] = k
  BY <1>1, <1>2 DEF Functions
<1>5. ThreadInv(t)'
  BY <1>4, <1>1 DEF ThreadInv, Honoured
<1> QED BY <1>2, <1>3, <1>5, OneThread

LEMMA BeginInv ==
  ASSUME CallsSound, IInv, NEW t \in Threads, Begin(t)
  PROVE  IInv'
<1>1. Functions /\ ThreadInv(t)
  BY DEF IInv
<1>2. PICK c \in CallsOf[t], what \in {"describe", "launch"} :
        /\ what = "describe" => c.api = "int8_gemm"
        /\ call' = [call EXCEPT ![t] = c] /\ purpose' = [purpose EXCEPT ![t] = what]
        /\ Goto(t, CASE c.api # "int8_gemm" -> c.api
                     [] what = "describe" -> "cutlass"
                     [] OTHER -> "call")
  BY DEF Begin
<1>3. c.api \in {"int8_gemm", "batched", "moe"}
  BY DEF CallsSound, CallSound
<1>4. PICK p : /\ pc' = [pc EXCEPT ![t] = p]
               /\ p \in {"cutlass", "call"} \/ (p \in {"batched", "moe"} /\ c.api # "int8_gemm")
  <2>1. CASE c.api # "int8_gemm"
    BY <2>1, <1>2, <1>3 DEF Goto
  <2>2. CASE c.api = "int8_gemm"
    BY <2>2, <1>2 DEF Goto
  <2> QED BY <2>1, <2>2
<1>5. pc[t] = "idle" /\ UNCHANGED <<config, outcome>>
  BY DEF Begin, At
<1>6. outcome[t] = None
  BY <1>1, <1>5 DEF ThreadInv
<1>7. /\ config' = [config EXCEPT ![t] = config[t]] /\ outcome' = [outcome EXCEPT ![t] = None]
  BY <1>1, <1>5, <1>6 DEF Functions
<1>8. pc'[t] = p /\ call'[t] = c /\ outcome'[t] = None
  BY <1>1, <1>2, <1>4, <1>7 DEF Functions
<1>9. ThreadInv(t)'
  BY <1>4, <1>8, KernelBackend DEF ThreadInv, Honoured
<1>10. purpose' = [x \in Threads |-> purpose'[x]]
  BY <1>1, <1>2 DEF Functions
<1> QED BY <1>2, <1>4, <1>7, <1>9, <1>10, OneThread

LEMMA TryCutlassInv ==
  ASSUME TablesFit, CallsSound, IInv, NEW t \in Threads, TryCutlass(t)
  PROVE  IInv'
<1> DEFINE c == call[t]
<1>1. CallSound(c) /\ UNCHANGED <<call, purpose>>
  BY DEF IInv, ThreadInv, CallsSound, TryCutlass
<1>2. CASE Onward(t) /\ c.backend # "cutlass"
  BY <1>1, <1>2, OnwardInv
<1>3. CASE Raised(t)
  BY <1>1, <1>3, RaisedInv
<1>4. CASE /\ Supported(c) /\ VectorAligned(c) /\ c.backend \in {"auto", "cutlass"}
           /\ Chosen(t, Kernel("cutlass", CutlassChoice(c)))
  <2>1. Fitting(c, Kernel("cutlass", CutlassChoice(c)))
    BY <1>1, <1>4, CutlassTakes, TakenRuns, KernelBackend, ExecutedKernels DEF Fitting
  <2> QED BY <1>1, <1>4, <2>1, ChosenInv
<1>5. CASE Supported(c) /\ c.backend = "cutlass" /\ Chosen(t, Kernel("cutlass", 0))
  <2>1. Fitting(c, Kernel("cutlass", 0))
    BY <1>5, ZeroTakes, TakenRuns, KernelBackend, ExecutedKernels DEF Fitting
  <2> QED BY <1>1, <1>5, <2>1, ChosenInv
<1>6. CASE ~WantsCutlass(c)
  BY <1>6, <1>2 DEF TryCutlass, WantsCutlass
<1>7. CASE WantsCutlass(c)
  BY <1>7, <1>2, <1>3, <1>4, <1>5 DEF TryCutlass, WantsCutlass
<1> QED BY <1>6, <1>7

LEMMA TryCudaInv ==
  ASSUME TablesFit, CallsSound, IInv, NEW t \in Threads, TryCuda(t)
  PROVE  IInv'
<1> DEFINE c == call[t]
<1>1. /\ CallSound(c) /\ UNCHANGED <<call, purpose>> /\ c.backend # "cutlass"
  BY DEF IInv, ThreadInv, CallsSound, TryCuda, At
<1>2. CASE Raised(t)
  BY <1>1, <1>2, RaisedInv
<1>3. CASE Chosen(t, Triton) /\ c.backend \notin {"cuda", "cutlass"}
  <2>1. Fitting(c, Triton)
    BY <1>1, <1>3, KernelBackend DEF Fitting, Native, CallSound
  <2> QED BY <1>1, <1>3, <2>1, ChosenInv
<1>4. CASE Supported(c) /\ c.backend \in {"auto", "cuda"} /\ Chosen(t, Kernel("cuda", CudaChoice(c)))
  <2>1. Fitting(c, Kernel("cuda", CudaChoice(c)))
    BY <1>1, <1>4, CudaRuns, KernelBackend DEF Fitting
  <2> QED BY <1>1, <1>4, <2>1, ChosenInv
<1>5. CASE ~WantsCuda(c)
  BY <1>1, <1>5, <1>3 DEF TryCuda, WantsCuda
<1>6. CASE WantsCuda(c)
  BY <1>1, <1>6, <1>2, <1>3, <1>4 DEF TryCuda, WantsCuda
<1> QED BY <1>5, <1>6

LEMMA Int8GemmInv ==
  ASSUME IInv, NEW t \in Threads, Int8Gemm(t)
  PROVE  IInv'
<1>1. Functions /\ ThreadInv(t)
  BY DEF IInv
<1>2. /\ purpose' = [purpose EXCEPT ![t] = "launch"] /\ UNCHANGED <<call, config>>
  BY DEF Int8Gemm
<1>3. purpose' = [x \in Threads |-> purpose'[x]]
  BY <1>1, <1>2 DEF Functions
<1>4. CASE Ended(t, Error)
  BY <1>2, <1>3, <1>4, KernelBackend, EndedInv DEF Honoured
<1>5. CASE Ended(t, Kernel("zeros", -1))
  <2> DEFINE zeros == Kernel("zeros", -1)
  <2>1. zeros.backend = "zeros"
    BY KernelBackend
  <2> HIDE DEF zeros
  <2>2. Ended(t, zeros)
    BY <1>5 DEF zeros
  <2> QED BY <1>2, <1>3, <2>1, <2>2, EndedInv DEF Honoured
<1>6. CASE Goto(t, "cutlass") /\ UNCHANGED outcome
  <2>1. /\ pc' = [pc EXCEPT ![t] = "cutlass"]
        /\ call' = [call EXCEPT ![t] = call[t]] /\ config' = [config EXCEPT ![t] = config[t]]
        /\ outcome' = [outcome EXCEPT ![t] = outcome[t]]
    BY <1>1, <1>2, <1>6 DEF Functions, Goto
  <2>2. pc'[t] = "cutlass" /\ call'[t] = call[t] /\ outcome'[t] = outcome[t]
    BY <1>1, <2>1, <1>2, <1>6 DEF Functions
  <2>3. ThreadInv(t)'
    BY <2>2, <1>1 DEF ThreadInv, Honoured
  <2> QED BY <2>1, <2>3, <1>3, OneThread
<1> QED BY <1>4, <1>5, <1>6 DEF Int8Gemm

LEMMA LaunchInv ==
  ASSUME IInv, NEW t \in Threads, Launch(t)
  PROVE  IInv'
<1>1. Functions /\ Fitting(call[t], config[t])
  BY DEF IInv, ThreadInv, Launch, At
<1>2. UNCHANGED <<call, config>> /\ purpose' = [x \in Threads |-> purpose'[x]]
  BY <1>1 DEF Launch, Functions
<1>3. CASE Ended(t, Error)
  BY <1>2, <1>3, KernelBackend, EndedInv DEF Honoured
<1>4. CASE config[t].backend = "triton" /\ Ended(t, Triton)
  <2>1. Honoured(call[t], Triton)
    BY <1>1, <1>4, KernelBackend DEF Fitting, Honoured
  <2> QED BY <1>2, <1>4, <2>1, KernelBackend, EndedInv
<1>5. CASE /\ config[t].backend # "triton"
           /\ Ended(t, Launched(call[t], config[t].backend, config[t].id))
  <2>1. config[t].backend \in {"cuda", "cutlass"}
    BY <1>1, <1>5 DEF Fitting
  <2>2. PICK o : o = Executed(call[t], config[t]) /\ o.backend = config[t].backend
    BY ExecutedKernels
  <2>3. Launched(call[t], config[t].backend, config[t].id) = o
    BY <1>1, <2>1, <2>2 DEF Fitting, Native
  <2>4. Honoured(call[t], o)
    BY <1>1, <2>2 DEF Fitting, Honoured
  <2> QED BY <1>2, <1>5, <2>1, <2>2, <2>3, <2>4, EndedInv
<1> QED BY <1>3, <1>4, <1>5 DEF Launch

LEMMA LaunchBatchedInv ==
  ASSUME IInv, NEW t \in Threads, LaunchBatched(t)
  PROVE  IInv'
<1> DEFINE c == call[t]
           lib == IF c.api = "batched" THEN "cutlass" ELSE "cutlass_moe"
<1>1. Functions /\ c.api # "int8_gemm"
  BY DEF IInv, ThreadInv, LaunchBatched
<1>2. UNCHANGED <<call, config>> /\ purpose' = [x \in Threads |-> purpose'[x]]
  BY <1>1 DEF LaunchBatched, Functions
<1>3. CASE Ended(t, Error)
  BY <1>2, <1>3, KernelBackend, EndedInv DEF Honoured
<1>4. CASE Ended(t, Kernel(lib, c.id))
  <2>1. Kernel(lib, c.id).backend # "refused"
    BY KernelBackend
  <2> QED BY <1>1, <1>2, <1>4, <2>1, EndedInv DEF Honoured
<1>5. Batchable(c) => BatchRuns(c)
  BY DEF Batchable, BatchRuns
<1>6. CASE ~Batchable(c)
  BY <1>3, <1>6 DEF LaunchBatched
<1>7. CASE Batchable(c)
  <2>1. Ended(t, IF ~Loadable(lib, c.arch) THEN Error ELSE Kernel(lib, c.id))
    BY <1>5, <1>7 DEF LaunchBatched
  <2> QED BY <2>1, <1>3, <1>4
<1> QED BY <1>6, <1>7

LEMMA AgainInv ==
  ASSUME CallsSound, IInv, NEW t \in Threads, Again(t)
  PROVE  IInv'
<1>1. Functions
  BY DEF IInv
<1>2. /\ pc' = [pc EXCEPT ![t] = "idle"] /\ call' = [call EXCEPT ![t] = First(t)]
      /\ config' = [config EXCEPT ![t] = None] /\ outcome' = [outcome EXCEPT ![t] = None]
      /\ purpose' = [purpose EXCEPT ![t] = "launch"]
  BY DEF Again, Goto
<1>3. First(t) \in CallsOf[t]
  BY DEF First, CallsSound
<1>4. pc'[t] = "idle" /\ call'[t] = First(t) /\ outcome'[t] = None
  BY <1>1, <1>2 DEF Functions
<1>5. ThreadInv(t)'
  BY <1>3, <1>4, KernelBackend DEF ThreadInv, Honoured
<1>6. purpose' = [x \in Threads |-> purpose'[x]]
  BY <1>1, <1>2 DEF Functions
<1> QED BY <1>2, <1>5, <1>6, OneThread

LEMMA NextInv ==
  ASSUME TablesFit, CallsSound, IInv, [Next]_vars
  PROVE  IInv'
<1>1. ASSUME NEW t \in Threads,
             Begin(t) \/ TryCutlass(t) \/ TryCuda(t) \/ Int8Gemm(t) \/ Launch(t)
               \/ LaunchBatched(t) \/ Again(t)
      PROVE  IInv'
  BY <1>1, BeginInv, TryCutlassInv, TryCudaInv, Int8GemmInv, LaunchInv, LaunchBatchedInv, AgainInv
<1>2. CASE UNCHANGED threads
  BY <1>2 DEF threads, IInv, Functions, ThreadInv
<1>3. ASSUME NEW lib \in Libraries,
             Break(lib) \/ \E arch \in SUPPORTED_ARCHITECTURES : Install(lib, arch)
      PROVE  UNCHANGED threads
  BY <1>3 DEF Break, Install
<1>4. CASE UNCHANGED vars
  BY <1>4, <1>2 DEF vars
<1> QED BY <1>1, <1>2, <1>3, <1>4 DEF Next

LEMMA InvSafe == IInv => LaunchSupported /\ ExplicitHonoured
<1> SUFFICES ASSUME IInv, NEW t \in Threads
             PROVE  /\ outcome[t] # Refused
                    /\ At(t, "launch") /\ config[t].backend \in Native =>
                         Launched(call[t], config[t].backend, config[t].id) = Executed(call[t], config[t])
                    /\ Honoured(call[t], outcome[t])
  BY DEF LaunchSupported, ExplicitHonoured, Honoured
<1>1. ThreadInv(t)
  BY DEF IInv
<1> QED BY <1>1, KernelBackend DEF ThreadInv, Fitting, At

-----------------------------------------------------------------------------
(* The theorems.                                                           *)

\* The kernel that get_kernel_config chose is the one that runs: no launcher
\* refuses it, and none runs configuration 0 in its place but the two-SM kernels
\* of CUDA for an offset scale_b, for any calls of any number of threads, any
\* tables that fit and any course of the tools.
THEOREM LaunchesSafe == Spec => []LaunchSupported
<1>1. Init => IInv
  BY InitInv, DispatchAssumption
<1>2. IInv /\ [Next]_vars => IInv'
  BY NextInv, DispatchAssumption
<1>3. IInv => LaunchSupported
  BY InvSafe
<1> QED BY <1>1, <1>2, <1>3, PTL DEF Spec

\* int8_gemm runs the backend its caller named, or raises, or returns the
\* zeros of an empty problem.
THEOREM ExplicitSafe == Spec => []ExplicitHonoured
<1>1. Init => IInv
  BY InitInv, DispatchAssumption
<1>2. IInv /\ [Next]_vars => IInv'
  BY NextInv, DispatchAssumption
<1>3. IInv => ExplicitHonoured
  BY InvSafe
<1> QED BY <1>1, <1>2, <1>3, PTL DEF Spec

-----------------------------------------------------------------------------
(* The caches: no architecture is ever dropped, and what was chosen stays  *)
(* what would be chosen.                                                   *)

CacheOk(lib) ==
  LET old == loaded[lib]
  IN /\ old \in Seq(SUPPORTED_ARCHITECTURES) /\ Len(old) <= 3
     /\ \A i, j \in 1 .. Len(old) : old[i] = old[j] => i = j
CacheInv ==
  loaded = [lib \in Libraries |-> loaded[lib]] /\ \A lib \in Native : CacheOk(lib)
Grows == \A lib \in Native : \A arch : Cached(lib, arch) => Cached(lib, arch)'

\* Three places hold three architectures.
LEMMA RoomLeft ==
  ASSUME NEW old \in Seq(SUPPORTED_ARCHITECTURES),
         \A i, j \in 1 .. Len(old) : old[i] = old[j] => i = j,
         NEW arch \in SUPPORTED_ARCHITECTURES, ~Contains(old, arch)
  PROVE  Len(old) # 3
<1>2. ASSUME Len(old) = 3 PROVE FALSE
  <2>1. /\ old[1] \in SUPPORTED_ARCHITECTURES /\ old[2] \in SUPPORTED_ARCHITECTURES
        /\ old[3] \in SUPPORTED_ARCHITECTURES
    BY <1>2
  <2>2. old[1] # old[2] /\ old[2] # old[3] /\ old[1] # old[3]
    BY <1>2
  <2>3. old[1] # arch /\ old[2] # arch /\ old[3] # arch
    BY <1>2 DEF Contains
  <2> QED BY <2>1, <2>2, <2>3 DEF SUPPORTED_ARCHITECTURES
<1> QED BY <1>2

HasLength(s, n) == Len(s) = n

LEMMA EnteredKeeps ==
  ASSUME NEW lib \in Native, CacheOk(lib), NEW arch \in SUPPORTED_ARCHITECTURES,
         NEW new, new = Entered(lib, arch)
  PROVE  /\ new \in Seq(SUPPORTED_ARCHITECTURES) /\ Len(new) <= 3
         /\ \A i, j \in 1 .. Len(new) : new[i] = new[j] => i = j
         /\ Contains(new, arch) /\ \A x : Cached(lib, x) => Contains(new, x)
<1> SUFFICES ASSUME NEW old, old = loaded[lib], NEW n \in 0 .. 3, HasLength(old, n)
             PROVE  /\ new \in Seq(SUPPORTED_ARCHITECTURES) /\ Len(new) <= 3
                    /\ \A i, j \in 1 .. Len(new) : new[i] = new[j] => i = j
                    /\ Contains(new, arch) /\ \A x : Contains(old, x) => Contains(new, x)
  <2>1. PICK n : HasLength(loaded[lib], n)
    BY DEF HasLength
  <2>2. n \in Nat /\ n <= 3
    BY <2>1 DEF HasLength, CacheOk
  <2>3. n \in 0 .. 3
    BY <2>2
  <2> QED BY <2>1, <2>3 DEF Cached
<1>1. /\ old \in Seq(SUPPORTED_ARCHITECTURES)
      /\ \A i \in 1 .. n : old[i] \in SUPPORTED_ARCHITECTURES
      /\ \A i, j \in 1 .. n : old[i] = old[j] => i = j
  BY DEF CacheOk, HasLength
<1>2. \E moved \in 1 .. 3, length \in 1 .. 3 :
        /\ moved <= length
        /\ \/ moved <= n /\ length = n /\ old[moved] = arch
           \/ moved = n + 1 /\ length = n + 1 /\ \A i \in 1 .. n : old[i] # arch
        /\ new = [i \in 1 .. length |->
                    IF i = 1 THEN arch ELSE IF i <= moved THEN old[i - 1] ELSE old[i]]
  <2>1. CASE Contains(old, arch)
    <3> DEFINE moved == CHOOSE i \in 1 .. n : old[i] = arch
    <3>1. moved \in 1 .. n /\ old[moved] = arch
      BY <2>1 DEF Contains, HasLength
    <3>2. new = [i \in 1 .. IF moved > n THEN moved ELSE n |->
                   IF i = 1 THEN arch ELSE IF i <= moved THEN old[i - 1] ELSE old[i]]
      BY <2>1 DEF Entered, Cached, HasLength
    <3> HIDE DEF moved
    <3>3. new = [i \in 1 .. n |->
                   IF i = 1 THEN arch ELSE IF i <= moved THEN old[i - 1] ELSE old[i]]
      BY <3>1, <3>2, <1>1
    <3>4. moved \in 1 .. 3 /\ n \in 1 .. 3 /\ moved <= n
      BY <3>1, <1>1
    <3> QED BY <3>1, <3>3, <3>4
  <2>2. CASE ~Contains(old, arch)
    <3>1. n \in 0 .. 2
      <4>1. n # 3
        BY <2>2, <1>1, RoomLeft DEF HasLength
      <4> QED BY <4>1, <1>1
    <3>2. CacheSize(lib) = 3
      BY DEF CacheSize, Native
    <3>3. new = [i \in 1 .. n + 1 |->
                   IF i = 1 THEN arch ELSE IF i <= n + 1 THEN old[i - 1] ELSE old[i]]
      <4> DEFINE found == CHOOSE i \in 1 .. n : old[i] = arch
                 moved == IF Cached(lib, arch) THEN found
                         ELSE IF n < CacheSize(lib) THEN n + 1 ELSE CacheSize(lib)
      <4>1. new = [i \in 1 .. IF moved > n THEN moved ELSE n |->
                     IF i = 1 THEN arch ELSE IF i <= moved THEN old[i - 1] ELSE old[i]]
        BY DEF Entered, HasLength
      <4> HIDE DEF found
      <4>2. moved = n + 1
        <5>1. ~Cached(lib, arch)
          BY <2>2 DEF Cached
        <5>2. n < 3
          BY <3>1
        <5> QED BY <5>1, <5>2, <3>2
      <4> HIDE DEF moved
      <4> QED BY <4>1, <4>2, <3>1
    <3>4. \A i \in 1 .. n : old[i] # arch
      BY <2>2 DEF Contains, HasLength
    <3> QED BY <3>1, <3>3, <3>4
  <2> QED BY <2>1, <2>2
<1>3. PICK moved \in 1 .. 3, length \in 1 .. 3 :
        /\ moved <= length
        /\ \/ moved <= n /\ length = n /\ old[moved] = arch
           \/ moved = n + 1 /\ length = n + 1 /\ \A i \in 1 .. n : old[i] # arch
        /\ new = [i \in 1 .. length |->
                    IF i = 1 THEN arch ELSE IF i <= moved THEN old[i - 1] ELSE old[i]]
  BY <1>2
<1>4. \A i \in 1 .. length : new[i] \in SUPPORTED_ARCHITECTURES
  BY <1>1, <1>3
<1>5. new \in Seq(SUPPORTED_ARCHITECTURES) /\ Len(new) = length
  <2>1. new \in [1 .. length -> SUPPORTED_ARCHITECTURES]
    BY <1>3, <1>4
  <2> QED BY <2>1
<1>6. \A i, j \in 1 .. length : new[i] = new[j] => i = j
  BY <1>1, <1>3
<1>7. new[1] = arch
  BY <1>3
<1>8. ASSUME NEW x, Contains(old, x) PROVE Contains(new, x)
  <2>1. PICK i \in 1 .. n : old[i] = x
    BY <1>8 DEF Contains, HasLength
  <2>2. CASE i = moved
    <3>1. x = arch
      BY <1>1, <1>3, <2>1, <2>2
    <3> QED BY <3>1, <1>5, <1>7 DEF Contains
  <2>3. CASE i < moved
    <3>1. new[i + 1] = x /\ i + 1 \in 1 .. length
      BY <1>1, <1>3, <2>1, <2>3
    <3> QED BY <3>1, <1>5 DEF Contains
  <2>4. CASE i > moved
    <3>1. new[i] = x /\ i \in 1 .. length
      BY <1>1, <1>3, <2>1, <2>4
    <3> QED BY <3>1, <1>5 DEF Contains
  <2> QED BY <2>2, <2>3, <2>4, <2>1
<1>9. Contains(new, arch)
  BY <1>5, <1>7 DEF Contains
<1> QED BY <1>5, <1>6, <1>8, <1>9

LEMMA LookKeeps ==
  ASSUME CacheInv, NEW lib \in Libraries, NEW arch \in SUPPORTED_ARCHITECTURES, Look(lib, arch)
  PROVE  /\ CacheInv' /\ Grows
         /\ lib \in Native /\ Loadable(lib, arch) => Cached(lib, arch)'
<1>1. loaded' = [l \in Libraries |-> loaded'[l]]
  BY DEF CacheInv, Look
<1>2. Native \subseteq Libraries
  BY DEF Native, Libraries
<1>3. \A l \in Libraries :
        loaded'[l] = IF l = lib /\ Loadable(lib, arch) THEN Entered(lib, arch) ELSE loaded[l]
  BY DEF CacheInv, Look
<1>4. ASSUME NEW l \in Native
      PROVE  /\ CacheOk(l)' /\ \A x : Cached(l, x) => Cached(l, x)'
             /\ l = lib /\ Loadable(lib, arch) => Cached(lib, arch)'
  <2>1. CacheOk(l)
    BY DEF CacheInv
  <2>2. CASE l = lib /\ Loadable(lib, arch)
    <3>1. loaded'[l] = Entered(l, arch)
      BY <1>2, <1>3, <2>2
    <3> QED BY <2>1, <2>2, <3>1, EnteredKeeps DEF CacheOk, Cached
  <2>3. CASE ~(l = lib /\ Loadable(lib, arch))
    <3>1. loaded'[l] = loaded[l]
      BY <1>2, <1>3, <2>3
    <3> QED BY <2>1, <2>3, <3>1 DEF CacheOk, Cached
  <2> QED BY <2>2, <2>3
<1> QED BY <1>1, <1>4 DEF CacheInv, Grows

LEMMA SameCaches ==
  ASSUME CacheInv, UNCHANGED loaded
  PROVE  CacheInv' /\ Grows
BY DEF CacheInv, CacheOk, Grows, Cached

-----------------------------------------------------------------------------
(* What is wanted for a call depends on the call alone; it is ready once   *)
(* its library is cached, and then stays ready.                            *)

CutlassKernel(c) ==
  IF VectorAligned(c) THEN Kernel("cutlass", CutlassChoice(c)) ELSE Kernel("cutlass", 0)
CudaKernel(c) == Kernel("cuda", CudaChoice(c))
Wanted(c, k) ==
  /\ Supported(c)
  /\ \/ WantsCutlass(c) /\ (VectorAligned(c) \/ c.backend = "cutlass") /\ k = CutlassKernel(c)
     \/ WantsCuda(c) /\ k = CudaKernel(c)
Ready(c, k) == Wanted(c, k) /\ Cached(k.backend, c.arch)

\* k is what was promised, or is preferred to it.
As(c, promised, k) ==
  k = promised \/ (c.backend = "auto" /\ Preference(k) > Preference(promised))
\* o is what the promised kernel amounts to, or is preferred to it.
Ran(c, promised, o) ==
  o = Executed(c, promised) \/ (c.backend = "auto" /\ Preference(o) > Preference(promised))

\* Of a thread with the call c, at p, for the purpose u, that was promised pr,
\* chose k and ended with o.
KeptBy(c, p, u, pr, k, o) ==
  /\ pr.backend \in Native => Ready(c, pr)
  /\ p = "launch" /\ k.backend \in Native => Ready(c, k)
  /\ p \in {"idle", "batched", "moe"} => pr = None
  /\ p \in {"cutlass", "cuda"} /\ u = "describe" => pr = None
  /\ p = "cuda" => pr.backend # "cutlass"
  /\ p = "launch" /\ pr.backend \in Native => As(c, pr, k)
  /\ p = "ended" /\ pr.backend \in Native /\ Validated(c) => Ran(c, pr, o)
  /\ o = Error /\ c.api = "int8_gemm" /\ Validated(c) => c.backend \in Native
Kept(t) == KeptBy(call[t], pc[t], purpose[t], promise[t], config[t], outcome[t])
KeptInv ==
  /\ promise = [t \in Threads |-> promise[t]]
  /\ \A t \in Threads : Kept(t)

LEMMA WantedNative ==
  ASSUME NEW c, NEW k, Wanted(c, k)
  PROVE  /\ k.backend \in Native /\ c.arch \in SUPPORTED_ARCHITECTURES
         /\ k.backend = "cutlass" =>
              /\ WantsCutlass(c) /\ k = CutlassKernel(c)
              /\ VectorAligned(c) \/ c.backend = "cutlass"
         /\ k.backend = "cuda" => WantsCuda(c) /\ k = CudaKernel(c)
<1>1. CutlassKernel(c).backend = "cutlass" /\ CudaKernel(c).backend = "cuda"
  BY KernelBackend DEF CutlassKernel, CudaKernel
<1>2. Supported(c)
  BY DEF Wanted
<1>3. c.arch \in SUPPORTED_ARCHITECTURES
  BY <1>2 DEF Supported
<1> QED BY <1>1, <1>3 DEF Wanted, Native

LEMMA WantedConfigured ==
  ASSUME TablesFit, NEW c, NEW k, Wanted(c, k)
  PROVE  k.id \in Configurations(k.backend, c.arch)
<1>1. CASE k.backend = "cuda"
  <2>1. k.id = CudaChoice(c)
    BY <1>1, WantedNative, KernelBackend DEF CudaKernel
  <2>2. CASE Measured(c)
    BY <1>1, <2>1, <2>2, EntriesDivide DEF CudaChoice
  <2>3. CASE ~Measured(c)
    BY <1>1, <2>1, <2>3, Configured DEF CudaChoice
  <2> QED BY <2>2, <2>3
<1>2. CASE k.backend = "cutlass"
  <2>1. k.id \in {0, CutlassChoice(c)}
    BY <1>2, WantedNative, KernelBackend DEF CutlassKernel
  <2>2. 0 \in Configurations("cutlass", c.arch)
    BY Configured
  <2>3. CASE c.arch = "sm_121" /\ c.shape \in DOMAIN CutlassEntries
    <3>1. CutlassChoice(c) \in 0 .. 31
      BY <2>3 DEF CutlassChoice, TablesFit
    <3> QED BY <1>2, <2>1, <2>2, <2>3, <3>1, Configured
  <2>4. CASE ~(c.arch = "sm_121" /\ c.shape \in DOMAIN CutlassEntries) /\ Measured(c)
    <3>1. CutlassChoice(c) = Entry(c).cutlass
      BY <2>4 DEF CutlassChoice
    <3> QED BY <1>2, <2>1, <2>2, <2>4, <3>1, EntriesDivide
  <2>5. CASE ~(c.arch = "sm_121" /\ c.shape \in DOMAIN CutlassEntries) /\ ~Measured(c)
    <3>1. (c.arch = "sm_110" /\ CutlassChoice(c) = 32) \/ CutlassChoice(c) \in {0, 7}
      BY <2>5 DEF CutlassChoice
    <3> QED BY <1>2, <2>1, <2>2, <3>1, Configured
  <2> QED BY <2>3, <2>4, <2>5
<1> QED BY <1>1, <1>2, WantedNative DEF Native

LEMMA ReadyStays ==
  ASSUME Grows, NEW c, NEW k, Ready(c, k)
  PROVE  Ready(c, k)'
BY WantedNative DEF Ready, Grows

LEMMA KeptStays ==
  ASSUME Grows, NEW c, NEW p, NEW u, NEW pr, NEW k, NEW o, KeptBy(c, p, u, pr, k, o)
  PROVE  KeptBy(c, p, u, pr, k, o)'
BY ReadyStays DEF KeptBy

\* It is enough to look at the thread that moves.
LEMMA OneKept ==
  ASSUME Functions, KeptInv, Grows, NEW t \in Threads,
         NEW c, NEW p, NEW u, NEW pr, NEW k, NEW o,
         call' = [call EXCEPT ![t] = c], pc' = [pc EXCEPT ![t] = p],
         purpose' = [purpose EXCEPT ![t] = u], promise' = [promise EXCEPT ![t] = pr],
         config' = [config EXCEPT ![t] = k], outcome' = [outcome EXCEPT ![t] = o],
         KeptBy(c, p, u, pr, k, o)'
  PROVE  KeptInv'
<1>1. promise' = [x \in Threads |-> promise'[x]]
  BY DEF KeptInv
<1>2. ASSUME NEW x \in Threads PROVE Kept(x)'
  <2>1. CASE x = t
    <3>1. /\ call'[x] = c /\ pc'[x] = p /\ purpose'[x] = u /\ promise'[x] = pr
          /\ config'[x] = k /\ outcome'[x] = o
      BY <2>1 DEF Functions, KeptInv
    <3> QED BY <3>1 DEF Kept
  <2>2. CASE x # t
    <3>1. /\ call'[x] = call[x] /\ pc'[x] = pc[x] /\ purpose'[x] = purpose[x]
          /\ promise'[x] = promise[x] /\ config'[x] = config[x] /\ outcome'[x] = outcome[x]
      BY <2>2 DEF Functions, KeptInv
    <3>2. Kept(x)
      BY DEF KeptInv
    <3> QED BY <3>1, <3>2, KeptStays DEF Kept
  <2> QED BY <2>1, <2>2
<1> QED BY <1>1, <1>2 DEF KeptInv

\* A variable that keeps its value keeps it at the thread that moves.
LEMMA Still ==
  ASSUME Functions, KeptInv, NEW t \in Threads
  PROVE  /\ call = [call EXCEPT ![t] = call[t]] /\ pc = [pc EXCEPT ![t] = pc[t]]
         /\ purpose = [purpose EXCEPT ![t] = purpose[t]]
         /\ promise = [promise EXCEPT ![t] = promise[t]]
         /\ config = [config EXCEPT ![t] = config[t]]
         /\ outcome = [outcome EXCEPT ![t] = outcome[t]]
BY DEF Functions, KeptInv

LEMMA NotNative ==
  /\ None.backend \notin Native /\ Error.backend \notin Native /\ Triton.backend \notin Native
  /\ Error # None
BY KernelBackend DEF Native

LEMMA ChosenKept ==
  ASSUME Functions, KeptInv, Grows, NEW t \in Threads, NEW k,
         NEW c, c = call[t], NEW u, u = purpose[t], NEW pr, pr = promise[t],
         pc[t] \in {"cutlass", "cuda"}, Chosen(t, k), UNCHANGED <<call, purpose>>,
         k.backend \in Native => Ready(c, k)',
         pr.backend \in Native => As(c, pr, k)
  PROVE  KeptInv'
<1> SUFFICES ASSUME NEW p, p = pc[t], NEW old, old = config[t], NEW o, o = outcome[t]
             PROVE  KeptInv'
  OBVIOUS
<1>1. KeptBy(c, p, u, pr, old, o)
  BY DEF KeptInv, Kept
<1>2. KeptBy(c, p, u, pr, old, o)'
  BY <1>1, KeptStays
<1>3. CASE u = "describe"
  <2>1. promise' = [promise EXCEPT ![t] = k] /\ pc' = [pc EXCEPT ![t] = "call"]
        /\ UNCHANGED <<config, outcome>>
    BY <1>3 DEF Chosen, Goto
  <2>2. KeptBy(c, "call", u, k, old, o)'
    BY <1>2 DEF KeptBy
  <2>3. /\ call' = [call EXCEPT ![t] = c] /\ pc' = [pc EXCEPT ![t] = "call"]
        /\ purpose' = [purpose EXCEPT ![t] = u] /\ promise' = [promise EXCEPT ![t] = k]
        /\ config' = [config EXCEPT ![t] = old] /\ outcome' = [outcome EXCEPT ![t] = o]
    BY <2>1, Still
  <2> QED BY <2>2, <2>3, OneKept
<1>4. CASE u # "describe"
  <2>1. config' = [config EXCEPT ![t] = k] /\ pc' = [pc EXCEPT ![t] = "launch"]
        /\ UNCHANGED <<promise, outcome>>
    BY <1>4 DEF Chosen, Goto
  <2>2. KeptBy(c, "launch", u, pr, k, o)'
    BY <1>2 DEF KeptBy
  <2>3. /\ call' = [call EXCEPT ![t] = c] /\ pc' = [pc EXCEPT ![t] = "launch"]
        /\ purpose' = [purpose EXCEPT ![t] = u] /\ promise' = [promise EXCEPT ![t] = pr]
        /\ config' = [config EXCEPT ![t] = k] /\ outcome' = [outcome EXCEPT ![t] = o]
    BY <2>1, Still
  <2> QED BY <2>2, <2>3, OneKept
<1> QED BY <1>3, <1>4

LEMMA RaisedKept ==
  ASSUME Functions, KeptInv, Grows, NEW t \in Threads,
         NEW c, c = call[t], NEW u, u = purpose[t], NEW pr, pr = promise[t],
         Raised(t), UNCHANGED <<call, purpose>>,
         c.backend \in Native, pr.backend \notin Native
  PROVE  KeptInv'
<1> SUFFICES ASSUME NEW p, p = pc[t], NEW k, k = config[t], NEW o, o = outcome[t]
             PROVE  KeptInv'
  OBVIOUS
<1>1. KeptBy(c, p, u, pr, k, o)
  BY DEF KeptInv, Kept
<1>2. KeptBy(c, p, u, pr, k, o)'
  BY <1>1, KeptStays
<1>3. CASE u = "describe"
  <2>1. promise' = [promise EXCEPT ![t] = Error] /\ pc' = [pc EXCEPT ![t] = "call"]
        /\ UNCHANGED <<config, outcome>>
    BY <1>3 DEF Raised, Goto
  <2>2. KeptBy(c, "call", u, Error, k, o)'
    BY <1>2, NotNative DEF KeptBy
  <2>3. /\ call' = [call EXCEPT ![t] = c] /\ pc' = [pc EXCEPT ![t] = "call"]
        /\ purpose' = [purpose EXCEPT ![t] = u] /\ promise' = [promise EXCEPT ![t] = Error]
        /\ config' = [config EXCEPT ![t] = k] /\ outcome' = [outcome EXCEPT ![t] = o]
    BY <2>1, Still
  <2> QED BY <2>2, <2>3, OneKept
<1>4. CASE u # "describe"
  <2>1. outcome' = [outcome EXCEPT ![t] = Error] /\ pc' = [pc EXCEPT ![t] = "ended"]
        /\ UNCHANGED <<promise, config>>
    BY <1>4 DEF Raised, Goto
  <2>2. KeptBy(c, "ended", u, pr, k, Error)'
    BY <1>2 DEF KeptBy
  <2>3. /\ call' = [call EXCEPT ![t] = c] /\ pc' = [pc EXCEPT ![t] = "ended"]
        /\ purpose' = [purpose EXCEPT ![t] = u] /\ promise' = [promise EXCEPT ![t] = pr]
        /\ config' = [config EXCEPT ![t] = k] /\ outcome' = [outcome EXCEPT ![t] = Error]
    BY <2>1, Still
  <2> QED BY <2>2, <2>3, OneKept
<1> QED BY <1>3, <1>4

LEMMA OnwardKept ==
  ASSUME Functions, KeptInv, Grows, NEW t \in Threads,
         NEW pr, pr = promise[t], pc[t] = "cutlass",
         Onward(t), UNCHANGED <<call, purpose>>, pr.backend # "cutlass"
  PROVE  KeptInv'
<1> SUFFICES ASSUME NEW c, c = call[t], NEW u, u = purpose[t],
                    NEW k, k = config[t], NEW o, o = outcome[t]
             PROVE  KeptInv'
  OBVIOUS
<1>1. KeptBy(c, "cutlass", u, pr, k, o)
  BY DEF KeptInv, Kept
<1>2. KeptBy(c, "cutlass", u, pr, k, o)'
  BY <1>1, KeptStays
<1>3. pc' = [pc EXCEPT ![t] = "cuda"] /\ UNCHANGED <<promise, config, outcome>>
  BY DEF Onward, Goto
<1>4. KeptBy(c, "cuda", u, pr, k, o)'
  BY <1>2 DEF KeptBy
<1>5. /\ call' = [call EXCEPT ![t] = c] /\ pc' = [pc EXCEPT ![t] = "cuda"]
      /\ purpose' = [purpose EXCEPT ![t] = u] /\ promise' = [promise EXCEPT ![t] = pr]
      /\ config' = [config EXCEPT ![t] = k] /\ outcome' = [outcome EXCEPT ![t] = o]
  BY <1>3, Still
<1>6. Functions /\ KeptInv /\ Grows
  OBVIOUS
<1> QED BY ONLY <1>4, <1>5, <1>6, t \in Threads, OneKept

\* A call ends: no error without cause, and what was promised.
LEMMA EndedKept ==
  ASSUME Functions, KeptInv, Grows, NEW t \in Threads, NEW o, NEW w,
         NEW c, c = call[t], NEW pr, pr = promise[t],
         Ended(t, o), purpose' = [purpose EXCEPT ![t] = w], UNCHANGED <<call, promise, config>>,
         pr.backend \in Native /\ Validated(c) => Ran(c, pr, o),
         o = Error /\ c.api = "int8_gemm" /\ Validated(c) => c.backend \in Native
  PROVE  KeptInv'
<1> SUFFICES ASSUME NEW p, p = pc[t], NEW u, u = purpose[t], NEW k, k = config[t],
                    NEW old, old = outcome[t]
             PROVE  KeptInv'
  OBVIOUS
<1>1. KeptBy(c, p, u, pr, k, old)
  BY DEF KeptInv, Kept
<1>2. KeptBy(c, p, u, pr, k, old)'
  BY <1>1, KeptStays
<1>3. pc' = [pc EXCEPT ![t] = "ended"] /\ outcome' = [outcome EXCEPT ![t] = o]
  BY DEF Ended, Goto
<1>4. KeptBy(c, "ended", w, pr, k, o)'
  BY <1>2 DEF KeptBy
<1>5. /\ call' = [call EXCEPT ![t] = c] /\ pc' = [pc EXCEPT ![t] = "ended"]
      /\ purpose' = [purpose EXCEPT ![t] = w] /\ promise' = [promise EXCEPT ![t] = pr]
      /\ config' = [config EXCEPT ![t] = k] /\ outcome' = [outcome EXCEPT ![t] = o]
  BY <1>3, Still
<1>6. Functions /\ KeptInv /\ Grows
  OBVIOUS
<1> QED BY ONLY <1>4, <1>5, <1>6, t \in Threads, OneKept

-----------------------------------------------------------------------------
(* The steps keep the promises.                                            *)

AllInv == IInv /\ CacheInv /\ KeptInv

LEMMA InitKept == CallsSound /\ Init => CacheInv /\ KeptInv
<1> SUFFICES ASSUME CallsSound, Init PROVE CacheInv /\ KeptInv
  OBVIOUS
<1>1. CacheInv
  <2>1. \A lib \in Libraries : loaded[lib] = <<>>
    BY DEF Init
  <2>2. \A lib \in Native : loaded[lib] = <<>>
    BY <2>1 DEF Native, Libraries
  <2>3. loaded = [lib \in Libraries |-> loaded[lib]]
    BY DEF Init
  <2>4. <<>> \in Seq(SUPPORTED_ARCHITECTURES) /\ Len(<<>>) = 0
    OBVIOUS
  <2>5. ASSUME NEW lib \in Native PROVE CacheOk(lib)
    <3>1. PICK old : old = loaded[lib]
      OBVIOUS
    <3>2. old \in Seq(SUPPORTED_ARCHITECTURES) /\ Len(old) = 0
      BY <2>2, <2>4, <3>1
    <3>3. \A i, j \in 1 .. Len(old) : old[i] = old[j] => i = j
      <4>1. 1 .. Len(old) = {}
        BY <3>2
      <4> QED BY <4>1
    <3> QED BY <3>1, <3>2, <3>3 DEF CacheOk
  <2> QED BY <2>3, <2>5 DEF CacheInv
<1>2. promise = [t \in Threads |-> promise[t]]
  BY DEF Init
<1>3. ASSUME NEW t \in Threads PROVE Kept(t)
  <2>1. /\ pc[t] = "idle" /\ purpose[t] = "launch" /\ promise[t] = None
        /\ config[t] = None /\ outcome[t] = None
    BY DEF Init
  <2> QED BY <2>1, NotNative DEF Kept, KeptBy
<1> QED BY <1>1, <1>2, <1>3 DEF KeptInv

LEMMA BeginKept ==
  ASSUME CallsSound, AllInv, NEW t \in Threads, Begin(t)
  PROVE  CacheInv' /\ KeptInv'
<1>1. Functions /\ KeptInv /\ pc[t] = "idle" /\ UNCHANGED <<loaded, promise, config, outcome>>
  BY DEF AllInv, IInv, Begin, At
<1>2. CacheInv' /\ Grows
  BY <1>1, SameCaches DEF AllInv
<1>3. PICK c \in CallsOf[t], what \in {"describe", "launch"} :
        /\ what = "describe" => c.api = "int8_gemm"
        /\ call' = [call EXCEPT ![t] = c] /\ purpose' = [purpose EXCEPT ![t] = what]
        /\ Goto(t, CASE c.api # "int8_gemm" -> c.api
                     [] what = "describe" -> "cutlass"
                     [] OTHER -> "call")
  BY DEF Begin
<1>4. c.api \in {"int8_gemm", "batched", "moe"}
  BY DEF CallsSound, CallSound
<1>5. PICK p : /\ pc' = [pc EXCEPT ![t] = p]
               /\ p \in {"cutlass", "call"} \/ p \in {"batched", "moe"}
  <2>1. CASE c.api # "int8_gemm"
    BY <2>1, <1>3, <1>4 DEF Goto
  <2>2. CASE c.api = "int8_gemm"
    BY <2>2, <1>3 DEF Goto
  <2> QED BY <2>1, <2>2
<1>6. promise[t] = None /\ outcome[t] = None
  BY <1>1 DEF KeptInv, Kept, KeptBy, AllInv, IInv, ThreadInv
<1>7. PICK k : k = config[t]
  OBVIOUS
<1>8. KeptBy(c, p, what, None, k, None)'
  BY <1>5, NotNative DEF KeptBy
<1>9. /\ promise' = [promise EXCEPT ![t] = None] /\ config' = [config EXCEPT ![t] = k]
      /\ outcome' = [outcome EXCEPT ![t] = None]
  BY <1>1, <1>6, <1>7, Still
<1>10. call' = [call EXCEPT ![t] = c] /\ purpose' = [purpose EXCEPT ![t] = what]
  BY <1>3
<1>11. pc' = [pc EXCEPT ![t] = p]
  BY <1>5
<1>12. Functions /\ KeptInv /\ Grows
  BY <1>1, <1>2
<1>13. KeptInv'
  BY ONLY <1>8, <1>9, <1>10, <1>11, <1>12, t \in Threads, OneKept
<1> QED BY <1>2, <1>13

LEMMA TryCutlassKept ==
  ASSUME CallsSound, AllInv, NEW t \in Threads, TryCutlass(t)
  PROVE  CacheInv' /\ KeptInv'
<1> SUFFICES ASSUME NEW c, c = call[t], NEW pr, pr = promise[t], NEW u, u = purpose[t]
             PROVE  CacheInv' /\ KeptInv'
  OBVIOUS
<1>1. /\ Functions /\ KeptInv /\ CacheInv /\ pc[t] = "cutlass" /\ UNCHANGED <<call, purpose>>
      /\ c.backend \in {"auto", "triton", "cuda", "cutlass"}
  BY DEF AllInv, IInv, TryCutlass, At, ThreadInv, CallsSound, CallSound
<1>2. pr.backend \in Native => Ready(c, pr)
  BY <1>1 DEF KeptInv, Kept, KeptBy
<1>3. pr.backend = "cutlass" =>
        /\ WantsCutlass(c) /\ Supported(c) /\ Cached("cutlass", c.arch)
        /\ pr = CutlassKernel(c) /\ (VectorAligned(c) \/ c.backend = "cutlass")
  BY <1>2, WantedNative DEF Ready, Native, Wanted
<1>4. pr.backend = "cuda" => c.backend # "cutlass"
  BY <1>2, WantedNative DEF Ready, Native, WantsCuda
<1>5. CacheInv' /\ Grows
  <2>1. CASE UNCHANGED loaded
    BY <1>1, <2>1, SameCaches
  <2>2. CASE Supported(c) /\ Look("cutlass", c.arch)
    BY <1>1, <2>2, LookKeeps DEF Supported, Libraries
  <2> QED BY <2>1, <2>2 DEF TryCutlass
<1>6. CASE Onward(t) /\ pr.backend # "cutlass"
  BY <1>1, <1>5, <1>6, OnwardKept
<1>7. CASE Raised(t) /\ c.backend = "cutlass" /\ pr.backend # "cutlass"
  <2>1. pr.backend \notin Native
    BY <1>4, <1>7 DEF Native
  <2> QED BY <1>1, <1>5, <1>7, <2>1, RaisedKept DEF Native
<1>8. CASE /\ Supported(c) /\ WantsCutlass(c) /\ (VectorAligned(c) \/ c.backend = "cutlass")
           /\ Look("cutlass", c.arch) /\ Loadable("cutlass", c.arch)
           /\ Chosen(t, CutlassKernel(c))
  <2>1. CutlassKernel(c).backend = "cutlass"
    BY KernelBackend DEF CutlassKernel
  <2>2. Cached("cutlass", c.arch)'
    BY <1>1, <1>8, LookKeeps DEF Supported, Libraries, Native
  <2>3. Wanted(c, CutlassKernel(c))
    BY <1>8 DEF Wanted
  <2>4. Ready(c, CutlassKernel(c))'
    BY <2>1, <2>2, <2>3 DEF Ready
  <2>5. pr.backend = "cutlass" => As(c, pr, CutlassKernel(c))
    BY <1>3 DEF As
  <2>6. pr.backend = "cuda" => As(c, pr, CutlassKernel(c))
    <3>1. pr.backend = "cuda" => c.backend = "auto"
      BY <1>4, <1>8 DEF WantsCutlass
    <3> QED BY <3>1, <2>1 DEF As, Preference
  <2> QED BY <1>1, <1>5, <1>8, <2>4, <2>5, <2>6, ChosenKept DEF Native
<1>9. CASE ~WantsCutlass(c)
  BY <1>3, <1>6, <1>9 DEF TryCutlass
<1>10. CASE WantsCutlass(c) /\ ~Supported(c)
  BY <1>3, <1>6, <1>7, <1>10 DEF TryCutlass
<1>11. CASE WantsCutlass(c) /\ Supported(c) /\ ~Loadable("cutlass", c.arch)
  BY <1>3, <1>6, <1>7, <1>11 DEF TryCutlass, Loadable
<1>12. CASE WantsCutlass(c) /\ Supported(c) /\ Loadable("cutlass", c.arch)
  BY <1>3, <1>6, <1>8, <1>12 DEF TryCutlass, CutlassKernel
<1> QED BY <1>9, <1>10, <1>11, <1>12

LEMMA TryCudaKept ==
  ASSUME CallsSound, AllInv, NEW t \in Threads, TryCuda(t)
  PROVE  CacheInv' /\ KeptInv'
<1> SUFFICES ASSUME NEW c, c = call[t], NEW pr, pr = promise[t], NEW u, u = purpose[t]
             PROVE  CacheInv' /\ KeptInv'
  OBVIOUS
<1>1. /\ Functions /\ KeptInv /\ CacheInv /\ pc[t] = "cuda" /\ UNCHANGED <<call, purpose>>
  BY DEF AllInv, IInv, TryCuda, At
<1>2. pr.backend \in Native => Ready(c, pr) /\ pr.backend = "cuda"
  BY <1>1 DEF KeptInv, Kept, KeptBy, Native
<1>3. pr.backend \in Native =>
        WantsCuda(c) /\ Supported(c) /\ Cached("cuda", c.arch) /\ pr = CudaKernel(c)
  BY <1>2, WantedNative DEF Ready, Wanted
<1>5. CacheInv' /\ Grows
  <2>1. CASE UNCHANGED loaded
    BY <1>1, <2>1, SameCaches
  <2>2. CASE Supported(c) /\ Look("cuda", c.arch)
    BY <1>1, <2>2, LookKeeps DEF Supported, Libraries
  <2> QED BY <2>1, <2>2 DEF TryCuda
<1>6. CASE Chosen(t, Triton) /\ pr.backend \notin Native
  BY <1>1, <1>5, <1>6, NotNative, ChosenKept
<1>7. CASE Raised(t) /\ c.backend = "cuda" /\ pr.backend \notin Native
  BY <1>1, <1>5, <1>7, RaisedKept DEF Native
<1>8. CASE /\ Supported(c) /\ WantsCuda(c) /\ Look("cuda", c.arch) /\ Loadable("cuda", c.arch)
           /\ Chosen(t, CudaKernel(c))
  <2>1. CudaKernel(c).backend = "cuda"
    BY KernelBackend DEF CudaKernel
  <2>2. Cached("cuda", c.arch)'
    BY <1>1, <1>8, LookKeeps DEF Supported, Libraries, Native
  <2>3. Wanted(c, CudaKernel(c))
    BY <1>8 DEF Wanted
  <2>4. Ready(c, CudaKernel(c))'
    BY <2>1, <2>2, <2>3 DEF Ready
  <2>5. pr.backend \in Native => As(c, pr, CudaKernel(c))
    BY <1>3 DEF As
  <2> QED BY <1>1, <1>5, <1>8, <2>4, <2>5, ChosenKept
<1>9. CASE ~WantsCuda(c)
  BY <1>3, <1>6, <1>9 DEF TryCuda
<1>10. CASE WantsCuda(c) /\ ~Supported(c)
  BY <1>3, <1>6, <1>7, <1>10 DEF TryCuda
<1>11. CASE WantsCuda(c) /\ Supported(c) /\ ~Loadable("cuda", c.arch)
  BY <1>3, <1>6, <1>7, <1>11 DEF TryCuda, Loadable
<1>12. CASE WantsCuda(c) /\ Supported(c) /\ Loadable("cuda", c.arch)
  BY <1>8, <1>12 DEF TryCuda, CudaKernel
<1> QED BY <1>9, <1>10, <1>11, <1>12

LEMMA Int8GemmKept ==
  ASSUME AllInv, NEW t \in Threads, Int8Gemm(t)
  PROVE  CacheInv' /\ KeptInv'
<1> SUFFICES ASSUME NEW c, c = call[t], NEW pr, pr = promise[t],
                    NEW k, k = config[t], NEW o, o = outcome[t]
             PROVE  CacheInv' /\ KeptInv'
  OBVIOUS
<1>1. /\ Functions /\ KeptInv /\ CacheInv /\ pc[t] = "call"
      /\ UNCHANGED <<loaded, call, promise, config>>
      /\ purpose' = [purpose EXCEPT ![t] = "launch"]
  BY DEF AllInv, IInv, Int8Gemm, At
<1>2. CacheInv' /\ Grows
  BY <1>1, SameCaches
<1>3. PICK u : KeptBy(c, "call", u, pr, k, o)
  BY <1>1 DEF KeptInv, Kept
<1>4. CASE ~Validated(c) /\ Ended(t, Error)
  BY <1>1, <1>2, <1>4, EndedKept
<1>5. CASE Validated(c) /\ Empty(c) /\ Ended(t, Kernel("zeros", -1))
  <2> DEFINE zeros == Kernel("zeros", -1)
  <2>1. pr.backend \notin Native
    BY <1>3, <1>5 DEF KeptBy, Ready, Wanted, Supported, Compatible
  <2>2. zeros # Error
    BY KernelBackend
  <2> HIDE DEF zeros
  <2>3. Ended(t, zeros)
    BY <1>5 DEF zeros
  <2> QED BY <1>1, <1>2, <2>1, <2>2, <2>3, EndedKept
<1>6. CASE Goto(t, "cutlass") /\ UNCHANGED outcome
  <2>1. KeptBy(c, "call", u, pr, k, o)'
    BY <1>2, <1>3, KeptStays
  <2>2. KeptBy(c, "cutlass", "launch", pr, k, o)'
    BY <2>1 DEF KeptBy
  <2>3. /\ call' = [call EXCEPT ![t] = c] /\ pc' = [pc EXCEPT ![t] = "cutlass"]
        /\ promise' = [promise EXCEPT ![t] = pr] /\ config' = [config EXCEPT ![t] = k]
        /\ outcome' = [outcome EXCEPT ![t] = o]
    BY <1>1, <1>6, Still DEF Goto
  <2> QED BY ONLY <1>1, <1>2, <2>2, <2>3, t \in Threads, OneKept
<1> QED BY <1>4, <1>5, <1>6 DEF Int8Gemm

LEMMA LaunchKept ==
  ASSUME TablesFit, AllInv, NEW t \in Threads, Launch(t)
  PROVE  CacheInv' /\ KeptInv'
<1> SUFFICES ASSUME NEW c, c = call[t], NEW pr, pr = promise[t],
                    NEW k, k = config[t], NEW o, o = outcome[t]
             PROVE  CacheInv' /\ KeptInv'
  OBVIOUS
<1>1. /\ Functions /\ KeptInv /\ CacheInv /\ pc[t] = "launch" /\ Fitting(c, k)
      /\ UNCHANGED <<call, purpose, promise, config>>
  BY DEF AllInv, IInv, Launch, At, ThreadInv
<1>2. PICK u : KeptBy(c, "launch", u, pr, k, o) /\ u = purpose[t]
  BY <1>1 DEF KeptInv, Kept
<1>3. purpose' = [purpose EXCEPT ![t] = u]
  BY <1>1, <1>2, Still
<1>4. pr.backend \in Native => As(c, pr, k)
  BY <1>2 DEF KeptBy
<1>5. CASE k.backend = "triton"
  <2>1. Ended(t, Triton) /\ UNCHANGED loaded
    BY <1>5 DEF Launch
  <2>2. CacheInv' /\ Grows
    BY <1>1, <2>1, SameCaches
  <2>3. pr.backend \in Native => Ran(c, pr, Triton)
    BY <1>4, <1>5, KernelBackend DEF As, Ran, Preference, Native
  <2>4. Triton # Error
    BY KernelBackend
  <2> QED BY <1>1, <1>3, <2>1, <2>2, <2>3, <2>4, EndedKept
<1>6. CASE k.backend # "triton"
  <2>1. k.backend \in Native
    BY <1>1, <1>6 DEF Fitting, Native
  <2>2. Ready(c, k)
    BY <1>2, <2>1 DEF KeptBy
  <2>3. k.id \in Configurations(k.backend, c.arch) /\ c.arch \in SUPPORTED_ARCHITECTURES
    BY <2>2, WantedConfigured, WantedNative DEF Ready
  <2>4. Loadable(k.backend, c.arch)
    BY <2>2 DEF Ready, Loadable
  <2>5. PICK w : w = Executed(c, k) /\ w.backend = k.backend
    BY ExecutedKernels
  <2>6. Look(k.backend, c.arch) /\ Ended(t, w)
    BY <1>1, <1>6, <2>1, <2>3, <2>4, <2>5 DEF Launch, Fitting
  <2>7. CacheInv' /\ Grows
    BY <1>1, <2>1, <2>3, <2>6, LookKeeps DEF Native, Libraries
  <2>8. w # Error
    BY <2>1, <2>5, KernelBackend DEF Native
  <2>9. pr.backend \in Native => Ran(c, pr, w)
    BY <1>4, <2>5 DEF As, Ran, Preference
  <2> QED BY <1>1, <1>3, <2>6, <2>7, <2>8, <2>9, EndedKept
<1> QED BY <1>5, <1>6

LEMMA BatchedKept ==
  ASSUME AllInv, NEW t \in Threads, LaunchBatched(t)
  PROVE  CacheInv' /\ KeptInv'
<1> SUFFICES ASSUME NEW c, c = call[t], NEW pr, pr = promise[t]
             PROVE  CacheInv' /\ KeptInv'
  OBVIOUS
<1>1. /\ Functions /\ KeptInv /\ CacheInv /\ pc[t] \in {"batched", "moe"}
      /\ UNCHANGED <<call, purpose, promise, config>> /\ c.api # "int8_gemm"
  BY DEF AllInv, IInv, LaunchBatched, ThreadInv
<1>2. pr.backend \notin Native
  BY <1>1, NotNative DEF KeptInv, Kept, KeptBy
<1>3. PICK u : u = purpose[t]
  OBVIOUS
<1>4. purpose' = [purpose EXCEPT ![t] = u]
  BY <1>1, <1>3, Still
<1>5. PICK e : Ended(t, e)
  BY DEF LaunchBatched
<1>6. CacheInv' /\ Grows
  <2>1. CASE UNCHANGED loaded
    BY <1>1, <2>1, SameCaches
  <2>2. CASE Batchable(c)
    <3>1. PICK lib \in Libraries : Look(lib, c.arch)
      BY <2>2 DEF LaunchBatched, Libraries
    <3>2. c.arch \in SUPPORTED_ARCHITECTURES
      BY <2>2 DEF Batchable, SUPPORTED_ARCHITECTURES
    <3> QED BY <1>1, <3>1, <3>2, LookKeeps
  <2> QED BY <2>1, <2>2 DEF LaunchBatched
<1> QED BY <1>1, <1>2, <1>4, <1>5, <1>6, EndedKept

LEMMA AgainKept ==
  ASSUME AllInv, NEW t \in Threads, Again(t)
  PROVE  CacheInv' /\ KeptInv'
<1> SUFFICES ASSUME NEW c, c = First(t)
             PROVE  CacheInv' /\ KeptInv'
  OBVIOUS
<1>1. /\ Functions /\ KeptInv /\ CacheInv /\ UNCHANGED loaded
      /\ call' = [call EXCEPT ![t] = c] /\ pc' = [pc EXCEPT ![t] = "idle"]
      /\ purpose' = [purpose EXCEPT ![t] = "launch"] /\ promise' = [promise EXCEPT ![t] = None]
      /\ config' = [config EXCEPT ![t] = None] /\ outcome' = [outcome EXCEPT ![t] = None]
  BY DEF AllInv, IInv, Again, Goto
<1>2. CacheInv' /\ Grows
  BY <1>1, SameCaches
<1>3. KeptBy(c, "idle", "launch", None, None, None)'
  BY NotNative DEF KeptBy
<1> QED BY <1>1, <1>2, <1>3, OneKept

LEMMA NextKept ==
  ASSUME TablesFit, CallsSound, AllInv, [Next]_vars
  PROVE  AllInv'
<1>1. IInv'
  BY NextInv DEF AllInv
<1>2. ASSUME NEW t \in Threads,
             Begin(t) \/ TryCutlass(t) \/ TryCuda(t) \/ Int8Gemm(t) \/ Launch(t)
               \/ LaunchBatched(t) \/ Again(t)
      PROVE  CacheInv' /\ KeptInv'
  BY <1>2, BeginKept, TryCutlassKept, TryCudaKept, Int8GemmKept, LaunchKept, BatchedKept,
     AgainKept
<1>3. CASE UNCHANGED <<loaded, threads>>
  <2>1. CacheInv' /\ Grows
    BY <1>3, SameCaches DEF AllInv
  <2>2. ASSUME NEW t \in Threads PROVE Kept(t)'
    <3>1. PICK c, p, u, pr, k, o :
            /\ c = call[t] /\ p = pc[t] /\ u = purpose[t] /\ pr = promise[t]
            /\ k = config[t] /\ o = outcome[t]
      OBVIOUS
    <3>2. KeptBy(c, p, u, pr, k, o)
      BY <3>1 DEF AllInv, KeptInv, Kept
    <3>3. KeptBy(c, p, u, pr, k, o)'
      BY <2>1, <3>2, KeptStays
    <3>4. /\ call'[t] = c /\ pc'[t] = p /\ purpose'[t] = u /\ promise'[t] = pr
          /\ config'[t] = k /\ outcome'[t] = o
      BY <1>3, <3>1 DEF threads
    <3> QED BY <3>3, <3>4 DEF Kept
  <2> QED BY <1>1, <1>3, <2>1, <2>2 DEF threads, AllInv, KeptInv
<1>4. ASSUME NEW lib \in Libraries,
             Break(lib) \/ \E arch \in SUPPORTED_ARCHITECTURES : Install(lib, arch)
      PROVE  UNCHANGED <<loaded, threads>>
  BY <1>4 DEF Break, Install
<1>5. CASE UNCHANGED vars
  BY <1>3, <1>5 DEF vars
<1> QED BY <1>1, <1>2, <1>3, <1>4, <1>5 DEF Next, AllInv

LEMMA AllSafe == AllInv => LibraryStays /\ DescriptionHolds
<1> SUFFICES ASSUME AllInv, NEW t \in Threads
             PROVE  /\ At(t, "launch") /\ config[t].backend \in Native =>
                         Loadable(config[t].backend, call[t].arch)
                    /\ outcome[t] = Error /\ call[t].api = "int8_gemm" /\ Validated(call[t]) =>
                         call[t].backend \in Native
                    /\ At(t, "ended") /\ promise[t].backend \in Native /\ Validated(call[t]) =>
                         Ran(call[t], promise[t], outcome[t])
  BY DEF LibraryStays, DescriptionHolds, Ran
<1>1. Kept(t)
  BY DEF AllInv, KeptInv
<1> QED BY <1>1 DEF Kept, KeptBy, At, Ready, Loadable

-----------------------------------------------------------------------------
(* The theorems about the libraries and the description.                   *)

\* Whatever tools install or break, and whatever other threads load for other
\* devices, a library that was found when the kernel was chosen is found again
\* at the launch, so that auto never fails: lru_cache holds as many libraries
\* as there are architectures, and never drops one.
THEOREM LibrarySafe == Spec => []LibraryStays
<1>1. Init => AllInv
  BY InitInv, InitKept, DispatchAssumption DEF AllInv
<1>2. AllInv /\ [Next]_vars => AllInv'
  BY NextKept, DispatchAssumption
<1>3. AllInv => LibraryStays
  BY AllSafe
<1> QED BY <1>1, <1>2, <1>3, PTL DEF Spec

\* A call runs what get_kernel_config described, an offset scale_b handed over
\* by the two-SM kernels apart, or something preferred to it that was installed
\* since.
THEOREM DescriptionSafe == Spec => []DescriptionHolds
<1>1. Init => AllInv
  BY InitInv, InitKept, DispatchAssumption DEF AllInv
<1>2. AllInv /\ [Next]_vars => AllInv'
  BY NextKept, DispatchAssumption
<1>3. AllInv => DescriptionHolds
  BY AllSafe
<1> QED BY <1>1, <1>2, <1>3, PTL DEF Spec

-----------------------------------------------------------------------------
(***************************************************************************)
(* The promise of the gather family, for any numbers of build tools,       *)
(* processes, devices, versions and builds: what the loaders accept was    *)
(* compiled from the sources they compared.                                *)
(*                                                                         *)
(* The invariant follows the versions a tool sees.  While a tool runs,     *)
(* edits only bring new versions, so each source's version only grows:     *)
(*                                                                         *)
(*      hashed before  <=  compiled  <=  on disk                           *)
(*                                                                         *)
(* and the tool that finds the first equal to the last compiled exactly    *)
(* that.  From there the metadata, what a loader has read of it, and what  *)
(* a process has cached each name the bytes they were made for.            *)
(***************************************************************************)

Ordered(v, w, arch) == \A part \in SourcesOf(arch) : v[part] <= w[part]
Hashing(v, arch) == v \in [SourcesOf(arch) -> Int]

SourcesInv ==
  /\ newest \in Int /\ source \in [Parts -> Int]
  /\ \A part \in Parts : source[part] <= newest

BuilderShape(b) ==
  LET r == builder[b]
  IN /\ r = [step |-> r.step, arch |-> r.arch, hashes |-> r.hashes, made |-> r.made]
     /\ r.made = [version |-> r.made.version, arch |-> r.made.arch, build |-> r.made.build]
BuilderInv(b) ==
  LET r == builder[b]
  IN /\ r.step \in {"idle", "compile", "recheck", "replace", "rename"}
     /\ r.step # "idle" => r.arch \in Targets /\ r.made.arch = r.arch
     /\ r.step \in {"compile", "recheck"} =>
          Hashing(r.hashes, r.arch) /\ Ordered(r.hashes, source, r.arch)
     /\ r.step = "recheck" =>
          /\ Hashing(r.made.version, r.arch)
          /\ Ordered(r.hashes, r.made.version, r.arch)
          /\ Ordered(r.made.version, source, r.arch)
     /\ r.step \in {"replace", "rename"} => r.made.version = r.hashes
BuildersInv ==
  /\ builder = [b \in Builders |-> builder[b]]
  /\ \A b \in Builders : BuilderShape(b) /\ BuilderInv(b)

\* Metadata that name the bytes they were written for.
Truthful(m) == m.version = m.bytes.version /\ m.arch = m.bytes.arch
MetadataInv == metadata.state = "valid" => Truthful(metadata)

LoaderInv(p) ==
  LET r == loader[p]
  IN /\ r = [step |-> r.step, arch |-> r.arch, seen |-> r.seen, bytes |-> r.bytes]
     /\ r.step # "idle" => r.arch \in Targets
     /\ r.step \in {"sources", "bytes", "load"} => Truthful(r.seen) /\ r.seen.arch = r.arch
     /\ r.step = "load" => r.bytes = r.seen.bytes
LoadersInv ==
  /\ loader = [p \in Processes |-> loader[p]]
  /\ \A p \in Processes : LoaderInv(p)

CachedSound(entry, arch) ==
  entry # Unloaded => entry.bytes.version = entry.compared /\ entry.bytes.arch = arch
BuildCacheInv ==
  /\ cache = [p \in Processes |-> [a \in Targets |-> cache[p][a]]]
  /\ \A p \in Processes : \A a \in Targets : CachedSound(cache[p][a], a)

BuildIInv == Hashed => SourcesInv /\ BuildersInv /\ MetadataInv /\ LoadersInv /\ BuildCacheInv

-----------------------------------------------------------------------------
(* The library of a behaviour stays the same.                              *)

\* No step changes which library is run, nor what depends on that.
LEMMA KindStays ==
  ASSUME kind' = kind
  PROVE  /\ Hashed' = Hashed
         /\ Targets' = Targets /\ Parts' = Parts
         /\ \A arch : SourcesOf(arch)' = SourcesOf(arch)
<1>1. Hashed' = Hashed
  BY DEF Hashed
<1>2. Targets' = Targets
  BY DEF Targets
<1>3. \A arch : SourcesOf(arch)' = SourcesOf(arch)
  BY DEF SourcesOf
<1>4. Parts' = Parts
  BY <1>2 DEF Parts, SourcesOf
<1> QED BY <1>1, <1>2, <1>3, <1>4

\* Every source a target is compiled from is one of the files on disk.
LEMMA SourcesAreParts ==
  ASSUME NEW arch \in Targets
  PROVE  SourcesOf(arch) \subseteq Parts
BY DEF Parts

\* The hash of the sources of a target.
LEMMA HashTyped ==
  ASSUME SourcesInv, NEW arch \in Targets
  PROVE  /\ Hashing(HashOf(arch), arch)
         /\ \A part \in SourcesOf(arch) :
              HashOf(arch)[part] = source[part] /\ source[part] \in Int
BY SourcesAreParts DEF HashOf, Hashing, SourcesInv

-----------------------------------------------------------------------------
(* Initially.                                                              *)

LEMMA BuildInitInv == BuildInit => BuildIInv
<1> SUFFICES ASSUME BuildInit, Hashed
             PROVE  SourcesInv /\ BuildersInv /\ MetadataInv /\ LoadersInv /\ BuildCacheInv
  BY DEF BuildIInv
<1>1. SourcesInv
  BY DEF BuildInit, SourcesInv
<1>2. BuildersInv
  BY DEF BuildInit, BuildersInv, IdleBuilder, BuilderInv, BuilderShape, Nothing
<1>3. MetadataInv
  BY DEF BuildInit, MetadataInv, NoFile
<1>4. LoadersInv
  BY DEF BuildInit, LoadersInv, IdleLoader, LoaderInv
<1>5. BuildCacheInv
  BY DEF BuildInit, BuildCacheInv, CachedSound
<1> QED BY <1>1, <1>2, <1>3, <1>4, <1>5

-----------------------------------------------------------------------------
(* The sources and the tools.                                              *)

\* A tool that does not move stays sound while the sources do.
LEMMA BuilderKept ==
  ASSUME kind' = kind, source' = source, NEW b \in Builders, BuilderShape(b), BuilderInv(b),
         builder'[b] = builder[b]
  PROVE  BuilderShape(b)' /\ BuilderInv(b)'
<1>1. Targets' = Targets /\ \A arch : SourcesOf(arch)' = SourcesOf(arch)
  BY KindStays
<1> QED BY <1>1 DEF BuilderInv, Ordered, Hashing, BuilderShape

\* It is enough to look at the tool that moves.
LEMMA OneBuilder ==
  ASSUME BuildersInv, kind' = kind, source' = source, NEW b \in Builders, NEW r,
         builder' = [builder EXCEPT ![b] = r],
         BuilderShape(b)' /\ BuilderInv(b)'
  PROVE  BuildersInv'
<1>1. builder' = [c \in Builders |-> builder'[c]]
  BY DEF BuildersInv
<1>2. ASSUME NEW c \in Builders, c # b PROVE BuilderShape(c)' /\ BuilderInv(c)'
  <2>1. builder'[c] = builder[c]
    BY <1>2 DEF BuildersInv
  <2> QED BY <2>1, BuilderKept DEF BuildersInv
<1> QED BY <1>1, <1>2 DEF BuildersInv

LEMMA EditInv ==
  ASSUME BuildIInv, Hashed, NEW part \in Parts, Edit(part)
  PROVE  SourcesInv' /\ BuildersInv'
<1> USE DEF BuildIInv
<1>1. kind' = kind /\ builder' = builder
  BY DEF Edit
<1>2. Targets' = Targets /\ Parts' = Parts
      /\ \A arch : SourcesOf(arch)' = SourcesOf(arch)
  BY <1>1, KindStays
<1>3. CASE newest < MaxVersion /\ newest' = newest + 1 /\ source' = [source EXCEPT ![part] = newest']
  <2>1. SourcesInv'
    BY <1>2, <1>3 DEF SourcesInv
  <2>2. \A q \in Parts : source[q] <= source'[q] /\ source'[q] \in Int /\ source[q] \in Int
    BY <1>3 DEF SourcesInv
  <2>3. ASSUME NEW b \in Builders PROVE BuilderShape(b)' /\ BuilderInv(b)'
    <3>1. BuilderShape(b) /\ BuilderInv(b)
      BY DEF BuildersInv
    <3>2. BuilderShape(b)'
      BY <1>1, <3>1 DEF BuilderShape
    <3>3. ASSUME NEW arch \in Targets, NEW v, Hashing(v, arch), Ordered(v, source, arch)
          PROVE  \A q \in SourcesOf(arch) : v[q] <= source'[q]
      BY <2>2, <3>3, SourcesAreParts DEF Hashing, Ordered
    <3>4. BuilderInv(b)'
      BY <1>1, <1>2, <3>1, <3>3 DEF BuilderInv, Ordered, Hashing
    <3> QED BY <3>2, <3>4
  <2>4. BuildersInv'
    BY <1>1, <2>3 DEF BuildersInv
  <2> QED BY <2>1, <2>4
<1>4. CASE /\ Quiet /\ newest' = newest
           /\ \E old \in 1 .. newest : source' = [source EXCEPT ![part] = old]
  <2>1. SourcesInv'
    BY <1>2, <1>4 DEF SourcesInv
  <2>2. ASSUME NEW b \in Builders PROVE BuilderShape(b)' /\ BuilderInv(b)'
    BY <1>1, <1>4 DEF Quiet, BuildersInv, BuilderInv, BuilderShape
  <2>3. BuildersInv'
    BY <1>1, <2>2 DEF BuildersInv
  <2> QED BY <2>1, <2>3
<1> QED BY <1>3, <1>4 DEF Edit

LEMMA BuildBeginInv ==
  ASSUME BuildIInv, Hashed, NEW b \in Builders, NEW arch \in Targets,
         BeginBuild(b, arch)
  PROVE  BuildersInv'
<1> USE DEF BuildIInv
<1>1. kind' = kind /\ source' = source
  BY DEF BeginBuild, files
<1>2. Targets' = Targets /\ \A a : SourcesOf(a)' = SourcesOf(a)
  BY <1>1, KindStays
<1>3. builder'[b] = [step |-> "compile", arch |-> arch, hashes |-> HashOf(arch),
                     made |-> [version |-> NoHash, arch |-> arch, build |-> builds']]
  BY DEF BeginBuild, BuildersInv
<1>4. Hashing(HashOf(arch), arch) /\ Ordered(HashOf(arch), source, arch)
  BY HashTyped DEF Ordered
<1>5. BuilderShape(b)'
  BY <1>3 DEF BuilderShape
<1>6. BuilderInv(b)'
  BY <1>1, <1>2, <1>3, <1>4 DEF BuilderInv, Hashing, Ordered
<1> QED BY <1>1, <1>5, <1>6, OneBuilder DEF BeginBuild

LEMMA CompileInv ==
  ASSUME BuildIInv, Hashed, NEW b \in Builders, Compile(b)
  PROVE  BuildersInv'
<1> USE DEF BuildIInv
<1> DEFINE r == builder[b]
<1>1. kind' = kind /\ source' = source
  BY DEF Compile, files
<1>2. Targets' = Targets /\ \A a : SourcesOf(a)' = SourcesOf(a)
  BY <1>1, KindStays
<1>3. BuilderShape(b) /\ BuilderInv(b) /\ r.step = "compile"
  BY DEF Compile, AtStep, BuildersInv
<1>4. r.arch \in Targets /\ r.made.arch = r.arch
      /\ Hashing(r.hashes, r.arch) /\ Ordered(r.hashes, source, r.arch)
  BY <1>3 DEF BuilderInv
<1>5. builder'[b] = [step |-> "recheck", arch |-> r.arch, hashes |-> r.hashes,
                     made |-> [version |-> HashOf(r.arch), arch |-> r.made.arch,
                               build |-> r.made.build]]
  <2>1. builder'[b] = [builder[b] EXCEPT !.step = "recheck", !.made.version = HashOf(r.arch)]
    BY DEF Compile, BuildersInv
  <2> QED BY <2>1, <1>3 DEF BuilderShape
<1>6. Hashing(HashOf(r.arch), r.arch) /\ Ordered(HashOf(r.arch), source, r.arch)
      /\ Ordered(r.hashes, HashOf(r.arch), r.arch)
  BY <1>4, HashTyped DEF Ordered
<1>7. BuilderShape(b)'
  BY <1>5 DEF BuilderShape
<1>8. BuilderInv(b)'
  BY <1>1, <1>2, <1>4, <1>5, <1>6 DEF BuilderInv, Hashing, Ordered
<1>9. builder' = [builder EXCEPT ![b] = builder'[b]]
  BY DEF Compile, BuildersInv
<1> QED BY <1>1, <1>7, <1>8, <1>9, OneBuilder

\* The argument of the protocol: equal at both ends, the versions were never
\* different in between.
LEMMA RecheckInv ==
  ASSUME BuildIInv, Hashed, NEW b \in Builders, Recheck(b)
  PROVE  BuildersInv'
<1> USE DEF BuildIInv
<1> DEFINE r == builder[b]
<1>1. kind' = kind /\ source' = source
  BY DEF Recheck, files
<1>2. Targets' = Targets /\ \A a : SourcesOf(a)' = SourcesOf(a)
  BY <1>1, KindStays
<1>3. BuilderShape(b) /\ BuilderInv(b) /\ r.step = "recheck"
  BY DEF Recheck, AtStep, BuildersInv
<1>4. r.arch \in Targets /\ r.made.arch = r.arch
      /\ Hashing(r.hashes, r.arch) /\ Hashing(r.made.version, r.arch)
      /\ Ordered(r.hashes, r.made.version, r.arch) /\ Ordered(r.made.version, source, r.arch)
  BY <1>3 DEF BuilderInv
<1>5. CASE SameSources(b)
  <2>1. \A part \in SourcesOf(r.arch) : r.hashes[part] = source[part]
    BY <1>4, <1>5, HashTyped DEF SameSources
  <2>2. \A part \in SourcesOf(r.arch) : r.made.version[part] = r.hashes[part]
    BY <2>1, <1>4 DEF Ordered, Hashing
  <2>3. r.made.version = r.hashes
    BY <2>2, <1>4 DEF Hashing
  <2>4. builder' = [builder EXCEPT ![b] = [r EXCEPT !.step = "replace"]]
    BY <1>5 DEF Recheck, Goes
  <2>5. builder'[b] = [step |-> "replace", arch |-> r.arch, hashes |-> r.hashes, made |-> r.made]
    BY <2>4, <1>3 DEF BuilderShape, BuildersInv
  <2>6. BuilderShape(b)' /\ BuilderInv(b)'
    BY <2>3, <2>5, <1>2, <1>3, <1>4 DEF BuilderInv, BuilderShape
  <2> QED BY <2>4, <2>6, <1>1, OneBuilder
<1>6. CASE ~SameSources(b)
  <2>1. builder' = [builder EXCEPT ![b] = IdleBuilder]
    BY <1>6 DEF Recheck
  <2>2. BuilderShape(b)' /\ BuilderInv(b)'
    BY <2>1 DEF BuilderInv, BuilderShape, IdleBuilder, Nothing, BuildersInv
  <2> QED BY <2>1, <2>2, <1>1, OneBuilder
<1> QED BY <1>5, <1>6

LEMMA ReplaceInv ==
  ASSUME BuildIInv, Hashed, NEW b \in Builders, ReplaceLibrary(b)
  PROVE  BuildersInv'
<1> USE DEF BuildIInv
<1> DEFINE r == builder[b]
<1>1. kind' = kind /\ source' = source
  BY DEF ReplaceLibrary
<1>2. Targets' = Targets
  BY <1>1, KindStays
<1>3. BuilderShape(b) /\ BuilderInv(b) /\ r.step = "replace"
  BY DEF ReplaceLibrary, AtStep, BuildersInv
<1>4. builder' = [builder EXCEPT ![b] = [r EXCEPT !.step = "rename"]]
  BY DEF ReplaceLibrary, Goes
<1>5. builder'[b] = [step |-> "rename", arch |-> r.arch, hashes |-> r.hashes, made |-> r.made]
  BY <1>3, <1>4 DEF BuilderShape, BuildersInv
<1>6. BuilderShape(b)' /\ BuilderInv(b)'
  BY <1>2, <1>3, <1>5 DEF BuilderInv, BuilderShape
<1> QED BY <1>1, <1>4, <1>6, OneBuilder

\* A tool that ends, or is killed, holds nothing.
LEMMA IdleInv ==
  ASSUME BuildersInv, kind' = kind, source' = source, NEW b \in Builders,
         builder' = [builder EXCEPT ![b] = IdleBuilder]
  PROVE  BuildersInv'
<1>1. BuilderShape(b)' /\ BuilderInv(b)'
  BY DEF BuilderInv, BuilderShape, IdleBuilder, Nothing, BuildersInv
<1> QED BY <1>1, OneBuilder

\* The metadata are written with the hashes and the bytes of one build.
LEMMA RenameInv ==
  ASSUME BuildIInv, Hashed, NEW b \in Builders, RenameMetadata(b)
  PROVE  BuildersInv' /\ MetadataInv'
<1> USE DEF BuildIInv
<1>1. BuildersInv'
  BY IdleInv DEF RenameMetadata
<1>2. builder[b].made.version = builder[b].hashes /\ builder[b].made.arch = builder[b].arch
  BY DEF RenameMetadata, AtStep, BuildersInv, BuilderInv
<1>3. metadata' = Metadata(builder[b].hashes, builder[b].arch, builder[b].made)
  BY DEF RenameMetadata
<1>4. MetadataInv'
  BY <1>2, <1>3 DEF MetadataInv, Truthful, Metadata
<1> QED BY <1>1, <1>4

-----------------------------------------------------------------------------
(* The loaders.                                                            *)

LEMMA OneLoader ==
  ASSUME LoadersInv, kind' = kind, NEW p \in Processes, NEW r,
         loader' = [loader EXCEPT ![p] = r],
         LoaderInv(p)'
  PROVE  LoadersInv'
<1>1. loader' = [q \in Processes |-> loader'[q]]
  BY DEF LoadersInv
<1>2. ASSUME NEW q \in Processes, q # p PROVE LoaderInv(q)'
  <2>1. loader'[q] = loader[q] /\ LoaderInv(q) /\ Targets' = Targets
    BY <1>2, KindStays DEF LoadersInv
  <2> QED BY <2>1 DEF LoaderInv, Truthful
<1> QED BY <1>1, <1>2 DEF LoadersInv

LEMMA RejectedInv ==
  ASSUME LoadersInv, kind' = kind, NEW p \in Processes, Rejected(p)
  PROVE  LoadersInv'
<1>1. LoaderInv(p)'
  BY DEF Rejected, LoaderInv, IdleLoader, LoadersInv
<1> QED BY <1>1, OneLoader DEF Rejected

LEMMA CallInv ==
  ASSUME LoadersInv, NEW p \in Processes, NEW arch \in Targets, CallLoader(p, arch)
  PROVE  LoadersInv'
<1>1. kind' = kind /\ Targets' = Targets
  BY KindStays DEF CallLoader, files
<1>2. loader'[p] = [step |-> "metadata", arch |-> arch, seen |-> NoFile, bytes |-> Nothing]
  BY DEF CallLoader, IdleLoader, LoadersInv
<1>3. LoaderInv(p)'
  BY <1>1, <1>2 DEF LoaderInv
<1> QED BY <1>1, <1>3, OneLoader DEF CallLoader

LEMMA ReadMetadataInv ==
  ASSUME LoadersInv, MetadataInv, NEW p \in Processes, ReadMetadata(p)
  PROVE  LoadersInv'
<1> DEFINE r == loader[p]
<1>1. kind' = kind /\ Targets' = Targets
  BY KindStays DEF ReadMetadata, files
<1>2. LoaderInv(p) /\ r.step = "metadata"
  BY DEF ReadMetadata, Reads, LoadersInv
<1>3. CASE metadata.state = "valid" /\ metadata.arch = r.arch
  <2>1. loader' = [loader EXCEPT ![p] = [r EXCEPT !.step = "sources", !.seen = metadata]]
    BY <1>3 DEF ReadMetadata
  <2>2. loader'[p] = [step |-> "sources", arch |-> r.arch, seen |-> metadata, bytes |-> r.bytes]
    BY <2>1, <1>2 DEF LoaderInv, LoadersInv
  <2>3. LoaderInv(p)'
    BY <2>2, <1>1, <1>2, <1>3 DEF LoaderInv, MetadataInv, Truthful
  <2> QED BY <2>1, <2>3, <1>1, OneLoader
<1>4. CASE ~(metadata.state = "valid" /\ metadata.arch = r.arch)
  BY <1>1, <1>4, RejectedInv DEF ReadMetadata
<1> QED BY <1>3, <1>4

LEMMA CompareSourcesInv ==
  ASSUME Hashed, LoadersInv, NEW p \in Processes, CompareSources(p)
  PROVE  LoadersInv'
<1> DEFINE r == loader[p]
<1>1. kind' = kind /\ Targets' = Targets
  BY KindStays DEF CompareSources, files
<1>2. LoaderInv(p) /\ r.step = "sources"
  BY DEF CompareSources, Reads, LoadersInv
<1>3. CASE SourcesMatch(p)
  <2>1. loader' = [loader EXCEPT ![p] = [r EXCEPT !.step = "bytes"]]
    BY <1>3 DEF CompareSources
  <2>2. loader'[p] = [step |-> "bytes", arch |-> r.arch, seen |-> r.seen, bytes |-> r.bytes]
    BY <2>1, <1>2 DEF LoaderInv, LoadersInv
  <2>3. LoaderInv(p)'
    BY <2>2, <1>1, <1>2 DEF LoaderInv, Truthful
  <2> QED BY <2>1, <2>3, <1>1, OneLoader
<1>4. CASE ~SourcesMatch(p)
  BY <1>1, <1>4, RejectedInv DEF CompareSources
<1> QED BY <1>3, <1>4

LEMMA CompareBytesInv ==
  ASSUME LoadersInv, NEW p \in Processes, CompareBytes(p)
  PROVE  LoadersInv'
<1> DEFINE r == loader[p]
<1>1. kind' = kind /\ Targets' = Targets
  BY KindStays DEF CompareBytes, files
<1>2. LoaderInv(p) /\ r.step = "bytes"
  BY DEF CompareBytes, Reads, LoadersInv
<1>3. CASE BytesMatch(p)
  <2>1. loader' = [loader EXCEPT ![p] = [r EXCEPT !.step = "load", !.bytes = library]]
    BY <1>3 DEF CompareBytes
  <2>2. loader'[p] = [step |-> "load", arch |-> r.arch, seen |-> r.seen, bytes |-> library]
    BY <2>1, <1>2 DEF LoaderInv, LoadersInv
  <2>3. LoaderInv(p)'
    BY <2>2, <1>1, <1>2, <1>3 DEF LoaderInv, Truthful, BytesMatch
  <2> QED BY <2>1, <2>3, <1>1, OneLoader
<1>4. CASE ~BytesMatch(p)
  BY <1>1, <1>4, RejectedInv DEF CompareBytes
<1> QED BY <1>3, <1>4

\* What is cached names the bytes that were compared, and their device.
LEMMA LoadInv ==
  ASSUME LoadersInv, BuildCacheInv, NEW p \in Processes, Load(p)
  PROVE  LoadersInv' /\ BuildCacheInv'
<1> DEFINE r == loader[p]
           entry == [library |-> library, compared |-> r.seen.version, bytes |-> r.bytes]
<1>1. kind' = kind /\ Targets' = Targets
  BY KindStays DEF Load, files
<1>2. LoadersInv'
  BY <1>1, RejectedInv DEF Load
<1>3. r.arch \in Targets /\ Truthful(r.seen) /\ r.seen.arch = r.arch /\ r.bytes = r.seen.bytes
  BY DEF Load, Reads, LoadersInv, LoaderInv
<1>4. CachedSound(entry, r.arch)
  BY <1>3 DEF CachedSound, Truthful
<1>5. cache' = [cache EXCEPT ![p] = [cache[p] EXCEPT ![r.arch] = entry]]
  BY DEF Load
<1>6. cache' = [q \in Processes |-> [a \in Targets |-> cache'[q][a]]]
  BY <1>5, <1>3 DEF BuildCacheInv
<1>7. ASSUME NEW q \in Processes, NEW a \in Targets PROVE CachedSound(cache'[q][a], a)
  <2>1. CachedSound(cache[q][a], a)
    BY DEF BuildCacheInv
  <2>2. cache'[q][a] = IF q = p /\ a = r.arch THEN entry ELSE cache[q][a]
    BY <1>3, <1>5 DEF BuildCacheInv
  <2> QED BY <1>4, <2>1, <2>2
<1>8. BuildCacheInv'
  BY <1>1, <1>6, <1>7 DEF BuildCacheInv, CachedSound, Unloaded, Nothing, NoHash
<1> QED BY <1>2, <1>8

-----------------------------------------------------------------------------
(* Every step.                                                             *)

\* What a step leaves alone stays sound.
LEMMA PartsKept ==
  ASSUME kind' = kind
  PROVE  /\ SourcesInv /\ UNCHANGED <<source, newest>> => SourcesInv'
         /\ BuildersInv /\ UNCHANGED <<source, builder>> => BuildersInv'
         /\ MetadataInv /\ UNCHANGED metadata => MetadataInv'
         /\ LoadersInv /\ UNCHANGED loader => LoadersInv'
         /\ BuildCacheInv /\ UNCHANGED cache => BuildCacheInv'
<1>1. Targets' = Targets /\ Parts' = Parts
      /\ \A a : SourcesOf(a)' = SourcesOf(a)
  BY KindStays
<1>2. SourcesInv /\ UNCHANGED <<source, newest>> => SourcesInv'
  BY <1>1 DEF SourcesInv
<1>3. BuildersInv /\ UNCHANGED <<source, builder>> => BuildersInv'
  BY <1>1 DEF BuildersInv, BuilderShape, BuilderInv, Hashing, Ordered
<1>4. MetadataInv /\ UNCHANGED metadata => MetadataInv'
  BY DEF MetadataInv, Truthful
<1>5. LoadersInv /\ UNCHANGED loader => LoadersInv'
  BY <1>1 DEF LoadersInv, LoaderInv, Truthful
<1>6. BuildCacheInv /\ UNCHANGED cache => BuildCacheInv'
  BY <1>1 DEF BuildCacheInv, CachedSound, Unloaded, Nothing, NoHash
<1> QED BY <1>2, <1>3, <1>4, <1>5, <1>6

\* A tool of the hashed protocol is never at a step of the other one.
LEMMA OtherProtocol ==
  ASSUME BuildersInv, NEW b \in Builders
  PROVE  ~HashSources(b) /\ ~OpenMetadata(b) /\ ~WriteMetadata(b)
BY DEF BuildersInv, BuilderInv, HashSources, OpenMetadata, WriteMetadata,
       AtStep

LEMMA KindConstant == [BuildNext]_build_vars => kind' = kind
BY DEF BuildNext, build_vars, files, Edit, BeginBuild, Compile,
       Recheck, ReplaceLibrary, RenameMetadata, HashSources,
       OpenMetadata, WriteMetadata, Abandon, CallLoader, ReadMetadata,
       CompareSources, CompareBytes, Load

LEMMA StepInv == BuildIInv /\ [BuildNext]_build_vars => BuildIInv'
<1> SUFFICES ASSUME BuildIInv, [BuildNext]_build_vars, Hashed
             PROVE  SourcesInv' /\ BuildersInv' /\ MetadataInv' /\ LoadersInv' /\ BuildCacheInv'
  BY KindConstant, KindStays DEF BuildIInv
<1>0. kind' = kind
  BY KindConstant
<1>i. SourcesInv /\ BuildersInv /\ MetadataInv /\ LoadersInv /\ BuildCacheInv
  BY DEF BuildIInv
<1>1. ASSUME NEW part \in Parts, Edit(part)
      PROVE  SourcesInv' /\ BuildersInv' /\ MetadataInv' /\ LoadersInv' /\ BuildCacheInv'
  BY <1>0, <1>1, <1>i, EditInv, PartsKept DEF Edit
<1>2. ASSUME NEW b \in Builders, NEW arch \in Targets, BeginBuild(b, arch)
      PROVE  SourcesInv' /\ BuildersInv' /\ MetadataInv' /\ LoadersInv' /\ BuildCacheInv'
  BY <1>0, <1>2, <1>i, BuildBeginInv, PartsKept DEF BeginBuild, files
<1>3. ASSUME NEW b \in Builders, Compile(b)
      PROVE  SourcesInv' /\ BuildersInv' /\ MetadataInv' /\ LoadersInv' /\ BuildCacheInv'
  BY <1>0, <1>3, <1>i, CompileInv, PartsKept DEF Compile, files
<1>4. ASSUME NEW b \in Builders, Recheck(b)
      PROVE  SourcesInv' /\ BuildersInv' /\ MetadataInv' /\ LoadersInv' /\ BuildCacheInv'
  BY <1>0, <1>4, <1>i, RecheckInv, PartsKept DEF Recheck, files
<1>5. ASSUME NEW b \in Builders, ReplaceLibrary(b)
      PROVE  SourcesInv' /\ BuildersInv' /\ MetadataInv' /\ LoadersInv' /\ BuildCacheInv'
  BY <1>0, <1>5, <1>i, ReplaceInv, PartsKept DEF ReplaceLibrary
<1>6. ASSUME NEW b \in Builders, RenameMetadata(b)
      PROVE  SourcesInv' /\ BuildersInv' /\ MetadataInv' /\ LoadersInv' /\ BuildCacheInv'
  BY <1>0, <1>6, <1>i, RenameInv, PartsKept DEF RenameMetadata
<1>7. ASSUME NEW b \in Builders, Abandon(b)
      PROVE  SourcesInv' /\ BuildersInv' /\ MetadataInv' /\ LoadersInv' /\ BuildCacheInv'
  BY <1>0, <1>7, <1>i, IdleInv, PartsKept DEF Abandon, files
<1>8. ASSUME NEW p \in Processes, NEW arch \in Targets, CallLoader(p, arch)
      PROVE  SourcesInv' /\ BuildersInv' /\ MetadataInv' /\ LoadersInv' /\ BuildCacheInv'
  BY <1>0, <1>8, <1>i, CallInv, PartsKept DEF CallLoader, files
<1>9. ASSUME NEW p \in Processes, ReadMetadata(p)
      PROVE  SourcesInv' /\ BuildersInv' /\ MetadataInv' /\ LoadersInv' /\ BuildCacheInv'
  BY <1>0, <1>9, <1>i, ReadMetadataInv, PartsKept DEF ReadMetadata, files
<1>10. ASSUME NEW p \in Processes, CompareSources(p)
       PROVE  SourcesInv' /\ BuildersInv' /\ MetadataInv' /\ LoadersInv' /\ BuildCacheInv'
  BY <1>0, <1>10, <1>i, CompareSourcesInv, PartsKept DEF CompareSources, files
<1>11. ASSUME NEW p \in Processes, CompareBytes(p)
       PROVE  SourcesInv' /\ BuildersInv' /\ MetadataInv' /\ LoadersInv' /\ BuildCacheInv'
  BY <1>0, <1>11, <1>i, CompareBytesInv, PartsKept DEF CompareBytes, files
<1>12. ASSUME NEW p \in Processes, Load(p)
       PROVE  SourcesInv' /\ BuildersInv' /\ MetadataInv' /\ LoadersInv' /\ BuildCacheInv'
  BY <1>0, <1>12, <1>i, LoadInv, PartsKept DEF Load, files
<1>13. CASE UNCHANGED build_vars
  BY <1>0, <1>13, <1>i, PartsKept DEF build_vars
<1>14. CASE BuildNext
  BY <1>1, <1>2, <1>3, <1>4, <1>5, <1>6, <1>7, <1>8, <1>9, <1>10, <1>11, <1>12, <1>14,
     <1>i, OtherProtocol DEF BuildNext
<1> QED BY <1>13, <1>14

-----------------------------------------------------------------------------
(* The promises.                                                           *)

LEMMA CachesMatch == BuildIInv => AcceptedBytesMatch
<1> SUFFICES ASSUME BuildIInv, Hashed, NEW at \in Loaded
             PROVE  /\ CacheEntry(at).bytes.version = CacheEntry(at).compared
                    /\ CacheEntry(at).bytes.arch = at[2]
  BY DEF AcceptedBytesMatch
<1>1. PICK p \in Processes, a \in Targets : at = <<p, a>> /\ cache[p][a] # Unloaded
  BY DEF Loaded, CacheEntry
<1>2. CachedSound(cache[p][a], a)
  BY DEF BuildIInv, BuildCacheInv
<1> QED BY <1>1, <1>2 DEF CachedSound, CacheEntry

LEMMA PairMatches == BuildIInv => HashedPairConsistent
<1> SUFFICES ASSUME BuildIInv, Hashed, NEW a \in Targets, Acceptable(a)
             PROVE  library.version = HashOf(a) /\ library.arch = a
  BY DEF HashedPairConsistent, PairConsistent
<1> QED BY DEF BuildIInv, MetadataInv, Truthful, Acceptable

\* What a process accepts was compiled for its device from the sources it
\* compared: build_moe_gather.py and its copies against their loaders, for any
\* numbers of tools and processes, edited under and killed at any step.
THEOREM AcceptedBytesSafe == BuildSpec => []AcceptedBytesMatch
<1>1. BuildSpec => []BuildIInv
  BY BuildInitInv, StepInv, PTL DEF BuildSpec
<1> QED BY <1>1, CachesMatch, PTL

\* The files that is_available accepts are a build of the current sources for
\* the device, whatever tools left them.
THEOREM HashedPairSafe == BuildSpec => []HashedPairConsistent
<1>1. BuildSpec => []BuildIInv
  BY BuildInitInv, StepInv, PTL DEF BuildSpec
<1> QED BY <1>1, PairMatches, PTL

-----------------------------------------------------------------------------
(***************************************************************************)
(* The other protocol's promise, one tool at a time and no edit while it   *)
(* runs: a build that runs to its end repairs whatever an earlier one,     *)
(* killed at any step, left.  That nothing disturbs the tool is an         *)
(* assumption here, and necessary: the run native_plain_edit shows the     *)
(* promise broken without it.                                              *)
(*                                                                         *)
(* The invariant says what the one running tool has done to the files so   *)
(* far; that a finished build's metadata agree with the library outlives   *)
(* it, until the next one begins.                                          *)
(***************************************************************************)

Undisturbed == ~Hashed /\ kind \notin Disturbed

PlainBuilder(b) ==
  LET r == builder[b]
  IN /\ BuilderShape(b)
     /\ r.step \in {"idle", "compile", "replace", "hash", "open", "write"}
     /\ r.step # "idle" => r.made.arch = r.arch /\ last = "begun"
     /\ r.step \in {"replace", "hash", "open", "write"} => r.made.version = HashOf(r.arch)
     /\ r.step \in {"hash", "open", "write"} => library = r.made
     /\ r.step \in {"open", "write"} => r.hashes = HashOf(r.arch)
Alone ==
  \A b, c \in Builders : builder[b].step # "idle" /\ builder[c].step # "idle" => b = c
PlainBuilders ==
  /\ builder = [b \in Builders |-> builder[b]]
  /\ \A b \in Builders : PlainBuilder(b)
Repaired == last = "finished" => metadata.version = library.version /\ metadata.arch = library.arch

PlainInv == Undisturbed => PlainBuilders /\ Alone /\ Repaired

-----------------------------------------------------------------------------

LEMMA InitPlain == BuildInit => PlainInv
<1> SUFFICES ASSUME BuildInit PROVE PlainBuilders /\ Alone /\ Repaired
  BY DEF PlainInv
<1>1. PlainBuilders
  BY DEF BuildInit, PlainBuilders, PlainBuilder, BuilderShape, IdleBuilder, Nothing
<1>2. Alone
  BY DEF BuildInit, Alone, IdleBuilder
<1>3. Repaired
  BY DEF BuildInit, Repaired
<1> QED BY <1>1, <1>2, <1>3

\* The hash of a target's sources changes only with the sources.
LEMMA HashStays ==
  ASSUME kind' = kind, source' = source
  PROVE  \A arch : HashOf(arch)' = HashOf(arch)
BY KindStays DEF HashOf

\* It is enough to look at the tool that moves: the others are idle.
LEMMA OnePlain ==
  ASSUME PlainBuilders, kind' = kind, NEW b \in Builders, NEW r,
         \A c \in Builders \ {b} : builder[c].step = "idle",
         builder' = [builder EXCEPT ![b] = r],
         PlainBuilder(b)'
  PROVE  PlainBuilders' /\ Alone'
<1>1. builder' = [c \in Builders |-> builder'[c]]
  BY DEF PlainBuilders
<1>2. ASSUME NEW c \in Builders, c # b PROVE PlainBuilder(c)' /\ builder'[c].step = "idle"
  <2>1. builder'[c] = builder[c] /\ PlainBuilder(c) /\ builder[c].step = "idle"
    BY <1>2 DEF PlainBuilders
  <2> QED BY <2>1 DEF PlainBuilder, BuilderShape
<1>3. PlainBuilders'
  BY <1>1, <1>2 DEF PlainBuilders
<1>4. Alone'
  BY <1>2 DEF Alone
<1> QED BY <1>3, <1>4

\* A tool that ends, or is killed, leaves the others as they are.
LEMMA EndPlain ==
  ASSUME PlainBuilders, kind' = kind, NEW b \in Builders,
         \A c \in Builders \ {b} : builder[c].step = "idle",
         builder' = [builder EXCEPT ![b] = IdleBuilder]
  PROVE  PlainBuilders' /\ Alone'
<1>1. PlainBuilder(b)'
  BY DEF PlainBuilder, BuilderShape, IdleBuilder, Nothing, PlainBuilders
<1> QED BY <1>1, OnePlain

-----------------------------------------------------------------------------
(* The steps.                                                              *)

\* What is known of a tool that has begun.
LEMMA Running ==
  ASSUME PlainInv, Undisturbed, NEW b \in Builders, builder[b].step # "idle"
  PROVE  /\ PlainBuilders /\ Alone /\ Repaired /\ PlainBuilder(b) /\ last = "begun"
         /\ \A c \in Builders \ {b} : builder[c].step = "idle"
BY DEF PlainInv, PlainBuilders, PlainBuilder, Alone

LEMMA EditPlain ==
  ASSUME PlainInv, Undisturbed, NEW part \in Parts, Edit(part)
  PROVE  PlainBuilders' /\ Alone' /\ Repaired'
<1>1. Quiet /\ UNCHANGED <<kind, library, metadata, last, builder>>
  BY DEF Edit, Undisturbed
<1>2. PlainBuilders'
  BY <1>1 DEF Quiet, PlainInv, PlainBuilders, PlainBuilder, BuilderShape
<1>3. Alone' /\ Repaired'
  BY <1>1 DEF PlainInv, Alone, Repaired
<1> QED BY <1>2, <1>3

LEMMA BeginPlain ==
  ASSUME PlainInv, Undisturbed, NEW b \in Builders, NEW arch \in Targets, BeginBuild(b, arch)
  PROVE  PlainBuilders' /\ Alone' /\ Repaired'
<1>1. Quiet /\ kind' = kind /\ last' = "begun"
  BY DEF BeginBuild, Undisturbed, files
<1>2. builder'[b] = [step |-> "compile", arch |-> arch, hashes |-> HashOf(arch),
                     made |-> [version |-> NoHash, arch |-> arch, build |-> builds']]
  BY DEF BeginBuild, PlainInv, PlainBuilders
<1>3. PlainBuilder(b)'
  BY <1>1, <1>2 DEF PlainBuilder, BuilderShape
<1>4. PlainBuilders' /\ Alone'
  BY <1>1, <1>3, OnePlain DEF BeginBuild, Quiet, PlainInv
<1>5. Repaired'
  BY <1>1 DEF Repaired
<1> QED BY <1>4, <1>5

LEMMA CompilePlain ==
  ASSUME PlainInv, Undisturbed, NEW b \in Builders, Compile(b)
  PROVE  PlainBuilders' /\ Alone' /\ Repaired'
<1> DEFINE r == builder[b]
<1>1. UNCHANGED <<kind, source, library, metadata, last>> /\ r.step = "compile"
  BY DEF Compile, files, AtStep
<1>2. PlainBuilder(b) /\ last = "begun" /\ PlainBuilders
      /\ \A c \in Builders \ {b} : builder[c].step = "idle"
  BY <1>1, Running
<1>3. builder' = [builder EXCEPT ![b] =
                    [r EXCEPT !.step = "replace", !.made.version = HashOf(r.arch)]]
  BY DEF Compile, Undisturbed
<1>4. builder'[b] = [step |-> "replace", arch |-> r.arch, hashes |-> r.hashes,
                     made |-> [version |-> HashOf(r.arch), arch |-> r.made.arch,
                               build |-> r.made.build]]
  BY <1>2, <1>3 DEF PlainBuilders, PlainBuilder, BuilderShape
<1>5. PlainBuilder(b)'
  <2>1. BuilderShape(b)'
    BY <1>4 DEF BuilderShape
  <2> QED BY <2>1, <1>1, <1>2, <1>4, HashStays DEF PlainBuilder
<1> QED BY <1>1, <1>2, <1>3, <1>5, OnePlain DEF Repaired

LEMMA ReplacePlain ==
  ASSUME PlainInv, Undisturbed, NEW b \in Builders, ReplaceLibrary(b)
  PROVE  PlainBuilders' /\ Alone' /\ Repaired'
<1> DEFINE r == builder[b]
<1>1. UNCHANGED <<kind, source, last>> /\ r.step = "replace" /\ library' = r.made
  BY DEF ReplaceLibrary, AtStep, Installed
<1>2. PlainBuilder(b) /\ last = "begun" /\ PlainBuilders
      /\ \A c \in Builders \ {b} : builder[c].step = "idle"
  BY <1>1, Running
<1>3. builder' = [builder EXCEPT ![b] = [r EXCEPT !.step = "hash"]]
  BY DEF ReplaceLibrary, Goes, Undisturbed
<1>4. builder'[b] = [step |-> "hash", arch |-> r.arch, hashes |-> r.hashes, made |-> r.made]
  BY <1>2, <1>3 DEF PlainBuilders, PlainBuilder, BuilderShape
<1>5. PlainBuilder(b)'
  BY <1>1, <1>2, <1>4, HashStays DEF PlainBuilder, BuilderShape
<1> QED BY <1>1, <1>2, <1>3, <1>5, OnePlain DEF Repaired

LEMMA HashPlain ==
  ASSUME PlainInv, Undisturbed, NEW b \in Builders, HashSources(b)
  PROVE  PlainBuilders' /\ Alone' /\ Repaired'
<1> DEFINE r == builder[b]
<1>1. UNCHANGED <<kind, source, library, last>> /\ r.step = "hash"
  BY DEF HashSources, files, AtStep
<1>2. PlainBuilder(b) /\ last = "begun" /\ PlainBuilders
      /\ \A c \in Builders \ {b} : builder[c].step = "idle"
  BY <1>1, Running
<1>3. builder' = [builder EXCEPT ![b] = [r EXCEPT !.step = "open", !.hashes = HashOf(r.arch)]]
  BY DEF HashSources
<1>4. builder'[b] = [step |-> "open", arch |-> r.arch, hashes |-> HashOf(r.arch), made |-> r.made]
  BY <1>2, <1>3 DEF PlainBuilders, PlainBuilder, BuilderShape
<1>5. PlainBuilder(b)'
  BY <1>1, <1>2, <1>4, HashStays DEF PlainBuilder, BuilderShape
<1> QED BY <1>1, <1>2, <1>3, <1>5, OnePlain DEF Repaired

LEMMA OpenPlain ==
  ASSUME PlainInv, Undisturbed, NEW b \in Builders, OpenMetadata(b)
  PROVE  PlainBuilders' /\ Alone' /\ Repaired'
<1> DEFINE r == builder[b]
<1>1. UNCHANGED <<kind, source, library, last>> /\ r.step = "open"
  BY DEF OpenMetadata, AtStep
<1>2. PlainBuilder(b) /\ last = "begun" /\ PlainBuilders
      /\ \A c \in Builders \ {b} : builder[c].step = "idle"
  BY <1>1, Running
<1>3. builder' = [builder EXCEPT ![b] = [r EXCEPT !.step = "write"]]
  BY DEF OpenMetadata, Goes
<1>4. builder'[b] = [step |-> "write", arch |-> r.arch, hashes |-> r.hashes, made |-> r.made]
  BY <1>2, <1>3 DEF PlainBuilders, PlainBuilder, BuilderShape
<1>5. PlainBuilder(b)'
  BY <1>1, <1>2, <1>4, HashStays DEF PlainBuilder, BuilderShape
<1> QED BY <1>1, <1>2, <1>3, <1>5, OnePlain DEF Repaired

\* The build ends: what it writes agrees with the library it installed.
LEMMA WritePlain ==
  ASSUME PlainInv, Undisturbed, NEW b \in Builders, WriteMetadata(b)
  PROVE  PlainBuilders' /\ Alone' /\ Repaired'
<1> DEFINE r == builder[b]
<1>1. UNCHANGED <<kind, library>> /\ r.step = "write"
      /\ metadata' = Metadata(r.hashes, r.arch, Nothing)
  BY DEF WriteMetadata, AtStep
<1>2. PlainBuilder(b) /\ PlainBuilders /\ \A c \in Builders \ {b} : builder[c].step = "idle"
  BY <1>1, Running
<1>3. PlainBuilders' /\ Alone'
  BY <1>1, <1>2, EndPlain DEF WriteMetadata
<1>4. library.version = r.hashes /\ library.arch = r.arch
  BY <1>1, <1>2 DEF PlainBuilder
<1>5. Repaired'
  BY <1>1, <1>4 DEF Repaired, Metadata
<1> QED BY <1>3, <1>5

LEMMA AbandonPlain ==
  ASSUME PlainInv, Undisturbed, NEW b \in Builders, Abandon(b)
  PROVE  PlainBuilders' /\ Alone' /\ Repaired'
<1>1. builder[b].step # "idle" /\ UNCHANGED <<kind, library, metadata, last>>
      /\ builder' = [builder EXCEPT ![b] = IdleBuilder]
  BY DEF Abandon, AtStep, files
<1>2. PlainBuilders /\ Repaired /\ \A c \in Builders \ {b} : builder[c].step = "idle"
  BY <1>1, Running
<1>3. PlainBuilders' /\ Alone'
  BY <1>1, <1>2, EndPlain
<1> QED BY <1>1, <1>2, <1>3 DEF Repaired

LEMMA StillPlain ==
  ASSUME PlainInv, Undisturbed, UNCHANGED <<kind, source, library, metadata, last, builder>>
  PROVE  PlainBuilders' /\ Alone' /\ Repaired'
<1>1. PlainBuilders /\ Alone /\ Repaired /\ \A arch : HashOf(arch)' = HashOf(arch)
  BY HashStays DEF PlainInv
<1>2. PlainBuilders'
  BY <1>1 DEF PlainBuilders, PlainBuilder, BuilderShape
<1> QED BY <1>1, <1>2 DEF Alone, Repaired

\* The loaders change nothing of this.
LEMMA LoaderStep ==
  ASSUME NEW p \in Processes,
         \/ \E arch \in Targets : CallLoader(p, arch)
         \/ ReadMetadata(p) \/ CompareSources(p) \/ CompareBytes(p)
         \/ Load(p)
  PROVE  UNCHANGED <<kind, source, library, metadata, last, builder>>
BY DEF CallLoader, ReadMetadata, CompareSources, CompareBytes, Load,
       files

LEMMA StepPlain == PlainInv /\ [BuildNext]_build_vars => PlainInv'
<1> SUFFICES ASSUME PlainInv, [BuildNext]_build_vars, Undisturbed
             PROVE  PlainBuilders' /\ Alone' /\ Repaired'
  BY KindConstant, KindStays DEF PlainInv, Undisturbed
<1>1. ASSUME NEW b \in Builders,
             \/ \E arch \in Targets : BeginBuild(b, arch)
             \/ Compile(b) \/ ReplaceLibrary(b) \/ HashSources(b)
             \/ OpenMetadata(b) \/ WriteMetadata(b) \/ Abandon(b)
      PROVE  PlainBuilders' /\ Alone' /\ Repaired'
  BY <1>1, BeginPlain, CompilePlain, ReplacePlain, HashPlain, OpenPlain, WritePlain, AbandonPlain
<1>2. ASSUME NEW b \in Builders PROVE ~Recheck(b) /\ ~RenameMetadata(b)
  BY DEF PlainInv, PlainBuilders, PlainBuilder, Recheck, RenameMetadata, AtStep
<1>3. CASE UNCHANGED build_vars
  BY <1>3, StillPlain DEF build_vars
<1>4. CASE \E part \in Parts : Edit(part)
  BY <1>4, EditPlain
<1>5. CASE \E p \in Processes : \/ \E arch \in Targets : CallLoader(p, arch)
                                \/ ReadMetadata(p) \/ CompareSources(p)
                                \/ CompareBytes(p) \/ Load(p)
  BY <1>5, LoaderStep, StillPlain
<1> QED BY <1>1, <1>2, <1>3, <1>4, <1>5 DEF BuildNext

-----------------------------------------------------------------------------
(* The promise.                                                            *)

LEMMA RepairedPair ==
  ASSUME Disturbed \subseteq {"moe_gather", "moe_fused", "moe_interleaved"}
  PROVE  PlainInv => RebuildRepairs
<1> SUFFICES ASSUME PlainInv, ~Hashed, last = "finished", NEW a \in Targets,
                    Acceptable(a)
             PROVE  library.version = HashOf(a) /\ library.arch = a
  BY DEF RebuildRepairs, PairConsistent
<1>1. Undisturbed
  BY DEF Undisturbed, Hashed
<1> QED BY <1>1 DEF PlainInv, Repaired, Acceptable

\* build_cuda.py and the CUTLASS tools: once a build ran to its end, what the
\* loader accepts is a build of the current sources for the device, whatever
\* killed builds left before it, provided that only one tool runs at a time
\* and nobody edits meanwhile.
THEOREM RebuildRepairsSafe ==
  ASSUME Disturbed \subseteq {"moe_gather", "moe_fused", "moe_interleaved"}
  PROVE  BuildSpec => []RebuildRepairs
<1>1. BuildSpec => []PlainInv
  BY InitPlain, StepPlain, PTL DEF BuildSpec
<1> QED BY <1>1, RepairedPair, PTL
=============================================================================
