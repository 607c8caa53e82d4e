----------------------------- MODULE GemmDispatch -----------------------------
(***************************************************************************)
(* int8_gemm and get_kernel_config, and the launch functions of the two    *)
(* native libraries: which kernel a call gets, while other threads call    *)
(* for other devices and tools install or break the libraries.  A library  *)
(* is looked for twice, when the kernel is chosen and when it is launched; *)
(* _load_library's lru_cache keeps the libraries that loaded.              *)
(***************************************************************************)
EXTENDS Integers, Sequences, SequencesExt

CONSTANTS
  Threads,
  CallsOf,        \* the calls a thread may make
  Describers,     \* threads that ask for a description before some calls
  Entries,        \* measured shapes of thor_sm110_g256 and gb10_sm121_g256
  CutlassEntries, \* CUTLASS configurations of gb10_sm121_g256_cutlass
  Changes         \* bound: how often a library is installed or broken

VARIABLES
  disk,      \* per library: the architecture whose build would be accepted
  loaded,    \* per library: the architectures in the lru_cache, newest first
  changes,
  pc, call,  \* per thread: where it is, and its arguments
  purpose,   \* get_kernel_config called by the user, or by int8_gemm
  promise,   \* what the user was told
  config,    \* the kernel chosen
  outcome    \* how int8_gemm ended, and what ran

threads == <<pc, call, purpose, promise, config, outcome>>
vars == <<disk, loaded, changes, threads>>

SUPPORTED_ARCHITECTURES == {"sm_110", "sm_120", "sm_121"}
Libraries == {"cuda", "cutlass", "cutlass_moe"}
OneDevice(lib) == 1
CacheSize(lib) == IF lib = "cutlass_moe" THEN 1 ELSE 3

\* A call: its backend and the device's architecture; m, n, k; the group size;
\* whether the output is BF16; A and B.T contiguous; A and B 16-byte aligned;
\* both scales given and contiguous; scale_b 16-byte aligned; no other defect;
\* for the batched functions also the experts and the configuration.
Call(backend, arch, shape) ==
  [api |-> "int8_gemm", backend |-> backend, arch |-> arch, shape |-> shape, group |-> 256,
   bf16 |-> TRUE, dense |-> TRUE, aligned |-> TRUE, scales |-> TRUE, vector |-> TRUE,
   sound |-> TRUE, experts |-> 0, id |-> 0]
M(c) == c.shape[1]
N(c) == c.shape[2]
K(c) == c.shape[3]
Multiples(c, tile) == M(c) % tile[1] = 0 /\ N(c) % tile[2] = 0
Empty(c) == M(c) = 0 \/ N(c) = 0 \/ K(c) = 0

\* _validate.
Validated(c) ==
  /\ c.group \in {32, 64, 128, 256}
  /\ c.sound  \* types, layouts, shapes, devices, strides, 32-bit offsets
  /\ c.arch # "sm_75"

\* _native_compatible.
Compatible(c) ==
  /\ c.group = 256 /\ c.bf16 /\ ~Empty(c)
  /\ Multiples(c, <<64, 64>>) /\ K(c) % 256 = 0
  /\ c.dense /\ c.aligned /\ c.scales
Supported(c) == c.arch \in SUPPORTED_ARCHITECTURES /\ Compatible(c)

-----------------------------------------------------------------------------
(* The configurations, and what a launcher makes of one.                   *)

BaseTile(id) == <<<<64, 64>>, <<128, 64>>, <<64, 128>>, <<128, 128>>>>[(id % 8) \div 2 + 1]
ThorTile(id) ==
  <<<<64, 64>>, <<64, 128>>, <<128, 64>>, <<128, 128>>, <<128, 256>>,
    <<64, 64>>, <<64, 128>>, <<128, 64>>, <<128, 128>>,
    <<256, 128>>, <<256, 128>>, <<128, 128>>, <<128, 256>>>>[id - 16]

Configurations(lib, arch) ==
  CASE lib = "cuda" -> IF arch = "sm_110" THEN 0 .. 29 ELSE 0 .. 16
    [] lib = "cutlass" -> IF arch = "sm_110" THEN 0 .. 33 ELSE 0 .. 31
Tile(lib, id) ==
  CASE lib = "cuda" /\ id > 16 -> ThorTile(id)
    [] lib = "cuda" /\ id = 16 -> <<128, 128>>
    [] lib = "cutlass" /\ id > 31 -> <<64, 64>>
    [] OTHER -> BaseTile(id)

\* The specialised kernels hand what they cannot take to configuration 0; the
\* others return an error.
Kernel(backend, id) == [backend |-> backend, id |-> id]
Triton == Kernel("triton", -1)
None == Kernel("none", -1)
Error == Kernel("error", -1)        \* an exception before any launcher
Refused == Kernel("refused", -1)    \* a launcher's error status
FallsBack(lib, id) == (lib = "cuda" /\ id > 25) \/ (lib = "cutlass" /\ id > 31)
ReadsVectors(lib, id) == (lib = "cutlass" /\ id > 31) \/ (lib = "cuda" /\ id \in {26, 27})
Takes(c, lib, id) ==
  /\ Multiples(c, Tile(lib, id))
  /\ ReadsVectors(lib, id) => c.vector
Launched(c, lib, id) ==
  IF Takes(c, lib, id) THEN Kernel(lib, id)
  ELSE IF FallsBack(lib, id) /\ Takes(c, lib, 0) THEN Kernel(lib, 0) ELSE Refused

\* What the tables must satisfy: an entry's configuration exists on its
\* architecture and its tile divides the shape; the CUTLASS table of SM121
\* names GB10's configurations only.
Divides(tile, shape) == shape[1] % tile[1] = 0 /\ shape[2] % tile[2] = 0
TablesFit ==
  /\ \A key \in DOMAIN Entries :
       LET entry == Entries[key]
       IN /\ entry.cuda \in Configurations("cuda", key[1])
          /\ entry.cutlass \in Configurations("cutlass", key[1])
          /\ Divides(Tile("cuda", entry.cuda), key[2])
          /\ Divides(Tile("cutlass", entry.cutlass), key[2])
  /\ \A shape \in DOMAIN CutlassEntries :
       CutlassEntries[shape] \in 0 .. 31 /\ Divides(Tile("cutlass", CutlassEntries[shape]), shape)

\* The calls, with a backend that get_kernel_config knows.
CallSound(c) ==
  /\ c.api \in {"int8_gemm", "batched", "moe"}
  /\ c.backend \in {"auto", "triton", "cuda", "cutlass"}
  /\ c.shape \in Nat \X Nat \X Nat
CallsSound == \A t \in Threads : CallsOf[t] # {} /\ \A c \in CallsOf[t] : CallSound(c)

ASSUME DispatchAssumption == TablesFit /\ CallsSound

-----------------------------------------------------------------------------
(* _load_library.                                                          *)

Cached(lib, arch) == Contains(loaded[lib], arch)
Loadable(lib, arch) == Cached(lib, arch) \/ disk[lib] = arch
NotCached(lib, arch) == loaded[lib]
\* The newest comes first; the oldest goes when there is no room.
Entered(lib, arch) ==
  LET old == loaded[lib]
      last == IF Cached(lib, arch) THEN CHOOSE i \in 1 .. Len(old) : old[i] = arch
              ELSE IF Len(old) < CacheSize(lib) THEN Len(old) + 1 ELSE CacheSize(lib)
      length == IF last > Len(old) THEN last ELSE Len(old)
  IN [i \in 1 .. length |-> IF i = 1 THEN arch ELSE IF i <= last THEN old[i - 1] ELSE old[i]]
\* A failure is not cached.
Look(lib, arch) ==
  loaded' = [loaded EXCEPT ![lib] = IF Loadable(lib, arch) THEN Entered(lib, arch) ELSE @]

-----------------------------------------------------------------------------
(* get_kernel_config.                                                      *)

Measurable(c) ==
  /\ c.arch \in {"sm_110", "sm_121"} /\ c.group = 256 /\ c.bf16
  /\ c.dense /\ K(c) % 256 = 0 /\ M(c) >= 64 /\ N(c) >= 64
Key(c) == <<c.arch, c.shape>>
Measured(c) == Measurable(c) /\ Key(c) \in DOMAIN Entries
Entry(c) == Entries[Key(c)]

WantsCutlass(c) ==
  \/ c.backend = "cutlass"
  \/ c.backend = "auto" /\ c.arch = "sm_110" /\ Measured(c) /\ Entry(c).selected = "cutlass"

CutlassChoice(c) ==
  IF c.arch = "sm_121" /\ c.shape \in DOMAIN CutlassEntries THEN CutlassEntries[c.shape]
  ELSE IF Measured(c) THEN Entry(c).cutlass
  ELSE IF c.arch = "sm_110" THEN 32
  ELSE IF c.arch = "sm_121" /\ Multiples(c, <<128, 128>>) THEN 7 ELSE 0
AnyVector(c) == TRUE
VectorAligned(c) == c.arch # "sm_110" \/ CutlassChoice(c) < 32 \/ c.vector

\* What auto takes when CUTLASS is unavailable.
Fallback(c) == IF WantsCutlass(c) THEN Entry(c).fallback ELSE Entry(c).selected
WantsMeasured(c) == Measured(c) /\ Fallback(c) = "cuda"
WantsCuda(c) ==
  \/ c.backend = "cuda"
  \/ c.backend = "auto" /\ Measured(c) /\ Fallback(c) = "cuda"
CudaChoice(c) ==
  IF Measured(c) THEN Entry(c).cuda
  ELSE IF c.arch = "sm_110"
    THEN IF Multiples(c, <<256, 256>>) THEN 27 ELSE IF Multiples(c, <<128, 128>>) THEN 28 ELSE 17
  ELSE IF c.arch = "sm_121" /\ Multiples(c, <<128, 128>>) THEN 7 ELSE 0

At(t, where) == pc[t] = where
Goto(t, where) == pc' = [pc EXCEPT ![t] = where]

\* The choice goes to the user or to int8_gemm, which launches it.
Chosen(t, kernel) ==
  IF purpose[t] = "describe"
  THEN promise' = [promise EXCEPT ![t] = kernel] /\ Goto(t, "call") /\ UNCHANGED <<config, outcome>>
  ELSE config' = [config EXCEPT ![t] = kernel] /\ Goto(t, "launch") /\ UNCHANGED <<promise, outcome>>
Raised(t) ==
  IF purpose[t] = "describe"
  THEN promise' = [promise EXCEPT ![t] = Error] /\ Goto(t, "call") /\ UNCHANGED <<config, outcome>>
  ELSE outcome' = [outcome EXCEPT ![t] = Error] /\ Goto(t, "ended") /\ UNCHANGED <<config, promise>>
Onward(t) == Goto(t, "cuda") /\ UNCHANGED <<promise, config, outcome>>

\* backend = "cutlass" must get it; auto goes on when it is not there, or when
\* the measured kernel cannot read scale_b in vectors.
TryCutlass(t) ==
  LET c == call[t]
  IN /\ At(t, "cutlass")
     /\ UNCHANGED <<disk, changes, call, purpose>>
     /\ IF ~WantsCutlass(c) THEN Onward(t) /\ UNCHANGED loaded
        ELSE IF ~Supported(c)
          THEN UNCHANGED loaded /\ IF c.backend = "cutlass" THEN Raised(t) ELSE Onward(t)
        ELSE /\ Look("cutlass", c.arch)
             /\ IF ~Loadable("cutlass", c.arch)
                  THEN IF c.backend = "cutlass" THEN Raised(t) ELSE Onward(t)
                ELSE IF VectorAligned(c) THEN Chosen(t, Kernel("cutlass", CutlassChoice(c)))
                ELSE IF c.backend = "cutlass" THEN Chosen(t, Kernel("cutlass", 0))
                ELSE Onward(t)

TryCuda(t) ==
  LET c == call[t]
  IN /\ At(t, "cuda")
     /\ UNCHANGED <<disk, changes, call, purpose>>
     /\ IF ~WantsCuda(c) THEN Chosen(t, Triton) /\ UNCHANGED loaded
        ELSE IF ~Supported(c)
          THEN UNCHANGED loaded /\ IF c.backend = "cuda" THEN Raised(t) ELSE Chosen(t, Triton)
        ELSE /\ Look("cuda", c.arch)
             /\ IF Loadable("cuda", c.arch) THEN Chosen(t, Kernel("cuda", CudaChoice(c)))
                ELSE IF c.backend = "cuda" THEN Raised(t) ELSE Chosen(t, Triton)

-----------------------------------------------------------------------------
(* The calls.                                                              *)

Begin(t) ==
  /\ At(t, "idle")
  /\ \E c \in CallsOf[t], what \in {"describe", "launch"} :
       /\ what = "describe" => t \in Describers /\ c.api = "int8_gemm"
       /\ call' = [call EXCEPT ![t] = c]
       /\ purpose' = [purpose EXCEPT ![t] = what]
       /\ Goto(t, CASE c.api # "int8_gemm" -> c.api
                    [] what = "describe" -> "cutlass"
                    [] OTHER -> "call")
  /\ UNCHANGED <<disk, loaded, changes, promise, config, outcome>>

Ended(t, kernel) ==
  Goto(t, "ended") /\ outcome' = [outcome EXCEPT ![t] = kernel]

\* int8_gemm: an empty problem needs no kernel.
Int8Gemm(t) ==
  /\ At(t, "call")
  /\ purpose' = [purpose EXCEPT ![t] = "launch"]
  /\ IF ~Validated(call[t]) THEN Ended(t, Error)
     ELSE IF Empty(call[t]) THEN Ended(t, Kernel("zeros", -1))
     ELSE Goto(t, "cutlass") /\ UNCHANGED outcome
  /\ UNCHANGED <<disk, loaded, changes, call, promise, config>>

\* launch checks the configuration and loads again.
Launch(t) ==
  LET c == call[t] lib == config[t].backend id == config[t].id
  IN /\ At(t, "launch")
     /\ UNCHANGED <<disk, changes, call, purpose, promise, config>>
     /\ IF lib = "triton" THEN Ended(t, Triton) /\ UNCHANGED loaded
        ELSE IF id \notin Configurations(lib, c.arch) THEN Ended(t, Error) /\ UNCHANGED loaded
        ELSE /\ Look(lib, c.arch)
             /\ Ended(t, IF Loadable(lib, c.arch) THEN Launched(c, lib, id) ELSE Error)

\* cutlass.launch_batched and cutlass_moe.launch: one weight per expert.  Both
\* check what their launcher checks, which has no kernel to fall back to.
BatchedIds(api) == IF api = "batched" THEN {32, 33} ELSE (34 .. 38) \cup (41 .. 47)
Batchable(c) ==
  /\ c.id \in BatchedIds(c.api) /\ c.sound
  /\ c.dense /\ c.experts > 0 /\ ~Empty(c)
  /\ Multiples(c, <<64, 64>>) /\ K(c) % 256 = 0
  /\ c.aligned /\ c.vector /\ c.arch = "sm_110"
BatchRuns(c) ==
  /\ c.experts > 0 /\ ~Empty(c) /\ Multiples(c, <<64, 64>>) /\ K(c) % 256 = 0
  /\ c.aligned /\ c.vector
LaunchBatched(t) ==
  LET c == call[t]
      lib == IF c.api = "batched" THEN "cutlass" ELSE "cutlass_moe"
  IN /\ pc[t] \in {"batched", "moe"}
     /\ UNCHANGED <<disk, changes, call, purpose, promise, config>>
     /\ IF ~Batchable(c) THEN Ended(t, Error) /\ UNCHANGED loaded
        ELSE /\ Look(lib, c.arch)
             /\ Ended(t, IF ~Loadable(lib, c.arch) THEN Error
                         ELSE IF BatchRuns(c) THEN Kernel(lib, c.id) ELSE Refused)

\* The caller makes another call.
First(t) == CHOOSE c \in CallsOf[t] : TRUE
Again(t) ==
  /\ At(t, "ended") /\ Goto(t, "idle")
  /\ call' = [call EXCEPT ![t] = First(t)] /\ purpose' = [purpose EXCEPT ![t] = "launch"]
  /\ promise' = [promise EXCEPT ![t] = None] /\ config' = [config EXCEPT ![t] = None]
  /\ outcome' = [outcome EXCEPT ![t] = None]
  /\ UNCHANGED <<disk, loaded, changes>>

-----------------------------------------------------------------------------
(* The tools: a build for an architecture replaces the library; an edit of *)
(* the sources or a deleted file makes it unacceptable.                    *)

Install(lib, arch) ==
  /\ changes < Changes /\ disk[lib] # arch
  /\ lib = "cutlass_moe" => arch = "sm_110"
  /\ changes' = changes + 1 /\ disk' = [disk EXCEPT ![lib] = arch]
  /\ UNCHANGED <<loaded, threads>>

Break(lib) ==
  /\ changes < Changes /\ disk[lib] # "none"
  /\ changes' = changes + 1 /\ disk' = [disk EXCEPT ![lib] = "none"]
  /\ UNCHANGED <<loaded, threads>>

Init ==
  /\ disk = [lib \in Libraries |-> "none"] /\ loaded = [lib \in Libraries |-> <<>>]
  /\ changes = 0
  /\ pc = [t \in Threads |-> "idle"]
  /\ call = [t \in Threads |-> First(t)]
  /\ purpose = [t \in Threads |-> "launch"]
  /\ promise = [t \in Threads |-> None] /\ config = [t \in Threads |-> None]
  /\ outcome = [t \in Threads |-> None]

Next ==
  \/ \E t \in Threads : \/ Begin(t) \/ TryCutlass(t) \/ TryCuda(t) \/ Int8Gemm(t)
                        \/ Launch(t) \/ LaunchBatched(t) \/ Again(t)
  \/ \E lib \in Libraries : Break(lib) \/ \E arch \in SUPPORTED_ARCHITECTURES : Install(lib, arch)

Spec == Init /\ [][Next]_vars

-----------------------------------------------------------------------------
(* Correctness.                                                            *)

Native == {"cuda", "cutlass"}

\* get_kernel_config looks at scale_b's alignment for CUTLASS only.  The two-SM
\* kernels of CUDA need it too, and hand such a call to configuration 0.
HandedOver(c, kernel) ==
  kernel.backend = "cuda" /\ ReadsVectors(kernel.backend, kernel.id) /\ ~c.vector
Executed(c, kernel) == IF HandedOver(c, kernel) THEN Kernel("cuda", 0) ELSE kernel

\* The kernel that get_kernel_config names is the one that runs: no launcher
\* refuses a call, and none quietly runs configuration 0 in its kernel's place
\* but the two-SM ones, for an offset scale_b.  Python's conditions, the tables
\* and the launchers' are written apart.
LaunchSupported ==
  \A t \in Threads :
    /\ outcome[t] # Refused
    /\ At(t, "launch") /\ config[t].backend \in Native =>
         Launched(call[t], config[t].backend, config[t].id) = Executed(call[t], config[t])

\* A library found when the kernel was chosen is found again when it is
\* launched, although tools may have replaced or broken it in between and
\* other threads load it for other devices: auto never fails.
LibraryStays ==
  \A t \in Threads :
    /\ At(t, "launch") /\ config[t].backend \in Native =>
         Loadable(config[t].backend, call[t].arch)
    /\ outcome[t] = Error /\ call[t].api = "int8_gemm" /\ Validated(call[t]) =>
         call[t].backend \in Native

\* An explicit backend runs or raises; it is never replaced by another.
ExplicitHonoured ==
  \A t \in Threads :
    call[t].backend # "auto" /\ call[t].api = "int8_gemm" =>
      outcome[t].backend \in {call[t].backend, "none", "zeros", "error"}

\* A call runs what its description named, an offset scale_b handed over by the
\* two-SM kernels apart, or something preferred to it that was installed since;
\* a library breaking in between changes nothing.
Preference(kernel) ==
  CASE kernel.backend = "cutlass" -> 2 [] kernel.backend = "cuda" -> 1 [] OTHER -> 0
DescriptionHolds ==
  \A t \in Threads :
    LET c == call[t] runs == outcome[t]
    IN At(t, "ended") /\ promise[t].backend \in Native /\ Validated(c) =>
         \/ runs = Executed(c, promise[t])
         \/ (c.backend = "auto" /\ Preference(runs) > Preference(promise[t]))
===============================================================================
