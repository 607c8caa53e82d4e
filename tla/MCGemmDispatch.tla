---------------------------- MODULE MCGemmDispatch ----------------------------
(***************************************************************************)
(* Instance of GemmDispatch for TLC, with entries of the measured tables.  *)
(* One thread makes every call below; the other loads the libraries for    *)
(* two other devices in the meantime.                                      *)
(***************************************************************************)
EXTENDS GemmDispatch

CONSTANTS t1, t2

MeasuredAs(selected, cuda, cutlass) ==
  [selected |-> selected, fallback |-> "cuda", cuda |-> cuda, cutlass |-> cutlass]
Square == <<1024, 1024, 1024>>
MCEntries ==
  [key \in {<<"sm_110", Square>>, <<"sm_110", <<256, 1024, 1536>>>>,
            <<"sm_110", <<16384, 16384, 16384>>>>, <<"sm_121", Square>>,
            <<"sm_121", <<256, 1536, 1024>>>>} |->
     CASE key = <<"sm_110", Square>> -> MeasuredAs("cutlass", 27, 32)
       [] key = <<"sm_110", <<256, 1024, 1536>>>> -> MeasuredAs("cuda", 28, 32)
       [] key = <<"sm_110", <<16384, 16384, 16384>>>> -> MeasuredAs("cuda", 29, 32)
       [] key = <<"sm_121", Square>> -> MeasuredAs("cuda", 2, 4)
       [] key = <<"sm_121", <<256, 1536, 1024>>>> -> MeasuredAs("cuda", 5, 5)]
MCCutlassEntries ==
  [shape \in {<<1024, 512, 1536>>, <<1024, 1024, 1536>>} |->
     IF shape = <<1024, 512, 1536>> THEN 15 ELSE 11]

\* The shapes whose dispatch differs on each device; single defects; and
\* the batched functions.
Shapes == {Square, <<1024, 512, 1536>>, <<384, 128, 256>>, <<192, 64, 512>>}
Plain ==
  {Call(b, "sm_121", s) : b \in {"cuda", "cutlass"}, s \in Shapes}
    \cup {Call(b, "sm_110", s) : b \in {"cuda", "cutlass"}, s \in {<<256, 256, 256>>, <<384, 128, 256>>}}
    \cup {Call("cuda", "sm_110", <<192, 64, 512>>), Call("cuda", "sm_120", <<192, 64, 512>>)}
    \cup {Call("auto", "sm_121", s) : s \in {Square, <<256, 1536, 1024>>, <<192, 64, 512>>}}
    \cup {Call("auto", "sm_110", s) : s \in {Square, <<256, 1024, 1536>>, <<16384, 16384, 16384>>}}
Defective ==
  {[Call(b, "sm_110", Square) EXCEPT !.vector = FALSE] : b \in {"auto", "cuda", "cutlass"}}
    \cup {[Call("auto", "sm_110", Square) EXCEPT !.scales = FALSE],
          [Call("auto", "sm_110", Square) EXCEPT !.aligned = FALSE],
          [Call("auto", "sm_121", Square) EXCEPT !.dense = FALSE],
          [Call("auto", "sm_121", Square) EXCEPT !.bf16 = FALSE],
          [Call("cuda", "sm_110", Square) EXCEPT !.group = 128],
          [Call("cutlass", "sm_121", Square) EXCEPT !.sound = FALSE],
          Call("cutlass", "sm_110", <<64, 0, 256>>), Call("cutlass", "sm_110", <<80, 64, 256>>),
          Call("cuda", "sm_80", Square), Call("triton", "sm_75", Square),
          Call("triton", "sm_110", Square)}
Batched ==
  UNION {{c, [c EXCEPT !.vector = FALSE], [c EXCEPT !.id = 3], [c EXCEPT !.arch = "sm_121"]}
         : c \in {[Call("cutlass", "sm_110", <<64, 64, 256>>) EXCEPT
                    !.api = x[1], !.id = x[2], !.experts = 4] : x \in {<<"batched", 33>>, <<"moe", 34>>}}}

MCCallsOf ==
  [t \in {t1, t2} |->
     IF t = t1 THEN Plain \cup Defective \cup Batched
     ELSE {Call("cuda", "sm_120", <<64, 64, 256>>), Call("cutlass", "sm_121", Square)}]
=============================================================================
