------------------------------ MODULE Mbarrier ------------------------------
(***************************************************************************)
(* The shared-memory transaction barrier (mbarrier) the CUDA kernels build *)
(* their rings from.  A phase completes when no arrival is missing and the *)
(* transaction count is back at zero; the missing arrivals are then        *)
(* reloaded.  "done" counts the completed phases: the hardware keeps only  *)
(* its low bit, so a waiter never sees more of it than Passes shows.       *)
(***************************************************************************)
EXTENDS Integers

\* Every value a barrier built for a positive number of arrivals may hold.
BarrierType == [count : Nat, left : Int, tx : Int, done : Nat]

Barrier(count, left, tx, done) ==
  [count |-> count, left |-> left, tx |-> tx, done |-> done]

NewBarrier(count) == Barrier(count, count, 0, 0)

\* The phase change, taken with the operation that makes it possible.
Settle(count, left, tx, done) ==
  IF left = 0 /\ tx = 0
    THEN Barrier(count, count, 0, done + 1)
    ELSE Barrier(count, left, tx, done)

Arrive(b) == Settle(b.count, b.left - 1, b.tx, b.done)

\* arrive.expect_tx: one arrival that also announces n transactions.
ArriveExpectTx(b, n) == Settle(b.count, b.left - 1, b.tx + n, b.done)

\* A transaction of an asynchronous copy; it may precede its announcement.
CompleteTx(b, n) == Settle(b.count, b.left, b.tx - n, b.done)

\* try_wait.parity: the phase with this parity is over.
Passes(b, parity) == b.done % 2 # parity
=============================================================================
