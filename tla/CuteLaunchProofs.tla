--------------------------- MODULE CuteLaunchProofs ---------------------------
(***************************************************************************)
(* Proofs about one launch of grain_cute_g256, whichever kernel it runs,   *)
(* for any number of groups, warps, lanes, copy threads and MMA steps.     *)
(* The invariants of the specialised kernels are those of their own proof  *)
(* modules; the one of the cp.async kernel is here.                        *)
(***************************************************************************)
EXTENDS CuteLaunch, FiniteSetTheorems, SequenceTheorems, TLAPS

-----------------------------------------------------------------------------
(* The invariant of the cp.async kernel.  A copy of a thread is named by   *)
(* its number: copy c of every thread has the tile c, or the last tile     *)
(* once c is past it, and goes to stage c % Stages.                        *)

Bit(b) == IF b THEN 1 ELSE 0

\* Before the first __syncthreads, after the loop, and in a tile.
Begins == {"prologue", "first", "first sync"}
Ends == {"drained", "stage", "staged", "store", "done"}
Body == {"load", "copy", "gemm", "wait", "sync"}
\* A thread that stores from its registers leaves the loop for good.
Directs == {"direct", "exited"}
Steps == Begins \cup Ends \cup Body \cup Directs \cup {"fill", "top", "drain"}
InLoop(t) == pc[t] \in Body

\* The tile whose operands a thread is reading: the next one as soon as its
\* fragments come from the next stage.  Threads differ in steps but never in
\* rounds, of which the epilogue has two more.
Late(t) == pc[t] \in {"load", "gemm"} /\ block[t] = CpAsync!LastBlock
Lap(t) == IF pc[t] \in Begins THEN -1 ELSE processed[t] + Bit(Late(t))
Round(t) ==
  IF pc[t] \in {"stage", "staged"} THEN tiles + 1
  ELSE IF pc[t] \in {"store", "done"} THEN tiles + 2 ELSE Lap(t)

\* Whether a thread has issued the copy of its present tile; the copies it has
\* issued and those it has waited for.
HasCopied(t) ==
  \/ pc[t] \in {"first", "first sync", "wait", "sync"}
  \/ pc[t] = "load" /\ block[t] > 0 /\ block[t] < CpAsync!LastBlock
  \/ pc[t] = "gemm" /\ block[t] < CpAsync!LastBlock
Copied(t) == tiles - count[t]
Waited(t) == Copied(t) - Len(pending[t])
Tile(c) == IF c < tiles THEN c ELSE tiles - 1

\* Where a thread is: step, MMA step of the tile and tile.
ControlOf(t) ==
  /\ pc[t] \in Steps /\ block[t] \in 0 .. CpAsync!LastBlock /\ processed[t] \in 0 .. tiles
  /\ pc[t] = "copy" => block[t] = 0
  /\ pc[t] \in {"wait", "sync"} => block[t] = CpAsync!LastBlock
  /\ pc[t] \in Begins \cup {"fill"} => processed[t] = 0 /\ block[t] = 0
  /\ InLoop(t) => processed[t] < tiles
  /\ pc[t] \in Ends \cup Directs \cup {"drain"} => processed[t] = tiles

\* Its copies are Stages - 1 ahead of its lap, its waits at most one, and the
\* three cursors are these counts modulo Stages.
PlaceOf(t) ==
  /\ count[t] \in Int /\ Copied(t) >= 0
  /\ IF pc[t] = "prologue" THEN Copied(t) <= CpAsync!Stages - 1
     ELSE Copied(t) = CpAsync!Stages - 1 + Lap(t) + Bit(HasCopied(t))
  /\ Waited(t) = IF pc[t] \in Ends THEN Copied(t)
                 ELSE Lap(t) + 1 + Bit(pc[t] \in {"first sync", "sync"})
  /\ write[t] = Copied(t) % CpAsync!Stages
  /\ read[t] = IF pc[t] = "prologue" THEN 0 ELSE (Copied(t) + 1) % CpAsync!Stages
  /\ slice[t] = IF pc[t] \in Begins THEN 0 ELSE (Lap(t) + Bit(pc[t] = "sync")) % CpAsync!Stages

\* Its pending groups are the copies not waited for, in order, and until the
\* epilogue every stage holds its last copy, Garbage until that has landed.
BufferOf(t) ==
  /\ next[t] = Tile(Copied(t))
  /\ \A j \in 1 .. Len(pending[t]) :
       /\ pending[t][j].pipe = (Waited(t) + j - 1) % CpAsync!Stages
       /\ pending[t][j].tile = Tile(Waited(t) + j - 1)
  /\ Round(t) <= tiles =>
       \A c \in Copied(t) - CpAsync!Stages .. Copied(t) - 1 : c >= 0 =>
         shared[c % CpAsync!Stages][t] = IF c >= Waited(t) /\ ~pending[t][c - Waited(t) + 1].landed
                                 THEN CpAsync!Garbage ELSE Tile(c)

\* The first n MMA steps of group g.
Terms(g, n) == [j \in 1 .. n |-> <<2 * g + ((j - 1) \div KBlocks), ((j - 1) % KBlocks)>>]
InTile(t) == IF InLoop(t) THEN block[t] ELSE 0

\* The accumulator has the steps of the present group so far, the fragments
\* about to be multiplied are of the present tile, and so are the scales.
RegisterOf(t) ==
  /\ products[t] = Terms(CpAsync!GroupOf(processed[t]), ((processed[t] % 2) * KBlocks) + InTile(t))
  /\ sum[t] = CpAsync!InOrder(CpAsync!GroupOf(processed[t]))
  /\ InLoop(t) => fragment[t][block[t]] = <<processed[t], block[t]>>
  /\ pc[t] \in {"copy", "gemm"} /\ block[t] < CpAsync!LastBlock =>
       fragment[t][block[t] + 1] = <<processed[t], block[t] + 1>>
  /\ (pc[t] = "top" \/ (pc[t] = "gemm" /\ block[t] = CpAsync!LastBlock)) /\ Lap(t) < tiles =>
       fragment[t][0] = <<Lap(t), 0>>
  /\ InLoop(t) /\ (CpAsync!AsyncScale => processed[t] % 2 = 1) => scales[t] = CpAsync!GroupOf(processed[t])
  /\ pc[t] = "top" /\ ~CpAsync!AsyncScale /\ processed[t] % 2 = 1 => scales[t] = CpAsync!GroupOf(processed[t])

\* What the epilogue staged and read back has every group in order.
EpilogueOf(t) ==
  /\ pc[t] \in {"staged", "store", "done"} => exchange[t] = CpAsync!InOrder(CpAsync!GroupOf(tiles))
  /\ output[t] \in {{}, {CpAsync!InOrder(CpAsync!GroupOf(tiles))}}

Shares == {CpAsync!Garbage, CpAsync!Staged} \cup 0 .. tiles - 1
Pending == [pipe : CpAsync!Pipes, tile : 0 .. tiles - 1, landed : BOOLEAN]
Types ==
  /\ kernel \in Instances /\ tiles \in TileCounts
  /\ shared \in [CpAsync!Pipes -> [CopyThreads -> Shares]]
  /\ pending \in [CopyThreads -> Seq(Pending)]
  /\ fragment \in [CopyThreads -> [0 .. CpAsync!LastBlock -> Int \X Int]]
  /\ DOMAIN pc = CopyThreads /\ DOMAIN block = CopyThreads /\ DOMAIN count = CopyThreads
  /\ DOMAIN next = CopyThreads /\ DOMAIN read = CopyThreads /\ DOMAIN write = CopyThreads
  /\ DOMAIN slice = CopyThreads /\ DOMAIN products = CopyThreads /\ DOMAIN scales = CopyThreads
  /\ DOMAIN processed = CopyThreads /\ DOMAIN sum = CopyThreads
  /\ DOMAIN exchange = CopyThreads /\ DOMAIN output = CopyThreads

ThreadInv(t) == ControlOf(t) /\ PlaceOf(t) /\ BufferOf(t) /\ RegisterOf(t) /\ EpilogueOf(t)

\* No thread is a round ahead: __syncthreads separates rounds.
Together == \A t, u \in CopyThreads : Round(t) = Round(u)
LoopInv == Types /\ (\A t \in CopyThreads : ThreadInv(t)) /\ Together

-----------------------------------------------------------------------------
(* Two or three stages, and one thread at a time.                          *)

\* One turn of the ring.
LEMMA Turn ==
  ASSUME NEW n \in {2, 3}, NEW x \in Int
  PROVE  /\ x % n \in 0 .. n - 1 /\ (x + n) % n = x % n
         /\ (x + 1) % n = IF x % n = n - 1 THEN 0 ELSE (x % n) + 1
         /\ x \in 0 .. n - 1 => x % n = x
<1>1. CASE n = 2
  BY <1>1
<1>2. CASE n = 3
  BY <1>2
<1> QED BY <1>1, <1>2

\* Copies less than a turn apart are in different stages.
LEMMA Apart ==
  ASSUME NEW n \in {2, 3}, NEW x \in Int, NEW y \in Int, x < y, y < x + n
  PROVE  x % n # y % n
<1>1. CASE n = 2
  BY <1>1
<1>2. CASE n = 3
  BY <1>2
<1> QED BY <1>1, <1>2

\* What the assumption says of the launched instantiation.
Sized ==
  /\ CpAsync!Stages \in {2, 3} /\ CpAsync!AsyncScale \in BOOLEAN /\ tiles \in Nat \ {0}
  /\ tiles % 2 = 0
  /\ KBlocks \in Nat \ {0, 1} /\ CpAsync!LastBlock \in Nat \ {0}
  /\ CpAsync!LastBlock = KBlocks - 1
  /\ CpAsync!Pipes = 0 .. CpAsync!Stages - 1 /\ CopyThreads # {} /\ IsFiniteSet(CopyThreads)

LEMMA Sizes ==
  ASSUME CpAsync!ShapeAssumption, Types
  PROVE  Sized
<1>1. kernel \in [stages : {2, 3}, async : BOOLEAN, bits : {16, 32, 128}] /\ tiles \in Nat \ {0} /\ tiles % 2 = 0
  BY DEF CpAsync!ShapeAssumption, Types
<1>2. KBlocks \in Nat \ {0, 1} /\ CopyThreads # {} /\ IsFiniteSet(CopyThreads)
  BY DEF CpAsync!ShapeAssumption, CpAsync!IsFiniteSet, IsFiniteSet
<1> QED BY <1>1, <1>2
     DEF Sized, CpAsync!Stages, CpAsync!AsyncScale, CpAsync!LastBlock, CpAsync!Pipes

\* A step of another thread leaves everything of u alone.
Kept(u) ==
  /\ pc'[u] = pc[u] /\ block'[u] = block[u] /\ count'[u] = count[u] /\ next'[u] = next[u]
  /\ read'[u] = read[u] /\ write'[u] = write[u] /\ slice'[u] = slice[u]
  /\ fragment'[u] = fragment[u] /\ products'[u] = products[u] /\ scales'[u] = scales[u]
  /\ processed'[u] = processed[u] /\ sum'[u] = sum[u]
  /\ exchange'[u] = exchange[u] /\ output'[u] = output[u] /\ pending'[u] = pending[u]
  /\ Round(u) <= tiles => \A k \in CpAsync!Pipes : shared'[k][u] = shared[k][u]

LEMMA PipeOf ==
  ASSUME Sized, NEW c \in Int
  PROVE  c % CpAsync!Stages \in CpAsync!Pipes
BY Turn DEF Sized

LEMMA CopiedNat ==
  ASSUME Sized, NEW t, PlaceOf(t)
  PROVE  Copied(t) \in Nat /\ count[t] \in Int /\ count[t] = tiles - Copied(t)
<1>1. count[t] \in Int /\ Copied(t) >= 0
  BY DEF PlaceOf
<1>2. tiles \in Nat
  BY DEF Sized
<1>3. Copied(t) = tiles - count[t]
  BY DEF Copied
<1> QED BY ONLY <1>1, <1>2, <1>3

\* A thread that nothing has moved keeps its part of the invariant.
LEMMA KeptThread ==
  ASSUME Sized, NEW u \in CopyThreads, ThreadInv(u), Kept(u), UNCHANGED CpAsync!call
  PROVE  ThreadInv(u)' /\ Round(u)' = Round(u)
<1>1. /\ tiles' = tiles /\ CpAsync!Stages' = CpAsync!Stages
      /\ CpAsync!AsyncScale' = CpAsync!AsyncScale
  BY DEF CpAsync!call, CpAsync!Stages, CpAsync!AsyncScale
<1>2. /\ Lap(u)' = Lap(u) /\ Round(u)' = Round(u) /\ (HasCopied(u)' <=> HasCopied(u))
      /\ Copied(u)' = Copied(u) /\ Waited(u)' = Waited(u) /\ InTile(u)' = InTile(u)
      /\ (InLoop(u)' <=> InLoop(u)) /\ \A c : Tile(c)' = Tile(c)
  BY <1>1 DEF Kept, Lap, Late, Round, HasCopied, Copied, Waited, InTile, InLoop, Tile
<1>3. ControlOf(u)'
  BY <1>1, <1>2 DEF ThreadInv, Kept, ControlOf
<1>4. PlaceOf(u)'
  BY <1>1, <1>2 DEF ThreadInv, Kept, PlaceOf, Bit
<1>5. BufferOf(u)'
  <2>1. next'[u] = Tile(Copied(u))
    BY <1>2 DEF ThreadInv, Kept, BufferOf
  <2>2. \A c \in Int : c % CpAsync!Stages \in CpAsync!Pipes
    BY PipeOf
  <2>3. PlaceOf(u) /\ BufferOf(u) /\ pending'[u] = pending[u]
    BY DEF ThreadInv, Kept
  <2>4. Copied(u) \in Int
    BY ONLY Sized, <2>3, CopiedNat
  <2>5. \A j \in 1 .. Len(pending'[u]) :
          /\ pending'[u][j].pipe = (Waited(u) + j - 1) % CpAsync!Stages
          /\ pending'[u][j].tile = Tile(Waited(u) + j - 1)
    BY ONLY <2>3 DEF BufferOf
  <2>6. ASSUME Round(u) <= tiles, NEW c \in Copied(u) - CpAsync!Stages .. Copied(u) - 1, c >= 0
        PROVE  shared'[c % CpAsync!Stages][u] =
                 IF c >= Waited(u) /\ ~pending'[u][c - Waited(u) + 1].landed
                 THEN CpAsync!Garbage ELSE Tile(c)
    <3>1. c \in Int
      BY ONLY <2>4, Sized, <2>6 DEF Sized
    <3>2. shared'[c % CpAsync!Stages][u] = shared[c % CpAsync!Stages][u]
      BY <2>2, <2>6, <3>1 DEF Kept
    <3>3. shared[c % CpAsync!Stages][u] =
             IF c >= Waited(u) /\ ~pending[u][c - Waited(u) + 1].landed THEN CpAsync!Garbage ELSE Tile(c)
      BY ONLY <2>3, <2>6 DEF BufferOf
    <3> QED BY ONLY <2>3, <3>2, <3>3
  <2> QED BY ONLY <1>1, <1>2, <2>1, <2>5, <2>6 DEF BufferOf
<1>6. RegisterOf(u)'
  BY <1>1, <1>2 DEF ThreadInv, Kept, RegisterOf
<1>7. EpilogueOf(u)'
  BY <1>1 DEF ThreadInv, Kept, EpilogueOf
<1> QED BY <1>2, <1>3, <1>4, <1>5, <1>6, <1>7 DEF ThreadInv

\* A step of one thread.
LEMMA OneStep ==
  ASSUME Sized, LoopInv, UNCHANGED CpAsync!call, NEW t \in CopyThreads, Types',
         ThreadInv(t)', Round(t)' = Round(t), \A u \in CopyThreads \ {t} : Kept(u)
  PROVE  LoopInv'
<1>1. \A u \in CopyThreads : ThreadInv(u)' /\ Round(u)' = Round(u)
  BY KeptThread DEF LoopInv
<1>2. Together'
  BY <1>1 DEF LoopInv, Together
<1> QED BY <1>1, <1>2 DEF LoopInv

-----------------------------------------------------------------------------
\* What a stage holds of thread t, by the number of the copy.
InWindow(t, c) == c \in Copied(t) - CpAsync!Stages .. Copied(t) - 1 /\ c >= 0
Holds(t, c) == shared[c % CpAsync!Stages][t] = IF c >= Waited(t) /\ ~pending[t][c - Waited(t) + 1].landed
                                       THEN CpAsync!Garbage ELSE Tile(c)
CopyAt(t, j) ==
  /\ pending[t][j].pipe = (Waited(t) + j - 1) % CpAsync!Stages
  /\ pending[t][j].tile = Tile(Waited(t) + j - 1)

\* BufferOf, and BufferOf of the next state, by these names.
LEMMA BufferParts ==
  ASSUME NEW t
  PROVE  BufferOf(t) <=> /\ next[t] = Tile(Copied(t))
                         /\ \A j \in 1 .. Len(pending[t]) : CopyAt(t, j)
                         /\ Round(t) <= tiles => \A c : InWindow(t, c) => Holds(t, c)
BY DEF BufferOf, InWindow, Holds, CopyAt

LEMMA BufferPartsNext ==
  ASSUME NEW t
  PROVE  BufferOf(t)' <=> /\ next'[t] = Tile(Copied(t))'
                          /\ \A j \in 1 .. Len(pending'[t]) : CopyAt(t, j)'
                          /\ (Round(t) <= tiles)' => \A c : InWindow(t, c)' => Holds(t, c)'
BY DEF BufferOf, InWindow, Holds, CopyAt

LEMMA TileType ==
  ASSUME Sized, NEW c \in Int
  PROVE  Tile(c) \in Int /\ (c >= 0 => Tile(c) \in 0 .. tiles - 1)
BY DEF Sized, Tile

\* A copy goes to the stage of the copy Stages before it, which the thread
\* has waited for, and leaves the others alone.
LEMMA CopyStep ==
  ASSUME Sized, Types, NEW t \in CopyThreads, PlaceOf(t), BufferOf(t), Waited(t) \in Nat,
         Copied(t) < Waited(t) + CpAsync!Stages, Waited(t) <= Copied(t),
         UNCHANGED CpAsync!call, CpAsync!Copy(t, write[t]), (Round(t) <= tiles)' => Round(t) <= tiles
  PROVE  /\ BufferOf(t)' /\ Copied(t)' = Copied(t) + 1 /\ Waited(t)' = Waited(t)
         /\ count'[t] = count[t] - 1
         /\ shared' \in [CpAsync!Pipes -> [CopyThreads -> Shares]]'
         /\ pending' \in [CopyThreads -> Seq(Pending)]'
         /\ DOMAIN count' = CopyThreads /\ DOMAIN next' = CopyThreads
         /\ \A u \in CopyThreads \ {t} :
              /\ count'[u] = count[u] /\ next'[u] = next[u] /\ pending'[u] = pending[u]
              /\ \A k \in CpAsync!Pipes : shared'[k][u] = shared[k][u]
<1> DEFINE item == [pipe |-> write[t], tile |-> next[t], landed |-> FALSE]
<1>1. /\ shared' = [shared EXCEPT ![write[t]][t] = CpAsync!Garbage]
      /\ pending' = [pending EXCEPT ![t] = Append(@, item)]
      /\ count' = [count EXCEPT ![t] = @ - 1]
      /\ next' = [next EXCEPT ![t] = IF count[t] - 1 > 0 THEN next[t] + 1 ELSE next[t]]
      /\ tiles' = tiles /\ CpAsync!Stages' = CpAsync!Stages /\ CpAsync!Pipes' = CpAsync!Pipes
      /\ Shares' = Shares
      /\ Pending' = Pending /\ \A c : Tile(c)' = Tile(c)
  BY DEF CpAsync!Copy, CpAsync!Advanced, CpAsync!call, CpAsync!Stages, CpAsync!Pipes, Shares,
       Pending, Tile
<1>2. PICK c : c = Copied(t)
  OBVIOUS
<1>3. /\ c \in Nat /\ count[t] \in Int /\ count[t] = tiles - c /\ tiles \in Nat
      /\ CpAsync!Stages \in {2, 3}
  BY <1>2, CopiedNat DEF Sized
<1>4. write[t] = c % CpAsync!Stages /\ write[t] \in CpAsync!Pipes
  <2>1. write[t] = c % CpAsync!Stages
    BY <1>2 DEF PlaceOf
  <2> QED BY <1>3, <2>1, PipeOf
<1>5. /\ shared \in [CpAsync!Pipes -> [CopyThreads -> Shares]]
      /\ pending \in [CopyThreads -> Seq(Pending)]
      /\ DOMAIN count = CopyThreads /\ DOMAIN next = CopyThreads
  BY DEF Types
<1>6. /\ count'[t] = count[t] - 1 /\ DOMAIN count' = CopyThreads /\ DOMAIN next' = CopyThreads
      /\ next'[t] = IF count[t] - 1 > 0 THEN next[t] + 1 ELSE next[t]
      /\ \A u \in CopyThreads \ {t} : count'[u] = count[u] /\ next'[u] = next[u]
  BY <1>1, <1>5
<1>7. next[t] = Tile(c) /\ next[t] \in 0 .. tiles - 1
  <2>1. next[t] = Tile(c)
    BY <1>2 DEF BufferOf
  <2>2. Tile(c) \in 0 .. tiles - 1
    BY <1>3, TileType
  <2> QED BY <2>1, <2>2
<1>8. item \in Pending
  BY <1>4, <1>7 DEF Pending
<1>9. PICK s : s = pending[t]
  OBVIOUS
<1>10. /\ s \in Seq(Pending) /\ Len(s) \in Nat /\ Append(s, item) \in Seq(Pending)
       /\ Len(Append(s, item)) = Len(s) + 1 /\ Append(s, item)[Len(s) + 1] = item
       /\ \A j \in 1 .. Len(s) : Append(s, item)[j] = s[j]
  <2>1. s \in Seq(Pending)
    BY <1>5, <1>9
  <2> HIDE DEF item
  <2> QED BY ONLY <2>1, <1>8
<1>11. pending'[t] = Append(s, item) /\ \A u \in CopyThreads \ {t} : pending'[u] = pending[u]
  BY <1>1, <1>5, <1>9
<1>12. pending' \in [CopyThreads -> Seq(Pending)]
  BY <1>1, <1>5, <1>9, <1>10, <1>11
<1>13. /\ shared' \in [CpAsync!Pipes -> [CopyThreads -> Shares]]
       /\ \A k \in CpAsync!Pipes, u \in CopyThreads :
            shared'[k][u] = IF k = write[t] /\ u = t THEN CpAsync!Garbage ELSE shared[k][u]
  <2>1. shared' = [shared EXCEPT ![write[t]] = [@ EXCEPT ![t] = CpAsync!Garbage]]
    BY <1>1
  <2>2. CpAsync!Garbage \in Shares
    BY DEF Shares
  <2> QED BY ONLY <1>4, <1>5, <2>1, <2>2, t \in CopyThreads
<1>14. Copied(t)' = c + 1
  BY <1>1, <1>3, <1>6 DEF Copied
<1>15. Waited(t)' = Waited(t) /\ Waited(t) = c - Len(s)
  BY <1>2, <1>3, <1>9, <1>10, <1>11, <1>14 DEF Waited
<1>16. next'[t] = Tile(c + 1)
  BY <1>3, <1>6, <1>7 DEF Tile
<1>17. PICK v : v = Waited(t)
  OBVIOUS
<1>18. v \in Nat /\ c < v + CpAsync!Stages /\ v = c - Len(s) /\ v <= c
  BY <1>2, <1>15, <1>17
<1>19. ASSUME NEW j \in 1 .. Len(pending'[t])
       PROVE  CopyAt(t, j)'
  <2>1. CASE j \in 1 .. Len(s)
    <3>1. pending'[t][j] = pending[t][j] /\ CopyAt(t, j)
      BY <1>9, <1>10, <1>11, <2>1 DEF BufferOf, CopyAt
    <3> QED BY <1>1, <1>15, <3>1 DEF CopyAt
  <2>2. CASE j \notin 1 .. Len(s)
    <3>1. j = Len(s) + 1
      BY <1>10, <1>11, <2>2
    <3>2. pending'[t][j] = item /\ v + j - 1 = c
      BY <1>10, <1>11, <1>18, <1>3, <3>1
    <3>3. pending'[t][j].pipe = c % CpAsync!Stages /\ pending'[t][j].tile = Tile(c)
      BY <1>4, <1>7, <3>2
    <3>4. (Waited(t) + j - 1)' = c
      BY <1>15, <1>17, <3>2
    <3> QED BY <1>1, <3>3, <3>4 DEF CopyAt
  <2> QED BY <2>1, <2>2
<1>20. ASSUME Round(t) <= tiles, NEW d, InWindow(t, d)'
       PROVE  Holds(t, d)'
  <2>1. d \in c + 1 - CpAsync!Stages .. c /\ d >= 0 /\ d \in Int
    BY <1>1, <1>3, <1>14, <1>20 DEF InWindow
  <2>2. d % CpAsync!Stages \in CpAsync!Pipes
    BY <2>1, PipeOf
  <2>3. CASE d = c
    <3>1. shared'[d % CpAsync!Stages][t] = CpAsync!Garbage
      BY <1>4, <1>13, <2>3
    <3>2. d >= v /\ d - v + 1 = Len(s) + 1
      BY <1>3, <1>10, <1>18, <2>3
    <3>3. ~pending'[t][d - v + 1].landed
      BY <1>10, <1>11, <3>2
    <3> QED BY <1>1, <1>15, <1>17, <3>1, <3>2, <3>3 DEF Holds
  <2>4. CASE d # c
    <3>1. d < c /\ c < d + CpAsync!Stages
      BY <1>3, <2>1, <2>4
    <3>2. d % CpAsync!Stages # c % CpAsync!Stages
      BY <1>3, <2>1, <3>1, Apart
    <3>3. shared'[d % CpAsync!Stages][t] = shared[d % CpAsync!Stages][t]
      BY <1>4, <1>13, <2>2, <3>2
    <3>4. Holds(t, d)
      <4>1. InWindow(t, d)
        BY <1>2, <1>3, <2>1, <3>1 DEF InWindow
      <4> QED BY <1>20, <4>1, BufferParts
    <3>5. d >= v => pending'[t][d - v + 1] = pending[t][d - v + 1]
      <4>1. d >= v => d - v + 1 \in 1 .. Len(s)
        BY <1>3, <1>18, <1>10, <2>1, <3>1
      <4> QED BY <1>9, <1>10, <1>11, <4>1
    <3> QED BY <1>1, <1>15, <1>17, <3>3, <3>4, <3>5 DEF Holds
  <2> QED BY <2>3, <2>4
<1>21. BufferOf(t)'
  <2>1. next'[t] = Tile(Copied(t))'
    BY <1>1, <1>14, <1>16 DEF Tile
  <2>2. \A j \in 1 .. Len(pending'[t]) : CopyAt(t, j)'
    BY <1>19
  <2>3. (Round(t) <= tiles)' => \A d : InWindow(t, d)' => Holds(t, d)'
    BY <1>20
  <2> QED BY ONLY <2>1, <2>2, <2>3, BufferPartsNext
<1> QED BY <1>1, <1>2, <1>6, <1>11, <1>12, <1>13, <1>14, <1>15, <1>21

\* A wait leaves the n youngest copies and drops the older, which have landed.
LEMMA WaitStep ==
  ASSUME Sized, Types, NEW t \in CopyThreads, PlaceOf(t), BufferOf(t), Waited(t) \in Nat,
         NEW n \in Nat, n <= Len(pending[t]), CpAsync!Wait(t, n), UNCHANGED CpAsync!call,
         count'[t] = count[t], next'[t] = next[t], shared' = shared,
         (Round(t) <= tiles)' => Round(t) <= tiles
  PROVE  /\ BufferOf(t)' /\ Copied(t)' = Copied(t) /\ Waited(t)' = Copied(t) - n
         /\ pending' \in [CopyThreads -> Seq(Pending)]' /\ Len(pending'[t]) = n
         /\ \A u \in CopyThreads \ {t} : pending'[u] = pending[u]
<1>1. PICK s, l : s = pending[t] /\ l = Len(pending[t]) - n
  OBVIOUS
<1>2. /\ s \in Seq(Pending) /\ Len(s) \in Nat /\ l \in Nat /\ l = Len(s) - n
      /\ pending \in [CopyThreads -> Seq(Pending)]
  BY <1>1 DEF Types
<1>3. CpAsync!Older(t, n) = 1 .. l
  <2>1. PICK m : m = Len(s)
    OBVIOUS
  <2>2. DOMAIN s = 1 .. m /\ m \in Nat /\ l \in Nat /\ l = m - n
    BY ONLY <1>2, <2>1
  <2>3. CpAsync!Older(t, n) = {j \in 1 .. m : j <= m - n}
    BY ONLY <1>1, <2>1, <2>2 DEF CpAsync!Older
  <2> QED BY ONLY <2>2, <2>3, n \in Nat
<1>4. Cardinality(CpAsync!Older(t, n)) = l
  <2>1. l \in Nat
    BY ONLY <1>2
  <2>2. Cardinality(1 .. l) = IF 1 <= l THEN l - 1 + 1 ELSE 0
    BY ONLY <2>1, 1 \in Int, l \in Int, FS_Interval
  <2> QED BY ONLY <1>3, <2>1, <2>2
<1>5. pending' = [pending EXCEPT ![t] = SubSeq(s, l + 1, Len(s))]
  <2>1. \A S : CpAsync!Cardinality(S) = Cardinality(S)
    BY DEF CpAsync!Cardinality, Cardinality, CpAsync!IsFiniteSet, IsFiniteSet
  <2> QED BY <1>1, <1>4, <2>1 DEF CpAsync!Wait
<1>6. PICK r : r = SubSeq(s, l + 1, Len(s))
  OBVIOUS
<1>7. /\ r \in Seq(Pending) /\ Len(r) = n /\ \A j \in 1 .. n : r[j] = s[l + j]
  <2>1. l + 1 \in Int /\ Len(s) \in Int /\ \A i \in l + 1 .. Len(s) : s[i] \in Pending
    BY <1>2
  <2>2. /\ r \in Seq(Pending)
        /\ Len(r) = IF l + 1 <= Len(s) THEN Len(s) - (l + 1) + 1 ELSE 0
        /\ \A i \in 1 .. Len(s) - (l + 1) + 1 : r[i] = s[l + 1 + i - 1]
    BY ONLY <2>1, <1>6, SubSeqProperties
  <2>3. \A i \in 1 .. n : l + 1 + i - 1 = l + i /\ i \in 1 .. Len(s) - (l + 1) + 1
    BY <1>2
  <2> QED BY <1>2, <2>2, <2>3
<1>8. /\ pending'[t] = r /\ pending' \in [CopyThreads -> Seq(Pending)]
      /\ \A u \in CopyThreads \ {t} : pending'[u] = pending[u]
  BY <1>2, <1>5, <1>6, <1>7
<1>9. /\ tiles' = tiles /\ CpAsync!Stages' = CpAsync!Stages /\ Pending' = Pending
      /\ \A d : Tile(d)' = Tile(d)
      /\ Copied(t)' = Copied(t)
  BY DEF CpAsync!call, CpAsync!Stages, CpAsync!Pipes, Pending, Tile, Copied
<1>10. PICK c, v : c = Copied(t) /\ v = Waited(t)
  OBVIOUS
<1>11. /\ c \in Nat /\ v \in Nat /\ v = c - Len(s) /\ c - n = v + l
       /\ CpAsync!Stages \in {2, 3} /\ Waited(t)' = c - n
  <2>1. c \in Nat /\ v \in Nat /\ v = c - Len(s) /\ CpAsync!Stages \in {2, 3}
    BY <1>1, <1>10, CopiedNat DEF Waited, Sized
  <2>2. Waited(t)' = c - n
    BY ONLY <1>7, <1>8, <1>9, <1>10 DEF Waited
  <2>3. c - n = v + l
    <3>1. PICK m : m = Len(s)
      OBVIOUS
    <3>2. m \in Nat /\ n \in Int /\ l = m - n /\ v = c - m /\ c \in Int
      BY ONLY <1>2, <2>1, <3>1, n \in Nat
    <3> QED BY ONLY <3>2
  <2> QED BY ONLY <2>1, <2>2, <2>3
<1>12. \A j \in 1 .. l : s[j].landed
  BY <1>1, <1>3 DEF CpAsync!Wait
<1>13. ASSUME NEW j \in 1 .. Len(pending'[t])
       PROVE  CopyAt(t, j)'
  <2>1. j \in 1 .. n /\ l + j \in 1 .. Len(s) /\ pending'[t][j] = s[l + j]
    BY <1>2, <1>7, <1>8
  <2>2. CopyAt(t, l + j)
    BY <1>1, <2>1, BufferParts
  <2>3. v + (l + j) - 1 = (Waited(t) + j - 1)'
    <3>1. Waited(t)' + j - 1 = v + l + j - 1
      BY ONLY <1>11
    <3>2. j \in Nat /\ l \in Nat /\ v \in Int
      BY ONLY <1>2, <1>11, <2>1, n \in Nat
    <3>3. v + (l + j) - 1 = v + l + j - 1
      BY ONLY <3>2
    <3> QED BY ONLY <3>1, <3>3
  <2>4. /\ s[l + j].pipe = (v + (l + j) - 1) % CpAsync!Stages
        /\ s[l + j].tile = Tile(v + (l + j) - 1)
    BY <1>1, <1>10, <2>2 DEF CopyAt
  <2> QED BY <1>9, <2>1, <2>3, <2>4 DEF CopyAt
<1>14. ASSUME Round(t) <= tiles, NEW d, InWindow(t, d)'
       PROVE  Holds(t, d)'
  <2>1. InWindow(t, d) /\ d \in Int /\ d < c
    BY <1>9, <1>10, <1>11, <1>14 DEF InWindow
  <2>2. Holds(t, d)
    BY <1>14, <2>1, BufferParts
  <2>3. CASE d < v
    <3>1. ~(d >= v) /\ ~(d >= c - n)
      BY <1>11, <1>2, <2>1, <2>3
    <3> QED BY <1>9, <1>10, <1>11, <2>2, <3>1 DEF Holds
  <2>4. CASE d >= v /\ d < c - n
    <3>1. d - v + 1 \in 1 .. l
      <4>1. PICK z : z = c - n
        OBVIOUS
      <4>2. z = v + l /\ d < z /\ d >= v /\ v \in Nat /\ l \in Nat /\ d \in Int
        BY ONLY <1>11, <1>2, <2>1, <2>4, <4>1
      <4> QED BY ONLY <4>2
    <3>2. pending[t][d - v + 1].landed
      BY <1>1, <1>12, <3>1
    <3>3. ~(d >= c - n)
      BY <1>11, <1>2, <2>1, <2>4
    <3> QED BY <1>9, <1>10, <1>11, <2>2, <3>2, <3>3 DEF Holds
  <2>5. CASE d >= c - n
    <3>1. d - (c - n) + 1 \in 1 .. n /\ l + (d - (c - n) + 1) = d - v + 1 /\ d >= v
      <4>1. /\ c - n = v + l /\ c \in Nat /\ v \in Nat /\ l \in Nat /\ d \in Int /\ d < c
            /\ d >= c - n
        BY ONLY <1>11, <1>2, <2>1, <2>5
      <4> QED BY ONLY <4>1, n \in Nat
    <3>2. pending'[t][d - (c - n) + 1] = pending[t][d - v + 1]
      BY <1>1, <1>7, <1>8, <3>1
    <3> QED BY <1>9, <1>10, <1>11, <2>2, <2>5, <3>1, <3>2 DEF Holds
  <2> QED BY <1>11, <1>2, <2>1, <2>3, <2>4, <2>5
<1>15. BufferOf(t)'
  <2>1. next'[t] = Tile(Copied(t))'
    <3>1. next[t] = Tile(Copied(t))
      BY BufferParts
    <3> QED BY <1>9, <3>1 DEF Tile
  <2>2. \A j \in 1 .. Len(pending'[t]) : CopyAt(t, j)'
    BY <1>13
  <2>3. (Round(t) <= tiles)' => \A d : InWindow(t, d)' => Holds(t, d)'
    BY <1>14
  <2> QED BY ONLY <2>1, <2>2, <2>3, BufferPartsNext
<1> QED BY <1>7, <1>8, <1>9, <1>10, <1>11, <1>15

\* A copy that lands, in any order, fills its own stage only.
LEMMA LandStep ==
  ASSUME Sized, Types, NEW t \in CopyThreads, PlaceOf(t), BufferOf(t), Waited(t) \in Nat,
         Copied(t) <= Waited(t) + CpAsync!Stages, NEW i \in DOMAIN pending[t], CpAsync!Land(t, i)
  PROVE  /\ BufferOf(t)' /\ Copied(t)' = Copied(t) /\ Waited(t)' = Waited(t)
         /\ shared' \in [CpAsync!Pipes -> [CopyThreads -> Shares]]'
         /\ pending' \in [CopyThreads -> Seq(Pending)]'
         /\ \A u \in CopyThreads \ {t} :
              /\ pending'[u] = pending[u] /\ \A k \in CpAsync!Pipes : shared'[k][u] = shared[k][u]
<1> DEFINE item == pending[t][i]
<1>1. /\ shared' = [shared EXCEPT ![item.pipe][t] = item.tile]
      /\ pending' = [pending EXCEPT ![t][i].landed = TRUE]
      /\ UNCHANGED <<kernel, tiles, pc, block, processed, count, next>>
  BY DEF CpAsync!Land, CpAsync!call, CpAsync!source, CpAsync!results
<1>2. /\ tiles' = tiles /\ CpAsync!Stages' = CpAsync!Stages /\ CpAsync!Pipes' = CpAsync!Pipes
      /\ Shares' = Shares
      /\ Pending' = Pending /\ \A d : Tile(d)' = Tile(d)
      /\ Copied(t)' = Copied(t) /\ Round(t)' = Round(t)
  BY <1>1 DEF CpAsync!Stages, CpAsync!Pipes, Shares, Pending, Tile, Copied, Round, Lap, Late
<1>3. /\ shared \in [CpAsync!Pipes -> [CopyThreads -> Shares]]
      /\ pending \in [CopyThreads -> Seq(Pending)]
      /\ pending[t] \in Seq(Pending) /\ i \in 1 .. Len(pending[t]) /\ Len(pending[t]) \in Nat
      /\ item \in Pending
  BY DEF Types
<1>4. PICK x : x = item
  OBVIOUS
<1>5. /\ x \in Pending /\ x.pipe \in CpAsync!Pipes /\ x.tile \in Shares
      /\ x.pipe = (Waited(t) + i - 1) % CpAsync!Stages /\ x.tile = Tile(Waited(t) + i - 1)
  <2>1. CopyAt(t, i)
    BY <1>3, BufferParts
  <2> QED BY <1>3, <1>4, <2>1 DEF CopyAt, Pending, Shares
<1>6. PICK s : s = [pending[t] EXCEPT ![i] = [x EXCEPT !.landed = TRUE]]
  OBVIOUS
<1>7. pending' = [pending EXCEPT ![t] = s]
  BY <1>1, <1>4, <1>6
<1>8. /\ s \in Seq(Pending) /\ Len(s) = Len(pending[t])
      /\ \A j \in 1 .. Len(s) : s[j] = IF j = i THEN [x EXCEPT !.landed = TRUE] ELSE pending[t][j]
  <2>1. [x EXCEPT !.landed = TRUE] \in Pending
    BY <1>5 DEF Pending
  <2> HIDE DEF item
  <2> QED BY <1>3, <1>6, <2>1
<1>9. /\ pending'[t] = s /\ pending' \in [CopyThreads -> Seq(Pending)]
      /\ \A u \in CopyThreads \ {t} : pending'[u] = pending[u]
  BY <1>3, <1>7, <1>8
<1>10. /\ shared' \in [CpAsync!Pipes -> [CopyThreads -> Shares]]
       /\ \A k \in CpAsync!Pipes, u \in CopyThreads :
            shared'[k][u] = IF k = x.pipe /\ u = t THEN x.tile ELSE shared[k][u]
  <2>1. shared' = [shared EXCEPT ![x.pipe] = [@ EXCEPT ![t] = x.tile]]
    BY <1>1, <1>4
  <2> QED BY ONLY <1>3, <1>5, <2>1, t \in CopyThreads
<1>11. PICK c, v : c = Copied(t) /\ v = Waited(t)
  OBVIOUS
<1>12. /\ c \in Nat /\ v \in Nat /\ v = c - Len(s) /\ c <= v + CpAsync!Stages
       /\ CpAsync!Stages \in {2, 3} /\ Waited(t)' = v
  BY <1>2, <1>3, <1>8, <1>9, <1>11, CopiedNat DEF Waited, Sized
<1>13. ASSUME NEW j \in 1 .. Len(pending'[t])
       PROVE  CopyAt(t, j)'
  <2>1. CopyAt(t, j)
    BY <1>8, <1>9, BufferParts
  <2>2. pending'[t][j].pipe = pending[t][j].pipe /\ pending'[t][j].tile = pending[t][j].tile
    BY <1>4, <1>5, <1>8, <1>9 DEF Pending
  <2> QED BY <1>2, <1>11, <1>12, <2>1, <2>2 DEF CopyAt
<1>14. ASSUME Round(t) <= tiles, NEW d, InWindow(t, d)'
       PROVE  Holds(t, d)'
  <2>1. /\ InWindow(t, d) /\ d \in Int /\ d < c /\ d >= c - CpAsync!Stages
        /\ d % CpAsync!Stages \in CpAsync!Pipes
    <3>1. InWindow(t, d) /\ d \in Int /\ d < c /\ d >= c - CpAsync!Stages
      BY <1>2, <1>11, <1>12, <1>14 DEF InWindow
    <3> QED BY <3>1, PipeOf
  <2>2. Holds(t, d)
    BY <1>14, <2>1, BufferParts
  <2>3. CASE d = v + i - 1
    <3>1. shared'[d % CpAsync!Stages][t] = Tile(d)
      BY <1>5, <1>10, <1>11, <2>1, <2>3
    <3>2. d - v + 1 = i /\ pending'[t][i].landed
      <4>1. d - v + 1 = i
        BY <1>12, <1>3, <2>3
      <4>2. s[i] = [x EXCEPT !.landed = TRUE]
        BY <1>3, <1>8
      <4>3. s[i].landed = TRUE
        BY <1>5, <4>2 DEF Pending
      <4> QED BY <1>9, <4>1, <4>3
    <3> QED BY <1>2, <1>11, <1>12, <3>1, <3>2 DEF Holds
  <2>4. CASE d # v + i - 1
    <3>1. d % CpAsync!Stages # x.pipe
      <4>1. v + i - 1 \in Int /\ v + i - 1 < c /\ v + i - 1 >= c - CpAsync!Stages
        BY <1>3, <1>8, <1>12
      <4>2. d < v + i - 1 \/ v + i - 1 < d
        BY <2>1, <2>4, <4>1
      <4>3. d < v + i - 1 + CpAsync!Stages /\ v + i - 1 < d + CpAsync!Stages
        <5>1. PICK n, e : n = CpAsync!Stages /\ e = v + i - 1
          OBVIOUS
        <5>2. n \in Int /\ c \in Int /\ d \in c - n .. c - 1 /\ e \in Int /\ e < c /\ e >= c - n
          BY <1>12, <2>1, <4>1, <5>1
        <5>3. d < e + n /\ e < d + n
          BY ONLY <5>2
        <5> QED BY ONLY <5>1, <5>3
      <4> QED BY <1>5, <1>11, <1>12, <2>1, <4>1, <4>2, <4>3, Apart
    <3>2. shared'[d % CpAsync!Stages][t] = shared[d % CpAsync!Stages][t]
      BY <1>10, <2>1, <3>1
    <3>3. d >= v => pending'[t][d - v + 1] = pending[t][d - v + 1]
      <4>1. d >= v => d - v + 1 \in 1 .. Len(s) /\ d - v + 1 # i
        <5>1. PICK m : m = Len(s)
          OBVIOUS
        <5>2. /\ m \in Nat /\ v \in Nat /\ c \in Nat /\ v = c - m /\ i \in 1 .. m /\ d \in Int
              /\ d < c /\ d # v + i - 1
          BY ONLY <1>3, <1>8, <1>12, <2>1, <2>4, <5>1
        <5> QED BY ONLY <5>1, <5>2
      <4> QED BY <1>8, <1>9, <4>1
    <3> QED BY <1>2, <1>11, <1>12, <2>2, <3>2, <3>3 DEF Holds
  <2> QED BY <2>3, <2>4
<1>15. BufferOf(t)'
  <2>1. next'[t] = Tile(Copied(t))'
    <3>1. next[t] = Tile(Copied(t))
      BY BufferParts
    <3> QED BY <1>1, <1>2, <3>1 DEF Tile
  <2>2. \A j \in 1 .. Len(pending'[t]) : CopyAt(t, j)'
    BY <1>13
  <2>3. (Round(t) <= tiles)' => \A d : InWindow(t, d)' => Holds(t, d)'
    BY <1>2, <1>14
  <2> QED BY ONLY <2>1, <2>2, <2>3, BufferPartsNext
<1> QED BY <1>2, <1>4, <1>9, <1>10, <1>11, <1>12, <1>15

\* A step without copies keeps the stages as they are.
LEMMA BufferSame ==
  ASSUME NEW t \in CopyThreads, BufferOf(t), UNCHANGED CpAsync!call, Sized, PlaceOf(t),
         count'[t] = count[t], next'[t] = next[t], pending'[t] = pending[t],
         (Round(t) <= tiles)' => Round(t) <= tiles,
         (Round(t) <= tiles)' => \A k \in CpAsync!Pipes : shared'[k][t] = shared[k][t]
  PROVE  BufferOf(t)' /\ Copied(t)' = Copied(t) /\ Waited(t)' = Waited(t)
<1>1. /\ tiles' = tiles /\ CpAsync!Stages' = CpAsync!Stages /\ \A d : Tile(d)' = Tile(d)
      /\ Copied(t)' = Copied(t) /\ Waited(t)' = Waited(t)
  BY DEF CpAsync!call, CpAsync!Stages, Tile, Copied, Waited
<1>2. next'[t] = Tile(Copied(t))'
  <2>1. next[t] = Tile(Copied(t))
    BY BufferParts
  <2> QED BY <1>1, <2>1 DEF Tile
<1>3. ASSUME NEW j \in 1 .. Len(pending'[t]) PROVE CopyAt(t, j)'
  <2>1. CopyAt(t, j)
    BY BufferParts
  <2> QED BY <1>1, <2>1 DEF CopyAt
<1>4. ASSUME (Round(t) <= tiles)', NEW d, InWindow(t, d)' PROVE Holds(t, d)'
  <2>1. Copied(t) \in Nat /\ CpAsync!Stages \in {2, 3}
    BY CopiedNat DEF Sized
  <2>2. InWindow(t, d) /\ d \in Int
    BY <1>1, <1>4, <2>1 DEF InWindow
  <2>3. d % CpAsync!Stages \in CpAsync!Pipes
    BY <2>2, PipeOf
  <2>4. Holds(t, d)
    BY <1>4, <2>2, BufferParts
  <2> QED BY <1>1, <1>4, <2>3, <2>4 DEF Holds
<1> QED BY ONLY <1>1, <1>2, <1>3, <1>4, BufferPartsNext

\* A function on 1 .. n + 1 is its restriction to 1 .. n and one term.
LEMMA Appended ==
  \A n \in Nat : \A F : F = [j \in 1 .. n + 1 |-> F[j]]
    => Append([j \in 1 .. n |-> F[j]], F[n + 1]) = F
<1> SUFFICES ASSUME NEW n \in Nat, NEW F, F = [j \in 1 .. n + 1 |-> F[j]]
             PROVE  Append([j \in 1 .. n |-> F[j]], F[n + 1]) = F
  OBVIOUS
<1>1. PICK s : s = [j \in 1 .. n |-> F[j]]
  OBVIOUS
<1>2. PICK S : S = {F[j] : j \in 1 .. n + 1}
  OBVIOUS
<1>3. s \in Seq(S) /\ Len(s) = n
  <2>1. \A j \in 1 .. n : F[j] \in S
    BY ONLY <1>2, n \in Nat
  <2>2. s \in [1 .. n -> S]
    BY ONLY <1>1, <2>1
  <2> QED BY ONLY <2>2, n \in Nat
<1>4. Append(s, F[n + 1]) = [j \in 1 .. n + 1 |-> IF j <= n THEN s[j] ELSE F[n + 1]]
  BY ONLY <1>3, n \in Nat
<1>5. \A j \in 1 .. n + 1 : (IF j <= n THEN s[j] ELSE F[n + 1]) = F[j]
  BY <1>1
<1> QED BY <1>1, <1>4, <1>5

-----------------------------------------------------------------------------
\* Where a step of the loop is in a group, by its number there.
LEMMA StepOf ==
  ASSUME NEW k \in Nat \ {0}, NEW q \in {0, 1}, NEW b \in 0 .. k - 1
  PROVE  ((q * k) + b) \div k = q /\ ((q * k) + b) % k = b
<1>1. b \div k = 0 /\ b % k = b
  OBVIOUS
<1>2. (k + b) \div k = 1 /\ (k + b) % k = b
  OBVIOUS
<1>3. CASE q = 0
  BY ONLY <1>1, <1>3, k \in Nat, b \in Int
<1>4. CASE q = 1
  BY ONLY <1>2, <1>4, k \in Nat, b \in Int
<1> QED BY <1>3, <1>4

\* The MMA of step b of tile p adds the group's next term.
LEMMA TermsNext ==
  ASSUME Sized, NEW p \in Nat, NEW b \in 0 .. CpAsync!LastBlock
  PROVE  Append(Terms(CpAsync!GroupOf(p), ((p % 2) * KBlocks) + b), <<p, b>>)
           = Terms(CpAsync!GroupOf(p), ((p % 2) * KBlocks) + b + 1)
<1>1. PICK q, g : q = p % 2 /\ g = p \div 2
  OBVIOUS
<1>2. q \in {0, 1} /\ g \in Nat /\ (2 * g) + q = p /\ CpAsync!GroupOf(p) = g
  BY <1>1 DEF CpAsync!GroupOf
<1>3. KBlocks \in Nat \ {0} /\ b \in 0 .. KBlocks - 1
  BY DEF Sized
<1>4. PICK n : n = (q * KBlocks) + b
  OBVIOUS
<1>5. n \in Nat /\ n \div KBlocks = q /\ n % KBlocks = b
  <2>1. n \in Nat
    BY ONLY <1>2, <1>3, <1>4
  <2> QED BY ONLY <1>2, <1>3, <1>4, <2>1, StepOf
<1>6. PICK F : F = [j \in 1 .. n + 1 |-> <<2 * g + ((j - 1) \div KBlocks), ((j - 1) % KBlocks)>>]
  OBVIOUS
<1>7. F[n + 1] = <<p, b>>
  <2>1. F[n + 1] = <<2 * g + ((n + 1 - 1) \div KBlocks), ((n + 1 - 1) % KBlocks)>>
    BY ONLY <1>5, <1>6
  <2>2. n + 1 - 1 = n
    BY <1>5
  <2> QED BY ONLY <1>2, <1>5, <2>1, <2>2
<1>8. Terms(g, n) = [j \in 1 .. n |-> F[j]] /\ Terms(g, n + 1) = F
  BY ONLY <1>5, <1>6 DEF Terms
<1>9. Append([j \in 1 .. n |-> F[j]], F[n + 1]) = F
  <2>1. DOMAIN F = 1 .. n + 1 /\ F = [j \in 1 .. n + 1 |-> F[j]]
    BY <1>6
  <2> QED BY ONLY <1>5, <2>1, Appended
<1> QED BY ONLY <1>1, <1>2, <1>4, <1>7, <1>8, <1>9

LEMMA TermsZero == \A g : Terms(g, 0) = <<>>
BY DEF Terms

\* A promotion adds the next group.
LEMMA OrderNext ==
  ASSUME NEW n \in Nat
  PROVE  Append(CpAsync!InOrder(n), n) = CpAsync!InOrder(n + 1)
<1>1. PICK F : F = [g \in 1 .. n + 1 |-> g - 1]
  OBVIOUS
<1>2. DOMAIN F = 1 .. n + 1 /\ F = [j \in 1 .. n + 1 |-> F[j]] /\ F[n + 1] = n
  BY <1>1
<1>3. CpAsync!InOrder(n) = [j \in 1 .. n |-> F[j]] /\ CpAsync!InOrder(n + 1) = F
  BY <1>1 DEF CpAsync!InOrder
<1> QED BY ONLY <1>2, <1>3, Appended

-----------------------------------------------------------------------------
\* What a step of thread t may start from.
Facts(t) ==
  /\ Sized /\ Types /\ ControlOf(t) /\ PlaceOf(t) /\ BufferOf(t) /\ RegisterOf(t) /\ EpilogueOf(t)
  /\ Copied(t) \in Nat /\ count[t] \in Int /\ count[t] = tiles - Copied(t)
  /\ Waited(t) \in Nat /\ Len(pending[t]) \in Nat /\ Len(pending[t]) = Copied(t) - Waited(t)
  /\ Lap(t) \in Int /\ processed[t] \in Nat /\ block[t] \in Nat

LEMMA FactsHold ==
  ASSUME CpAsync!ShapeAssumption, LoopInv, NEW t \in CopyThreads
  PROVE  Facts(t)
<1>1. /\ Types /\ ControlOf(t) /\ PlaceOf(t) /\ BufferOf(t) /\ RegisterOf(t) /\ EpilogueOf(t)
  BY DEF LoopInv, ThreadInv
<1>2. Sized
  BY ONLY CpAsync!ShapeAssumption, <1>1, Sizes
<1>3. Copied(t) \in Nat /\ count[t] \in Int /\ count[t] = tiles - Copied(t)
  BY ONLY <1>1, <1>2, CopiedNat
<1>4. processed[t] \in Nat /\ block[t] \in Nat
  BY ONLY <1>1, <1>2 DEF ControlOf, Sized
<1>5. Lap(t) \in Int /\ (pc[t] \notin Begins => Lap(t) >= 0) /\ (pc[t] \in Begins => Lap(t) = -1)
  BY ONLY <1>4 DEF Lap, Bit
<1>6. Waited(t) \in Nat
  <2>1. PICK c, l, b : c = Copied(t) /\ l = Lap(t) /\ b = Bit(pc[t] \in {"first sync", "sync"})
    OBVIOUS
  <2>2. Waited(t) = IF pc[t] \in Ends THEN c ELSE l + 1 + b
    BY ONLY <1>1, <2>1 DEF PlaceOf
  <2>3. b \in {0, 1} /\ c \in Nat /\ l \in Int /\ l >= -1
    <3>1. b \in {0, 1}
      BY ONLY <2>1 DEF Bit
    <3>2. l \in Int /\ l >= -1
      <4>1. l \in Int /\ (l >= 0 \/ l = -1)
        BY ONLY <1>5, <2>1
      <4> QED BY ONLY <4>1
    <3> QED BY ONLY <1>3, <2>1, <3>1, <3>2
  <2> QED BY ONLY <2>2, <2>3
<1>7. Len(pending[t]) \in Nat
  BY ONLY <1>1, t \in CopyThreads DEF Types
<1>8. Len(pending[t]) = Copied(t) - Waited(t)
  BY ONLY <1>3, <1>7 DEF Waited
<1> QED BY ONLY <1>1, <1>2, <1>3, <1>4, <1>5, <1>6, <1>7, <1>8 DEF Facts

\* All threads have the tile of their common lap in its stage.
LEMMA ShareOf ==
  ASSUME CpAsync!ShapeAssumption, LoopInv, NEW t \in CopyThreads, pc[t] \notin Begins \cup Ends
  PROVE  \A u \in CopyThreads : shared[Lap(t) % CpAsync!Stages][u] = Tile(Lap(t))
<1>1. Facts(t) /\ Round(t) = Lap(t) /\ Lap(t) >= 0 /\ Lap(t) <= tiles
  <2>1. Facts(t)
    BY FactsHold
  <2>2. Round(t) = Lap(t)
    BY DEF Round, Begins, Ends
  <2>3. Lap(t) >= 0 /\ Lap(t) <= tiles
    <3>1. processed[t] \in 0 .. tiles /\ (InLoop(t) => processed[t] < tiles) /\ tiles \in Nat
      BY ONLY <2>1 DEF Facts, ControlOf, Sized
    <3> QED BY ONLY <3>1, pc[t] \notin Begins \cup Ends DEF Lap, Late, Bit, InLoop, Body
  <2> QED BY ONLY <2>1, <2>2, <2>3
<1>2. PICK r : r = Lap(t)
  OBVIOUS
<1>3. r \in Nat /\ r <= tiles /\ tiles \in Nat /\ CpAsync!Stages \in {2, 3}
  BY ONLY <1>1, <1>2 DEF Facts, Sized
<1>4. ASSUME NEW u \in CopyThreads
      PROVE  shared[r % CpAsync!Stages][u] = Tile(r)
  <2>1. Facts(u)
    BY FactsHold
  <2>2. Round(u) = r
    BY <1>1, <1>2 DEF LoopInv, Together
  <2>3. Lap(u) = r /\ pc[u] \notin Begins
    <3>1. processed[u] \in Nat
      BY ONLY <2>1 DEF Facts
    <3>2. PICK l : l = Lap(u)
      OBVIOUS
    <3>3. r = l
      <4>1. r = tiles + 1 \/ r = tiles + 2 \/ r = l
        BY ONLY <2>2, <3>2 DEF Round
      <4> QED BY ONLY <1>3, <4>1
    <3>4. pc[u] \in Begins => l = -1
      BY ONLY <3>2 DEF Lap
    <3> QED BY ONLY <1>3, <3>2, <3>3, <3>4
  <2>4. PICK c, v : c = Copied(u) /\ v = Waited(u)
    OBVIOUS
  <2>5. c \in Nat /\ v \in Nat
    BY ONLY <2>1, <2>4 DEF Facts
  <2>6. (c = CpAsync!Stages - 1 + r \/ c = CpAsync!Stages + r) /\ v >= r + 1
    <3>1. /\ c = CpAsync!Stages - 1 + r + Bit(HasCopied(u))
          /\ v = IF pc[u] \in Ends THEN c ELSE r + 1 + Bit(pc[u] \in {"first sync", "sync"})
      BY ONLY <2>1, <2>3, <2>4 DEF Facts, PlaceOf, Begins
    <3>2. PICK x, y : x = Bit(HasCopied(u)) /\ y = Bit(pc[u] \in {"first sync", "sync"})
      OBVIOUS
    <3>3. /\ x \in {0, 1} /\ y \in {0, 1} /\ c = CpAsync!Stages - 1 + r + x
          /\ (v = c \/ v = r + 1 + y)
      BY ONLY <3>1, <3>2 DEF Bit
    <3> QED BY ONLY <1>3, <2>5, <3>3
  <2>7. InWindow(u, r) /\ ~(r >= v)
    BY ONLY <1>3, <2>4, <2>5, <2>6 DEF InWindow
  <2>8. BufferOf(u) /\ Round(u) <= tiles
    BY ONLY <1>3, <2>1, <2>2 DEF Facts
  <2>9. Holds(u, r)
    BY ONLY <2>7, <2>8, BufferParts
  <2> QED BY ONLY <2>4, <2>7, <2>9 DEF Holds
<1> QED BY ONLY <1>2, <1>4

\* So a fragment loaded from that stage is of that tile.
LEMMA ContentOf ==
  ASSUME CpAsync!ShapeAssumption, LoopInv, NEW t \in CopyThreads, pc[t] \notin Begins \cup Ends
  PROVE  CpAsync!Content(Lap(t) % CpAsync!Stages) = Tile(Lap(t))
<1>1. \A u \in CopyThreads : shared[Lap(t) % CpAsync!Stages][u] = Tile(Lap(t))
  BY ShareOf
<1>2. PICK k : k = Lap(t) % CpAsync!Stages
  OBVIOUS
<1> QED BY ONLY <1>1, <1>2, t \in CopyThreads DEF CpAsync!Content

-----------------------------------------------------------------------------
\* The parts of the invariant that speak of one thread, after its step.
Moved(t) ==
  /\ ControlOf(t)' /\ PlaceOf(t)' /\ BufferOf(t)' /\ RegisterOf(t)' /\ EpilogueOf(t)'
  /\ Round(t)' = Round(t) /\ Types' /\ UNCHANGED CpAsync!call
  /\ \A u \in CopyThreads \ {t} : Kept(u)

LEMMA MovedInv ==
  ASSUME CpAsync!ShapeAssumption, LoopInv, NEW t \in CopyThreads, Moved(t)
  PROVE  LoopInv'
<1>1. Sized
  BY FactsHold DEF Facts
<1>2. ThreadInv(t)' /\ Round(t)' = Round(t) /\ Types' /\ UNCHANGED CpAsync!call
  BY ONLY Moved(t) DEF Moved, ThreadInv
<1>3. \A u \in CopyThreads \ {t} : Kept(u)
  BY ONLY Moved(t) DEF Moved
<1> QED BY ONLY <1>1, <1>2, <1>3, LoopInv, t \in CopyThreads, OneStep

\* One fragment of one thread.
LEMMA FragmentSet ==
  ASSUME fragment \in [CopyThreads -> [0 .. CpAsync!LastBlock -> Int \X Int]], NEW t \in CopyThreads,
         NEW b \in 0 .. CpAsync!LastBlock, NEW x \in Int \X Int, fragment' = [fragment EXCEPT ![t][b] = x]
  PROVE  /\ fragment' \in [CopyThreads -> [0 .. CpAsync!LastBlock -> Int \X Int]]
         /\ fragment'[t][b] = x
         /\ \A c \in (0 .. CpAsync!LastBlock) \ {b} : fragment'[t][c] = fragment[t][c]
         /\ \A u \in CopyThreads \ {t} : fragment'[u] = fragment[u]
<1>1. PICK S, D : S = Int \X Int /\ D = 0 .. CpAsync!LastBlock
  OBVIOUS
<1>2. fragment \in [CopyThreads -> [D -> S]] /\ b \in D /\ x \in S /\ fragment[t] \in [D -> S]
  BY <1>1
<1>3. PICK g : g = [fragment[t] EXCEPT ![b] = x]
  OBVIOUS
<1>4. g \in [D -> S] /\ g[b] = x /\ \A c \in D \ {b} : g[c] = fragment[t][c]
  BY ONLY <1>2, <1>3
<1>5. fragment' = [fragment EXCEPT ![t] = g]
  BY <1>3
<1>6. fragment' \in [CopyThreads -> [D -> S]] /\ fragment'[t] = g
      /\ \A u \in CopyThreads \ {t} : fragment'[u] = fragment[u]
  BY ONLY <1>2, <1>4, <1>5, t \in CopyThreads
<1> QED BY ONLY <1>1, <1>4, <1>6

\* The first fragment, of tile 0.
LEMMA FillMoves ==
  ASSUME CpAsync!ShapeAssumption, LoopInv, NEW t \in CopyThreads, CpAsync!Fill(t)
  PROVE  Moved(t)
<1>1. Facts(t)
  BY FactsHold
<1>2. /\ pc[t] = "fill" /\ pc' = [pc EXCEPT ![t] = "top"]
      /\ fragment' = [fragment EXCEPT ![t][0] = <<CpAsync!Content(slice[t]), 0>>]
      /\ UNCHANGED <<kernel, tiles, shared, pending, block, count, next, read, write, slice,
                     products, scales, processed, sum, exchange, output, CpAsync!call>>
  BY DEF CpAsync!Fill, CpAsync!At, CpAsync!Goes, CpAsync!call, CpAsync!memory, CpAsync!source,
       CpAsync!pipes, CpAsync!results, CpAsync!epilogue
<1>3. Types /\ Sized /\ t \in DOMAIN pc /\ pc'[t] = "top"
  BY <1>1, <1>2 DEF Facts, Types
<1>4. processed[t] = 0 /\ block[t] = 0 /\ Lap(t) = 0 /\ Lap(t)' = 0 /\ Round(t) = 0
      /\ Round(t)' = 0 /\ ~HasCopied(t) /\ ~HasCopied(t)'
  <2>1. processed[t] = 0 /\ block[t] = 0
    BY ONLY <1>1, <1>2 DEF Facts, ControlOf
  <2> QED BY ONLY <1>2, <1>3, <2>1 DEF Lap, Late, Round, HasCopied, Begins, Bit
<1>5. /\ tiles \in Nat \ {0} /\ CpAsync!Stages \in {2, 3} /\ CpAsync!LastBlock \in Nat \ {0}
      /\ CpAsync!Stages' = CpAsync!Stages
  BY ONLY <1>2, <1>3 DEF Sized, CpAsync!Stages
<1>6. BufferOf(t)' /\ Copied(t)' = Copied(t) /\ Waited(t)' = Waited(t)
  <2>1. BufferOf(t) /\ PlaceOf(t)
    BY ONLY <1>1 DEF Facts
  <2>2. /\ count'[t] = count[t] /\ next'[t] = next[t] /\ pending'[t] = pending[t]
        /\ UNCHANGED CpAsync!call
    BY ONLY <1>2
  <2>3. (Round(t) <= tiles)' => Round(t) <= tiles
    BY ONLY <1>2, <1>4, <1>5
  <2>4. (Round(t) <= tiles)' => \A k \in CpAsync!Pipes : shared'[k][t] = shared[k][t]
    BY ONLY <1>2
  <2> QED BY ONLY <1>3, <2>1, <2>2, <2>3, <2>4, BufferSame
<1>7. PlaceOf(t)'
  <2>1. PlaceOf(t) /\ Copied(t) \in Nat
    BY ONLY <1>1 DEF Facts
  <2> QED BY ONLY <1>2, <1>3, <1>4, <1>5, <1>6, <2>1 DEF PlaceOf, Bit, Begins, Ends
<1>8. ControlOf(t)'
  BY ONLY <1>2, <1>3, <1>4, <1>5 DEF ControlOf, Steps, Directs, Begins, Ends, Body, InLoop
<1>9. CpAsync!Content(slice[t]) = 0
  <2>1. CpAsync!Content(Lap(t) % CpAsync!Stages) = Tile(Lap(t))
    BY ONLY <1>2, CpAsync!ShapeAssumption, LoopInv, t \in CopyThreads, ContentOf DEF Begins, Ends
  <2>2. slice[t] = (Lap(t) + 0) % CpAsync!Stages
    BY ONLY <1>1, <1>2 DEF Facts, PlaceOf, Begins, Bit
  <2>3. Tile(0) = 0
    BY ONLY <1>5 DEF Tile
  <2> QED BY ONLY <1>4, <2>1, <2>2, <2>3, 0 + 0 = 0
<1>10. /\ fragment'[t][0] = <<0, 0>>
       /\ fragment' \in [CopyThreads -> [0 .. CpAsync!LastBlock -> Int \X Int]]
       /\ \A u \in CopyThreads \ {t} : fragment'[u] = fragment[u]
  <2>1. fragment \in [CopyThreads -> [0 .. CpAsync!LastBlock -> Int \X Int]]
    BY ONLY <1>3 DEF Types
  <2>2. fragment' = [fragment EXCEPT ![t][0] = <<0, 0>>]
    BY ONLY <1>2, <1>9
  <2>3. 0 \in 0 .. CpAsync!LastBlock /\ <<0, 0>> \in Int \X Int
    BY ONLY <1>5
  <2>4. PICK x, n : x = <<0, 0>> /\ n = 0
    OBVIOUS
  <2>5. /\ x \in Int \X Int /\ n \in 0 .. CpAsync!LastBlock
        /\ fragment' = [fragment EXCEPT ![t][n] = x]
    BY ONLY <2>2, <2>3, <2>4
  <2>6. /\ fragment' \in [CopyThreads -> [0 .. CpAsync!LastBlock -> Int \X Int]]
        /\ fragment'[t][n] = x
        /\ \A c \in (0 .. CpAsync!LastBlock) \ {n} : fragment'[t][c] = fragment[t][c]
        /\ \A u \in CopyThreads \ {t} : fragment'[u] = fragment[u]
    BY ONLY <2>1, <2>5, t \in CopyThreads, FragmentSet
  <2> QED BY ONLY <2>4, <2>6
<1>11. RegisterOf(t)'
  <2>1. products[t] = Terms(CpAsync!GroupOf(processed[t]), ((processed[t] % 2) * KBlocks) + InTile(t))
        /\ sum[t] = CpAsync!InOrder(CpAsync!GroupOf(processed[t])) /\ InTile(t) = 0
    BY ONLY <1>1, <1>2 DEF Facts, RegisterOf, InTile, InLoop, Body
  <2>2. InTile(t)' = 0 /\ ~InLoop(t)'
    BY ONLY <1>3 DEF InTile, InLoop, Body
  <2>3. processed'[t] = processed[t] /\ products'[t] = products[t] /\ sum'[t] = sum[t]
    BY ONLY <1>2
  <2>4. 0 % 2 # 1
    OBVIOUS
  <2> QED BY ONLY <1>3, <1>4, <1>10, <2>1, <2>2, <2>3, <2>4 DEF RegisterOf
<1>12. EpilogueOf(t)'
  BY ONLY <1>1, <1>2, <1>3 DEF Facts, EpilogueOf
<1>13. Types'
  BY ONLY <1>2, <1>3, <1>10 DEF Types, Shares, Pending, CpAsync!Pipes, CpAsync!Stages
<1>14. \A u \in CopyThreads \ {t} : Kept(u)
  BY ONLY <1>2, <1>3, <1>10 DEF Types, Kept, Round, Lap, Late
<1> QED BY ONLY <1>2, <1>4, <1>6, <1>7, <1>8, <1>11, <1>12, <1>13, <1>14 DEF Moved

\* A copy of the prologue, or its end.
LEMMA PrologueMoves ==
  ASSUME CpAsync!ShapeAssumption, LoopInv, NEW t \in CopyThreads, CpAsync!Prologue(t)
  PROVE  Moved(t)
<1>1. Facts(t)
  BY FactsHold
<1>2. /\ pc[t] = "prologue"
      /\ UNCHANGED <<kernel, tiles, block, read, slice, fragment, products, scales, processed,
                     sum, exchange, output, CpAsync!call>>
  BY DEF CpAsync!Prologue, CpAsync!At, CpAsync!call, CpAsync!registers, CpAsync!results,
       CpAsync!epilogue
<1>3. Types /\ Sized /\ BufferOf(t) /\ PlaceOf(t)
  BY ONLY <1>1 DEF Facts
<1>4. /\ tiles \in Nat \ {0} /\ CpAsync!Stages \in {2, 3} /\ CpAsync!LastBlock \in Nat \ {0}
      /\ CpAsync!Stages' = CpAsync!Stages
  BY ONLY <1>2, <1>3 DEF Sized, CpAsync!Stages
<1>5. processed[t] = 0 /\ block[t] = 0 /\ Lap(t) = -1 /\ Round(t) = -1
  BY ONLY <1>1, <1>2 DEF Facts, ControlOf, Lap, Round, Begins
<1>6. PICK c : c = Copied(t)
  OBVIOUS
<1>7. /\ c \in Nat /\ c <= CpAsync!Stages - 1 /\ Waited(t) = 0 /\ read[t] = 0 /\ slice[t] = 0
      /\ write[t] = c
  <2>1. /\ c \in Nat /\ c <= CpAsync!Stages - 1 /\ read[t] = 0 /\ slice[t] = 0
        /\ write[t] = c % CpAsync!Stages
        /\ Waited(t) = Lap(t) + 1 + 0
    BY ONLY <1>1, <1>2, <1>6 DEF Facts, PlaceOf, Begins, Ends, Bit
  <2>2. c % CpAsync!Stages = c
    BY ONLY <1>4, <2>1
  <2> QED BY ONLY <1>5, <2>1, <2>2, -1 + 1 + 0 = 0
<1>8. CASE write[t] < CpAsync!Stages - 1
  <2>1. CpAsync!Copy(t, write[t]) /\ write' = [write EXCEPT ![t] = @ + 1] /\ pc' = pc
    BY <1>8 DEF CpAsync!Prologue
  <2>2. Lap(t)' = -1 /\ Round(t)' = -1
    BY ONLY <1>2, <2>1 DEF Lap, Round, Begins
  <2>3. (Round(t) <= tiles)' => Round(t) <= tiles
    BY ONLY <1>2, <1>5, <2>2
  <2>4. Waited(t) \in Nat /\ Copied(t) < Waited(t) + CpAsync!Stages /\ Waited(t) <= Copied(t)
    BY ONLY <1>4, <1>6, <1>7
  <2>5. /\ BufferOf(t)' /\ Copied(t)' = Copied(t) + 1 /\ Waited(t)' = Waited(t)
        /\ count'[t] = count[t] - 1
        /\ shared' \in [CpAsync!Pipes -> [CopyThreads -> Shares]]'
        /\ pending' \in [CopyThreads -> Seq(Pending)]'
        /\ DOMAIN count' = CopyThreads /\ DOMAIN next' = CopyThreads
        /\ \A u \in CopyThreads \ {t} :
             /\ count'[u] = count[u] /\ next'[u] = next[u] /\ pending'[u] = pending[u]
             /\ \A k \in CpAsync!Pipes : shared'[k][u] = shared[k][u]
    BY ONLY <1>2, <1>3, <2>1, <2>3, <2>4, t \in CopyThreads, CopyStep
  <2>6. /\ write'[t] = c + 1 /\ DOMAIN write' = CopyThreads
        /\ \A u \in CopyThreads \ {t} : write'[u] = write[u]
    BY ONLY <1>3, <1>7, <2>1, t \in CopyThreads DEF Types
  <2>7. PlaceOf(t)'
    <3>1. (c + 1) % CpAsync!Stages = c + 1 /\ c + 1 <= CpAsync!Stages - 1
      BY ONLY <1>4, <1>7, <1>8
    <3>2. count'[t] \in Int /\ Copied(t)' = c + 1 /\ Copied(t)' >= 0
      BY ONLY <1>1, <1>6, <1>7, <2>5 DEF Facts
    <3>3. Waited(t)' = Lap(t)' + 1 + 0
      BY ONLY <1>7, <2>2, <2>5
    <3> QED BY ONLY <1>2, <1>4, <1>7, <2>1, <2>6, <3>1, <3>2, <3>3 DEF PlaceOf, Bit, Begins, Ends
  <2>8. ControlOf(t)'
    BY ONLY <1>1, <1>2, <1>5, <2>1 DEF Facts, ControlOf, InLoop
  <2>9. RegisterOf(t)' /\ EpilogueOf(t)'
    BY ONLY <1>1, <1>2, <2>1
       DEF Facts, RegisterOf, EpilogueOf, InTile, InLoop, Body, CpAsync!AsyncScale, Lap
  <2>10. Types'
    BY ONLY <1>2, <1>3, <2>1, <2>5, <2>6 DEF Types
  <2>11. \A u \in CopyThreads \ {t} : Kept(u)
    BY ONLY <1>2, <2>1, <2>5, <2>6 DEF Kept
  <2> QED BY ONLY <1>2, <1>5, <2>2, <2>5, <2>7, <2>8, <2>9, <2>10, <2>11 DEF Moved
<1>9. CASE ~(write[t] < CpAsync!Stages - 1)
  <2>1. pc' = [pc EXCEPT ![t] = "first"]
        /\ UNCHANGED <<shared, pending, count, next, write>>
    BY <1>9 DEF CpAsync!Prologue, CpAsync!Goes, CpAsync!memory, CpAsync!source
  <2>2. /\ pc'[t] = "first" /\ DOMAIN pc' = CopyThreads
        /\ \A u \in CopyThreads \ {t} : pc'[u] = pc[u]
    BY ONLY <1>3, <2>1, t \in CopyThreads DEF Types
  <2>3. Lap(t)' = -1 /\ Round(t)' = -1 /\ HasCopied(t)'
    BY ONLY <2>2 DEF Lap, Round, Begins, HasCopied
  <2>4. c = CpAsync!Stages - 1
    BY ONLY <1>4, <1>7, <1>9
  <2>5. BufferOf(t)' /\ Copied(t)' = Copied(t) /\ Waited(t)' = Waited(t)
    <3>1. /\ count'[t] = count[t] /\ next'[t] = next[t] /\ pending'[t] = pending[t]
          /\ UNCHANGED CpAsync!call
      BY ONLY <1>2, <2>1
    <3>2. (Round(t) <= tiles)' => Round(t) <= tiles
      BY ONLY <1>2, <1>5, <2>3
    <3>3. (Round(t) <= tiles)' => \A k \in CpAsync!Pipes : shared'[k][t] = shared[k][t]
      BY ONLY <2>1
    <3> QED BY ONLY <1>3, <3>1, <3>2, <3>3, t \in CopyThreads, BufferSame
  <2>6. PlaceOf(t)'
    <3>1. (c + 1) % CpAsync!Stages = 0 /\ c % CpAsync!Stages = c
      BY ONLY <1>4, <2>4
    <3>2. Waited(t)' = Lap(t)' + 1 + 0
      BY ONLY <1>7, <2>3, <2>5
    <3>3. /\ Copied(t)' = CpAsync!Stages - 1 + Lap(t)' + 1 /\ Copied(t)' = c /\ count'[t] \in Int
          /\ c >= 0
      <4>1. c = CpAsync!Stages - 1 + (-1) + 1
        BY ONLY <1>4, <2>4
      <4>2. Copied(t)' = c /\ Lap(t)' = -1 /\ c >= 0
        BY ONLY <1>6, <1>7, <2>3, <2>5
      <4>3. count'[t] \in Int
        BY ONLY <1>1, <2>1 DEF Facts
      <4> QED BY ONLY <4>1, <4>2, <4>3
    <3> QED BY ONLY <1>2, <1>4, <1>7, <2>1, <2>2, <2>3, <3>1, <3>2, <3>3
         DEF PlaceOf, Bit, Begins, Ends
  <2>7. ControlOf(t)'
    BY ONLY <1>1, <1>2, <1>5, <2>2 DEF Facts, ControlOf, InLoop, Steps, Directs, Body, Begins, Ends
  <2>8. RegisterOf(t)' /\ EpilogueOf(t)'
    BY ONLY <1>1, <1>2, <2>2
       DEF Facts, RegisterOf, EpilogueOf, InTile, InLoop, Body, CpAsync!AsyncScale, Lap
  <2>9. Types'
    BY ONLY <1>2, <1>3, <2>1, <2>2 DEF Types, Shares, Pending, CpAsync!Pipes, CpAsync!Stages
  <2>10. \A u \in CopyThreads \ {t} : Kept(u)
    BY ONLY <1>2, <2>1, <2>2 DEF Kept
  <2> QED BY ONLY <1>2, <1>5, <2>3, <2>5, <2>6, <2>7, <2>8, <2>9, <2>10 DEF Moved
<1> QED BY <1>8, <1>9

\* The wait for the first tile.
LEMMA FirstWaitMoves ==
  ASSUME CpAsync!ShapeAssumption, LoopInv, NEW t \in CopyThreads, CpAsync!FirstWait(t)
  PROVE  Moved(t)
<1>1. Facts(t)
  BY FactsHold
<1>2. /\ pc[t] = "first" /\ CpAsync!Wait(t, CpAsync!Ahead)
      /\ pc' = [pc EXCEPT ![t] = "first sync"]
      /\ UNCHANGED <<kernel, tiles, shared, block, count, next, read, write, slice, fragment,
                     products, scales, processed, sum, exchange, output, CpAsync!call>>
  BY DEF CpAsync!FirstWait, CpAsync!At, CpAsync!Goes, CpAsync!call, CpAsync!source,
       CpAsync!pipes, CpAsync!registers, CpAsync!results, CpAsync!epilogue
<1>3. Types /\ Sized /\ BufferOf(t) /\ PlaceOf(t)
  BY ONLY <1>1 DEF Facts
<1>4. /\ tiles \in Nat \ {0} /\ CpAsync!Stages \in {2, 3} /\ CpAsync!LastBlock \in Nat \ {0}
      /\ CpAsync!Stages' = CpAsync!Stages
  BY ONLY <1>2, <1>3 DEF Sized, CpAsync!Stages
<1>5. /\ pc'[t] = "first sync" /\ DOMAIN pc' = CopyThreads
      /\ \A u \in CopyThreads \ {t} : pc'[u] = pc[u]
  BY ONLY <1>2, <1>3, t \in CopyThreads DEF Types
<1>6. /\ processed[t] = 0 /\ block[t] = 0 /\ Lap(t) = -1 /\ Round(t) = -1 /\ HasCopied(t)
      /\ Lap(t)' = -1 /\ Round(t)' = -1 /\ HasCopied(t)'
  BY ONLY <1>1, <1>2, <1>5 DEF Facts, ControlOf, Lap, Round, Begins, HasCopied
<1>7. PICK c : c = Copied(t)
  OBVIOUS
<1>8. /\ c \in Nat /\ c = CpAsync!Stages - 1 /\ Waited(t) = 0 /\ Len(pending[t]) = c
      /\ read[t] = (c + 1) % CpAsync!Stages /\ slice[t] = 0 /\ write[t] = c % CpAsync!Stages
  <2>1. /\ c \in Nat /\ c = CpAsync!Stages - 1 + Lap(t) + 1 /\ Waited(t) = Lap(t) + 1 + 0
        /\ slice[t] = 0
        /\ write[t] = c % CpAsync!Stages /\ read[t] = (c + 1) % CpAsync!Stages
        /\ Len(pending[t]) = c - Waited(t)
    BY ONLY <1>1, <1>2, <1>6, <1>7 DEF Facts, PlaceOf, Begins, Ends, Bit
  <2>2. CpAsync!Stages - 1 + (-1) + 1 = CpAsync!Stages - 1 /\ -1 + 1 + 0 = 0 /\ c - 0 = c
    BY ONLY <1>4, <2>1
  <2> QED BY ONLY <1>6, <2>1, <2>2
<1>9. /\ BufferOf(t)' /\ Copied(t)' = c /\ Waited(t)' = 1
      /\ pending' \in [CopyThreads -> Seq(Pending)]'
      /\ \A u \in CopyThreads \ {t} : pending'[u] = pending[u]
  <2>1. PICK n : n = CpAsync!Ahead
    OBVIOUS
  <2>2. n \in Nat /\ n <= Len(pending[t]) /\ c - n = 1
    <3>1. n = CpAsync!Stages - 2
      BY ONLY <2>1 DEF CpAsync!Ahead
    <3>2. CpAsync!Stages \in {2, 3} /\ c = CpAsync!Stages - 1 /\ Len(pending[t]) = c
      BY ONLY <1>4, <1>8
    <3> QED BY ONLY <3>1, <3>2
  <2>3. Waited(t) \in Nat /\ CpAsync!Wait(t, n) /\ ((Round(t) <= tiles)' => Round(t) <= tiles)
    <3>1. Waited(t) \in Nat
      BY ONLY <1>8
    <3>2. CpAsync!Wait(t, n)
      BY ONLY <1>2, <2>1
    <3>3. (Round(t) <= tiles)' => Round(t) <= tiles
      BY ONLY <1>2, <1>6
    <3> QED BY ONLY <3>1, <3>2, <3>3
  <2>4. count'[t] = count[t] /\ next'[t] = next[t] /\ shared' = shared /\ UNCHANGED CpAsync!call
    BY ONLY <1>2
  <2>5. /\ BufferOf(t)' /\ Copied(t)' = Copied(t) /\ Waited(t)' = Copied(t) - n
        /\ pending' \in [CopyThreads -> Seq(Pending)]'
        /\ \A u \in CopyThreads \ {t} : pending'[u] = pending[u]
    BY ONLY <1>3, <2>2, <2>3, <2>4, t \in CopyThreads, WaitStep
  <2> QED BY ONLY <1>7, <2>2, <2>5
<1>10. PlaceOf(t)'
  <2>1. Waited(t)' = Lap(t)' + 1 + 1
    BY ONLY <1>6, <1>9
  <2>2. Copied(t)' = CpAsync!Stages - 1 + Lap(t)' + 1
    BY ONLY <1>4, <1>6, <1>8, <1>9
  <2>3. count'[t] \in Int /\ Copied(t)' >= 0
    <3>1. count'[t] \in Int
      BY ONLY <1>1, <1>2 DEF Facts
    <3> QED BY ONLY <1>8, <1>9, <3>1
  <2> QED BY ONLY <1>2, <1>4, <1>5, <1>6, <1>8, <1>9, <2>1, <2>2, <2>3
       DEF PlaceOf, Bit, Begins, Ends
<1>11. ControlOf(t)'
  BY ONLY <1>1, <1>2, <1>4, <1>5, <1>6 DEF Facts, ControlOf, InLoop, Steps, Directs, Body, Begins, Ends
<1>12. RegisterOf(t)' /\ EpilogueOf(t)'
  BY ONLY <1>1, <1>2, <1>5
     DEF Facts, RegisterOf, EpilogueOf, InTile, InLoop, Body, CpAsync!AsyncScale, Lap
<1>13. Types'
  BY ONLY <1>2, <1>3, <1>5, <1>9 DEF Types, Shares, Pending, CpAsync!Pipes, CpAsync!Stages
<1>14. \A u \in CopyThreads \ {t} : Kept(u)
  BY ONLY <1>2, <1>5, <1>9 DEF Kept
<1> QED BY ONLY <1>2, <1>6, <1>9, <1>10, <1>11, <1>12, <1>13, <1>14 DEF Moved

\* The wait for the next tile, which turns the thread to its stage.
LEMMA SliceAndWaitMoves ==
  ASSUME CpAsync!ShapeAssumption, LoopInv, NEW t \in CopyThreads, CpAsync!SliceAndWait(t)
  PROVE  Moved(t)
<1>1. Facts(t)
  BY FactsHold
<1>2. /\ pc[t] = "wait" /\ CpAsync!Wait(t, CpAsync!Ahead) /\ pc' = [pc EXCEPT ![t] = "sync"]
      /\ slice' = [slice EXCEPT ![t] = read[t]]
      /\ UNCHANGED <<kernel, tiles, shared, block, count, next, read, write, fragment,
                     products, scales, processed, sum, exchange, output, CpAsync!call>>
  BY DEF CpAsync!SliceAndWait, CpAsync!At, CpAsync!Goes, CpAsync!call, CpAsync!source,
       CpAsync!registers, CpAsync!results, CpAsync!epilogue
<1>3. Types /\ Sized /\ BufferOf(t) /\ PlaceOf(t)
  BY ONLY <1>1 DEF Facts
<1>4. /\ tiles \in Nat \ {0} /\ CpAsync!Stages \in {2, 3} /\ CpAsync!LastBlock \in Nat \ {0}
      /\ CpAsync!Stages' = CpAsync!Stages
  BY ONLY <1>2, <1>3 DEF Sized, CpAsync!Stages
<1>5. /\ pc'[t] = "sync" /\ DOMAIN pc' = CopyThreads
      /\ \A u \in CopyThreads \ {t} : pc'[u] = pc[u]
      /\ slice'[t] = read[t] /\ DOMAIN slice' = CopyThreads
      /\ \A u \in CopyThreads \ {t} : slice'[u] = slice[u]
  BY ONLY <1>2, <1>3, t \in CopyThreads DEF Types
<1>6. PICK r : r = processed[t]
  OBVIOUS
<1>7. /\ r \in Nat /\ Lap(t) = r /\ Round(t) = r /\ HasCopied(t)
      /\ Lap(t)' = r /\ Round(t)' = r /\ HasCopied(t)'
  <2>1. r \in Nat /\ r + 0 = r
    BY ONLY <1>1, <1>6 DEF Facts
  <2>2. Lap(t) = r /\ Lap(t)' = r
    BY ONLY <1>2, <1>5, <1>6, <2>1 DEF Lap, Late, Bit, Begins
  <2> QED BY ONLY <1>2, <1>5, <2>1, <2>2 DEF Round, HasCopied
<1>8. PICK c : c = Copied(t)
  OBVIOUS
<1>9. /\ c \in Nat /\ c = CpAsync!Stages + r /\ Waited(t) = r + 1
      /\ Len(pending[t]) = CpAsync!Stages - 1
      /\ read[t] = (c + 1) % CpAsync!Stages /\ write[t] = c % CpAsync!Stages
  <2>1. /\ c \in Nat /\ c = CpAsync!Stages - 1 + r + 1 /\ Waited(t) = r + 1 + 0
        /\ write[t] = c % CpAsync!Stages /\ read[t] = (c + 1) % CpAsync!Stages
        /\ Len(pending[t]) = c - Waited(t)
    BY ONLY <1>1, <1>2, <1>7, <1>8 DEF Facts, PlaceOf, Begins, Ends, Bit
  <2>2. /\ CpAsync!Stages - 1 + r + 1 = CpAsync!Stages + r /\ r + 1 + 0 = r + 1
        /\ CpAsync!Stages + r - (r + 1) = CpAsync!Stages - 1
    BY ONLY <1>4, <1>7
  <2> QED BY ONLY <1>4, <1>7, <2>1, <2>2
<1>10. /\ BufferOf(t)' /\ Copied(t)' = c /\ Waited(t)' = r + 2
       /\ pending' \in [CopyThreads -> Seq(Pending)]'
       /\ \A u \in CopyThreads \ {t} : pending'[u] = pending[u]
  <2>1. PICK n : n = CpAsync!Ahead
    OBVIOUS
  <2>2. n \in Nat /\ n <= Len(pending[t]) /\ c - n = r + 2
    BY ONLY <1>4, <1>7, <1>9, <2>1 DEF CpAsync!Ahead
  <2>3. Waited(t) \in Nat /\ CpAsync!Wait(t, n) /\ ((Round(t) <= tiles)' => Round(t) <= tiles)
    BY ONLY <1>2, <1>7, <1>9, <2>1
  <2>4. count'[t] = count[t] /\ next'[t] = next[t] /\ shared' = shared /\ UNCHANGED CpAsync!call
    BY ONLY <1>2
  <2>5. /\ BufferOf(t)' /\ Copied(t)' = Copied(t) /\ Waited(t)' = Copied(t) - n
        /\ pending' \in [CopyThreads -> Seq(Pending)]'
        /\ \A u \in CopyThreads \ {t} : pending'[u] = pending[u]
    BY ONLY <1>3, <2>2, <2>3, <2>4, t \in CopyThreads, WaitStep
  <2> QED BY ONLY <1>8, <2>2, <2>5
<1>11. PlaceOf(t)'
  <2>1. Waited(t)' = Lap(t)' + 1 + 1
    BY ONLY <1>7, <1>10
  <2>2. Copied(t)' = CpAsync!Stages - 1 + Lap(t)' + 1
    BY ONLY <1>4, <1>7, <1>9, <1>10
  <2>3. count'[t] \in Int /\ Copied(t)' >= 0
    BY ONLY <1>1, <1>2, <1>9, <1>10 DEF Facts
  <2>4. slice'[t] = (Lap(t)' + 1) % CpAsync!Stages
    <3>1. r + 1 \in Int /\ c + 1 = (r + 1) + CpAsync!Stages
      BY ONLY <1>4, <1>7, <1>9
    <3>2. ((r + 1) + CpAsync!Stages) % CpAsync!Stages = (r + 1) % CpAsync!Stages
      BY ONLY <1>4, <3>1, Turn
    <3> QED BY ONLY <1>5, <1>7, <1>9, <3>1, <3>2
  <2> QED BY ONLY <1>2, <1>4, <1>5, <1>7, <1>9, <1>10, <2>1, <2>2, <2>3, <2>4
       DEF PlaceOf, Bit, Begins, Ends
<1>12. ControlOf(t)'
  BY ONLY <1>1, <1>2, <1>4, <1>5 DEF Facts, ControlOf, InLoop, Steps, Directs, Body, Begins, Ends
<1>13. RegisterOf(t)' /\ EpilogueOf(t)'
  BY ONLY <1>1, <1>2, <1>5
     DEF Facts, RegisterOf, EpilogueOf, InTile, InLoop, Body, CpAsync!AsyncScale
<1>14. Types'
  BY ONLY <1>2, <1>3, <1>5, <1>10 DEF Types, Shares, Pending, CpAsync!Pipes, CpAsync!Stages
<1>15. \A u \in CopyThreads \ {t} : Kept(u)
  BY ONLY <1>2, <1>5, <1>10 DEF Kept
<1> QED BY ONLY <1>2, <1>7, <1>10, <1>11, <1>12, <1>13, <1>14, <1>15 DEF Moved

\* The wait for every copy, the redundant ones included.
LEMMA DrainMoves ==
  ASSUME CpAsync!ShapeAssumption, LoopInv, NEW t \in CopyThreads, CpAsync!Drain(t)
  PROVE  Moved(t)
<1>1. Facts(t)
  BY FactsHold
<1>2. /\ pc[t] = "drain" /\ CpAsync!Wait(t, 0) /\ pc' = [pc EXCEPT ![t] = "drained"]
      /\ UNCHANGED <<kernel, tiles, shared, block, count, next, read, write, slice, fragment,
                     products, scales, processed, sum, exchange, output, CpAsync!call>>
  BY DEF CpAsync!Drain, CpAsync!At, CpAsync!Goes, CpAsync!None, CpAsync!call, CpAsync!source,
       CpAsync!pipes, CpAsync!registers, CpAsync!results, CpAsync!epilogue
<1>3. Types /\ Sized /\ BufferOf(t) /\ PlaceOf(t)
  BY ONLY <1>1 DEF Facts
<1>4. /\ tiles \in Nat \ {0} /\ CpAsync!Stages \in {2, 3} /\ CpAsync!LastBlock \in Nat \ {0}
      /\ CpAsync!Stages' = CpAsync!Stages
  BY ONLY <1>2, <1>3 DEF Sized, CpAsync!Stages
<1>5. /\ pc'[t] = "drained" /\ DOMAIN pc' = CopyThreads
      /\ \A u \in CopyThreads \ {t} : pc'[u] = pc[u]
  BY ONLY <1>2, <1>3, t \in CopyThreads DEF Types
<1>6. /\ Lap(t) = tiles /\ Round(t) = tiles /\ ~HasCopied(t) /\ processed[t] = tiles
      /\ Lap(t)' = tiles /\ Round(t)' = tiles /\ ~HasCopied(t)'
  <2>1. processed[t] = tiles /\ tiles + 0 = tiles
    BY ONLY <1>1, <1>2, <1>4 DEF Facts, ControlOf
  <2>2. Lap(t) = tiles /\ Lap(t)' = tiles
    BY ONLY <1>2, <1>5, <2>1 DEF Lap, Late, Bit, Begins
  <2> QED BY ONLY <1>2, <1>5, <2>1, <2>2 DEF Round, HasCopied
<1>7. /\ BufferOf(t)' /\ Copied(t)' = Copied(t) /\ Waited(t)' = Copied(t)
      /\ pending' \in [CopyThreads -> Seq(Pending)]'
      /\ \A u \in CopyThreads \ {t} : pending'[u] = pending[u]
  <2>1. PICK n : n = 0
    OBVIOUS
  <2>2. n \in Nat /\ n <= Len(pending[t]) /\ Copied(t) - n = Copied(t)
    BY ONLY <1>1, <2>1 DEF Facts
  <2>3. Waited(t) \in Nat /\ CpAsync!Wait(t, n) /\ ((Round(t) <= tiles)' => Round(t) <= tiles)
    BY ONLY <1>1, <1>2, <1>6, <2>1 DEF Facts
  <2>4. count'[t] = count[t] /\ next'[t] = next[t] /\ shared' = shared /\ UNCHANGED CpAsync!call
    BY ONLY <1>2
  <2>5. /\ BufferOf(t)' /\ Copied(t)' = Copied(t) /\ Waited(t)' = Copied(t) - n
        /\ pending' \in [CopyThreads -> Seq(Pending)]'
        /\ \A u \in CopyThreads \ {t} : pending'[u] = pending[u]
    BY ONLY <1>3, <2>2, <2>3, <2>4, t \in CopyThreads, WaitStep
  <2> QED BY ONLY <2>2, <2>5
<1>8. PlaceOf(t)'
  <2>1. count'[t] \in Int /\ Copied(t)' >= 0
    BY ONLY <1>1, <1>2, <1>7 DEF Facts
  <2> QED BY ONLY <1>2, <1>3, <1>4, <1>5, <1>6, <1>7, <2>1 DEF PlaceOf, Bit, Begins, Ends
<1>9. ControlOf(t)'
  BY ONLY <1>1, <1>2, <1>4, <1>5 DEF Facts, ControlOf, InLoop, Steps, Directs, Body, Begins, Ends
<1>10. RegisterOf(t)' /\ EpilogueOf(t)'
  BY ONLY <1>1, <1>2, <1>5
     DEF Facts, RegisterOf, EpilogueOf, InTile, InLoop, Body, CpAsync!AsyncScale
<1>11. Types'
  BY ONLY <1>2, <1>3, <1>5, <1>7 DEF Types, Shares, Pending, CpAsync!Pipes, CpAsync!Stages
<1>12. \A u \in CopyThreads \ {t} : Kept(u)
  BY ONLY <1>2, <1>5, <1>7 DEF Kept
<1> QED BY ONLY <1>2, <1>6, <1>7, <1>8, <1>9, <1>10, <1>11, <1>12 DEF Moved

\* The next tile, or the end of the loop; the odd tile's scales.
LEMMA TopMoves ==
  ASSUME CpAsync!ShapeAssumption, LoopInv, NEW t \in CopyThreads, CpAsync!Top(t)
  PROVE  Moved(t)
<1>1. Facts(t)
  BY FactsHold
<1>2. /\ pc[t] = "top"
      /\ UNCHANGED <<kernel, tiles, shared, pending, count, next, read, write, slice, fragment,
                     products, processed, sum, exchange, output, CpAsync!call>>
  BY DEF CpAsync!Top, CpAsync!At, CpAsync!call, CpAsync!memory, CpAsync!source, CpAsync!pipes,
       CpAsync!results, CpAsync!epilogue
<1>3. Types /\ Sized /\ BufferOf(t) /\ PlaceOf(t)
  BY ONLY <1>1 DEF Facts
<1>4. /\ tiles \in Nat \ {0} /\ CpAsync!Stages \in {2, 3} /\ CpAsync!LastBlock \in Nat \ {0}
      /\ CpAsync!Stages' = CpAsync!Stages
      /\ CpAsync!AsyncScale' = CpAsync!AsyncScale
  BY ONLY <1>2, <1>3 DEF Sized, CpAsync!Stages, CpAsync!AsyncScale
<1>5. PICK r : r = processed[t]
  OBVIOUS
<1>6. r \in Nat /\ r <= tiles /\ Lap(t) = r /\ Round(t) = r /\ ~HasCopied(t)
  <2>1. r \in Nat /\ r <= tiles /\ r + 0 = r
    BY ONLY <1>1, <1>4, <1>5 DEF Facts, ControlOf
  <2>2. Lap(t) = r
    BY ONLY <1>2, <1>5, <2>1 DEF Lap, Late, Bit, Begins
  <2> QED BY ONLY <1>2, <2>1, <2>2 DEF Round, HasCopied
<1>7. PICK c : c = Copied(t)
  OBVIOUS
<1>8. /\ c \in Nat /\ c = CpAsync!Stages - 1 + r /\ read[t] = (c + 1) % CpAsync!Stages
      /\ slice[t] = r % CpAsync!Stages
  <2>1. /\ c \in Nat /\ c = CpAsync!Stages - 1 + r + 0 /\ read[t] = (c + 1) % CpAsync!Stages
        /\ slice[t] = (r + 0) % CpAsync!Stages
    BY ONLY <1>1, <1>2, <1>6, <1>7 DEF Facts, PlaceOf, Begins, Ends, Bit
  <2>2. CpAsync!Stages - 1 + r + 0 = CpAsync!Stages - 1 + r /\ r + 0 = r
    BY ONLY <1>4, <1>6
  <2> QED BY ONLY <2>1, <2>2
<1>9. CpAsync!MoreTiles(t) <=> r < tiles
  <2>1. count[t] = tiles - c
    BY ONLY <1>1, <1>7 DEF Facts
  <2>2. tiles - c > -(CpAsync!Stages - 1) <=> r < tiles
    BY ONLY <1>4, <1>6, <1>8
  <2> QED BY ONLY <2>1, <2>2 DEF CpAsync!MoreTiles
<1>10. /\ pc[t] \notin Begins \cup Ends /\ Copied(t)' = Copied(t) /\ Waited(t)' = Waited(t)
  BY ONLY <1>2 DEF Begins, Ends, Copied, Waited
<1>11. ASSUME Lap(t)' = r, Round(t)' = r
       PROVE  BufferOf(t)' /\ Round(t)' = Round(t)
  <2>1. /\ count'[t] = count[t] /\ next'[t] = next[t] /\ pending'[t] = pending[t]
        /\ UNCHANGED CpAsync!call
    BY ONLY <1>2
  <2>2. (Round(t) <= tiles)' => Round(t) <= tiles
    BY ONLY <1>2, <1>6, <1>11
  <2>3. (Round(t) <= tiles)' => \A k \in CpAsync!Pipes : shared'[k][t] = shared[k][t]
    BY ONLY <1>2
  <2>4. BufferOf(t)'
    BY ONLY <1>3, <2>1, <2>2, <2>3, t \in CopyThreads, BufferSame
  <2> QED BY ONLY <1>6, <1>11, <2>4
<1>12. CASE CpAsync!MoreTiles(t)
  <2>1. /\ scales' = [scales EXCEPT ![t] =
                 IF CpAsync!AsyncScale
                   THEN IF processed[t] % 2 = 1
                          THEN IF CpAsync!Content(read[t]) >= 0 THEN CpAsync!GroupOf(CpAsync!Content(read[t])) ELSE CpAsync!Garbage
                          ELSE @
                   ELSE IF processed[t] % 2 = 0 THEN CpAsync!GroupOf(processed[t]) ELSE @]
        /\ block' = [block EXCEPT ![t] = 0] /\ pc' = [pc EXCEPT ![t] = "load"]
    BY <1>12 DEF CpAsync!Top, CpAsync!Goes
  <2>2. /\ pc'[t] = "load" /\ DOMAIN pc' = CopyThreads
        /\ \A u \in CopyThreads \ {t} : pc'[u] = pc[u]
        /\ block'[t] = 0 /\ DOMAIN block' = CopyThreads
        /\ \A u \in CopyThreads \ {t} : block'[u] = block[u]
        /\ DOMAIN scales' = CopyThreads /\ \A u \in CopyThreads \ {t} : scales'[u] = scales[u]
        /\ scales'[t] = IF CpAsync!AsyncScale
                          THEN IF r % 2 = 1
                                 THEN IF CpAsync!Content(read[t]) >= 0 THEN CpAsync!GroupOf(CpAsync!Content(read[t]))
                                                               ELSE CpAsync!Garbage
                                 ELSE scales[t]
                          ELSE IF r % 2 = 0 THEN CpAsync!GroupOf(r) ELSE scales[t]
    BY ONLY <1>3, <1>5, <2>1, t \in CopyThreads DEF Types
  <2>3. r < tiles /\ 0 # CpAsync!LastBlock
    BY ONLY <1>4, <1>9, <1>12
  <2>4. Lap(t)' = r /\ Round(t)' = r /\ ~HasCopied(t)'
    <3>1. CpAsync!LastBlock' = CpAsync!LastBlock /\ r + 0 = r
      BY ONLY <1>6 DEF CpAsync!LastBlock
    <3>2. Lap(t)' = r
      BY ONLY <1>2, <1>5, <2>2, <2>3, <3>1 DEF Lap, Late, Bit, Begins
    <3>3. ~(0 > 0)
      OBVIOUS
    <3> QED BY ONLY <2>2, <3>2, <3>3 DEF Round, HasCopied
  <2>5. CpAsync!Content(read[t]) = r
    <3>1. CpAsync!Content(r % CpAsync!Stages) = Tile(r)
      BY ONLY <1>6, <1>10, CpAsync!ShapeAssumption, LoopInv, t \in CopyThreads, ContentOf
    <3>2. Tile(r) = r
      BY ONLY <2>3 DEF Tile
    <3>3. c + 1 = r + CpAsync!Stages /\ r \in Int
      BY ONLY <1>4, <1>6, <1>8
    <3>4. (r + CpAsync!Stages) % CpAsync!Stages = r % CpAsync!Stages
      BY ONLY <1>4, <3>3, Turn
    <3> QED BY ONLY <1>8, <3>1, <3>2, <3>3, <3>4
  <2>6. PlaceOf(t)'
    <3>1. PlaceOf(t) /\ count[t] \in Int
      BY ONLY <1>1 DEF Facts
    <3> QED BY ONLY <1>2, <1>4, <1>6, <1>10, <2>2, <2>4, <3>1 DEF PlaceOf, Bit, Begins, Ends
  <2>7. ControlOf(t)'
    BY ONLY <1>2, <1>4, <1>5, <1>6, <2>2, <2>3
       DEF ControlOf, InLoop, Steps, Directs, Body, Begins, Ends, CpAsync!LastBlock
  <2>8. RegisterOf(t)'
    <3>1. InTile(t) = 0 /\ InTile(t)' = 0 /\ InLoop(t)'
      BY ONLY <1>2, <2>2 DEF InTile, InLoop, Body
    <3>2. /\ products[t] = Terms(CpAsync!GroupOf(r), ((r % 2) * KBlocks) + InTile(t))
          /\ sum[t] = CpAsync!InOrder(CpAsync!GroupOf(r)) /\ fragment[t][0] = <<r, 0>>
          /\ (~CpAsync!AsyncScale /\ r % 2 = 1 => scales[t] = CpAsync!GroupOf(r))
      BY ONLY <1>1, <1>2, <1>5, <1>6, <2>3 DEF Facts, RegisterOf
    <3>3. (CpAsync!AsyncScale => r % 2 = 1) => scales'[t] = CpAsync!GroupOf(r)
      <4>1. r >= 0 /\ (r % 2 = 0 \/ r % 2 = 1)
        BY ONLY <1>6
      <4> QED BY ONLY <2>2, <2>5, <3>2, <4>1
    <3>4. processed'[t] = r /\ products'[t] = products[t] /\ sum'[t] = sum[t]
          /\ fragment'[t] = fragment[t]
      BY ONLY <1>2, <1>5
    <3> QED BY ONLY <1>4, <2>2, <3>1, <3>2, <3>3, <3>4 DEF RegisterOf
  <2>9. EpilogueOf(t)'
    BY ONLY <1>1, <1>2, <2>2 DEF Facts, EpilogueOf
  <2>10. Types'
    BY ONLY <1>2, <1>3, <2>2 DEF Types, Shares, Pending, CpAsync!Pipes, CpAsync!Stages
  <2>11. \A u \in CopyThreads \ {t} : Kept(u)
    BY ONLY <1>2, <2>2 DEF Kept
  <2> QED BY ONLY <1>2, <1>11, <2>4, <2>6, <2>7, <2>8, <2>9, <2>10, <2>11 DEF Moved
<1>13. CASE ~CpAsync!MoreTiles(t)
  <2>1. PICK d \in {"drain", "direct"} : pc' = [pc EXCEPT ![t] = d] /\ UNCHANGED <<scales, block>>
    BY <1>13 DEF CpAsync!Top, CpAsync!Goes
  <2>2. /\ pc'[t] = d /\ d \in {"drain", "direct"} /\ DOMAIN pc' = CopyThreads
        /\ \A u \in CopyThreads \ {t} : pc'[u] = pc[u]
    BY ONLY <1>3, <2>1, t \in CopyThreads DEF Types
  <2>3. r = tiles
    BY ONLY <1>4, <1>6, <1>9, <1>13
  <2>4. Lap(t)' = r /\ Round(t)' = r /\ ~HasCopied(t)'
    <3>1. r + 0 = r
      BY ONLY <1>6
    <3>2. Lap(t)' = r
      BY ONLY <1>2, <1>5, <2>2, <3>1 DEF Lap, Late, Bit, Begins
    <3> QED BY ONLY <2>2, <3>2 DEF Round, HasCopied
  <2>5. PlaceOf(t)'
    <3>1. PlaceOf(t) /\ count[t] \in Int
      BY ONLY <1>1 DEF Facts
    <3> QED BY ONLY <1>2, <1>4, <1>6, <1>10, <2>2, <2>4, <3>1 DEF PlaceOf, Bit, Begins, Ends
  <2>6. ControlOf(t)'
    BY ONLY <1>1, <1>2, <1>4, <1>5, <2>1, <2>2, <2>3
       DEF Facts, ControlOf, InLoop, Steps, Directs, Body, Begins, Ends
  <2>7. RegisterOf(t)' /\ EpilogueOf(t)'
    BY ONLY <1>1, <1>2, <2>1, <2>2 DEF Facts, RegisterOf, EpilogueOf, InTile, InLoop, Body
  <2>8. Types'
    BY ONLY <1>2, <1>3, <2>1, <2>2 DEF Types, Shares, Pending, CpAsync!Pipes, CpAsync!Stages
  <2>9. \A u \in CopyThreads \ {t} : Kept(u)
    BY ONLY <1>2, <2>1, <2>2 DEF Kept
  <2> QED BY ONLY <1>2, <1>11, <2>4, <2>5, <2>6, <2>7, <2>8, <2>9 DEF Moved
<1> QED BY <1>12, <1>13

\* The fragment of the next step, of the next tile in the last step.
LEMMA LoadFragmentMoves ==
  ASSUME CpAsync!ShapeAssumption, LoopInv, NEW t \in CopyThreads, CpAsync!LoadFragment(t)
  PROVE  Moved(t)
<1>1. Facts(t)
  BY FactsHold
<1>2. /\ pc[t] = "load"
      /\ fragment' = [fragment EXCEPT ![t][CpAsync!NextBlock(t)] = <<CpAsync!Content(slice[t]), CpAsync!NextBlock(t)>>]
      /\ pc' = [pc EXCEPT ![t] = IF block[t] = 0 THEN "copy" ELSE "gemm"]
      /\ UNCHANGED <<kernel, tiles, shared, pending, block, count, next, read, write, slice,
                     products, scales, processed, sum, exchange, output, CpAsync!call>>
  BY DEF CpAsync!LoadFragment, CpAsync!At, CpAsync!Goes, CpAsync!call, CpAsync!memory,
       CpAsync!source, CpAsync!pipes, CpAsync!results, CpAsync!epilogue
<1>3. Types /\ Sized /\ BufferOf(t) /\ PlaceOf(t)
  BY ONLY <1>1 DEF Facts
<1>4. /\ tiles \in Nat \ {0} /\ CpAsync!Stages \in {2, 3} /\ CpAsync!LastBlock \in Nat \ {0}
      /\ CpAsync!Stages' = CpAsync!Stages
      /\ CpAsync!AsyncScale' = CpAsync!AsyncScale /\ KBlocks = CpAsync!LastBlock + 1
      /\ CpAsync!LastBlock' = CpAsync!LastBlock
  BY ONLY <1>2, <1>3 DEF Sized, CpAsync!Stages, CpAsync!AsyncScale, CpAsync!LastBlock
<1>5. PICK r, b : r = processed[t] /\ b = block[t]
  OBVIOUS
<1>6. r \in Nat /\ r < tiles /\ b \in 0 .. CpAsync!LastBlock
  BY ONLY <1>1, <1>2, <1>4, <1>5 DEF Facts, ControlOf, InLoop, Body
<1>7. /\ pc'[t] \in {"copy", "gemm"} /\ (pc'[t] = "copy" <=> b = 0)
      /\ DOMAIN pc' = CopyThreads /\ \A u \in CopyThreads \ {t} : pc'[u] = pc[u]
      /\ block'[t] = b /\ processed'[t] = r
  BY ONLY <1>2, <1>3, <1>5, t \in CopyThreads DEF Types
<1>8. /\ Lap(t) = r + Bit(b = CpAsync!LastBlock) /\ Lap(t)' = Lap(t) /\ Round(t) = Lap(t)
      /\ Round(t)' = Lap(t)
      /\ (HasCopied(t) <=> b > 0 /\ b < CpAsync!LastBlock)
      /\ (HasCopied(t)' <=> b > 0 /\ b < CpAsync!LastBlock)
  <2>1. Lap(t) = r + Bit(b = CpAsync!LastBlock)
    BY ONLY <1>2, <1>5 DEF Lap, Late, Begins, Bit
  <2>2. Lap(t)' = r + Bit(b = CpAsync!LastBlock)
    <3>1. b = 0 => b # CpAsync!LastBlock
      BY ONLY <1>4
    <3> QED BY ONLY <1>4, <1>7, <3>1 DEF Lap, Late, Begins, Bit
  <2>3. Round(t) = Lap(t) /\ Round(t)' = Lap(t)'
    BY ONLY <1>2, <1>7 DEF Round
  <2>4. /\ (HasCopied(t) <=> b > 0 /\ b < CpAsync!LastBlock)
        /\ (HasCopied(t)' <=> b > 0 /\ b < CpAsync!LastBlock)
    <3>1. b = 0 \/ b > 0
      BY ONLY <1>6
    <3> QED BY ONLY <1>2, <1>4, <1>5, <1>7, <3>1 DEF HasCopied
  <2> QED BY ONLY <2>1, <2>2, <2>3, <2>4
<1>9. PICK l : l = Lap(t)
  OBVIOUS
<1>10. /\ l \in Nat /\ (b < CpAsync!LastBlock => l = r) /\ (b = CpAsync!LastBlock => l = r + 1)
       /\ l <= tiles
       /\ slice[t] = l % CpAsync!Stages
  <2>1. (b < CpAsync!LastBlock => l = r + 0) /\ (b = CpAsync!LastBlock => l = r + 1)
    BY ONLY <1>4, <1>6, <1>8, <1>9 DEF Bit
  <2>2. slice[t] = (l + 0) % CpAsync!Stages
    BY ONLY <1>1, <1>2, <1>9 DEF Facts, PlaceOf, Begins, Bit
  <2>3. l \in Nat
    BY ONLY <1>4, <1>6, <2>1
  <2>4. l + 0 = l
    BY ONLY <2>3
  <2> QED BY ONLY <1>4, <1>6, <2>1, <2>2, <2>3, <2>4
<1>11. BufferOf(t)' /\ Copied(t)' = Copied(t) /\ Waited(t)' = Waited(t)
  <2>1. /\ count'[t] = count[t] /\ next'[t] = next[t] /\ pending'[t] = pending[t]
        /\ UNCHANGED CpAsync!call
    BY ONLY <1>2
  <2>2. (Round(t) <= tiles)' => Round(t) <= tiles
    BY ONLY <1>2, <1>8
  <2>3. (Round(t) <= tiles)' => \A k \in CpAsync!Pipes : shared'[k][t] = shared[k][t]
    BY ONLY <1>2
  <2> QED BY ONLY <1>3, <2>1, <2>2, <2>3, t \in CopyThreads, BufferSame
<1>12. PlaceOf(t)'
  <2>1. PlaceOf(t) /\ count[t] \in Int
    BY ONLY <1>1 DEF Facts
  <2>2. Bit(HasCopied(t)') = Bit(HasCopied(t))
    BY ONLY <1>8 DEF Bit
  <2> QED BY ONLY <1>2, <1>4, <1>7, <1>8, <1>11, <2>1, <2>2 DEF PlaceOf, Bit, Begins, Ends
<1>13. ControlOf(t)'
  BY ONLY <1>2, <1>4, <1>6, <1>7 DEF ControlOf, InLoop, Steps, Directs, Body, Begins, Ends
<1>14. PICK n : n = CpAsync!NextBlock(t)
  OBVIOUS
<1>15. /\ n \in 0 .. CpAsync!LastBlock /\ (b < CpAsync!LastBlock => n = b + 1)
       /\ (b = CpAsync!LastBlock => n = 0) /\ n # b
  <2>1. n = (b + 1) % (CpAsync!LastBlock + 1)
    BY ONLY <1>4, <1>5, <1>14 DEF CpAsync!NextBlock
  <2>2. b < CpAsync!LastBlock => (b + 1) % (CpAsync!LastBlock + 1) = b + 1
    BY ONLY <1>4, <1>6
  <2>3. b = CpAsync!LastBlock => (b + 1) % (CpAsync!LastBlock + 1) = 0
    BY ONLY <1>4, <1>6
  <2> QED BY ONLY <1>4, <1>6, <2>1, <2>2, <2>3
<1>16. CpAsync!Content(slice[t]) = Tile(l) /\ Tile(l) \in Int /\ (l < tiles => Tile(l) = l)
  <2>1. CpAsync!Content(l % CpAsync!Stages) = Tile(l)
    BY ONLY <1>2, <1>9, CpAsync!ShapeAssumption, LoopInv, t \in CopyThreads, ContentOf
       DEF Begins, Ends
  <2> QED BY ONLY <1>4, <1>10, <2>1 DEF Tile
<1>17. /\ fragment'[t][n] = <<Tile(l), n>>
       /\ fragment' \in [CopyThreads -> [0 .. CpAsync!LastBlock -> Int \X Int]]
       /\ \A c \in (0 .. CpAsync!LastBlock) \ {n} : fragment'[t][c] = fragment[t][c]
       /\ \A u \in CopyThreads \ {t} : fragment'[u] = fragment[u]
  <2>1. fragment \in [CopyThreads -> [0 .. CpAsync!LastBlock -> Int \X Int]]
    BY ONLY <1>3 DEF Types
  <2>2. fragment' = [fragment EXCEPT ![t][n] = <<Tile(l), n>>]
    BY ONLY <1>2, <1>14, <1>16
  <2>3. n \in 0 .. CpAsync!LastBlock /\ <<Tile(l), n>> \in Int \X Int
    BY ONLY <1>4, <1>15, <1>16
  <2>4. PICK x : x = <<Tile(l), n>>
    OBVIOUS
  <2>5. x \in Int \X Int /\ fragment' = [fragment EXCEPT ![t][n] = x]
    BY ONLY <2>2, <2>3, <2>4
  <2>6. /\ fragment' \in [CopyThreads -> [0 .. CpAsync!LastBlock -> Int \X Int]]
        /\ fragment'[t][n] = x
        /\ \A c \in (0 .. CpAsync!LastBlock) \ {n} : fragment'[t][c] = fragment[t][c]
        /\ \A u \in CopyThreads \ {t} : fragment'[u] = fragment[u]
    BY ONLY <2>1, <2>3, <2>5, t \in CopyThreads, FragmentSet
  <2> QED BY ONLY <2>4, <2>6
<1>18. RegisterOf(t)'
  <2>1. /\ products[t] = Terms(CpAsync!GroupOf(r), ((r % 2) * KBlocks) + b)
        /\ sum[t] = CpAsync!InOrder(CpAsync!GroupOf(r)) /\ fragment[t][b] = <<r, b>>
        /\ ((CpAsync!AsyncScale => r % 2 = 1) => scales[t] = CpAsync!GroupOf(r))
    BY ONLY <1>1, <1>2, <1>5 DEF Facts, RegisterOf, InTile, InLoop, Body
  <2>2. InTile(t)' = b /\ InLoop(t)' /\ fragment'[t][b] = <<r, b>>
    BY ONLY <1>6, <1>7, <1>15, <1>17, <2>1 DEF InTile, InLoop, Body
  <2>3. b < CpAsync!LastBlock => fragment'[t][b + 1] = <<r, b + 1>>
    BY ONLY <1>6, <1>10, <1>15, <1>16, <1>17
  <2>4. b = CpAsync!LastBlock /\ l < tiles => fragment'[t][0] = <<l, 0>>
    BY ONLY <1>15, <1>16, <1>17
  <2>5. pc'[t] # "top" /\ Lap(t)' = l /\ block'[t] = b /\ processed'[t] = r
    BY ONLY <1>7, <1>8, <1>9
  <2> QED BY ONLY <1>2, <1>4, <2>1, <2>2, <2>3, <2>4, <2>5 DEF RegisterOf
<1>19. EpilogueOf(t)'
  BY ONLY <1>1, <1>2, <1>7 DEF Facts, EpilogueOf
<1>20. Types'
  BY ONLY <1>2, <1>3, <1>4, <1>7, <1>17 DEF Types, Shares, Pending, CpAsync!Pipes, CpAsync!Stages
<1>21. \A u \in CopyThreads \ {t} : Kept(u)
  BY ONLY <1>2, <1>7, <1>17 DEF Kept
<1> QED BY ONLY <1>2, <1>8, <1>11, <1>12, <1>13, <1>18, <1>19, <1>20, <1>21 DEF Moved

\* The copy of a tile, into the stage the previous tile has left.
LEMMA CopyAheadMoves ==
  ASSUME CpAsync!ShapeAssumption, LoopInv, NEW t \in CopyThreads, CpAsync!CopyAhead(t)
  PROVE  Moved(t)
<1>1. Facts(t)
  BY FactsHold
<1>2. /\ pc[t] = "copy" /\ CpAsync!Copy(t, write[t]) /\ pc' = [pc EXCEPT ![t] = "gemm"]
      /\ write' = [write EXCEPT ![t] = read[t]]
      /\ read' = [read EXCEPT ![t] = IF @ = CpAsync!Stages - 1 THEN 0 ELSE @ + 1]
      /\ UNCHANGED <<kernel, tiles, block, slice, fragment, products, scales, processed, sum,
                     exchange, output, CpAsync!call>>
  BY DEF CpAsync!CopyAhead, CpAsync!Freed, CpAsync!At, CpAsync!Goes, CpAsync!call,
       CpAsync!registers, CpAsync!results, CpAsync!epilogue
<1>3. Types /\ Sized /\ BufferOf(t) /\ PlaceOf(t)
  BY ONLY <1>1 DEF Facts
<1>4. /\ tiles \in Nat \ {0} /\ CpAsync!Stages \in {2, 3} /\ CpAsync!LastBlock \in Nat \ {0}
      /\ CpAsync!Stages' = CpAsync!Stages
      /\ CpAsync!AsyncScale' = CpAsync!AsyncScale /\ CpAsync!LastBlock' = CpAsync!LastBlock
  BY ONLY <1>2, <1>3 DEF Sized, CpAsync!Stages, CpAsync!AsyncScale, CpAsync!LastBlock
<1>5. /\ pc'[t] = "gemm" /\ DOMAIN pc' = CopyThreads
      /\ \A u \in CopyThreads \ {t} : pc'[u] = pc[u]
      /\ write'[t] = read[t] /\ DOMAIN write' = CopyThreads
      /\ \A u \in CopyThreads \ {t} : write'[u] = write[u]
      /\ read'[t] = (IF read[t] = CpAsync!Stages - 1 THEN 0 ELSE read[t] + 1)
      /\ DOMAIN read' = CopyThreads
      /\ \A u \in CopyThreads \ {t} : read'[u] = read[u]
  BY ONLY <1>2, <1>3, t \in CopyThreads DEF Types
<1>6. PICK r : r = processed[t]
  OBVIOUS
<1>7. r \in Nat /\ r < tiles /\ block[t] = 0
  BY ONLY <1>1, <1>2, <1>4, <1>6 DEF Facts, ControlOf, InLoop, Body
<1>8. /\ Lap(t) = r /\ Round(t) = r /\ ~HasCopied(t)
      /\ Lap(t)' = r /\ Round(t)' = r /\ HasCopied(t)'
  <2>1. r + 0 = r /\ 0 # CpAsync!LastBlock /\ 0 < CpAsync!LastBlock
    BY ONLY <1>4, <1>7
  <2>2. Lap(t) = r /\ Lap(t)' = r
    BY ONLY <1>2, <1>4, <1>5, <1>6, <1>7, <2>1 DEF Lap, Late, Bit, Begins
  <2> QED BY ONLY <1>2, <1>4, <1>5, <1>7, <2>1, <2>2 DEF Round, HasCopied
<1>9. PICK c : c = Copied(t)
  OBVIOUS
<1>10. /\ c \in Nat /\ c = CpAsync!Stages - 1 + r /\ Waited(t) = r + 1
       /\ read[t] = (c + 1) % CpAsync!Stages /\ slice[t] = r % CpAsync!Stages
  <2>1. /\ c \in Nat /\ c = CpAsync!Stages - 1 + r + 0 /\ Waited(t) = r + 1 + 0
        /\ read[t] = (c + 1) % CpAsync!Stages /\ slice[t] = (r + 0) % CpAsync!Stages
    BY ONLY <1>1, <1>2, <1>8, <1>9 DEF Facts, PlaceOf, Begins, Ends, Bit
  <2>2. CpAsync!Stages - 1 + r + 0 = CpAsync!Stages - 1 + r /\ r + 1 + 0 = r + 1 /\ r + 0 = r
    BY ONLY <1>4, <1>7
  <2> QED BY ONLY <2>1, <2>2
<1>11. /\ BufferOf(t)' /\ Copied(t)' = c + 1 /\ Waited(t)' = r + 1
       /\ count'[t] = count[t] - 1
       /\ shared' \in [CpAsync!Pipes -> [CopyThreads -> Shares]]'
       /\ pending' \in [CopyThreads -> Seq(Pending)]'
       /\ DOMAIN count' = CopyThreads /\ DOMAIN next' = CopyThreads
       /\ \A u \in CopyThreads \ {t} :
            /\ count'[u] = count[u] /\ next'[u] = next[u] /\ pending'[u] = pending[u]
            /\ \A k \in CpAsync!Pipes : shared'[k][u] = shared[k][u]
  <2>1. (Round(t) <= tiles)' => Round(t) <= tiles
    BY ONLY <1>2, <1>8
  <2>2. Waited(t) \in Nat /\ Copied(t) < Waited(t) + CpAsync!Stages /\ Waited(t) <= Copied(t)
    BY ONLY <1>4, <1>7, <1>9, <1>10
  <2>3. /\ BufferOf(t)' /\ Copied(t)' = Copied(t) + 1 /\ Waited(t)' = Waited(t)
        /\ count'[t] = count[t] - 1
        /\ shared' \in [CpAsync!Pipes -> [CopyThreads -> Shares]]'
        /\ pending' \in [CopyThreads -> Seq(Pending)]'
        /\ DOMAIN count' = CopyThreads /\ DOMAIN next' = CopyThreads
        /\ \A u \in CopyThreads \ {t} :
             /\ count'[u] = count[u] /\ next'[u] = next[u] /\ pending'[u] = pending[u]
             /\ \A k \in CpAsync!Pipes : shared'[k][u] = shared[k][u]
    BY ONLY <1>2, <1>3, <2>1, <2>2, t \in CopyThreads, CopyStep
  <2> QED BY ONLY <1>9, <1>10, <2>3
<1>12. PlaceOf(t)'
  <2>1. Waited(t)' = Lap(t)' + 1 + 0
    BY ONLY <1>7, <1>8, <1>11
  <2>2. Copied(t)' = CpAsync!Stages - 1 + Lap(t)' + 1
    <3>1. c + 1 = CpAsync!Stages - 1 + r + 1
      BY ONLY <1>10
    <3> QED BY ONLY <1>8, <1>11, <3>1
  <2>3. count'[t] \in Int /\ Copied(t)' >= 0
    <3>1. count[t] \in Int
      BY ONLY <1>1 DEF Facts
    <3> QED BY ONLY <1>10, <1>11, <3>1
  <2>4. slice'[t] = (Lap(t)' + 0) % CpAsync!Stages
    BY ONLY <1>2, <1>7, <1>8, <1>10, r + 0 = r
  <2>5. read'[t] = (Copied(t)' + 1) % CpAsync!Stages
    <3>1. PICK n, d : n = CpAsync!Stages /\ d = c + 1
      OBVIOUS
    <3>2. n \in {2, 3} /\ d \in Int
      BY ONLY <1>4, <1>10, <3>1
    <3>3. (d + 1) % n = IF d % n = n - 1 THEN 0 ELSE (d % n) + 1
      <4>1. CASE n = 2
        BY ONLY <3>2, <4>1
      <4>2. CASE n = 3
        BY ONLY <3>2, <4>2
      <4> QED BY ONLY <3>2, <4>1, <4>2
    <3> QED BY ONLY <1>4, <1>5, <1>10, <1>11, <3>1, <3>3
  <2> QED BY ONLY <1>2, <1>4, <1>5, <1>8, <1>10, <1>11, <2>1, <2>2, <2>3, <2>4, <2>5
       DEF PlaceOf, Bit, Begins, Ends
<1>13. ControlOf(t)'
  BY ONLY <1>1, <1>2, <1>4, <1>5 DEF Facts, ControlOf, InLoop, Steps, Directs, Body, Begins, Ends
<1>14. RegisterOf(t)' /\ EpilogueOf(t)'
  <2>1. block[t] # CpAsync!LastBlock
    BY ONLY <1>4, <1>7
  <2> QED BY ONLY <1>1, <1>2, <1>4, <1>5, <2>1
       DEF Facts, RegisterOf, EpilogueOf, InTile, InLoop, Body
<1>15. Types'
  BY ONLY <1>2, <1>3, <1>5, <1>11 DEF Types
<1>16. \A u \in CopyThreads \ {t} : Kept(u)
  BY ONLY <1>2, <1>5, <1>11 DEF Kept
<1> QED BY ONLY <1>2, <1>8, <1>11, <1>12, <1>13, <1>14, <1>15, <1>16 DEF Moved

LEMMA GroupsOf ==
  ASSUME NEW r \in Nat
  PROVE  /\ CpAsync!GroupOf(r) \in Nat
         /\ r % 2 = 0 => CpAsync!GroupOf(r + 1) = CpAsync!GroupOf(r) /\ (r + 1) % 2 = 1
         /\ r % 2 = 1 => /\ CpAsync!GroupOf(r + 1) = CpAsync!GroupOf(r) + 1 /\ (r + 1) % 2 = 0
         /\ r % 2 = 0 \/ r % 2 = 1
BY DEF CpAsync!GroupOf

\* Two tiles' steps are the products a promotion must find.
LEMMA WholeGroup ==
  ASSUME Sized, NEW g \in Nat
  PROVE  Terms(g, (1 * KBlocks) + CpAsync!LastBlock + 1) = CpAsync!Products(g)
<1>1. (1 * KBlocks) + CpAsync!LastBlock + 1 = 2 * KBlocks
  BY DEF Sized
<1> QED BY <1>1 DEF Terms, CpAsync!Products

\* An MMA step, which promotes at the end of a group.
LEMMA GemmMoves ==
  ASSUME CpAsync!ShapeAssumption, LoopInv, NEW t \in CopyThreads, CpAsync!Gemm(t)
  PROVE  Moved(t)
<1> DEFINE terms == Append(products[t], fragment[t][block[t]])
           ends == block[t] = CpAsync!LastBlock
           promotes == ends /\ CpAsync!GroupEnds(processed[t])
<1>1. Facts(t)
  BY FactsHold
<1>2. /\ pc[t] = "gemm"
      /\ products' = [products EXCEPT ![t] = IF promotes THEN <<>> ELSE terms]
      /\ sum' = [sum EXCEPT ![t] = IF promotes THEN Append(@, CpAsync!Promoted(terms, scales[t])) ELSE @]
      /\ processed' = [processed EXCEPT ![t] = IF ends THEN @ + 1 ELSE @]
      /\ block' = [block EXCEPT ![t] = IF ends THEN @ ELSE @ + 1]
      /\ pc' = [pc EXCEPT ![t] =
                  IF ends THEN "top" ELSE IF block[t] + 1 = CpAsync!LastBlock THEN "wait" ELSE "load"]
      /\ UNCHANGED <<kernel, tiles, shared, pending, count, next, read, write, slice, fragment,
                     scales, exchange, output, CpAsync!call>>
  BY DEF CpAsync!Gemm, CpAsync!At, CpAsync!Goes, CpAsync!call, CpAsync!memory, CpAsync!source,
       CpAsync!pipes, CpAsync!epilogue
<1>3. Types /\ Sized /\ BufferOf(t) /\ PlaceOf(t)
  BY ONLY <1>1 DEF Facts
<1>4. /\ tiles \in Nat \ {0} /\ CpAsync!Stages \in {2, 3} /\ CpAsync!LastBlock \in Nat \ {0}
      /\ CpAsync!Stages' = CpAsync!Stages
      /\ CpAsync!AsyncScale' = CpAsync!AsyncScale /\ CpAsync!LastBlock' = CpAsync!LastBlock
  BY ONLY <1>2, <1>3 DEF Sized, CpAsync!Stages, CpAsync!AsyncScale, CpAsync!LastBlock
<1>5. PICK r, b : r = processed[t] /\ b = block[t]
  OBVIOUS
<1>6. r \in Nat /\ r < tiles /\ b \in 0 .. CpAsync!LastBlock
  BY ONLY <1>1, <1>2, <1>4, <1>5 DEF Facts, ControlOf, InLoop, Body
<1>7. PICK y : y = terms
  OBVIOUS
<1>8. y = Terms(CpAsync!GroupOf(r), ((r % 2) * KBlocks) + b + 1)
  <2>1. /\ products[t] = Terms(CpAsync!GroupOf(r), ((r % 2) * KBlocks) + b)
        /\ fragment[t][b] = <<r, b>>
    BY ONLY <1>1, <1>2, <1>5 DEF Facts, RegisterOf, InTile, InLoop, Body
  <2> QED BY <1>3, <1>5, <1>6, <1>7, <2>1, TermsNext
<1>9. /\ products'[t] = (IF b = CpAsync!LastBlock /\ r % 2 = 1 THEN <<>> ELSE y)
      /\ sum'[t] = (IF b = CpAsync!LastBlock /\ r % 2 = 1 THEN Append(sum[t], CpAsync!Promoted(y, scales[t]))
                    ELSE sum[t])
      /\ processed'[t] = (IF b = CpAsync!LastBlock THEN r + 1 ELSE r)
      /\ block'[t] = (IF b = CpAsync!LastBlock THEN b ELSE b + 1)
      /\ pc'[t] = (IF b = CpAsync!LastBlock THEN "top" ELSE IF b + 1 = CpAsync!LastBlock THEN "wait" ELSE "load")
  BY ONLY <1>2, <1>3, <1>5, <1>7, t \in CopyThreads DEF Types, CpAsync!GroupEnds
<1>10. /\ DOMAIN pc' = CopyThreads /\ DOMAIN products' = CopyThreads /\ DOMAIN sum' = CopyThreads
       /\ DOMAIN processed' = CopyThreads /\ DOMAIN block' = CopyThreads
       /\ \A u \in CopyThreads \ {t} :
            /\ pc'[u] = pc[u] /\ products'[u] = products[u] /\ sum'[u] = sum[u]
            /\ processed'[u] = processed[u] /\ block'[u] = block[u]
  BY ONLY <1>2, <1>3, t \in CopyThreads DEF Types
<1> HIDE DEF terms, ends, promotes
<1>11. /\ sum[t] = CpAsync!InOrder(CpAsync!GroupOf(r))
       /\ ((CpAsync!AsyncScale => r % 2 = 1) => scales[t] = CpAsync!GroupOf(r))
       /\ (b < CpAsync!LastBlock => fragment[t][b + 1] = <<r, b + 1>>)
  BY ONLY <1>1, <1>2, <1>5 DEF Facts, RegisterOf, InLoop, Body
<1>12. /\ Types'
       /\ \A u \in CopyThreads \ {t} : Kept(u)
  <2>1. Types'
    BY ONLY <1>2, <1>3, <1>4, <1>10 DEF Types, Shares, Pending, CpAsync!Pipes, CpAsync!Stages
  <2>2. \A u \in CopyThreads \ {t} : Kept(u)
    BY ONLY <1>2, <1>10 DEF Kept
  <2> QED BY ONLY <2>1, <2>2
<1>13. EpilogueOf(t)
  BY ONLY <1>1 DEF Facts
<1>14. Copied(t)' = Copied(t) /\ Waited(t)' = Waited(t)
  BY ONLY <1>2 DEF Copied, Waited
<1>15. ASSUME Lap(t)' = Lap(t), Round(t)' = Round(t)
       PROVE  BufferOf(t)'
  <2>1. /\ count'[t] = count[t] /\ next'[t] = next[t] /\ pending'[t] = pending[t]
        /\ UNCHANGED CpAsync!call
    BY ONLY <1>2
  <2>2. (Round(t) <= tiles)' => Round(t) <= tiles
    BY ONLY <1>2, <1>15
  <2>3. (Round(t) <= tiles)' => \A k \in CpAsync!Pipes : shared'[k][t] = shared[k][t]
    BY ONLY <1>2
  <2> QED BY ONLY <1>3, <2>1, <2>2, <2>3, t \in CopyThreads, BufferSame
<1>16. CASE b = CpAsync!LastBlock
  <2>1. pc'[t] = "top" /\ block'[t] = b /\ processed'[t] = r + 1
    BY ONLY <1>9, <1>16
  <2>2. /\ Lap(t) = r + 1 /\ Lap(t)' = r + 1 /\ Round(t) = r + 1 /\ Round(t)' = r + 1
        /\ ~HasCopied(t) /\ ~HasCopied(t)'
    <3>1. Lap(t) = r + 1
      BY ONLY <1>2, <1>5, <1>16 DEF Lap, Late, Bit, Begins
    <3>2. Lap(t)' = r + 1
      <4>1. r + 1 + 0 = r + 1
        BY ONLY <1>6
      <4> QED BY ONLY <2>1, <4>1 DEF Lap, Late, Bit, Begins
    <3>3. ~(b < CpAsync!LastBlock)
      BY ONLY <1>4, <1>16
    <3> QED BY ONLY <1>2, <1>5, <2>1, <3>1, <3>2, <3>3 DEF Round, HasCopied
  <2>3. PlaceOf(t)'
    <3>1. PlaceOf(t) /\ count[t] \in Int
      BY ONLY <1>1 DEF Facts
    <3> QED BY ONLY <1>2, <1>4, <1>14, <2>1, <2>2, <3>1 DEF PlaceOf, Bit, Begins, Ends
  <2>4. ControlOf(t)'
    <3>1. r + 1 \in 0 .. tiles
      BY ONLY <1>4, <1>6
    <3> QED BY ONLY <1>2, <1>4, <1>6, <1>16, <2>1, <3>1
         DEF ControlOf, InLoop, Steps, Directs, Body, Begins, Ends
  <2>5. InTile(t)' = 0 /\ ~InLoop(t)'
    BY ONLY <2>1 DEF InTile, InLoop, Body
  <2>6. r + 1 < tiles => fragment'[t][0] = <<r + 1, 0>>
    BY ONLY <1>1, <1>2, <1>5, <1>16, <2>2 DEF Facts, RegisterOf
  <2>7. RegisterOf(t)'
    <3>1. CASE r % 2 = 1
      <4>1. /\ CpAsync!GroupOf(r + 1) = CpAsync!GroupOf(r) + 1 /\ (r + 1) % 2 = 0
            /\ CpAsync!GroupOf(r) \in Nat
        BY ONLY <1>6, <3>1, GroupsOf
      <4>2. products'[t] = <<>> /\ sum'[t] = Append(sum[t], CpAsync!Promoted(y, scales[t]))
        BY ONLY <1>9, <1>16, <3>1
      <4>3. y = CpAsync!Products(CpAsync!GroupOf(r)) /\ scales[t] = CpAsync!GroupOf(r)
        BY ONLY <1>3, <1>8, <1>11, <1>16, <3>1, <4>1, WholeGroup
      <4>4. CpAsync!Promoted(y, scales[t]) = CpAsync!GroupOf(r)
        BY ONLY <4>3 DEF CpAsync!Promoted
      <4>5. sum'[t] = CpAsync!InOrder(CpAsync!GroupOf(r + 1))
        BY ONLY <1>11, <4>1, <4>2, <4>4, OrderNext
      <4>6. products'[t] = Terms(CpAsync!GroupOf(r + 1), ((r + 1) % 2) * KBlocks + 0)
        <5>1. 0 * KBlocks + 0 = 0
          BY <1>3 DEF Sized
        <5> QED BY ONLY <4>1, <4>2, <5>1, TermsZero
      <4> QED BY ONLY <1>2, <1>4, <2>1, <2>2, <2>5, <2>6, <4>1, <4>5, <4>6 DEF RegisterOf
    <3>2. CASE r % 2 # 1
      <4>1. r % 2 = 0 /\ CpAsync!GroupOf(r + 1) = CpAsync!GroupOf(r) /\ (r + 1) % 2 = 1
        BY ONLY <1>6, <3>2, GroupsOf
      <4>2. products'[t] = y /\ sum'[t] = sum[t]
        BY ONLY <1>9, <3>2
      <4>3. products'[t] = Terms(CpAsync!GroupOf(r + 1), ((r + 1) % 2) * KBlocks + 0)
        <5>1. (0 * KBlocks) + CpAsync!LastBlock + 1 = 1 * KBlocks + 0
          BY <1>3 DEF Sized
        <5> QED BY ONLY <1>8, <1>16, <4>1, <4>2, <5>1
      <4>4. ~CpAsync!AsyncScale => scales'[t] = CpAsync!GroupOf(r + 1)
        BY ONLY <1>2, <1>11, <4>1
      <4> QED BY ONLY <1>2, <1>4, <1>11, <2>1, <2>2, <2>5, <2>6, <4>1, <4>2, <4>3, <4>4
           DEF RegisterOf
    <3> QED BY ONLY <3>1, <3>2
  <2>8. EpilogueOf(t)'
    BY ONLY <1>2, <1>13, <2>1 DEF EpilogueOf
  <2>9. BufferOf(t)' /\ Round(t)' = Round(t)
    BY ONLY <1>15, <2>2
  <2> QED BY ONLY <1>2, <1>12, <2>3, <2>4, <2>7, <2>8, <2>9 DEF Moved
<1>17. CASE b # CpAsync!LastBlock
  <2>1. /\ pc'[t] \in {"wait", "load"} /\ (pc'[t] = "wait" <=> b + 1 = CpAsync!LastBlock)
        /\ block'[t] = b + 1 /\ processed'[t] = r /\ products'[t] = y /\ sum'[t] = sum[t]
    BY ONLY <1>9, <1>17
  <2>2. /\ b < CpAsync!LastBlock /\ b + 1 > 0 /\ b + 1 \in 0 .. CpAsync!LastBlock /\ b + 1 # 0
        /\ b + 1 \in Nat
        /\ (b + 1 # CpAsync!LastBlock => b + 1 < CpAsync!LastBlock)
    BY ONLY <1>4, <1>6, <1>17
  <2>3. /\ Lap(t) = r /\ Lap(t)' = r /\ Round(t) = r /\ Round(t)' = r
        /\ HasCopied(t) /\ HasCopied(t)'
    <3>1. r + 0 = r
      BY ONLY <1>6
    <3>2. Lap(t) = r
      BY ONLY <1>2, <1>5, <1>17, <3>1 DEF Lap, Late, Bit, Begins
    <3>3. Lap(t)' = r
      BY ONLY <1>4, <2>1, <3>1 DEF Lap, Late, Bit, Begins
    <3> QED BY ONLY <1>2, <1>4, <1>5, <2>1, <2>2, <3>2, <3>3 DEF Round, HasCopied
  <2>4. PlaceOf(t)'
    <3>1. PlaceOf(t) /\ count[t] \in Int
      BY ONLY <1>1 DEF Facts
    <3> QED BY ONLY <1>2, <1>4, <1>14, <2>1, <2>3, <3>1 DEF PlaceOf, Bit, Begins, Ends
  <2>5. ControlOf(t)'
    <3>1. r \in 0 .. tiles
      BY ONLY <1>4, <1>6
    <3> QED BY ONLY <1>2, <1>4, <1>6, <2>1, <2>2, <3>1
         DEF ControlOf, InLoop, Steps, Directs, Body, Begins, Ends
  <2>6. InTile(t)' = b + 1 /\ InLoop(t)'
    BY ONLY <2>1 DEF InTile, InLoop, Body
  <2>7. RegisterOf(t)'
    <3>1. ((r % 2) * KBlocks) + b + 1 = ((r % 2) * KBlocks) + (b + 1)
      <4>1. KBlocks \in Nat /\ r % 2 \in Int
        BY <1>3, <1>6 DEF Sized
      <4>2. PICK z : z = (r % 2) * KBlocks
        OBVIOUS
      <4>3. z \in Int
        BY ONLY <4>1, <4>2
      <4>4. z + b + 1 = z + (b + 1)
        BY ONLY <1>6, <4>3
      <4> QED BY ONLY <4>2, <4>4
    <3>2. products'[t] = Terms(CpAsync!GroupOf(r), ((r % 2) * KBlocks) + (b + 1))
      BY ONLY <1>8, <2>1, <3>1
    <3>3. fragment'[t] = fragment[t] /\ scales'[t] = scales[t]
      BY ONLY <1>2
    <3> QED BY ONLY <1>4, <1>11, <2>1, <2>2, <2>6, <3>2, <3>3 DEF RegisterOf
  <2>8. EpilogueOf(t)'
    BY ONLY <1>2, <1>13, <2>1 DEF EpilogueOf
  <2>9. BufferOf(t)' /\ Round(t)' = Round(t)
    BY ONLY <1>15, <2>3
  <2> QED BY ONLY <1>2, <1>12, <2>4, <2>5, <2>7, <2>8, <2>9 DEF Moved
<1> QED BY ONLY <1>16, <1>17

\* Rows of a thread written over the stages.
LEMMA StageRowsMoves ==
  ASSUME CpAsync!ShapeAssumption, LoopInv, NEW t \in CopyThreads, CpAsync!StageRows(t)
  PROVE  Moved(t)
<1>1. Facts(t)
  BY FactsHold
<1>2. /\ pc[t] = "stage"
      /\ shared' = [k \in CpAsync!Pipes |-> [u \in CopyThreads |-> CpAsync!Staged]]
      /\ exchange' = [exchange EXCEPT ![t] = sum[t]] /\ pc' = [pc EXCEPT ![t] = "staged"]
      /\ UNCHANGED <<kernel, tiles, pending, block, count, next, read, write, slice, fragment,
                     products, scales, processed, sum, output, CpAsync!call>>
  BY DEF CpAsync!StageRows, CpAsync!At, CpAsync!Goes, CpAsync!call, CpAsync!source,
       CpAsync!pipes, CpAsync!registers, CpAsync!results
<1>3. Types /\ Sized /\ BufferOf(t) /\ PlaceOf(t)
  BY ONLY <1>1 DEF Facts
<1>4. /\ tiles \in Nat \ {0} /\ CpAsync!Stages \in {2, 3} /\ CpAsync!LastBlock \in Nat \ {0}
      /\ CpAsync!Stages' = CpAsync!Stages
      /\ CpAsync!AsyncScale' = CpAsync!AsyncScale /\ CpAsync!LastBlock' = CpAsync!LastBlock
  BY ONLY <1>2, <1>3 DEF Sized, CpAsync!Stages, CpAsync!AsyncScale, CpAsync!LastBlock
<1>5. /\ pc'[t] = "staged" /\ DOMAIN pc' = CopyThreads /\ exchange'[t] = sum[t]
      /\ DOMAIN exchange' = CopyThreads
      /\ \A u \in CopyThreads \ {t} : pc'[u] = pc[u] /\ exchange'[u] = exchange[u]
  BY ONLY <1>2, <1>3, t \in CopyThreads DEF Types
<1>6. /\ Lap(t)' = Lap(t) /\ Round(t) = tiles + 1 /\ Round(t)' = tiles + 1
      /\ ~HasCopied(t) /\ ~HasCopied(t)' /\ ~(tiles + 1 <= tiles)
  <2>1. ~(tiles + 1 <= tiles)
    BY ONLY <1>4
  <2> QED BY ONLY <1>2, <1>5, <2>1 DEF Lap, Late, Round, HasCopied, Begins
<1>7. BufferOf(t)' /\ Copied(t)' = Copied(t) /\ Waited(t)' = Waited(t)
  <2>1. /\ count'[t] = count[t] /\ next'[t] = next[t] /\ pending'[t] = pending[t]
        /\ UNCHANGED CpAsync!call
    BY ONLY <1>2
  <2>2. ~(Round(t) <= tiles)'
    BY ONLY <1>2, <1>6
  <2> QED BY ONLY <1>3, <2>1, <2>2, t \in CopyThreads, BufferSame
<1>8. PlaceOf(t)'
  <2>1. PlaceOf(t) /\ count[t] \in Int
    BY ONLY <1>1 DEF Facts
  <2> QED BY ONLY <1>2, <1>4, <1>5, <1>6, <1>7, <2>1 DEF PlaceOf, Bit, Begins, Ends
<1>9. ControlOf(t)'
  BY ONLY <1>1, <1>2, <1>4, <1>5 DEF Facts, ControlOf, InLoop, Steps, Directs, Body, Begins, Ends
<1>10. RegisterOf(t)'
  BY ONLY <1>1, <1>2, <1>4, <1>5 DEF Facts, RegisterOf, InTile, InLoop, Body
<1>11. EpilogueOf(t)'
  <2>1. sum[t] = CpAsync!InOrder(CpAsync!GroupOf(tiles))
    BY ONLY <1>1, <1>2 DEF Facts, RegisterOf, ControlOf, Ends
  <2> QED BY ONLY <1>1, <1>2, <1>5, <2>1 DEF Facts, EpilogueOf
<1>12. Types'
  <2>1. shared' \in [CpAsync!Pipes -> [CopyThreads -> Shares]]'
    BY ONLY <1>2 DEF Shares, CpAsync!Pipes, CpAsync!Stages
  <2> QED BY ONLY <1>2, <1>3, <1>5, <2>1 DEF Types, Pending, CpAsync!Pipes, CpAsync!Stages
<1>13. \A u \in CopyThreads \ {t} : Kept(u)
  <2>1. \A u \in CopyThreads : ~(Round(u) <= tiles)
    BY ONLY <1>6, LoopInv, t \in CopyThreads DEF LoopInv, Together
  <2> QED BY ONLY <1>2, <1>5, <2>1 DEF Kept
<1> QED BY ONLY <1>2, <1>6, <1>7, <1>8, <1>9, <1>10, <1>11, <1>12, <1>13 DEF Moved

\* Rows read back, once all have been staged.
LEMMA StoreRowsMoves ==
  ASSUME CpAsync!ShapeAssumption, LoopInv, NEW t \in CopyThreads, CpAsync!StoreRows(t)
  PROVE  Moved(t)
<1>1. Facts(t)
  BY FactsHold
<1>2. /\ pc[t] = "store" /\ pc' = [pc EXCEPT ![t] = "done"]
      /\ output' = [output EXCEPT ![t] = {exchange[u] : u \in CopyThreads}]
      /\ UNCHANGED <<kernel, tiles, shared, pending, block, count, next, read, write, slice,
                     fragment, products, scales, processed, sum, exchange, CpAsync!call>>
  BY DEF CpAsync!StoreRows, CpAsync!At, CpAsync!Goes, CpAsync!call, CpAsync!memory,
       CpAsync!source, CpAsync!pipes, CpAsync!registers, CpAsync!results
<1>3. Types /\ Sized /\ BufferOf(t) /\ PlaceOf(t)
  BY ONLY <1>1 DEF Facts
<1>4. /\ tiles \in Nat \ {0} /\ CpAsync!Stages \in {2, 3} /\ CpAsync!LastBlock \in Nat \ {0}
      /\ CpAsync!Stages' = CpAsync!Stages
      /\ CpAsync!AsyncScale' = CpAsync!AsyncScale /\ CpAsync!LastBlock' = CpAsync!LastBlock
  BY ONLY <1>2, <1>3 DEF Sized, CpAsync!Stages, CpAsync!AsyncScale, CpAsync!LastBlock
<1>5. /\ pc'[t] = "done" /\ DOMAIN pc' = CopyThreads
      /\ output'[t] = {exchange[u] : u \in CopyThreads}
      /\ DOMAIN output' = CopyThreads
      /\ \A u \in CopyThreads \ {t} : pc'[u] = pc[u] /\ output'[u] = output[u]
  BY ONLY <1>2, <1>3, t \in CopyThreads DEF Types
<1>6. /\ Lap(t)' = Lap(t) /\ Round(t) = tiles + 2 /\ Round(t)' = tiles + 2
      /\ ~HasCopied(t) /\ ~HasCopied(t)'
  BY ONLY <1>2, <1>5 DEF Lap, Late, Round, HasCopied, Begins
<1>7. BufferOf(t)' /\ Copied(t)' = Copied(t) /\ Waited(t)' = Waited(t)
  <2>1. /\ count'[t] = count[t] /\ next'[t] = next[t] /\ pending'[t] = pending[t]
        /\ UNCHANGED CpAsync!call
    BY ONLY <1>2
  <2>2. (Round(t) <= tiles)' => Round(t) <= tiles
    BY ONLY <1>2, <1>6
  <2>3. (Round(t) <= tiles)' => \A k \in CpAsync!Pipes : shared'[k][t] = shared[k][t]
    BY ONLY <1>2
  <2> QED BY ONLY <1>3, <2>1, <2>2, <2>3, t \in CopyThreads, BufferSame
<1>8. PlaceOf(t)'
  <2>1. PlaceOf(t) /\ count[t] \in Int
    BY ONLY <1>1 DEF Facts
  <2> QED BY ONLY <1>2, <1>4, <1>5, <1>6, <1>7, <2>1 DEF PlaceOf, Bit, Begins, Ends
<1>9. ControlOf(t)'
  BY ONLY <1>1, <1>2, <1>4, <1>5 DEF Facts, ControlOf, InLoop, Steps, Directs, Body, Begins, Ends
<1>10. RegisterOf(t)'
  BY ONLY <1>1, <1>2, <1>4, <1>5 DEF Facts, RegisterOf, InTile, InLoop, Body
<1>11. EpilogueOf(t)'
  <2>1. ASSUME NEW u \in CopyThreads PROVE exchange[u] = CpAsync!InOrder(CpAsync!GroupOf(tiles))
    <3>1. Facts(u)
      BY FactsHold
    <3>2. Round(u) = tiles + 2
      BY ONLY <1>6, LoopInv, t \in CopyThreads, u \in CopyThreads DEF LoopInv, Together
    <3>3. pc[u] \in {"store", "done"}
      <4>1. PICK p : p = processed[u]
        OBVIOUS
      <4>3. p \in 0 .. tiles
        BY ONLY <3>1, <4>1 DEF Facts, ControlOf
      <4>2. p \in 0 .. tiles /\ p + 1 # tiles + 2 /\ p + 0 # tiles + 2 /\ -1 # tiles + 2
            /\ tiles + 1 # tiles + 2
        BY ONLY <1>4, <4>3
      <4> QED BY ONLY <3>2, <4>1, <4>2 DEF Round, Lap, Bit
    <3> QED BY ONLY <3>1, <3>3 DEF Facts, EpilogueOf
  <2>2. CopyThreads # {}
    BY ONLY <1>3 DEF Sized
  <2>3. {exchange[u] : u \in CopyThreads} = {CpAsync!InOrder(CpAsync!GroupOf(tiles))}
    BY ONLY <2>1, <2>2
  <2>4. exchange[t] = CpAsync!InOrder(CpAsync!GroupOf(tiles))
    BY <2>1
  <2> QED BY ONLY <1>2, <1>5, <2>3, <2>4 DEF EpilogueOf
<1>12. Types'
  BY ONLY <1>2, <1>3, <1>5 DEF Types, Shares, Pending, CpAsync!Pipes, CpAsync!Stages
<1>13. \A u \in CopyThreads \ {t} : Kept(u)
  BY ONLY <1>2, <1>5 DEF Kept
<1> QED BY ONLY <1>2, <1>6, <1>7, <1>8, <1>9, <1>10, <1>11, <1>12, <1>13 DEF Moved

\* Rows stored from the thread's registers.
LEMMA StoreDirectMoves ==
  ASSUME CpAsync!ShapeAssumption, LoopInv, NEW t \in CopyThreads, CpAsync!StoreDirect(t)
  PROVE  Moved(t)
<1>1. Facts(t)
  BY FactsHold
<1>2. /\ pc[t] = "direct" /\ pc' = [pc EXCEPT ![t] = "exited"]
      /\ output' = [output EXCEPT ![t] = {sum[t]}]
      /\ UNCHANGED <<kernel, tiles, shared, pending, block, count, next, read, write, slice,
                     fragment, products, scales, processed, sum, exchange, CpAsync!call>>
  BY DEF CpAsync!StoreDirect, CpAsync!At, CpAsync!Goes, CpAsync!call, CpAsync!memory,
       CpAsync!source, CpAsync!pipes, CpAsync!registers, CpAsync!results
<1>3. Types /\ Sized /\ BufferOf(t) /\ PlaceOf(t)
  BY ONLY <1>1 DEF Facts
<1>4. /\ tiles \in Nat \ {0} /\ CpAsync!Stages \in {2, 3} /\ CpAsync!LastBlock \in Nat \ {0}
      /\ CpAsync!Stages' = CpAsync!Stages
      /\ CpAsync!AsyncScale' = CpAsync!AsyncScale /\ CpAsync!LastBlock' = CpAsync!LastBlock
  BY ONLY <1>2, <1>3 DEF Sized, CpAsync!Stages, CpAsync!AsyncScale, CpAsync!LastBlock
<1>5. /\ pc'[t] = "exited" /\ DOMAIN pc' = CopyThreads
      /\ output'[t] = {sum[t]}
      /\ DOMAIN output' = CopyThreads
      /\ \A u \in CopyThreads \ {t} : pc'[u] = pc[u] /\ output'[u] = output[u]
  BY ONLY <1>2, <1>3, t \in CopyThreads DEF Types
<1>6. /\ processed[t] = tiles /\ Lap(t)' = Lap(t) /\ Round(t)' = Round(t)
      /\ ~HasCopied(t) /\ ~HasCopied(t)'
  BY ONLY <1>1, <1>2, <1>5
     DEF Facts, ControlOf, Directs, Lap, Late, Round, HasCopied, Begins, Bit
<1>7. BufferOf(t)' /\ Copied(t)' = Copied(t) /\ Waited(t)' = Waited(t)
  <2>1. /\ count'[t] = count[t] /\ next'[t] = next[t] /\ pending'[t] = pending[t]
        /\ UNCHANGED CpAsync!call
    BY ONLY <1>2
  <2>2. (Round(t) <= tiles)' => Round(t) <= tiles
    BY ONLY <1>2, <1>6
  <2>3. (Round(t) <= tiles)' => \A k \in CpAsync!Pipes : shared'[k][t] = shared[k][t]
    BY ONLY <1>2
  <2> QED BY ONLY <1>3, <2>1, <2>2, <2>3, t \in CopyThreads, BufferSame
<1>8. PlaceOf(t)'
  <2>1. PlaceOf(t) /\ count[t] \in Int
    BY ONLY <1>1 DEF Facts
  <2> QED BY ONLY <1>2, <1>4, <1>5, <1>6, <1>7, <2>1 DEF PlaceOf, Bit, Begins, Ends
<1>9. ControlOf(t)'
  BY ONLY <1>1, <1>2, <1>4, <1>5 DEF Facts, ControlOf, InLoop, Steps, Directs, Body, Begins, Ends
<1>10. RegisterOf(t)'
  BY ONLY <1>1, <1>2, <1>4, <1>5 DEF Facts, RegisterOf, InTile, InLoop, Body
<1>11. EpilogueOf(t)'
  <2>1. sum[t] = CpAsync!InOrder(CpAsync!GroupOf(tiles))
    BY ONLY <1>1, <1>6 DEF Facts, RegisterOf
  <2> QED BY ONLY <1>2, <1>5, <2>1 DEF EpilogueOf
<1>12. Types'
  BY ONLY <1>2, <1>3, <1>5 DEF Types, Shares, Pending, CpAsync!Pipes, CpAsync!Stages
<1>13. \A u \in CopyThreads \ {t} : Kept(u)
  BY ONLY <1>2, <1>5 DEF Kept
<1> QED BY ONLY <1>2, <1>6, <1>7, <1>8, <1>9, <1>10, <1>11, <1>12, <1>13 DEF Moved

\* A copy landing, which the other threads do not see.
LEMMA LandMoves ==
  ASSUME CpAsync!ShapeAssumption, LoopInv, NEW t \in CopyThreads, NEW i \in DOMAIN pending[t], CpAsync!Land(t, i)
  PROVE  Moved(t)
<1>1. Facts(t)
  BY FactsHold
<1>2. UNCHANGED <<kernel, tiles, pc, block, count, next, read, write, slice, fragment,
                  products, scales, processed, sum, exchange, output, CpAsync!call>>
  BY DEF CpAsync!Land, CpAsync!call, CpAsync!source, CpAsync!pipes, CpAsync!registers,
       CpAsync!results, CpAsync!epilogue
<1>3. Types /\ Sized /\ BufferOf(t) /\ PlaceOf(t) /\ Waited(t) \in Nat
  BY ONLY <1>1 DEF Facts
<1>4. /\ tiles \in Nat \ {0} /\ CpAsync!Stages \in {2, 3} /\ CpAsync!LastBlock \in Nat \ {0}
      /\ CpAsync!Stages' = CpAsync!Stages
      /\ CpAsync!AsyncScale' = CpAsync!AsyncScale /\ CpAsync!LastBlock' = CpAsync!LastBlock
  BY ONLY <1>2, <1>3 DEF Sized, CpAsync!Stages, CpAsync!AsyncScale, CpAsync!LastBlock
<1>5. Copied(t) <= Waited(t) + CpAsync!Stages
  <2>1. PICK c, v, l, x, y : /\ c = Copied(t) /\ v = Waited(t) /\ l = Lap(t)
                             /\ x = Bit(HasCopied(t)) /\ y = Bit(pc[t] \in {"first sync", "sync"})
    OBVIOUS
  <2>2. /\ c \in Nat /\ v \in Nat /\ l \in Int /\ x \in {0, 1} /\ y \in {0, 1}
        /\ (pc[t] = "prologue" => c <= CpAsync!Stages - 1)
        /\ (pc[t] # "prologue" => c = CpAsync!Stages - 1 + l + x)
        /\ (pc[t] \notin Ends => v = l + 1 + y) /\ (pc[t] \in Ends => v = c)
    <3>1. c \in Nat /\ v \in Nat /\ l \in Int
      BY ONLY <1>1, <2>1 DEF Facts
    <3>2. x \in {0, 1} /\ y \in {0, 1}
      BY ONLY <2>1 DEF Bit
    <3>3. IF pc[t] = "prologue" THEN c <= CpAsync!Stages - 1 ELSE c = CpAsync!Stages - 1 + l + x
      BY ONLY <1>3, <2>1 DEF PlaceOf
    <3>4. v = IF pc[t] \in Ends THEN c ELSE l + 1 + y
      BY ONLY <1>3, <2>1 DEF PlaceOf
    <3> QED BY ONLY <3>1, <3>2, <3>3, <3>4
  <2>3. PICK n : n = CpAsync!Stages
    OBVIOUS
  <2>4. n \in {2, 3} /\ (c <= n - 1 \/ c = n - 1 + l + x) /\ (v = l + 1 + y \/ v = c)
    BY ONLY <1>4, <2>2, <2>3
  <2>5. c <= v + n
    BY ONLY <2>2, <2>4
  <2> QED BY ONLY <2>1, <2>3, <2>5
<1>6. /\ BufferOf(t)' /\ Copied(t)' = Copied(t) /\ Waited(t)' = Waited(t)
      /\ shared' \in [CpAsync!Pipes -> [CopyThreads -> Shares]]'
      /\ pending' \in [CopyThreads -> Seq(Pending)]'
      /\ \A u \in CopyThreads \ {t} :
           /\ pending'[u] = pending[u] /\ \A k \in CpAsync!Pipes : shared'[k][u] = shared[k][u]
  BY ONLY <1>3, <1>5, t \in CopyThreads, i \in DOMAIN pending[t], CpAsync!Land(t, i), LandStep
<1>7. Lap(t)' = Lap(t) /\ Round(t)' = Round(t) /\ (HasCopied(t)' <=> HasCopied(t))
      /\ InTile(t)' = InTile(t)
  BY ONLY <1>2, <1>4 DEF Lap, Late, Round, HasCopied, InTile, InLoop
<1>8. PlaceOf(t)'
  <2>1. Bit(HasCopied(t)') = Bit(HasCopied(t))
    BY ONLY <1>7 DEF Bit
  <2> QED BY ONLY <1>2, <1>3, <1>4, <1>6, <1>7, <2>1 DEF PlaceOf, Bit
<1>9. ControlOf(t)'
  BY ONLY <1>1, <1>2, <1>4 DEF Facts, ControlOf, InLoop
<1>10. RegisterOf(t)'
  BY ONLY <1>1, <1>2, <1>4, <1>7 DEF Facts, RegisterOf, InLoop
<1>11. EpilogueOf(t)'
  BY ONLY <1>1, <1>2 DEF Facts, EpilogueOf
<1>12. Types'
  BY ONLY <1>2, <1>3, <1>6 DEF Types
<1>13. \A u \in CopyThreads \ {t} : Kept(u)
  BY ONLY <1>2, <1>6 DEF Kept
<1> QED BY ONLY <1>2, <1>6, <1>7, <1>8, <1>9, <1>10, <1>11, <1>12, <1>13 DEF Moved

-----------------------------------------------------------------------------
\* All threads pass a __syncthreads together, each into the next round.
LEMMA ReleasedThread ==
  ASSUME CpAsync!ShapeAssumption, LoopInv, NEW t \in CopyThreads,
         NEW s, s \in {"first sync", "sync", "drained", "staged"}, pc[t] = s, pc'[t] = CpAsync!After[s],
         UNCHANGED <<kernel, tiles, shared, pending, block, count, next, read, write, slice,
                     fragment, products, scales, processed, sum, exchange, output, CpAsync!call>>
  PROVE  ThreadInv(t)' /\ Round(t)' = Round(t) + 1
<1>1. Facts(t)
  BY FactsHold
<1>2. UNCHANGED <<kernel, tiles, shared, pending, block, count, next, read, write, slice,
                  fragment, products, scales, processed, sum, exchange, output, CpAsync!call>>
  OBVIOUS
<1>3. Types /\ Sized /\ BufferOf(t) /\ PlaceOf(t)
  BY ONLY <1>1 DEF Facts
<1>4. /\ tiles \in Nat \ {0} /\ CpAsync!Stages \in {2, 3} /\ CpAsync!LastBlock \in Nat \ {0}
      /\ CpAsync!Stages' = CpAsync!Stages
      /\ CpAsync!AsyncScale' = CpAsync!AsyncScale /\ CpAsync!LastBlock' = CpAsync!LastBlock
  BY ONLY <1>2, <1>3 DEF Sized, CpAsync!Stages, CpAsync!AsyncScale, CpAsync!LastBlock
<1>5. Copied(t)' = Copied(t) /\ Waited(t)' = Waited(t)
  BY ONLY <1>2 DEF Copied, Waited
<1>6. PICK r : r = processed[t]
  OBVIOUS
<1>7. r \in Nat /\ processed'[t] = r /\ block'[t] = block[t]
  BY ONLY <1>1, <1>2, <1>6 DEF Facts
<1>8. ASSUME Round(t)' = Round(t) + 1, Round(t) \in Int
      PROVE  BufferOf(t)'
  <2>1. /\ count'[t] = count[t] /\ next'[t] = next[t] /\ pending'[t] = pending[t]
        /\ UNCHANGED CpAsync!call
    BY ONLY <1>2
  <2>2. (Round(t) <= tiles)' => Round(t) <= tiles
    BY ONLY <1>2, <1>4, <1>8
  <2>3. (Round(t) <= tiles)' => \A k \in CpAsync!Pipes : shared'[k][t] = shared[k][t]
    BY ONLY <1>2
  <2> QED BY ONLY <1>3, <2>1, <2>2, <2>3, t \in CopyThreads, BufferSame
<1>9. PICK c : c = Copied(t)
  OBVIOUS
<1>10. c \in Nat /\ count[t] \in Int
  BY ONLY <1>1, <1>9 DEF Facts
<1>11. CASE s = "first sync"
  <2>1. pc[t] = "first sync" /\ pc'[t] = "fill"
    BY <1>11 DEF CpAsync!After
  <2>2. /\ r = 0 /\ block[t] = 0 /\ Lap(t) = -1 /\ Round(t) = -1 /\ HasCopied(t)
        /\ Lap(t)' = 0 /\ Round(t)' = 0 /\ ~HasCopied(t)'
    <3>1. r = 0 /\ block[t] = 0 /\ Lap(t) = -1 /\ Round(t) = -1 /\ HasCopied(t)
      BY ONLY <1>1, <1>6, <2>1 DEF Facts, ControlOf, Lap, Round, HasCopied, Begins
    <3>2. Lap(t)' = 0
      <4>1. Lap(t)' = r + 0
        BY ONLY <1>7, <2>1 DEF Lap, Late, Bit, Begins
      <4> QED BY ONLY <3>1, <4>1
    <3> QED BY ONLY <2>1, <3>1, <3>2 DEF Round, HasCopied
  <2>3. PlaceOf(t)'
    <3>1. c = CpAsync!Stages - 1 + (-1) + 1 /\ Waited(t) = -1 + 1 + 1 /\ slice[t] = 0
          /\ write[t] = c % CpAsync!Stages /\ read[t] = (c + 1) % CpAsync!Stages
      BY ONLY <1>3, <1>9, <2>1, <2>2 DEF PlaceOf, Bit, Begins, Ends
    <3>2. /\ c = CpAsync!Stages - 1 + 0 + 0 /\ Waited(t) = 0 + 1 + 0
          /\ (0 + 0) % CpAsync!Stages = 0 /\ c >= 0
      <4>1. PICK n : n = CpAsync!Stages
        OBVIOUS
      <4>2. c = n - 1 + (-1) + 1 /\ Waited(t) = -1 + 1 + 1 /\ n \in {2, 3} /\ 0 % n = 0
        <5>1. n \in {2, 3} /\ 0 \in 0 .. n - 1
          BY ONLY <1>4, <4>1
        <5>2. 0 % n = 0
          BY ONLY <5>1, Turn
        <5> QED BY ONLY <3>1, <4>1, <5>1, <5>2
      <4>3. c = n - 1 + 0 + 0 /\ Waited(t) = 0 + 1 + 0 /\ (0 + 0) % n = 0 /\ c >= 0
        BY ONLY <4>2, <1>10
      <4> QED BY ONLY <4>1, <4>3
    <3> QED BY ONLY <1>2, <1>4, <1>5, <1>9, <1>10, <2>1, <2>2, <3>1, <3>2
         DEF PlaceOf, Bit, Begins, Ends
  <2>4. ControlOf(t)'
    BY ONLY <1>1, <1>2, <1>4, <2>1 DEF Facts, ControlOf, InLoop, Steps, Directs, Body, Begins, Ends
  <2>5. RegisterOf(t)' /\ EpilogueOf(t)'
    BY ONLY <1>1, <1>2, <1>4, <2>1 DEF Facts, RegisterOf, EpilogueOf, InTile, InLoop, Body
  <2>6. BufferOf(t)' /\ Round(t)' = Round(t) + 1
    <3>1. Round(t)' = Round(t) + 1 /\ Round(t) \in Int
      BY ONLY <2>2
    <3> QED BY ONLY <1>8, <3>1
  <2> QED BY ONLY <2>3, <2>4, <2>5, <2>6 DEF ThreadInv
<1>12. CASE s = "sync"
  <2>1. pc[t] = "sync" /\ pc'[t] = "load"
    BY <1>12 DEF CpAsync!After
  <2>2. block[t] = CpAsync!LastBlock /\ r < tiles
    BY ONLY <1>1, <1>6, <2>1 DEF Facts, ControlOf, InLoop, Body
  <2>3. /\ Lap(t) = r /\ Round(t) = r /\ HasCopied(t)
        /\ Lap(t)' = r + 1 /\ Round(t)' = r + 1 /\ ~HasCopied(t)'
    <3>1. r + 0 = r /\ ~(CpAsync!LastBlock < CpAsync!LastBlock)
      BY ONLY <1>4, <1>7
    <3>2. Lap(t) = r
      BY ONLY <1>6, <2>1, <3>1 DEF Lap, Late, Bit, Begins
    <3>3. Lap(t)' = r + 1
      BY ONLY <1>4, <1>7, <2>1, <2>2, <3>1 DEF Lap, Late, Bit, Begins
    <3> QED BY ONLY <1>4, <1>7, <2>1, <2>2, <3>1, <3>2, <3>3 DEF Round, HasCopied
  <2>4. PlaceOf(t)'
    <3>1. /\ c = CpAsync!Stages - 1 + r + 1 /\ Waited(t) = r + 1 + 1
          /\ slice[t] = (r + 1) % CpAsync!Stages
          /\ write[t] = c % CpAsync!Stages /\ read[t] = (c + 1) % CpAsync!Stages
      BY ONLY <1>3, <1>9, <2>1, <2>3 DEF PlaceOf, Bit, Begins, Ends
    <3>2. /\ c = CpAsync!Stages - 1 + (r + 1) + 0 /\ Waited(t) = (r + 1) + 1 + 0
          /\ (r + 1) + 0 = r + 1
          /\ c >= 0
      BY ONLY <1>4, <1>7, <1>10, <3>1
    <3> QED BY ONLY <1>2, <1>4, <1>5, <1>9, <1>10, <2>1, <2>3, <3>1, <3>2
         DEF PlaceOf, Bit, Begins, Ends
  <2>5. ControlOf(t)'
    BY ONLY <1>1, <1>2, <1>4, <2>1, <2>2 DEF Facts, ControlOf, InLoop, Steps, Directs, Body, Begins, Ends
  <2>6. RegisterOf(t)' /\ EpilogueOf(t)'
    BY ONLY <1>1, <1>2, <1>4, <2>1 DEF Facts, RegisterOf, EpilogueOf, InTile, InLoop, Body
  <2>7. BufferOf(t)' /\ Round(t)' = Round(t) + 1
    BY ONLY <1>7, <1>8, <2>3
  <2> QED BY ONLY <2>4, <2>5, <2>6, <2>7 DEF ThreadInv
<1>13. CASE s = "drained"
  <2>1. pc[t] = "drained" /\ pc'[t] = "stage"
    BY <1>13 DEF CpAsync!After
  <2>2. r = tiles
    BY ONLY <1>1, <1>6, <2>1 DEF Facts, ControlOf, Ends
  <2>3. /\ Lap(t) = tiles /\ Round(t) = tiles /\ ~HasCopied(t)
        /\ Lap(t)' = tiles /\ Round(t)' = tiles + 1 /\ ~HasCopied(t)'
    <3>1. r + 0 = r
      BY ONLY <1>7
    <3>2. Lap(t) = r
      BY ONLY <1>6, <2>1, <3>1 DEF Lap, Late, Bit, Begins
    <3>3. Lap(t)' = r
      BY ONLY <1>4, <1>7, <2>1, <3>1 DEF Lap, Late, Bit, Begins
    <3> QED BY ONLY <1>2, <2>1, <2>2, <3>2, <3>3 DEF Round, HasCopied
  <2>4. PlaceOf(t)'
    BY ONLY <1>2, <1>3, <1>4, <1>5, <1>10, <2>1, <2>3 DEF PlaceOf, Bit, Begins, Ends
  <2>5. ControlOf(t)'
    BY ONLY <1>1, <1>2, <1>4, <2>1 DEF Facts, ControlOf, InLoop, Steps, Directs, Body, Begins, Ends
  <2>6. RegisterOf(t)' /\ EpilogueOf(t)'
    BY ONLY <1>1, <1>2, <1>4, <2>1 DEF Facts, RegisterOf, EpilogueOf, InTile, InLoop, Body
  <2>7. BufferOf(t)' /\ Round(t)' = Round(t) + 1
    BY ONLY <1>4, <1>8, <2>3
  <2> QED BY ONLY <2>4, <2>5, <2>6, <2>7 DEF ThreadInv
<1>14. CASE s = "staged"
  <2>1. pc[t] = "staged" /\ pc'[t] = "store"
    BY <1>14 DEF CpAsync!After
  <2>2. /\ Lap(t)' = Lap(t) /\ Round(t) = tiles + 1 /\ Round(t)' = tiles + 2
        /\ ~HasCopied(t) /\ ~HasCopied(t)'
    BY ONLY <1>2, <2>1 DEF Lap, Late, Round, HasCopied, Begins
  <2>3. PlaceOf(t)'
    BY ONLY <1>2, <1>3, <1>4, <1>5, <1>10, <2>1, <2>2 DEF PlaceOf, Bit, Begins, Ends
  <2>4. ControlOf(t)'
    BY ONLY <1>1, <1>2, <1>4, <2>1 DEF Facts, ControlOf, InLoop, Steps, Directs, Body, Begins, Ends
  <2>5. RegisterOf(t)' /\ EpilogueOf(t)'
    BY ONLY <1>1, <1>2, <1>4, <2>1 DEF Facts, RegisterOf, EpilogueOf, InTile, InLoop, Body
  <2>6. BufferOf(t)' /\ Round(t)' = Round(t) + 1
    BY ONLY <1>4, <1>8, <2>2
  <2> QED BY ONLY <2>3, <2>4, <2>5, <2>6 DEF ThreadInv
<1> QED BY ONLY <1>11, <1>12, <1>13, <1>14, s \in {"first sync", "sync", "drained", "staged"}

\* The barrier itself: nobody is left in an earlier round.
LEMMA SyncthreadsKeeps ==
  ASSUME CpAsync!ShapeAssumption, LoopInv, CpAsync!Syncthreads
  PROVE  LoopInv'
<1>1. PICK s \in DOMAIN CpAsync!After :
        (\A t \in CopyThreads : CpAsync!At(t, s)) /\ pc' = [t \in CopyThreads |-> CpAsync!After[s]]
  BY DEF CpAsync!Syncthreads
<1>2. UNCHANGED <<kernel, tiles, shared, pending, block, count, next, read, write, slice,
                  fragment, products, scales, processed, sum, exchange, output, CpAsync!call>>
  BY DEF CpAsync!Syncthreads, CpAsync!call, CpAsync!memory, CpAsync!source, CpAsync!pipes,
       CpAsync!registers, CpAsync!results, CpAsync!epilogue
<1>3. s \in {"first sync", "sync", "drained", "staged"}
  BY <1>1 DEF CpAsync!After
<1>4. \A t \in CopyThreads : pc[t] = s /\ pc'[t] = CpAsync!After[s]
  BY <1>1 DEF CpAsync!At
<1>5. \A t \in CopyThreads : ThreadInv(t)' /\ Round(t)' = Round(t) + 1
  BY <1>2, <1>3, <1>4, ReleasedThread
<1>6. Together'
  BY <1>5 DEF LoopInv, Together
<1>7. Types'
  <2>1. Types
    BY DEF LoopInv
  <2>2. DOMAIN pc' = CopyThreads
    BY <1>1
  <2> QED BY ONLY <1>2, <2>1, <2>2 DEF Types, Shares, Pending, CpAsync!Pipes, CpAsync!Stages
<1> QED BY ONLY <1>5, <1>6, <1>7 DEF LoopInv

LEMMA StutterKeeps ==
  ASSUME LoopInv, UNCHANGED CpAsync!vars
  PROVE  LoopInv'
<1>1. UNCHANGED <<kernel, tiles, shared, pending, pc, block, count, next, read, write, slice,
                  fragment, products, scales, processed, sum, exchange, output>>
  BY DEF CpAsync!vars, CpAsync!call, CpAsync!memory, CpAsync!source, CpAsync!pipes,
       CpAsync!registers, CpAsync!results, CpAsync!epilogue
<1>2. Types' /\ Together'
  <2>1. Types /\ Together
    BY DEF LoopInv
  <2>2. Types'
    BY ONLY <1>1, <2>1 DEF Types, Shares, Pending, CpAsync!Pipes, CpAsync!Stages
  <2>3. \A t : Round(t)' = Round(t)
    BY ONLY <1>1 DEF Round, Lap, Late
  <2> QED BY ONLY <2>1, <2>2, <2>3 DEF Together
<1>3. ASSUME NEW t \in CopyThreads PROVE ThreadInv(t)'
  <2>1. ThreadInv(t)
    BY DEF LoopInv
  <2>2. ControlOf(t)' /\ RegisterOf(t)' /\ EpilogueOf(t)'
    BY ONLY <1>1, <2>1
       DEF ThreadInv, ControlOf, RegisterOf, EpilogueOf, InLoop, InTile, Lap, Late, Bit,
           CpAsync!AsyncScale
  <2>3. PlaceOf(t)'
    BY ONLY <1>1, <2>1
       DEF ThreadInv, PlaceOf, Copied, Waited, HasCopied, Lap, Late, Bit, CpAsync!Stages
  <2>4. BufferOf(t)'
    BY ONLY <1>1, <2>1
       DEF ThreadInv, BufferOf, Copied, Waited, Tile, Round, Lap, Late, Bit, CpAsync!Stages
  <2> QED BY ONLY <2>2, <2>3, <2>4 DEF ThreadInv
<1> QED BY ONLY <1>2, <1>3 DEF LoopInv

\* Every step of the kernel preserves the invariant.
LEMMA LoopNext ==
  ASSUME CpAsync!ShapeAssumption, LoopInv, [CpAsync!Next]_(CpAsync!vars)
  PROVE  LoopInv'
<1>1. ASSUME NEW t \in CopyThreads,
             \/ CpAsync!Prologue(t) \/ CpAsync!FirstWait(t) \/ CpAsync!Fill(t) \/ CpAsync!Top(t) \/ CpAsync!SliceAndWait(t)
             \/ CpAsync!LoadFragment(t) \/ CpAsync!CopyAhead(t) \/ CpAsync!Gemm(t) \/ CpAsync!Drain(t) \/ CpAsync!StageRows(t)
             \/ CpAsync!StoreRows(t) \/ CpAsync!StoreDirect(t)
      PROVE  LoopInv'
  <2>1. Moved(t)
    BY <1>1, PrologueMoves, FirstWaitMoves, FillMoves, TopMoves, SliceAndWaitMoves,
         LoadFragmentMoves, CopyAheadMoves, GemmMoves, DrainMoves, StageRowsMoves, StoreRowsMoves,
         StoreDirectMoves
  <2> QED BY <2>1, MovedInv
<1>2. ASSUME NEW t \in CopyThreads, NEW i \in DOMAIN pending[t], CpAsync!Land(t, i)
      PROVE  LoopInv'
  <2>1. Moved(t)
    BY <1>2, LandMoves
  <2> QED BY <2>1, MovedInv
<1>3. CASE CpAsync!Syncthreads
  BY <1>3, SyncthreadsKeeps
<1>4. CASE CpAsync!Terminated \/ UNCHANGED CpAsync!vars
  BY <1>4, StutterKeeps DEF CpAsync!Terminated
<1>5. CASE \E t \in CopyThreads : \E i \in DOMAIN pending[t] : CpAsync!Land(t, i)
  BY ONLY <1>2, <1>5
<1>6. CASE \E t \in CopyThreads :
             \/ CpAsync!Prologue(t) \/ CpAsync!FirstWait(t) \/ CpAsync!Fill(t) \/ CpAsync!Top(t)
             \/ CpAsync!SliceAndWait(t) \/ CpAsync!LoadFragment(t) \/ CpAsync!CopyAhead(t)
             \/ CpAsync!Gemm(t) \/ CpAsync!Drain(t) \/ CpAsync!StageRows(t) \/ CpAsync!StoreRows(t)
             \/ CpAsync!StoreDirect(t)
  BY ONLY <1>1, <1>6
<1>7. CpAsync!Next \/ UNCHANGED CpAsync!vars
  BY ONLY [CpAsync!Next]_(CpAsync!vars)
<1> QED BY ONLY <1>3, <1>4, <1>5, <1>6, <1>7 DEF CpAsync!Next

LEMMA LoopInit ==
  ASSUME CpAsync!ShapeAssumption, CpAsync!Init
  PROVE  LoopInv
<1>1. /\ kernel \in Instances /\ tiles \in TileCounts
      /\ shared = [k \in CpAsync!Pipes |-> [t \in CopyThreads |-> CpAsync!Garbage]]
      /\ pending = [t \in CopyThreads |-> <<>>]
      /\ pc = [t \in CopyThreads |-> "prologue"] /\ block = [t \in CopyThreads |-> 0]
      /\ count = [t \in CopyThreads |-> tiles] /\ next = [t \in CopyThreads |-> 0]
      /\ read = [t \in CopyThreads |-> 0] /\ write = [t \in CopyThreads |-> 0]
      /\ slice = [t \in CopyThreads |-> 0]
      /\ fragment = [t \in CopyThreads |-> [b \in 0 .. CpAsync!LastBlock |-> <<CpAsync!Garbage, b>>]]
      /\ products = [t \in CopyThreads |-> <<>>]
      /\ scales = [t \in CopyThreads |-> CpAsync!Garbage]
      /\ processed = [t \in CopyThreads |-> 0] /\ sum = [t \in CopyThreads |-> <<>>]
      /\ exchange = [t \in CopyThreads |-> <<>>] /\ output = [t \in CopyThreads |-> {}]
  BY DEF CpAsync!Init
<1>2. Types
  <2>1. shared \in [CpAsync!Pipes -> [CopyThreads -> Shares]]
    BY <1>1 DEF Shares
  <2>2. fragment \in [CopyThreads -> [0 .. CpAsync!LastBlock -> Int \X Int]]
    <3>1. \A b \in 0 .. CpAsync!LastBlock : <<CpAsync!Garbage, b>> \in Int \X Int
      BY DEF CpAsync!Garbage
    <3> QED BY ONLY <1>1, <3>1
  <2>3. pending \in [CopyThreads -> Seq(Pending)]
    BY <1>1
  <2> QED BY ONLY <1>1, <2>1, <2>2, <2>3 DEF Types
<1>3. Sized
  BY <1>2, Sizes
<1>4. tiles \in Nat \ {0} /\ CpAsync!Stages \in {2, 3} /\ CpAsync!LastBlock \in Nat \ {0}
  BY ONLY <1>3 DEF Sized
<1>5. ASSUME NEW t \in CopyThreads PROVE ThreadInv(t) /\ Round(t) = -1
  <2>1. /\ pc[t] = "prologue" /\ block[t] = 0 /\ processed[t] = 0 /\ pending[t] = <<>>
        /\ count[t] = tiles /\ next[t] = 0 /\ read[t] = 0 /\ write[t] = 0 /\ slice[t] = 0
        /\ products[t] = <<>> /\ sum[t] = <<>> /\ output[t] = {}
    BY ONLY <1>1, <1>5
  <2>2. Lap(t) = -1 /\ Round(t) = -1 /\ Copied(t) = 0 /\ Waited(t) = 0
    BY ONLY <1>4, <2>1 DEF Lap, Round, Begins, Copied, Waited
  <2>3. ControlOf(t)
    BY ONLY <1>4, <2>1 DEF ControlOf, Steps, Directs, Begins, Ends, Body, InLoop
  <2>4. PlaceOf(t)
    <3>1. 0 % CpAsync!Stages = 0 /\ -1 + 1 + 0 = 0 /\ 0 <= CpAsync!Stages - 1 /\ tiles \in Int
      BY ONLY <1>4
    <3> QED BY ONLY <2>1, <2>2, <3>1 DEF PlaceOf, Bit, Begins, Ends
  <2>5. BufferOf(t)
    <3>1. next[t] = Tile(Copied(t))
      BY ONLY <1>4, <2>1, <2>2 DEF Tile
    <3>2. \A j \in 1 .. Len(pending[t]) : CopyAt(t, j)
      BY ONLY <2>1
    <3>3. \A c : ~InWindow(t, c)
      BY ONLY <1>4, <2>2 DEF InWindow
    <3> QED BY ONLY <3>1, <3>2, <3>3, BufferParts
  <2>6. RegisterOf(t)
    <3>1. CpAsync!GroupOf(0) = 0 /\ (0 % 2) * KBlocks + 0 = 0 /\ CpAsync!InOrder(0) = <<>>
      BY <1>3 DEF CpAsync!GroupOf, CpAsync!InOrder, Sized
    <3>2. InTile(t) = 0 /\ ~InLoop(t)
      BY ONLY <2>1 DEF InTile, InLoop, Body
    <3> QED BY ONLY <2>1, <3>1, <3>2, TermsZero DEF RegisterOf
  <2>7. EpilogueOf(t)
    BY ONLY <2>1 DEF EpilogueOf
  <2> QED BY ONLY <2>2, <2>3, <2>4, <2>5, <2>6, <2>7 DEF ThreadInv
<1>6. Together
  BY ONLY <1>5 DEF Together
<1> QED BY ONLY <1>2, <1>5, <1>6 DEF LoopInv

-----------------------------------------------------------------------------
(* What the invariant gives.                                               *)

LEMMA PlaceBounds ==
  ASSUME CpAsync!ShapeAssumption, LoopInv, NEW t \in CopyThreads
  PROVE  count[t] \in -(CpAsync!Stages - 1) .. tiles /\ Len(pending[t]) <= CpAsync!Stages
<1>1. Facts(t)
  BY FactsHold
<1>2. PlaceOf(t) /\ ControlOf(t) /\ tiles \in Nat \ {0} /\ CpAsync!Stages \in {2, 3}
  BY ONLY <1>1 DEF Facts, Sized
<1>3. PICK c, v, l, x, y, n : /\ c = Copied(t) /\ v = Waited(t) /\ l = Lap(t) /\ n = CpAsync!Stages
                              /\ x = Bit(HasCopied(t))
                              /\ y = Bit(pc[t] \in {"first sync", "sync"})
  OBVIOUS
<1>4. /\ c \in Nat /\ v \in Nat /\ l \in Int /\ n \in {2, 3} /\ count[t] = tiles - c
      /\ Len(pending[t]) = c - v
  BY ONLY <1>1, <1>2, <1>3 DEF Facts
<1>5. x \in {0, 1} /\ y \in {0, 1}
  BY ONLY <1>3 DEF Bit
<1>6. c <= n - 1 \/ c = n - 1 + l + x
  BY ONLY <1>2, <1>3 DEF PlaceOf
<1>7. v = c \/ v = l + 1 + y
  BY ONLY <1>2, <1>3 DEF PlaceOf
<1>8. l + x <= tiles
  <2>1. PICK r : r = processed[t]
    OBVIOUS
  <2>2. r \in Nat /\ r <= tiles /\ (InLoop(t) => r < tiles)
    BY ONLY <1>2, <2>1 DEF ControlOf
  <2>3. l = -1 \/ (l = r /\ ~Late(t)) \/ (l = r + 1 /\ Late(t))
    <3>1. l = -1 \/ (l = r + 0 /\ ~Late(t)) \/ (l = r + 1 /\ Late(t))
      BY ONLY <1>3, <2>1 DEF Lap, Bit
    <3> QED BY ONLY <2>2, <3>1
  <2>4. /\ Late(t) => InLoop(t) /\ ~HasCopied(t)
        /\ HasCopied(t) => InLoop(t) \/ pc[t] \in Begins
        /\ pc[t] \in Begins => l = -1
    <3>1. block[t] = CpAsync!LastBlock => ~(block[t] < CpAsync!LastBlock)
      <4>1. CpAsync!LastBlock \in Int
        BY ONLY <1>1 DEF Facts, Sized
      <4> QED BY ONLY <4>1
    <3>2. pc[t] \in Begins => l = -1
      BY ONLY <1>3 DEF Lap
    <3> QED BY ONLY <3>1, <3>2 DEF Late, InLoop, Body, HasCopied, Begins
  <2>5. (HasCopied(t) => x = 1) /\ (~HasCopied(t) => x = 0)
    BY ONLY <1>3 DEF Bit
  <2>6. \/ l = -1 \/ (l = r /\ (x = 0 \/ r < tiles)) \/ (l = r + 1 /\ x = 0 /\ r < tiles)
    BY ONLY <2>2, <2>3, <2>4, <2>5
  <2> QED BY ONLY <1>2, <1>5, <2>2, <2>6
<1>9. c <= n - 1 + tiles /\ c - v <= n
  BY ONLY <1>2, <1>4, <1>5, <1>6, <1>7, <1>8
<1>10. tiles - c \in -(n - 1) .. tiles
  BY ONLY <1>2, <1>4, <1>9
<1> QED BY ONLY <1>3, <1>4, <1>9, <1>10

LEMMA LoopTypes ==
  ASSUME CpAsync!ShapeAssumption, LoopInv
  PROVE  CpAsync!TypeOK
<1>1. Types
  BY DEF LoopInv
<1>2. Sized
  BY ONLY CpAsync!ShapeAssumption, <1>1, Sizes
<1>3. ASSUME NEW t \in CopyThreads
      PROVE  /\ next[t] \in 0 .. tiles - 1 /\ count[t] \in -(CpAsync!Stages - 1) .. tiles
             /\ read[t] \in CpAsync!Pipes /\ write[t] \in CpAsync!Pipes
             /\ slice[t] \in CpAsync!Pipes
             /\ block[t] \in 0 .. CpAsync!LastBlock /\ processed[t] \in 0 .. tiles
             /\ Len(pending[t]) <= CpAsync!Stages
             /\ \A i \in DOMAIN pending[t] : pending[t][i].pipe \in CpAsync!Pipes
  <2>1. Facts(t)
    BY FactsHold
  <2>2. next[t] \in 0 .. tiles - 1
    <3>1. next[t] = Tile(Copied(t)) /\ Copied(t) \in Nat
      BY ONLY <2>1 DEF Facts, BufferOf
    <3> QED BY ONLY <1>2, <3>1 DEF Tile, Sized
  <2>3. read[t] \in CpAsync!Pipes /\ write[t] \in CpAsync!Pipes /\ slice[t] \in CpAsync!Pipes
    <3>1. PICK c, l : c = Copied(t) /\ l = Lap(t) + Bit(pc[t] = "sync")
      OBVIOUS
    <3>2. c + 1 \in Int /\ c \in Int /\ l \in Int
      BY ONLY <2>1, <3>1 DEF Facts, Bit
    <3>3. /\ read[t] = 0 \/ read[t] = (c + 1) % CpAsync!Stages
          /\ write[t] = c % CpAsync!Stages
          /\ slice[t] = 0 \/ slice[t] = l % CpAsync!Stages
      BY ONLY <2>1, <3>1 DEF Facts, PlaceOf
    <3>4. 0 \in CpAsync!Pipes
      BY ONLY <1>2 DEF Sized
    <3>5. /\ (c + 1) % CpAsync!Stages \in CpAsync!Pipes /\ c % CpAsync!Stages \in CpAsync!Pipes
          /\ l % CpAsync!Stages \in CpAsync!Pipes
      BY ONLY <1>2, <3>2, PipeOf
    <3> QED BY ONLY <3>3, <3>4, <3>5
  <2>4. count[t] \in -(CpAsync!Stages - 1) .. tiles /\ Len(pending[t]) <= CpAsync!Stages
    BY PlaceBounds
  <2>5. block[t] \in 0 .. CpAsync!LastBlock /\ processed[t] \in 0 .. tiles
    BY ONLY <2>1 DEF Facts, ControlOf
  <2>6. \A i \in DOMAIN pending[t] : pending[t][i].pipe \in CpAsync!Pipes
    <3>1. pending[t] \in Seq(Pending)
      BY ONLY <1>1, t \in CopyThreads DEF Types
    <3>2. \A i \in DOMAIN pending[t] : pending[t][i] \in Pending
      BY ONLY <3>1
    <3> QED BY ONLY <3>2 DEF Pending
  <2> QED BY ONLY <2>2, <2>3, <2>4, <2>5, <2>6
<1>4. /\ kernel \in Instances /\ tiles \in TileCounts
      /\ shared \in [CpAsync!Pipes -> [CopyThreads -> Shares]]
  BY ONLY <1>1 DEF Types
<1> QED BY ONLY <1>3, <1>4 DEF CpAsync!TypeOK, Shares

\* A stage is whole and of the thread's tile while the thread may still read it.
LEMMA LoopStages ==
  ASSUME CpAsync!ShapeAssumption, LoopInv
  PROVE  CpAsync!StageStable
<1> SUFFICES ASSUME NEW t \in CopyThreads, CpAsync!StillReads(t), NEW u \in CopyThreads
             PROVE  shared[slice[t]][u] = processed[t]
  BY DEF CpAsync!StageStable
<1>1. Facts(t)
  BY FactsHold
<1>2. PICK r : r = processed[t]
  OBVIOUS
<1>3. /\ r \in Nat /\ tiles \in Nat /\ CpAsync!Stages \in {2, 3} /\ CpAsync!LastBlock \in Nat
      /\ block[t] \in Nat
  BY ONLY <1>1, <1>2 DEF Facts, Sized
<1>4. pc[t] \in {"top", "load", "copy", "gemm"} /\ (pc[t] # "top" => block[t] # CpAsync!LastBlock)
  <2>1. /\ block[t] < CpAsync!LastBlock => block[t] # CpAsync!LastBlock
        /\ block[t] + 1 < CpAsync!LastBlock => block[t] # CpAsync!LastBlock
    BY ONLY <1>3
  <2> QED BY ONLY <2>1, CpAsync!StillReads(t) DEF CpAsync!StillReads, CpAsync!At
<1>5. Lap(t) = r
  <2>1. Lap(t) = r + 0
    BY ONLY <1>2, <1>4 DEF Lap, Late, Bit, Begins
  <2> QED BY ONLY <1>3, <2>1
<1>6. slice[t] = r % CpAsync!Stages
  <2>1. slice[t] = (r + 0) % CpAsync!Stages
    BY ONLY <1>1, <1>4, <1>5 DEF Facts, PlaceOf, Begins, Bit
  <2>2. r + 0 = r
    BY ONLY <1>3
  <2> QED BY ONLY <2>1, <2>2
<1>7. shared[Lap(t) % CpAsync!Stages][u] = Tile(Lap(t))
  BY ONLY <1>4, CpAsync!ShapeAssumption, LoopInv, t \in CopyThreads, u \in CopyThreads, ShareOf
     DEF Begins, Ends
<1>8. r < tiles
  <2>1. CASE pc[t] = "top"
    <3>1. CpAsync!MoreTiles(t)
      BY ONLY <2>1, CpAsync!StillReads(t) DEF CpAsync!StillReads, CpAsync!At
    <3>2. PICK c, n : c = Copied(t) /\ n = CpAsync!Stages
      OBVIOUS
    <3>3. c = n - 1 + r + 0 /\ count[t] = tiles - c /\ c \in Nat
      BY ONLY <1>1, <1>5, <2>1, <3>2 DEF Facts, PlaceOf, HasCopied, Bit
    <3>4. tiles - c > -(n - 1) /\ n \in {2, 3}
      BY ONLY <1>3, <3>1, <3>2, <3>3 DEF CpAsync!MoreTiles
    <3> QED BY ONLY <1>3, <3>3, <3>4
  <2>2. CASE pc[t] # "top"
    BY ONLY <1>1, <1>2, <1>4, <2>2 DEF Facts, ControlOf, InLoop, Body
  <2> QED BY ONLY <2>1, <2>2
<1> QED BY ONLY <1>2, <1>5, <1>6, <1>7, <1>8 DEF Tile

LEMMA LoopGroups ==
  ASSUME LoopInv
  PROVE  CpAsync!GroupsExact
<1>1. \A t \in CopyThreads : RegisterOf(t) /\ ControlOf(t)
  BY DEF LoopInv, ThreadInv
<1> QED BY ONLY <1>1 DEF CpAsync!GroupsExact, RegisterOf, ControlOf, Directs

\* The exchange starts when every thread's copies have landed.
LEMMA LoopExchange ==
  ASSUME CpAsync!ShapeAssumption, LoopInv
  PROVE  CpAsync!ExchangeSound
<1>1. CpAsync!ExchangeAlone
  <2> SUFFICES ASSUME NEW t \in CopyThreads, pc[t] = "stage", NEW u \in CopyThreads
               PROVE  DOMAIN pending[u] = {}
    BY DEF CpAsync!ExchangeAlone, CpAsync!At
  <2>1. Facts(u) /\ Facts(t)
    BY FactsHold
  <2>2. Round(u) = tiles + 1
    <3>1. Round(t) = tiles + 1
      BY DEF Round
    <3> QED BY <3>1 DEF LoopInv, Together
  <2>3. pc[u] \in {"stage", "staged"}
    <3>1. PICK p : p = processed[u]
      OBVIOUS
    <3>2. /\ p \in 0 .. tiles /\ tiles \in Nat /\ (InLoop(u) => p < tiles)
          /\ (Late(u) => InLoop(u))
      BY ONLY <2>1, <3>1 DEF Facts, ControlOf, Sized, Late, InLoop, Body
    <3>3. -1 # tiles + 1 /\ p + 0 # tiles + 1 /\ (p < tiles => p + 1 # tiles + 1)
          /\ tiles + 2 # tiles + 1
      BY ONLY <3>2
    <3> QED BY ONLY <2>2, <3>1, <3>2, <3>3 DEF Round, Lap, Bit
  <2>4. Waited(u) = Copied(u)
    BY ONLY <2>1, <2>3 DEF Facts, PlaceOf, Ends
  <2>5. Len(pending[u]) = 0 /\ pending[u] \in Seq(Pending)
    BY ONLY <2>1, <2>4, u \in CopyThreads DEF Facts, Types
  <2> QED BY ONLY <2>5
<1>2. CpAsync!StoresComplete
  <2>1. \A t \in CopyThreads : EpilogueOf(t)
    BY DEF LoopInv, ThreadInv
  <2> QED BY ONLY <2>1 DEF EpilogueOf, CpAsync!StoresComplete
<1> QED BY <1>1, <1>2 DEF CpAsync!ExchangeSound

-----------------------------------------------------------------------------
(* The specialised kernels, with what is proved of them.  Each instance    *)
(* has its own copy of the kernel's definitions; expanded, the two copies  *)
(* are the same formulas.                                                  *)

PP == INSTANCE OneBlockProofs WITH
  P <- PingPongRing, Groups <- PingPongGroups, Leader <- LeaderWarp
OP == INSTANCE OneBlockProofs WITH
  P <- OneSmRing, Groups <- OneSmGroups, Warps <- Warps \ {LeaderWarp}, Leader <- LeaderWarp
TP == INSTANCE TwoSmPipelineProofs WITH
  P <- TwoSmRing, Tiles <- 1, Groups <- TwoSmGroups, Subs <- TwoSmSubs,
  Parts <- {TwoSmThread}, PartWarps <- {TwoSmThread}, ScaleLanes <- {TwoSmThread},
  Lanes <- {TwoSmThread}, Lane0 <- TwoSmThread

\* The ping-pong kernel a launch runs is the one proved about.
LEMMA SamePingPong ==
  /\ (PP!Pong!Init <=> PingPong!Init) /\ ([PP!Pong!Next]_(PP!Pong!vars) <=> [PingPong!Next]_(PingPong!vars))
  /\ (PP!Pong!ShapeAssumption <=> PingPong!ShapeAssumption) /\ (PP!Pong!TypeOK <=> PingPong!TypeOK)
  /\ (PP!Pong!OperandStable <=> PingPong!OperandStable)
  /\ (PP!Pong!PromotionStable <=> PingPong!PromotionStable)
  /\ (PP!Pong!ExchangeSound <=> PingPong!ExchangeSound)
BY DEF PP!Pong!IsFiniteSet, PingPong!IsFiniteSet, PP!Pong!BarrierType, PingPong!BarrierType,
       PP!Pong!Barrier, PingPong!Barrier, PP!Pong!NewBarrier, PingPong!NewBarrier,
       PP!Pong!Settle, PingPong!Settle, PP!Pong!Arrive, PingPong!Arrive, PP!Pong!ArriveExpectTx,
       PingPong!ArriveExpectTx, PP!Pong!CompleteTx, PingPong!CompleteTx, PP!Pong!Passes,
       PingPong!Passes, PP!Pong!ShapeAssumption, PingPong!ShapeAssumption, PP!Pong!buffers,
       PingPong!buffers, PP!Pong!matrix, PingPong!matrix, PP!Pong!epilogue, PingPong!epilogue,
       PP!Pong!vars, PingPong!vars, PP!Pong!Stages, PingPong!Stages, PP!Pong!Halves,
       PingPong!Halves, PP!Pong!ScaleRing, PingPong!ScaleRing, PP!Pong!ScaleSlots,
       PingPong!ScaleSlots, PP!Pong!Garbage, PingPong!Garbage, PP!Pong!Staged, PingPong!Staged,
       PP!Pong!Init, PingPong!Init, PP!Pong!Goes, PingPong!Goes, PP!Pong!Load, PingPong!Load,
       PP!Pong!Prologue, PingPong!Prologue, PP!Pong!LandedParity, PingPong!LandedParity,
       PP!Pong!Multiply, PingPong!Multiply, PP!Pong!Ahead, PingPong!Ahead, PP!Pong!Prefetch,
       PingPong!Prefetch, PP!Pong!Last, PingPong!Last, PP!Pong!Reads, PingPong!Reads,
       PP!Pong!StartPromotion, PingPong!StartPromotion, PP!Pong!Promoted, PingPong!Promoted,
       PP!Pong!Promote, PingPong!Promote, PP!Pong!MmaComplete, PingPong!MmaComplete,
       PP!Pong!Complete, PingPong!Complete, PP!Pong!TmaLand, PingPong!TmaLand, PP!Pong!Product,
       PingPong!Product, PP!Pong!MmaRetire, PingPong!MmaRetire, PP!Pong!Commit, PingPong!Commit,
       PP!Pong!Everyone, PingPong!Everyone, PP!Pong!LastIteration, PingPong!LastIteration,
       PP!Pong!Syncthreads, PingPong!Syncthreads, PP!Pong!WriteExchange, PingPong!WriteExchange,
       PP!Pong!EveryoneWritten, PingPong!EveryoneWritten, PP!Pong!StoreRows, PingPong!StoreRows,
       PP!Pong!FreeTmem, PingPong!FreeTmem, PP!Pong!Terminated, PingPong!Terminated,
       PP!Pong!Next, PingPong!Next, PP!Pong!InRange, PingPong!InRange, PP!Pong!TypeOK,
       PingPong!TypeOK, PP!Pong!OperandStable, PingPong!OperandStable, PP!Pong!PromotionStable,
       PingPong!PromotionStable, PP!Pong!InOrder, PingPong!InOrder, PP!Pong!ExchangeAlone,
       PingPong!ExchangeAlone, PP!Pong!StoresComplete, PingPong!StoresComplete,
       PP!Pong!ExchangeSound, PingPong!ExchangeSound

\* So is the one-SM kernel.
LEMMA SameOneSm ==
  /\ (OP!Init <=> OneSm!Init) /\ ([OP!Next]_(OP!vars) <=> [OneSm!Next]_(OneSm!vars))
  /\ (OP!SizeAssumption <=> OneSm!SizeAssumption)
  /\ (OP!ThreadAssumption <=> OneSm!ThreadAssumption)
  /\ (OP!TypeOK <=> OneSm!TypeOK) /\ (OP!OperandStable <=> OneSm!OperandStable)
  /\ (OP!FragmentStable <=> OneSm!FragmentStable) /\ (OP!ExchangeSound <=> OneSm!ExchangeSound)
BY DEF OP!IsFiniteSet, OneSm!IsFiniteSet, OP!Cardinality, OneSm!Cardinality,
       OP!BarrierType, OneSm!BarrierType, OP!Barrier, OneSm!Barrier, OP!NewBarrier,
       OneSm!NewBarrier, OP!Settle, OneSm!Settle, OP!Arrive, OneSm!Arrive,
       OP!ArriveExpectTx, OneSm!ArriveExpectTx, OP!CompleteTx, OneSm!CompleteTx, OP!Passes,
       OneSm!Passes, OP!SizeAssumption, OneSm!SizeAssumption, OP!ThreadAssumption,
       OneSm!ThreadAssumption, OP!full_empty, OneSm!full_empty, OP!buffers, OneSm!buffers,
       OP!matrix, OneSm!matrix, OP!consumers, OneSm!consumers, OP!epilogue, OneSm!epilogue,
       OP!vars, OneSm!vars, OP!Slots, OneSm!Slots, OP!Stages, OneSm!Stages, OP!Garbage,
       OneSm!Garbage, OP!Staged, OneSm!Staged, OP!ThisLap, OneSm!ThisLap, OP!LastLap,
       OneSm!LastLap, OP!Threads, OneSm!Threads, OP!PerThread, OneSm!PerThread,
       OP!ScaleWriters, OneSm!ScaleWriters, OP!Init, OneSm!Init, OP!SlotFree,
       OneSm!SlotFree, OP!TmaIssue, OneSm!TmaIssue, OP!TmaLand, OneSm!TmaLand,
       OP!ScaleSlotFree, OneSm!ScaleSlotFree, OP!ScaleStore, OneSm!ScaleStore,
       OP!BufferFree, OneSm!BufferFree, OP!MmaIssue, OneSm!MmaIssue, OP!Product,
       OneSm!Product, OP!MmaRetire, OneSm!MmaRetire, OP!CommitEmpty, OneSm!CommitEmpty,
       OP!CommitFull, OneSm!CommitFull, OP!ConsumerRead, OneSm!ConsumerRead, OP!Promoted,
       OneSm!Promoted, OP!ConsumerRelease, OneSm!ConsumerRelease, OP!ProducersDone,
       OneSm!ProducersDone, OP!AllRolesDone, OneSm!AllRolesDone, OP!Joined, OneSm!Joined,
       OP!WriteExchange, OneSm!WriteExchange, OP!Everyone, OneSm!Everyone, OP!Sync,
       OneSm!Sync, OP!StoreRows, OneSm!StoreRows, OP!Terminated, OneSm!Terminated, OP!Next,
       OneSm!Next, OP!InRange, OneSm!InRange, OP!TypeOK, OneSm!TypeOK, OP!OperandStable,
       OneSm!OperandStable, OP!FragmentStable, OneSm!FragmentStable, OP!InOrder,
       OneSm!InOrder, OP!ExchangeAlone, OneSm!ExchangeAlone, OP!StoresComplete,
       OneSm!StoresComplete, OP!ExchangeSound, OneSm!ExchangeSound

\* So is the two-SM kernel.
LEMMA SameTwoSm ==
  /\ (TP!Init <=> TwoSm!Init) /\ ([TP!Next]_(TP!vars) <=> [TwoSm!Next]_(TwoSm!vars))
  /\ (TP!PAssumption <=> TwoSm!PAssumption) /\ (TP!SizeAssumption <=> TwoSm!SizeAssumption)
  /\ (TP!ThreadAssumption <=> TwoSm!ThreadAssumption) /\ (TP!TypeOK <=> TwoSm!TypeOK)
  /\ (TP!OperandStable <=> TwoSm!OperandStable)
BY DEF TP!IsFiniteSet, TwoSm!IsFiniteSet, TP!Cardinality, TwoSm!Cardinality,
       TP!BarrierType, TwoSm!BarrierType, TP!Barrier, TwoSm!Barrier, TP!NewBarrier,
       TwoSm!NewBarrier, TP!Settle, TwoSm!Settle, TP!Arrive, TwoSm!Arrive,
       TP!ArriveExpectTx, TwoSm!ArriveExpectTx, TP!CompleteTx, TwoSm!CompleteTx, TP!Passes,
       TwoSm!Passes, TP!PAssumption, TwoSm!PAssumption, TP!SizeAssumption,
       TwoSm!SizeAssumption, TP!ThreadAssumption, TwoSm!ThreadAssumption, TP!barriers,
       TwoSm!barriers, TP!producers, TwoSm!producers, TP!matrix, TwoSm!matrix,
       TP!consumers, TwoSm!consumers, TP!epilogue, TwoSm!epilogue, TP!vars, TwoSm!vars,
       TP!CTAs, TwoSm!CTAs, TP!Leader, TwoSm!Leader, TP!Slots, TwoSm!Slots, TP!Stages,
       TwoSm!Stages, TP!Steps, TwoSm!Steps, TP!ConsumerWarps, TwoSm!ConsumerWarps, TP!Cta,
       TwoSm!Cta, TP!WarpsOf, TwoSm!WarpsOf, TP!PartOf, TwoSm!PartOf, TP!PartMates,
       TwoSm!PartMates, TP!Slot, TwoSm!Slot, TP!Stage, TwoSm!Stage, TP!Garbage,
       TwoSm!Garbage, TP!ThisLap, TwoSm!ThisLap, TP!LastLap, TwoSm!LastLap, TP!Product,
       TwoSm!Product, TP!Promoted, TwoSm!Promoted, TP!SfFullArrivals, TwoSm!SfFullArrivals,
       TP!SfEmptyArrivals, TwoSm!SfEmptyArrivals, TP!AccEmptyArrivals,
       TwoSm!AccEmptyArrivals, TP!Init, TwoSm!Init, TP!OperandSlotFree,
       TwoSm!OperandSlotFree, TP!Announces, TwoSm!Announces, TP!TmaIssue, TwoSm!TmaIssue,
       TP!TmaLand, TwoSm!TmaLand, TP!ScaleSlotFree, TwoSm!ScaleSlotFree, TP!ScaleIssue,
       TwoSm!ScaleIssue, TP!ScalePublish, TwoSm!ScalePublish, TP!StageFree,
       TwoSm!StageFree, TP!MmaIssue, TwoSm!MmaIssue, TP!MmaRetire, TwoSm!MmaRetire,
       TP!CommitEmpty, TwoSm!CommitEmpty, TP!CommitFull, TwoSm!CommitFull, TP!ConsumerRead,
       TwoSm!ConsumerRead, TP!ConsumerRelease, TwoSm!ConsumerRelease, TP!AllWarpsAt,
       TwoSm!AllWarpsAt, TP!SumAfter, TwoSm!SumAfter, TP!WriteExchange,
       TwoSm!WriteExchange, TP!SyncWritten, TwoSm!SyncWritten, TP!StoreRows,
       TwoSm!StoreRows, TP!SyncStored, TwoSm!SyncStored, TP!RolesJoined, TwoSm!RolesJoined,
       TP!FreeTmem, TwoSm!FreeTmem, TP!Terminated, TwoSm!Terminated, TP!Next, TwoSm!Next,
       TP!OperandTypes, TwoSm!OperandTypes, TP!ScaleTypes, TwoSm!ScaleTypes, TP!StageTypes,
       TwoSm!StageTypes, TP!ConsumerTypes, TwoSm!ConsumerTypes, TP!ArrivalsInRange,
       TwoSm!ArrivalsInRange, TP!TypeOK, TwoSm!TypeOK, TP!OperandStable,
       TwoSm!OperandStable

-----------------------------------------------------------------------------
(* One launch runs one of the kernels, from its initial state and by its   *)
(* steps, so the kernel's invariant is the launch's while it runs.         *)

\* The invariant of the kernel config names.
LaunchInv ==
  /\ config \in Configs \cup {0, Refused}
  /\ Launched("two-SM") => TP!RingInv
  /\ Launched("one-SM") => OP!BlockInv
  /\ Launched("ping-pong") => PP!PongBlockInv
  /\ Launched("cp.async") => LoopInv

\* The kernels' assumptions are among the launch's.
LEMMA Shapes ==
  /\ TP!PAssumption /\ TP!SizeAssumption /\ TP!ThreadAssumption
  /\ OP!Shape /\ PP!Pong!ShapeAssumption /\ CpAsync!ShapeAssumption
BY KernelAssumptions, SameTwoSm, SameOneSm, SamePingPong DEF OP!Shape

\* A configuration names one kernel.
LEMMA OneKernel ==
  /\ Launched("two-SM") => ~Launched("one-SM") /\ ~Launched("ping-pong") /\ ~Launched("cp.async")
  /\ Launched("one-SM") => ~Launched("ping-pong") /\ ~Launched("cp.async")
  /\ Launched("ping-pong") => ~Launched("cp.async")
  /\ Launched("none") => /\ ~Launched("two-SM") /\ ~Launched("one-SM")
                         /\ ~Launched("ping-pong") /\ ~Launched("cp.async")
BY DEF Launched

\* A launch starts as its kernel does.
LEMMA LaunchInit ==
  ASSUME Init
  PROVE  LaunchInv
<1>1. config \in Configs \cup {0, Refused}
  BY DEF Init, ConfigRun
<1>2. CASE Launched("two-SM") /\ TwoSm!Init
  <2>1. TP!RingInv
    BY <1>2, Shapes, SameTwoSm, TP!RingInit
  <2> QED BY ONLY <1>1, <1>2, <2>1, OneKernel DEF LaunchInv
<1>3. CASE Launched("one-SM") /\ OneSm!Init
  <2>1. OP!BlockInv
    BY <1>3, Shapes, SameOneSm, OP!BlockInit
  <2> QED BY ONLY <1>1, <1>3, <2>1, OneKernel DEF LaunchInv
<1>4. CASE Launched("ping-pong") /\ PingPong!Init
  <2>1. PP!PongBlockInv
    BY <1>4, Shapes, SamePingPong, PP!PongBlockInit
  <2> QED BY ONLY <1>1, <1>4, <2>1, OneKernel DEF LaunchInv
<1>5. CASE Launched("cp.async") /\ CpAsync!Init
  <2>1. LoopInv
    BY <1>5, Shapes, LoopInit
  <2> QED BY ONLY <1>1, <1>5, <2>1, OneKernel DEF LaunchInv
<1>6. CASE Launched("none")
  BY ONLY <1>1, <1>6, OneKernel DEF LaunchInv
<1> QED BY <1>2, <1>3, <1>4, <1>5, <1>6 DEF Init

\* A step of the launch is one of its kernel, or changes nothing of it.
LEMMA KernelSteps ==
  ASSUME [Next]_vars
  PROVE  /\ config' = config /\ \A k : Launched(k)' <=> Launched(k)
         /\ Launched("two-SM") => [TwoSm!Next]_(TwoSm!vars)
         /\ Launched("one-SM") => [OneSm!Next]_(OneSm!vars)
         /\ Launched("ping-pong") => [PingPong!Next]_(PingPong!vars)
         /\ Launched("cp.async") => [CpAsync!Next]_(CpAsync!vars)
<1>1. CASE UNCHANGED vars
  <2>1. UNCHANGED TwoSm!vars
    BY ONLY <1>1 DEF vars, OnlyTwoSm, OnlyOneSm, OnlyPingPong, OnlyCpAsync, Rings, Tensor,
       TwoSm!vars, TwoSm!barriers, TwoSm!producers, TwoSm!matrix, TwoSm!consumers, TwoSm!epilogue
  <2>2. UNCHANGED OneSm!vars
    BY ONLY <1>1 DEF vars, OnlyTwoSm, OnlyOneSm, OnlyPingPong, OnlyCpAsync, Rings, Tensor,
       OneSm!vars, OneSm!full_empty, OneSm!buffers, OneSm!matrix, OneSm!consumers, OneSm!epilogue
  <2>3. UNCHANGED PingPong!vars
    BY ONLY <1>1 DEF vars, OnlyTwoSm, OnlyOneSm, OnlyPingPong, OnlyCpAsync, Rings, Tensor,
       PingPong!vars, PingPong!buffers, PingPong!matrix, PingPong!epilogue
  <2>4. UNCHANGED CpAsync!vars
    BY ONLY <1>1 DEF vars, OnlyTwoSm, OnlyOneSm, OnlyPingPong, OnlyCpAsync, Rings, Tensor,
       CpAsync!vars, CpAsync!call, CpAsync!memory, CpAsync!source, CpAsync!pipes,
       CpAsync!registers, CpAsync!results, CpAsync!epilogue
  <2>5. config' = config
    BY ONLY <1>1 DEF vars
  <2> QED BY ONLY <2>1, <2>2, <2>3, <2>4, <2>5 DEF Launched
<1>2. CASE Next
  <2>1. config' = config
    BY ONLY <1>2 DEF Next
  <2>2. \/ Launched("two-SM") /\ TwoSm!Next
        \/ Launched("one-SM") /\ OneSm!Next
        \/ Launched("ping-pong") /\ PingPong!Next
        \/ Launched("cp.async") /\ CpAsync!Next
    BY ONLY <1>2 DEF Next
  <2> QED BY ONLY <2>1, <2>2, OneKernel DEF Launched
<1> QED BY ONLY <1>1, <1>2, [Next]_vars

\* Every step of a launch preserves the invariant of its kernel.
LEMMA LaunchNext ==
  ASSUME LaunchInv, [Next]_vars
  PROVE  LaunchInv'
<1>1. config' = config /\ \A k : Launched(k)' <=> Launched(k)
  BY KernelSteps
<1>2. ASSUME Launched("two-SM") PROVE TP!RingInv'
  <2>1. TP!RingInv /\ [TP!Next]_(TP!vars)
    BY <1>2, KernelSteps, SameTwoSm DEF LaunchInv
  <2> QED BY <2>1, Shapes, TP!RingNext
<1>3. ASSUME Launched("one-SM") PROVE OP!BlockInv'
  <2>1. OP!BlockInv /\ [OP!Next]_(OP!vars)
    BY <1>3, KernelSteps, SameOneSm DEF LaunchInv
  <2> QED BY <2>1, Shapes, OP!BlockNext
<1>4. ASSUME Launched("ping-pong") PROVE PP!PongBlockInv'
  <2>1. PP!PongBlockInv /\ [PP!Pong!Next]_(PP!Pong!vars)
    BY <1>4, KernelSteps, SamePingPong DEF LaunchInv
  <2> QED BY <2>1, Shapes, PP!PongBlockNext
<1>5. ASSUME Launched("cp.async") PROVE LoopInv'
  <2>1. LoopInv /\ [CpAsync!Next]_(CpAsync!vars)
    BY <1>5, KernelSteps DEF LaunchInv
  <2> QED BY <2>1, Shapes, LoopNext
<1>6. config' \in Configs \cup {0, Refused}
  BY <1>1 DEF LaunchInv
<1> QED BY ONLY <1>1, <1>2, <1>3, <1>4, <1>5, <1>6 DEF LaunchInv

-----------------------------------------------------------------------------
(* What every launch keeps.                                                *)

\* What the kernels' invariants give.
LEMMA LaunchPromises ==
  ASSUME LaunchInv
  PROVE  TypeOK /\ OperandStable /\ PromotionStable /\ GroupsExact /\ ExchangeSound
<1>1. ASSUME Launched("two-SM") PROVE TwoSm!TypeOK /\ TwoSm!OperandStable
  <2>1. TP!RingInv
    BY <1>1 DEF LaunchInv
  <2>2. TP!ArrivalsInRange
    BY <2>1, Shapes, TP!RingsInRange
  <2>3. TP!TypeOK
    BY <2>1, <2>2
       DEF TP!RingInv, TP!TypeOK, TP!OperandInv, TP!ScaleInv, TP!StageInv
  <2>4. TP!OperandStable
    BY <2>1, Shapes, TP!OperandsHeld DEF TP!RingInv
  <2> QED BY <2>3, <2>4, SameTwoSm
<1>2. ASSUME Launched("one-SM")
      PROVE  OneSm!TypeOK /\ OneSm!OperandStable /\ OneSm!FragmentStable /\ OneSm!ExchangeSound
  <2>1. OP!BlockSafe
    BY <1>2, Shapes, OP!BlockPromises DEF LaunchInv
  <2> QED BY <2>1, SameOneSm DEF OP!BlockSafe
<1>3. ASSUME Launched("ping-pong")
      PROVE  /\ PingPong!TypeOK /\ PingPong!OperandStable
             /\ PingPong!PromotionStable /\ PingPong!ExchangeSound
  <2>1. PP!PongBlockSafe
    BY <1>3, Shapes, PP!PongBlockPromises DEF LaunchInv
  <2> QED BY <2>1, SamePingPong DEF PP!PongBlockSafe
<1>4. ASSUME Launched("cp.async")
      PROVE  CpAsync!TypeOK /\ CpAsync!StageStable /\ CpAsync!GroupsExact /\ CpAsync!ExchangeSound
  BY <1>4, Shapes, LoopTypes, LoopStages, LoopGroups, LoopExchange DEF LaunchInv
<1>5. config \in Configs \cup {0, Refused}
  BY DEF LaunchInv
<1> QED BY ONLY <1>1, <1>2, <1>3, <1>4, <1>5
        DEF TypeOK, OperandStable, PromotionStable, GroupsExact, ExchangeSound

\* Whatever configuration a call names, its launch keeps every barrier's count
\* and every cursor in range, and no operand is overwritten while an MMA of any
\* of the four kernels, or a thread of the cp.async one, reads it.
THEOREM LaunchOperandsSafe == Spec => []OperandStable
BY LaunchInit, LaunchNext, LaunchPromises, PTL DEF Spec

\* What the specialised kernels promote is the product and scales of its group.
THEOREM LaunchPromotionsSafe == Spec => []PromotionStable
BY LaunchInit, LaunchNext, LaunchPromises, PTL DEF Spec

\* The cp.async kernel accumulates every group once, in order.
THEOREM LaunchGroupsExact == Spec => []GroupsExact
BY LaunchInit, LaunchNext, LaunchPromises, PTL DEF Spec

\* No epilogue stages its rows under a copy or an MMA in flight, and none, the
\* stores straight from registers included, loses a row.
THEOREM LaunchExchangeSafe == Spec => []ExchangeSound
BY LaunchInit, LaunchNext, LaunchPromises, PTL DEF Spec
===============================================================================
