--------------------------- MODULE BenchmarksProofs ---------------------------
(***************************************************************************)
(* What the reports say, for any plan of shapes, settings, rounds, edits,  *)
(* kills and restarts.  Each of the four families has an invariant of its  *)
(* own, and a behaviour stays within one family:                           *)
(*                                                                         *)
(*   SweepInv       a report, in memory, on disk or in any directory that  *)
(*                  a restart may leave, has the first shapes of its plan  *)
(*                  with the results owed for each, traced to sources;     *)
(*   CheckpointInv  no step replaces a checkpoint that is there, and a run *)
(*                  through every shape has passed those before;           *)
(*   PairedInv      of moe: hashed <= loaded <= on disk, so that what      *)
(*                  hashes as before at the end is what was loaded;        *)
(*   TokensInv      of optimized: the same for each part it verifies.      *)
(*                                                                         *)
(* OrdersInv says what was timed so far: the schedule up to here.  That a  *)
(* schedule is fair is counted by bijections: one pass of every n has a    *)
(* method at a place, and three rounds on the order is reversed.           *)
(***************************************************************************)
EXTENDS Benchmarks, SequenceTheorems, FiniteSetTheorems, WellFoundedInduction, TLAPS

-----------------------------------------------------------------------------
(* The shapes of the prefill model.                                        *)

\* A set of numbers has a least one.
LEMMA Least ==
  ASSUME NEW S, S \subseteq Nat, S # {}
  PROVE  \E m \in S : \A k \in S : m <= k
<1> DEFINE R == OpToRel(<, Nat)
<1>1. IsWellFoundedOn(R, Nat)
  BY NatLessThanWellFounded
<1> HIDE DEF R
<1>2. \E m \in S : \A k \in S : ~(<<k, m>> \in R)
  BY <1>1, WFMin, Zenon
<1>3. \A k, m \in Nat : k < m => <<k, m>> \in R
  BY DEF R, OpToRel
<1>4. PICK m \in S : \A k \in S : ~(<<k, m>> \in R)
  BY <1>2
<1>5. ASSUME NEW k \in S PROVE m <= k
  <2>1. ~(k < m)
    BY <1>3, <1>4, Zenon
  <2> QED BY <2>1
<1> QED BY <1>5

DimsOf(use) == Dims(use[1], use[2])
ShapeSet == [dims : {DimsOf(u) : u \in Range(Uses)}, uses : SUBSET Range(Uses)]
Merging(after, n) ==
  after = [i \in 0 .. n |-> IF i = 0 THEN <<>> ELSE AddUse(after[i - 1], Uses[i])]

\* What the first i uses make: their dimensions, once each, with the uses.
Merged(shapes, i) ==
  /\ shapes \in Seq(ShapeSet)
  /\ \A k \in DOMAIN shapes :
       shapes[k].uses = {u \in {Uses[j] : j \in 1 .. i} : DimsOf(u) = shapes[k].dims}
  /\ \A j, k \in DOMAIN shapes : shapes[j].dims = shapes[k].dims => j = k
  /\ \A j \in 1 .. i : \E k \in DOMAIN shapes : shapes[k].dims = DimsOf(Uses[j])

LEMMA UsesType == Len(Uses) \in Nat /\ DOMAIN Uses = 1 .. Len(Uses)
<1> DEFINE n == Len(TokenCounts) * Len(Operations)
<1>1. Len(TokenCounts) \in Nat /\ Len(Operations) \in Nat
  BY SweepAssumption
<1>2. n \in Nat
  BY <1>1
<1> DEFINE use(i) == <<Operations[((i - 1) % Len(Operations)) + 1],
                       TokenCounts[(i - 1) \div Len(Operations) + 1]>>
<1>3. Uses = [i \in 1 .. n |-> use(i)]
  BY DEF Uses
<1> HIDE DEF n, use
<1> QED BY <1>2, <1>3

LEMMA NewShape ==
  ASSUME NEW shapes, NEW i \in 0 .. Len(Uses) - 1, Merged(shapes, i),
         \A k \in DOMAIN shapes : shapes[k].dims # DimsOf(Uses[i + 1])
  PROVE  Merged(Append(shapes, [dims |-> DimsOf(Uses[i + 1]), uses |-> {Uses[i + 1]}]), i + 1)
<1> DEFINE u == Uses[i + 1]
           new == [dims |-> DimsOf(u), uses |-> {u}]
           longer == Append(shapes, new)
           earlier == {Uses[j] : j \in 1 .. i}
           sofar == {Uses[j] : j \in 1 .. i + 1}
<1>1. i \in Nat /\ i + 1 \in DOMAIN Uses
  BY UsesType
<1>2. u \in Range(Uses)
  BY <1>1 DEF Range
<1>3. new \in ShapeSet
  BY <1>2 DEF ShapeSet
<1>4. shapes \in Seq(ShapeSet)
  BY DEF Merged
<1>5. longer \in Seq(ShapeSet) /\ Len(longer) = Len(shapes) + 1 /\ Len(shapes) \in Nat
      /\ longer[Len(shapes) + 1] = new /\ DOMAIN longer = 1 .. Len(shapes) + 1
      /\ DOMAIN shapes = 1 .. Len(shapes)
      /\ \A k \in DOMAIN shapes : longer[k] = shapes[k]
  BY <1>3, <1>4
<1>6. sofar = earlier \cup {u}
  <2>1. 1 .. i + 1 = (1 .. i) \cup {i + 1}
    BY <1>1
  <2> QED BY <2>1
<1>7. \A v \in earlier : DimsOf(v) # DimsOf(u)
  BY DEF Merged
<1> HIDE DEF longer
<1>8. ASSUME NEW k \in DOMAIN longer
      PROVE  longer[k].uses = {v \in sofar : DimsOf(v) = longer[k].dims}
  <2>1. CASE k \in DOMAIN shapes
    <3>1. longer[k] = shapes[k] /\ shapes[k].dims # DimsOf(u)
      BY <1>5, <2>1
    <3>2. shapes[k].uses = {v \in earlier : DimsOf(v) = shapes[k].dims}
      BY <2>1 DEF Merged
    <3> QED BY <1>6, <3>1, <3>2
  <2>2. CASE k = Len(shapes) + 1
    <3>1. longer[k].uses = {u} /\ longer[k].dims = DimsOf(u)
      BY <1>5, <2>2
    <3> QED BY <1>6, <1>7, <3>1
  <2> QED BY <1>5, <2>1, <2>2
<1>9. ASSUME NEW j \in DOMAIN longer, NEW k \in DOMAIN longer, longer[j].dims = longer[k].dims
      PROVE  j = k
  <2>1. \A x, y \in DOMAIN shapes : shapes[x].dims = shapes[y].dims => x = y
    BY DEF Merged
  <2>2. new.dims = DimsOf(u)
    OBVIOUS
  <2>3. \A x \in DOMAIN shapes : shapes[x].dims # DimsOf(u)
    OBVIOUS
  <2>4. \A x \in DOMAIN longer :
          \/ x \in DOMAIN shapes /\ longer[x] = shapes[x]
          \/ x = Len(shapes) + 1 /\ longer[x] = new
    BY <1>5
  <2> HIDE DEF new, u
  <2> QED BY <1>9, <2>1, <2>2, <2>3, <2>4
<1>10. ASSUME NEW j \in 1 .. i + 1
       PROVE  \E k \in DOMAIN longer : longer[k].dims = DimsOf(Uses[j])
  <2>1. CASE j \in 1 .. i
    <3>1. PICK k \in DOMAIN shapes : shapes[k].dims = DimsOf(Uses[j])
      BY <2>1 DEF Merged
    <3> QED BY <1>5, <3>1
  <2>2. CASE j = i + 1
    <3>1. Len(shapes) + 1 \in DOMAIN longer
      BY <1>5
    <3> QED BY <1>5, <2>2, <3>1
  <2> QED BY <1>1, <2>1, <2>2
<1> QED BY <1>5, <1>8, <1>9, <1>10 DEF Merged, longer

LEMMA SameShape ==
  ASSUME NEW shapes, NEW i \in 0 .. Len(Uses) - 1, Merged(shapes, i),
         NEW m \in DOMAIN shapes, shapes[m].dims = DimsOf(Uses[i + 1])
  PROVE  Merged([k \in DOMAIN shapes |->
                   IF k \in {l \in DOMAIN shapes : shapes[l].dims = DimsOf(Uses[i + 1])}
                   THEN [shapes[k] EXCEPT !.uses = @ \cup {Uses[i + 1]}] ELSE shapes[k]], i + 1)
<1> DEFINE u == Uses[i + 1]
           added == [k \in DOMAIN shapes |->
                       IF k \in {l \in DOMAIN shapes : shapes[l].dims = DimsOf(Uses[i + 1])}
                       THEN [shapes[k] EXCEPT !.uses = @ \cup {Uses[i + 1]}] ELSE shapes[k]]
           earlier == {Uses[j] : j \in 1 .. i}
           sofar == {Uses[j] : j \in 1 .. i + 1}
<1>1. i \in Nat /\ i + 1 \in DOMAIN Uses
  BY UsesType
<1>2. u \in Range(Uses)
  BY <1>1 DEF Range
<1>3. shapes \in Seq(ShapeSet) /\ DOMAIN shapes = 1 .. Len(shapes) /\ Len(shapes) \in Nat
  BY DEF Merged
<1>4. sofar = earlier \cup {u}
  <2>1. 1 .. i + 1 = (1 .. i) \cup {i + 1}
    BY <1>1
  <2> QED BY <2>1
<1>5. ASSUME NEW k \in DOMAIN shapes
      PROVE  /\ added[k] \in ShapeSet /\ added[k].dims = shapes[k].dims
             /\ added[k].uses = {v \in sofar : DimsOf(v) = shapes[k].dims}
  <2>1. shapes[k] \in ShapeSet
    BY <1>3
  <2>2. shapes[k].uses = {v \in earlier : DimsOf(v) = shapes[k].dims}
    BY DEF Merged
  <2>3. CASE shapes[k].dims = DimsOf(u)
    <3>1. added[k] = [shapes[k] EXCEPT !.uses = @ \cup {u}]
      BY <2>3
    <3>2. added[k] \in ShapeSet /\ added[k].dims = shapes[k].dims
          /\ added[k].uses = shapes[k].uses \cup {u}
      BY <1>2, <2>1, <3>1 DEF ShapeSet
    <3> QED BY <1>4, <2>2, <2>3, <3>2
  <2>4. CASE shapes[k].dims # DimsOf(u)
    <3>1. added[k] = shapes[k]
      BY <2>4
    <3> QED BY <1>4, <2>1, <2>2, <2>4, <3>1
  <2> QED BY <2>3, <2>4
<1>6. DOMAIN added = DOMAIN shapes
  OBVIOUS
<1> HIDE DEF added
<1>7. added \in Seq(ShapeSet)
  <2>1. added \in [1 .. Len(shapes) -> ShapeSet]
    BY <1>3, <1>5, <1>6 DEF added
  <2> QED BY <1>3, <2>1
<1>8. ASSUME NEW j \in 1 .. i + 1
      PROVE  \E k \in DOMAIN added : added[k].dims = DimsOf(Uses[j])
  <2>1. CASE j \in 1 .. i
    <3>1. PICK k \in DOMAIN shapes : shapes[k].dims = DimsOf(Uses[j])
      BY <2>1 DEF Merged
    <3> QED BY <1>5, <1>6, <3>1
  <2>2. CASE j = i + 1
    BY <1>5, <1>6, <2>2
  <2> QED BY <1>1, <2>1, <2>2
<1>9. \A k \in DOMAIN added : added[k].uses = {v \in sofar : DimsOf(v) = added[k].dims}
  BY <1>5, <1>6
<1>10. \A j, k \in DOMAIN added : added[j].dims = added[k].dims => j = k
  BY <1>5, <1>6 DEF Merged
<1> QED BY <1>7, <1>8, <1>9, <1>10 DEF Merged, added

LEMMA OneUse ==
  ASSUME NEW shapes, NEW i \in 0 .. Len(Uses) - 1, Merged(shapes, i)
  PROVE  Merged(AddUse(shapes, Uses[i + 1]), i + 1)
<1> DEFINE same == {k \in DOMAIN shapes : shapes[k].dims = DimsOf(Uses[i + 1])}
<1>1. AddUse(shapes, Uses[i + 1]) =
        IF same = {} THEN Append(shapes, [dims |-> DimsOf(Uses[i + 1]), uses |-> {Uses[i + 1]}])
        ELSE [k \in DOMAIN shapes |->
                IF k \in same THEN [shapes[k] EXCEPT !.uses = @ \cup {Uses[i + 1]}] ELSE shapes[k]]
  BY DEF AddUse, DimsOf
<1>2. CASE same = {}
  BY <1>1, <1>2, NewShape
<1>3. CASE same # {}
  <2>1. PICK m \in DOMAIN shapes : shapes[m].dims = DimsOf(Uses[i + 1])
    BY <1>3
  <2> QED BY <1>1, <1>3, <2>1, SameShape
<1> QED BY <1>2, <1>3

\* The recursion has a solution.
LEMMA MergingExists == \E after : Merging(after, Len(Uses))
<1> DEFINE S == {n \in Nat : ~\E after : Merging(after, n)}
<1>1. SUFFICES S = {}
  BY UsesType
<1>2. SUFFICES ASSUME S # {} PROVE FALSE
  OBVIOUS
<1>3. PICK m \in S : \A k \in S : m <= k
  BY <1>2, Least
<1>4. m # 0
  <2>1. Merging([i \in {0} |-> <<>>], 0)
    BY DEF Merging
  <2> QED BY <2>1
<1>5. PICK g : Merging(g, m - 1)
  BY <1>3, <1>4
<1> DEFINE h == [i \in 0 .. m |-> IF i = m THEN AddUse(g[m - 1], Uses[m]) ELSE g[i]]
<1>6. Merging(h, m)
  <2>1. m \in Nat /\ m - 1 \in 0 .. m
    BY <1>3, <1>4
  <2>2. ASSUME NEW i \in 0 .. m
        PROVE  h[i] = IF i = 0 THEN <<>> ELSE AddUse(h[i - 1], Uses[i])
    <3>1. CASE i = m
      <4>1. h[i] = AddUse(g[m - 1], Uses[m]) /\ h[m - 1] = g[m - 1]
        BY <2>1, <3>1, <1>4
      <4> QED BY <3>1, <4>1, <1>4
    <3>2. CASE i = 0
      <4>1. h[i] = g[0] /\ g[0] = <<>>
        BY <1>4, <1>5, <2>1, <3>2 DEF Merging
      <4> QED BY <3>2, <4>1
    <3>3. CASE i # 0 /\ i # m
      <4>1. i \in 0 .. m - 1 /\ i - 1 \in 0 .. m
        BY <2>1, <3>3
      <4>2. h[i] = g[i] /\ h[i - 1] = g[i - 1]
        BY <2>1, <3>3, <4>1
      <4>3. g[i] = AddUse(g[i - 1], Uses[i])
        BY <1>5, <3>3, <4>1 DEF Merging
      <4> QED BY <3>3, <4>2, <4>3
    <3> QED BY <3>1, <3>2, <3>3
  <2>3. h = [i \in 0 .. m |-> IF i = 0 THEN <<>> ELSE AddUse(h[i - 1], Uses[i])]
    <3> DEFINE r == [i \in 0 .. m |-> IF i = 0 THEN <<>> ELSE AddUse(h[i - 1], Uses[i])]
    <3>1. DOMAIN h = 0 .. m /\ h = [i \in 0 .. m |-> h[i]]
      OBVIOUS
    <3>2. \A i \in 0 .. m : h[i] = r[i]
      BY <2>2
    <3> HIDE DEF h
    <3> QED BY <3>1, <3>2
  <2> HIDE DEF h
  <2> QED BY <2>3 DEF Merging
<1> QED BY <1>3, <1>6

LEMMA WorkloadsMerged == Merged(Workloads, Len(Uses))
<1> DEFINE after == CHOOSE g : Merging(g, Len(Uses))
<1>1. Merging(after, Len(Uses))
  BY MergingExists
<1>2. Workloads = after[Len(Uses)]
  BY DEF Workloads, Merging
<1> HIDE DEF after
<1> DEFINE S == {i \in 0 .. Len(Uses) : ~Merged(after[i], i)}
<1>3. S # {} => FALSE
  <2> SUFFICES ASSUME S # {} PROVE FALSE
    OBVIOUS
  <2>1. S \subseteq Nat
    BY UsesType
  <2>2. PICK m \in S : \A k \in S : m <= k
    BY <2>1, Least
  <2>3. CASE m = 0
    <3>1. after[m] = <<>>
      BY <1>1, <2>3, UsesType DEF Merging
    <3>2. Merged(<<>>, 0)
      BY DEF Merged
    <3> QED BY <2>2, <2>3, <3>1, <3>2
  <2>4. CASE m # 0
    <3>1. m - 1 \in 0 .. Len(Uses) - 1 /\ m - 1 \in 0 .. Len(Uses) /\ m \in 1 .. Len(Uses)
      BY <2>4, UsesType
    <3>2. Merged(after[m - 1], m - 1)
      BY <2>2, <3>1
    <3>3. after[m] = AddUse(after[m - 1], Uses[m])
      BY <1>1, <2>4, <3>1 DEF Merging
    <3>4. m - 1 + 1 = m
      BY <3>1
    <3>5. Merged(AddUse(after[m - 1], Uses[m]), m)
      BY <3>1, <3>2, <3>4, OneUse
    <3> QED BY <3>3, <3>5
  <2> QED BY <2>3, <2>4
<1> QED BY <1>2, <1>3, UsesType

-----------------------------------------------------------------------------
(* What a sweep may leave on disk and hold in memory.                      *)

SourceMaps == [Sources -> Int]
Shapes == Range(Workloads) \cup Range(Squares)
Outcomes == {IMPLEMENTATIONS} \cup SUBSET ({"triton", "cute"} \X {"default", "tuned"})
CaseSet == [shape : Shapes, ran : SourceMaps, hashed : SourceMaps, results : Outcomes]
Resumptions == [done : Nat, script : Int]
ReportSet ==
  [kind : {"report"}, settings : Settings, source : SourceMaps, cases : Seq(CaseSet),
   resumed : Seq(Resumptions), complete : BOOLEAN, failure : BOOLEAN,
   segments : BOOLEAN, setting : Readings \cup {None}, steady : Readings,
   after : Readings \cup {None}]
ArgSet ==
  [settings : Settings, resume : BOOLEAN, max : {0, 1}, clock : BOOLEAN,
   applied : Readings, first : Readings]
GpuInv == gpu \in [heat : {"cool", "hot"}, clock : Readings]

\* The results name their sources.
Traced(r) ==
  /\ \A e \in DOMAIN r.resumed : r.resumed[e].done <= Len(r.cases)
  /\ \A i \in DOMAIN r.cases :
       Clean(r.cases[i]) =>
         /\ \A s \in {"library", "software"} : r.cases[i].ran[s] = r.source[s]
         /\ r.cases[i].ran["script"] = ScriptOf(r, i)

\* What a family of benchmarks measures.
Family == IF Prefill THEN "prefill" ELSE "thor"
Plan(family, settings) ==
  LET every == IF family = "prefill" THEN Workloads ELSE Squares
      limit == settings.limit
  IN IF limit = 0 \/ limit >= Len(every) THEN every
     ELSE SubSeq(every, 1, IF limit < 0 THEN Len(every) + limit ELSE limit)
Owed(family, shape) ==
  IF family = "prefill" THEN Backends(shape) \X {"default", "tuned"} ELSE IMPLEMENTATIONS

\* The cases are the first shapes, with the results that belong to them.
Planned(family, r) ==
  /\ Len(r.cases) <= Len(Plan(family, r.settings))
  /\ \A i \in DOMAIN r.cases :
       /\ r.cases[i].shape = Plan(family, r.settings)[i]
       /\ r.cases[i].results = Owed(family, r.cases[i].shape)
Whole(family, r) ==
  IF family = "prefill"
  THEN Planned(family, r) /\ (r.complete => Len(r.cases) = Len(Plan(family, r.settings)))
  ELSE r.resumed = <<>> /\ (r.complete /\ Settled(r) => LoadReport(r, Plan(family, r.settings)))

SoundReport(family, r) == r \in ReportSet /\ Traced(r) /\ Whole(family, r)
SoundContent(family, r) == r \in {Absent, Torn} \/ SoundReport(family, r)

LastScript(r) ==
  IF r.resumed = <<>> THEN r.source["script"] ELSE r.resumed[Len(r.resumed)].script
\* What a session that hashed h measures next belongs to the report.
Matching(h, r) ==
  /\ \A s \in {"library", "software"} : h[s] = r.source[s]
  /\ h["script"] = LastScript(r)

InProcess == tool \in {"prefill", "historical", "direct"}
Measuring == pc \in {"loop", "save", "sync"}
Sweeper == pc \in {"cool", "child", "merge"}

SweepTypes ==
  /\ Sweeping /\ sources \in SourceMaps /\ loaded \in SourceMaps /\ hashed \in SourceMaps
  /\ promised \in Seq(CaseSet)
  /\ pc \in {"off", "open", "loop", "save", "sync", "cool", "child", "merge"}
  /\ next \in {"off", "loop", "cool"}
  /\ pc # "off" => args \in ArgSet
Places ==
  /\ pc = "loop" => InProcess /\ next = "loop"
  /\ Sweeper => tool = "sweep"
  /\ pc \in {"child", "merge"} => Missing # {}
  /\ pc = "sync" => Prefill /\ file = report
  /\ pc \in {"save", "sync"} => (next = "loop" => InProcess) /\ (next = "cool" => tool = "sweep")
DiskInv == file \in durable /\ \A r \in durable : SoundContent(Family, r)
MemoryInv ==
  /\ Measuring => SoundReport(Family, report)
  /\ Sweeper => report = Absent \/ SoundReport(Family, report)
  /\ InProcess /\ Measuring =>
       /\ report.settings = args.settings /\ Matching(hashed, report) /\ Planned(Family, report)
       /\ next = "loop" => ~report.complete
       /\ tool = "direct" => report.setting = None
PromiseInv ==
  Prefill =>
    /\ \A content \in durable : IsPrefix(promised, content.cases)
    /\ pc = "open" /\ ~args.resume => promised = <<>>
    /\ Measuring => IsPrefix(promised, report.cases)
SweepInv == SweepTypes /\ Places /\ DiskInv /\ MemoryInv /\ PromiseInv

-----------------------------------------------------------------------------
(* Lists.                                                                  *)

LEMMA PrefixKept ==
  ASSUME NEW S, NEW s \in Seq(S), NEW t \in Seq(S)
  PROVE  /\ IsPrefix(<<>>, t) /\ IsPrefix(s, s)
         /\ IsPrefix(s, <<>>) => s = <<>>
         /\ \A e \in S : IsPrefix(s, t) => IsPrefix(s, Append(t, e))
<1>1. IsPrefix(<<>>, t)
  BY DEF IsPrefix
<1>2. IsPrefix(s, s)
  BY DEF IsPrefix
<1>3. IsPrefix(s, <<>>) => s = <<>>
  BY DEF IsPrefix
<1>4. ASSUME NEW e \in S, IsPrefix(s, t) PROVE IsPrefix(s, Append(t, e))
  <2>1. Len(s) \in Nat /\ Len(t) \in Nat /\ Len(s) <= Len(t)
    BY <1>4 DEF IsPrefix
  <2>2. Len(Append(t, e)) = Len(t) + 1
    OBVIOUS
  <2>3. SubSeq(Append(t, e), 1, Len(s)) = SubSeq(t, 1, Len(s))
    BY <2>1
  <2> QED BY <1>4, <2>1, <2>2, <2>3 DEF IsPrefix
<1> QED BY <1>1, <1>2, <1>3, <1>4

LEMMA WorkloadsType == Workloads \in Seq(ShapeSet)
BY WorkloadsMerged DEF Merged

LEMMA PlanType ==
  ASSUME NEW family, NEW settings \in Settings
  PROVE  Plan(family, settings) \in Seq(Shapes)
<1>1. Workloads \in Seq(Shapes)
  <2>1. DOMAIN Workloads = 1 .. Len(Workloads) /\ Len(Workloads) \in Nat
    BY WorkloadsType
  <2>2. Workloads \in [1 .. Len(Workloads) -> Shapes]
    <3>1. Workloads = [i \in 1 .. Len(Workloads) |-> Workloads[i]]
      BY WorkloadsType
    <3>2. \A i \in 1 .. Len(Workloads) : Workloads[i] \in Shapes
      BY <2>1 DEF Shapes, Range
    <3> HIDE DEF Shapes
    <3> QED BY <3>1, <3>2
  <2> QED BY <2>1, <2>2
<1>2. Squares \in Seq(Shapes)
  <2>1. Len(Sizes) \in Nat /\ DOMAIN Sizes = 1 .. Len(Sizes)
    BY SweepAssumption
  <2>2. \A i \in 1 .. Len(Sizes) : Squares[i] \in Shapes
    BY <2>1 DEF Shapes, Range, Squares
  <2>3. Squares \in [1 .. Len(Sizes) -> Shapes]
    BY <2>1, <2>2 DEF Squares
  <2> QED BY <2>1, <2>3
<1>3. PICK every \in Seq(Shapes) : every = IF family = "prefill" THEN Workloads ELSE Squares
  BY <1>1, <1>2
<1>4. settings.limit \in Int /\ Len(every) \in Nat
  BY SweepAssumption
<1>5. PICK n \in Int : n = IF settings.limit < 0 THEN Len(every) + settings.limit ELSE settings.limit
  BY <1>4
<1>6. Plan(family, settings) =
        IF settings.limit = 0 \/ settings.limit >= Len(every) THEN every ELSE SubSeq(every, 1, n)
  BY <1>3, <1>5 DEF Plan
<1>7. CASE settings.limit = 0 \/ settings.limit >= Len(every)
  BY <1>6, <1>7
<1>8. CASE ~(settings.limit = 0 \/ settings.limit >= Len(every))
  <2>1. n <= Len(every)
    BY <1>4, <1>5, <1>8
  <2>2. CASE n >= 1
    <3>1. SubSeq(every, 1, n) \in Seq(Shapes)
      BY <1>4, <2>1, <2>2, SubSeqProperties
    <3> QED BY <1>6, <1>8, <3>1
  <2>3. CASE n < 1
    <3>1. SubSeq(every, 1, n) = <<>>
      BY <2>3, SubSeqEmpty
    <3>2. Plan(family, settings) = <<>>
      BY <1>6, <1>8, <3>1, Zenon
    <3> QED BY <3>2
  <2> QED BY <2>2, <2>3
<1> QED BY <1>7, <1>8

LEMMA PlanIs ==
  /\ Family = "prefill" <=> Prefill
  /\ \A settings : Expected(settings) = Plan(Family, settings)
BY DEF Family, Plan, Expected, Every

-----------------------------------------------------------------------------
(* Sessions of a sweep that end, wait or save.                             *)

LEMMA ToolStays ==
  ASSUME tool' = tool
  PROVE  /\ Family' = Family /\ (Prefill' <=> Prefill) /\ (InProcess' <=> InProcess)
         /\ (Sweeping' <=> Sweeping)
         /\ args' = args /\ report' = report => Missing' = Missing
         /\ args'.settings = args.settings /\ report' = report => Missing' = Missing
<1>1. Family' = Family /\ (Prefill' <=> Prefill) /\ (InProcess' <=> InProcess)
      /\ (Sweeping' <=> Sweeping)
  BY DEF Family, Prefill, InProcess, Sweeping
<1>2. ASSUME args'.settings = args.settings, report' = report PROVE Missing' = Missing
  <2>1. Every' = Every
    BY <1>1 DEF Every
  <2>2. Expected(args.settings)' = Expected(args.settings)
    BY <1>2, <2>1 DEF Expected
  <2> QED BY <1>2, <2>2 DEF Missing
<1> QED BY <1>1, <1>2

LEMMA EndedInv ==
  ASSUME SweepInv, Ended, tool' = tool, sources' \in SourceMaps, promised' \in Seq(CaseSet),
         DiskInv', Prefill' => \A content \in durable' : IsPrefix(promised', content.cases)
  PROVE  SweepInv'
<1>1. pc' = "off" /\ next' = "off" /\ loaded' = Unedited /\ hashed' = Unedited
  BY DEF Ended
<1>2. Unedited \in SourceMaps
  BY DEF Unedited, SourceMaps
<1>3. SweepTypes'
  BY <1>1, <1>2, ToolStays DEF SweepInv, SweepTypes
<1>4. Places' /\ MemoryInv' /\ PromiseInv'
  BY <1>1 DEF Places, MemoryInv, PromiseInv, Sweeper, Measuring
<1> QED BY <1>3, <1>4 DEF SweepInv

LEMMA DiskKept ==
  ASSUME SweepInv, tool' = tool, file' = file, durable' = durable, promised' = promised
  PROVE  /\ DiskInv'
         /\ Prefill' => \A content \in durable' : IsPrefix(promised', content.cases)
BY ToolStays DEF SweepInv, DiskInv, PromiseInv

LEMMA SavesInv ==
  ASSUME SweepInv, tool' = tool, sources' \in SourceMaps,
         file' = file, durable' = durable, promised' = promised,
         loaded' \in SourceMaps, hashed' \in SourceMaps, args' = args, args \in ArgSet,
         NEW content, report' = content, SoundReport(Family, content),
         pc' = "save", next' \in {"off", "loop", "cool"},
         next' = "loop" => InProcess, next' = "cool" => tool = "sweep",
         InProcess => /\ content.settings = args.settings /\ Planned(Family, content)
                      /\ Matching(hashed', content) /\ (next' = "loop" => ~content.complete)
                      /\ (tool = "direct" => content.setting = None),
         Prefill => IsPrefix(promised, content.cases)
  PROVE  SweepInv'
<1>1. DiskInv' /\ (Prefill' => \A c \in durable' : IsPrefix(promised', c.cases))
  BY DiskKept
<1>2. SweepTypes'
  BY ToolStays DEF SweepInv, SweepTypes
<1>3. Places'
  BY ToolStays DEF Places, Sweeper
<1>4. MemoryInv'
  BY ToolStays DEF MemoryInv, Sweeper
<1>5. PromiseInv'
  BY <1>1, ToolStays DEF PromiseInv
<1> QED BY <1>1, <1>2, <1>3, <1>4, <1>5 DEF SweepInv

\* Nothing but what runs outside the session changes.
LEMMA OutsideInv ==
  ASSUME SweepInv, UNCHANGED session, UNCHANGED disk, tool' = tool, sources' \in SourceMaps
  PROVE  SweepInv'
<1>1. (Sweeper' <=> Sweeper) /\ (Measuring' <=> Measuring)
  BY DEF Sweeper, Measuring, session
<1>2. DiskInv' /\ (Prefill' => \A c \in durable' : IsPrefix(promised', c.cases))
  BY DiskKept DEF disk
<1>3. SweepTypes'
  BY ToolStays DEF SweepInv, SweepTypes, session, disk
<1>4. Places'
  <2>1. Missing' = Missing
    BY ToolStays DEF session
  <2> QED BY <1>1, <2>1, ToolStays DEF SweepInv, Places, session, disk
<1>5. PromiseInv'
  BY <1>1, <1>2, ToolStays DEF SweepInv, PromiseInv, session, disk
<1>6. MemoryInv'
  BY <1>1, ToolStays DEF SweepInv, MemoryInv, session
<1> QED BY <1>2, <1>3, <1>4, <1>5, <1>6 DEF SweepInv

-----------------------------------------------------------------------------
(* Saving.                                                                 *)

LEMMA ReplaceInv == SweepInv /\ Replace => SweepInv'
<1> SUFFICES ASSUME SweepInv, Replace PROVE SweepInv'
  OBVIOUS
<1>1. /\ pc = "save" /\ file' = report /\ durable' = Surviving /\ promised' = promised
      /\ tool' = tool /\ sources' = sources
  BY DEF Replace, host
<1>2. SoundReport(Family, report)
  BY <1>1 DEF SweepInv, MemoryInv, Measuring
<1>3. DiskInv'
  <2>1. durable' \subseteq durable \cup {report, Torn}
    BY <1>1 DEF Surviving, Unsynced, SweepInv, DiskInv
  <2>2. file' \in durable'
    BY <1>1 DEF Surviving, Unsynced
  <2> QED BY <1>1, <1>2, <2>1, <2>2, ToolStays DEF DiskInv, SoundContent, SweepInv
<1>4. Prefill' => \A content \in durable' : IsPrefix(promised', content.cases)
  <2>1. ASSUME Prefill PROVE \A content \in durable' : IsPrefix(promised', content.cases)
    <3>1. durable' = durable \cup {report}
      BY <1>1, <2>1 DEF Surviving
    <3> QED BY <1>1, <2>1, <3>1 DEF SweepInv, PromiseInv, Measuring
  <2> QED BY <1>1, <2>1, ToolStays
<1>5. CASE Ended
  BY <1>1, <1>3, <1>4, <1>5, EndedInv DEF SweepInv, SweepTypes
<1>6. CASE /\ (pc' = "sync" /\ Prefill) \/ (pc' = next /\ next \in {"loop", "cool"})
           /\ UNCHANGED <<next, args, loaded, hashed, report>>
  <2>1. SweepTypes'
    BY <1>1, <1>6, ToolStays DEF SweepInv, SweepTypes
  <2>2. Places'
    BY <1>1, <1>6, ToolStays DEF SweepInv, Places, Sweeper
  <2>3. MemoryInv'
    BY <1>1, <1>2, <1>6, ToolStays DEF SweepInv, MemoryInv, Measuring, Sweeper
  <2>4. PromiseInv'
    BY <1>1, <1>4, <1>6, ToolStays DEF SweepInv, PromiseInv, Measuring
  <2> QED BY <1>3, <2>1, <2>2, <2>3, <2>4 DEF SweepInv
<1>7. CASE ~Prefill
  <2>1. Return
    BY <1>7 DEF Replace
  <2>2. CASE next = "off"
    BY <1>5, <2>1, <2>2 DEF Return
  <2>3. CASE next # "off"
    <3>1. pc' = next /\ next \in {"loop", "cool"} /\ UNCHANGED <<next, args, loaded, hashed, report>>
      BY <2>1, <2>3 DEF Return, SweepInv, SweepTypes
    <3> QED BY <1>6, <3>1
  <2> QED BY <2>2, <2>3
<1>8. CASE Prefill
  BY <1>6, <1>8 DEF Replace
<1> QED BY <1>7, <1>8

LEMMA SyncInv == SweepInv /\ SyncDirectory => SweepInv'
<1> SUFFICES ASSUME SweepInv, SyncDirectory PROVE SweepInv'
  OBVIOUS
<1>1. /\ pc = "sync" /\ Return /\ durable' = {file} /\ promised' = report.cases
      /\ file' = file /\ tool' = tool /\ sources' = sources
  BY DEF SyncDirectory, host
<1>2. SoundReport(Family, report) /\ Prefill /\ file = report
  BY <1>1 DEF SweepInv, MemoryInv, Measuring, Places
<1>3. report.cases \in Seq(CaseSet)
  BY <1>2 DEF SoundReport, ReportSet
<1>4. IsPrefix(report.cases, report.cases)
  BY <1>3, PrefixKept
<1>5. DiskInv'
  BY <1>1, <1>2, ToolStays DEF DiskInv, SoundContent
<1>6. \A content \in durable' : IsPrefix(promised', content.cases)
  BY <1>1, <1>2, <1>4
<1>7. CASE next = "off"
  <2>1. Ended
    BY <1>1, <1>7 DEF Return
  <2> QED BY <1>1, <1>3, <1>5, <1>6, <2>1, EndedInv DEF SweepInv, SweepTypes
<1>8. CASE next # "off"
  <2>1. pc' = next /\ next \in {"loop", "cool"} /\ UNCHANGED <<next, args, loaded, hashed, report>>
    BY <1>1, <1>8 DEF Return, SweepInv, SweepTypes
  <2>2. tool # "sweep"
    BY <1>2 DEF Prefill
  <2>3. pc' = "loop" /\ InProcess
    BY <1>1, <2>1, <2>2 DEF SweepInv, Places
  <2>4. SweepTypes'
    BY <1>1, <1>3, <2>1, ToolStays DEF SweepInv, SweepTypes
  <2>5. Places'
    BY <1>1, <2>1, <2>3, ToolStays DEF Places, Sweeper
  <2>6. MemoryInv'
    BY <1>1, <2>1, <2>3, ToolStays DEF SweepInv, MemoryInv, Measuring, Sweeper
  <2>7. PromiseInv'
    BY <1>1, <1>4, <1>6, <2>1, <2>3 DEF PromiseInv
  <2> QED BY <1>5, <2>4, <2>5, <2>6, <2>7 DEF SweepInv
<1> QED BY <1>7, <1>8

-----------------------------------------------------------------------------
(* Reports that grow.                                                      *)

LEMMA MaxOfAll == \A n \in Nat \ {0} : Max(1 .. n) = n
<1> TAKE n \in Nat \ {0}
<1>1. n \in 1 .. n /\ \A y \in 1 .. n : n >= y
  OBVIOUS
<1>2. \A x \in 1 .. n : (\A y \in 1 .. n : x >= y) => x = n
  BY <1>1
<1>3. Max(1 .. n) \in 1 .. n /\ \A y \in 1 .. n : Max(1 .. n) >= y
  BY <1>1 DEF Max
<1> QED BY <1>2, <1>3

\* The script that measures the next case is the last recorded.
LEMMA NextScript ==
  ASSUME NEW r \in ReportSet, Traced(r), NEW i \in Nat, i > Len(r.cases)
  PROVE  ScriptOf(r, i) = LastScript(r)
<1>1. r.resumed \in Seq(Resumptions) /\ Len(r.cases) \in Nat
  BY DEF ReportSet
<1>2. Len(r.resumed) \in Nat /\ DOMAIN r.resumed = 1 .. Len(r.resumed)
  BY <1>1
<1>3. {e \in DOMAIN r.resumed : r.resumed[e].done < i} = 1 .. Len(r.resumed)
  <2>1. ASSUME NEW e \in DOMAIN r.resumed PROVE r.resumed[e].done < i
    <3>0. r.resumed[e] \in Resumptions
      BY <1>1
    <3>1. r.resumed[e].done \in Nat /\ r.resumed[e].done <= Len(r.cases)
      BY <3>0 DEF Traced, Resumptions
    <3> QED BY <1>1, <3>1
  <2> QED BY <1>2, <2>1
<1>4. CASE r.resumed = <<>>
  <2>1. 1 .. Len(r.resumed) = {}
    BY <1>4
  <2> QED BY <1>3, <1>4, <2>1 DEF ScriptOf, LastScript
<1>5. CASE r.resumed # <<>>
  <2>1. Len(r.resumed) \in Nat \ {0}
    BY <1>1, <1>5
  <2>2. 1 .. Len(r.resumed) # {} /\ Max(1 .. Len(r.resumed)) = Len(r.resumed)
    BY <2>1, MaxOfAll
  <2> QED BY <1>3, <1>5, <2>2 DEF ScriptOf, LastScript
<1> QED BY <1>4, <1>5

\* A case measured with the sources of the report, saved in whatever state.
LEMMA CaseAdded ==
  ASSUME NEW r \in ReportSet, Traced(r), NEW c \in CaseSet, NEW r2 \in ReportSet,
         r2.cases = Append(r.cases, c), r2.source = r.source, r2.resumed = r.resumed,
         Clean(c) => /\ \A s \in {"library", "software"} : c.ran[s] = r.source[s]
                     /\ c.ran["script"] = LastScript(r)
  PROVE  Traced(r2)
<1>1. r.cases \in Seq(CaseSet) /\ r.resumed \in Seq(Resumptions)
  BY DEF ReportSet
<1>2. /\ Len(r.cases) \in Nat /\ Len(r2.cases) = Len(r.cases) + 1
      /\ DOMAIN r2.cases = 1 .. Len(r.cases) + 1 /\ r2.cases[Len(r.cases) + 1] = c
      /\ DOMAIN r.cases = 1 .. Len(r.cases)
      /\ \A i \in DOMAIN r.cases : r2.cases[i] = r.cases[i]
  BY <1>1
<1>3. ASSUME NEW e \in DOMAIN r2.resumed PROVE r2.resumed[e].done <= Len(r2.cases)
  <2>0. e \in DOMAIN r.resumed /\ r2.resumed[e] = r.resumed[e]
    OBVIOUS
  <2>1. r.resumed[e] \in Resumptions
    BY <1>1, <2>0
  <2>2. r.resumed[e].done \in Nat /\ r.resumed[e].done <= Len(r.cases)
    BY <2>0, <2>1 DEF Traced, Resumptions
  <2> QED BY <1>2, <2>0, <2>2
<1>4. \A i : ScriptOf(r2, i) = ScriptOf(r, i)
  BY DEF ScriptOf
<1>5. ASSUME NEW i \in DOMAIN r2.cases, Clean(r2.cases[i])
      PROVE  /\ \A s \in {"library", "software"} : r2.cases[i].ran[s] = r2.source[s]
             /\ r2.cases[i].ran["script"] = ScriptOf(r2, i)
  <2>1. CASE i \in DOMAIN r.cases
    BY <1>2, <1>4, <1>5, <2>1 DEF Traced
  <2>2. CASE i = Len(r.cases) + 1
    <3>1. i \in Nat /\ i > Len(r.cases)
      BY <1>2, <2>2
    <3>2. ScriptOf(r2, i) = LastScript(r)
      BY <1>4, <3>1, NextScript
    <3>3. r2.cases[i] = c
      BY <1>2, <2>2
    <3> QED BY <1>5, <3>2, <3>3
  <2> QED BY <1>2, <2>1, <2>2
<1> QED BY <1>3, <1>5 DEF Traced

\* A resumed report keeps what its cases name, and records the next script.
LEMMA ResumedTraced ==
  ASSUME NEW r \in ReportSet, Traced(r), NEW source \in SourceMaps
  PROVE  /\ Resumed(r, source) \in ReportSet /\ Traced(Resumed(r, source))
         /\ LastScript(Resumed(r, source)) = source["script"]
<1> DEFINE entry == [done |-> Len(r.cases), script |-> source["script"]]
<1>1. /\ r.cases \in Seq(CaseSet) /\ r.resumed \in Seq(Resumptions)
      /\ Len(r.cases) \in Nat
  BY DEF ReportSet
<1>2. /\ entry \in Resumptions /\ entry.done = Len(r.cases)
      /\ entry.script = source["script"]
  BY <1>1 DEF SourceMaps, Sources, Resumptions
<1>0. Resumed(r, source) = [r EXCEPT !.failure = FALSE, !.resumed = Append(r.resumed, entry)]
  BY DEF Resumed
<1> HIDE DEF entry
<1>3. PICK n \in Nat : n = Len(r.resumed)
  BY <1>1
<1>4. PICK later \in Seq(Resumptions) : later = Append(r.resumed, entry)
  <2>1. PICK s \in Seq(Resumptions) : s = r.resumed
    BY <1>1
  <2>2. Append(s, entry) \in Seq(Resumptions)
    BY <1>2, AppendProperties
  <2> QED BY <2>1, <2>2
<1>5. /\ Len(later) = n + 1 /\ later[n + 1] = entry /\ DOMAIN later = 1 .. n + 1
      /\ DOMAIN r.resumed = 1 .. n
      /\ \A e \in 1 .. n : later[e] = r.resumed[e]
  BY <1>1, <1>2, <1>3, <1>4
<1>6. PICK r2 \in ReportSet : /\ r2 = Resumed(r, source) /\ r2.resumed = later
                              /\ r2.cases = r.cases /\ r2.source = r.source
  <2>1. Resumed(r, source) = [r EXCEPT !.failure = FALSE, !.resumed = later]
    BY <1>0, <1>4
  <2>2. [r EXCEPT !.failure = FALSE, !.resumed = later] \in ReportSet
    BY <1>4 DEF ReportSet
  <2>3. DOMAIN r = {"kind", "settings", "source", "cases", "resumed", "complete", "failure",
                    "segments", "setting", "steady", "after"}
    BY DEF ReportSet
  <2>4. /\ Resumed(r, source).resumed = later /\ Resumed(r, source).cases = r.cases
        /\ Resumed(r, source).source = r.source
    BY <2>1, <2>3
  <2> QED BY <2>1, <2>2, <2>4
<1>7. ASSUME NEW e \in 1 .. n + 1 PROVE later[e].done <= Len(r.cases)
  <2>1. CASE e \in 1 .. n
    BY <1>5, <2>1 DEF Traced
  <2>2. CASE e = n + 1
    <3>1. later[e] = entry
      BY <1>5, <2>2
    <3>2. Len(r.cases) <= Len(r.cases)
      BY <1>1
    <3> QED BY <1>2, <3>1, <3>2
  <2> QED BY <1>3, <2>1, <2>2
<1>8. ASSUME NEW i \in DOMAIN r.cases PROVE ScriptOf(r2, i) = ScriptOf(r, i)
  <2>1. i \in Nat /\ i <= Len(r.cases)
    BY <1>1
  <2>2. {e \in 1 .. n + 1 : later[e].done < i} = {e \in 1 .. n : r.resumed[e].done < i}
    <3>1. ~(later[n + 1].done < i)
      BY <1>1, <1>2, <1>5, <2>1
    <3>2. \A e \in 1 .. n + 1 : e \in 1 .. n \/ e = n + 1
      BY <1>3
    <3>3. \A e \in 1 .. n : e \in 1 .. n + 1
      BY <1>3
    <3> QED BY <1>5, <3>1, <3>2, <3>3, Zenon
  <2> DEFINE E == {e \in 1 .. n : r.resumed[e].done < i}
  <2>3. ScriptOf(r, i) = IF E = {} THEN r.source["script"] ELSE r.resumed[Max(E)].script
    BY <1>5 DEF ScriptOf
  <2>4. ScriptOf(r2, i) = IF E = {} THEN r.source["script"] ELSE later[Max(E)].script
    BY <1>5, <1>6, <2>2 DEF ScriptOf
  <2>5. E # {} => Max(E) \in E
    <3>1. ASSUME E # {} PROVE \E x \in E : \A y \in E : x >= y
      <4>1. E \subseteq 1 .. n
        OBVIOUS
      <4> DEFINE D == {n - x : x \in E}
      <4>2. D \subseteq Nat /\ D # {}
        <5>1. \A x \in E : n - x \in Nat
          BY <1>3, <4>1
        <5> QED BY <3>1, <5>1
      <4>3. PICK d \in D : \A k \in D : d <= k
        BY <4>2, Least
      <4>4. PICK x \in E : d = n - x
        BY <4>3
      <4>5. ASSUME NEW y \in E PROVE x >= y
        <5>1. d <= n - y
          BY <4>3
        <5>2. x \in Int /\ y \in Int
          BY <4>1
        <5> QED BY <1>3, <4>4, <5>1, <5>2
      <4> QED BY <4>5
    <3> HIDE DEF E
    <3> QED BY <3>1 DEF Max
  <2> HIDE DEF E
  <2>6. E \subseteq 1 .. n
    BY DEF E
  <2>7. CASE E = {}
    BY <1>6, <2>3, <2>4, <2>7
  <2>8. CASE E # {}
    <3>1. Max(E) \in 1 .. n
      BY <2>5, <2>6, <2>8
    <3>2. later[Max(E)] = r.resumed[Max(E)]
      BY <1>5, <3>1
    <3> QED BY <2>3, <2>4, <2>8, <3>2
  <2> QED BY <2>7, <2>8
<1>9. Traced(r2)
  BY <1>5, <1>6, <1>7, <1>8 DEF Traced
<1>10. LastScript(r2) = source["script"]
  <2>1. later # <<>> /\ later[Len(later)] = entry
    BY <1>3, <1>5
  <2> QED BY <1>2, <1>6, <2>1 DEF LastScript
<1> QED BY <1>6, <1>9, <1>10

-----------------------------------------------------------------------------
(* A session begins.                                                       *)

LEMMA ContentTyped ==
  ASSUME NEW family, NEW c, SoundContent(family, c)
  PROVE  c.cases \in Seq(CaseSet) /\ (c.kind = "report" => SoundReport(family, c))
<1>1. CASE c \in {Absent, Torn}
  <2>1. c.cases = <<>> /\ c.kind # "report"
    BY <1>1 DEF Absent, Torn
  <2> QED BY <2>1
<1>2. CASE SoundReport(family, c)
  <2>1. c \in ReportSet
    BY <1>2 DEF SoundReport
  <2>2. c.cases \in Seq(CaseSet)
    BY <2>1 DEF ReportSet
  <2> QED BY <1>2, <2>2
<1> QED BY <1>1, <1>2 DEF SoundContent

LEMMA StartInv == SweepInv /\ Start => SweepInv'
<1> SUFFICES ASSUME SweepInv, Start PROVE SweepInv'
  OBVIOUS
<1>1. PICK settings \in Settings, resume \in BOOLEAN, max \in {0, 1}, clock \in BOOLEAN :
        /\ Accepts(resume)
        /\ args' = [settings |-> settings, resume |-> resume, max |-> max, clock |-> clock,
                    applied |-> Free, first |-> Free]
        /\ promised' = IF Replaces(resume) THEN <<>> ELSE promised
  BY DEF Start
<1>2. /\ pc = "off" /\ tool' \in IF Prefill THEN {tool} ELSE {"direct", "sweep"}
      /\ pc' = "open" /\ loaded' = IF tool' = "sweep" THEN Unedited ELSE sources
      /\ UNCHANGED <<next, hashed, report, file, durable, sources>>
  BY DEF Start
<1>3. Family' = Family /\ (Prefill' <=> Prefill) /\ Sweeping'
  <2>1. Sweeping
    BY DEF SweepInv, SweepTypes
  <2> QED BY <1>2, <2>1 DEF Family, Prefill, Sweeping
<1>4. <<>> \in Seq(CaseSet) /\ promised \in Seq(CaseSet)
  BY DEF SweepInv, SweepTypes
<1>5. args' \in ArgSet
  BY <1>1 DEF ArgSet, Readings
<1>6. SweepTypes'
  <2>1. Unedited \in SourceMaps
    BY DEF Unedited, SourceMaps
  <2> QED BY <1>1, <1>2, <1>3, <1>4, <1>5, <2>1 DEF SweepInv, SweepTypes
<1>7. Places' /\ MemoryInv'
  BY <1>2 DEF Places, MemoryInv, Sweeper, Measuring
<1>8. DiskInv'
  BY <1>2, <1>3 DEF SweepInv, DiskInv
<1>9. PromiseInv'
  <2>1. SUFFICES ASSUME Prefill
                 PROVE  /\ \A content \in durable : IsPrefix(promised', content.cases)
                        /\ ~args'.resume => promised' = <<>>
    BY <1>2, <1>3 DEF PromiseInv, Measuring
  <2>2. \A content \in durable : IsPrefix(promised, content.cases) /\ content.cases \in Seq(CaseSet)
    BY <2>1, ContentTyped DEF SweepInv, DiskInv, PromiseInv
  <2>3. \A content \in durable : IsPrefix(<<>>, content.cases)
    BY <2>2, <1>4, PrefixKept
  <2>4. ASSUME ~resume PROVE promised' = <<>>
    <3>1. CASE tool = "historical"
      BY <1>1, <2>4, <3>1 DEF Replaces
    <3>2. CASE tool = "prefill"
      <4>1. file = Absent /\ file \in durable
        BY <1>1, <2>4, <3>2 DEF Accepts, SweepInv, DiskInv
      <4>2. IsPrefix(promised, <<>>)
        BY <2>2, <4>1 DEF Absent
      <4>3. promised = <<>>
        BY <1>4, <4>2, PrefixKept
      <4> QED BY <1>1, <4>3
    <3> QED BY <2>1, <3>1, <3>2 DEF Prefill
  <2>5. args'.resume = resume
    BY <1>1
  <2> QED BY <1>1, <2>2, <2>3, <2>4, <2>5
<1> QED BY <1>6, <1>7, <1>8, <1>9 DEF SweepInv

\* A new report: nothing measured, and the sources of its session.
LEMMA NewSound ==
  ASSUME NEW source \in SourceMaps, NEW segments \in BOOLEAN, NEW steady \in Readings,
         args \in ArgSet, NEW family
  PROVE  LET r == NewReport(source, steady, segments)
         IN /\ SoundReport(family, r) /\ Planned(family, r)
            /\ r.settings = args.settings /\ r.cases = <<>> /\ ~r.complete
            /\ r.source = source /\ r.resumed = <<>> /\ LastScript(r) = source["script"]
            /\ r.setting = None
<1>1. PICK r : r = NewReport(source, steady, segments)
  OBVIOUS
<1>2. /\ r.settings = args.settings /\ r.cases = <<>> /\ ~r.complete
      /\ r.source = source /\ r.resumed = <<>> /\ r.setting = None
  BY <1>1 DEF NewReport
<1>3. args.settings \in Settings
  BY DEF ArgSet
<1>4. r \in ReportSet
  <2>1. <<>> \in Seq(CaseSet) /\ <<>> \in Seq(Resumptions)
    OBVIOUS
  <2> QED BY <1>1, <1>3, <2>1 DEF ReportSet, NewReport
<1>5. Traced(r)
  BY <1>2 DEF Traced
<1>6. Planned(family, r)
  <2>1. Len(Plan(family, r.settings)) \in Nat
    BY <1>2, <1>3, PlanType
  <2> QED BY <1>2, <2>1 DEF Planned
<1>7. LastScript(r) = source["script"]
  BY <1>2 DEF LastScript
<1> QED BY <1>1, <1>2, <1>4, <1>5, <1>6, <1>7 DEF SoundReport, Whole

LEMMA OpenPrefillInv == SweepInv /\ OpenPrefill => SweepInv'
<1> SUFFICES ASSUME SweepInv, OpenPrefill PROVE SweepInv'
  OBVIOUS
<1>1. /\ pc = "open" /\ Prefill /\ Family = "prefill" /\ InProcess
      /\ file' = file /\ durable' = durable /\ promised' = promised
      /\ tool' = tool /\ sources' = sources /\ tool # "direct"
  BY PlanIs DEF OpenPrefill, disk, host, Prefill, InProcess
<1>2. args \in ArgSet /\ sources \in SourceMaps /\ loaded \in SourceMaps /\ promised \in Seq(CaseSet)
  BY <1>1 DEF SweepInv, SweepTypes
<1>3. CASE ~args.resume /\ OpenWith(NewReport(sources, Free, FALSE))
  <2>1. PICK r : r = NewReport(sources, Free, FALSE)
    OBVIOUS
  <2>2. /\ SoundReport("prefill", r) /\ Planned("prefill", r)
        /\ r.settings = args.settings /\ r.cases = <<>> /\ ~r.complete
        /\ r.source = sources /\ LastScript(r) = sources["script"]
    BY <1>2, <2>1, NewSound DEF Readings
  <2>3. promised = <<>>
    BY <1>1, <1>3 DEF SweepInv, PromiseInv
  <2>4. IsPrefix(promised, r.cases)
    BY <1>2, <2>2, <2>3, PrefixKept
  <2>5. /\ report' = r /\ pc' = "save" /\ next' = "loop" /\ hashed' = sources
        /\ args' = args /\ loaded' = loaded
    BY <1>3, <2>1 DEF OpenWith, SaveThen
  <2>6. Matching(hashed', r)
    BY <2>2, <2>5 DEF Matching
  <2> QED BY <1>1, <1>2, <2>2, <2>4, <2>5, <2>6, SavesInv
<1>4. CASE Resumable(file, sources) /\ OpenWith(Resumed(file, sources))
  <2>1. file.kind = "report" /\ ~file.complete /\ file.settings = args.settings
        /\ \A s \in {"library", "software"} : file.source[s] = sources[s]
    BY <1>4 DEF Resumable, PrefillCompared
  <2>2. SoundReport("prefill", file) /\ IsPrefix(promised, file.cases)
    BY <1>1, <2>1, ContentTyped DEF SweepInv, DiskInv, PromiseInv
  <2>3. PICK r : r = Resumed(file, sources)
    OBVIOUS
  <2>4. file \in ReportSet /\ Traced(file) /\ Planned("prefill", file)
    BY <2>2 DEF SoundReport, Whole
  <2>5. r \in ReportSet /\ Traced(r) /\ LastScript(r) = sources["script"]
    BY <1>2, <2>3, <2>4, ResumedTraced
  <2>6. r.cases = file.cases /\ r.settings = file.settings /\ r.source = file.source
        /\ r.complete = file.complete
    BY <2>3, <2>4 DEF Resumed, ReportSet
  <2>7. Planned("prefill", r)
    BY <2>4, <2>6 DEF Planned
  <2>8. SoundReport("prefill", r)
    BY <2>1, <2>5, <2>6, <2>7 DEF SoundReport, Whole
  <2>9. /\ report' = r /\ pc' = "save" /\ next' = "loop" /\ hashed' = sources
        /\ args' = args /\ loaded' = loaded
    BY <1>4, <2>3 DEF OpenWith, SaveThen
  <2>10. Matching(hashed', r)
    BY <2>1, <2>5, <2>6, <2>9 DEF Matching
  <2>11. ~r.complete /\ r.settings = args.settings /\ IsPrefix(promised, r.cases)
    BY <2>1, <2>2, <2>6
  <2> QED BY <1>1, <1>2, <2>7, <2>8, <2>9, <2>10, <2>11, SavesInv
<1>5. CASE Ended
  BY <1>1, <1>2, <1>5, EndedInv, DiskKept
<1> QED BY <1>3, <1>4, <1>5 DEF OpenPrefill

LEMMA OpenDirectInv == SweepInv /\ GpuInv /\ OpenDirect => SweepInv'
<1> SUFFICES ASSUME SweepInv, GpuInv, OpenDirect PROVE SweepInv'
  OBVIOUS
<1>1. /\ pc = "open" /\ tool = "direct" /\ OpenWith(NewReport(sources, gpu.clock, FALSE))
      /\ file' = file /\ durable' = durable /\ promised' = promised
      /\ tool' = tool /\ sources' = sources
  BY DEF OpenDirect, disk, host
<1>2. args \in ArgSet /\ sources \in SourceMaps /\ loaded \in SourceMaps
  BY <1>1 DEF SweepInv, SweepTypes
<1>3. InProcess /\ ~Prefill
  BY <1>1 DEF InProcess, Prefill
<1>4. PICK r : r = NewReport(sources, gpu.clock, FALSE)
  OBVIOUS
<1>5. /\ SoundReport(Family, r) /\ Planned(Family, r)
      /\ r.settings = args.settings /\ ~r.complete
      /\ r.source = sources /\ LastScript(r) = sources["script"] /\ r.setting = None
  <2>1. PICK f : f = Family
    OBVIOUS
  <2>2. gpu.clock \in Readings
    BY DEF GpuInv
  <2> QED BY <1>2, <1>4, <2>1, <2>2, NewSound
<1>6. /\ report' = r /\ pc' = "save" /\ next' = "loop" /\ hashed' = sources
      /\ args' = args /\ loaded' = loaded
  BY <1>1, <1>4 DEF OpenWith, SaveThen
<1>7. Matching(hashed', r)
  BY <1>5, <1>6 DEF Matching
<1> QED BY <1>1, <1>2, <1>3, <1>5, <1>6, <1>7, SavesInv

-----------------------------------------------------------------------------
(* Cases measured in the session's own process.                            *)

LEMMA ResultsOwed ==
  ASSUME NEW shape, NEW fits \in Fitting(shape)
  PROVE  Selected(shape, fits) = Backends(shape) \X {"default", "tuned"}
<1> DEFINE B == Backends(shape)
<1>1. fits \subseteq B \X {"default", "listed"} /\ B \X {"default"} \subseteq fits
  BY DEF Fitting, Candidates
<1> HIDE DEF B
<1>2. {c[1] : c \in fits} = B
  <2>1. ASSUME NEW c \in fits PROVE c[1] \in B
    BY <1>1
  <2>2. ASSUME NEW b \in B PROVE b \in {c[1] : c \in fits}
    <3>1. <<b, "default">> \in fits /\ <<b, "default">>[1] = b
      BY <1>1
    <3> QED BY <3>1
  <2> QED BY <2>1, <2>2
<1>3. Selected(shape, fits) = (B \X {"default"}) \cup (B \X {"tuned"})
  BY <1>2 DEF Selected, B
<1>4. (B \X {"default"}) \cup (B \X {"tuned"}) = B \X {"default", "tuned"}
  OBVIOUS
<1> QED BY <1>3, <1>4 DEF B

\* The next shape of the plan, with the results it owes.
LEMMA CasePlanned ==
  ASSUME NEW family, NEW r \in ReportSet, Traced(r), Planned(family, r),
         Len(r.cases) < Len(Plan(family, r.settings)),
         NEW c \in CaseSet, c.shape = Plan(family, r.settings)[Len(r.cases) + 1],
         c.results = Owed(family, c.shape),
         Matching(c.hashed, r), c.ran \in SourceMaps, NEW steady \in Readings,
         NEW r2, r2 = [r EXCEPT !.cases = Append(@, c), !.steady = steady]
  PROVE  r2 \in ReportSet /\ Traced(r2) /\ Planned(family, r2)
<1>1. r.cases \in Seq(CaseSet) /\ r.settings \in Settings
  BY DEF ReportSet
<1>2. PICK n \in Nat : n = Len(r.cases)
  BY <1>1
<1>3. PICK later \in Seq(CaseSet) : later = Append(r.cases, c)
  <2>1. PICK s \in Seq(CaseSet) : s = r.cases
    BY <1>1
  <2>2. Append(s, c) \in Seq(CaseSet)
    BY AppendProperties
  <2> QED BY <2>1, <2>2
<1>4. /\ Len(later) = n + 1 /\ later[n + 1] = c /\ DOMAIN later = 1 .. n + 1
      /\ \A i \in 1 .. n : later[i] = r.cases[i] /\ i \in DOMAIN r.cases
  BY <1>1, <1>2, <1>3
<1>5. /\ r2 \in ReportSet /\ r2.cases = later /\ r2.source = r.source /\ r2.resumed = r.resumed
      /\ r2.settings = r.settings
  <2>1. r2 = [r EXCEPT !.cases = later, !.steady = steady]
    BY <1>3
  <2> QED BY <2>1 DEF ReportSet
<1>6. Traced(r2)
  <2>1. Clean(c) => /\ \A s \in {"library", "software"} : c.ran[s] = r.source[s]
                    /\ c.ran["script"] = LastScript(r)
    BY DEF Clean, Matching
  <2> QED BY <1>3, <1>5, <2>1, CaseAdded
<1>7. Len(Plan(family, r.settings)) \in Nat
  BY <1>1, PlanType
<1>8. ASSUME NEW i \in 1 .. n + 1
      PROVE  later[i].shape = Plan(family, r.settings)[i] /\ later[i].results = Owed(family, later[i].shape)
  <2>1. CASE i \in 1 .. n
    BY <1>4, <2>1 DEF Planned
  <2>2. CASE i = n + 1
    BY <1>2, <1>4, <2>2
  <2> QED BY <2>1, <2>2
<1> QED BY <1>2, <1>4, <1>5, <1>6, <1>7, <1>8 DEF Planned

LEMMA FailSound ==
  ASSUME NEW family, NEW r, SoundReport(family, r), NEW r2, r2 = [r EXCEPT !.failure = TRUE]
  PROVE  /\ SoundReport(family, r2) /\ r2.cases = r.cases /\ r2.settings = r.settings
         /\ r2.source = r.source /\ r2.resumed = r.resumed
         /\ Planned(family, r) => Planned(family, r2)
         /\ r2.setting = r.setting
<1>1. r \in ReportSet /\ Traced(r) /\ Whole(family, r)
  BY DEF SoundReport
<1>2. /\ r2 \in ReportSet /\ r2.cases = r.cases /\ r2.settings = r.settings
      /\ r2.source = r.source /\ r2.resumed = r.resumed /\ r2.complete = r.complete
      /\ r2.setting = r.setting /\ r2.steady = r.steady /\ r2.after = r.after
  BY <1>1 DEF ReportSet
<1>3. Traced(r2)
  <2>1. \A i : ScriptOf(r2, i) = ScriptOf(r, i)
    BY <1>2 DEF ScriptOf
  <2> QED BY ONLY <1>1, <1>2, <2>1 DEF Traced
<1>4. Planned(family, r) => Planned(family, r2)
  BY <1>2 DEF Planned
<1>5. Whole(family, r2)
  BY <1>1, <1>2, <1>4 DEF Whole, LoadReport, Settled
<1> QED BY <1>2, <1>3, <1>4, <1>5 DEF SoundReport

\* What a session in its own process has in memory at "loop".
LEMMA AtLoop ==
  ASSUME SweepInv, pc = "loop"
  PROVE  /\ InProcess /\ SoundReport(Family, report) /\ report.settings = args.settings
         /\ Matching(hashed, report) /\ Planned(Family, report) /\ ~report.complete
         /\ args \in ArgSet /\ report.cases \in Seq(CaseSet)
         /\ sources \in SourceMaps /\ loaded \in SourceMaps /\ hashed \in SourceMaps
         /\ promised \in Seq(CaseSet)
         /\ Prefill => IsPrefix(promised, report.cases)
         /\ tool = "direct" => report.setting = None
<1>1. InProcess /\ next = "loop" /\ Measuring
  BY DEF SweepInv, Places, Measuring
<1>2. SoundReport(Family, report)
  BY <1>1 DEF SweepInv, MemoryInv
<1>3. report.cases \in Seq(CaseSet)
  BY <1>2 DEF SoundReport, ReportSet
<1> QED BY <1>1, <1>2, <1>3 DEF SweepInv, MemoryInv, SweepTypes, PromiseInv

LEMMA TogetherRead ==
  ASSUME NEW a \in Readings, NEW b \in Readings
  PROVE  Together(a, b) \in Readings
BY DEF Together, Readings

LEMMA KeepInv ==
  ASSUME SweepInv, pc = "loop", Undone, NEW results \in Outcomes,
         results = Owed(Family, NextShape), NEW reading \in Readings,
         Keep(Case(NextShape, results), reading),
         UNCHANGED <<args, loaded, hashed, file, durable, promised, tool, sources>>
  PROVE  SweepInv'
<1> DEFINE c0 == Case(NextShape, results)
<1>1. PICK family : family = Family
  OBVIOUS
<1>2. PICK r : r = report
  OBVIOUS
<1>3. /\ r \in ReportSet /\ Traced(r) /\ Whole(family, r) /\ Planned(family, r)
      /\ r.settings = args.settings /\ r.settings \in Settings /\ r.cases \in Seq(CaseSet)
      /\ Matching(hashed, r) /\ ~r.complete
  BY <1>1, <1>2, AtLoop DEF SoundReport, ReportSet
<1>4. Expected(args.settings) = Plan(family, r.settings)
  BY <1>1, <1>3, PlanIs
<1>5. Len(r.cases) \in Nat /\ Len(r.cases) < Len(Plan(family, r.settings))
  BY <1>2, <1>3, <1>4 DEF Undone
<1>6. NextShape = Plan(family, r.settings)[Len(r.cases) + 1] /\ NextShape \in Shapes
  <2>1. Plan(family, r.settings) \in Seq(Shapes)
    BY <1>3, PlanType
  <2>2. NextShape = Plan(family, r.settings)[Len(r.cases) + 1]
    BY <1>2, <1>4 DEF NextShape
  <2>3. Len(r.cases) + 1 \in 1 .. Len(Plan(family, r.settings))
    BY <1>5, <2>1
  <2> QED BY <2>1, <2>2, <2>3, ElementOfSeq
<1>7. PICK c \in CaseSet : /\ c = c0 /\ c.shape = NextShape /\ c.results = results
                           /\ c.ran = loaded /\ c.hashed = hashed
  BY <1>6, AtLoop DEF Case, CaseSet
<1> DEFINE steady == Together(r.steady, reading)
<1>15. steady \in Readings
  BY <1>3, TogetherRead DEF ReportSet
<1>8. PICK r2 : r2 = [r EXCEPT !.cases = Append(@, c), !.steady = steady]
  OBVIOUS
<1>16. report' = r2 /\ pc' = "save" /\ next' = "loop"
  BY <1>2, <1>7, <1>8 DEF Keep, SaveThen
<1> HIDE DEF steady
<1>9. r2 \in ReportSet /\ Traced(r2) /\ Planned(family, r2)
  BY <1>1, <1>3, <1>5, <1>6, <1>7, <1>8, <1>15, CasePlanned, AtLoop
<1>10. /\ r2.cases = Append(r.cases, c) /\ r2.source = r.source /\ r2.resumed = r.resumed
       /\ r2.settings = r.settings /\ r2.complete = r.complete /\ r2.setting = r.setting
  BY <1>3, <1>8 DEF ReportSet
<1>11. SoundReport(family, r2)
  BY <1>3, <1>9, <1>10 DEF SoundReport, Whole
<1>13. Matching(hashed', r2)
  BY <1>3, <1>10 DEF Matching, LastScript
<1>14. Prefill => IsPrefix(promised, r2.cases)
  BY <1>2, <1>3, <1>10, AtLoop, PrefixKept
<1>17. tool = "direct" => r2.setting = None
  BY <1>2, <1>10, AtLoop
<1> QED BY <1>1, <1>3, <1>9, <1>10, <1>11, <1>13, <1>14, <1>16, <1>17, AtLoop, SavesInv

LEMMA FailInv ==
  ASSUME SweepInv, pc = "loop", Fail,
         UNCHANGED <<args, loaded, hashed, file, durable, promised, tool, sources>>
  PROVE  SweepInv'
<1>1. PICK family : family = Family
  OBVIOUS
<1>2. PICK r : r = report
  OBVIOUS
<1>3. PICK r2 : r2 = [r EXCEPT !.failure = TRUE]
  OBVIOUS
<1>4. /\ SoundReport(family, r2) /\ Planned(family, r2) /\ r2.cases = r.cases
      /\ r2.settings = r.settings /\ r2.source = r.source /\ r2.resumed = r.resumed
      /\ r2.setting = r.setting
  BY <1>1, <1>2, <1>3, AtLoop, FailSound
<1>5. report' = r2 /\ pc' = "save" /\ next' = "off"
  BY <1>2, <1>3 DEF Fail, SaveThen
<1>6. Matching(hashed', r2)
  BY <1>2, <1>4, AtLoop DEF Matching, LastScript
<1> QED BY <1>1, <1>2, <1>4, <1>5, <1>6, AtLoop, SavesInv

LEMMA MeasurePrefillInv == SweepInv /\ MeasurePrefill => SweepInv'
<1> SUFFICES ASSUME SweepInv, MeasurePrefill PROVE SweepInv'
  OBVIOUS
<1>1. /\ pc = "loop" /\ Prefill /\ Undone /\ Family = "prefill"
      /\ UNCHANGED <<args, loaded, hashed, file, durable, promised, tool, sources>>
  BY PlanIs DEF MeasurePrefill, disk, host
<1>2. CASE Fail
  BY <1>1, <1>2, FailInv
<1>3. ASSUME NEW fits \in Fitting(NextShape), Keep(Case(NextShape, Selected(NextShape, fits)), Free)
      PROVE  SweepInv'
  <2>1. PICK results : results = Selected(NextShape, fits)
    OBVIOUS
  <2>2. PICK shape : shape = NextShape
    OBVIOUS
  <2>3. results = Backends(shape) \X {"default", "tuned"}
    BY <2>1, <2>2, ResultsOwed
  <2>4. results = Owed(Family, NextShape)
    BY <1>1, <2>2, <2>3 DEF Owed
  <2>5. results \in Outcomes
    BY <2>3 DEF Outcomes, Backends
  <2>6. Keep(Case(NextShape, results), Free) /\ Free \in Readings
    BY <1>3, <2>1 DEF Readings
  <2> QED BY <1>1, <2>4, <2>5, <2>6, KeepInv
<1> QED BY <1>2, <1>3 DEF MeasurePrefill

LEMMA MeasureDirectInv == SweepInv /\ GpuInv /\ MeasureDirect => SweepInv'
<1> SUFFICES ASSUME SweepInv, GpuInv, MeasureDirect PROVE SweepInv'
  OBVIOUS
<1>1. /\ pc = "loop" /\ tool = "direct" /\ Undone
      /\ UNCHANGED <<args, loaded, hashed, file, durable, promised, tool, sources>>
  BY DEF MeasureDirect, disk
<1>2. CASE Fail
  BY <1>1, <1>2, FailInv
<1>3. CASE Keep(Measured(NextShape), gpu.clock)
  <2>2. gpu.clock \in Readings
    BY DEF GpuInv
  <2>1. IMPLEMENTATIONS = Owed(Family, NextShape) /\ IMPLEMENTATIONS \in Outcomes
    BY <1>1 DEF Owed, Family, Prefill, Outcomes
  <2> QED BY <1>1, <1>3, <2>1, <2>2, KeepInv DEF Measured
<1> QED BY <1>2, <1>3 DEF MeasureDirect

\* The sizes are different, and so are the shapes of a comparison.
LEMMA PlanInjective ==
  ASSUME NEW settings \in Settings
  PROVE  IsInjective(Plan("thor", settings))
<1>1. Sizes \in Seq(Range(Sizes)) /\ Len(Sizes) \in Nat /\ DOMAIN Sizes = 1 .. Len(Sizes)
  BY SweepAssumption
<1>2. /\ Squares \in Seq(Shapes) /\ Len(Squares) = Len(Sizes) /\ DOMAIN Squares = 1 .. Len(Sizes)
      /\ \A i \in 1 .. Len(Sizes) : Squares[i].dims = Sizes[i]
  <2>1. \A i \in 1 .. Len(Sizes) : Squares[i] \in Shapes
    BY <1>1 DEF Shapes, Range, Squares
  <2>2. Squares \in [1 .. Len(Sizes) -> Shapes]
    BY <1>1, <2>1 DEF Squares
  <2> QED BY <1>1, <2>2 DEF Squares
<1>3. ASSUME NEW i \in 1 .. Len(Sizes), NEW j \in 1 .. Len(Sizes), Squares[i] = Squares[j]
      PROVE  i = j
  <2>1. Sizes[i] = Sizes[j]
    BY <1>2, <1>3
  <2> QED BY <1>1, <2>1, SweepAssumption DEF IsInjective
<1>4. settings.limit \in Int
  BY SweepAssumption
<1>5. PICK n \in Int : n = IF settings.limit < 0 THEN Len(Squares) + settings.limit ELSE settings.limit
  BY <1>1, <1>2, <1>4
<1>6. Plan("thor", settings) =
        IF settings.limit = 0 \/ settings.limit >= Len(Squares) THEN Squares
        ELSE SubSeq(Squares, 1, n)
  BY <1>5 DEF Plan
<1>7. CASE settings.limit = 0 \/ settings.limit >= Len(Squares)
  BY <1>2, <1>3, <1>6, <1>7 DEF IsInjective
<1>8. CASE ~(settings.limit = 0 \/ settings.limit >= Len(Squares))
  <2>1. n <= Len(Sizes)
    BY <1>1, <1>2, <1>4, <1>5, <1>8
  <2>2. CASE n >= 1
    <3>1. \A i \in 1 .. n : Squares[i] \in Shapes
      BY <1>1, <1>2, <2>1
    <3>2. PICK p \in Seq(Shapes) : /\ p = SubSeq(Squares, 1, n) /\ Len(p) = n
                                   /\ \A i \in 1 .. n : p[i] = Squares[i]
      <4>1. /\ SubSeq(Squares, 1, n) \in Seq(Shapes)
            /\ Len(SubSeq(Squares, 1, n)) = IF 1 <= n THEN n - 1 + 1 ELSE 0
            /\ \A i \in 1 .. n - 1 + 1 : SubSeq(Squares, 1, n)[i] = Squares[1 + i - 1]
        BY <3>1, SubSeqProperties
      <4>2. PICK q : q = SubSeq(Squares, 1, n)
        OBVIOUS
      <4>3. n - 1 + 1 = n /\ 1 <= n /\ \A i \in 1 .. n : 1 + i - 1 = i
        BY <2>2
      <4>4. q \in Seq(Shapes) /\ Len(q) = n /\ \A i \in 1 .. n : q[i] = Squares[i]
        BY <4>1, <4>2, <4>3
      <4> QED BY <4>2, <4>4
    <3>3. DOMAIN p = 1 .. n
      BY <3>2
    <3>4. \A i \in 1 .. n : i \in 1 .. Len(Sizes)
      BY <1>1, <2>1
    <3>5. IsInjective(p)
      BY <1>3, <3>2, <3>3, <3>4 DEF IsInjective
    <3> QED BY <1>6, <1>8, <3>2, <3>5
  <2>3. CASE n < 1
    <3>1. SubSeq(Squares, 1, n) = <<>>
      BY <2>3, SubSeqEmpty
    <3>2. Plan("thor", settings) = <<>>
      BY <1>6, <1>8, <3>1, Zenon
    <3> QED BY <3>2 DEF IsInjective
  <2> QED BY <2>2, <2>3
<1> QED BY <1>7, <1>8

LEMMA PlanLoads ==
  ASSUME NEW r \in ReportSet, Planned("thor", r), Len(r.cases) = Len(Plan("thor", r.settings)),
         r.setting = None
  PROVE  LoadReport(r, Plan("thor", r.settings))
<1>1. r.cases \in Seq(CaseSet) /\ r.settings \in Settings
  BY DEF ReportSet
<1>2. PICK p \in Seq(Shapes) : p = Plan("thor", r.settings) /\ IsInjective(p)
  BY <1>1, PlanType, PlanInjective
<1>3. DOMAIN p = DOMAIN r.cases /\ \A i \in DOMAIN r.cases : r.cases[i].shape = p[i]
  BY <1>1, <1>2 DEF Planned
<1>4. ShapesOf(r.cases) = p
  <2>1. p = [i \in DOMAIN p |-> p[i]]
    OBVIOUS
  <2> QED BY <1>3, <2>1 DEF ShapesOf
<1>5. \A i \in DOMAIN r.cases : r.cases[i].results = IMPLEMENTATIONS
  BY DEF Planned, Owed
<1> QED BY <1>2, <1>4, <1>5 DEF LoadReport

LEMMA FinishInv ==
  ASSUME SweepInv, pc = "loop", NEW after \in Readings \cup {None}, Finish(after),
         UNCHANGED <<file, durable, promised, tool, sources>>,
         Len(report.cases) = Len(Expected(args.settings))
  PROVE  SweepInv'
<1>1. PICK family : family = Family
  OBVIOUS
<1>2. PICK r : r = report
  OBVIOUS
<1>3. /\ r \in ReportSet /\ Traced(r) /\ Whole(family, r) /\ Planned(family, r)
      /\ r.settings = args.settings
      /\ Matching(hashed, r) /\ ~r.complete
  BY <1>1, <1>2, AtLoop DEF SoundReport
<1>4. Len(r.cases) = Len(Plan(family, r.settings))
  BY <1>1, <1>2, <1>3, PlanIs
<1>5. PICK r2 : r2 = [r EXCEPT !.complete = TRUE, !.after = after]
  OBVIOUS
<1>6. /\ r2 \in ReportSet /\ r2.cases = r.cases /\ r2.settings = r.settings
      /\ r2.source = r.source /\ r2.resumed = r.resumed /\ r2.setting = r.setting
  BY <1>3, <1>5 DEF ReportSet
<1>7. Traced(r2)
  <2>1. \A i : ScriptOf(r2, i) = ScriptOf(r, i)
    BY <1>6 DEF ScriptOf
  <2> QED BY <1>3, <1>6, <2>1 DEF Traced
<1>8. Planned(family, r2)
  BY <1>3, <1>6 DEF Planned
<1>9. Whole(family, r2)
  <2>1. CASE family = "prefill"
    BY <1>4, <1>6, <1>8, <2>1 DEF Whole
  <2>2. CASE family # "prefill"
    <3>1. family = "thor"
      BY <1>1, <2>2 DEF Family
    <3>2. r.setting = None
      BY <1>1, <1>2, <2>2, AtLoop DEF Family, InProcess, Prefill
    <3>3. LoadReport(r, Plan("thor", r.settings))
      BY <1>3, <1>4, <3>1, <3>2, PlanLoads
    <3> QED BY <1>3, <1>6, <3>1, <3>2, <3>3 DEF Whole, LoadReport
  <2> QED BY <2>1, <2>2
<1>10. SoundReport(family, r2)
  BY <1>6, <1>7, <1>9 DEF SoundReport
<1>11. report' = r2 /\ pc' = "save" /\ next' = "off" /\ UNCHANGED <<args, loaded, hashed>>
  BY <1>2, <1>5 DEF Finish, SaveThen
<1>12. Matching(hashed', r2)
  BY <1>3, <1>6, <1>11 DEF Matching, LastScript
<1> QED BY <1>1, <1>2, <1>3, <1>6, <1>8, <1>10, <1>11, <1>12, AtLoop, SavesInv

LEMMA FinishPrefillInv == SweepInv /\ FinishPrefill => SweepInv'
<1> SUFFICES ASSUME SweepInv, FinishPrefill PROVE SweepInv'
  OBVIOUS
<1>1. pc = "loop" /\ UNCHANGED <<file, durable, promised, tool, sources>>
  BY DEF FinishPrefill, disk, host
<1>2. CASE AllMeasured /\ Finish(None)
  BY <1>1, <1>2, FinishInv DEF AllMeasured
<1>3. CASE Ended
  BY <1>1, <1>3, EndedInv, DiskKept, AtLoop
<1> QED BY <1>2, <1>3 DEF FinishPrefill

LEMMA FinishDirectInv == SweepInv /\ GpuInv /\ FinishDirect => SweepInv'
<1> SUFFICES ASSUME SweepInv, GpuInv, FinishDirect PROVE SweepInv'
  OBVIOUS
<1>3. gpu.clock \in Readings
  BY DEF GpuInv
<1>1. /\ pc = "loop" /\ ~Undone /\ Finish(gpu.clock)
      /\ UNCHANGED <<file, durable, promised, tool, sources>>
  BY DEF FinishDirect, disk, host
<1>2. Len(report.cases) = Len(Expected(args.settings))
  <2>1. /\ Planned(Family, report) /\ report.settings = args.settings /\ args.settings \in Settings
        /\ report.cases \in Seq(CaseSet)
    BY <1>1, AtLoop DEF ArgSet
  <2>2. Expected(args.settings) = Plan(Family, args.settings)
    BY PlanIs
  <2>3. Len(Plan(Family, args.settings)) \in Nat
    <3>1. PICK family : family = Family
      OBVIOUS
    <3> QED BY <2>1, <3>1, PlanType
  <2> QED BY <1>1, <2>1, <2>2, <2>3 DEF Planned, Undone
<1> QED BY <1>1, <1>2, <1>3, FinishInv

-----------------------------------------------------------------------------
(* sweep_thor.                                                             *)

LEMMA SegmentedSound ==
  ASSUME NEW r, SoundReport("thor", r)
  PROVE  SoundReport("thor", Segmented(r))
<1>1. PICK r2 : r2 = Segmented(r)
  OBVIOUS
<1>2. r \in ReportSet /\ Traced(r) /\ Whole("thor", r)
  BY DEF SoundReport
<1>3. /\ r2 \in ReportSet /\ r2.cases = r.cases /\ r2.source = r.source /\ r2.resumed = r.resumed
      /\ r2.settings = r.settings /\ r2.complete = r.complete
      /\ r2.setting = r.setting /\ r2.steady = r.steady /\ r2.after = r.after
  <2>1. PICK b \in BOOLEAN : b = (r.segments \/ r.cases # <<>>)
    OBVIOUS
  <2>2. r2 = [r EXCEPT !.segments = b]
    BY <1>1, <2>1 DEF Segmented
  <2> QED BY <1>2, <2>2 DEF ReportSet
<1>4. Traced(r2)
  <2>1. \A i : ScriptOf(r2, i) = ScriptOf(r, i)
    BY <1>3 DEF ScriptOf
  <2> QED BY <1>2, <1>3, <2>1 DEF Traced
<1>5. Whole("thor", r2)
  BY <1>2, <1>3 DEF Whole, LoadReport, Settled
<1> QED BY <1>1, <1>3, <1>4, <1>5 DEF SoundReport

LEMMA Sweeps ==
  ASSUME SweepInv, tool = "sweep"
  PROVE  ~Prefill /\ ~InProcess /\ Family = "thor"
BY DEF Prefill, InProcess, Family

LEMMA SweepOpenInv == SweepInv /\ SweepOpen => SweepInv'
<1> SUFFICES ASSUME SweepInv, SweepOpen PROVE SweepInv'
  OBVIOUS
<1>1. pc = "open" /\ tool = "sweep" /\ UNCHANGED <<file, durable, promised, tool, sources>>
  BY DEF SweepOpen, disk, host
<1>2. CASE Ended
  BY <1>1, <1>2, EndedInv, DiskKept DEF SweepInv, SweepTypes
<1>3. CASE /\ args.resume => file.kind = "report"
           /\ pc' = "cool" /\ report' = IF args.resume THEN Segmented(file) ELSE Absent
           /\ UNCHANGED <<next, args, loaded, hashed>>
  <2>1. SoundContent("thor", file)
    BY <1>1, Sweeps DEF SweepInv, DiskInv
  <2>2. report' = Absent \/ SoundReport("thor", report')
    BY <1>3, <2>1, ContentTyped, SegmentedSound
  <2>3. MemoryInv'
    BY <1>1, <1>3, <2>2, Sweeps, ToolStays DEF MemoryInv, Measuring, Sweeper
  <2>4. SweepTypes'
    BY <1>1, <1>3, ToolStays DEF SweepInv, SweepTypes
  <2>5. Places'
    BY <1>1, <1>3 DEF Places, Sweeper
  <2>6. PromiseInv'
    BY <1>1, Sweeps, ToolStays DEF PromiseInv
  <2> QED BY <1>1, <2>3, <2>4, <2>5, <2>6, DiskKept DEF SweepInv
<1> QED BY <1>2, <1>3 DEF SweepOpen

LEMMA WaitInv ==
  ASSUME SweepInv, Sweeper, Sweeper', Missing # {}, loaded' \in SourceMaps, hashed' \in SourceMaps,
         args' \in ArgSet, args'.settings = args.settings,
         UNCHANGED <<next, report, file, durable, promised, tool, sources>>
  PROVE  SweepInv'
<1>1. tool = "sweep" /\ pc # "off"
  BY DEF SweepInv, Places, Sweeper
<1>2. Missing' # {}
  <2>1. Missing' = Missing
    BY ToolStays
  <2> QED BY <2>1
<1>3. MemoryInv'
  BY <1>1, Sweeps, ToolStays DEF SweepInv, MemoryInv, Measuring, Sweeper
<1>4. SweepTypes'
  BY <1>1, ToolStays DEF SweepInv, SweepTypes, Sweeper
<1>5. Places'
  BY <1>1, <1>2 DEF Places, Sweeper
<1>6. PromiseInv'
  BY <1>1, Sweeps, ToolStays DEF PromiseInv
<1> QED BY <1>3, <1>4, <1>5, <1>6, DiskKept DEF SweepInv

LEMMA ChildInv == SweepInv /\ GpuInv /\ (StartChild \/ HashChild) => SweepInv'
<1> SUFFICES ASSUME SweepInv, GpuInv, StartChild \/ HashChild PROVE SweepInv'
  OBVIOUS
<1>1. /\ sources \in SourceMaps /\ loaded \in SourceMaps /\ hashed \in SourceMaps
      /\ args \in ArgSet /\ gpu.clock \in Readings /\ Clocks \subseteq Readings
  BY DEF SweepInv, SweepTypes, GpuInv, StartChild, HashChild, Readings
<1>2. CASE StartChild
  <2>1. Sweeper /\ Sweeper' /\ Missing # {} /\ loaded' = sources /\ hashed' = hashed
        /\ UNCHANGED <<next, report, file, durable, promised, tool, sources>>
    BY <1>2 DEF StartChild, Sweeper, disk, host
  <2>2. PICK applied \in Readings : args' = [args EXCEPT !.applied = applied]
    BY <1>1, <1>2 DEF StartChild
  <2>3. args' \in ArgSet /\ args'.settings = args.settings
    BY <1>1, <2>2 DEF ArgSet
  <2> QED BY <1>1, <2>1, <2>3, WaitInv
<1>3. CASE HashChild
  <2>1. Sweeper /\ Sweeper' /\ pc = "child" /\ hashed' = sources /\ loaded' = loaded
        /\ args' = [args EXCEPT !.first = gpu.clock]
        /\ UNCHANGED <<next, report, file, durable, promised, tool, sources>>
    BY <1>3 DEF HashChild, Sweeper, disk, host
  <2>2. Missing # {}
    BY <2>1 DEF SweepInv, Places
  <2>3. args' \in ArgSet /\ args'.settings = args.settings
    BY <1>1, <2>1 DEF ArgSet
  <2> QED BY <1>1, <2>1, <2>2, <2>3, WaitInv
<1> QED BY <1>2, <1>3

LEMMA LeastMember ==
  ASSUME NEW S, S \subseteq Nat, S # {}
  PROVE  Min(S) \in S
<1>1. \E x \in S : \A y \in S : x <= y
  BY Least
<1> QED BY <1>1 DEF Min

LEMMA MergeInv == SweepInv /\ GpuInv /\ Merge => SweepInv'
<1> SUFFICES ASSUME SweepInv, GpuInv, Merge PROVE SweepInv'
  OBVIOUS
<1>1. pc = "merge" /\ UNCHANGED <<file, durable, promised, tool, sources>>
  BY DEF Merge, disk
<1>2. /\ sources \in SourceMaps /\ loaded \in SourceMaps /\ hashed \in SourceMaps /\ args \in ArgSet
      /\ promised \in Seq(CaseSet) /\ tool = "sweep" /\ Missing # {}
  BY <1>1 DEF SweepInv, SweepTypes, Places, Sweeper
<1>3. CASE Ended
  BY <1>1, <1>2, <1>3, EndedInv, DiskKept
<1> DEFINE r0 == IF report = Absent THEN NewReport(hashed, args.first, TRUE) ELSE report
           setting == IF args.clock THEN args.applied ELSE None
<1>4. CASE /\ Mergeable
           /\ SaveThen([r0 EXCEPT !.cases = Append(@, Measured(NextMissing)),
                                  !.complete = FALSE, !.failure = FALSE,
                                  !.setting = setting,
                                  !.steady = Together(Together(@, args.first), gpu.clock),
                                  !.after = gpu.clock], "cool")
           /\ UNCHANGED <<args, loaded, hashed>>
  <2>1. PICK r : r = r0
    OBVIOUS
  <2>2. SoundReport("thor", r) /\ r.source = hashed
    <3>1. CASE report = Absent
      <4>1. args.first \in Readings
        BY <1>2 DEF ArgSet
      <4> QED BY <1>2, <2>1, <3>1, <4>1, NewSound
    <3>2. CASE report # Absent
      <4>1. SoundReport("thor", report)
        BY <1>1, <1>2, <3>2, Sweeps DEF SweepInv, MemoryInv, Sweeper
      <4>2. report.source \in SourceMaps /\ \A s \in Sources : report.source[s] = hashed[s]
        BY <1>4, <3>2, <4>1 DEF Mergeable, SoundReport, ReportSet
      <4>3. report.source = hashed
        BY <1>2, <4>2 DEF SourceMaps
      <4> QED BY <2>1, <3>2, <4>1, <4>3
    <3> QED BY <3>1, <3>2
  <2>3. r \in ReportSet /\ Traced(r) /\ r.resumed = <<>> /\ r.cases \in Seq(CaseSet)
    BY <2>2 DEF SoundReport, Whole, ReportSet
  <2>4. NextMissing \in Shapes
    <3>1. PICK p \in Seq(Shapes) : p = Expected(args.settings)
      <4>1. PICK family : family = Family
        OBVIOUS
      <4>2. args.settings \in Settings
        BY <1>2 DEF ArgSet
      <4> QED BY <4>1, <4>2, PlanType, PlanIs
    <3>2. Missing \subseteq DOMAIN p
      BY <3>1 DEF Missing
    <3>3. DOMAIN p \subseteq Nat
      OBVIOUS
    <3>4. Min(Missing) \in DOMAIN p
      BY <1>2, <3>2, <3>3, LeastMember
    <3>5. p[Min(Missing)] \in Shapes
      BY <3>1, <3>4
    <3> QED BY <3>1, <3>5 DEF NextMissing
  <2>5. PICK c \in CaseSet : /\ c = Measured(NextMissing) /\ c.ran = loaded /\ c.hashed = hashed
    <3>1. PICK shape \in Shapes : shape = NextMissing
      BY <2>4
    <3>2. PICK results \in Outcomes : results = IMPLEMENTATIONS
      BY DEF Outcomes
    <3>3. [shape |-> shape, ran |-> loaded, hashed |-> hashed, results |-> results] \in CaseSet
      BY <1>2 DEF CaseSet
    <3> QED BY <3>1, <3>2, <3>3 DEF Measured, Case
  <2>6. PICK later \in Seq(CaseSet) : later = Append(r.cases, c)
    <3>1. PICK s \in Seq(CaseSet) : s = r.cases
      BY <2>3
    <3>2. Append(s, c) \in Seq(CaseSet)
      BY AppendProperties
    <3> QED BY <3>1, <3>2
  <2>12. PICK set \in Readings \cup {None}, steady \in Readings, last \in Readings :
           /\ set = setting /\ steady = Together(Together(r.steady, args.first), gpu.clock)
           /\ last = gpu.clock
    <3>1. args.first \in Readings /\ args.applied \in Readings
      BY <1>2 DEF ArgSet
    <3>2. gpu.clock \in Readings
      BY DEF GpuInv
    <3>3. Together(Together(r.steady, args.first), gpu.clock) \in Readings
      <4>1. Together(r.steady, args.first) \in Readings
        BY <2>3, <3>1, TogetherRead DEF ReportSet
      <4> QED BY <4>1, <3>2, TogetherRead
    <3>4. setting \in Readings \cup {None}
      <4>1. CASE args.clock
        BY <3>1, <4>1
      <4>2. CASE ~args.clock
        BY <4>2
      <4> QED BY <4>1, <4>2
    <3> HIDE DEF setting
    <3> QED BY <3>2, <3>3, <3>4
  <2> HIDE DEF setting
  <2>7. PICK r2 : r2 = [r EXCEPT !.cases = later, !.complete = FALSE, !.failure = FALSE,
                                 !.setting = set, !.steady = steady, !.after = last]
    OBVIOUS
  <2>8. /\ r2 \in ReportSet /\ r2.cases = later /\ r2.source = r.source /\ r2.resumed = r.resumed
        /\ ~r2.complete
    BY <2>3, <2>7 DEF ReportSet
  <2>9. Traced(r2)
    <3>1. LastScript(r) = hashed["script"]
      BY <2>2, <2>3 DEF LastScript
    <3>2. Clean(c) => /\ \A s \in {"library", "software"} : c.ran[s] = r.source[s]
                      /\ c.ran["script"] = LastScript(r)
      BY <2>2, <2>5, <3>1 DEF Clean
    <3> QED BY <2>3, <2>6, <2>8, <3>2, CaseAdded
  <2>10. SoundReport("thor", r2)
    BY <2>3, <2>8, <2>9 DEF SoundReport, Whole
  <2>11. report' = r2 /\ pc' = "save" /\ next' = "cool"
    BY <1>4, <2>1, <2>5, <2>6, <2>7, <2>12 DEF SaveThen
  <2> QED BY <1>1, <1>2, <1>4, <2>10, <2>11, Sweeps, SavesInv
<1> QED BY <1>3, <1>4 DEF Merge

LEMMA FinishSweepInv == SweepInv /\ GpuInv /\ FinishSweep => SweepInv'
<1> SUFFICES ASSUME SweepInv, GpuInv, FinishSweep PROVE SweepInv'
  OBVIOUS
<1>1. pc = "cool" /\ Missing = {} /\ UNCHANGED <<file, durable, promised, tool, sources>>
  BY DEF FinishSweep, disk, host
<1>2. /\ sources \in SourceMaps /\ loaded \in SourceMaps /\ hashed \in SourceMaps /\ args \in ArgSet
      /\ promised \in Seq(CaseSet) /\ tool = "sweep"
  BY <1>1 DEF SweepInv, SweepTypes, Places, Sweeper
<1>3. CASE Ended
  BY <1>1, <1>2, <1>3, EndedInv, DiskKept
<1>4. CASE /\ ValidReport(report, args.settings)
           /\ SaveThen([report EXCEPT !.complete = TRUE, !.failure = FALSE,
                                      !.after = gpu.clock], "off")
           /\ UNCHANGED <<args, loaded, hashed>>
  <2>1. PICK r : r = report
    OBVIOUS
  <2>2. /\ r.kind = "report" /\ r.settings = args.settings
        /\ Range(ShapesOf(r.cases)) \subseteq Range(Expected(args.settings))
        /\ LoadReport(r, ShapesOf(r.cases))
    BY <1>4, <2>1 DEF ValidReport
  <2>3. r \in ReportSet /\ Traced(r) /\ r.resumed = <<>>
    <3>1. r # Absent
      BY <2>2 DEF Absent
    <3>2. SoundReport("thor", r)
      BY <1>1, <1>2, <2>1, <3>1, Sweeps DEF SweepInv, MemoryInv, Sweeper
    <3> QED BY <3>2 DEF SoundReport, Whole
  <2>4. Range(ShapesOf(r.cases)) = Range(Expected(args.settings))
    <3>1. \A i \in DOMAIN Expected(args.settings) :
            Expected(args.settings)[i] \in Range(ShapesOf(r.cases))
      BY <1>1, <2>1 DEF Missing
    <3>2. Range(Expected(args.settings)) \subseteq Range(ShapesOf(r.cases))
      BY <3>1 DEF Range
    <3> QED BY <2>2, <3>2
  <2>5. Expected(args.settings) = Plan("thor", r.settings)
    BY <1>2, <2>2, PlanIs, Sweeps
  <2>6. LoadReport(r, Plan("thor", r.settings))
    BY <2>2, <2>4, <2>5 DEF LoadReport
  <2>12. PICK last \in Readings : last = gpu.clock
    BY DEF GpuInv
  <2>7. PICK r2 : r2 = [r EXCEPT !.complete = TRUE, !.failure = FALSE, !.after = last]
    OBVIOUS
  <2>8. /\ r2 \in ReportSet /\ r2.cases = r.cases /\ r2.source = r.source /\ r2.resumed = r.resumed
        /\ r2.settings = r.settings /\ r2.setting = r.setting /\ r2.steady = r.steady
    BY <2>3, <2>7 DEF ReportSet
  <2>9. Traced(r2)
    <3>1. \A i : ScriptOf(r2, i) = ScriptOf(r, i)
      BY <2>8 DEF ScriptOf
    <3> QED BY <2>3, <2>8, <3>1 DEF Traced
  <2>10. SoundReport("thor", r2)
    <3>1. Settled(r2) => LoadReport(r2, Plan("thor", r2.settings))
      BY <2>6, <2>8 DEF LoadReport, Settled
    <3> QED BY <2>3, <2>8, <2>9, <3>1 DEF SoundReport, Whole
  <2>11. report' = r2 /\ pc' = "save" /\ next' = "off"
    BY <1>4, <2>1, <2>7, <2>12 DEF SaveThen
  <2> QED BY <1>1, <1>2, <1>4, <2>10, <2>11, Sweeps, SavesInv
<1> QED BY <1>3, <1>4 DEF FinishSweep

-----------------------------------------------------------------------------
(* Every step of a sweep.                                                  *)

LEMMA AroundInv == SweepInv /\ Environment => SweepInv'
<1> SUFFICES ASSUME SweepInv, Environment PROVE SweepInv'
  OBVIOUS
<1>1. sources \in SourceMaps /\ promised \in Seq(CaseSet)
  BY DEF SweepInv, SweepTypes
<1>2. CASE GpuCools \/ SetClock
  BY <1>1, <1>2, OutsideInv DEF GpuCools, SetClock
<1>3. CASE Kill
  BY <1>1, <1>3, EndedInv, DiskKept DEF Kill, disk, host
<1>4. CASE HostRestart
  <2>1. /\ file' \in durable /\ durable' = {file'} /\ Ended /\ promised' = promised
        /\ tool' = tool /\ sources' = sources
    BY <1>4 DEF HostRestart, host
  <2>2. DiskInv'
    BY <2>1, ToolStays DEF SweepInv, DiskInv
  <2>3. Prefill' => \A content \in durable' : IsPrefix(promised', content.cases)
    BY <2>1, ToolStays DEF SweepInv, PromiseInv
  <2> QED BY <1>1, <2>1, <2>2, <2>3, EndedInv
<1>5. ASSUME NEW s \in Sources, Edit(s) PROVE SweepInv'
  <2>1. sources[s] \in Int
    BY <1>1 DEF SourceMaps
  <2>2. sources' = [sources EXCEPT ![s] = sources[s] + 1]
    BY <1>5 DEF Edit
  <2>3. sources' \in SourceMaps
    BY <1>1, <2>1, <2>2 DEF SourceMaps
  <2> QED BY <1>5, <2>3, OutsideInv DEF Edit
<1> QED BY <1>2, <1>3, <1>4, <1>5 DEF Environment

LEMMA GpuStepInv == GpuInv /\ Next => GpuInv'
<1> SUFFICES ASSUME GpuInv, Next PROVE GpuInv'
  OBVIOUS
<1>1. ASSUME NEW heat \in {"cool", "hot"}, gpu' = [gpu EXCEPT !.heat = heat]
      PROVE  GpuInv'
  BY <1>1 DEF GpuInv
<1>2. ASSUME NEW clock \in Readings, gpu' = [gpu EXCEPT !.clock = clock]
      PROVE  GpuInv'
  BY <1>2 DEF GpuInv
<1>3. CASE gpu' = gpu
  BY <1>3 DEF GpuInv
<1>4. CASE MeasureDirect \/ Merge
  BY <1>1, <1>4 DEF MeasureDirect, Merge, Heat
<1>5. CASE \/ OpenPrefill \/ MeasurePrefill \/ FinishPrefill \/ OpenDirect \/ FinishDirect
           \/ SweepOpen \/ StartChild \/ HashChild \/ FinishSweep \/ Replace \/ SyncDirectory
  BY <1>3, <1>5 DEF OpenPrefill, MeasurePrefill, FinishPrefill, OpenDirect, FinishDirect,
     SweepOpen, StartChild, HashChild, FinishSweep, Replace, SyncDirectory, host
<1>6. CASE Start
  BY <1>3, <1>6 DEF Start
<1>7. CASE GpuCools
  BY <1>1, <1>7 DEF GpuCools
<1>8. CASE SetClock
  BY <1>2, <1>8 DEF SetClock
<1>9. CASE Kill \/ HostRestart \/ \E s \in Sources : Edit(s)
  BY <1>3, <1>9 DEF Kill, HostRestart, Edit, host
<1> QED BY <1>4, <1>5, <1>6, <1>7, <1>8, <1>9 DEF Next, Work, Environment

\* What is invariant of a sweep.
SweepsInv == SweepInv /\ GpuInv

LEMMA SweepStepInv == SweepsInv /\ Next => SweepsInv'
<1> SUFFICES ASSUME SweepInv, GpuInv, Next PROVE SweepInv'
  BY GpuStepInv DEF SweepsInv
<1>1. CASE Work
  BY <1>1, OpenPrefillInv, MeasurePrefillInv, FinishPrefillInv, OpenDirectInv, MeasureDirectInv,
     FinishDirectInv, SweepOpenInv, ChildInv, MergeInv, FinishSweepInv, ReplaceInv, SyncInv DEF Work
<1> QED BY <1>1, StartInv, AroundInv DEF Next

LEMMA SweepInitInv == Init => SweepsInv
<1> SUFFICES ASSUME Init PROVE SweepInv
  <2>1. Init => GpuInv
    <3>1. SUFFICES ASSUME Init PROVE GpuInv
      OBVIOUS
    <3>2. PICK clock \in Readings : gpu = [heat |-> "cool", clock |-> clock]
      BY <3>1 DEF Init, Readings
    <3> QED BY <3>2 DEF GpuInv
  <2> QED BY <2>1 DEF SweepsInv
<1>1. Unedited \in SourceMaps /\ <<>> \in Seq(CaseSet)
  BY DEF Unedited, SourceMaps
<1>2. SweepTypes
  BY <1>1 DEF Init, SweepTypes, Sweeping
<1>3. Places /\ MemoryInv
  BY DEF Init, Places, MemoryInv, Sweeper, Measuring
<1>4. DiskInv
  BY DEF Init, DiskInv, SoundContent
<1>5. PromiseInv
  <2>1. IsPrefix(promised, Absent.cases)
    BY <1>1, PrefixKept DEF Init, Absent
  <2> QED BY <2>1 DEF Init, PromiseInv, Measuring
<1> QED BY <1>2, <1>3, <1>4, <1>5 DEF SweepInv

-----------------------------------------------------------------------------
(* What the invariant of the sweeps says to a reader.                      *)

LEMMA ReportsSound ==
  ASSUME SweepInv, NEW r \in Reports
  PROVE  SoundReport(Family, r)
<1>1. r \in durable /\ r.kind = "report"
  BY DEF SweepInv, DiskInv, Reports
<1> QED BY <1>1, ContentTyped DEF SweepInv, DiskInv

LEMMA SweepTraced == SweepInv => Provenance
BY ReportsSound DEF SoundReport, Traced, Provenance

\* A plan without a limit, measured in full.
LEMMA PlanValidates ==
  ASSUME NEW r \in ReportSet, Planned("prefill", r), r.settings.limit = 0,
         Len(r.cases) = Len(Plan("prefill", r.settings)), Ascending
  PROVE  Validate(r)
<1>1. Plan("prefill", r.settings) = Workloads
  BY DEF Plan
<1>2. r.cases \in Seq(CaseSet) /\ Workloads \in Seq(ShapeSet)
  BY WorkloadsType DEF ReportSet
<1>3. /\ DOMAIN r.cases = DOMAIN Workloads
      /\ \A i \in DOMAIN r.cases : /\ r.cases[i].shape = Workloads[i]
                                   /\ r.cases[i].results = Owed("prefill", r.cases[i].shape)
  BY <1>1, <1>2 DEF Planned
<1>4. /\ \A k \in DOMAIN Workloads :
           Workloads[k].uses = {u \in {Uses[j] : j \in 1 .. Len(Uses)} : DimsOf(u) = Workloads[k].dims}
      /\ \A j, k \in DOMAIN Workloads : Workloads[j].dims = Workloads[k].dims => j = k
      /\ \A j \in 1 .. Len(Uses) : \E k \in DOMAIN Workloads : Workloads[k].dims = DimsOf(Uses[j])
  BY WorkloadsMerged DEF Merged
<1>5. Range(Uses) = {Uses[j] : j \in 1 .. Len(Uses)}
  BY UsesType DEF Range
<1>6. IsInjective([i \in DOMAIN r.cases |-> r.cases[i].shape.dims])
  BY <1>3, <1>4 DEF IsInjective
<1>7. ASSUME NEW i \in DOMAIN r.cases, NEW u \in r.cases[i].shape.uses
      PROVE  u \in Range(Uses) /\ Dims(u[1], u[2]) = r.cases[i].shape.dims
  <2>1. u \in {v \in Range(Uses) : DimsOf(v) = Workloads[i].dims}
    BY <1>3, <1>4, <1>5
  <2> QED BY <1>3, <2>1 DEF DimsOf
<1>8. ASSUME NEW u \in Range(Uses)
      PROVE  Cardinality({i \in DOMAIN r.cases : u \in r.cases[i].shape.uses}) = 1
  <2>1. PICK k \in DOMAIN Workloads : Workloads[k].dims = DimsOf(u)
    BY <1>4, <1>5
  <2>2. \A i \in DOMAIN Workloads : u \in Workloads[i].uses <=> DimsOf(u) = Workloads[i].dims
    BY <1>4, <1>5
  <2>3. \A i \in DOMAIN r.cases : u \in r.cases[i].shape.uses <=> i = k
    BY <1>3, <1>4, <2>1, <2>2
  <2>4. {i \in DOMAIN r.cases : u \in r.cases[i].shape.uses} = {k}
    BY <1>3, <2>3
  <2> QED BY <2>4, FS_Singleton
<1>9. \A i \in DOMAIN r.cases :
        r.cases[i].results = Backends(r.cases[i].shape) \X {"default", "tuned"}
  BY <1>3 DEF Owed
<1> QED BY <1>6, <1>7, <1>8, <1>9 DEF Validate

LEMMA SweepWhole == SweepInv => CompleteIsWhole
<1> SUFFICES ASSUME SweepInv, NEW r \in Reports, r.complete,
                    Prefill => r.settings.limit = 0 /\ Ascending, ~Prefill => Settled(r)
             PROVE  Validates(r)
  BY DEF CompleteIsWhole
<1>1. SoundReport(Family, r)
  BY ReportsSound
<1>2. r \in ReportSet /\ Whole(Family, r)
  BY <1>1 DEF SoundReport
<1>3. CASE Prefill
  <2>1. Family = "prefill"
    BY <1>3 DEF Family
  <2>2. Validate(r)
    BY <1>2, <1>3, <2>1, PlanValidates DEF Whole
  <2> QED BY <1>3, <2>2 DEF Validates
<1>4. CASE ~Prefill
  <2>1. Family = "thor"
    BY <1>4 DEF Family
  <2>2. LoadReport(r, Expected(r.settings))
    BY <1>2, <2>1, PlanIs DEF Whole
  <2> QED BY <1>4, <2>2 DEF Validates
<1> QED BY <1>3, <1>4

LEMMA SweepKept == SweepInv => Kept
BY DEF SweepInv, PromiseInv, Kept

-----------------------------------------------------------------------------
(* The comparisons that save one checkpoint per shape.                     *)

CheckpointSources == [Checkpoint!Sources -> Int]
CheckpointSet ==
  [kind : {"absent", "complete"}, ran : CheckpointSources, source : CheckpointSources]
Directories == [Checkpoint!Indices -> CheckpointSet]

CheckpointTypes ==
  /\ Checkpointing /\ file \in Directories /\ promised \in Directories
  /\ sources \in CheckpointSources /\ loaded \in CheckpointSources /\ hashed \in CheckpointSources
\* The place of a session; a run through every shape has passed those before.
AtShape ==
  {"child", "hash", "compare", "baseline", "tune", "time", "save", "sync", "after"}
CheckpointPlaces ==
  /\ pc \in AtShape => args \in {"all", "one"} /\ next \in Checkpoint!Indices
  /\ pc \in {"baseline", "tune", "time", "save"} => file[next].kind = "absent"
  /\ pc \in {"sync", "after"} => file[next].kind # "absent"
  /\ args = "all" =>
       /\ next \in Checkpoint!Indices
       /\ \A i \in Checkpoint!Indices : i < next => file[i].kind # "absent"
       /\ pc \in {"render", "rendering", "finished"} => file[next].kind # "absent"
  /\ pc \in {"render", "rendering"} => args \in {"all", "render"}
  /\ pc = "rendering" => Checkpoint!Mixable
  /\ pc = "finished" =>
       /\ DOMAIN rendered.cases = Checkpoint!Indices /\ Checkpoint!Mixable
       /\ Checkpoint!Found = Checkpoint!Indices
CheckpointDisk ==
  /\ file \in durable /\ durable \subseteq Directories
  /\ \A content \in durable : \A i \in Checkpoint!Indices :
       promised[i].kind = "complete" => content[i] = promised[i]
  /\ \A i, j \in DOMAIN rendered.cases : rendered.cases[i].source = rendered.cases[j].source
CheckpointInv == CheckpointTypes /\ CheckpointPlaces /\ CheckpointDisk

LEMMA CheckpointInitInv == Checkpoint!Init => CheckpointInv
<1> SUFFICES ASSUME Checkpoint!Init PROVE CheckpointInv
  OBVIOUS
<1>1. Checkpoint!Unedited \in CheckpointSources
  BY DEF Checkpoint!Unedited, CheckpointSources
<1>2. Checkpoint!Absent \in CheckpointSet
  BY <1>1 DEF Checkpoint!Absent, CheckpointSet
<1>3. CheckpointTypes
  BY <1>1, <1>2 DEF Checkpoint!Init, CheckpointTypes, Checkpointing, Directories
<1>4. CheckpointPlaces
  BY DEF Checkpoint!Init, CheckpointPlaces, AtShape
<1>5. CheckpointDisk
  BY <1>2 DEF Checkpoint!Init, CheckpointDisk, Directories, Checkpoint!NoReport
<1> QED BY <1>3, <1>4, <1>5 DEF CheckpointInv

\* Nothing but the session moves.
LEMMA CheckpointMoves ==
  ASSUME CheckpointInv, tool' = tool, UNCHANGED <<file, durable, promised, rendered>>,
         sources' \in CheckpointSources, loaded' \in CheckpointSources, hashed' \in CheckpointSources,
         CheckpointPlaces'
  PROVE  CheckpointInv'
<1>1. CheckpointTypes'
  BY DEF CheckpointInv, CheckpointTypes, Checkpointing
<1>2. CheckpointDisk'
  BY DEF CheckpointInv, CheckpointDisk
<1> QED BY <1>1, <1>2 DEF CheckpointInv

LEMMA FoundStays ==
  ASSUME file' = file
  PROVE  Checkpoint!Found' = Checkpoint!Found /\ (Checkpoint!Mixable' <=> Checkpoint!Mixable)
<1>1. Checkpoint!Found' = Checkpoint!Found
  BY DEF Checkpoint!Found
<1> QED BY <1>1 DEF Checkpoint!Mixable

LEMMA CheckpointEnds ==
  ASSUME CheckpointInv, tool' = tool, Checkpoint!Ended, sources' \in CheckpointSources,
         file' \in Directories, promised' \in Directories, CheckpointDisk'
  PROVE  CheckpointInv'
<1>1. pc' = "off" /\ args' = "none" /\ loaded' = Checkpoint!Unedited /\ hashed' = Checkpoint!Unedited
  BY DEF Checkpoint!Ended
<1>2. Checkpoint!Unedited \in CheckpointSources
  BY DEF Checkpoint!Unedited, CheckpointSources
<1>3. CheckpointPlaces'
  BY <1>1 DEF CheckpointPlaces, AtShape
<1>4. CheckpointTypes'
  BY <1>1, <1>2 DEF CheckpointInv, CheckpointTypes, Checkpointing
<1> QED BY <1>3, <1>4 DEF CheckpointInv

LEMMA CheckpointGivesUp ==
  ASSUME CheckpointInv, tool' = tool, Checkpoint!Ended, sources' \in CheckpointSources,
         UNCHANGED <<file, durable, promised, rendered>>
  PROVE  CheckpointInv'
<1>1. CheckpointDisk'
  BY DEF CheckpointInv, CheckpointDisk
<1> QED BY <1>1, CheckpointEnds DEF CheckpointInv, CheckpointTypes

\* The sessions, up to the tests that everything must pass.
LEMMA CheckpointSession ==
  ASSUME CheckpointInv,
         \/ Checkpoint!Start \/ Checkpoint!Import \/ Checkpoint!Provenance \/ Checkpoint!Compare
         \/ Checkpoint!LoadBaseline \/ Checkpoint!Tune \/ Checkpoint!Time \/ Checkpoint!After
         \/ Checkpoint!Finish \/ Checkpoint!Kill
  PROVE  CheckpointInv'
<1>1. /\ sources \in CheckpointSources /\ loaded \in CheckpointSources /\ hashed \in CheckpointSources
  BY DEF CheckpointInv, CheckpointTypes
<1>2. UNCHANGED <<file, durable, promised, rendered, tool, sources>>
  BY DEF Checkpoint!Start, Checkpoint!Import, Checkpoint!Provenance, Checkpoint!Compare,
     Checkpoint!LoadBaseline, Checkpoint!Tune, Checkpoint!Time, Checkpoint!After, Checkpoint!Finish,
     Checkpoint!Kill, Checkpoint!disk, Checkpoint!host
<1>3. Checkpoint!Mixable' <=> Checkpoint!Mixable
  BY <1>2, FoundStays
<1>4. CASE Checkpoint!Start
  <2>1. 1 \in Checkpoint!Indices
    BY ListsAssumption DEF Checkpoint!Indices
  <2>2. /\ \A i \in Checkpoint!Indices : ~(i < 1)
    BY DEF Checkpoint!Indices
  <2>3. CheckpointPlaces'
    BY <1>2, <1>4, <2>1, <2>2 DEF Checkpoint!Start, CheckpointPlaces, AtShape
  <2>4. loaded' = loaded /\ hashed' = hashed
    BY <1>4 DEF Checkpoint!Start
  <2> QED BY <1>1, <1>2, <2>3, <2>4, CheckpointMoves
<1>5. CASE Checkpoint!Import
  <2>1. loaded' \in CheckpointSources
    <3>1. loaded' = [sources EXCEPT !["baseline"] = 0]
      BY <1>5 DEF Checkpoint!Import
    <3> QED BY <1>1, <3>1 DEF CheckpointSources, Checkpoint!Sources
  <2>2. CheckpointPlaces'
    BY <1>2, <1>5 DEF Checkpoint!Import, CheckpointInv, CheckpointPlaces, AtShape
  <2> QED BY <1>1, <1>2, <1>5, <2>1, <2>2, CheckpointMoves DEF Checkpoint!Import
<1>6. CASE Checkpoint!Provenance
  <2>1. CheckpointPlaces'
    BY <1>2, <1>6 DEF Checkpoint!Provenance, CheckpointInv, CheckpointPlaces, AtShape
  <2> QED BY <1>1, <1>2, <1>6, <2>1, CheckpointMoves DEF Checkpoint!Provenance
<1>7. CASE Checkpoint!Compare
  <2>1. pc = "compare"
    BY <1>7 DEF Checkpoint!Compare
  <2>2. CASE Checkpoint!Ended
    BY <1>1, <1>2, <2>2, CheckpointGivesUp
  <2>3. CASE Checkpoint!Rerun(file[next]) /\ pc' \in {"baseline", "tune"}
             /\ UNCHANGED <<args, next, loaded, hashed>>
    <3>1. CheckpointPlaces'
      BY <1>2, <2>1, <2>3 DEF CheckpointInv, CheckpointPlaces, AtShape, Checkpoint!Rerun
    <3> QED BY <1>1, <1>2, <2>3, <3>1, CheckpointMoves
  <2>4. CASE Checkpoint!Retained(file[next]) /\ pc' = "after"
             /\ UNCHANGED <<args, next, loaded, hashed>>
    <3>1. CheckpointPlaces'
      BY <1>2, <2>1, <2>4 DEF CheckpointInv, CheckpointPlaces, AtShape, Checkpoint!Retained
    <3> QED BY <1>1, <1>2, <2>4, <3>1, CheckpointMoves
  <2> QED BY <1>7, <2>2, <2>3, <2>4 DEF Checkpoint!Compare, Checkpoint!At
<1>8. CASE Checkpoint!LoadBaseline
  <2>1. loaded' \in CheckpointSources
    <3>1. sources["baseline"] \in Int
      BY <1>1 DEF CheckpointSources, Checkpoint!Sources
    <3> QED BY <1>1, <1>8, <3>1 DEF Checkpoint!LoadBaseline, CheckpointSources
  <2>2. CheckpointPlaces'
    BY <1>2, <1>8 DEF Checkpoint!LoadBaseline, CheckpointInv, CheckpointPlaces, AtShape
  <2> QED BY <1>1, <1>2, <1>8, <2>1, <2>2, CheckpointMoves DEF Checkpoint!LoadBaseline
<1>9. CASE Checkpoint!Tune \/ Checkpoint!Time
  <2>1. CASE Checkpoint!Ended
    BY <1>1, <1>2, <2>1, CheckpointGivesUp
  <2>2. CASE /\ pc \in {"tune", "time"} /\ pc' \in {"time", "save"}
             /\ UNCHANGED <<args, next, loaded, hashed>>
    <3>1. CheckpointPlaces'
      BY <1>2, <2>2 DEF CheckpointInv, CheckpointPlaces, AtShape
    <3> QED BY <1>1, <1>2, <2>2, <3>1, CheckpointMoves
  <2> QED BY <1>9, <2>1, <2>2
          DEF Checkpoint!Tune, Checkpoint!Time, Checkpoint!OrRaise, Checkpoint!At
<1>10. CASE Checkpoint!After
  <2>1. CASE Checkpoint!Ended
    BY <1>1, <1>2, <2>1, CheckpointGivesUp
  <2>2. CASE args = "all" /\ pc = "after" /\ pc' = "render" /\ UNCHANGED <<args, next, loaded, hashed>>
    <3>1. CheckpointPlaces'
      BY <1>2, <2>2 DEF CheckpointInv, CheckpointPlaces, AtShape
    <3> QED BY <1>1, <1>2, <2>2, <3>1, CheckpointMoves
  <2> QED BY <1>10, <2>1, <2>2 DEF Checkpoint!After, Checkpoint!At
<1>11. CASE Checkpoint!Finish \/ Checkpoint!Kill
  <2>1. Checkpoint!Ended
    BY <1>11 DEF Checkpoint!Finish, Checkpoint!Kill
  <2> QED BY <1>1, <1>2, <2>1, CheckpointGivesUp
<1> QED BY <1>4, <1>5, <1>6, <1>7, <1>8, <1>9, <1>10, <1>11

LEMMA CheckpointSaved == CheckpointInv /\ Checkpoint!Replace => CheckpointInv'
<1> SUFFICES ASSUME CheckpointInv, Checkpoint!Replace PROVE CheckpointInv'
  OBVIOUS
<1>1. /\ pc = "save" /\ pc' = "sync" /\ UNCHANGED <<args, next, loaded, hashed>>
      /\ file' = [file EXCEPT ![next] = Checkpoint!Case] /\ durable' = durable \cup {file'}
      /\ UNCHANGED <<rendered, promised, tool, sources>>
  BY DEF Checkpoint!Replace, Checkpoint!At, Checkpoint!host
<1>2. /\ next \in Checkpoint!Indices /\ file[next].kind = "absent" /\ file \in Directories
      /\ file \in durable /\ promised \in Directories
  BY <1>1 DEF CheckpointInv, CheckpointTypes, CheckpointPlaces, CheckpointDisk, AtShape
<1>3. PICK c \in CheckpointSet : c = Checkpoint!Case /\ c.kind = "complete"
  <2>1. loaded \in CheckpointSources /\ hashed \in CheckpointSources
    BY DEF CheckpointInv, CheckpointTypes
  <2>2. [kind |-> "complete", ran |-> loaded, source |-> hashed] \in CheckpointSet
    BY <2>1 DEF CheckpointSet
  <2> QED BY <2>2 DEF Checkpoint!Case
<1>4. /\ file' \in Directories /\ file'[next] = c
      /\ \A i \in Checkpoint!Indices : i # next => file'[i] = file[i]
  BY <1>1, <1>2, <1>3 DEF Directories
<1>5. promised[next].kind # "complete"
  BY <1>2 DEF CheckpointInv, CheckpointDisk
<1>6. CheckpointTypes'
  BY <1>1, <1>4 DEF CheckpointInv, CheckpointTypes, Checkpointing
<1>7. CheckpointDisk'
  <2>1. \A i \in Checkpoint!Indices : promised[i].kind = "complete" => file'[i] = promised[i]
    BY <1>2, <1>4, <1>5 DEF CheckpointInv, CheckpointDisk
  <2> QED BY <1>1, <1>4, <2>1 DEF CheckpointInv, CheckpointDisk
<1>8. CheckpointPlaces'
  <2>1. \A i \in Checkpoint!Indices : file[i].kind # "absent" => file'[i].kind # "absent"
    BY <1>3, <1>4
  <2>2. file'[next].kind # "absent"
    BY <1>3, <1>4
  <2> QED BY <1>1, <1>2, <2>1, <2>2 DEF CheckpointInv, CheckpointPlaces, AtShape
<1> QED BY <1>6, <1>7, <1>8 DEF CheckpointInv

LEMMA CheckpointSynced == CheckpointInv /\ Checkpoint!SyncDirectory => CheckpointInv'
<1> SUFFICES ASSUME CheckpointInv, Checkpoint!SyncDirectory PROVE CheckpointInv'
  OBVIOUS
<1>1. /\ pc = "sync" /\ pc' = "after" /\ UNCHANGED <<args, next, loaded, hashed>>
      /\ durable' = {file} /\ promised' = [promised EXCEPT ![next] = file[next]]
      /\ UNCHANGED <<file, rendered, tool, sources>>
  BY DEF Checkpoint!SyncDirectory, Checkpoint!At, Checkpoint!host
<1>2. next \in Checkpoint!Indices /\ file \in Directories /\ file \in durable /\ promised \in Directories
  BY <1>1 DEF CheckpointInv, CheckpointTypes, CheckpointPlaces, CheckpointDisk, AtShape
<1>3. /\ promised' \in Directories /\ promised'[next] = file[next]
      /\ \A i \in Checkpoint!Indices : i # next => promised'[i] = promised[i]
  BY <1>1, <1>2 DEF Directories
<1>4. CheckpointTypes'
  BY <1>1, <1>3 DEF CheckpointInv, CheckpointTypes, Checkpointing
<1>5. CheckpointDisk'
  BY <1>1, <1>2, <1>3 DEF CheckpointInv, CheckpointDisk
<1>6. CheckpointPlaces'
  BY <1>1 DEF CheckpointInv, CheckpointPlaces, AtShape
<1> QED BY <1>4, <1>5, <1>6 DEF CheckpointInv

LEMMA CheckpointRenders ==
  ASSUME CheckpointInv, Checkpoint!Render \/ Checkpoint!Rendered
  PROVE  CheckpointInv'
<1>1. UNCHANGED <<file, durable, promised, tool, sources>>
  BY DEF Checkpoint!Render, Checkpoint!Rendered, Checkpoint!host
<1>2. /\ sources \in CheckpointSources /\ loaded \in CheckpointSources /\ hashed \in CheckpointSources
      /\ file \in Directories /\ promised \in Directories
  BY DEF CheckpointInv, CheckpointTypes
<1>3. (Checkpoint!Mixable' <=> Checkpoint!Mixable) /\ Checkpoint!Found' = Checkpoint!Found
  BY <1>1, FoundStays
<1>5. CASE Checkpoint!Render
  <2>1. CASE Checkpoint!Ended /\ rendered' = rendered
    BY <1>1, <1>2, <2>1, CheckpointGivesUp
  <2>2. CASE /\ Checkpoint!Mixable /\ pc = "render" /\ pc' = "rendering"
             /\ UNCHANGED <<args, next, loaded, hashed>> /\ rendered' = Checkpoint!Torn
    <3>1. CheckpointPlaces'
      BY <1>1, <1>3, <2>2 DEF CheckpointInv, CheckpointPlaces, AtShape
    <3>2. CheckpointDisk'
      <4>1. DOMAIN rendered'.cases = {}
        BY <2>2 DEF Checkpoint!Torn
      <4> QED BY <1>1, <4>1 DEF CheckpointInv, CheckpointDisk
    <3>3. CheckpointTypes'
      BY <1>1, <2>2 DEF CheckpointInv, CheckpointTypes, Checkpointing
    <3> QED BY <3>1, <3>2, <3>3 DEF CheckpointInv
  <2> QED BY <1>5, <2>1, <2>2 DEF Checkpoint!Render, Checkpoint!At
<1>6. CASE Checkpoint!Rendered
  <2>1. /\ pc = "rendering" /\ Checkpoint!Mixable /\ args \in {"all", "render"}
        /\ rendered' = [kind |-> "report", cases |-> [i \in Checkpoint!Found |-> file[i]]]
    BY <1>6 DEF Checkpoint!Rendered, CheckpointInv, CheckpointPlaces
  <2>2. /\ DOMAIN rendered'.cases = Checkpoint!Found
        /\ \A i \in Checkpoint!Found : rendered'.cases[i] = file[i]
    BY <2>1
  <2>3. CheckpointDisk'
    <3>1. \A i, j \in Checkpoint!Found : file[i].source = file[j].source
      BY <2>1 DEF Checkpoint!Mixable
    <3> QED BY <1>1, <2>2, <3>1 DEF CheckpointInv, CheckpointDisk
  <2>4. CASE Checkpoint!Ended
    BY <1>1, <1>2, <2>3, <2>4, CheckpointEnds
  <2>5. CASE ~Checkpoint!Ended
    <3>1. args = "all" /\ UNCHANGED <<args, loaded, hashed>>
      BY <1>6, <2>1, <2>5 DEF Checkpoint!Rendered, Checkpoint!At
    <3>2. CheckpointTypes'
      BY <1>1, <3>1 DEF CheckpointInv, CheckpointTypes, Checkpointing
    <3>3. /\ next \in Checkpoint!Indices /\ file[next].kind # "absent"
          /\ \A i \in Checkpoint!Indices : i < next => file[i].kind # "absent"
      BY <2>1, <3>1 DEF CheckpointInv, CheckpointPlaces
    <3>4. Len(SHAPES) \in Nat
      BY ListsAssumption
    <3>5. CASE next < Len(SHAPES)
      <4>1. pc' = "child" /\ next' = next + 1
        BY <1>6, <2>5, <3>5, <3>1 DEF Checkpoint!Rendered
      <4>2. next' \in Checkpoint!Indices
        BY <3>3, <3>4, <3>5, <4>1 DEF Checkpoint!Indices
      <4>3. \A i \in Checkpoint!Indices : i < next' => file[i].kind # "absent"
        <5>1. \A i \in Checkpoint!Indices : i < next + 1 => i < next \/ i = next
          BY <3>3 DEF Checkpoint!Indices
        <5> QED BY <3>3, <4>1, <5>1
      <4>4. CheckpointPlaces'
        BY <1>1, <3>1, <4>1, <4>2, <4>3 DEF CheckpointPlaces, AtShape
      <4> QED BY <2>3, <3>2, <4>4 DEF CheckpointInv
    <3>6. CASE ~(next < Len(SHAPES))
      <4>1. pc' = "finished" /\ next' = next
        BY <1>6, <2>5, <3>6, <3>1 DEF Checkpoint!Rendered, Checkpoint!At
      <4>2. Checkpoint!Found = Checkpoint!Indices
        <5>1. \A i \in Checkpoint!Indices : i < next \/ i = next
          BY <3>3, <3>4, <3>6 DEF Checkpoint!Indices
        <5> QED BY <3>3, <5>1 DEF Checkpoint!Found
      <4>3. CheckpointPlaces'
        BY <1>1, <1>3, <2>1, <2>2, <3>1, <3>3, <4>1, <4>2
           DEF CheckpointPlaces, AtShape, Checkpoint!Indices
      <4> QED BY <2>3, <3>2, <4>3 DEF CheckpointInv
    <3> QED BY <3>5, <3>6
  <2> QED BY <2>4, <2>5
<1> QED BY <1>5, <1>6

LEMMA CheckpointStepInv == CheckpointInv /\ Checkpoint!Next => CheckpointInv'
<1> SUFFICES ASSUME CheckpointInv, Checkpoint!Next PROVE CheckpointInv'
  OBVIOUS
<1>1. CASE Checkpoint!HostRestart
  <2>1. /\ Checkpoint!Ended /\ file' \in durable /\ durable' = {file'}
        /\ rendered' \in {rendered, Checkpoint!Torn} /\ UNCHANGED <<promised, tool, sources>>
    BY <1>1 DEF Checkpoint!HostRestart, Checkpoint!host
  <2>2. DOMAIN Checkpoint!Torn.cases = {}
    BY DEF Checkpoint!Torn
  <2>3. CheckpointDisk'
    BY <2>1, <2>2 DEF CheckpointInv, CheckpointDisk
  <2>4. sources' \in CheckpointSources /\ promised' \in Directories /\ file' \in Directories
    BY <2>1 DEF CheckpointInv, CheckpointTypes, CheckpointDisk
  <2> QED BY <2>1, <2>3, <2>4, CheckpointEnds
<1>2. ASSUME NEW s \in Checkpoint!Sources, Checkpoint!Edit(s) PROVE CheckpointInv'
  <2>1. /\ sources' = [sources EXCEPT ![s] = sources[s] + 1] /\ sources \in CheckpointSources
        /\ loaded \in CheckpointSources /\ hashed \in CheckpointSources
        /\ UNCHANGED <<file, durable, promised, rendered, tool, pc, args, next, loaded, hashed>>
    BY <1>2 DEF Checkpoint!Edit, CheckpointInv, CheckpointTypes, Checkpoint!session, Checkpoint!disk
  <2>2. sources' \in CheckpointSources
    <3>1. sources[s] \in Int
      BY <2>1 DEF CheckpointSources
    <3> QED BY <2>1, <3>1 DEF CheckpointSources
  <2>3. CheckpointPlaces'
    BY <2>1, FoundStays DEF CheckpointInv, CheckpointPlaces
  <2> QED BY <2>1, <2>2, <2>3, CheckpointMoves
<1> QED BY <1>1, <1>2, CheckpointSession, CheckpointSaved, CheckpointSynced, CheckpointRenders
        DEF Checkpoint!Next, Checkpoint!Work

LEMMA CheckpointUniform == CheckpointInv => Checkpoint!Uniform /\ Checkpoint!AuditSound
<1> SUFFICES ASSUME CheckpointInv PROVE Checkpoint!Uniform /\ Checkpoint!AuditSound
  OBVIOUS
<1>1. Checkpoint!Uniform
  BY DEF CheckpointInv, CheckpointDisk, Checkpoint!Uniform
<1>2. Checkpoint!AuditSound
  <2> SUFFICES ASSUME Checkpoint!Audit = "PASS", NEW i \in Checkpoint!Indices,
                      file[i].ran = file[i].source
               PROVE  /\ \A s \in Checkpoint!Used \ {"software"} : file[i].ran[s] = sources[s]
                      /\ \A j \in Checkpoint!Indices : file[j].source["software"] = file[i].ran["software"]
    BY DEF Checkpoint!AuditSound
  <2>1. /\ Checkpoint!AuditCases(file) /\ Checkpoint!Found = Checkpoint!Indices
        /\ \A j \in Checkpoint!Found : Checkpoint!AuditSources(file[j].source)
    BY DEF Checkpoint!Audit
  <2> QED BY <2>1 DEF Checkpoint!AuditCases, Checkpoint!AuditSources
<1> QED BY <1>1, <1>2

LEMMA CheckpointWhole == CheckpointInv => Checkpoint!Whole
<1> SUFFICES ASSUME CheckpointInv, pc = "finished"
             PROVE  /\ DOMAIN rendered.cases = Checkpoint!Indices
                    /\ file[Len(SHAPES)].source = sources => Checkpoint!Audit = "PASS"
  BY DEF Checkpoint!Whole
<1>1. /\ DOMAIN rendered.cases = Checkpoint!Indices /\ Checkpoint!Mixable
      /\ Checkpoint!Found = Checkpoint!Indices
  BY DEF CheckpointInv, CheckpointPlaces
<1>2. ASSUME file[Len(SHAPES)].source = sources PROVE Checkpoint!Audit = "PASS"
  <2>1. Len(SHAPES) \in Checkpoint!Indices
    BY ListsAssumption DEF Checkpoint!Indices
  <2>2. Checkpoint!AuditCases(file)
    BY <1>1 DEF Checkpoint!Mixable, Checkpoint!AuditCases
  <2>3. \A i \in Checkpoint!Found : file[i].source = sources
    BY <1>1, <1>2, <2>1 DEF Checkpoint!Mixable
  <2>4. \A i \in Checkpoint!Found : Checkpoint!AuditSources(file[i].source)
    BY <2>3 DEF Checkpoint!AuditSources
  <2> QED BY <1>1, <2>2, <2>4 DEF Checkpoint!Audit
<1> QED BY <1>1, <1>2

LEMMA CheckpointKept == CheckpointInv => Checkpoint!Kept
BY DEF CheckpointInv, CheckpointDisk, Checkpoint!Kept

-----------------------------------------------------------------------------
(* The benchmarks that time several methods in turn.                       *)

\* Where the process runs what it hashed before, and the guarded benchmarks
\* where they may still succeed.
AfterImport == {"edges", "check", "cool", "cooling", "before", "after", "recheck"}
PairedPlaces ==
  /\ pc = "guard" => tool \in {"moe", "mega"}
  /\ pc = "prepare" => tool = "mega"
  /\ pc = "occupancy" => tool = "m256"
PairedSources ==
  /\ version \in Nat /\ hashed \in Nat /\ loaded \in Nat
  /\ hashed <= version /\ loaded <= version
  /\ tool = "moe" /\ (pc \in AfterImport \/ success) => hashed <= loaded
PairedSuccess ==
  /\ success \in BOOLEAN /\ spoilt \in BOOLEAN /\ wrong \in BOOLEAN /\ (spoilt => wrong)
  /\ Paired!Guarded /\ pc = "recheck" => Paired!Timed
  /\ Paired!Guarded /\ success => pc \in {"finally", "off"} /\ Paired!Timed /\ ~spoilt
PairedFile ==
  Paired!Guarded /\ file.success =>
    pc = "off" /\ Paired!Timed /\ ~file.spoilt /\ (tool = "moe" => file.hashed = loaded)
PairedInv == Pairing /\ PairedPlaces /\ PairedSources /\ PairedSuccess /\ PairedFile

LEMMA TimedStays ==
  ASSUME tool' = tool
  PROVE  /\ Paired!Methods' = Paired!Methods /\ Paired!Passes' = Paired!Passes
         /\ (Paired!Guarded' <=> Paired!Guarded) /\ (Pairing' <=> Pairing)
         /\ ran' = ran => (Paired!Timed' <=> Paired!Timed)
<1>1. Paired!Methods' = Paired!Methods
  BY DEF Paired!Methods
<1>2. Paired!Passes' = Paired!Passes
  BY DEF Paired!Passes, Paired!Rounds, Paired!Samples
<1>3. (Paired!Guarded' <=> Paired!Guarded) /\ (Pairing' <=> Pairing)
  BY DEF Paired!Guarded, Pairing
<1> QED BY <1>1, <1>2, <1>3 DEF Paired!Timed

LEMMA PairedInitInv == Paired!Init => PairedInv
<1> SUFFICES ASSUME Paired!Init PROVE PairedInv
  OBVIOUS
<1>1. ~file.success
  <2>1. ~Paired!NoFile.success /\ ~Paired!Torn.success
    BY DEF Paired!NoFile, Paired!Torn
  <2> QED BY <2>1 DEF Paired!Init
<1>2. tool \in {"moe", "mega", "paired", "m256"} /\ pc = "begin" /\ ~success /\ ~spoilt
      /\ version = 0 /\ loaded = 0 /\ hashed = 0 /\ wrong \in BOOLEAN
      /\ success = FALSE /\ spoilt = FALSE
  BY DEF Paired!Init
<1>3. Pairing /\ PairedPlaces
  BY <1>2 DEF Pairing, PairedPlaces
<1>4. PairedSources
  BY <1>2 DEF PairedSources
<1>5. PairedSuccess /\ PairedFile
  BY <1>1, <1>2 DEF PairedSuccess, PairedFile
<1> QED BY <1>3, <1>4, <1>5 DEF PairedInv

\* A step of the main program or the Guard that leaves the sources, the report
\* and the results alone, other than to be ready for the last check.
LEMMA PairedMoves ==
  ASSUME PairedInv, pc # "off", UNCHANGED <<tool, version, loaded, hashed, wrong, success, file>>,
         pc' \notin {"guard", "prepare", "occupancy"} \/ pc' = pc,
         \/ spoilt' = spoilt /\ ran' = ran
         \/ pc \in {"after", "time"} /\ spoilt' = (spoilt \/ wrong),
         pc' = "recheck" => (pc = "recheck" /\ ran' = ran) \/ Paired!Timed',
         pc' \in AfterImport /\ tool = "moe" => pc \in AfterImport,
         pc = "finally" => pc' \in {"finally", "off"} /\ ran' = ran
  PROVE  PairedInv'
<1>1. Pairing /\ PairedPlaces /\ PairedSources /\ PairedSuccess /\ PairedFile
  BY DEF PairedInv
<1>2. PairedSources'
  BY <1>1 DEF PairedSources
<1>3. (Paired!Guarded => ~file.success) /\ PairedPlaces'
  BY <1>1 DEF PairedFile, PairedPlaces
<1>4. CASE Paired!Guarded /\ success
  <2>1. pc = "finally" /\ ran' = ran /\ spoilt' = spoilt /\ Paired!Timed /\ ~spoilt
    BY <1>1, <1>4 DEF PairedSuccess
  <2>2. PairedSuccess'
    BY <1>1, <2>1, TimedStays DEF PairedSuccess
  <2> QED BY <1>1, <1>2, <1>3, <2>2, TimedStays DEF PairedInv, PairedFile
<1>5. CASE ~(Paired!Guarded /\ success)
  <2>1. PairedSuccess'
    BY <1>1, <1>5, TimedStays DEF PairedSuccess
  <2> QED BY <1>1, <1>2, <1>3, <2>1, TimedStays DEF PairedInv, PairedFile
<1> QED BY <1>4, <1>5

LEMMA PairedRecords ==
  ASSUME NEW place, PairedInv, pc \in {"after", "time"}, Paired!Record(place),
         place \in {"cool", "time"},
         pc = "time" => ~(tool = "moe")
  PROVE  PairedInv'
<1>1. /\ UNCHANGED <<tool, version, loaded, hashed, wrong, success, file>>
      /\ spoilt' = (spoilt \/ wrong)
      /\ pc' = IF Len(ran') = Paired!Passes * Len(Paired!Methods) THEN "recheck" ELSE place
  BY DEF Paired!Record, Paired!Steady, Paired!device
<1>2. pc' = "recheck" => Paired!Timed'
  BY <1>1, TimedStays DEF Paired!Timed
<1>3. pc # "off" /\ pc # "finally" /\ (tool = "moe" => pc \in AfterImport)
  BY DEF AfterImport
<1> QED BY <1>1, <1>2, <1>3, PairedMoves

LEMMA PairedGuardSteps ==
  ASSUME PairedInv,
         \/ Paired!StateFails \/ Paired!NeedNotCool \/ Paired!BeginCooling \/ Paired!Cooled
         \/ Paired!Poll \/ Paired!Before \/ Paired!After \/ Paired!TimePaired \/ Paired!TimeM256
  PROVE  PairedInv'
<1>1. CASE Paired!After \/ Paired!TimePaired \/ Paired!TimeM256
  BY <1>1, PairedRecords DEF Paired!After, Paired!TimePaired, Paired!TimeM256
<1>2. CASE Paired!StateFails
  <2>1. /\ UNCHANGED <<tool, version, loaded, hashed, wrong, success, file, spoilt, ran>>
        /\ pc' = "finally" /\ pc # "off"
    BY <1>2 DEF Paired!StateFails, Paired!Raise, Paired!Steady, Paired!device, Paired!Watched
  <2>2. pc' # "recheck" /\ pc' \notin AfterImport
    BY <2>1 DEF AfterImport
  <2> QED BY <2>1, <2>2, PairedMoves
<1>3. CASE Paired!NeedNotCool \/ Paired!BeginCooling \/ Paired!Cooled \/ Paired!Poll \/ Paired!Before
  <2>1. /\ UNCHANGED <<tool, version, loaded, hashed, wrong, success, file, spoilt, ran>>
        /\ pc \in {"cool", "cooling", "before"}
        /\ pc' \in {"cool", "cooling", "before", "after", "finally"}
    BY <1>3 DEF Paired!NeedNotCool, Paired!BeginCooling, Paired!Cooled, Paired!Poll, Paired!Before,
       Paired!Raise, Paired!Steady, Paired!device
  <2>2. pc' # "recheck" /\ pc # "finally" /\ pc # "off" /\ pc \in AfterImport
    BY <2>1 DEF AfterImport
  <2> QED BY <2>1, <2>2, PairedMoves
<1> QED BY <1>1, <1>2, <1>3

\* A report that does not say success is saved, or none.
LEMMA PairedBegins ==
  ASSUME PairedInv, pc \notin {"finally", "off"},
         UNCHANGED <<tool, version, wrong, ran, spoilt, success>>,
         loaded' \in {loaded, version}, hashed' \in {hashed, version},
         tool = "moe" /\ pc' \in AfterImport =>
           hashed' = hashed /\ ((pc \in AfterImport /\ loaded' = loaded) \/ loaded' = version),
         pc' = "guard" => tool \in {"moe", "mega"}, pc' = "prepare" => tool = "mega",
         pc' = "occupancy" => tool = "m256",
         Paired!Guarded => pc' # "recheck" /\ ~file'.success
  PROVE  PairedInv'
<1>1. Pairing /\ PairedPlaces /\ PairedSources /\ PairedSuccess /\ PairedFile
  BY DEF PairedInv
<1>2. Paired!Guarded => ~success
  BY <1>1 DEF PairedSuccess
<1>3. tool = "moe" => Paired!Guarded
  BY DEF Paired!Guarded
<1>4. PairedSources'
  BY <1>1, <1>2, <1>3 DEF PairedSources
<1>5. PairedSuccess'
  BY <1>1, <1>2, TimedStays DEF PairedSuccess
<1>6. PairedPlaces'
  BY DEF PairedPlaces
<1> QED BY <1>1, <1>4, <1>5, <1>6, TimedStays DEF PairedInv, PairedFile

LEMMA PairedMainSteps ==
  ASSUME PairedInv,
         \/ Paired!BeginMoe \/ Paired!BeginMega \/ Paired!BeginPaired \/ Paired!LoadM256
         \/ Paired!CheckOccupancy \/ Paired!CheckState \/ Paired!HashMoe \/ Paired!HashMega
         \/ Paired!ImportMoe \/ Paired!ImportMega \/ Paired!ImportPaired \/ Paired!CheckEdges
         \/ Paired!PrepareMega \/ Paired!CheckMoe \/ Paired!CheckMega \/ Paired!CheckPaired
         \/ Paired!CheckM256 \/ Paired!WritePaired \/ Paired!WriteM256
         \/ Paired!PairedWritten \/ Paired!M256Written
  PROVE  PairedInv'
<1>1. Paired!Report(FALSE).success = FALSE
  BY DEF Paired!Report
<1>2. /\ Paired!Guarded => pc = "off" \/ ~file.success
      /\ pc = "guard" => tool \in {"moe", "mega"}
      /\ pc = "prepare" => tool = "mega"
      /\ pc = "occupancy" => tool = "m256"
  BY DEF PairedInv, PairedFile, PairedPlaces
<1>3. CASE Paired!CheckEdges \/ Paired!CheckMoe \/ Paired!CheckMega
  <2>1. /\ UNCHANGED <<tool, version, loaded, hashed, wrong, success, file, spoilt, ran>>
        /\ pc \in {"edges", "check"} /\ pc' \in {"check", "cool", "finally"}
    BY <1>3
       DEF Paired!CheckEdges, Paired!CheckMoe, Paired!CheckMega, Paired!Checked, Paired!Rest,
           Paired!device
  <2>2. pc' # "recheck" /\ pc # "finally" /\ pc # "off" /\ pc \in AfterImport
    BY <2>1 DEF AfterImport
  <2> QED BY <2>1, <2>2, PairedMoves
<1>4. CASE Paired!BeginMoe \/ Paired!BeginMega \/ Paired!PrepareMega
  <2>1. /\ UNCHANGED <<tool, version, loaded, hashed, wrong, success, spoilt, ran>>
        /\ pc \in {"begin", "prepare"} /\ pc' \in {"guard", "import", "check"}
        /\ file' = Paired!Report(FALSE) /\ (tool = "moe" => pc' = "guard")
        /\ (pc' = "guard" => tool = "moe")
    BY <1>2, <1>4
       DEF Paired!BeginMoe, Paired!BeginMega, Paired!PrepareMega, Paired!FirstReport,
           Paired!Rest, Paired!device
  <2>2. /\ pc' # "recheck" /\ pc \notin {"finally", "off"} /\ (tool = "moe" => pc' \notin AfterImport)
        /\ loaded' \in {loaded, version} /\ hashed' \in {hashed, version} /\ ~file'.success
    BY <1>1, <2>1 DEF AfterImport
  <2> QED BY <2>1, <2>2, PairedBegins
<1>5. CASE \/ Paired!CheckState \/ Paired!HashMoe \/ Paired!HashMega
           \/ Paired!ImportMoe \/ Paired!ImportMega
  <2>1. /\ UNCHANGED <<tool, version, wrong, success, file, spoilt, ran>>
        /\ pc \in {"guard", "hash", "import"} /\ pc' \in {"hash", "prepare", "import", "guard", "edges"}
        /\ loaded' \in {loaded, version} /\ hashed' \in {hashed, version}
        /\ (pc' = "edges" => loaded' = version /\ hashed' = hashed)
        /\ (pc' = "prepare" => tool = "mega") /\ (pc' = "guard" => tool = "mega")
    BY <1>2, <1>5
       DEF Paired!CheckState, Paired!HashMoe, Paired!HashMega, Paired!ImportMoe,
           Paired!ImportMega, Paired!Hashing, Paired!Importing, Paired!Rest, Paired!device
  <2>2. /\ pc' # "recheck" /\ pc \notin {"finally", "off"} /\ (pc' \in AfterImport => pc' = "edges")
    BY <2>1 DEF AfterImport
  <2> QED BY <1>2, <2>1, <2>2, PairedBegins
<1>6. CASE /\ tool \in {"paired", "m256"} /\ pc \notin {"finally", "off"}
           /\ UNCHANGED <<tool, version, wrong, ran, spoilt, success>>
           /\ loaded' \in {loaded, version} /\ hashed' \in {hashed, version}
           /\ pc' \notin {"guard", "prepare"} /\ (pc' = "occupancy" => tool = "m256")
  <2>1. ~Paired!Guarded /\ tool # "moe"
    BY <1>6 DEF Paired!Guarded
  <2> QED BY <1>6, <2>1, PairedBegins
<1>7. ASSUME \/ Paired!BeginPaired \/ Paired!LoadM256 \/ Paired!CheckOccupancy \/ Paired!ImportPaired
             \/ Paired!CheckPaired \/ Paired!CheckM256 \/ Paired!WritePaired \/ Paired!WriteM256
             \/ Paired!PairedWritten \/ Paired!M256Written
      PROVE  PairedInv'
  <2>1. /\ UNCHANGED <<tool, version, wrong, ran, spoilt, success>>
        /\ pc \in {"begin", "occupancy", "import", "check", "recheck", "writing"}
        /\ loaded' \in {loaded, version} /\ hashed' \in {hashed, version}
        /\ pc' \notin {"guard", "prepare"} /\ (pc' = "occupancy" => tool = "m256")
        /\ tool \in {"paired", "m256"}
    BY <1>2, <1>7
       DEF Paired!BeginPaired, Paired!LoadM256, Paired!CheckOccupancy, Paired!ImportPaired,
           Paired!CheckPaired, Paired!CheckM256, Paired!WritePaired, Paired!WriteM256,
           Paired!PairedWritten, Paired!M256Written, Paired!Importing, Paired!Checked,
           Paired!Open, Paired!Written, Paired!Rest, Paired!device
  <2> QED BY <1>6, <2>1
<1> QED BY <1>3, <1>4, <1>5, <1>7

LEMMA PairedLastSteps == PairedInv /\ (Paired!RecheckMoe \/ Paired!RecheckMega) => PairedInv'
<1> SUFFICES ASSUME PairedInv, Paired!RecheckMoe \/ Paired!RecheckMega PROVE PairedInv'
  OBVIOUS
<1>1. /\ UNCHANGED <<tool, version, wrong, ran, spoilt, loaded, hashed, file>>
      /\ pc = "recheck" /\ pc' = "finally" /\ success' = ~wrong /\ Paired!Guarded
  BY DEF Paired!RecheckMoe, Paired!RecheckMega, Paired!Rechecked, Paired!Rest, Paired!device,
         Paired!Guarded
<1>2. Pairing /\ PairedPlaces /\ PairedSources /\ PairedSuccess /\ PairedFile
  BY DEF PairedInv
<1>3. Paired!Timed' /\ PairedPlaces' /\ PairedFile'
  BY <1>1, <1>2, TimedStays DEF PairedSuccess, PairedPlaces, PairedFile
<1>4. PairedSources'
  BY <1>1, <1>2 DEF PairedSources, AfterImport
<1>5. (spoilt => wrong) /\ wrong \in BOOLEAN /\ spoilt \in BOOLEAN
  BY <1>2 DEF PairedSuccess
<1>6. PairedSuccess'
  BY <1>1, <1>3, <1>5 DEF PairedSuccess
<1> QED BY <1>1, <1>2, <1>3, <1>4, <1>6, TimedStays DEF PairedInv

LEMMA PairedFinally == PairedInv /\ Paired!Finally => PairedInv'
<1> SUFFICES ASSUME PairedInv, Paired!Finally PROVE PairedInv'
  OBVIOUS
<1>1. /\ UNCHANGED <<tool, version, wrong, ran, spoilt, loaded, hashed>>
      /\ pc = "finally" /\ pc' = "off" /\ success' = (success /\ hashed = version)
      /\ file' = Paired!Report(success')
  BY DEF Paired!Finally, Paired!Rest, Paired!device, Paired!Unchanged
<1>2. Pairing /\ PairedPlaces /\ PairedSources /\ PairedSuccess /\ PairedFile
  BY DEF PairedInv
<1>3. PairedPlaces'
  BY <1>1 DEF PairedPlaces
<1>4. success' => success /\ hashed = version
  BY <1>1
<1>5. PairedSources'
  BY <1>1, <1>2, <1>4 DEF PairedSources, AfterImport
<1>6. success' \in BOOLEAN /\ (Paired!Guarded /\ success' => Paired!Timed /\ ~spoilt)
  BY <1>1, <1>2, <1>4 DEF PairedSuccess
<1>7. PairedSuccess'
  BY <1>1, <1>2, <1>6, TimedStays DEF PairedSuccess
<1>8. tool = "moe" /\ success' => hashed = loaded
  BY <1>2, <1>4 DEF PairedSources
<1>9. file'.success = success' /\ file'.spoilt = spoilt /\ file'.hashed = hashed
  BY <1>1 DEF Paired!Report
<1>10. PairedFile'
  BY <1>1, <1>6, <1>8, <1>9, TimedStays DEF PairedFile
<1> QED BY <1>1, <1>2, <1>3, <1>5, <1>7, <1>10, TimedStays DEF PairedInv

LEMMA PairedStepInv == PairedInv /\ Paired!Next => PairedInv'
<1> SUFFICES ASSUME PairedInv, Paired!Next PROVE PairedInv'
  OBVIOUS
<1>1. Pairing /\ PairedPlaces /\ PairedSources /\ PairedSuccess /\ PairedFile
  BY DEF PairedInv
<1>2. CASE Paired!Edit
  <2>1. version' = version + 1
        /\ UNCHANGED <<tool, loaded, hashed, wrong, pc, ran, spoilt, success, file>>
    BY <1>2 DEF Paired!Edit, Paired!device
  <2>2. PairedSources'
    BY <1>1, <2>1 DEF PairedSources
  <2> QED BY <1>1, <2>1, <2>2, TimedStays DEF PairedInv, PairedPlaces, PairedSuccess, PairedFile
<1>3. CASE Paired!Drift
  <2>1. UNCHANGED <<tool, version, loaded, hashed, wrong, pc, ran, spoilt, success, file>>
    BY <1>3 DEF Paired!Drift
  <2> QED BY <1>1, <2>1, TimedStays
          DEF PairedInv, PairedPlaces, PairedSources, PairedSuccess, PairedFile
<1>4. CASE Paired!GoWrong
  <2>1. wrong' = TRUE /\ UNCHANGED <<tool, version, loaded, hashed, pc, ran, spoilt, success, file>>
    BY <1>4 DEF Paired!GoWrong
  <2> QED BY <1>1, <2>1, TimedStays
          DEF PairedInv, PairedPlaces, PairedSources, PairedSuccess, PairedFile
<1>5. CASE Paired!Kill
  <2>1. /\ pc # "off" /\ pc' = "off"
        /\ UNCHANGED <<tool, version, loaded, hashed, wrong, success, file, spoilt, ran>>
    BY <1>5 DEF Paired!Kill, Paired!Rest, Paired!device
  <2>2. pc' \notin AfterImport
    BY <2>1 DEF AfterImport
  <2> QED BY <2>1, <2>2, PairedMoves
<1> QED BY <1>2, <1>3, <1>4, <1>5, PairedGuardSteps, PairedMainSteps, PairedLastSteps, PairedFinally
        DEF Paired!Next, Paired!Work

LEMMA PairedSound == PairedInv => Paired!SuccessIsSound
BY DEF PairedInv, PairedFile, Paired!SuccessIsSound

-----------------------------------------------------------------------------
(* The benchmarks that go through the token counts.                        *)

PartNats == [Tokens!Parts -> Nat]
PartInts == [Tokens!Parts -> Int]
Counted == {"calls", "checks", "cool", "time", "read", "verify", "keep"}

SoundCase(t, i, case) ==
  /\ case.tokens = TokenCounts[i]
  /\ t = "optimized" => case.ran["before"] = case.source["before"]
                        /\ case.ran["library"] = case.source["library"]
SoundTokens(t, r) ==
  /\ r = [kind |-> r.kind, complete |-> r.complete, failed |-> r.failed, cases |-> r.cases]
  /\ r.cases \in Seq(Range(r.cases))
  /\ r.complete <=> (r.kind = "report" /\ Len(r.cases) = Len(TokenCounts))
  /\ \A i \in DOMAIN r.cases : SoundCase(t, i, r.cases[i])
Counting(r) == r.kind = "report" /\ ~r.complete /\ Len(r.cases) < Len(TokenCounts)

TokensTypes ==
  /\ Tokenwise /\ sources \in PartNats /\ hashed \in PartNats /\ loaded \in PartInts
  /\ \A p \in Tokens!Parts : loaded[p] <= sources[p] /\ hashed[p] <= sources[p]
\* What optimized runs is no older than what it hashed, and what it verified
\* last is what it ran.
TokensSources ==
  /\ pc \in {"import", "hash before", "load before", "hash after"} => loaded["library"] = -1
  /\ tool = "optimized" =>
       /\ pc \in Counted \cup {"hash after"} => hashed["before"] <= loaded["before"]
       /\ pc = "calls" => loaded["library"] = -1 \/ hashed["library"] <= loaded["library"]
       /\ pc \in Counted \ {"calls"} => hashed["library"] <= loaded["library"]
       /\ pc = "keep" => loaded["before"] = hashed["before"] /\ loaded["library"] = hashed["library"]
TokensReports ==
  /\ SoundTokens(tool, file)
  /\ pc \in Counted => SoundTokens(tool, report) /\ Counting(report)
TokensInv == TokensTypes /\ TokensSources /\ TokensReports

LEMMA CountsType == Len(TokenCounts) \in Nat /\ Len(TokenCounts) > 0
<1>1. TokenCounts \in Seq(Range(TokenCounts)) /\ TokenCounts # <<>>
  BY SweepAssumption, ListsAssumption
<1> QED BY <1>1, EmptySeq

LEMMA EmptyReport ==
  ASSUME NEW t, NEW r, r \in {Tokens!NoReport, Tokens!NewReport}
  PROVE  SoundTokens(t, r) /\ (r = Tokens!NewReport => Counting(r))
<1>1. /\ r = [kind |-> r.kind, complete |-> r.complete, failed |-> r.failed, cases |-> r.cases]
      /\ r.cases = <<>> /\ r.complete = FALSE /\ (r = Tokens!NewReport => r.kind = "report")
  BY DEF Tokens!NoReport, Tokens!NewReport
<1>2. r.cases \in Seq(Range(r.cases)) /\ Len(r.cases) = 0 /\ DOMAIN r.cases = {}
  BY <1>1
<1> QED BY <1>1, <1>2, CountsType DEF SoundTokens, Counting

LEMMA FailedReport ==
  ASSUME NEW t, NEW r, SoundTokens(t, r), NEW failed, failed = [r EXCEPT !.failed = TRUE]
  PROVE  SoundTokens(t, failed)
<1>1. r = [kind |-> r.kind, complete |-> r.complete, failed |-> r.failed, cases |-> r.cases]
  BY DEF SoundTokens
<1>2. failed = [kind |-> r.kind, complete |-> r.complete, failed |-> TRUE, cases |-> r.cases]
  BY <1>1
<1>3. /\ failed = [kind |-> failed.kind, complete |-> failed.complete, failed |-> failed.failed,
                   cases |-> failed.cases]
      /\ failed.kind = r.kind /\ failed.complete = r.complete /\ failed.cases = r.cases
  BY <1>2
<1> QED BY <1>3 DEF SoundTokens

LEMMA LongerReport ==
  ASSUME NEW t, NEW r, SoundTokens(t, r), Counting(r), NEW c, SoundCase(t, Len(r.cases) + 1, c),
         NEW cases, cases = Append(r.cases, c), NEW longer,
         longer = [r EXCEPT !.cases = cases, !.complete = (Len(cases) = Len(TokenCounts))]
  PROVE  SoundTokens(t, longer) /\ (~longer.complete => Counting(longer))
<1>1. /\ r = [kind |-> r.kind, complete |-> r.complete, failed |-> r.failed, cases |-> r.cases]
      /\ r.cases \in Seq(Range(r.cases)) /\ r.kind = "report" /\ Len(r.cases) < Len(TokenCounts)
  BY DEF SoundTokens, Counting
<1>2. longer = [kind |-> r.kind, complete |-> (Len(cases) = Len(TokenCounts)), failed |-> r.failed,
                cases |-> cases]
  BY <1>1
<1>3. /\ longer = [kind |-> longer.kind, complete |-> longer.complete, failed |-> longer.failed,
                   cases |-> longer.cases]
      /\ longer.kind = "report" /\ longer.cases = cases
      /\ longer.complete = (Len(cases) = Len(TokenCounts))
  BY <1>1, <1>2
<1>4. Len(r.cases) \in Nat /\ DOMAIN r.cases = 1 .. Len(r.cases)
  BY <1>1
<1>5. /\ cases \in Seq(Range(r.cases) \cup {c}) /\ Len(cases) = Len(r.cases) + 1
      /\ DOMAIN cases = 1 .. Len(r.cases) + 1 /\ cases[Len(r.cases) + 1] = c
      /\ \A i \in 1 .. Len(r.cases) : cases[i] = r.cases[i]
  <2>1. r.cases \in Seq(Range(r.cases) \cup {c}) /\ c \in Range(r.cases) \cup {c}
    BY <1>1
  <2> QED BY <1>4, <2>1, AppendProperties
<1>6. cases \in Seq(Range(cases))
  <2>1. Range(cases) = Range(r.cases) \cup {c}
    BY <1>4, <1>5 DEF Range
  <2> QED BY <1>5, <2>1
<1>7. \A i \in DOMAIN cases : SoundCase(t, i, cases[i])
  <2>1. \A i \in DOMAIN r.cases : SoundCase(t, i, r.cases[i])
    BY DEF SoundTokens
  <2> QED BY <1>4, <1>5, <2>1
<1>8. ~longer.complete => Len(cases) < Len(TokenCounts)
  <2>1. ~longer.complete => Len(cases) # Len(TokenCounts)
    BY <1>3
  <2>2. Len(cases) = Len(r.cases) + 1 /\ Len(r.cases) < Len(TokenCounts)
    BY <1>1, <1>5
  <2> QED BY <1>4, <2>1, <2>2, CountsType
<1> QED BY <1>3, <1>6, <1>7, <1>8 DEF SoundTokens, Counting

LEMMA TokensInitInv == Tokens!Init => TokensInv
<1> SUFFICES ASSUME Tokens!Init PROVE TokensInv
  OBVIOUS
<1>1. TokensTypes
  BY DEF Tokens!Init, TokensTypes, Tokenwise, PartNats, PartInts, Tokens!Unedited, Tokens!NotLoaded
<1>2. pc = "import" /\ loaded["library"] = -1
  BY DEF Tokens!Init, Tokens!NotLoaded, Tokens!Parts
<1>3. TokensSources
  BY <1>2 DEF TokensSources, Counted
<1>4. SoundTokens(tool, file)
  BY EmptyReport DEF Tokens!Init
<1>5. TokensReports
  BY <1>2, <1>4 DEF TokensReports, Counted
<1> QED BY <1>1, <1>3, <1>5 DEF TokensInv

LEMMA TokensRaises ==
  ASSUME TokensInv, Tokens!Raise, UNCHANGED <<tool, sources>>,
         file' = file \/ (pc \in Counted /\ file' = [report EXCEPT !.failed = TRUE])
  PROVE  TokensInv'
<1>1. pc' = "off" /\ loaded' = Tokens!NotLoaded /\ hashed' = Tokens!Unedited
  BY DEF Tokens!Raise
<1>2. TokensTypes'
  <2>1. /\ sources \in PartNats
        /\ Tokens!NotLoaded \in PartInts /\ Tokens!Unedited \in PartNats
        /\ \A p \in Tokens!Parts : Tokens!NotLoaded[p] = -1 /\ Tokens!Unedited[p] = 0
    BY DEF TokensInv, TokensTypes, PartInts, PartNats, Tokens!NotLoaded, Tokens!Unedited
  <2>2. \A p \in Tokens!Parts : sources[p] \in Nat
    BY <2>1 DEF PartNats
  <2>3. \A p \in Tokens!Parts : loaded'[p] <= sources[p] /\ hashed'[p] <= sources[p]
    BY <1>1, <2>1, <2>2
  <2>4. Tokenwise'
    BY DEF TokensInv, TokensTypes, Tokenwise
  <2> QED BY <1>1, <2>1, <2>3, <2>4 DEF TokensTypes
<1>3. TokensSources'
  BY <1>1 DEF TokensSources, Counted
<1>4. SoundTokens(tool, file')
  BY FailedReport DEF TokensInv, TokensReports
<1>5. TokensReports'
  BY <1>1, <1>4 DEF TokensReports, Counted
<1> QED BY <1>2, <1>3, <1>5 DEF TokensInv

LEMMA TokensMoves ==
  ASSUME TokensInv, UNCHANGED <<tool, sources, loaded, hashed, report, file>>,
         pc \in Counted \ {"calls"}, pc' \in Counted \ {"calls"},
         pc' = "keep" => (tool = "optimized" => Tokens!Verified)
  PROVE  TokensInv'
<1>1. TokensTypes' /\ TokensReports'
  BY DEF TokensInv, TokensTypes, TokensReports, Tokenwise
<1>2. TokensSources'
  <2>1. pc' \notin {"import", "hash before", "load before", "hash after", "calls"}
    BY DEF Counted
  <2>2. ASSUME tool = "optimized"
        PROVE  /\ hashed["before"] <= loaded["before"] /\ hashed["library"] <= loaded["library"]
               /\ pc' = "keep" => /\ loaded["before"] = hashed["before"]
                                  /\ loaded["library"] = hashed["library"]
    <3>1. hashed["before"] <= loaded["before"] /\ hashed["library"] <= loaded["library"]
      BY <2>2 DEF TokensInv, TokensSources
    <3>2. ASSUME pc' = "keep", NEW p, p \in {"before", "library"}, hashed[p] <= loaded[p]
          PROVE  loaded[p] = hashed[p]
      <4>1. p \in Tokens!Parts /\ Tokens!NamedParts = Tokens!Parts
        BY <2>2, <3>2 DEF Tokens!Parts, Tokens!NamedParts, Tokens!OptimizedParts
      <4>2. sources[p] = hashed[p]
        BY <2>2, <3>2, <4>1 DEF Tokens!Verified
      <4>3. loaded[p] <= sources[p] /\ loaded[p] \in Int /\ hashed[p] \in Int
        BY <4>1 DEF TokensInv, TokensTypes, PartInts, PartNats
      <4> QED BY <3>2, <4>2, <4>3
    <3> QED BY <3>1, <3>2
  <2> QED BY <2>1, <2>2 DEF TokensSources
<1> QED BY <1>1, <1>2 DEF TokensInv

LEMMA TokensStarts ==
  ASSUME TokensInv,
         Tokens!Import \/ Tokens!HashBefore \/ Tokens!LoadBefore \/ Tokens!HashAfter
  PROVE  TokensInv'
<1>1. TokensTypes /\ TokensSources /\ TokensReports
  BY DEF TokensInv
<1>2. tool' = tool /\ sources' = sources
  BY DEF Tokens!Import, Tokens!HashBefore, Tokens!LoadBefore, Tokens!HashAfter, Tokens!host
<1>3. {"before", "source", "library"} = Tokens!Parts
  BY DEF Tokens!Parts
<1>4. /\ \A p \in Tokens!Parts : sources[p] \in Nat /\ hashed[p] \in Nat /\ loaded[p] \in Int
      /\ sources \in PartNats /\ hashed \in PartNats /\ loaded \in PartInts /\ Tokenwise
      /\ \A p \in Tokens!Parts : loaded[p] <= sources[p] /\ hashed[p] <= sources[p]
  BY <1>1 DEF TokensTypes, PartNats, PartInts
<1>5. ASSUME NEW part, part \in Tokens!Parts, loaded' = [loaded EXCEPT ![part] = sources[part]],
             hashed' = hashed
      PROVE  TokensTypes' /\ (part # "library" => loaded'["library"] = loaded["library"])
  <2>1. \A p \in Tokens!Parts : loaded'[p] = IF p = part THEN sources[p] ELSE loaded[p]
    BY <1>4, <1>5 DEF PartInts
  <2>2. loaded' \in PartInts
    BY <1>4, <1>5 DEF PartInts
  <2>3. \A p \in Tokens!Parts : loaded'[p] <= sources[p] /\ hashed'[p] <= sources[p]
    BY <1>4, <1>5, <2>1
  <2>4. TokensTypes'
    BY <1>2, <1>4, <1>5, <2>2, <2>3 DEF TokensTypes, Tokenwise
  <2> QED BY <1>3, <2>1, <2>4
<1>6. ASSUME pc' \notin Counted, file' = file PROVE TokensReports'
  BY <1>1, <1>2, <1>6 DEF TokensReports
<1>7. CASE Tokens!Import
  <2>1. /\ pc = "import" /\ loaded' = [loaded EXCEPT !["source"] = sources["source"]]
        /\ hashed' = hashed /\ file' = file
        /\ pc' = IF tool = "optimized" THEN "hash before" ELSE "hash after"
    BY <1>7 DEF Tokens!Import
  <2>2. TokensTypes' /\ loaded'["library"] = loaded["library"]
    <3>1. "source" \in Tokens!Parts /\ "source" # "library"
      BY <1>3
    <3> QED BY <1>5, <2>1, <3>1
  <2>3. pc' \notin Counted /\ (tool = "optimized" => pc' # "hash after")
    BY <2>1 DEF Counted
  <2>4. TokensSources'
    BY <1>1, <1>2, <2>1, <2>2, <2>3 DEF TokensSources, Counted
  <2> QED BY <1>6, <2>1, <2>2, <2>3, <2>4 DEF TokensInv
<1>8. CASE Tokens!HashBefore
  <2>1. CASE sources["before"] # 0
    BY <1>2, <1>8, <2>1, TokensRaises DEF Tokens!HashBefore, Tokens!RaiseUnrecorded
  <2>2. CASE ~(sources["before"] # 0)
    <3>1. /\ pc = "hash before" /\ pc' = "load before" /\ loaded' = loaded /\ file' = file
          /\ hashed' = [hashed EXCEPT !["before"] = sources["before"]]
      BY <1>8, <2>2 DEF Tokens!HashBefore
    <3>2. hashed' \in PartNats
      BY <1>3, <1>4, <3>1 DEF PartNats
    <3>3. \A p \in Tokens!Parts : hashed'[p] <= sources[p]
      <4>1. \A p \in Tokens!Parts : hashed'[p] = IF p = "before" THEN sources[p] ELSE hashed[p]
        BY <1>4, <3>1 DEF PartNats
      <4> QED BY <1>4, <4>1
    <3>4. TokensTypes'
      BY <1>2, <1>4, <3>1, <3>2, <3>3 DEF TokensTypes, Tokenwise
    <3>5. TokensSources'
      BY <1>1, <3>1 DEF TokensSources, Counted
    <3> QED BY <1>6, <3>1, <3>4, <3>5 DEF TokensInv, Counted
  <2> QED BY <2>1, <2>2
<1>9. CASE Tokens!LoadBefore
  <2>1. /\ pc = "load before" /\ loaded' = [loaded EXCEPT !["before"] = sources["before"]]
        /\ hashed' = hashed /\ file' = file /\ pc' = "hash after"
    BY <1>9 DEF Tokens!LoadBefore
  <2>2. TokensTypes' /\ loaded'["library"] = loaded["library"]
    <3>1. "before" \in Tokens!Parts /\ "before" # "library"
      BY <1>3
    <3> QED BY <1>5, <2>1, <3>1
  <2>3. hashed'["before"] <= loaded'["before"]
    BY <1>3, <1>4, <2>1 DEF PartInts
  <2>4. TokensSources'
    BY <1>1, <2>1, <2>2, <2>3 DEF TokensSources, Counted
  <2> QED BY <1>6, <2>1, <2>2, <2>4 DEF TokensInv, Counted
<1>10. CASE Tokens!HashAfter
  <2>1. /\ pc = "hash after" /\ pc' = "calls" /\ loaded' = loaded
        /\ hashed' = [p \in Tokens!Parts |->
                        IF p # "before" /\ p \in Tokens!NamedParts THEN sources[p] ELSE hashed[p]]
        /\ report' = Tokens!NewReport /\ file' = report'
    BY <1>10 DEF Tokens!HashAfter, Tokens!Save
  <2>2. /\ \A p \in Tokens!Parts : hashed'[p] \in {sources[p], hashed[p]}
        /\ hashed'["before"] = hashed["before"]
    BY <1>3, <2>1
  <2>3. hashed' \in PartNats /\ \A p \in Tokens!Parts : hashed'[p] <= sources[p]
    <3>1. \A p \in Tokens!Parts : hashed'[p] \in Nat /\ hashed'[p] <= sources[p]
      BY <1>4, <2>2
    <3> QED BY <2>1, <3>1 DEF PartNats
  <2>4. TokensTypes'
    BY <1>2, <1>4, <2>1, <2>3 DEF TokensTypes, Tokenwise
  <2>5. TokensSources'
    BY <1>1, <1>2, <2>1, <2>2 DEF TokensSources, Counted
  <2>6. TokensReports'
    BY <2>1, EmptyReport DEF TokensReports
  <2> QED BY <2>4, <2>5, <2>6 DEF TokensInv
<1> QED BY <1>7, <1>8, <1>9, <1>10

LEMMA TokensFirstCalls == TokensInv /\ Tokens!FirstCalls => TokensInv'
<1> SUFFICES ASSUME TokensInv, Tokens!FirstCalls PROVE TokensInv'
  OBVIOUS
<1>1. TokensTypes /\ TokensSources /\ TokensReports
  BY DEF TokensInv
<1>2. tool' = tool /\ sources' = sources /\ pc = "calls" /\ pc \in Counted
  BY DEF Tokens!FirstCalls, Tokens!host, Counted
<1>3. CASE Tokens!RaiseRecorded \/ Tokens!RaiseUnrecorded
  BY <1>2, <1>3, TokensRaises DEF Tokens!RaiseRecorded, Tokens!RaiseUnrecorded
<1>4. CASE /\ pc' = "checks" /\ UNCHANGED <<hashed, polls, ran, report, file>>
           /\ loaded' = [loaded EXCEPT !["library"] = IF @ = -1 THEN sources["library"] ELSE @]
  <2>1. {"before", "source", "library"} = Tokens!Parts
    BY DEF Tokens!Parts
  <2>2. /\ \A p \in Tokens!Parts : sources[p] \in Nat /\ hashed[p] \in Nat /\ loaded[p] \in Int
        /\ loaded \in PartInts
        /\ \A p \in Tokens!Parts : loaded[p] <= sources[p] /\ hashed[p] <= sources[p]
    BY <1>1 DEF TokensTypes, PartNats, PartInts
  <2>3. PICK n \in Int : /\ loaded' = [loaded EXCEPT !["library"] = n]
                         /\ n = IF loaded["library"] = -1 THEN sources["library"] ELSE loaded["library"]
    <3>1. (IF loaded["library"] = -1 THEN sources["library"] ELSE loaded["library"]) \in Int
      BY <2>1, <2>2
    <3> QED BY <1>4, <3>1
  <2>4. loaded' \in PartInts
    BY <2>2, <2>3 DEF PartInts
  <2>5. \A p \in Tokens!Parts : loaded'[p] = IF p = "library" THEN n ELSE loaded[p]
    BY <2>2, <2>3 DEF PartInts
  <2>6. \A p \in Tokens!Parts : loaded'[p] <= sources[p]
    BY <2>1, <2>2, <2>3, <2>5
  <2>7. TokensTypes'
    BY <1>1, <1>2, <1>4, <2>4, <2>6 DEF TokensTypes, Tokenwise
  <2>8. ASSUME tool = "optimized"
        PROVE  hashed["before"] <= loaded'["before"] /\ hashed["library"] <= loaded'["library"]
    <3>1. /\ hashed["before"] <= loaded["before"]
          /\ loaded["library"] = -1 \/ hashed["library"] <= loaded["library"]
      BY <1>1, <1>2, <2>8 DEF TokensSources
    <3> QED BY <2>1, <2>2, <2>3, <2>5, <3>1
  <2>9. TokensSources'
    BY <1>2, <1>4, <2>8 DEF TokensSources
  <2>10. TokensReports'
    BY <1>1, <1>2, <1>4 DEF TokensReports
  <2> QED BY <2>7, <2>9, <2>10 DEF TokensInv
<1> QED BY <1>3, <1>4 DEF Tokens!FirstCalls

LEMMA TokensCase ==
  ASSUME TokensInv,
         \/ Tokens!Check \/ Tokens!Cool \/ Tokens!TimeRound \/ Tokens!ReadSensor
         \/ Tokens!VerifyProvenance
  PROVE  TokensInv'
<1>1. /\ tool' = tool /\ sources' = sources
      /\ pc \in {"checks", "cool", "time", "read", "verify"}
  BY DEF Tokens!Check, Tokens!Cool, Tokens!TimeRound, Tokens!ReadSensor, Tokens!VerifyProvenance,
         Tokens!host
<1>2. pc \in Counted \ {"calls"}
  BY <1>1 DEF Counted
<1>3. CASE Tokens!Failed
  BY <1>1, <1>2, <1>3, TokensRaises DEF Tokens!Failed, Tokens!RaiseRecorded, Tokens!RaiseUnrecorded
<1>4. CASE ~Tokens!Failed
  <2>1. /\ UNCHANGED <<loaded, hashed, report, file>>
        /\ pc' \in {"checks", "cool", "time", "read", "verify", "keep"}
        /\ pc' = "keep" => (tool = "optimized" => Tokens!Verified)
    BY <1>4
       DEF Tokens!Check, Tokens!Cool, Tokens!TimeRound, Tokens!ReadSensor,
           Tokens!VerifyProvenance, Tokens!AtOnly
  <2>2. pc' \in Counted \ {"calls"}
    BY <2>1 DEF Counted
  <2> QED BY <1>1, <1>2, <2>1, <2>2, TokensMoves
<1> QED BY <1>3, <1>4

LEMMA TokensKeeps == TokensInv /\ Tokens!KeepCase => TokensInv'
<1> SUFFICES ASSUME TokensInv, Tokens!KeepCase PROVE TokensInv'
  OBVIOUS
<1>1. TokensTypes /\ TokensSources /\ TokensReports
  BY DEF TokensInv
<1>2. /\ tool' = tool /\ sources' = sources /\ loaded' = loaded /\ hashed' = hashed
      /\ pc = "keep" /\ file' = report' /\ pc' = IF report'.complete THEN "end" ELSE "calls"
      /\ pc \in Counted
  BY DEF Tokens!KeepCase, Tokens!Save, Tokens!host, Counted
<1>3. PICK cases : /\ cases = Append(report.cases, Tokens!Case(Tokens!Tokens))
                   /\ report' = [report EXCEPT !.cases = cases,
                                               !.complete = (Len(cases) = Len(TokenCounts))]
  BY DEF Tokens!KeepCase
<1>4. SoundTokens(tool, report) /\ Counting(report)
  BY <1>1, <1>2 DEF TokensReports
<1>5. SoundCase(tool, Len(report.cases) + 1, Tokens!Case(Tokens!Tokens))
  <2>1. /\ Tokens!Case(Tokens!Tokens).tokens = TokenCounts[Len(report.cases) + 1]
        /\ Tokens!Case(Tokens!Tokens).ran = loaded /\ Tokens!Case(Tokens!Tokens).source = hashed
    BY DEF Tokens!Case, Tokens!Tokens
  <2>2. tool = "optimized" =>
          loaded["before"] = hashed["before"] /\ loaded["library"] = hashed["library"]
    BY <1>1, <1>2 DEF TokensSources
  <2> QED BY <2>1, <2>2 DEF SoundCase
<1>6. SoundTokens(tool, report') /\ (~report'.complete => Counting(report'))
  BY <1>3, <1>4, <1>5, LongerReport
<1>7. TokensReports'
  BY <1>2, <1>6 DEF TokensReports, Counted
<1>8. TokensTypes'
  BY <1>1, <1>2 DEF TokensTypes, Tokenwise
<1>9. TokensSources'
  <2>1. pc' \in {"end", "calls"}
    BY <1>2
  <2>2. tool = "optimized" =>
          hashed["before"] <= loaded["before"] /\ hashed["library"] <= loaded["library"]
    BY <1>1, <1>2 DEF TokensSources, Counted
  <2> QED BY <1>2, <2>1, <2>2 DEF TokensSources, Counted
<1> QED BY <1>7, <1>8, <1>9 DEF TokensInv

LEMMA TokensStepInv == TokensInv /\ Tokens!Next => TokensInv'
<1> SUFFICES ASSUME TokensInv, Tokens!Next PROVE TokensInv'
  OBVIOUS
<1>1. CASE Tokens!End \/ Tokens!Kill
  BY <1>1, TokensRaises DEF Tokens!End, Tokens!Kill, Tokens!RaiseUnrecorded, Tokens!host
<1>2. CASE Tokens!Drift
  <2>1. UNCHANGED <<tool, sources, loaded, hashed, pc, report, file>>
    BY <1>2 DEF Tokens!Drift, Tokens!process
  <2> QED BY <2>1 DEF TokensInv, TokensTypes, Tokenwise, TokensSources, TokensReports
<1>3. ASSUME NEW part \in Tokens!Parts, Tokens!Edit(part) PROVE TokensInv'
  <2>1. /\ sources' = [sources EXCEPT ![part] = sources[part] + 1]
        /\ UNCHANGED <<tool, loaded, hashed, pc, report, file>>
    BY <1>3 DEF Tokens!Edit, Tokens!process
  <2>2. /\ sources \in PartNats /\ loaded \in PartInts /\ hashed \in PartNats
        /\ \A p \in Tokens!Parts : loaded[p] <= sources[p] /\ hashed[p] <= sources[p]
    BY DEF TokensInv, TokensTypes
  <2>3. /\ sources' \in PartNats
        /\ \A p \in Tokens!Parts : sources'[p] = IF p = part THEN sources[p] + 1 ELSE sources[p]
    BY <2>1, <2>2 DEF PartNats
  <2>4. \A p \in Tokens!Parts : loaded[p] <= sources'[p] /\ hashed[p] <= sources'[p]
    BY <2>2, <2>3 DEF PartNats, PartInts
  <2>5. TokensTypes'
    BY <2>1, <2>3, <2>4 DEF TokensInv, TokensTypes, Tokenwise
  <2> QED BY <2>1, <2>5 DEF TokensInv, TokensSources, TokensReports
<1> QED BY <1>1, <1>2, <1>3, TokensStarts, TokensFirstCalls, TokensCase, TokensKeeps
        DEF Tokens!Next, Tokens!Work

LEMMA TokensSound == TokensInv => Tokens!CasesSound
<1> SUFFICES ASSUME TokensInv PROVE Tokens!CasesSound
  OBVIOUS
<1>1. SoundTokens(tool, file)
  BY DEF TokensInv, TokensReports
<1> QED BY <1>1 DEF SoundTokens, SoundCase, Tokens!CasesSound

-----------------------------------------------------------------------------
(* Turns: where a method is in an order that rotates and reverses.          *)

\* Where place i of n is, turned by o, and by how much k is turned there.
Wheel(n, o, i) == IF i + o <= n THEN i + o ELSE i + o - n
Offset(n, i, k) == IF i <= k THEN k - i ELSE k + n - i
\* Place i, or the one as far from the end.
Side(n, i, reversed) == IF reversed THEN n + 1 - i ELSE i

LEMMA WheelOffset ==
  ASSUME NEW n \in Nat \ {0}, NEW i \in 1 .. n, NEW k \in 1 .. n
  PROVE  /\ Offset(n, i, k) \in 0 .. n - 1
         /\ \A o \in 0 .. n - 1 :
              /\ Wheel(n, o, i) \in 1 .. n
              /\ Wheel(n, o, i) = k <=> o = Offset(n, i, k)
BY DEF Wheel, Offset

LEMMA SideType ==
  ASSUME NEW n \in Nat \ {0}, NEW i \in 1 .. n, NEW reversed \in BOOLEAN
  PROVE  Side(n, i, reversed) \in 1 .. n
BY DEF Side

\* An order has the methods, each where it was turned to.
LEMMA RotatedAt ==
  ASSUME NEW S, NEW s \in Seq(S), NEW o \in 0 .. Len(s) - 1
  PROVE  /\ Paired!Rotated(s, o) \in Seq(S) /\ Len(Paired!Rotated(s, o)) = Len(s)
         /\ \A i \in 1 .. Len(s) : Paired!Rotated(s, o)[i] = s[Wheel(Len(s), o, i)]
<1> DEFINE n == Len(s)
           a == SubSeq(s, o + 1, n)
           b == SubSeq(s, 1, o)
<1>1. n \in Nat /\ o \in Nat /\ o < n
  OBVIOUS
<1>2. a \in Seq(S) /\ Len(a) = n - o /\ \A i \in 1 .. n - o : a[i] = s[i + o]
  BY <1>1
<1>3. b \in Seq(S) /\ Len(b) = o /\ \A i \in 1 .. o : b[i] = s[i]
  BY <1>1
<1> HIDE DEF a, b
<1>4. a \o b \in Seq(S) /\ Len(a \o b) = n
  <2>1. a \o b \in Seq(S) /\ Len(a \o b) = Len(a) + Len(b)
    BY <1>2, <1>3, ConcatProperties
  <2> QED BY <1>1, <1>2, <1>3, <2>1
<1>5. ASSUME NEW i \in 1 .. n PROVE (a \o b)[i] = s[Wheel(n, o, i)]
  <2>1. CASE i + o <= n
    BY <1>1, <1>2, <1>3, <2>1, ConcatProperties DEF Wheel
  <2>2. CASE ~(i + o <= n)
    <3>0. (a \o b)[i] = IF i <= Len(a) THEN a[i] ELSE b[i - Len(a)]
      BY <1>1, <1>2, <1>3, ConcatProperties
    <3>1. (a \o b)[i] = b[i - (n - o)]
      BY <1>1, <1>2, <2>2, <3>0
    <3> QED BY <1>1, <1>3, <2>2, <3>1 DEF Wheel
  <2> QED BY <2>1, <2>2
<1>6. Paired!Rotated(s, o) = a \o b
  BY DEF Paired!Rotated, a, b
<1> QED BY <1>4, <1>5, <1>6

LEMMA TurnedAt ==
  ASSUME NEW S, NEW s \in Seq(S), NEW o \in 0 .. Len(s) - 1, NEW reversed \in BOOLEAN
  PROVE  LET order == Paired!Turned(Paired!Rotated(s, o), reversed)
         IN /\ order \in Seq(S) /\ Len(order) = Len(s)
            /\ \A i \in 1 .. Len(s) : order[i] = s[Wheel(Len(s), o, Side(Len(s), i, reversed))]
<1> DEFINE r == Paired!Rotated(s, o)
<1>1. /\ r \in Seq(S) /\ Len(r) = Len(s)
      /\ \A i \in 1 .. Len(s) : r[i] = s[Wheel(Len(s), o, i)]
  BY RotatedAt
<1> HIDE DEF r
<1>2. CASE reversed
  <2>1. Paired!Turned(r, reversed) = [i \in 1 .. Len(r) |-> r[(Len(r) - i) + 1]]
    BY <1>2 DEF Paired!Turned, Paired!Reverse
  <2>2. \A i \in 1 .. Len(s) :
          (Len(s) - i) + 1 \in 1 .. Len(s) /\ Side(Len(s), i, reversed) = (Len(s) - i) + 1
    BY <1>2 DEF Side
  <2>3. Paired!Turned(r, reversed) \in Seq(S) /\ Len(Paired!Turned(r, reversed)) = Len(s)
    BY <1>1, <2>1, <2>2
  <2>4. \A i \in 1 .. Len(s) : Paired!Turned(r, reversed)[i] = r[(Len(s) - i) + 1]
    BY <1>1, <2>1
  <2>5. \A i \in 1 .. Len(s) :
          Paired!Turned(r, reversed)[i] = s[Wheel(Len(s), o, Side(Len(s), i, reversed))]
    BY <1>1, <2>2, <2>4
  <2> QED BY <2>3, <2>5 DEF r
<1>3. CASE ~reversed
  <2>1. Paired!Turned(r, reversed) = r /\ \A i : Side(Len(s), i, reversed) = i
    BY <1>3 DEF Paired!Turned, Side
  <2> QED BY <1>1, <2>1 DEF r
<1> QED BY <1>2, <1>3

-----------------------------------------------------------------------------
(* Counting.                                                               *)

\* What is one to one with the numbers below b has b elements.
LEMMA CountedBy ==
  ASSUME NEW b \in Nat, NEW X, NEW g \in [0 .. b - 1 -> X],
         \A x, y \in 0 .. b - 1 : g[x] = g[y] => x = y,
         \A x \in X : \E y \in 0 .. b - 1 : g[y] = x
  PROVE  IsFiniteSet(X) /\ Cardinality(X) = b
<1>1. g \in Bijection(0 .. b - 1, X)
  BY DEF Bijection, Injection, Surjection, IsInjective
<1>2. IsFiniteSet(0 .. b - 1) /\ Cardinality(0 .. b - 1) = b
  BY FS_Interval
<1> QED BY <1>1, <1>2, FS_Bijection DEF ExistsBijection

LEMMA Divided ==
  ASSUME NEW n \in {2, 3, 4}, NEW q \in Nat, NEW r \in 0 .. n - 1
  PROVE  (q * n + r) \div n = q /\ (q * n + r) % n = r
<1>1. CASE n = 2
  BY <1>1
<1>2. CASE n = 3
  BY <1>2
<1>3. CASE n = 4
  BY <1>3
<1> QED BY <1>1, <1>2, <1>3

LEMMA WrapsAround ==
  ASSUME NEW n \in {3, 4}, NEW x \in 0 .. (2 * n) - 1
  PROVE  x % n = IF x < n THEN x ELSE x - n
<1>1. CASE n = 3
  BY <1>1
<1>2. CASE n = 4
  BY <1>2
<1> QED BY <1>1, <1>2

\* One pass of every n, one after the other: the last n may be cut off.
OnePerBlock(X, passes, n, at) == X = {p \in 0 .. passes - 1 : p % n = at[p \div n]}
LEMMA CountBlocks ==
  ASSUME NEW passes \in Nat, NEW n \in {2, 3, 4}, NEW at \in [Nat -> 0 .. n - 1], NEW X,
         OnePerBlock(X, passes, n, at)
  PROVE  /\ Cardinality(X) \in {passes \div n, (passes \div n) + 1}
         /\ passes % n = 0 => Cardinality(X) = passes \div n
<1> DEFINE q == passes \div n
           b == IF at[q] < passes % n THEN q + 1 ELSE q
           g == [x \in 0 .. b - 1 |-> x * n + at[x]]
<1>1. q \in Nat /\ passes % n \in 0 .. n - 1 /\ passes = q * n + (passes % n)
  OBVIOUS
<1> HIDE DEF q
<1>2. b \in Nat /\ b \in {q, q + 1}
  BY <1>1
<1>3. ASSUME NEW x \in 0 .. b - 1
      PROVE  /\ x * n + at[x] \in X
             /\ (x * n + at[x]) \div n = x
  <2>1. x \in Nat /\ at[x] \in 0 .. n - 1 /\ x <= q /\ (x = q => at[q] < passes % n)
    BY <1>1, <1>2
  <2>2. x * n + at[x] \in 0 .. passes - 1
    BY <1>1, <2>1
  <2>3. (x * n + at[x]) \div n = x /\ (x * n + at[x]) % n = at[x]
    BY <2>1, Divided
  <2> QED BY <2>2, <2>3 DEF OnePerBlock
<1>4. g \in [0 .. b - 1 -> X] /\ \A x \in 0 .. b - 1 : g[x] \div n = x
  BY <1>3
<1>5. ASSUME NEW p \in X PROVE \E x \in 0 .. b - 1 : g[x] = p
  <2>1. p \in 0 .. passes - 1 /\ p % n = at[p \div n]
    BY DEF OnePerBlock
  <2>2. p \div n \in Nat /\ p = (p \div n) * n + (p % n)
    BY <2>1
  <2>3. p \div n \in 0 .. b - 1
    BY <1>1, <2>1, <2>2
  <2> QED BY <2>1, <2>2, <2>3
<1>6. Cardinality(X) = b
  <2>1. \A x, y \in 0 .. b - 1 : g[x] = g[y] => x = y
    BY <1>4
  <2> HIDE DEF b, g
  <2> QED BY <1>2, <1>4, <1>5, <2>1, CountedBy
<1> QED BY <1>1, <1>2, <1>6 DEF q

\* One round of every sample.
OnePerSample(X, rounds, samples, at) ==
  X = {p \in 0 .. (rounds * samples) - 1 : p \div samples = at[p % samples]}
LEMMA CountSamples ==
  ASSUME NEW rounds \in {3, 4}, NEW samples \in {2, 3},
         NEW at \in [0 .. samples - 1 -> 0 .. rounds - 1], NEW X,
         OnePerSample(X, rounds, samples, at)
  PROVE  Cardinality(X) = samples
<1> DEFINE g == [x \in 0 .. samples - 1 |-> at[x] * samples + x]
<1>1. ASSUME NEW x \in 0 .. samples - 1
      PROVE  at[x] * samples + x \in X /\ (at[x] * samples + x) % samples = x
  <2>1. at[x] \in 0 .. rounds - 1 /\ at[x] \in Nat /\ samples \in {2, 3, 4}
    OBVIOUS
  <2>2. (at[x] * samples + x) % samples = x /\ (at[x] * samples + x) \div samples = at[x]
    BY <2>1, Divided
  <2>3. at[x] * samples + x \in 0 .. (rounds * samples) - 1
    BY <2>1
  <2> QED BY <2>2, <2>3 DEF OnePerSample
<1>2. g \in [0 .. samples - 1 -> X] /\ \A x \in 0 .. samples - 1 : g[x] % samples = x
  BY <1>1
<1>3. ASSUME NEW p \in X PROVE \E x \in 0 .. samples - 1 : g[x] = p
  <2>1. p \in 0 .. (rounds * samples) - 1 /\ p \div samples = at[p % samples]
    BY DEF OnePerSample
  <2>2. p % samples \in 0 .. samples - 1 /\ p = (p \div samples) * samples + (p % samples)
    BY <2>1
  <2> QED BY <2>1, <2>2
<1>4. \A x, y \in 0 .. samples - 1 : g[x] = g[y] => x = y
  BY <1>2
<1>5. samples \in Nat
  OBVIOUS
<1> HIDE DEF g
<1> QED BY <1>2, <1>3, <1>4, <1>5, CountedBy
-----------------------------------------------------------------------------
(* The schedule of the benchmarks that time methods in turn.               *)

PairedCount == Len(Paired!Methods)
OffsetOf(pass) ==
  IF Paired!Guarded THEN ((pass \div Paired!Samples) + (pass % Paired!Samples)) % PairedCount
  ELSE pass % PairedCount
ReversedIn(pass) ==
  \/ Paired!Guarded /\ (pass % Paired!Samples) % 2 = 1
  \/ tool = "paired" /\ (pass \div PairedCount) % 2 = 1

\* Different names make a list that has each once.
LEMMA TwoNames ==
  ASSUME NEW s, NEW a, NEW b, a # b, s = <<a, b>>
  PROVE  /\ s \in Seq(Range(s)) /\ Len(s) = 2
         /\ \A i, j \in 1 .. 2 : s[i] = s[j] => i = j
<1>1. Len(s) = 2 /\ DOMAIN s = 1 .. 2
  OBVIOUS
<1>2. s[1] = a /\ s[2] = b
  OBVIOUS
<1>3. s = [i \in 1 .. 2 |-> s[i]]
  OBVIOUS
<1>4. s \in Seq(Range(s))
  BY <1>1, <1>3 DEF Range
<1>5. ASSUME NEW i \in 1 .. 2, NEW j \in 1 .. 2, s[i] = s[j] PROVE i = j
  <2>1. (i = 1 \/ i = 2) /\ (j = 1 \/ j = 2)
    OBVIOUS
  <2> QED BY <1>2, <1>5, <2>1
<1> QED BY <1>1, <1>4, <1>5

LEMMA ThreeNames ==
  ASSUME NEW s, NEW a, NEW b, NEW c, a # b, a # c, b # c, s = <<a, b, c>>
  PROVE  /\ s \in Seq(Range(s)) /\ Len(s) = 3
         /\ \A i, j \in 1 .. 3 : s[i] = s[j] => i = j
<1>1. Len(s) = 3 /\ DOMAIN s = 1 .. 3
  OBVIOUS
<1>2. s[1] = a /\ s[2] = b /\ s[3] = c
  OBVIOUS
<1>3. s = [i \in 1 .. 3 |-> s[i]]
  OBVIOUS
<1>4. s \in Seq(Range(s))
  BY <1>1, <1>3 DEF Range
<1>5. ASSUME NEW i \in 1 .. 3, NEW j \in 1 .. 3, s[i] = s[j] PROVE i = j
  <2>1. (i = 1 \/ i = 2 \/ i = 3) /\ (j = 1 \/ j = 2 \/ j = 3)
    OBVIOUS
  <2> QED BY <1>2, <1>5, <2>1
<1> QED BY <1>1, <1>4, <1>5

LEMMA FourNames ==
  ASSUME NEW s, NEW a, NEW b, NEW c, NEW d, a # b, a # c, a # d, b # c, b # d, c # d,
         s = <<a, b, c, d>>
  PROVE  /\ s \in Seq(Range(s)) /\ Len(s) = 4
         /\ \A i, j \in 1 .. 4 : s[i] = s[j] => i = j
<1>1. Len(s) = 4 /\ DOMAIN s = 1 .. 4
  OBVIOUS
<1>2. s[1] = a /\ s[2] = b /\ s[3] = c /\ s[4] = d
  OBVIOUS
<1>3. s = [i \in 1 .. 4 |-> s[i]]
  OBVIOUS
<1>4. s \in Seq(Range(s))
  BY <1>1, <1>3 DEF Range
<1>5. ASSUME NEW i \in 1 .. 4, NEW j \in 1 .. 4, s[i] = s[j] PROVE i = j
  <2>1. (i = 1 \/ i = 2 \/ i = 3 \/ i = 4) /\ (j = 1 \/ j = 2 \/ j = 3 \/ j = 4)
    OBVIOUS
  <2> QED BY <1>2, <1>5, <2>1
<1> QED BY <1>1, <1>4, <1>5

LEMMA PairedLists ==
  ASSUME Pairing
  PROVE  /\ Paired!Methods \in Seq(Range(Paired!Methods)) /\ PairedCount \in {3, 4}
         /\ \A i, j \in 1 .. PairedCount : Paired!Methods[i] = Paired!Methods[j] => i = j
         /\ Paired!Samples \in {1, 2, 3} /\ Paired!Passes \in Nat
         /\ Paired!Guarded =>
              /\ Paired!Samples \in {2, 3} /\ Paired!Rounds = PairedCount
              /\ Paired!Passes = PairedCount * Paired!Samples
         /\ tool = "paired" => PairedCount = 3 /\ Paired!Passes = PairedRounds
<1>1. CASE tool = "moe"
  <2>1. Paired!Methods = <<"before_split", "current_split", "interleaved">>
    BY <1>1 DEF Paired!Methods
  <2>2. Paired!Samples = 2 /\ Paired!Rounds = 3 /\ (Paired!Guarded <=> TRUE)
    BY <1>1 DEF Paired!Samples, Paired!Rounds, Paired!Guarded
  <2>3. PairedCount = 3 /\ Paired!Methods \in Seq(Range(Paired!Methods))
        /\ \A i, j \in 1 .. 3 : Paired!Methods[i] = Paired!Methods[j] => i = j
    <3>1. /\ "before_split" # "current_split" /\ "before_split" # "interleaved"
          /\ "current_split" # "interleaved"
      OBVIOUS
    <3> QED BY <2>1, <3>1, ThreeNames DEF PairedCount
  <2> QED BY <1>1, <2>2, <2>3 DEF Paired!Passes
<1>2. CASE tool = "mega"
  <2>1. Paired!Methods = <<"mega_int8", "fp8_mega", "bf16_mega", "cosmos_bf16_compiled">>
    BY <1>2 DEF Paired!Methods
  <2>2. Paired!Samples = 3 /\ Paired!Rounds = 4 /\ (Paired!Guarded <=> TRUE)
    BY <1>2 DEF Paired!Samples, Paired!Rounds, Paired!Guarded
  <2>3. PairedCount = 4 /\ Paired!Methods \in Seq(Range(Paired!Methods))
        /\ \A i, j \in 1 .. 4 : Paired!Methods[i] = Paired!Methods[j] => i = j
    <3>1. /\ "mega_int8" # "fp8_mega" /\ "mega_int8" # "bf16_mega"
          /\ "mega_int8" # "cosmos_bf16_compiled" /\ "fp8_mega" # "bf16_mega"
          /\ "fp8_mega" # "cosmos_bf16_compiled" /\ "bf16_mega" # "cosmos_bf16_compiled"
      OBVIOUS
    <3> QED BY <2>1, <3>1, FourNames DEF PairedCount
  <2> QED BY <1>2, <2>2, <2>3 DEF Paired!Passes
<1>3. CASE tool = "paired"
  <2>1. Paired!Methods = <<"cute", "cutlass_production", "cutlass_matched">>
    BY <1>3 DEF Paired!Methods
  <2>2. Paired!Samples = 1 /\ Paired!Rounds = PairedRounds /\ (Paired!Guarded <=> FALSE)
    BY <1>3 DEF Paired!Samples, Paired!Rounds, Paired!Guarded
  <2>3. PairedCount = 3 /\ Paired!Methods \in Seq(Range(Paired!Methods))
        /\ \A i, j \in 1 .. 3 : Paired!Methods[i] = Paired!Methods[j] => i = j
    <3>1. /\ "cute" # "cutlass_production" /\ "cute" # "cutlass_matched"
          /\ "cutlass_production" # "cutlass_matched"
      OBVIOUS
    <3> QED BY <2>1, <3>1, ThreeNames DEF PairedCount
  <2>4. PairedRounds \in Nat
    BY RoundsAssumption
  <2> QED BY <1>3, <2>2, <2>3, <2>4 DEF Paired!Passes
<1>4. CASE tool = "m256"
  <2>1. Paired!Methods = <<"cute_3", "cute_5", "cute_7">>
    BY <1>4 DEF Paired!Methods
  <2>2. Paired!Samples = 1 /\ Paired!Rounds = 5 /\ (Paired!Guarded <=> FALSE)
    BY <1>4 DEF Paired!Samples, Paired!Rounds, Paired!Guarded
  <2>3. PairedCount = 3 /\ Paired!Methods \in Seq(Range(Paired!Methods))
        /\ \A i, j \in 1 .. 3 : Paired!Methods[i] = Paired!Methods[j] => i = j
    <3>1. "cute_3" # "cute_5" /\ "cute_3" # "cute_7" /\ "cute_5" # "cute_7"
      OBVIOUS
    <3> QED BY <2>1, <3>1, ThreeNames DEF PairedCount
  <2> QED BY <1>4, <2>2, <2>3 DEF Paired!Passes
<1> QED BY <1>1, <1>2, <1>3, <1>4 DEF Pairing

\* What pass p times at place i.
LEMMA Scheduled ==
  ASSUME Pairing, NEW p \in Nat
  PROVE  /\ OffsetOf(p) \in 0 .. PairedCount - 1 /\ ReversedIn(p) \in BOOLEAN
         /\ Paired!OrderOf(p) \in Seq(Range(Paired!Methods)) /\ Len(Paired!OrderOf(p)) = PairedCount
         /\ \A i \in 1 .. PairedCount :
              Paired!OrderOf(p)[i]
                = Paired!Methods[Wheel(PairedCount, OffsetOf(p), Side(PairedCount, i, ReversedIn(p)))]
<1>1. /\ Paired!Methods \in Seq(Range(Paired!Methods))
      /\ PairedCount \in {3, 4} /\ Paired!Samples \in {1, 2, 3}
  BY PairedLists
<1>2. OffsetOf(p) \in 0 .. PairedCount - 1 /\ ReversedIn(p) \in BOOLEAN
  <2>1. p \div Paired!Samples \in Nat /\ p % Paired!Samples \in Nat
    BY <1>1
  <2>2. \A x \in Nat : x % PairedCount \in 0 .. PairedCount - 1
    BY <1>1
  <2> QED BY <2>1, <2>2 DEF OffsetOf, ReversedIn
<1>3. Paired!OrderOf(p) = Paired!Turned(Paired!Rotated(Paired!Methods, OffsetOf(p)), ReversedIn(p))
  <2>1. CASE Paired!Guarded
    <3>1. tool # "paired" /\ tool # "m256"
      BY <2>1 DEF Paired!Guarded
    <3> QED BY <2>1, <3>1
           DEF Paired!OrderOf, Paired!GuardOrder, OffsetOf, ReversedIn, PairedCount, Paired!Turned
  <2>2. CASE tool = "paired"
    <3>1. ~Paired!Guarded
      BY <2>2 DEF Paired!Guarded
    <3> QED BY <2>2, <3>1
           DEF Paired!OrderOf, Paired!PairedOrder, OffsetOf, ReversedIn, PairedCount, Paired!Turned
  <2>3. CASE tool = "m256"
    <3>1. ~Paired!Guarded
      BY <2>3 DEF Paired!Guarded
    <3> QED BY <2>3, <3>1
           DEF Paired!OrderOf, Paired!RotatedOrder, OffsetOf, ReversedIn, PairedCount, Paired!Turned
  <2> QED BY <2>1, <2>2, <2>3 DEF Pairing, Paired!Guarded
<1> QED BY <1>1, <1>2, <1>3, TurnedAt DEF PairedCount

\* What is timed k places after the first.
Slot(k) == Paired!OrderOf(k \div PairedCount)[(k % PairedCount) + 1]
PairedRan ==
  /\ Pairing
  /\ ran \in Seq({Slot(k) : k \in Nat})
  /\ \A i \in DOMAIN ran : ran[i] = Slot(i - 1)

LEMMA ScheduleStays ==
  ASSUME tool' = tool
  PROVE  /\ PairedCount' = PairedCount
         /\ \A k \in Nat : Slot(k)' = Slot(k)
BY DEF Slot, PairedCount, Paired!OrderOf, Paired!GuardOrder, Paired!PairedOrder, Paired!RotatedOrder,
       Paired!Methods, Paired!Samples, Paired!Guarded

LEMMA RanStays ==
  ASSUME PairedRan, tool' = tool, ran' = ran
  PROVE  PairedRan'
<1>1. Pairing' /\ \A k \in Nat : Slot(k)' = Slot(k)
  BY ScheduleStays DEF PairedRan, Pairing
<1>2. {Slot(k) : k \in Nat}' = {Slot(k) : k \in Nat}
  BY <1>1
<1>3. /\ ran \in Seq({Slot(k) : k \in Nat}) /\ \A i \in DOMAIN ran : ran[i] = Slot(i - 1)
      /\ \A i \in DOMAIN ran : i - 1 \in Nat
  BY DEF PairedRan
<1> QED BY <1>1, <1>2, <1>3 DEF PairedRan

LEMMA PairedRanInit == Paired!Init => PairedRan
<1> SUFFICES ASSUME Paired!Init PROVE PairedRan
  OBVIOUS
<1>1. Pairing /\ ran = <<>>
  BY DEF Paired!Init, Pairing
<1> QED BY <1>1 DEF PairedRan

LEMMA PairedRanStep == PairedRan /\ Paired!Next => PairedRan'
<1> SUFFICES ASSUME PairedRan, Paired!Next PROVE PairedRan'
  OBVIOUS
<1>1. tool' = tool /\ (ran' = ran \/ ran' = Append(ran, Paired!Current))
  <2>1. Paired!Work => tool' = tool /\ (ran' = ran \/ ran' = Append(ran, Paired!Current))
    BY DEF Paired!Work, Paired!BeginMoe, Paired!BeginMega, Paired!BeginPaired, Paired!LoadM256,
           Paired!CheckOccupancy, Paired!CheckState, Paired!HashMoe, Paired!HashMega, Paired!Hashing,
           Paired!ImportMoe, Paired!ImportMega, Paired!ImportPaired, Paired!Importing,
           Paired!CheckEdges, Paired!PrepareMega, Paired!CheckMoe, Paired!CheckMega,
           Paired!CheckPaired, Paired!CheckM256, Paired!Checked, Paired!TimePaired, Paired!TimeM256,
           Paired!Record, Paired!RecheckMoe, Paired!RecheckMega, Paired!Rechecked, Paired!WritePaired,
           Paired!PairedWritten, Paired!WriteM256, Paired!M256Written, Paired!Open, Paired!Written,
           Paired!Finally, Paired!StateFails, Paired!NeedNotCool, Paired!BeginCooling, Paired!Cooled,
           Paired!Poll, Paired!Before, Paired!After, Paired!Raise, Paired!Steady, Paired!Rest,
           Paired!FirstReport
  <2>2. Paired!Edit \/ Paired!Drift \/ Paired!GoWrong \/ Paired!Kill => UNCHANGED <<tool, ran>>
    BY DEF Paired!Edit, Paired!Drift, Paired!GoWrong, Paired!Kill, Paired!Rest
  <2> QED BY <2>1, <2>2 DEF Paired!Next
<1>2. Pairing' /\ \A k \in Nat : Slot(k)' = Slot(k)
  BY <1>1, ScheduleStays DEF PairedRan, Pairing
<1>3. {Slot(k) : k \in Nat}' = {Slot(k) : k \in Nat}
  BY <1>2
<1>4. /\ ran \in Seq({Slot(k) : k \in Nat}) /\ \A i \in DOMAIN ran : ran[i] = Slot(i - 1)
      /\ \A i \in DOMAIN ran : i - 1 \in Nat
  BY DEF PairedRan
<1>5. CASE ran' = ran
  BY <1>1, <1>5, RanStays
<1>6. CASE ran' = Append(ran, Paired!Current)
  <2>1. Paired!Current = Slot(Len(ran))
    BY DEF Paired!Current, Slot, PairedCount
  <2>2. Len(ran) \in Nat /\ DOMAIN ran = 1 .. Len(ran)
    BY <1>4
  <2>3. ran' \in Seq({Slot(k) : k \in Nat})
    BY <1>4, <1>6, <2>1, <2>2
  <2>4. DOMAIN ran' = 1 .. Len(ran) + 1
    BY <1>4, <1>6, <2>2, <2>3
  <2>5. \A i \in 1 .. Len(ran) + 1 : ran'[i] = Slot(i - 1)
    BY <1>4, <1>6, <2>1, <2>2
  <2>6. \A i \in DOMAIN ran' : ran'[i] = Slot(i - 1)'
    BY <1>2, <2>2, <2>4, <2>5
  <2> QED BY <1>2, <1>3, <2>3, <2>6 DEF PairedRan
<1> QED BY <1>1, <1>5, <1>6

\* Once all were timed, pass p was the scheduled one.
LEMMA PairedOrdersRan ==
  ASSUME PairedRan, Paired!Timed, NEW p \in 0 .. Paired!Passes - 1
  PROVE  /\ DOMAIN Paired!Order(p) = 1 .. PairedCount
         /\ \A i \in 1 .. PairedCount : Paired!Order(p)[i] = Paired!OrderOf(p)[i]
<1> DEFINE n == PairedCount
<1>1. n \in {3, 4} /\ Paired!Passes \in Nat /\ p \in Nat
  BY PairedLists DEF PairedRan
<1>2. ran \in Seq({Slot(k) : k \in Nat}) /\ Len(ran) = Paired!Passes * n
  BY DEF PairedRan, Paired!Timed, PairedCount
<1>3. Paired!Order(p) = SubSeq(ran, (p * n) + 1, (p + 1) * n)
  BY DEF Paired!Order, PairedCount
<1>4. p * n \in Nat /\ (p + 1) * n = (p * n) + n /\ (p * n) + n <= Len(ran)
  <2>1. CASE n = 3
    BY <1>1, <1>2, <2>1
  <2>2. CASE n = 4
    BY <1>1, <1>2, <2>2
  <2> QED BY <1>1, <2>1, <2>2
<1>5. ASSUME NEW i \in 1 .. n PROVE ran[(p * n) + i] = Paired!OrderOf(p)[i]
  <2>1. (p * n) + i \in DOMAIN ran
    BY <1>1, <1>2, <1>4
  <2>2. ran[(p * n) + i] = Slot((p * n) + (i - 1))
    <3>1. ((p * n) + i) - 1 = (p * n) + (i - 1)
      BY <1>1, <1>4
    <3> QED BY <2>1, <3>1 DEF PairedRan
  <2>3. ((p * n) + (i - 1)) \div n = p /\ ((p * n) + (i - 1)) % n = i - 1
    BY <1>1, Divided
  <2>4. (i - 1) + 1 = i
    BY <1>1
  <2> QED BY <2>2, <2>3, <2>4 DEF Slot
<1> HIDE DEF n
<1> DEFINE lo == p * n
<1>6. lo \in Nat /\ Paired!Order(p) = SubSeq(ran, lo + 1, lo + n) /\ lo + n <= Len(ran)
  BY <1>3, <1>4
<1>7. \A i \in 1 .. n : ran[lo + i] = Paired!OrderOf(p)[i]
  BY <1>5
<1> HIDE DEF lo
<1>8. /\ Len(SubSeq(ran, lo + 1, lo + n)) = n
      /\ \A i \in 1 .. n : SubSeq(ran, lo + 1, lo + n)[i] = ran[lo + i]
  <2>1. n \in Nat /\ Len(ran) \in Nat
    BY <1>1, <1>2
  <2>2. Len(SubSeq(ran, lo + 1, lo + n)) = n
    BY <1>1, <1>2, <1>6
  <2>3. ASSUME NEW i \in 1 .. n PROVE SubSeq(ran, lo + 1, lo + n)[i] = ran[lo + i]
    <3>1. SubSeq(ran, lo + 1, lo + n)[i] = ran[(lo + 1) + i - 1] /\ (lo + 1) + i - 1 = lo + i
      BY <1>2, <1>6, <2>1, <2>2, SubSeqProperties
    <3> QED BY <3>1
  <2> QED BY <2>2, <2>3
<1>9. DOMAIN SubSeq(ran, lo + 1, lo + n) = 1 .. n
  BY <1>1, <1>2, <1>6
<1> QED BY <1>6, <1>7, <1>8, <1>9 DEF n

\* So method k was timed at place i where the schedule turned it there.
LEMMA PairedPlaced ==
  ASSUME PairedRan, Paired!Timed, NEW p \in 0 .. Paired!Passes - 1,
         NEW i \in 1 .. PairedCount, NEW k \in 1 .. PairedCount
  PROVE  Paired!Order(p)[i] = Paired!Methods[k]
           <=> OffsetOf(p) = Offset(PairedCount, Side(PairedCount, i, ReversedIn(p)), k)
<1> DEFINE n == PairedCount
           j == Side(n, i, ReversedIn(p))
<1>1. /\ n \in Nat \ {0} /\ p \in Nat
      /\ \A x, y \in 1 .. n : Paired!Methods[x] = Paired!Methods[y] => x = y
  BY PairedLists DEF PairedRan
<1>2. /\ OffsetOf(p) \in 0 .. n - 1 /\ ReversedIn(p) \in BOOLEAN
      /\ Paired!Order(p)[i] = Paired!Methods[Wheel(n, OffsetOf(p), j)]
  BY <1>1, Scheduled, PairedOrdersRan DEF PairedRan
<1>3. j \in 1 .. n
  BY <1>1, <1>2, SideType
<1> HIDE DEF n, j
<1>4. /\ Wheel(n, OffsetOf(p), j) \in 1 .. n
      /\ Wheel(n, OffsetOf(p), j) = k <=> OffsetOf(p) = Offset(n, j, k)
  <2>1. k \in 1 .. n
    BY DEF n
  <2>2. \A o \in 0 .. n - 1 : Wheel(n, o, j) \in 1 .. n /\ (Wheel(n, o, j) = k <=> o = Offset(n, j, k))
    BY <1>1, <1>3, <2>1, WheelOffset
  <2> QED BY <1>2, <2>2
<1>5. Paired!Order(p)[i] = Paired!Methods[k] <=> OffsetOf(p) = Offset(n, j, k)
  <2>1. k \in 1 .. n
    BY DEF n
  <2> QED BY <1>1, <1>2, <1>4, <2>1
<1> QED BY <1>5 DEF n, j
\* The benchmarks count as their invariant does.
LEMMA SameCardinality ==
  \A S : Paired!Cardinality(S) = Cardinality(S) /\ Tokens!Cardinality(S) = Cardinality(S)
BY DEF Cardinality, Paired!Cardinality, Tokens!Cardinality
LEMMA SameRange ==
  \A f : Paired!Range(f) = Range(f) /\ Tokens!Range(f) = Range(f)
BY DEF Range, Paired!Range, Tokens!Range

\* Every method was timed at every place as often, up to the passes over.
LEMMA PairedPlacedCount ==
  ASSUME PairedRan, Paired!Timed, NEW i \in 1 .. PairedCount, NEW k \in 1 .. PairedCount
  PROVE  LET q == Paired!Passes \div PairedCount
         IN /\ Paired!Placed(Paired!Methods[k], i) \in {q, q + 1}
            /\ Paired!Passes % PairedCount = 0 => Paired!Placed(Paired!Methods[k], i) = q
<1> DEFINE n == PairedCount
           P == Paired!Passes
           S == Paired!Samples
           t(reversed) == Offset(n, Side(n, i, reversed), k)
           X == {p \in 0 .. P - 1 : OffsetOf(p) = t(ReversedIn(p))}
<1>1. /\ n \in {3, 4} /\ n \in Nat \ {0} /\ P \in Nat /\ i \in 1 .. n /\ k \in 1 .. n
      /\ Paired!Guarded => S \in {2, 3} /\ Paired!Rounds = n /\ P = n * S
  BY PairedLists DEF PairedRan
<1>2. Paired!Placed(Paired!Methods[k], i) = Cardinality(X)
  <2>1. \A p \in 0 .. P - 1 : Paired!Order(p)[i] = Paired!Methods[k] <=> OffsetOf(p) = t(ReversedIn(p))
    BY PairedPlaced
  <2>2. {p \in 0 .. P - 1 : Paired!Order(p)[i] = Paired!Methods[k]} = X
    BY <2>1
  <2>3. Paired!Placed(Paired!Methods[k], i)
          = Cardinality({p \in 0 .. P - 1 : Paired!Order(p)[i] = Paired!Methods[k]})
    BY SameCardinality DEF Paired!Placed
  <2> QED BY <2>2, <2>3
<1>3. \A reversed \in BOOLEAN : t(reversed) \in 0 .. n - 1
  <2> SUFFICES ASSUME NEW reversed \in BOOLEAN PROVE t(reversed) \in 0 .. n - 1
    OBVIOUS
  <2>1. Side(n, i, reversed) \in 1 .. n
    BY <1>1, SideType
  <2> QED BY <1>1, <2>1, WheelOffset
<1>4. CASE Paired!Guarded
  <2> DEFINE at == [s \in 0 .. S - 1 |-> LET o == t(s % 2 = 1) IN IF s <= o THEN o - s ELSE o + n - s]
             o == [s \in 0 .. S - 1 |-> t(s % 2 = 1)]
  <2>1. S \in {2, 3} /\ P = n * S
    BY <1>1, <1>4
  <2>2. \A s \in 0 .. S - 1 :
          o[s] \in 0 .. n - 1 /\ at[s] = IF s <= o[s] THEN o[s] - s ELSE o[s] + n - s
    BY <1>3, <2>1
  <2>3. at \in [0 .. S - 1 -> 0 .. n - 1]
    BY <1>1, <2>1, <2>2
  <2>4. ASSUME NEW p \in 0 .. P - 1
        PROVE  OffsetOf(p) = t(ReversedIn(p)) <=> p \div S = at[p % S]
    <3>1. p \div S \in 0 .. n - 1 /\ p % S \in 0 .. S - 1
      BY <1>1, <2>1
    <3>2. OffsetOf(p) = ((p \div S) + (p % S)) % n /\ (ReversedIn(p) <=> (p % S) % 2 = 1)
      <4>1. tool # "paired"
        BY <1>4 DEF Paired!Guarded
      <4> QED BY <1>4, <4>1 DEF OffsetOf, ReversedIn
    <3>3. t(ReversedIn(p)) = o[p % S]
      <4>1. ReversedIn(p) = ((p % S) % 2 = 1)
        BY <3>2 DEF ReversedIn
      <4> QED BY <3>1, <4>1
    <3> HIDE DEF t, at, o, n, S, P
    <3> DEFINE a == p \div S
               b == p % S
    <3>4. a \in 0 .. n - 1 /\ b \in 0 .. 2 /\ o[b] \in 0 .. n - 1
          /\ at[b] = IF b <= o[b] THEN o[b] - b ELSE o[b] + n - b
      BY <2>1, <2>2, <3>1
    <3>5. OffsetOf(p) = (a + b) % n
      BY <3>2
    <3> HIDE DEF a, b
    <3>6. (a + b) % n = o[b] <=> a = at[b]
      <4>1. PICK c \in 0 .. n - 1 : c = o[b]
        BY <3>4
      <4>2. at[b] = IF b <= c THEN c - b ELSE c + n - b
        BY <3>4, <4>1
      <4>3. (a + b) % n = c <=> a = IF b <= c THEN c - b ELSE c + n - b
        <5>0. (a + b) % n = IF a + b < n THEN a + b ELSE (a + b) - n
          <6>1. a + b \in 0 .. (2 * n) - 1
            BY <1>1, <3>4
          <6> QED BY <1>1, <6>1, WrapsAround
        <5>1. CASE n = 3
          BY <3>4, <4>1, <5>1, <5>0
        <5>2. CASE n = 4
          BY <3>4, <4>1, <5>2, <5>0
        <5> QED BY <1>1, <5>1, <5>2
      <4> QED BY <4>1, <4>2, <4>3
    <3> QED BY <3>3, <3>5, <3>6 DEF a, b
  <2>5. OnePerSample(X, n, S, at)
    <3>1. X = {p \in 0 .. P - 1 : p \div S = at[p % S]}
      BY <2>4
    <3> QED BY <2>1, <3>1 DEF OnePerSample
  <2>6. P \div n = S
    BY <1>1, <2>1
  <2> HIDE DEF X, at, S, n
  <2>7. Cardinality(X) = S
    BY <1>1, <2>1, <2>3, <2>5, CountSamples
  <2> QED BY <1>2, <2>6, <2>7 DEF n
<1>5. CASE ~Paired!Guarded
  <2> DEFINE at == [b \in Nat |-> t(tool = "paired" /\ b % 2 = 1)]
  <2>1. at \in [Nat -> 0 .. n - 1]
    BY <1>3
  <2>2. ASSUME NEW p \in 0 .. P - 1
        PROVE  OffsetOf(p) = t(ReversedIn(p)) <=> p % n = at[p \div n]
    <3>1. p \div n \in Nat
      BY <1>1
    <3>2. OffsetOf(p) = p % n /\ ReversedIn(p) = (tool = "paired" /\ (p \div n) % 2 = 1)
      BY <1>5 DEF OffsetOf, ReversedIn
    <3> QED BY <3>1, <3>2
  <2>3. OnePerBlock(X, P, n, at)
    BY <2>2 DEF OnePerBlock
  <2> HIDE DEF X, at, P, n
  <2>4. n \in {2, 3, 4}
    BY <1>1
  <2>5. Cardinality(X) \in {P \div n, (P \div n) + 1} /\ (P % n = 0 => Cardinality(X) = P \div n)
    <3>1. P \in Nat
      BY <1>1
    <3> QED BY <2>1, <2>3, <2>4, <3>1, CountBlocks
  <2> QED BY <1>2, <2>5 DEF P, n
<1> QED BY <1>4, <1>5

\* Where pass p times method k.
Unwheel(n, o, k) == IF o < k THEN k - o ELSE k + n - o
PlaceIn(p, k) == Side(PairedCount, Unwheel(PairedCount, OffsetOf(p), k), ReversedIn(p))
LEMMA PairedPlaceOf ==
  ASSUME PairedRan, Paired!Timed, NEW p \in 0 .. Paired!Passes - 1, NEW k \in 1 .. PairedCount
  PROVE  Paired!PlaceOf(Paired!Order(p), Paired!Methods[k]) = PlaceIn(p, k)
<1> DEFINE n == PairedCount
           o == OffsetOf(p)
           r == ReversedIn(p)
<1>1. n \in {3, 4} /\ p \in Nat
  BY PairedLists DEF PairedRan
<1>2. o \in 0 .. n - 1 /\ r \in BOOLEAN
  BY <1>1, Scheduled DEF PairedRan
<1>3. \A i \in 1 .. n : Paired!Order(p)[i] = Paired!Methods[k] <=> o = Offset(n, Side(n, i, r), k)
  BY PairedPlaced
<1>4. DOMAIN Paired!Order(p) = 1 .. n
  BY PairedOrdersRan
<1>5. PlaceIn(p, k) = Side(n, Unwheel(n, o, k), r) /\ k \in 1 .. n
  BY DEF PlaceIn
<1> HIDE DEF n, o, r
<1>6. /\ Side(n, Unwheel(n, o, k), r) \in 1 .. n
      /\ \A i \in 1 .. n : o = Offset(n, Side(n, i, r), k) <=> i = Side(n, Unwheel(n, o, k), r)
  BY <1>1, <1>2, <1>5 DEF Side, Offset, Unwheel
<1>7. \A i \in DOMAIN Paired!Order(p) : Paired!Order(p)[i] = Paired!Methods[k] <=> i = PlaceIn(p, k)
  BY <1>3, <1>4, <1>5, <1>6
<1>8. PlaceIn(p, k) \in DOMAIN Paired!Order(p)
  BY <1>4, <1>5, <1>6
<1> QED BY <1>7, <1>8 DEF Paired!PlaceOf

\* Three rounds earlier or later the paired benchmark times in reverse.
Opposite(p) == IF (p \div 3) % 2 = 0 THEN p + 3 ELSE p - 3
LEMMA OppositeIs ==
  ASSUME tool = "paired", PairedRounds % 6 = 0, NEW p \in 0 .. PairedRounds - 1
  PROVE  /\ Opposite(p) \in 0 .. PairedRounds - 1 /\ Opposite(Opposite(p)) = p
         /\ \A j, k \in 1 .. 3 :
              PlaceIn(p, j) < PlaceIn(p, k) <=> PlaceIn(Opposite(p), k) < PlaceIn(Opposite(p), j)
<1> DEFINE q == Opposite(p)
<1>1. PairedRounds \in Nat /\ p \in Nat
  BY RoundsAssumption
<1>2. /\ q \in 0 .. PairedRounds - 1 /\ q % 3 = p % 3 /\ Opposite(q) = p
      /\ (q \div 3) % 2 = 1 <=> (p \div 3) % 2 = 0
  BY <1>1 DEF Opposite
<1>3. PairedCount = 3 /\ ~Paired!Guarded
  BY PairedLists DEF Pairing, Paired!Guarded
<1>4. \A x \in Nat : OffsetOf(x) = x % 3 /\ ReversedIn(x) = ((x \div 3) % 2 = 1)
  BY <1>3 DEF OffsetOf, ReversedIn
<1> DEFINE o == p % 3
<1>5. o \in 0 .. 2 /\ OffsetOf(p) = o /\ OffsetOf(q) = o /\ ReversedIn(q) = ~ReversedIn(p)
      /\ ReversedIn(p) \in BOOLEAN
  <2>1. q \in Nat
    BY <1>1, <1>2
  <2>2. OffsetOf(p) = o /\ OffsetOf(q) = o /\ o \in 0 .. 2
    BY <1>1, <1>2, <1>4, <2>1
  <2>3. ReversedIn(p) = ((p \div 3) % 2 = 1) /\ ReversedIn(q) = ((q \div 3) % 2 = 1)
    BY <1>1, <1>4, <2>1
  <2>4. (p \div 3) % 2 = 1 <=> ~((p \div 3) % 2 = 0)
    BY <1>1
  <2>5. ((q \div 3) % 2 = 1) = ~((p \div 3) % 2 = 1)
    BY <1>2, <2>4
  <2> QED BY <2>2, <2>3, <2>5
<1> HIDE DEF o, q
<1>6. ASSUME NEW k \in 1 .. 3
      PROVE  /\ PlaceIn(p, k) = Side(3, Unwheel(3, o, k), ReversedIn(p))
             /\ PlaceIn(q, k) = Side(3, Unwheel(3, o, k), ~ReversedIn(p))
             /\ Unwheel(3, o, k) \in 1 .. 3
  BY <1>3, <1>5 DEF PlaceIn, Unwheel
<1>7. \A j, k \in 1 .. 3 : PlaceIn(p, j) < PlaceIn(p, k) <=> PlaceIn(q, k) < PlaceIn(q, j)
  <2> SUFFICES ASSUME NEW j \in 1 .. 3, NEW k \in 1 .. 3
               PROVE  PlaceIn(p, j) < PlaceIn(p, k) <=> PlaceIn(q, k) < PlaceIn(q, j)
    OBVIOUS
  <2> DEFINE x == Unwheel(3, o, j)
             y == Unwheel(3, o, k)
  <2>1. x \in 1 .. 3 /\ y \in 1 .. 3
    BY <1>6
  <2> HIDE DEF x, y
  <2>2. Side(3, x, ReversedIn(p)) < Side(3, y, ReversedIn(p))
          <=> Side(3, y, ~ReversedIn(p)) < Side(3, x, ~ReversedIn(p))
    BY <1>5, <2>1 DEF Side
  <2> QED BY <1>6, <2>2 DEF x, y
<1> QED BY <1>2, <1>7 DEF q

LEMMA PairedPrecedes ==
  ASSUME PairedRan, Paired!Timed, tool = "paired", PairedRounds % 6 = 0,
         NEW j \in 1 .. 3, NEW k \in 1 .. 3
  PROVE  Paired!Precedes(Paired!Methods[j], Paired!Methods[k])
           = Paired!Precedes(Paired!Methods[k], Paired!Methods[j])
<1> DEFINE P == 0 .. PairedRounds - 1
           X == {p \in P : PlaceIn(p, j) < PlaceIn(p, k)}
           Y == {p \in P : PlaceIn(p, k) < PlaceIn(p, j)}
           g == [p \in X |-> Opposite(p)]
<1>1. PairedRounds \in Nat /\ PairedCount = 3 /\ Paired!Passes = PairedRounds
  BY RoundsAssumption, PairedLists DEF PairedRan
<1>2. /\ Paired!Precedes(Paired!Methods[j], Paired!Methods[k]) = Cardinality(X)
      /\ Paired!Precedes(Paired!Methods[k], Paired!Methods[j]) = Cardinality(Y)
  <2>1. \A p \in P : \A x \in 1 .. 3 :
          Paired!PlaceOf(Paired!Order(p), Paired!Methods[x]) = PlaceIn(p, x)
    BY <1>1, PairedPlaceOf
  <2>2. /\ X = {p \in P : Paired!PlaceOf(Paired!Order(p), Paired!Methods[j])
                            < Paired!PlaceOf(Paired!Order(p), Paired!Methods[k])}
        /\ Y = {p \in P : Paired!PlaceOf(Paired!Order(p), Paired!Methods[k])
                            < Paired!PlaceOf(Paired!Order(p), Paired!Methods[j])}
    BY <2>1
  <2>3. /\ Paired!Precedes(Paired!Methods[j], Paired!Methods[k])
             = Cardinality({p \in 0 .. Paired!Passes - 1 :
                             Paired!PlaceOf(Paired!Order(p), Paired!Methods[j])
                               < Paired!PlaceOf(Paired!Order(p), Paired!Methods[k])})
        /\ Paired!Precedes(Paired!Methods[k], Paired!Methods[j])
             = Cardinality({p \in 0 .. Paired!Passes - 1 :
                             Paired!PlaceOf(Paired!Order(p), Paired!Methods[k])
                               < Paired!PlaceOf(Paired!Order(p), Paired!Methods[j])})
    BY SameCardinality DEF Paired!Precedes
  <2> HIDE DEF X, Y
  <2> QED BY <1>1, <2>2, <2>3
<1>3. \A p \in P :
        /\ Opposite(p) \in P /\ Opposite(Opposite(p)) = p
        /\ PlaceIn(p, j) < PlaceIn(p, k) <=> PlaceIn(Opposite(p), k) < PlaceIn(Opposite(p), j)
        /\ PlaceIn(p, k) < PlaceIn(p, j) <=> PlaceIn(Opposite(p), j) < PlaceIn(Opposite(p), k)
  BY OppositeIs
<1> HIDE DEF P
<1>4. \A p \in X : Opposite(p) \in Y /\ Opposite(Opposite(p)) = p
  BY <1>3
<1>5. \A p \in Y : Opposite(p) \in X /\ Opposite(Opposite(p)) = p
  BY <1>3
<1>6. IsFiniteSet(X)
  <2>1. IsFiniteSet(P)
    BY <1>1, FS_Interval DEF P
  <2> QED BY <2>1, FS_Subset
<1> HIDE DEF X, Y
<1>7. g \in Bijection(X, Y)
  BY <1>4, <1>5 DEF Bijection, Injection, Surjection, IsInjective
<1>8. Cardinality(Y) = Cardinality(X)
  BY <1>6, <1>7, FS_Bijection DEF ExistsBijection
<1> QED BY <1>2, <1>8

LEMMA PairedFair == PairedRan => Paired!OrdersFair
<1> SUFFICES ASSUME PairedRan, Paired!Timed PROVE Paired!OrdersFair
  BY DEF Paired!OrdersFair
<1> DEFINE n == PairedCount
           q == Paired!Passes \div n
<1>1. n \in {3, 4} /\ Paired!Passes \in Nat /\ Paired!Methods \in Seq(Range(Paired!Methods))
      /\ (tool = "paired" => n = 3)
  BY PairedLists DEF PairedRan
<1>2. n = Len(Paired!Methods) /\ DOMAIN Paired!Methods = 1 .. n /\ q \in Nat
  <2>1. q \in Nat
    <3>1. CASE n = 3
      BY <1>1, <3>1
    <3>2. CASE n = 4
      BY <1>1, <3>2
    <3> QED BY <1>1, <3>1, <3>2
  <2>2. DOMAIN Paired!Methods = 1 .. Len(Paired!Methods)
    BY <1>1
  <2> QED BY <2>1, <2>2 DEF PairedCount
<1>3. \A m \in Range(Paired!Methods) : \E k \in 1 .. n : m = Paired!Methods[k]
  BY <1>2 DEF Range
<1>4. ASSUME NEW m \in Range(Paired!Methods),
             NEW i \in DOMAIN Paired!Methods, NEW j \in DOMAIN Paired!Methods
      PROVE  Paired!Placed(m, i) <= Paired!Placed(m, j) + (IF Paired!Passes % n = 0 THEN 0 ELSE 1)
  <2>1. PICK k \in 1 .. n : m = Paired!Methods[k]
    BY <1>3
  <2>2. /\ Paired!Placed(m, i) \in {q, q + 1} /\ Paired!Placed(m, j) \in {q, q + 1}
        /\ Paired!Passes % n = 0 => Paired!Placed(m, i) = q /\ Paired!Placed(m, j) = q
    BY <1>2, <2>1, PairedPlacedCount
  <2> HIDE DEF q, n
  <2> QED BY <1>2, <2>2
<1>5. ASSUME tool = "paired", PairedRounds % (2 * n) = 0,
             NEW a \in Range(Paired!Methods), NEW b \in Range(Paired!Methods)
      PROVE  Paired!Precedes(a, b) = Paired!Precedes(b, a)
  <2>1. n = 3
    BY <1>1, <1>5
  <2>2. PairedRounds % 6 = 0
    BY <1>5, <2>1
  <2>3. PICK j \in 1 .. 3 : a = Paired!Methods[j]
    BY <1>3, <2>1
  <2>4. PICK k \in 1 .. 3 : b = Paired!Methods[k]
    BY <1>3, <2>1
  <2> QED BY <1>5, <2>2, <2>3, <2>4, PairedPrecedes
<1>6. n = Len(Paired!Methods)
  BY <1>2
<1> HIDE DEF n
<1> QED BY <1>4, <1>5, <1>6, SameRange DEF Paired!OrdersFair
-----------------------------------------------------------------------------
(* The rounds of the benchmarks that go through the token counts.          *)

TokenMethods(t) ==
  CASE t = "optimized" -> Tokens!OptimizedMethods [] t = "ffn" -> Tokens!FfnMethods
    [] t = "cosmos" -> Tokens!CosmosMethods [] t = "vllm" -> Tokens!VllmMethods
TokenCount(t) == Len(TokenMethods(t))

\* Round r timed at every place the method turned there.
InOrder(t, orders) ==
  /\ orders \in Seq(Range(orders))
  /\ \A r \in DOMAIN orders : \A i \in 1 .. TokenCount(t) :
       orders[r][i] = TokenMethods(t)[Wheel(TokenCount(t), (r - 1) % TokenCount(t), i)]
OrderedReport(t, r) ==
  /\ r = [kind |-> r.kind, complete |-> r.complete, failed |-> r.failed, cases |-> r.cases]
  /\ r.cases \in Seq(Range(r.cases))
  /\ \A i \in DOMAIN r.cases : InOrder(t, r.cases[i].orders)
TokensRan ==
  /\ Tokenwise /\ InOrder(tool, ran)
  /\ OrderedReport(tool, report) /\ OrderedReport(tool, file)

LEMMA TokenLists ==
  ASSUME Tokenwise
  PROVE  /\ Tokens!Methods = TokenMethods(tool)
         /\ TokenMethods(tool) \in Seq(Range(TokenMethods(tool)))
         /\ TokenCount(tool) \in {2, 3, 4} /\ (tool = "ffn" => TokenCount(tool) = 2)
         /\ \A i, j \in 1 .. TokenCount(tool) :
              TokenMethods(tool)[i] = TokenMethods(tool)[j] => i = j
<1>0. Tokens!Methods = TokenMethods(tool)
  BY DEF Tokens!Methods, TokenMethods
<1>1. CASE tool = "optimized"
  <2>1. TokenMethods(tool) = <<"int8_before", "int8_auto", "vllm_bf16", "cosmos_bf16_compiled">>
    BY <1>1 DEF TokenMethods, Tokens!OptimizedMethods
  <2>2. /\ "int8_before" # "int8_auto" /\ "int8_before" # "vllm_bf16"
        /\ "int8_before" # "cosmos_bf16_compiled" /\ "int8_auto" # "vllm_bf16"
        /\ "int8_auto" # "cosmos_bf16_compiled" /\ "vllm_bf16" # "cosmos_bf16_compiled"
    OBVIOUS
  <2> QED BY <1>0, <1>1, <2>1, <2>2, FourNames DEF TokenCount
<1>2. CASE tool = "ffn"
  <2>1. TokenMethods(tool) = <<"int8_moe_ffn", "float_eager_experts">>
    BY <1>2 DEF TokenMethods, Tokens!FfnMethods
  <2>2. "int8_moe_ffn" # "float_eager_experts"
    OBVIOUS
  <2> QED BY <1>0, <1>2, <2>1, <2>2, TwoNames DEF TokenCount
<1>3. CASE tool = "cosmos"
  <2>1. TokenMethods(tool) = <<"int8_auto", "cosmos_bf16_eager", "cosmos_bf16_compiled">>
    BY <1>3 DEF TokenMethods, Tokens!CosmosMethods
  <2>2. /\ "int8_auto" # "cosmos_bf16_eager" /\ "int8_auto" # "cosmos_bf16_compiled"
        /\ "cosmos_bf16_eager" # "cosmos_bf16_compiled"
    OBVIOUS
  <2> QED BY <1>0, <1>3, <2>1, <2>2, ThreeNames DEF TokenCount
<1>4. CASE tool = "vllm"
  <2>1. TokenMethods(tool) = <<"vllm_bf16", "cosmos_bf16_compiled">>
    BY <1>4 DEF TokenMethods, Tokens!VllmMethods
  <2>2. "vllm_bf16" # "cosmos_bf16_compiled"
    OBVIOUS
  <2> QED BY <1>0, <1>4, <2>1, <2>2, TwoNames DEF TokenCount
<1> QED BY <1>1, <1>2, <1>3, <1>4 DEF Tokenwise

LEMMA TokensScheduled ==
  ASSUME Tokenwise, NEW r \in Nat, NEW i \in 1 .. TokenCount(tool)
  PROVE  Tokens!OrderOf(r)[i] = TokenMethods(tool)[Wheel(TokenCount(tool), r % TokenCount(tool), i)]
<1> DEFINE s == TokenMethods(tool)
           n == TokenCount(tool)
<1>1. /\ Tokens!Methods = s /\ s \in Seq(Range(s)) /\ n \in {2, 3, 4} /\ n = Len(s)
      /\ (tool = "ffn" => n = 2)
  BY TokenLists DEF TokenCount
<1>2. CASE tool = "ffn"
  <2>1. Tokens!OrderOf(r) = IF r % 2 = 1 THEN [j \in 1 .. Len(s) |-> s[(Len(s) - j) + 1]] ELSE s
    BY <1>1, <1>2 DEF Tokens!OrderOf, Tokens!TurnedMethods, Tokens!Reverse
  <2>2. n = 2 /\ i \in {1, 2} /\ (r % 2 = 1 \/ r % 2 = 0)
    <3>1. n = 2 /\ i \in 1 .. n
      BY <1>1, <1>2
    <3> HIDE DEF n
    <3>2. i \in {1, 2}
      BY <3>1
    <3>3. r % 2 = 1 \/ r % 2 = 0
      OBVIOUS
    <3> QED BY <3>1, <3>2, <3>3
  <2>3. Wheel(n, r % n, i) = IF r % 2 = 1 THEN (n - i) + 1 ELSE i
    BY <2>2 DEF Wheel
  <2> HIDE DEF s, n
  <2>4. Tokens!OrderOf(r)[i] = IF r % 2 = 1 THEN s[(n - i) + 1] ELSE s[i]
    BY <1>1, <2>1, <2>2
  <2> QED BY <2>3, <2>4 DEF s, n
<1>3. CASE tool # "ffn"
  <2>1. Tokens!OrderOf(r) = Paired!Rotated(s, r % n)
    BY <1>1, <1>3 DEF Tokens!OrderOf, Tokens!RotatedMethods, Paired!Rotated
  <2>2. r % n \in 0 .. Len(s) - 1
    BY <1>1
  <2> HIDE DEF s, n
  <2>3. \A j \in 1 .. Len(s) : Paired!Rotated(s, r % n)[j] = s[Wheel(Len(s), r % n, j)]
    BY <1>1, <2>2, RotatedAt
  <2>4. i \in 1 .. Len(s)
    BY <1>1 DEF n
  <2> QED BY <1>1, <2>1, <2>3, <2>4 DEF s, n
<1> QED BY <1>2, <1>3

LEMMA InOrderEmpty ==
  ASSUME NEW t
  PROVE  InOrder(t, <<>>) /\ OrderedReport(t, Tokens!NoReport) /\ OrderedReport(t, Tokens!NewReport)
<1>1. InOrder(t, <<>>)
  BY DEF InOrder
<1>2. ASSUME NEW r, r \in {Tokens!NoReport, Tokens!NewReport} PROVE OrderedReport(t, r)
  <2>1. /\ r = [kind |-> r.kind, complete |-> r.complete, failed |-> r.failed, cases |-> r.cases]
        /\ r.cases = <<>>
    BY <1>2 DEF Tokens!NoReport, Tokens!NewReport
  <2> QED BY <2>1 DEF OrderedReport
<1> QED BY <1>1, <1>2

LEMMA InOrderLonger ==
  ASSUME Tokenwise, InOrder(tool, ran)
  PROVE  InOrder(tool, Append(ran, Tokens!OrderOf(Len(ran))))
<1> DEFINE n == TokenCount(tool)
           c == Tokens!OrderOf(Len(ran))
           longer == Append(ran, c)
<1>1. ran \in Seq(Range(ran)) /\ Len(ran) \in Nat /\ DOMAIN ran = 1 .. Len(ran)
  BY DEF InOrder
<1>2. /\ longer \in Seq(Range(ran) \cup {c}) /\ Len(longer) = Len(ran) + 1
      /\ DOMAIN longer = 1 .. Len(ran) + 1 /\ longer[Len(ran) + 1] = c
      /\ \A r \in 1 .. Len(ran) : longer[r] = ran[r]
  <2>1. ran \in Seq(Range(ran) \cup {c}) /\ c \in Range(ran) \cup {c}
    BY <1>1
  <2> HIDE DEF c
  <2> QED BY <1>1, <2>1, AppendProperties
<1> HIDE DEF longer
<1>3. longer \in Seq(Range(longer))
  <2>1. Range(longer) = Range(ran) \cup {c}
    BY <1>1, <1>2 DEF Range
  <2> QED BY <1>2, <2>1
<1>4. ASSUME NEW r \in DOMAIN longer, NEW i \in 1 .. n
      PROVE  longer[r][i] = TokenMethods(tool)[Wheel(n, (r - 1) % n, i)]
  <2>1. CASE r \in 1 .. Len(ran)
    BY <1>1, <1>2, <2>1 DEF InOrder
  <2>2. CASE r = Len(ran) + 1
    <3>1. r - 1 = Len(ran)
      BY <1>1, <2>2
    <3>2. c[i] = TokenMethods(tool)[Wheel(n, Len(ran) % n, i)]
      BY <1>1, TokensScheduled
    <3> QED BY <1>2, <2>2, <3>1, <3>2
  <2> QED BY <1>1, <1>2, <2>1, <2>2
<1>5. InOrder(tool, longer)
  BY <1>3, <1>4 DEF InOrder
<1> QED BY <1>5 DEF longer

LEMMA ReportFailed ==
  ASSUME NEW r, r = [kind |-> r.kind, complete |-> r.complete, failed |-> r.failed, cases |-> r.cases],
         NEW f, f = [r EXCEPT !.failed = TRUE]
  PROVE  f = [kind |-> r.kind, complete |-> r.complete, failed |-> TRUE, cases |-> r.cases]
OBVIOUS
LEMMA ReportExtended ==
  ASSUME NEW r, r = [kind |-> r.kind, complete |-> r.complete, failed |-> r.failed, cases |-> r.cases],
         NEW cases, NEW complete, NEW f, f = [r EXCEPT !.cases = cases, !.complete = complete]
  PROVE  f = [kind |-> r.kind, complete |-> complete, failed |-> r.failed, cases |-> cases]
OBVIOUS

LEMMA OrderedKept ==
  ASSUME NEW t, NEW r, OrderedReport(t, r), NEW c, InOrder(t, c.orders), NEW complete
  PROVE  /\ OrderedReport(t, [r EXCEPT !.failed = TRUE])
         /\ OrderedReport(t, [r EXCEPT !.cases = Append(r.cases, c), !.complete = complete])
<1>1. /\ r = [kind |-> r.kind, complete |-> r.complete, failed |-> r.failed, cases |-> r.cases]
      /\ r.cases \in Seq(Range(r.cases)) /\ \A i \in DOMAIN r.cases : InOrder(t, r.cases[i].orders)
  BY DEF OrderedReport
<1>2. OrderedReport(t, [r EXCEPT !.failed = TRUE])
  <2> DEFINE f == [r EXCEPT !.failed = TRUE]
  <2>1. f = [kind |-> f.kind, complete |-> f.complete, failed |-> f.failed, cases |-> f.cases]
        /\ f.cases = r.cases
    <3>1. f = [kind |-> r.kind, complete |-> r.complete, failed |-> TRUE, cases |-> r.cases]
      BY <1>1, ReportFailed, Zenon
    <3> HIDE DEF f
    <3> QED BY <3>1
  <2> HIDE DEF f
  <2>2. OrderedReport(t, f)
    BY <1>1, <2>1 DEF OrderedReport
  <2> QED BY <2>2 DEF f
<1>3. OrderedReport(t, [r EXCEPT !.cases = Append(r.cases, c), !.complete = complete])
  <2> DEFINE cases == Append(r.cases, c)
             f == [r EXCEPT !.cases = cases, !.complete = complete]
  <2>1. Len(r.cases) \in Nat /\ DOMAIN r.cases = 1 .. Len(r.cases)
    BY <1>1
  <2>2. /\ cases \in Seq(Range(r.cases) \cup {c}) /\ DOMAIN cases = 1 .. Len(r.cases) + 1
        /\ cases[Len(r.cases) + 1] = c /\ \A i \in 1 .. Len(r.cases) : cases[i] = r.cases[i]
    <3>1. r.cases \in Seq(Range(r.cases) \cup {c}) /\ c \in Range(r.cases) \cup {c}
      BY <1>1
    <3> QED BY <2>1, <3>1, AppendProperties
  <2> HIDE DEF cases
  <2>3. f = [kind |-> f.kind, complete |-> f.complete, failed |-> f.failed, cases |-> f.cases]
        /\ f.cases = cases
    <3>1. f = [kind |-> r.kind, complete |-> complete, failed |-> r.failed, cases |-> cases]
      BY <1>1, ReportExtended, Zenon
    <3> HIDE DEF f
    <3> QED BY <3>1
  <2>4. cases \in Seq(Range(cases))
    <3>1. Range(cases) = Range(r.cases) \cup {c}
      BY <2>1, <2>2 DEF Range
    <3> QED BY <2>2, <3>1
  <2>5. \A i \in DOMAIN cases : InOrder(t, cases[i].orders)
    BY <1>1, <2>1, <2>2
  <2> HIDE DEF f
  <2>6. OrderedReport(t, f)
    BY <2>3, <2>4, <2>5 DEF OrderedReport
  <2> QED BY <2>6 DEF f, cases
<1> QED BY <1>2, <1>3

LEMMA TokensRanInit == Tokens!Init => TokensRan
BY InOrderEmpty DEF Tokens!Init, TokensRan, Tokenwise

LEMMA TokensRanStep == TokensRan /\ Tokens!Next => TokensRan'
<1> SUFFICES ASSUME TokensRan, Tokens!Next PROVE TokensRan'
  OBVIOUS
<1>1. Tokenwise /\ InOrder(tool, ran) /\ OrderedReport(tool, report) /\ OrderedReport(tool, file)
  BY DEF TokensRan
<1>2. ASSUME Tokens!Raise, tool' = tool, file' = file \/ file' = [report EXCEPT !.failed = TRUE]
      PROVE  TokensRan'
  <2>1. ran' = <<>> /\ report' = Tokens!NoReport
    BY <1>2 DEF Tokens!Raise
  <2>2. OrderedReport(tool, [report EXCEPT !.failed = TRUE])
    <3>1. InOrder(tool, [orders |-> ran].orders)
      BY <1>1
    <3> QED BY <1>1, <3>1, OrderedKept
  <2> QED BY <1>1, <1>2, <2>1, <2>2, InOrderEmpty DEF TokensRan, Tokenwise
<1>3. ASSUME tool' = tool, report' = report, file' = file,
             ran' = ran \/ ran' = <<>> \/ ran' = Append(ran, Tokens!OrderOf(Len(ran)))
      PROVE  TokensRan'
  BY <1>1, <1>3, InOrderEmpty, InOrderLonger DEF TokensRan, Tokenwise
<1>4. CASE \/ Tokens!Failed \/ Tokens!RaiseRecorded \/ Tokens!RaiseUnrecorded
  <2>1. tool' = tool
    BY DEF Tokens!Next, Tokens!Work, Tokens!Import, Tokens!HashBefore, Tokens!LoadBefore,
           Tokens!HashAfter, Tokens!FirstCalls, Tokens!Check, Tokens!Cool, Tokens!TimeRound,
           Tokens!ReadSensor, Tokens!VerifyProvenance, Tokens!KeepCase, Tokens!End,
           Tokens!Drift, Tokens!Kill, Tokens!Edit, Tokens!host
  <2> QED BY <1>2, <1>4, <2>1 DEF Tokens!Failed, Tokens!RaiseRecorded, Tokens!RaiseUnrecorded
<1>5. CASE Tokens!HashAfter
  <2>1. tool' = tool /\ ran' = ran /\ report' = Tokens!NewReport /\ file' = report'
    BY <1>5 DEF Tokens!HashAfter, Tokens!Save, Tokens!host
  <2> QED BY <1>1, <2>1, InOrderEmpty DEF TokensRan, Tokenwise
<1>6. CASE Tokens!KeepCase
  <2>1. tool' = tool /\ ran' = ran /\ file' = report'
    BY <1>6 DEF Tokens!KeepCase, Tokens!Save, Tokens!host
  <2> DEFINE c == Tokens!Case(Tokens!Tokens)
             cases == Append(report.cases, c)
  <2>2. report' = [report EXCEPT !.cases = cases, !.complete = (Len(cases) = Len(TokenCounts))]
    BY <1>6 DEF Tokens!KeepCase
  <2>3. c.orders = ran
    BY DEF Tokens!Case
  <2> HIDE DEF c
  <2>4. OrderedReport(tool, report')
    BY <1>1, <2>2, <2>3, OrderedKept
  <2> QED BY <1>1, <2>1, <2>4 DEF TokensRan, Tokenwise
<1>7. CASE \/ Tokens!Import \/ Tokens!LoadBefore \/ Tokens!TimeRound \/ Tokens!Drift
           \/ \E p \in Tokens!Parts : Tokens!Edit(p)
  BY <1>3, <1>7 DEF Tokens!Import, Tokens!LoadBefore, Tokens!TimeRound, Tokens!Drift, Tokens!Edit,
                    Tokens!host, Tokens!process
<1>8. CASE Tokens!HashBefore /\ ~Tokens!RaiseUnrecorded
  BY <1>3, <1>8 DEF Tokens!HashBefore, Tokens!host
<1>9. CASE Tokens!FirstCalls /\ ~Tokens!RaiseRecorded /\ ~Tokens!RaiseUnrecorded
  BY <1>3, <1>9 DEF Tokens!FirstCalls, Tokens!host
<1>10. CASE (Tokens!Check \/ Tokens!Cool) /\ ~Tokens!Failed
  BY <1>3, <1>10 DEF Tokens!Check, Tokens!Cool, Tokens!host
<1>11. CASE (Tokens!ReadSensor \/ Tokens!VerifyProvenance) /\ ~Tokens!Failed
  BY <1>3, <1>11 DEF Tokens!ReadSensor, Tokens!VerifyProvenance, Tokens!AtOnly, Tokens!host
<1>12. Tokens!End \/ Tokens!Kill => Tokens!RaiseUnrecorded
  BY DEF Tokens!End, Tokens!Kill
<1> QED BY <1>4, <1>5, <1>6, <1>7, <1>8, <1>9, <1>10, <1>11, <1>12 DEF Tokens!Next, Tokens!Work

\* In how many rounds m was at a place.
Occurrences(orders, place, m) ==
  Cardinality({r \in 0 .. Len(orders) - 1 : orders[r + 1][place] = m})
LEMMA InOrderCount ==
  ASSUME Tokenwise, NEW orders, InOrder(tool, orders),
         NEW place \in 1 .. TokenCount(tool), NEW k \in 1 .. TokenCount(tool),
         NEW m, m = TokenMethods(tool)[k]
  PROVE  LET q == Len(orders) \div TokenCount(tool)
         IN Occurrences(orders, place, m) \in {q, q + 1}
<1> DEFINE n == TokenCount(tool)
           s == TokenMethods(tool)
           L == Len(orders)
           X == {r \in 0 .. L - 1 : orders[r + 1][place] = m}
           o == Offset(n, place, k)
           at == [b \in Nat |-> o]
<1>1. n \in {2, 3, 4} /\ n \in Nat \ {0} /\ \A x, y \in 1 .. n : s[x] = s[y] => x = y
  BY TokenLists
<1>2. L \in Nat /\ DOMAIN orders = 1 .. L
  BY DEF InOrder
<1>3. /\ o \in 0 .. n - 1
      /\ \A x \in 0 .. n - 1 : Wheel(n, x, place) \in 1 .. n /\ (Wheel(n, x, place) = k <=> x = o)
  <2>1. place \in 1 .. n /\ k \in 1 .. n
    OBVIOUS
  <2>2. n \in Nat \ {0}
    BY <1>1
  <2> HIDE DEF n
  <2>3. \A x \in 0 .. n - 1 : Wheel(n, x, place) \in 1 .. n
    BY <2>1, <2>2, WheelOffset
  <2>4. \A x \in 0 .. n - 1 : Wheel(n, x, place) = k <=> x = o
    BY <2>1, <2>2, WheelOffset
  <2>5. o \in 0 .. n - 1
    BY <2>1, <2>2, WheelOffset
  <2> QED BY <2>3, <2>4, <2>5
<1>4. ASSUME NEW r \in 0 .. L - 1 PROVE orders[r + 1][place] = m <=> r % n = at[r \div n]
  <2>1. r + 1 \in DOMAIN orders /\ (r + 1) - 1 = r /\ r % n \in 0 .. n - 1 /\ r \div n \in Nat
    BY <1>1, <1>2
  <2>2. orders[r + 1][place] = s[Wheel(n, r % n, place)]
    BY <2>1 DEF InOrder
  <2>3. at[r \div n] = o
    BY <2>1
  <2> HIDE DEF at, o, s, n
  <2>4. k \in 1 .. n /\ m = s[k]
    BY DEF n, s
  <2> QED BY <1>1, <1>3, <2>1, <2>2, <2>3, <2>4
<1>5. OnePerBlock(X, L, n, at)
  BY <1>4 DEF OnePerBlock
<1>6. at \in [Nat -> 0 .. n - 1]
  BY <1>3
<1> HIDE DEF X, L, n, at
<1>7. Cardinality(X) \in {L \div n, (L \div n) + 1}
  BY <1>1, <1>2, <1>5, <1>6, CountBlocks
<1> QED BY <1>7 DEF X, L, n, Occurrences

LEMMA TokensFair == TokensRan => Tokens!OrdersFair
<1> SUFFICES ASSUME TokensRan PROVE Tokens!OrdersFair
  OBVIOUS
<1>1. SUFFICES ASSUME NEW i \in DOMAIN file.cases, NEW orders, orders = file.cases[i].orders,
                      NEW m1 \in Range(Tokens!Methods), NEW m2 \in Range(Tokens!Methods),
                      NEW place \in DOMAIN Tokens!Methods
               PROVE  Occurrences(orders, place, m1) - Occurrences(orders, place, m2) \in {-1, 0, 1}
  <2>1. ASSUME NEW m, NEW place, NEW orders
        PROVE  Tokens!Cardinality({x \in 0 .. Len(orders) - 1 : orders[x + 1][place] = m})
                 = Occurrences(orders, place, m)
    BY SameCardinality DEF Occurrences
  <2> QED BY <2>1, SameRange DEF Tokens!OrdersFair
<1>2. /\ Tokens!Methods = TokenMethods(tool) /\ TokenCount(tool) \in {2, 3, 4}
      /\ DOMAIN Tokens!Methods = 1 .. TokenCount(tool) /\ Tokenwise
  BY TokenLists DEF TokensRan, TokenCount
<1>3. InOrder(tool, orders)
  BY <1>1 DEF TokensRan, OrderedReport
<1>4. PICK j \in 1 .. TokenCount(tool) : m1 = TokenMethods(tool)[j]
  BY <1>2 DEF Range
<1>5. PICK k \in 1 .. TokenCount(tool) : m2 = TokenMethods(tool)[k]
  BY <1>2 DEF Range
<1> DEFINE q == Len(orders) \div TokenCount(tool)
<1>6. q \in Nat
  <2>1. Len(orders) \in Nat
    BY <1>3 DEF InOrder
  <2>2. \A n \in {2, 3, 4} : Len(orders) \div n \in Nat
    BY <2>1
  <2> QED BY <1>2, <2>2
<1>7. Occurrences(orders, place, m1) \in {q, q + 1} /\ Occurrences(orders, place, m2) \in {q, q + 1}
  <2>1. place \in 1 .. TokenCount(tool)
    BY <1>2
  <2>2. ASSUME NEW x \in 1 .. TokenCount(tool), NEW m, m = TokenMethods(tool)[x]
        PROVE  Occurrences(orders, place, m) \in {q, q + 1}
    BY <1>2, <1>3, <2>1, <2>2, InOrderCount
  <2> QED BY <1>4, <1>5, <2>2
<1> HIDE DEF q
<1> QED BY <1>6, <1>7

-----------------------------------------------------------------------------
(* The benchmarks together.                                                *)

BenchInv == SweepsInv \/ CheckpointInv \/ PairedInv \/ TokensInv

LEMMA OneFamily ==
  /\ SweepsInv => SweepInv /\ Sweeping
  /\ CheckpointInv => Checkpointing
  /\ PairedInv => Pairing
  /\ TokensInv => Tokenwise
  /\ Sweeping => ~Checkpointing /\ ~Pairing /\ ~Tokenwise
  /\ Checkpointing => ~Pairing /\ ~Tokenwise
  /\ Pairing => ~Tokenwise
<1>1. /\ SweepsInv => SweepInv /\ Sweeping
      /\ CheckpointInv => Checkpointing
      /\ PairedInv => Pairing
      /\ TokensInv => Tokenwise
  BY DEF SweepsInv, SweepInv, SweepTypes, CheckpointInv, CheckpointTypes, PairedInv, TokensInv,
     TokensTypes
<1>2. /\ Sweeping => ~Checkpointing /\ ~Pairing /\ ~Tokenwise
      /\ Checkpointing => ~Pairing /\ ~Tokenwise
      /\ Pairing => ~Tokenwise
  BY DEF Sweeping, Checkpointing, Pairing, Tokenwise
<1> QED BY <1>1, <1>2

LEMMA BenchInitInv == StartBenchmarks => BenchInv
BY SweepInitInv, CheckpointInitInv, PairedInitInv, TokensInitInv DEF StartBenchmarks, BenchInv

LEMMA BenchStepInv == BenchInv /\ [BenchmarkStep]_variables => BenchInv'
<1> SUFFICES ASSUME BenchInv, [BenchmarkStep]_variables PROVE BenchInv'
  OBVIOUS
<1>1. CASE BenchmarkStep
  BY <1>1, OneFamily, SweepStepInv, CheckpointStepInv, PairedStepInv, TokensStepInv
     DEF BenchmarkStep, BenchInv
<1>2. CASE UNCHANGED variables
  <2>1. UNCHANGED <<tool, loaded, hashed, pc, file, sources, edits, durable, next, args, sessions,
                    promised, before, gpu, version, fixed, wrong, spoilt, success, temp, polls, ran,
                    report, rendered>>
    BY <1>2 DEF variables, OnDisk, Resumption, Heating, Guards, Timing
  <2>2. CASE SweepsInv
    <3>1. SweepInv /\ GpuInv /\ sources \in SourceMaps
      BY <2>2 DEF SweepsInv, SweepInv, SweepTypes
    <3>2. UNCHANGED session /\ UNCHANGED disk
      BY <2>1 DEF session, disk
    <3>3. SweepInv'
      BY <2>1, <3>1, <3>2, OutsideInv
    <3>4. GpuInv'
      BY <2>1, <3>1 DEF GpuInv
    <3> QED BY <3>3, <3>4 DEF BenchInv, SweepsInv
  <2>3. CASE CheckpointInv
    <3>1. CheckpointPlaces'
      BY <2>1, <2>3, FoundStays DEF CheckpointInv, CheckpointPlaces
    <3> QED BY <2>1, <2>3, <3>1, CheckpointMoves DEF BenchInv, CheckpointInv, CheckpointTypes
  <2>4. CASE PairedInv
    BY <2>1, <2>4, TimedStays
       DEF BenchInv, PairedInv, PairedPlaces, PairedSources, PairedSuccess, PairedFile
  <2>5. CASE TokensInv
    BY <2>1, <2>5 DEF BenchInv, TokensInv, TokensTypes, Tokenwise, TokensSources, TokensReports
  <2> QED BY <2>2, <2>3, <2>4, <2>5 DEF BenchInv
<1> QED BY <1>1, <1>2

LEMMA BenchSafe == BenchmarksSpec => []BenchInv
BY BenchInitInv, BenchStepInv, PTL DEF BenchmarksSpec

\* Whatever is edited, killed or restarted, in whatever session: a case that a
\* sweep reports was run with the library, script and environment its report
\* names.
THEOREM SweepsTraced == BenchmarksSpec => []SweepProvenance
<1>1. BenchInv => SweepProvenance
  BY OneFamily, SweepTraced DEF BenchInv, SweepProvenance
<1> QED BY <1>1, BenchSafe, PTL

\* The rows rendered from checkpoints are of one library, script and
\* environment, and an audit that passes is of those there now.
THEOREM ReportsUniform == BenchmarksSpec => []ReportUniform
<1>1. BenchInv => ReportUniform
  BY OneFamily, CheckpointUniform DEF BenchInv, ReportUniform
<1> QED BY <1>1, BenchSafe, PTL

\* A complete report passes the validator of its family, and a comparison
\* through every shape has rendered every shape and passes its audit.
THEOREM ReportsComplete == BenchmarksSpec => []ReportComplete
<1>1. BenchInv => ReportComplete
  BY OneFamily, SweepWhole, CheckpointWhole DEF BenchInv, ReportComplete
<1> QED BY <1>1, BenchSafe, PTL

\* What a save returned for is in every directory that a restart may leave.
THEOREM SavedIsKept == BenchmarksSpec => []SavedKept
<1>1. BenchInv => SavedKept
  BY OneFamily, SweepKept, CheckpointKept DEF BenchInv, SavedKept
<1> QED BY <1>1, BenchSafe, PTL

\* A guarded success is of right results and, of moe, of the sources named; a
\* case of optimized ran the package and the library its report names.
THEOREM SuccessHolds == BenchmarksSpec => []SuccessIsSound
<1>1. BenchInv => SuccessIsSound
  BY OneFamily, PairedSound, TokensSound DEF BenchInv, SuccessIsSound
<1> QED BY <1>1, BenchSafe, PTL

\* Everything was timed as scheduled, in the benchmark that runs.
OrdersInv == (Pairing => PairedRan) /\ (Tokenwise => TokensRan)

LEMMA OrdersInitInv == StartBenchmarks => OrdersInv
<1>1. Init => Sweeping
  BY OneFamily, SweepInitInv
<1>2. Checkpoint!Init => Checkpointing
  BY OneFamily, CheckpointInitInv
<1>3. /\ Paired!Init => PairedRan /\ Pairing
      /\ Tokens!Init => TokensRan /\ Tokenwise
  BY PairedRanInit, TokensRanInit DEF PairedRan, TokensRan
<1> QED BY <1>1, <1>2, <1>3, OneFamily DEF StartBenchmarks, OrdersInv

LEMMA OrdersStepInv == BenchInv /\ OrdersInv /\ [BenchmarkStep]_variables => OrdersInv'
<1> SUFFICES ASSUME BenchInv, OrdersInv, [BenchmarkStep]_variables PROVE OrdersInv'
  OBVIOUS
<1>1. CASE UNCHANGED variables
  <2>1. UNCHANGED <<tool, ran, report, file>>
    BY <1>1 DEF variables, Timing
  <2>2. (Pairing' <=> Pairing) /\ (Tokenwise' <=> Tokenwise)
    BY <2>1 DEF Pairing, Tokenwise
  <2>3. PairedRan => PairedRan'
    BY <2>1, RanStays
  <2>4. TokensRan => TokensRan'
    BY <2>1 DEF TokensRan, Tokenwise
  <2> QED BY <2>2, <2>3, <2>4 DEF OrdersInv
<1>2. CASE Sweeping /\ Next
  <2>1. SweepInv'
    BY <1>2, OneFamily, SweepStepInv DEF BenchInv, SweepsInv
  <2>2. Sweeping'
    BY <2>1 DEF SweepInv, SweepTypes
  <2> QED BY <2>2 DEF OrdersInv, Sweeping, Pairing, Tokenwise
<1>3. CASE Checkpointing /\ Checkpoint!Next
  <2>1. CheckpointInv'
    BY <1>3, OneFamily, CheckpointStepInv DEF BenchInv
  <2>2. Checkpointing'
    BY <2>1 DEF CheckpointInv, CheckpointTypes
  <2> QED BY <2>2 DEF OrdersInv, Checkpointing, Pairing, Tokenwise
<1>4. CASE Pairing /\ Paired!Next
  <2>1. PairedRan'
    BY <1>4, PairedRanStep DEF OrdersInv
  <2> QED BY <2>1 DEF OrdersInv, PairedRan, Pairing, Tokenwise
<1>5. CASE Tokenwise /\ Tokens!Next
  <2>1. TokensRan'
    BY <1>5, TokensRanStep DEF OrdersInv
  <2> QED BY <2>1 DEF OrdersInv, TokensRan, Pairing, Tokenwise
<1> QED BY <1>1, <1>2, <1>3, <1>4, <1>5 DEF BenchmarkStep

\* For any numbers of rounds: a finished benchmark timed every method at every
\* place as often, or, where the methods do not divide the passes, once more at
\* most; the paired one each of two methods before the other as often, if its
\* rounds are a multiple of six; and so every case of a report by token count.
THEOREM OrdersAreFair == BenchmarksSpec => []OrdersFair
<1>1. OrdersInv => OrdersFair
  BY PairedFair, TokensFair DEF OrdersInv, OrdersFair
<1>2. StartBenchmarks => BenchInv /\ OrdersInv
  BY BenchInitInv, OrdersInitInv
<1>3. (BenchInv /\ OrdersInv) /\ [BenchmarkStep]_variables => (BenchInv /\ OrdersInv)'
  BY BenchStepInv, OrdersStepInv
<1> QED BY <1>1, <1>2, <1>3, PTL DEF BenchmarksSpec
=============================================================================
