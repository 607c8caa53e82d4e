------------------------------- MODULE RouteSpec -------------------------------
(***************************************************************************)
(* What the routing metadata of an MoE call says, as functions of the      *)
(* expert ids and of the token mask: the contract between the kernels that *)
(* build it (MoeRouting) and those that use it (MoeFfn).                   *)
(* Assignment a is rank a % TopK of token a \div TopK.  The masked and the *)
(* invalid assignments have key Experts and sort behind all others.        *)
(***************************************************************************)
EXTENDS Integers, FiniteSets

CONSTANTS Tokens, TopK, Experts

ASSUME SizeAssumption ==
  Tokens \in Nat \ {0} /\ TopK \in Nat \ {0} /\ Experts \in Nat \ {0}

Slots == Tokens * TopK
Assignments == 0 .. Slots - 1
Bins == 0 .. Experts
ExpertSet == 0 .. Experts - 1

InRange(id) == id \in ExpertSet
EffectiveIds(id, enabled) ==
  [a \in Assignments |-> IF enabled[a \div TopK] /\ InRange(id[a]) THEN id[a] ELSE Experts]
InvalidIds(id, enabled) == {a \in Assignments : enabled[a \div TopK] /\ ~InRange(id[a])}

Routed(key) == {a \in Assignments : key[a] < Experts}
CountOf(key, e) == Cardinality({a \in Assignments : key[a] = e})
StartOf(key, e) == Cardinality({a \in Assignments : key[a] < e})

\* The place of assignment a in the stable sort by key.
Precedes(key, a, b) == key[a] < key[b] \/ (key[a] = key[b] /\ a < b)
Rank(key, a) == Cardinality({b \in DOMAIN key : Precedes(key, b, a)})
Sorted(key) == [s \in Assignments |-> CHOOSE a \in Assignments : Rank(key, a) = s]

\* The sum of the first n values of f, as a cumulative sum computes it.
Prefix(f, n) ==
  LET sum[i \in 0 .. n] == IF i = 0 THEN 0 ELSE sum[i - 1] + f[i - 1]
  IN sum[n]
CeilDiv(n, d) == (n + d - 1) \div d
=============================================================================
