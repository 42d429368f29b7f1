-------------------------- MODULE ResourceAmounts --------------------------
(***************************************************************************)
(* ResourceAmount of provium-host/src/scheduler/pool.rs: a memory/cpu      *)
(* pair.  A record is a function on its field names, so the two axes are   *)
(* treated uniformly as the elements of Axes.                              *)
(*                                                                         *)
(* Sums over a set of reservations are written as the number of units      *)
(* they cover (Units), not as a recursive function: TLC counts them and    *)
(* TLAPS reasons about them with the library facts on cardinality.         *)
(***************************************************************************)
EXTENDS Integers, FiniteSets

CONSTANT Limit          \* largest value of each axis: u64::MAX bytes, u32::MAX cpus

Axes == {"memory_bytes", "cpus"}

Amount == [Axes -> Nat]

ASSUME LimitAssumption == Limit \in Amount

Zero == [x \in Axes |-> 0]

IsZero(a) == a = Zero

FitsIn(a, budget) == \A x \in Axes : a[x] <= budget[x]

\* u64 / u32 saturating_add: the sum, held at the largest value of the axis
SaturatingAdd(a, b) ==
    [x \in Axes |-> IF a[x] + b[x] <= Limit[x] THEN a[x] + b[x] ELSE Limit[x]]

SaturatingSub(a, b) ==
    [x \in Axes |-> IF b[x] <= a[x] THEN a[x] - b[x] ELSE 0]

(***************************************************************************)
(* Units(S, f, x, n): the sum over the indices k in S of f[k][x], as the   *)
(* number of pairs <<k, i>> with 1 <= i <= f[k][x].  n is any bound on     *)
(* the values f takes.                                                     *)
(***************************************************************************)
UnitSet(S, f, x, n) == {p \in S \X (1..n) : p[2] <= f[p[1]][x]}

Units(S, f, x, n) == Cardinality(UnitSet(S, f, x, n))

=============================================================================
