----------------------------- MODULE MCAllocation -----------------------------
(* Allocation for TLC: a small node and a larger one, plans of one or two    *)
(* units, and a size for which the sum in checkQuota overflows.              *)
EXTENDS Allocation, TLC

SizeOf(m, d) == [r \in Resource |-> IF r = "memory" THEN m ELSE d]
MCSizes == {SizeOf(1, 1), SizeOf(2, 1), SizeOf(MaxInt, 1)}
MCOneSize == {SizeOf(2, 1)}
MCTwoLimits == {[r \in Resource \cup {"bots"} |-> l] : l \in {1, 2}}
MCOneLimit == {[r \in Resource \cup {"bots"} |-> 2]}
MCCapacity == [n \in Nodes |-> IF n = 1 THEN SizeOf(1, 1) ELSE SizeOf(3, 2)]
\* The larger node has room for as much memory as an int32 holds: the overflow goes through.
MCLargeCapacity == [n \in Nodes |-> IF n = 1 THEN SizeOf(1, 1) ELSE SizeOf(MaxInt, 2)]
Symmetry == Permutations(Handlers) \cup Permutations(Subs) \cup Permutations(Bots)
===============================================================================
