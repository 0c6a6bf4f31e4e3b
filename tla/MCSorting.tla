------------------------------ MODULE MCSorting ------------------------------
(* Inputs of Sorting for TLC: every array of up to MaxLen keys, and longer ones. *)
EXTENDS Sorting

CONSTANTS MaxLen, Keys, MaxCpus

Algorithms == {"merge_sort", "quick_sort"}

Short(a, cpus) ==
  [algorithm : {a}, key : UNION {[0 .. n - 1 -> Keys] : n \in 1 .. MaxLen}, cpus : cpus]

(* For each number of elements one that is reversed and one with equal keys. *)
Long(a, n, cpus) ==
  [algorithm : {a}, key : {[e \in 0 .. n - 1 |-> -e], [e \in 0 .. n - 1 |-> e % 3]}, cpus : cpus]

TestInputs ==
  UNION {Short(a, 1 .. MaxCpus) : a \in Algorithms} \cup Short("bubble_sort", {1})
    \cup UNION {Long("merge_sort", n, {1, 2}) : n \in {13, 16}}
    \cup Long("quick_sort", 10, {4})

(* The networks sort all keys of 0 and 1, and therefore all keys. *)
Applied(swaps, keys) ==
  LET after[n \in 0 .. Len(swaps)] ==
        IF n = 0 THEN keys ELSE Swapped(after[n - 1], swaps[n])
  IN  after[Len(swaps)]

ASSUME NetworksSort ==
  /\ NetworksOrder(1 .. MaxItems)
  /\ \A n \in 1 .. 12 : LET swaps == Network!Swaps(n) IN
       \A keys \in [0 .. n - 1 -> {0, 1}] :
         LET sorted == Applied(swaps, keys)
         IN  \A a \in 1 .. n - 1 : sorted[a - 1] <= sorted[a]

(* Every network that the generator makes stays in its range. *)
ASSUME NetworksFitTheirRange == NetworksFit(1 .. 128)

=============================================================================
