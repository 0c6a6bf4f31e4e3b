------------------------------- MODULE Sorting -------------------------------
(***************************************************************************)
(* The sorting algorithms of src/deprecated/palgorithm: merge sort between *)
(* two buffers and quick sort, whose recursive calls are the sections of   *)
(* nested OpenMP regions, sorting networks for short ranges, and bubble    *)
(* sort.                                                                   *)
(*                                                                         *)
(* A call is named by the sections that lead to it: << >> is the call of   *)
(* the client, <<1, 2>> that of the second section in its first section.   *)
(* An element is named by the position it has in the input.                *)
(***************************************************************************)
EXTENDS Integers, Sequences, FiniteSets

CONSTANTS
  Inputs,      (* the calls of clients: algorithm, keys and processors     *)
  MaxItems,    (* BoseNelson::max_items                                    *)
  None         (* what uninitialised memory holds                          *)

(* The generator makes it 128.  From 3 on an even level has two items. *)
ASSUME SortingAssumption == MaxItems \in Nat /\ MaxItems >= 3

(* merge_sort_internal asserts that there is something to sort, and quick_sort that
   there are processors (psort_private.hpp:108 and 178). *)
ASSUME InputsAssumption ==
  \A in \in Inputs :
    /\ in.algorithm \in {"merge_sort", "quick_sort", "bubble_sort"}
    /\ IsFiniteSet(DOMAIN in.key) /\ DOMAIN in.key # {}
    /\ in.key \in [0 .. Cardinality(DOMAIN in.key) - 1 -> Int]
    /\ in.cpus \in Nat \ {0}

VARIABLES
  input,       (* the call of the client                                   *)
  memory,      (* the array to sort (main), the buffer of merge sort (tmp) *)
  calls        (* the calls in progress, and those not yet joined          *)

vars == <<input, memory, calls>>

key == input.key
Elements == DOMAIN key
Network == INSTANCE BoseNelson

(* The networks of these sizes exchange items of their range only. *)
NetworksFit(sizes) == \A n \in sizes : Network!Swaps(n) \in Seq((0 .. n - 1) \X (0 .. n - 1))

(* What a network for n items makes of values in V: t[i] are those after i of m exchanges. *)
Swapped(v, s) ==
  IF v[s[1]] > v[s[2]] THEN [v EXCEPT ![s[1]] = v[s[2]], ![s[2]] = v[s[1]]] ELSE v

NetworkRuns(n, V, m) ==
  {t \in [0 .. m -> [0 .. n - 1 -> V]] :
     \A i \in 1 .. m : t[i] = Swapped(t[i - 1], Network!Swaps(n)[i])}

(* The networks of these sizes sort zeros and ones. *)
NetworksOrder(sizes) ==
  \A n \in sizes : \A t \in NetworkRuns(n, {0, 1}, Len(Network!Swaps(n))) :
    \A a, b \in 0 .. n - 1 :
      a < b => t[Len(Network!Swaps(n))][a] <= t[Len(Network!Swaps(n))][b]

(* left and size give the range.  begin: called; network: in fast_sort;
   partition: in its loop; forked: at the sections, with those todo left to
   begin and a team of that many threads; merge: in its loop; bubble: in the
   inner loop of bubble_sort; done: returned.  i, j and k are the variables of
   the loops, and the position of the pivot when the loop of partition is over. *)
Call(left, size, cpus) ==
  [left |-> left, size |-> size, cpus |-> cpus, pc |-> "begin",
   i |-> 0, j |-> 0, k |-> 0, team |-> 0, todo |-> {}]

Init ==
  /\ input \in Inputs
  /\ memory = [main |-> [a \in Elements |-> a], tmp |-> [a \in Elements |-> None]]
  /\ calls = [p \in {<<>>} |-> Call(0, Cardinality(Elements), input.cpus)]

-----------------------------------------------------------------------------
Merging == input.algorithm = "merge_sort"

(* MergeSortData::getWork for level p, and the array of the other algorithms. *)
Work(p) == IF Merging /\ Len(p) % 2 = 1 THEN "tmp" ELSE "main"

Update(p, call) == calls' = [calls EXCEPT ![p] = call]

Exchange(buffer, a, b) ==
  memory' = [memory EXCEPT ![buffer][a] = memory[buffer][b],
                           ![buffer][b] = memory[buffer][a]]

SortSwap(buffer, a, b) ==
  IF key[memory[buffer][a]] > key[memory[buffer][b]] THEN Exchange(buffer, a, b)
  ELSE UNCHANGED memory

(* Mutant: ranges that are one too long are not split. *)
SplitsLate(p) ==
  calls[p].size > MaxItems + 1 \/ (Merging /\ Len(p) % 2 = 1)

(* Whether a call has sections.  Levels count from 1, lengths from 0. *)
Splits(p) ==
  calls[p].size > MaxItems \/ (Merging /\ Len(p) % 2 = 1)

Middle(p) == IF Merging THEN calls[p].size \div 2 ELSE calls[p].j

(* quick_sort: one part is much bigger than the other. *)
Lopsided(p) ==
  LET size1 == Middle(p)  size2 == calls[p].size - Middle(p)
  IN  ~Merging /\ (size1 \div 2 >= size2 \/ size2 \div 2 >= size1)

CoresToUse(p) == IF calls[p].cpus >= 2 /\ ~Lopsided(p) THEN 2 ELSE 1

(* Mutant: each section is given all processors. *)
AllCores(p) == calls[p].cpus

CoresForSub(p) == calls[p].cpus \div CoresToUse(p)

(* The recursive call of section s of p. *)
Section(p, s) ==
  LET c == calls[p]  m == Middle(p)  pivot == IF Merging THEN 0 ELSE 1
  IN  IF s = 1 THEN Call(c.left, m, CoresForSub(p))
      ELSE Call(c.left + m + pivot, c.size - m - pivot, CoresForSub(p))

(* quick_sort makes no call for less than two items. *)
Sections(p) == {s \in {1, 2} : Merging \/ Section(p, s).size > 1}

-----------------------------------------------------------------------------
(* The steps of call p. *)

BeginNetwork(p) ==
  /\ calls[p].pc = "begin" /\ input.algorithm # "bubble_sort" /\ ~Splits(p)
  /\ Update(p, [calls[p] EXCEPT !.pc = "network"])
  /\ UNCHANGED <<input, memory>>

(* A turn of the loop of fast_sort, or its end. *)
FastSort(p) ==
  LET c == calls[p]  swaps == Network!Swaps(c.size)
  IN  /\ c.pc = "network"
      /\ \/ /\ c.i < Len(swaps)
            /\ SortSwap(Work(p), c.left + swaps[c.i + 1][1], c.left + swaps[c.i + 1][2])
            /\ Update(p, [c EXCEPT !.i = @ + 1])
         \/ /\ c.i = Len(swaps)
            /\ Update(p, [c EXCEPT !.pc = "done", !.i = 0])
            /\ UNCHANGED memory
      /\ UNCHANGED input

(* quick_sort: pivotIdx exchanges the items at the left end and in the middle,
   if they are out of order, and takes the left end then, otherwise the middle;
   its fast_sort is of two of the three candidates, whose values are references.
   partition moves the pivot to the end. *)
PivotIdx(p) ==
  LET c == calls[p]  last == c.left + c.size - 1  mid == c.left + (c.size - 1) \div 2
      array == memory.main
  IN  /\ c.pc = "begin" /\ input.algorithm = "quick_sort" /\ Splits(p)
      /\ memory' =
           IF key[array[c.left]] > key[array[mid]]
           THEN [memory EXCEPT !.main = [array EXCEPT ![last] = array[mid], ![c.left] = array[last],
                                                      ![mid] = array[c.left]]]
           ELSE [memory EXCEPT !.main = [array EXCEPT ![last] = array[mid], ![mid] = array[last]]]
      /\ Update(p, [c EXCEPT !.pc = "partition"])
      /\ UNCHANGED input

(* A turn of the loop of partition. *)
PartitionTurn(p) ==
  LET c == calls[p]  last == c.left + c.size - 1
  IN  /\ c.pc = "partition" /\ c.i < c.size
      /\ IF key[memory.main[c.left + c.i]] < key[memory.main[last]]
         THEN /\ Exchange("main", c.left + c.i, c.left + c.j)
              /\ Update(p, [c EXCEPT !.i = @ + 1, !.j = @ + 1])
         ELSE /\ Update(p, [c EXCEPT !.i = @ + 1])
              /\ UNCHANGED memory
      /\ UNCHANGED input

Fork(p) == \E n \in 1 .. CoresToUse(p) :
  Update(p, [calls[p] EXCEPT !.pc = "forked", !.i = 0, !.team = n, !.todo = Sections(p)])

(* Mutant: the pivot stays at the end. *)
PartitionKeepingPivot(p) ==
  /\ calls[p].pc = "partition" /\ calls[p].i = calls[p].size
  /\ Fork(p)
  /\ UNCHANGED <<input, memory>>

(* The end of partition, which moves the pivot to its place, and the begin of
   the sections.  The runtime may give fewer threads than were asked for. *)
PartitionEnds(p) ==
  LET c == calls[p]
  IN  /\ c.pc = "partition" /\ c.i = c.size
      /\ Exchange("main", c.left + c.j, c.left + c.size - 1)
      /\ Fork(p)
      /\ UNCHANGED input

(* merge_sort_internal up to the sections. *)
Divide(p) ==
  /\ calls[p].pc = "begin" /\ Merging /\ Splits(p)
  /\ Fork(p)
  /\ UNCHANGED <<input, memory>>

-----------------------------------------------------------------------------
Children(p) == {c \in DOMAIN calls : \E s \in {1, 2} : c = Append(p, s)}
Returned(p) == calls[p].pc = "done"

(* A thread of the team begins a section. *)
BeginSection(p, s) ==
  /\ calls[p].pc = "forked" /\ s \in calls[p].todo
  /\ Cardinality({c \in Children(p) : ~Returned(c)}) < calls[p].team
  /\ calls' = [c \in DOMAIN calls \cup {Append(p, s)} |->
                 IF c = p THEN [calls[p] EXCEPT !.todo = @ \ {s}]
                 ELSE IF c = Append(p, s) THEN Section(p, s) ELSE calls[c]]
  /\ UNCHANGED <<input, memory>>

(* Mutant: the first thread does not wait for the other. *)
JoinNowait(p) ==
  /\ calls[p].pc = "forked" /\ calls[p].todo = {}
  /\ calls' = [calls EXCEPT ![p].pc = IF Merging THEN "merge" ELSE "done"]
  /\ UNCHANGED <<input, memory>>

(* Mutant: both sections are waited for, also if there was only one call. *)
JoinBoth(p) ==
  /\ calls[p].pc = "forked" /\ calls[p].todo = {}
  /\ \A s \in {1, 2} : Append(p, s) \in DOMAIN calls /\ Returned(Append(p, s))
  /\ calls' = [c \in DOMAIN calls \ Children(p) |->
                 IF c # p THEN calls[c]
                 ELSE [calls[p] EXCEPT !.pc = IF Merging THEN "merge" ELSE "done", !.j = 0, !.team = 0]]
  /\ UNCHANGED <<input, memory>>

(* The end of the sections: all threads of the team wait for each other. *)
Join(p) ==
  /\ calls[p].pc = "forked" /\ calls[p].todo = {}
  /\ \A c \in Children(p) : Returned(c)
  /\ calls' = [c \in DOMAIN calls \ Children(p) |->
                 IF c # p THEN calls[c]
                 ELSE [calls[p] EXCEPT !.pc = IF Merging THEN "merge" ELSE "done", !.j = 0, !.team = 0]]
  /\ UNCHANGED <<input, memory>>

(* Mutant: array_1 may be at its end. *)
UseArray1Unchecked(p, array_1, array_2) ==
  LET c == calls[p]
  IN  \/ c.j = c.size - Middle(p)
      \/ key[memory[Work(Append(p, 1))][array_1 + c.i]] <= key[memory[Work(Append(p, 1))][array_2 + c.j]]

(* Whether merging call p goes on with array_1. *)
UseArray1(p, array_1, array_2) ==
  LET c == calls[p]
  IN  \/ c.j = c.size - Middle(p)
      \/ c.i < Middle(p) /\ key[memory[Work(Append(p, 1))][array_1 + c.i]]
                              <= key[memory[Work(Append(p, 1))][array_2 + c.j]]

(* A turn of the loop that merges, or its end. *)
Merge(p) ==
  LET c == calls[p]
      from == memory[Work(Append(p, 1))]
      array_1 == c.left
      array_2 == c.left + Middle(p)
      insert == c.left + c.i + c.j
  IN  /\ c.pc = "merge"
      /\ \/ /\ c.i + c.j < c.size
            /\ IF UseArray1(p, array_1, array_2)
               THEN /\ memory' = [memory EXCEPT ![Work(p)][insert] = from[array_1 + c.i]]
                    /\ Update(p, [c EXCEPT !.i = @ + 1])
               ELSE /\ memory' = [memory EXCEPT ![Work(p)][insert] = from[array_2 + c.j]]
                    /\ Update(p, [c EXCEPT !.j = @ + 1])
         \/ /\ c.i + c.j = c.size
            /\ Update(p, [c EXCEPT !.pc = "done", !.i = 0, !.j = 0])
            /\ UNCHANGED memory
      /\ UNCHANGED input

-----------------------------------------------------------------------------
BeginBubbleSort(p) ==
  /\ calls[p].pc = "begin" /\ input.algorithm = "bubble_sort"
  /\ Update(p, [calls[p] EXCEPT !.pc = "bubble", !.k = calls[p].size - 1])
  /\ UNCHANGED <<input, memory>>

(* A turn of the inner loop: i is j, j is tmpTouchedIndex, k is touchedIndex. *)
BubbleTurn(p) ==
  LET c == calls[p]
      swaps == key[memory.main[c.left + c.i]] > key[memory.main[c.left + c.i + 1]]
  IN  /\ c.pc = "bubble" /\ c.i < c.k
      /\ SortSwap("main", c.left + c.i, c.left + c.i + 1)
      /\ Update(p, [c EXCEPT !.i = @ + 1, !.j = IF swaps THEN c.i ELSE @])
      /\ UNCHANGED input

(* Mutant: what is behind the last exchange but one counts as sorted. *)
BubbleRoundShort(p) ==
  LET c == calls[p]
  IN  /\ c.pc = "bubble" /\ c.i = c.k
      /\ Update(p, IF c.j <= 1 THEN [c EXCEPT !.pc = "done", !.i = 0, !.j = 0, !.k = 0]
                   ELSE [c EXCEPT !.i = 0, !.j = 0, !.k = c.j])
      /\ UNCHANGED <<input, memory>>

(* The end of the inner loop: the rest of the array is sorted from the last
   exchange on. *)
BubbleRound(p) ==
  LET c == calls[p]
  IN  /\ c.pc = "bubble" /\ c.i = c.k
      /\ Update(p, IF c.j = 0 THEN [c EXCEPT !.pc = "done", !.i = 0, !.k = 0]
                   ELSE [c EXCEPT !.i = 0, !.j = 0, !.k = c.j])
      /\ UNCHANGED <<input, memory>>

-----------------------------------------------------------------------------
Step(p) ==
  \/ BeginNetwork(p) \/ FastSort(p)
  \/ PivotIdx(p) \/ PartitionTurn(p) \/ PartitionEnds(p)
  \/ Divide(p) \/ \E s \in {1, 2} : BeginSection(p, s)
  \/ Join(p) \/ Merge(p)
  \/ BeginBubbleSort(p) \/ BubbleTurn(p) \/ BubbleRound(p)

Next == \E p \in DOMAIN calls : Step(p)

Spec == Init /\ [][Next]_vars

(* Some thread goes on as long as one can. *)
FairSpec == Spec /\ WF_vars(Next)

-----------------------------------------------------------------------------
(* Every variable stays in the set it is meant for: main never has what was in
   the uninitialised buffer, and the asserts of the code hold: fast_sort is called
   for what there is a network for, and merge_sort_internal for ranges that are
   not empty (psort_private.hpp:29 and 178); the one type invariant of this module. *)
TypeOK ==
  /\ input \in Inputs
  /\ memory \in [main : [Elements -> Elements], tmp : [Elements -> Elements \cup {None}]]
  /\ \A p \in DOMAIN calls :
       calls[p] \in [left : Elements, size : 1 .. Cardinality(Elements), cpus : 1 .. input.cpus,
                     pc : {"begin", "network", "partition", "forked", "merge", "bubble", "done"},
                     i : Nat, j : Nat, k : Nat, team : 0 .. 2, todo : SUBSET {1, 2}]
  /\ \A p \in DOMAIN calls : calls[p].pc = "network" => calls[p].size <= MaxItems

Running(p) == calls[p].pc \notin {"forked", "done"}

Addresses(p) == calls[p].left .. calls[p].left + calls[p].size - 1

(* The places in memory that p reads or writes in its loops. *)
Footprint(p) ==
  (IF calls[p].pc = "merge" THEN {"main", "tmp"} ELSE {Work(p)}) \X Addresses(p)

(* Calls that run at the same time touch different memory, although halves
   share two buffers whose roles alternate with the level, and the pivot lies
   between the parts (psort_private.hpp:132 and 201): there is no data race, and
   the loops may be taken as if they ran alone. *)
RaceFree ==
  \A p, q \in DOMAIN calls :
    Running(p) /\ Running(q) /\ p # q => Footprint(p) \cap Footprint(q) = {}

(* No more threads work at one time than there are processors, however the
   processors are divided among nested sections (psort_private.hpp:119 to 129,
   198 and 199). *)
WithinCpus == Cardinality({p \in DOMAIN calls : Running(p)}) <= input.cpus

(* The elements call p has: while it merges, those merged and those that are left. *)
Content(p) ==
  LET c == calls[p]
      from == memory[Work(Append(p, 1))]
  IN  IF c.pc = "merge"
      THEN {memory[Work(p)][a] : a \in c.left .. c.left + c.i + c.j - 1}
             \cup {from[c.left + n] : n \in c.i .. Middle(p) - 1}
             \cup {from[c.left + n] : n \in Middle(p) + c.j .. c.size - 1}
      ELSE {memory[Work(p)][a] : a \in Addresses(p)}

(* No element is lost or taken from another part: a call of merge sort always has
   what was in its range in the beginning, and the other algorithms permute the
   array (psort_private.hpp:211 to 234). *)
NothingLost ==
  \A p \in DOMAIN calls :
    IF Merging
    THEN calls[p].pc \in {"merge", "network", "done"} => Content(p) = Addresses(p)
    ELSE Content(<<>>) = Elements

(* While quick sort works on a range, everything to the left of it is at most,
   and everything to the right at least what is in it, whatever the other
   threads do: parts that are sorted are sorted as a whole (psort_private.hpp:60 to 79). *)
RangesOrdered ==
  input.algorithm = "quick_sort" =>
    \A p \in DOMAIN calls : \A a \in Addresses(p), b \in Elements \ Addresses(p) :
      IF b < calls[p].left THEN key[memory.main[b]] <= key[memory.main[a]]
      ELSE key[memory.main[a]] <= key[memory.main[b]]

(* What a call returns is sorted, in the buffer where its caller looks for it
   (psort_private.hpp:46 and 211). *)
SortedWhenDone ==
  \A p \in DOMAIN calls : Returned(p) =>
    \A a, b \in Addresses(p) :
      a < b => key[memory[Work(p)][a]] <= key[memory[Work(p)][b]]

(* Whatever the team, every sort comes to an end. *)
Terminates == <>(Returned(<<>>))

=============================================================================
