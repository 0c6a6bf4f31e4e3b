------------------------ MODULE SortingContentProofs -------------------------
(***************************************************************************)
(* More theorems about Sorting: what the calls do to the contents of the   *)
(* memory, for any arrays, processors and teams.                           *)
(*                                                                         *)
(* While a call runs, nobody else writes in its range, and what a call     *)
(* does to main is to move the elements of its range, unless it merges.    *)
(***************************************************************************)
EXTENDS SortingProofs

(* Section s of call p, by its addresses. *)
Part(p, s) == First(p, s) .. Behind(p, s) - 1

(* What the array f has at the addresses in S. *)
Image(f, S) == {f[a] : a \in S}

MemoryTypes == memory \in [main : [Elements -> Elements], tmp : [Elements -> Elements \cup {None}]]

(* Only halves on even levels are short enough for a network, and the item that the
   pivot is compared with last is the pivot. *)
Places ==
  /\ calls[<<>>].left = 0 /\ calls[<<>>].size = Items
  /\ \A p \in DOMAIN calls :
       /\ calls[p].pc = "network" => Work(p) = "main"
       /\ calls[p].pc = "partition" => calls[p].j < calls[p].size
       /\ calls[p].pc = "forked" /\ ~Merging => calls[p].j < calls[p].size

(* A call of merge sort begins with what the client left there; what it has when
   it is done is what it had. *)
Holds(p) ==
  /\ calls[p].pc = "begin" => \A a \in Addresses(p) : memory.main[a] = a
  /\ calls[p].pc = "forked" =>
       \A s \in {1, 2} :
         IF s \in calls[p].todo THEN \A a \in Part(p, s) : memory.main[a] = a
         ELSE Append(p, s) \in DOMAIN calls /\ Addresses(Append(p, s)) = Part(p, s)
  /\ calls[p].pc \in {"network", "merge", "done"} => Content(p) = Addresses(p)

(* The inductive invariant of NothingLost. *)
CInv ==
  /\ MemoryTypes /\ Places
  /\ IF Merging THEN \A p \in DOMAIN calls : Holds(p) ELSE Image(memory.main, Elements) = Elements

-----------------------------------------------------------------------------
LEMMA RangeFits ==
  ASSUME IInv, NEW p \in DOMAIN calls
  PROVE  /\ calls[p] \in CallType /\ calls[p].left \in Nat /\ calls[p].size \in Nat \ {0}
         /\ calls[p].i \in Nat /\ calls[p].j \in Nat /\ calls[p].k \in Nat
         /\ calls[p].left + calls[p].size <= Items /\ Items \in Nat \ {0}
         /\ Addresses(p) \subseteq Elements
<1>1. calls[p] \in CallType /\ calls[p].left + calls[p].size <= Items
  BY DEF IInv, Types, Bounds
<1>2. /\ calls[p].left \in Nat /\ calls[p].size \in Nat \ {0}
      /\ calls[p].i \in Nat /\ calls[p].j \in Nat /\ calls[p].k \in Nat
  BY <1>1 DEF CallType
<1>3. Items \in Nat \ {0} /\ Elements = 0 .. Items - 1
  BY InputFacts DEF IInv, Types
<1>4. Addresses(p) \subseteq Elements
  BY <1>1, <1>2, <1>3 DEF Addresses
<1> QED
  BY <1>1, <1>2, <1>3, <1>4

(* What p does to main: it moves the elements of its range. *)
Moves(p) ==
  \E f \in [Elements -> Elements] :
    /\ \A a \in Elements \ Addresses(p) : f[a] = a
    /\ \A a \in Addresses(p) : f[a] \in Addresses(p)
    /\ \A a \in Addresses(p) : \E b \in Addresses(p) : f[b] = a
    /\ memory' = [main |-> [a \in Elements |-> memory.main[f[a]]], tmp |-> memory.tmp]

LEMMA MemoryFields ==
  ASSUME MemoryTypes
  PROVE  /\ memory.main \in [Elements -> Elements]
         /\ memory.tmp \in [Elements -> Elements \cup {None}]
         /\ memory = [main |-> memory.main, tmp |-> memory.tmp]
         /\ DOMAIN memory = {"main", "tmp"}
BY DEF MemoryTypes

LEMMA ExchangeIsSwap ==
  ASSUME MemoryTypes, NEW a \in Elements, NEW b \in Elements, Exchange("main", a, b)
  PROVE  memory' = [main |-> [memory.main EXCEPT ![a] = memory.main[b], ![b] = memory.main[a]],
                    tmp |-> memory.tmp]
BY MemoryFields DEF Exchange

LEMMA ExchangeMoves ==
  ASSUME MemoryTypes, NEW p, Addresses(p) \subseteq Elements,
         NEW a \in Addresses(p), NEW b \in Addresses(p), Exchange("main", a, b)
  PROVE  Moves(p)
<1> DEFINE f == [x \in Elements |-> IF x = a THEN b ELSE IF x = b THEN a ELSE x]
<1>1. /\ f \in [Elements -> Elements]
      /\ \A x \in Elements \ Addresses(p) : f[x] = x
      /\ \A x \in Addresses(p) : f[x] \in Addresses(p) /\ f[f[x]] = x
  OBVIOUS
<1>2. memory.main \in [Elements -> Elements]
  BY MemoryFields
<1>3. [memory.main EXCEPT ![a] = memory.main[b], ![b] = memory.main[a]]
        = [x \in Elements |-> memory.main[f[x]]]
  BY <1>2
<1>4. memory' = [main |-> [x \in Elements |-> memory.main[f[x]]], tmp |-> memory.tmp]
  BY <1>3, ExchangeIsSwap
<1> HIDE DEF f
<1> QED
  BY <1>1, <1>4 DEF Moves

LEMMA StayingMoves ==
  ASSUME MemoryTypes, NEW p, Addresses(p) \subseteq Elements, memory' = memory
  PROVE  Moves(p)
<1> DEFINE f == [x \in Elements |-> x]
<1>1. /\ f \in [Elements -> Elements]
      /\ \A x \in Elements : f[x] = x
  OBVIOUS
<1>2. memory.main = [x \in Elements |-> memory.main[f[x]]]
  BY MemoryFields
<1>3. memory' = [main |-> [x \in Elements |-> memory.main[f[x]]], tmp |-> memory.tmp]
  BY <1>2, MemoryFields
<1> HIDE DEF f
<1> QED
  BY <1>1, <1>3 DEF Moves

LEMMA SwapMoves ==
  ASSUME MemoryTypes, NEW p, Addresses(p) \subseteq Elements,
         NEW a \in Addresses(p), NEW b \in Addresses(p), SortSwap("main", a, b)
  PROVE  Moves(p)
<1>1. CASE Exchange("main", a, b)
  BY <1>1, ExchangeMoves
<1>2. CASE memory' = memory
  BY <1>2, StayingMoves
<1> QED
  BY <1>1, <1>2 DEF SortSwap

LEMMA FastSortMoves ==
  ASSUME IInv, CInv, NEW p \in DOMAIN calls, FastSort(p)
  PROVE  Moves(p)
<1> DEFINE c == calls[p]  swaps == Network!Swaps(c.size)
<1>1. /\ c.left \in Nat /\ c.size \in Nat \ {0} /\ c.i \in Nat
      /\ Addresses(p) \subseteq Elements
  BY RangeFits
<1>2. MemoryTypes /\ c.pc = "network" /\ Work(p) = "main" /\ c.size <= MaxItems
  BY DEF FastSort, CInv, Places, IInv, Bounds
<1>3. swaps \in Seq((0 .. c.size - 1) \X (0 .. c.size - 1))
  <2>1. c.size \in Nat
    BY <1>1
  <2> QED
    BY <2>1, NetworksAlwaysFit DEF NetworksFit
<1>4. CASE memory' = memory
  BY <1>1, <1>2, <1>4, StayingMoves
<1>5. CASE /\ c.i < Len(swaps)
           /\ SortSwap("main", c.left + swaps[c.i + 1][1], c.left + swaps[c.i + 1][2])
  <2>1. c.i + 1 \in 1 .. Len(swaps)
    <3>1. PICK n \in Nat : n = Len(swaps)
      BY <1>3, LenProperties
    <3>2. c.i \in Nat /\ c.i < n
      BY <1>1, <1>5, <3>1
    <3> QED
      BY <3>1, <3>2
  <2>2. swaps[c.i + 1] \in (0 .. c.size - 1) \X (0 .. c.size - 1)
    BY <1>3, <2>1, ElementOfSeq
  <2>3. PICK a \in 0 .. c.size - 1, b \in 0 .. c.size - 1 :
          a = swaps[c.i + 1][1] /\ b = swaps[c.i + 1][2]
    BY <2>2
  <2>4. c.left + a \in Addresses(p) /\ c.left + b \in Addresses(p)
    <3>1. Addresses(p) = c.left .. c.left + c.size - 1
      BY DEF Addresses
    <3>2. c.left \in Nat /\ c.size \in Nat
      BY <1>1
    <3> HIDE DEF c
    <3> QED
      BY <3>1, <3>2
  <2>5. SortSwap("main", c.left + a, c.left + b)
    BY <1>5, <2>3
  <2> HIDE DEF c, swaps
  <2> QED
    BY <1>1, <1>2, <2>4, <2>5, SwapMoves
<1> QED
  BY <1>2, <1>4, <1>5 DEF FastSort

LEMMA PivotMoves ==
  ASSUME IInv, CInv, NEW p \in DOMAIN calls, PivotIdx(p)
  PROVE  Moves(p)
<1> DEFINE c == calls[p]
           last == c.left + c.size - 1
           mid == c.left + (c.size - 1) \div 2
           array == memory.main
<1>1. /\ c.left \in Nat /\ c.size \in Nat \ {0} /\ MaxItems \in Nat /\ MaxItems >= 3
      /\ Addresses(p) \subseteq Elements
  BY RangeFits, SortingAssumption
<1>2. MemoryTypes /\ ~Merging
  BY DEF CInv, PivotIdx, Merging
<1>3. c.size > MaxItems
  BY <1>2 DEF PivotIdx, Splits
<1>4. c.left < mid /\ mid < last /\ mid \in Int /\ last \in Int
  BY <1>1, <1>3
<1>5. c.left \in Addresses(p) /\ mid \in Addresses(p) /\ last \in Addresses(p)
  BY <1>1, <1>4 DEF Addresses
<1>6. PICK l, m, e : l = c.left /\ m = mid /\ e = last
  OBVIOUS
<1>7. /\ l \in Addresses(p) /\ m \in Addresses(p) /\ e \in Addresses(p)
      /\ l # m /\ m # e /\ l # e
      /\ l \in Elements /\ m \in Elements /\ e \in Elements
  BY <1>1, <1>4, <1>5, <1>6
<1>8. array \in [Elements -> Elements] /\ memory = [main |-> array, tmp |-> memory.tmp]
  BY <1>2, MemoryFields
<1>9. CASE memory' = [memory EXCEPT !.main = [array EXCEPT ![e] = array[m], ![l] = array[e],
                                                          ![m] = array[l]]]
  <2> DEFINE f == [x \in Elements |-> IF x = e THEN m ELSE IF x = l THEN e
                                      ELSE IF x = m THEN l ELSE x]
  <2>1. /\ f \in [Elements -> Elements]
        /\ \A x \in Elements \ Addresses(p) : f[x] = x
        /\ \A x \in Addresses(p) : f[x] \in Addresses(p)
        /\ \A x \in Addresses(p) : f[f[f[x]]] = x /\ f[f[x]] \in Addresses(p)
    BY <1>1, <1>7
  <2>2. [array EXCEPT ![e] = array[m], ![l] = array[e], ![m] = array[l]]
          = [x \in Elements |-> array[f[x]]]
    BY <1>7, <1>8
  <2>3. memory' = [main |-> [x \in Elements |-> array[f[x]]], tmp |-> memory.tmp]
    BY <1>8, <1>9, <2>2
  <2> HIDE DEF f
  <2> QED
    BY <2>1, <2>3 DEF Moves
<1>10. CASE memory' = [memory EXCEPT !.main = [array EXCEPT ![e] = array[m], ![m] = array[e]]]
  <2>1. memory' = [main |-> [array EXCEPT ![e] = array[m], ![m] = array[e]], tmp |-> memory.tmp]
    BY <1>8, <1>10
  <2> DEFINE f == [x \in Elements |-> IF x = e THEN m ELSE IF x = m THEN e ELSE x]
  <2>2. /\ f \in [Elements -> Elements]
        /\ \A x \in Elements \ Addresses(p) : f[x] = x
        /\ \A x \in Addresses(p) : f[x] \in Addresses(p) /\ f[f[x]] = x
    BY <1>1, <1>7
  <2>3. [array EXCEPT ![e] = array[m], ![m] = array[e]] = [x \in Elements |-> array[f[x]]]
    BY <1>7, <1>8
  <2>4. memory' = [main |-> [x \in Elements |-> array[f[x]]], tmp |-> memory.tmp]
    BY <2>1, <2>3
  <2> HIDE DEF f
  <2> QED
    BY <2>2, <2>4 DEF Moves
<1> QED
  BY <1>6, <1>9, <1>10 DEF PivotIdx

LEMMA PartitionTurnMoves ==
  ASSUME IInv, CInv, NEW p \in DOMAIN calls, PartitionTurn(p)
  PROVE  Moves(p)
<1> DEFINE c == calls[p]
<1>1. /\ c.left \in Nat /\ c.size \in Nat \ {0} /\ c.i \in Nat /\ c.j \in Nat
      /\ Addresses(p) \subseteq Elements
  BY RangeFits
<1>2. MemoryTypes /\ c.j < c.size /\ c.i < c.size
  BY DEF CInv, Places, PartitionTurn
<1>3. c.left + c.i \in Addresses(p) /\ c.left + c.j \in Addresses(p)
  <2>1. Addresses(p) = c.left .. c.left + c.size - 1
    BY DEF Addresses
  <2> HIDE DEF c
  <2> QED
    BY <1>1, <1>2, <2>1
<1>4. CASE Exchange("main", c.left + c.i, c.left + c.j)
  <2> HIDE DEF c
  <2> QED
    BY <1>1, <1>2, <1>3, <1>4, ExchangeMoves
<1>5. CASE memory' = memory
  BY <1>1, <1>2, <1>5, StayingMoves
<1> QED
  BY <1>4, <1>5 DEF PartitionTurn

LEMMA PartitionEndsMoves ==
  ASSUME IInv, CInv, NEW p \in DOMAIN calls, PartitionEnds(p)
  PROVE  Moves(p)
<1> DEFINE c == calls[p]
<1>1. /\ c.left \in Nat /\ c.size \in Nat \ {0} /\ c.j \in Nat
      /\ Addresses(p) \subseteq Elements
  BY RangeFits
<1>2. MemoryTypes /\ c.j < c.size
  BY DEF CInv, Places, PartitionEnds
<1>3. c.left + c.size - 1 \in Addresses(p) /\ c.left + c.j \in Addresses(p)
  <2>1. Addresses(p) = c.left .. c.left + c.size - 1
    BY DEF Addresses
  <2> HIDE DEF c
  <2> QED
    BY <1>1, <1>2, <2>1
<1>4. Exchange("main", c.left + c.j, c.left + c.size - 1)
  BY DEF PartitionEnds
<1> HIDE DEF c
<1> QED
  BY <1>1, <1>2, <1>3, <1>4, ExchangeMoves

LEMMA BubbleTurnMoves ==
  ASSUME IInv, CInv, NEW p \in DOMAIN calls, BubbleTurn(p)
  PROVE  Moves(p)
<1> DEFINE c == calls[p]
<1>1. /\ c.left \in Nat /\ c.size \in Nat \ {0} /\ c.i \in Nat /\ c.k \in Nat
      /\ Addresses(p) \subseteq Elements
  BY RangeFits
<1>2. MemoryTypes /\ c.i < c.k /\ c.k < c.size
  BY DEF CInv, BubbleTurn, IInv, Bounds
<1>3. c.left + c.i \in Addresses(p) /\ c.left + c.i + 1 \in Addresses(p)
  <2>1. Addresses(p) = c.left .. c.left + c.size - 1
    BY DEF Addresses
  <2> HIDE DEF c
  <2> QED
    BY <1>1, <1>2, <2>1
<1>4. SortSwap("main", c.left + c.i, c.left + c.i + 1)
  BY DEF BubbleTurn
<1> HIDE DEF c
<1> QED
  BY <1>1, <1>2, <1>3, <1>4, SwapMoves

(* Who moves elements of its range loses none, also for a greater range. *)
LEMMA MovesKeep ==
  ASSUME MemoryTypes, NEW p, Moves(p), NEW S \in SUBSET Elements, Addresses(p) \subseteq S
  PROVE  Image(memory'.main, S) = Image(memory.main, S)
<1>1. PICK f \in [Elements -> Elements] :
        /\ \A a \in Elements \ Addresses(p) : f[a] = a
        /\ \A a \in Addresses(p) : f[a] \in Addresses(p)
        /\ \A a \in Addresses(p) : \E b \in Addresses(p) : f[b] = a
        /\ memory' = [main |-> [a \in Elements |-> memory.main[f[a]]], tmp |-> memory.tmp]
  BY DEF Moves
<1>2. \A a \in S : f[a] \in S /\ \E b \in S : f[b] = a
  BY <1>1
<1>3. \A a \in S : memory'.main[a] = memory.main[f[a]]
  BY <1>1
<1>4. ASSUME NEW x \in Image(memory'.main, S) PROVE x \in Image(memory.main, S)
  BY <1>2, <1>3 DEF Image
<1>5. ASSUME NEW x \in Image(memory.main, S) PROVE x \in Image(memory'.main, S)
  <2>1. PICK a \in S : x = memory.main[a]
    BY DEF Image
  <2>2. PICK b \in S : f[b] = a
    BY <1>2
  <2> QED
    BY <1>3, <2>1, <2>2 DEF Image
<1> QED
  BY <1>4, <1>5

LEMMA MovesTypes ==
  ASSUME MemoryTypes, NEW p, Moves(p), input' = input
  PROVE  /\ MemoryTypes'
         /\ \A a \in Elements \ Addresses(p) : memory'.main[a] = memory.main[a]
         /\ memory'.tmp = memory.tmp
<1>1. PICK f \in [Elements -> Elements] :
        /\ \A a \in Elements \ Addresses(p) : f[a] = a
        /\ memory' = [main |-> [a \in Elements |-> memory.main[f[a]]], tmp |-> memory.tmp]
  BY DEF Moves
<1>2. Elements' = Elements /\ memory.main \in [Elements -> Elements]
      /\ memory.tmp \in [Elements -> Elements \cup {None}]
  BY MemoryFields DEF Elements, key
<1>3. [a \in Elements |-> memory.main[f[a]]] \in [Elements -> Elements]
  BY <1>2
<1>4. MemoryTypes'
  BY <1>1, <1>2, <1>3 DEF MemoryTypes
<1>5. \A a \in Elements \ Addresses(p) : memory'.main[a] = memory.main[a]
  BY <1>1
<1> QED
  BY <1>1, <1>4, <1>5

-----------------------------------------------------------------------------
(* Merge sort. *)
LEMMA Buffers ==
  ASSUME NEW p \in Seq({1, 2}), Merging
  PROVE  /\ {Work(p), Work(Append(p, 1)), Work(Append(p, 2))} = {"main", "tmp"}
         /\ Work(Append(p, 1)) = Work(Append(p, 2))
         /\ Work(p) # Work(Append(p, 1))
<1>1. Len(p) \in Nat /\ Len(Append(p, 1)) = Len(p) + 1 /\ Len(Append(p, 2)) = Len(p) + 1
  BY AppendIsCall, LenProperties
<1>2. PICK n \in Nat : n = Len(p)
  BY <1>1
<1>3. CASE n % 2 = 1
  <2>1. (n + 1) % 2 # 1
    BY <1>3
  <2> QED
    BY <1>1, <1>2, <1>3, <2>1 DEF Work
<1>4. CASE n % 2 # 1
  <2>1. (n + 1) % 2 = 1
    BY <1>4
  <2> QED
    BY <1>1, <1>2, <1>4, <2>1 DEF Work
<1> QED
  BY <1>3, <1>4

LEMMA SameWork ==
  ASSUME input' = input, NEW p
  PROVE  Work(p)' = Work(p) /\ Merging' = Merging
BY DEF Work, Merging

(* What the loop that merges p looks at is in the range of p. *)
LEMMA MergeRange ==
  ASSUME IInv, NEW p \in DOMAIN calls, calls[p].pc = "merge"
  PROVE  LET c == calls[p]
         IN  /\ Middle(p) \in Nat /\ Middle(p) <= c.size
             /\ c.i <= Middle(p) /\ c.j <= c.size - Middle(p)
             /\ c.left .. c.left + c.i + c.j - 1 \subseteq Addresses(p)
             /\ \A n \in c.i .. Middle(p) - 1 : c.left + n \in Addresses(p)
             /\ \A n \in Middle(p) + c.j .. c.size - 1 : c.left + n \in Addresses(p)
<1>1. PICK c : c = calls[p]
  OBVIOUS
<1>2. PICK m : m = Middle(p)
  OBVIOUS
<1>3. /\ c \in CallType /\ c.left \in Nat /\ c.size \in Nat \ {0} /\ c.i \in Nat /\ c.j \in Nat
      /\ Addresses(p) = c.left .. c.left + c.size - 1
  BY <1>1, RangeFits DEF Addresses
<1>4. Merging /\ c.i <= m /\ c.j <= c.size - m
  BY <1>1, <1>2 DEF IInv, Bounds
<1>5. m = c.size \div 2
  BY <1>1, <1>2, <1>4 DEF Middle
<1>6. m \in Nat /\ m <= c.size
  BY <1>3, <1>5
<1>7. c.i + c.j <= c.size
  BY <1>3, <1>4, <1>6
<1>8. c.left .. c.left + c.i + c.j - 1 \subseteq Addresses(p)
  BY <1>3, <1>7
<1>9. \A n \in c.i .. m - 1 : c.left + n \in Addresses(p)
  BY <1>3, <1>6
<1>10. \A n \in m + c.j .. c.size - 1 : c.left + n \in Addresses(p)
  BY <1>3, <1>6
<1> QED
  BY <1>1, <1>2, <1>4, <1>6, <1>8, <1>9, <1>10, Zenon

LEMMA ContentSame ==
  ASSUME IInv, Merging, NEW q \in DOMAIN calls, input' = input, calls'[q] = calls[q],
         \A a \in Addresses(q) : /\ memory'.main[a] = memory.main[a]
                                 /\ memory'.tmp[a] = memory.tmp[a]
  PROVE  Content(q)' = Content(q)
<1>1. q \in Seq({1, 2})
  BY DEF IInv, Types
<1>2. /\ Work(q)' = Work(q) /\ Work(Append(q, 1))' = Work(Append(q, 1))
      /\ Middle(q)' = Middle(q) /\ Addresses(q)' = Addresses(q)
  BY SameWork, SameRange DEF Addresses
<1>3. \A a \in Addresses(q) :
        /\ memory'[Work(q)][a] = memory[Work(q)][a]
        /\ memory'[Work(Append(q, 1))][a] = memory[Work(Append(q, 1))][a]
  BY <1>1, Buffers
<1>4. CASE calls[q].pc = "merge"
  BY <1>2, <1>3, <1>4, MergeRange DEF Content
<1>5. CASE calls[q].pc # "merge"
  BY <1>2, <1>3, <1>5 DEF Content
<1> QED
  BY <1>4, <1>5

(* Nobody works in a section that did not begin. *)
LEMMA PartsUntouched ==
  ASSUME IInv, NEW p \in DOMAIN calls, NEW q \in DOMAIN calls, p # q,
         calls[p].pc # "forked", calls[q].pc = "forked", NEW s \in calls[q].todo
  PROVE  Part(q, s) \subseteq Elements \ Addresses(p)
<1>1. /\ p \in Seq({1, 2}) /\ q \in Seq({1, 2}) /\ calls[p] \in CallType /\ calls[q] \in CallType
      /\ Types /\ Tree
  BY DEF IInv, Types
<1>2. s \in {1, 2} /\ calls[q].j <= calls[q].size
  BY <1>1 DEF IInv, Bounds, CallType
<1>3. /\ \A u \in {1, 2} : First(q, u) \in Nat /\ Behind(q, u) \in Nat
      /\ \A u \in {1, 2} : calls[q].left <= First(q, u)
      /\ \A u \in {1, 2} : Behind(q, u) <= calls[q].left + calls[q].size
      /\ Behind(q, 1) <= First(q, 2)
  BY <1>1, <1>2, SectionsApart
<1>4. /\ calls[q].left \in Nat /\ calls[q].size \in Nat
      /\ calls[p].left \in Nat /\ calls[p].size \in Nat
      /\ Addresses(p) = calls[p].left .. calls[p].left + calls[p].size - 1
      /\ Addresses(q) = calls[q].left .. calls[q].left + calls[q].size - 1
      /\ Addresses(q) \subseteq Elements
  BY RangeFits DEF Addresses
<1>5. Part(q, s) \subseteq Addresses(q)
  BY <1>2, <1>3, <1>4 DEF Part
<1>6. CASE Apart(p, q)
  BY <1>4, <1>5, <1>6 DEF Apart
<1>7. CASE Below(p, q)
  <2>1. PICK u \in {1, 2} : u \notin calls[q].todo /\ Within(p, q, u)
    BY <1>1, <1>7, CallerWaits DEF Below
  <2>2. u # s /\ First(q, u) <= calls[p].left /\ calls[p].left + calls[p].size <= Behind(q, u)
    BY <2>1 DEF Within
  <2>3. Part(q, s) \cap Addresses(p) = {}
    BY SMTT(30), <1>2, <1>3, <1>4, <2>1, <2>2 DEF Part
  <2> QED
    BY <1>4, <1>5, <2>3
<1>8. ~Below(q, p)
  BY <1>1, CallerWaits DEF Below
<1> QED
  BY <1>6, <1>7, <1>8 DEF IInv, Nested

(* What a running call does leaves the others what they hold. *)
LEMMA OthersHold ==
  ASSUME IInv, Merging, input' = input, NEW p \in DOMAIN calls, NEW q \in DOMAIN calls, p # q,
         calls[p].pc \notin {"forked", "done"}, Holds(q),
         NEW x \in CallType, Update(p, x), x.left = calls[p].left, x.size = calls[p].size,
         \A a \in Elements \ Addresses(p) : /\ memory'.main[a] = memory.main[a]
                                            /\ memory'.tmp[a] = memory.tmp[a]
  PROVE  Holds(q)'
<1>1. /\ DOMAIN calls' = DOMAIN calls /\ calls'[q] = calls[q]
      /\ \A r \in DOMAIN calls : calls'[r].left = calls[r].left /\ calls'[r].size = calls[r].size
  BY DEF Update, IInv, Types
<1>2. /\ \A r \in DOMAIN calls : Addresses(r)' = Addresses(r)
      /\ \A s : Part(q, s)' = Part(q, s)
      /\ Addresses(q) \subseteq Elements
  BY <1>1, SameRange, RangeFits DEF Addresses, Part
<1>3. CASE calls[q].pc = "forked"
  <2>1. ASSUME NEW s \in {1, 2}, s \in calls[q].todo
        PROVE  \A a \in Part(q, s) : memory'.main[a] = a
    BY <1>3, <2>1, PartsUntouched DEF Holds
  <2>2. ASSUME NEW s \in {1, 2}, s \notin calls[q].todo
        PROVE  /\ Append(q, s) \in DOMAIN calls'
               /\ Addresses(Append(q, s))' = Part(q, s)
    <3>1. Append(q, s) \in DOMAIN calls /\ Addresses(Append(q, s)) = Part(q, s)
      BY <1>3, <2>2 DEF Holds
    <3> QED
      BY <1>1, <1>2, <3>1
  <2> QED
    BY <1>1, <1>2, <1>3, <2>1, <2>2 DEF Holds
<1>4. CASE calls[q].pc # "forked"
  <2>1. Apart(p, q)
    BY <1>4, RunningApart
  <2>2. /\ calls[q].left \in Nat /\ calls[q].size \in Nat
        /\ calls[p].left \in Nat /\ calls[p].size \in Nat
    BY RangeFits
  <2>3. Addresses(q) \cap Addresses(p) = {}
    BY <2>1, <2>2 DEF Apart, Addresses
  <2>4. \A a \in Addresses(q) : memory'.main[a] = memory.main[a] /\ memory'.tmp[a] = memory.tmp[a]
    BY <1>2, <2>3
  <2>5. Content(q)' = Content(q)
    BY <1>1, <2>4, ContentSame
  <2> QED
    BY <1>1, <1>2, <1>4, <2>4, <2>5 DEF Holds
<1> QED
  BY <1>3, <1>4

LEMMA HoldsMoving ==
  ASSUME IInv, CInv, Merging, input' = input, NEW p \in DOMAIN calls,
         calls[p].pc = "network", NEW x \in CallType, Update(p, x), x.pc \in {"network", "done"},
         x.left = calls[p].left, x.size = calls[p].size, Moves(p)
  PROVE  Holds(p)'
<1>1. calls'[p] = x /\ Addresses(p)' = Addresses(p) /\ Work(p)' = Work(p)
  BY SameWork DEF Update, Addresses, IInv, Types
<1>2. /\ Work(p) = "main" /\ MemoryTypes /\ Content(p) = Addresses(p)
      /\ Addresses(p) \subseteq Elements
  BY RangeFits DEF CInv, Places, Holds
<1>3. Image(memory'.main, Addresses(p)) = Image(memory.main, Addresses(p))
  <2>1. PICK S \in SUBSET Elements : S = Addresses(p)
    BY <1>2
  <2> QED
    BY <1>2, <2>1, MovesKeep
<1>4. Content(p) = Image(memory.main, Addresses(p))
  BY <1>2 DEF Content, Image
<1>5. Content(p)' = Image(memory'.main, Addresses(p))
  BY <1>1, <1>2 DEF Content, Image
<1> QED
  BY <1>1, <1>2, <1>3, <1>4, <1>5 DEF Holds

(* What a call has that merges n items from position l on, when i of the first m and j
   of the others are in the buffer into and the rest is still where it came from. *)
Merged(into, from, l, i, j, m, n) ==
  {into[a] : a \in l .. l + i + j - 1}
    \cup {from[l + e] : e \in i .. m - 1}
    \cup {from[l + e] : e \in m + j .. n - 1}

LEMMA MergedBegins ==
  ASSUME NEW into, NEW from, NEW l \in Nat, NEW m \in Nat, NEW n \in Nat, m <= n
  PROVE  Merged(into, from, l, 0, 0, m, n)
           = Image(from, l .. l + m - 1) \cup Image(from, l + m .. l + n - 1)
<1>1. {into[a] : a \in l .. l + 0 + 0 - 1} = {}
  OBVIOUS
<1>2. {from[l + e] : e \in 0 .. m - 1} = Image(from, l .. l + m - 1)
  <2>1. ASSUME NEW e \in 0 .. m - 1 PROVE from[l + e] \in Image(from, l .. l + m - 1)
    <3>1. l + e \in l .. l + m - 1
      OBVIOUS
    <3> QED
      BY <3>1 DEF Image
  <2>2. ASSUME NEW a \in l .. l + m - 1 PROVE \E e \in 0 .. m - 1 : from[a] = from[l + e]
    <3>1. a - l \in 0 .. m - 1 /\ a = l + (a - l)
      OBVIOUS
    <3> QED
      BY <3>1
  <2> QED
    BY <2>1, <2>2 DEF Image
<1>3. {from[l + e] : e \in m + 0 .. n - 1} = Image(from, l + m .. l + n - 1)
  <2>1. ASSUME NEW e \in m + 0 .. n - 1 PROVE from[l + e] \in Image(from, l + m .. l + n - 1)
    <3>1. l + e \in l + m .. l + n - 1
      OBVIOUS
    <3> QED
      BY <3>1 DEF Image
  <2>2. ASSUME NEW a \in l + m .. l + n - 1 PROVE \E e \in m + 0 .. n - 1 : from[a] = from[l + e]
    <3>1. a - l \in m + 0 .. n - 1 /\ a = l + (a - l)
      OBVIOUS
    <3> QED
      BY <3>1
  <2> QED
    BY <2>1, <2>2 DEF Image
<1> QED
  BY <1>1, <1>2, <1>3 DEF Merged

(* into has become next, with one more item from the first half, or from the second. *)
TakesFirst(into, next, from, l, i, j, m, n, k) ==
  /\ l \in Nat /\ i \in Nat /\ j \in Nat /\ m \in Nat /\ n \in Nat
  /\ i < m /\ k = i + 1
  /\ \A a \in l .. l + i + j - 1 : next[a] = into[a]
  /\ next[l + i + j] = from[l + i]

TakesSecond(into, next, from, l, i, j, m, n, k) ==
  /\ l \in Nat /\ i \in Nat /\ j \in Nat /\ m \in Nat /\ n \in Nat
  /\ m + j < n /\ k = j + 1
  /\ \A a \in l .. l + i + j - 1 : next[a] = into[a]
  /\ next[l + i + j] = from[l + m + j]

LEMMA MergedFirst ==
  ASSUME NEW into, NEW next, NEW from, NEW l, NEW i, NEW j, NEW m, NEW n, NEW k,
         TakesFirst(into, next, from, l, i, j, m, n, k)
  PROVE  Merged(next, from, l, k, j, m, n) = Merged(into, from, l, i, j, m, n)
<1> USE DEF TakesFirst
<1>1. {next[a] : a \in l .. l + (i + 1) + j - 1}
        = {into[a] : a \in l .. l + i + j - 1} \cup {from[l + i]}
  <2>1. l .. l + (i + 1) + j - 1 = (l .. l + i + j - 1) \cup {l + i + j}
    OBVIOUS
  <2> QED
    BY <2>1
<1>2. {from[l + e] : e \in i .. m - 1} = {from[l + i]} \cup {from[l + e] : e \in i + 1 .. m - 1}
  <2>1. i .. m - 1 = {i} \cup (i + 1 .. m - 1)
    OBVIOUS
  <2> QED
    BY <2>1
<1> QED
  BY <1>1, <1>2 DEF Merged

LEMMA MergedSecond ==
  ASSUME NEW into, NEW next, NEW from, NEW l, NEW i, NEW j, NEW m, NEW n, NEW k,
         TakesSecond(into, next, from, l, i, j, m, n, k)
  PROVE  Merged(next, from, l, i, k, m, n) = Merged(into, from, l, i, j, m, n)
<1> USE DEF TakesSecond
<1>1. {next[a] : a \in l .. l + i + (j + 1) - 1}
        = {into[a] : a \in l .. l + i + j - 1} \cup {from[l + (m + j)]}
  <2>1. l .. l + i + (j + 1) - 1 = (l .. l + i + j - 1) \cup {l + i + j} /\ l + m + j = l + (m + j)
    OBVIOUS
  <2> QED
    BY <2>1
<1>2. {from[l + e] : e \in m + j .. n - 1}
        = {from[l + (m + j)]} \cup {from[l + e] : e \in m + (j + 1) .. n - 1}
  <2>1. m + j .. n - 1 = {m + j} \cup (m + (j + 1) .. n - 1)
    OBVIOUS
  <2> QED
    BY <2>1
<1> QED
  BY <1>1, <1>2 DEF Merged

(* A turn of the loop that merges. *)
LEMMA MergeTurnHolds ==
  ASSUME IInv, CInv, Merging, input' = input, NEW p \in DOMAIN calls, NEW c, c = calls[p],
         c.pc = "merge", c.i + c.j < c.size, NEW m, m = Middle(p),
         NEW first \in BOOLEAN, IF first THEN c.i < m ELSE c.j < c.size - m,
         NEW x \in CallType, Update(p, x), x.left = c.left, x.size = c.size, x.pc = "merge",
         x.i = (IF first THEN c.i + 1 ELSE c.i), x.j = (IF first THEN c.j ELSE c.j + 1),
         memory' = [memory EXCEPT ![Work(p)][c.left + c.i + c.j] =
                      memory[Work(Append(p, 1))][IF first THEN c.left + c.i ELSE c.left + m + c.j]]
  PROVE  /\ Holds(p)' /\ MemoryTypes'
         /\ \A a \in Elements \ Addresses(p) : /\ memory'.main[a] = memory.main[a]
                                               /\ memory'.tmp[a] = memory.tmp[a]
         /\ memory'[Work(Append(p, 1))] = memory[Work(Append(p, 1))]
         /\ \A a \in c.left .. c.left + c.i + c.j - 1 : memory'[Work(p)][a] = memory[Work(p)][a]
<1> DEFINE W == Work(p)  F == Work(Append(p, 1))
           insert == c.left + c.i + c.j
           taken == IF first THEN c.left + c.i ELSE c.left + m + c.j
<1>1. /\ c \in CallType /\ c.left \in Nat /\ c.size \in Nat \ {0} /\ c.i \in Nat /\ c.j \in Nat
      /\ Addresses(p) = c.left .. c.left + c.size - 1 /\ Addresses(p) \subseteq Elements
      /\ m \in Nat /\ m <= c.size
  BY RangeFits, MergeRange DEF Addresses
<1>2. insert \in Addresses(p) /\ insert \in Elements
  BY <1>1
<1>3. p \in Seq({1, 2}) /\ W \in {"main", "tmp"} /\ F \in {"main", "tmp"} /\ F # W
  BY Buffers DEF IInv, Types
<1>4. MemoryTypes /\ Content(p) = Addresses(p)
  BY DEF CInv, Holds
<1>5. Content(p) = Merged(memory[W], memory[F], c.left, c.i, c.j, m, c.size)
  BY DEF Content, Merged
<1>6. memory[F][taken] \in Elements
  <2>1. CASE first
    <3>1. c.i \in c.i .. m - 1
      BY <1>1, <2>1
    <3>2. memory[F][c.left + c.i] \in Merged(memory[W], memory[F], c.left, c.i, c.j, m, c.size)
      BY <3>1 DEF Merged
    <3> QED
      BY <1>1, <1>4, <1>5, <2>1, <3>2
  <2>2. CASE ~first
    <3>1. m + c.j \in m + c.j .. c.size - 1 /\ c.left + m + c.j = c.left + (m + c.j)
      BY <1>1, <2>2
    <3>2. memory[F][c.left + (m + c.j)] \in Merged(memory[W], memory[F], c.left, c.i, c.j, m, c.size)
      BY <3>1 DEF Merged
    <3> QED
      BY <1>1, <1>4, <1>5, <2>2, <3>1, <3>2
  <2> QED
    BY <2>1, <2>2
<1>7. /\ MemoryTypes'
      /\ memory'[F] = memory[F] /\ memory'[W][insert] = memory[F][taken]
      /\ \A e \in Elements : e # insert => memory'[W][e] = memory[W][e]
  <2> HIDE DEF W, F, insert, taken
  <2>1. PICK a \in Elements : a = insert
    BY <1>2
  <2>2. PICK v \in Elements : v = memory[F][taken]
    BY <1>6
  <2>3. PICK w \in {"main", "tmp"}, o \in {"main", "tmp"} : w = W /\ o = F /\ o # w
    BY <1>3
  <2>4. memory' = [memory EXCEPT ![w][a] = v]
    BY <2>1, <2>2, <2>3 DEF W, F, insert, taken
  <2>5. /\ memory.main \in [Elements -> Elements]
        /\ memory.tmp \in [Elements -> Elements \cup {None}]
        /\ memory = [main |-> memory.main, tmp |-> memory.tmp]
        /\ Elements' = Elements
    BY <1>4, MemoryFields DEF Elements, key
  <2>6. CASE w = "main"
    <3>1. memory' = [main |-> [memory.main EXCEPT ![a] = v], tmp |-> memory.tmp]
      BY <2>4, <2>5, <2>6
    <3>2. [memory.main EXCEPT ![a] = v] \in [Elements -> Elements]
      BY <2>5
    <3>3. MemoryTypes'
      BY <2>5, <3>1, <3>2 DEF MemoryTypes
    <3>4. o = "tmp"
      BY <2>3, <2>6
    <3> QED
      BY <2>1, <2>2, <2>3, <2>5, <2>6, <3>1, <3>3, <3>4
  <2>7. CASE w = "tmp"
    <3>1. memory' = [main |-> memory.main, tmp |-> [memory.tmp EXCEPT ![a] = v]]
      BY <2>4, <2>5, <2>7
    <3>2. [memory.tmp EXCEPT ![a] = v] \in [Elements -> Elements \cup {None}]
      BY <2>5
    <3>3. MemoryTypes'
      BY <2>5, <3>1, <3>2 DEF MemoryTypes
    <3>4. o = "main"
      BY <2>3, <2>7
    <3> QED
      BY <2>1, <2>2, <2>3, <2>5, <2>7, <3>1, <3>3, <3>4
  <2> QED
    BY <2>3, <2>6, <2>7
<1>8. /\ calls'[p] = x /\ Middle(p)' = m /\ Addresses(p)' = Addresses(p)
      /\ Work(p)' = W /\ Work(Append(p, 1))' = F
  BY SameWork DEF Update, Addresses, IInv, Types, Middle, Merging
<1>9. Content(p)' = Merged(memory'[W], memory'[F], c.left, x.i, x.j, m, c.size)
  BY <1>8 DEF Content, Merged
<1>10. \A a \in c.left .. c.left + c.i + c.j - 1 : memory'[W][a] = memory[W][a]
  <2>1. \A a \in c.left .. c.left + c.i + c.j - 1 : a \in Elements /\ a # insert
    BY <1>1
  <2> QED
    BY <1>7, <2>1
<1>11. Merged(memory'[W], memory'[F], c.left, x.i, x.j, m, c.size)
         = Merged(memory[W], memory[F], c.left, c.i, c.j, m, c.size)
  <2> HIDE DEF W, F
  <2>1. PICK into, next, from :
          into = memory[W] /\ next = memory'[W] /\ from = memory[F] /\ from = memory'[F]
    BY <1>7
  <2>2. PICK l \in Nat, i \in Nat, j \in Nat, n \in Nat, h \in Nat :
          l = c.left /\ i = c.i /\ j = c.j /\ n = c.size /\ h = m
    BY <1>1
  <2>3. \A a \in l .. l + i + j - 1 : next[a] = into[a]
    BY <1>10, <2>1, <2>2
  <2>4. CASE first
    <3>1. i < h /\ next[l + i + j] = from[l + i] /\ x.i = i + 1
      BY <1>7, <2>1, <2>2, <2>4
    <3>2. TakesFirst(into, next, from, l, i, j, h, n, x.i)
      BY <2>3, <3>1 DEF TakesFirst
    <3>3. Merged(next, from, l, x.i, j, h, n) = Merged(into, from, l, i, j, h, n)
      BY <3>2, MergedFirst
    <3> QED
      BY <2>1, <2>2, <2>4, <3>3
  <2>5. CASE ~first
    <3>1. h + j < n /\ next[l + i + j] = from[l + h + j] /\ x.j = j + 1
      BY <1>1, <1>7, <2>1, <2>2, <2>5
    <3>2. TakesSecond(into, next, from, l, i, j, h, n, x.j)
      BY <2>3, <3>1 DEF TakesSecond
    <3>3. Merged(next, from, l, i, x.j, h, n) = Merged(into, from, l, i, j, h, n)
      BY <3>2, MergedSecond
    <3> QED
      BY <2>1, <2>2, <2>5, <3>3
  <2> QED
    BY <2>4, <2>5
<1>12. Holds(p)'
  BY <1>4, <1>5, <1>8, <1>9, <1>11 DEF Holds
<1>13. ASSUME NEW a \in Elements \ Addresses(p)
       PROVE  memory'.main[a] = memory.main[a] /\ memory'.tmp[a] = memory.tmp[a]
  <2>1. memory'[F][a] = memory[F][a] /\ memory'[W][a] = memory[W][a]
    BY <1>2, <1>7
  <2> HIDE DEF W, F
  <2> QED
    BY <1>3, <2>1
<1> QED
  BY <1>7, <1>10, <1>12, <1>13

-----------------------------------------------------------------------------
(* A step of a call that runs. *)
LEMMA LocalContent ==
  ASSUME IInv, CInv, input' = input, NEW p \in DOMAIN calls,
         calls[p].pc \notin {"forked", "done"},
         NEW x \in CallType, Update(p, x), x.left = calls[p].left, x.size = calls[p].size,
         x.pc = "network" => Work(p) = "main",
         x.pc = "partition" => x.j < x.size,
         x.pc = "forked" /\ ~Merging => x.j < x.size,
         MemoryTypes',
         Merging => /\ Holds(p)'
                    /\ \A a \in Elements \ Addresses(p) : /\ memory'.main[a] = memory.main[a]
                                                          /\ memory'.tmp[a] = memory.tmp[a],
         ~Merging => Moves(p)
  PROVE  CInv'
<1>1. /\ DOMAIN calls' = DOMAIN calls /\ calls'[p] = x
      /\ \A q \in DOMAIN calls : q # p => calls'[q] = calls[q]
      /\ <<>> \in DOMAIN calls
  BY DEF Update, IInv, Types
<1>2. Merging' = Merging /\ Items' = Items /\ Elements' = Elements
      /\ \A q : Work(q)' = Work(q)
  BY SameWork DEF Items, Elements, key
<1>3. Places'
  BY <1>1, <1>2 DEF CInv, Places
<1>4. ASSUME Merging, NEW q \in DOMAIN calls PROVE Holds(q)'
  <2>1. CASE q = p
    BY <1>4, <2>1
  <2>2. CASE q # p
    BY <1>4, <2>2, OthersHold DEF CInv
  <2> QED
    BY <2>1, <2>2
<1>5. ASSUME ~Merging PROVE Image(memory.main, Elements)' = Elements'
  <2>1. PICK S \in SUBSET Elements : S = Elements
    OBVIOUS
  <2>2. Addresses(p) \subseteq S /\ MemoryTypes
    BY <2>1, RangeFits DEF CInv
  <2>3. Image(memory'.main, S) = Image(memory.main, S)
    BY <1>5, <2>2, MovesKeep
  <2> QED
    BY <1>2, <1>5, <2>1, <2>3 DEF CInv, Image
<1> QED
  BY <1>1, <1>2, <1>3, <1>4, <1>5 DEF CInv

(* The same when the memory stays as it is. *)
LEMMA QuietContent ==
  ASSUME IInv, CInv, input' = input, memory' = memory, NEW p \in DOMAIN calls,
         calls[p].pc \notin {"forked", "done"},
         NEW x \in CallType, Update(p, x), x.left = calls[p].left, x.size = calls[p].size,
         x.pc = "network" => Work(p) = "main",
         x.pc = "partition" => x.j < x.size,
         x.pc = "forked" /\ ~Merging => x.j < x.size,
         Merging => Holds(p)'
  PROVE  CInv'
<1>1. MemoryTypes /\ Addresses(p) \subseteq Elements
  BY RangeFits DEF CInv
<1>2. MemoryTypes'
  BY <1>1 DEF MemoryTypes, Elements, key
<1>3. Moves(p)
  BY <1>1, StayingMoves
<1> QED
  BY <1>2, <1>3, LocalContent

LEMMA MovingContent ==
  ASSUME IInv, CInv, input' = input, NEW p \in DOMAIN calls, Moves(p),
         calls[p].pc \notin {"forked", "done"},
         NEW x \in CallType, Update(p, x), x.left = calls[p].left, x.size = calls[p].size,
         x.pc = "network" => Work(p) = "main",
         x.pc = "partition" => x.j < x.size,
         x.pc = "forked" /\ ~Merging => x.j < x.size,
         Merging => Holds(p)'
  PROVE  CInv'
<1>1. MemoryTypes
  BY DEF CInv
<1>2. MemoryTypes' /\ \A a \in Elements \ Addresses(p) : /\ memory'.main[a] = memory.main[a]
                                                         /\ memory'.tmp[a] = memory.tmp[a]
  BY <1>1, MovesTypes
<1> QED
  BY <1>2, LocalContent

LEMMA AtExists ==
  ASSUME NEW c \in CallType, NEW p, NEW l \in Labels, NEW i \in Nat, NEW j \in Nat, NEW k \in Nat,
         Update(p, At(c, l, i, j, k))
  PROVE  \E x \in CallType : /\ Update(p, x) /\ x.left = c.left /\ x.size = c.size
                             /\ x.pc = l /\ x.i = i /\ x.j = j
<1>1. At(c, l, i, j, k) \in CallType
  BY AtIsCall
<1> QED
  BY <1>1 DEF At

LEMMA ForkExists ==
  ASSUME IInv, NEW p \in DOMAIN calls, Fork(p)
  PROVE  \E x \in CallType : /\ Update(p, x)
                             /\ x.left = calls[p].left /\ x.size = calls[p].size
                             /\ x.pc = "forked" /\ x.j = calls[p].j /\ x.todo = Sections(p)
<1>1. PICK c \in CallType : c = calls[p]
  BY DEF IInv, Types
<1>2. PICK n \in 1 .. CoresToUse(p) :
        Update(p, [c EXCEPT !.pc = "forked", !.i = 0, !.team = n, !.todo = Sections(p)])
  BY <1>1 DEF Fork
<1>3. n \in 0 .. 2 /\ Sections(p) \in SUBSET {1, 2}
  <2>1. CoresToUse(p) \in {1, 2}
    BY <1>1, SharesFit
  <2> QED
    BY <2>1 DEF Sections
<1>4. PICK y : y = [c EXCEPT !.pc = "forked", !.i = 0, !.team = n, !.todo = Sections(p)]
  OBVIOUS
<1>5. y = [left |-> c.left, size |-> c.size, cpus |-> c.cpus, pc |-> "forked",
           i |-> 0, j |-> c.j, k |-> c.k, team |-> n, todo |-> Sections(p)]
  BY <1>4 DEF CallType
<1>6. y \in CallType
  BY <1>3, <1>5 DEF CallType, Labels
<1>7. Update(p, y)
  BY <1>2, <1>4, Zenon
<1> QED
  BY <1>1, <1>5, <1>6, <1>7

LEMMA BeginNetworkContent ==
  ASSUME IInv, CInv, NEW p \in DOMAIN calls, BeginNetwork(p)
  PROVE  CInv'
<1>1. PICK c \in CallType : c = calls[p]
  BY DEF IInv, Types
<1>2. c.i \in Nat /\ c.j \in Nat /\ c.k \in Nat
  BY DEF CallType
<1>3. /\ c.pc = "begin" /\ input' = input /\ memory' = memory /\ ~Splits(p)
      /\ Update(p, [c EXCEPT !.pc = "network"])
  BY <1>1 DEF BeginNetwork
<1>4. Update(p, At(c, "network", c.i, c.j, c.k))
  BY <1>3, Changes, Zenon
<1>5. PICK x \in CallType : Update(p, x) /\ x.left = c.left /\ x.size = c.size /\ x.pc = "network"
  BY <1>2, <1>4, AtExists DEF Labels
<1>6. Work(p) = "main"
  BY <1>3 DEF Splits, Work
<1>7. ASSUME Merging PROVE Holds(p)'
  <2>1. \A a \in Addresses(p) : memory.main[a] = a
    BY <1>1, <1>3, <1>7 DEF CInv, Holds
  <2>2. /\ calls'[p] = x /\ Addresses(p)' = Addresses(p) /\ Work(p)' = "main"
    BY <1>1, <1>3, <1>5, <1>6, SameWork DEF Update, Addresses, IInv, Types
  <2>3. Content(p)' = {memory.main[a] : a \in Addresses(p)}
    BY <1>3, <1>5, <2>2 DEF Content
  <2>4. Content(p)' = Addresses(p)
    BY <2>1, <2>3
  <2> QED
    BY <1>5, <2>2, <2>4 DEF Holds
<1> QED
  BY <1>1, <1>3, <1>5, <1>6, <1>7, QuietContent

LEMMA FastSortContent ==
  ASSUME IInv, CInv, NEW p \in DOMAIN calls, FastSort(p)
  PROVE  CInv'
<1>1. PICK c \in CallType : c = calls[p]
  BY DEF IInv, Types
<1>2. c.i \in Nat /\ c.j \in Nat /\ c.k \in Nat
  BY DEF CallType
<1>3. /\ c.pc = "network" /\ input' = input
      /\ \/ Update(p, [c EXCEPT !.i = @ + 1])
         \/ Update(p, [c EXCEPT !.pc = "done", !.i = 0])
  BY <1>1 DEF FastSort
<1>4. PICK l \in {"network", "done"}, i \in Nat : Update(p, At(c, l, i, c.j, c.k))
  <2>1. CASE Update(p, [c EXCEPT !.i = @ + 1])
    <3>1. Update(p, At(c, c.pc, c.i + 1, c.j, c.k))
      BY <2>1, Changes, Zenon
    <3> QED
      BY <1>2, <1>3, <3>1
  <2>2. CASE Update(p, [c EXCEPT !.pc = "done", !.i = 0])
    <3>1. Update(p, At(c, "done", 0, c.j, c.k))
      BY <2>2, Changes, Zenon
    <3> QED
      BY <3>1
  <2> QED
    BY <1>3, <2>1, <2>2
<1>5. PICK x \in CallType : Update(p, x) /\ x.left = c.left /\ x.size = c.size /\ x.pc = l
  <2>1. l \in Labels
    BY DEF Labels
  <2> QED
    BY <1>2, <1>4, <2>1, AtExists
<1>6. Moves(p) /\ Work(p) = "main"
  BY <1>1, <1>3, FastSortMoves DEF CInv, Places
<1>7. Merging => Holds(p)'
  BY <1>1, <1>3, <1>5, <1>6, HoldsMoving
<1> QED
  BY <1>1, <1>3, <1>5, <1>6, <1>7, MovingContent

LEMMA PivotContent ==
  ASSUME IInv, CInv, NEW p \in DOMAIN calls, PivotIdx(p)
  PROVE  CInv'
<1>1. PICK c \in CallType : c = calls[p]
  BY DEF IInv, Types
<1>2. c.size \in Nat \ {0} /\ c.i = 0 /\ c.j = 0 /\ c.k \in Nat
  BY <1>1 DEF CallType, IInv, Bounds, PivotIdx
<1>3. /\ c.pc = "begin" /\ input' = input /\ ~Merging
      /\ Update(p, [c EXCEPT !.pc = "partition"])
  BY <1>1 DEF PivotIdx, Merging
<1>4. Update(p, At(c, "partition", c.i, c.j, c.k))
  BY <1>3, Changes, Zenon
<1>5. PICK x \in CallType : /\ Update(p, x) /\ x.left = c.left /\ x.size = c.size
                            /\ x.pc = "partition" /\ x.j = c.j
  <2>1. "partition" \in Labels /\ c.i \in Nat /\ c.j \in Nat /\ c.k \in Nat
    BY <1>2 DEF Labels
  <2> QED
    BY <1>4, <2>1, AtExists
<1>6. Moves(p) /\ x.j < x.size
  BY <1>2, <1>5, PivotMoves
<1> QED
  BY <1>1, <1>3, <1>5, <1>6, MovingContent

(* The turn at the end of the range, where the pivot is, does not count it. *)
LEMMA TurnExists ==
  ASSUME IInv, CInv, NEW p \in DOMAIN calls, PartitionTurn(p)
  PROVE  LET c == calls[p]
             counted == key[memory.main[c.left + c.i]] < key[memory.main[c.left + c.size - 1]]
         IN  \E x \in CallType :
               /\ Update(p, x) /\ x.left = c.left /\ x.size = c.size /\ x.pc = "partition"
               /\ x.i = c.i + 1 /\ x.j = (IF counted THEN c.j + 1 ELSE c.j) /\ x.j < c.size
<1>1. PICK c \in CallType : c = calls[p]
  BY DEF IInv, Types
<1>2. /\ c.left \in Nat /\ c.size \in Nat \ {0} /\ c.i \in Nat /\ c.j \in Nat /\ c.k \in Nat
      /\ Addresses(p) = c.left .. c.left + c.size - 1 /\ Addresses(p) \subseteq Elements
  BY <1>1, RangeFits DEF Addresses
<1>3. c.pc = "partition" /\ c.i < c.size /\ c.j < c.size /\ c.j <= c.i
  BY <1>1 DEF PartitionTurn, CInv, Places, IInv, Bounds
<1> DEFINE counted == key[memory.main[c.left + c.i]] < key[memory.main[c.left + c.size - 1]]
<1>4. PICK j : j = IF counted THEN c.j + 1 ELSE c.j
  OBVIOUS
<1>5. Update(p, At(c, c.pc, c.i + 1, j, c.k))
  <2>1. CASE counted
    <3>1. Update(p, [c EXCEPT !.i = @ + 1, !.j = @ + 1])
      BY <1>1, <2>1 DEF PartitionTurn
    <3>2. Update(p, At(c, c.pc, c.i + 1, c.j + 1, c.k))
      BY <3>1, Changes, Zenon
    <3> QED
      BY <1>4, <2>1, <3>2
  <2>2. CASE ~counted
    <3>1. Update(p, [c EXCEPT !.i = @ + 1])
      BY <1>1, <2>2 DEF PartitionTurn
    <3>2. Update(p, At(c, c.pc, c.i + 1, c.j, c.k))
      BY <3>1, Changes, Zenon
    <3> QED
      BY <1>4, <2>2, <3>2
  <2> QED
    BY <2>1, <2>2
<1>6. counted => c.i # c.size - 1
  <2>1. c.left + c.size - 1 \in Elements
    BY <1>2
  <2>2. key[memory.main[c.left + c.size - 1]] \in Int
    <3>1. key \in [Elements -> Int] /\ memory.main \in [Elements -> Elements]
      BY InputFacts, MemoryFields DEF CInv, IInv, Types
    <3> QED
      BY <2>1, <3>1
  <2>3. ASSUME c.i = c.size - 1 PROVE c.left + c.i = c.left + c.size - 1
    BY <1>2, <2>3
  <2> QED
    BY <2>2, <2>3
<1>7. j \in Nat /\ j < c.size /\ c.i + 1 \in Nat
  BY <1>2, <1>3, <1>4, <1>6
<1>8. c.pc \in Labels
  BY <1>3 DEF Labels
<1>9. PICK x \in CallType : /\ Update(p, x) /\ x.left = c.left /\ x.size = c.size /\ x.pc = c.pc
                            /\ x.i = c.i + 1 /\ x.j = j
  BY <1>2, <1>5, <1>7, <1>8, AtExists
<1> QED
  BY <1>1, <1>3, <1>4, <1>7, <1>9

LEMMA PartitionTurnContent ==
  ASSUME IInv, CInv, NEW p \in DOMAIN calls, PartitionTurn(p)
  PROVE  CInv'
<1>1. PICK x \in CallType : /\ Update(p, x) /\ x.pc = "partition" /\ x.j < x.size
                            /\ x.left = calls[p].left /\ x.size = calls[p].size
  BY TurnExists
<1>2. calls[p].pc = "partition" /\ input' = input /\ ~Merging /\ Moves(p)
  BY PartitionTurnMoves DEF PartitionTurn, IInv, Bounds
<1> QED
  BY <1>1, <1>2, MovingContent

LEMMA PartitionEndsContent ==
  ASSUME IInv, CInv, NEW p \in DOMAIN calls, PartitionEnds(p)
  PROVE  CInv'
<1>1. /\ calls[p].pc = "partition" /\ input' = input /\ ~Merging /\ Moves(p) /\ Fork(p)
      /\ calls[p].j < calls[p].size
  BY PartitionEndsMoves DEF PartitionEnds, IInv, Bounds, CInv, Places
<1>2. PICK x \in CallType : /\ Update(p, x) /\ x.pc = "forked" /\ x.j < x.size
                            /\ x.left = calls[p].left /\ x.size = calls[p].size
  BY <1>1, ForkExists
<1> QED
  BY <1>1, <1>2, MovingContent

LEMMA DivideContent ==
  ASSUME IInv, CInv, NEW p \in DOMAIN calls, Divide(p)
  PROVE  CInv'
<1>1. /\ calls[p].pc = "begin" /\ input' = input /\ memory' = memory /\ Merging /\ Fork(p)
      /\ calls[p] \in CallType /\ calls[p].j <= calls[p].size
      /\ \A a \in Addresses(p) : memory.main[a] = a
  <2>1. calls[p].pc = "begin" /\ calls[p] \in CallType /\ Merging
    BY DEF Divide, IInv, Types
  <2>2. calls[p].j = 0 /\ calls[p].size \in Nat
    BY <2>1 DEF IInv, Bounds, CallType
  <2>3. calls[p].j <= calls[p].size
    BY <2>2
  <2> QED
    BY <2>1, <2>3 DEF Divide, CInv, Holds
<1>2. PICK x \in CallType : /\ Update(p, x) /\ x.pc = "forked" /\ x.todo = Sections(p)
                            /\ x.left = calls[p].left /\ x.size = calls[p].size
                            /\ x.j = calls[p].j
  BY <1>1, ForkExists
<1>3. \A s \in {1, 2} : Part(p, s) \subseteq Addresses(p)
  <2>1. /\ \A s \in {1, 2} : First(p, s) \in Nat /\ Behind(p, s) \in Nat
        /\ \A s \in {1, 2} : calls[p].left <= First(p, s)
        /\ \A s \in {1, 2} : Behind(p, s) <= calls[p].left + calls[p].size
    BY <1>1, SectionsApart
  <2>2. calls[p].left \in Nat /\ calls[p].size \in Nat
    BY RangeFits
  <2> QED
    BY <2>1, <2>2 DEF Part, Addresses
<1>4. /\ calls'[p] = x /\ Sections(p) = {1, 2}
  BY <1>1, <1>2 DEF Update, IInv, Types, Sections
<1>5. \A s : Part(p, s)' = Part(p, s)
  BY <1>1, <1>2, <1>4 DEF Part, First, Behind, Middle, Merging
<1>6. Holds(p)'
  BY <1>1, <1>2, <1>3, <1>4, <1>5 DEF Holds
<1> QED
  BY <1>1, <1>2, <1>6, QuietContent

(* The end of the loop that merges. *)
LEMMA MergeEndHolds ==
  ASSUME IInv, CInv, Merging, input' = input, memory' = memory, NEW p \in DOMAIN calls,
         calls[p].pc = "merge", calls[p].i + calls[p].j = calls[p].size,
         NEW x \in CallType, Update(p, x), x.left = calls[p].left, x.size = calls[p].size,
         x.pc = "done"
  PROVE  Holds(p)'
<1>1. PICK c : c = calls[p]
  OBVIOUS
<1>2. PICK m : m = Middle(p)
  OBVIOUS
<1>3. /\ c.left \in Nat /\ c.size \in Nat /\ c.i \in Nat /\ c.j \in Nat
      /\ m \in Nat /\ m <= c.size /\ c.i <= m /\ c.j <= c.size - m /\ c.i + c.j = c.size
      /\ Addresses(p) = c.left .. c.left + c.size - 1
  BY <1>1, <1>2, RangeFits, MergeRange DEF Addresses
<1>4. c.i = m /\ c.j = c.size - m
  BY <1>3
<1>5. PICK into, from : into = memory[Work(p)] /\ from = memory[Work(Append(p, 1))]
  OBVIOUS
<1>6. Content(p) = Merged(into, from, c.left, c.i, c.j, m, c.size)
  BY <1>1, <1>2, <1>5 DEF Content, Merged
<1>7. Merged(into, from, c.left, c.i, c.j, m, c.size) = Image(into, Addresses(p))
  <2>1. PICK l \in Nat, n \in Nat, h \in Nat, i \in Nat, j \in Nat :
          l = c.left /\ n = c.size /\ h = m /\ i = c.i /\ j = c.j
    BY <1>3
  <2>2. h <= n /\ i = h /\ j = n - h
    BY <1>3, <1>4, <2>1
  <2>3. Merged(into, from, l, i, j, h, n) = Image(into, l .. l + n - 1)
    <3>1. l + i + j - 1 = l + n - 1 /\ i .. h - 1 = {} /\ h + j .. n - 1 = {}
      BY <2>2
    <3> QED
      BY <3>1 DEF Merged, Image
  <2> QED
    BY <1>3, <2>1, <2>3
<1>8. calls'[p] = x /\ Addresses(p)' = Addresses(p) /\ Work(p)' = Work(p)
  BY SameWork DEF Update, Addresses, IInv, Types
<1>9. Content(p)' = Image(into, Addresses(p))
  BY <1>5, <1>8 DEF Content, Image
<1> QED
  BY <1>1, <1>6, <1>7, <1>8, <1>9 DEF Holds, CInv

(* What a turn of the loop that merges does. *)
LEMMA MergeTurns ==
  ASSUME IInv, NEW p \in DOMAIN calls, Merge(p), NEW c \in CallType, c = calls[p],
         NEW m, m = Middle(p), c.i + c.j < c.size
  PROVE  \E first \in BOOLEAN, x \in CallType :
           /\ first <=> UseArray1(p, c.left, c.left + m)
           /\ IF first THEN c.i < m ELSE c.j < c.size - m
           /\ Update(p, x) /\ x.left = c.left /\ x.size = c.size /\ x.pc = "merge"
           /\ x.i = (IF first THEN c.i + 1 ELSE c.i) /\ x.j = (IF first THEN c.j ELSE c.j + 1)
           /\ memory' = [memory EXCEPT ![Work(p)][c.left + c.i + c.j] =
                           memory[Work(Append(p, 1))][IF first THEN c.left + c.i
                                                      ELSE c.left + m + c.j]]
<1>1. c = calls[p]
  OBVIOUS
<1>2. m = Middle(p)
  OBVIOUS
<1>3. /\ c.left \in Nat /\ c.size \in Nat \ {0} /\ c.i \in Nat /\ c.j \in Nat /\ c.k \in Nat
      /\ c.pc = "merge" /\ input' = input /\ Merging
      /\ m \in Nat /\ m <= c.size /\ c.i <= m /\ c.j <= c.size - m
  BY <1>1, <1>2, RangeFits, MergeRange DEF Merge, IInv, Bounds
<1>4. c.i + c.j < c.size
  OBVIOUS
<1>5. PICK first \in BOOLEAN : first <=> UseArray1(p, c.left, c.left + m)
  OBVIOUS
<1>6. IF first THEN c.i < m ELSE c.j < c.size - m
  <2>1. CASE first
    <3>1. c.j = c.size - m \/ c.i < m
      BY <1>1, <1>2, <1>5, <2>1 DEF UseArray1
    <3> QED
      BY <1>3, <1>4, <2>1, <3>1
  <2>2. CASE ~first
    <3>1. c.j # c.size - m
      BY <1>1, <1>2, <1>5, <2>2 DEF UseArray1
    <3> QED
      BY <1>3, <2>2, <3>1
  <2> QED
    BY <2>1, <2>2
<1>7. memory' = [memory EXCEPT ![Work(p)][c.left + c.i + c.j] =
                   memory[Work(Append(p, 1))][IF first THEN c.left + c.i ELSE c.left + m + c.j]]
  BY <1>1, <1>2, <1>3, <1>4, <1>5 DEF Merge
<1>8. \/ first /\ Update(p, [c EXCEPT !.i = @ + 1])
      \/ ~first /\ Update(p, [c EXCEPT !.j = @ + 1])
  BY <1>1, <1>2, <1>3, <1>4, <1>5 DEF Merge
<1>9. PICK x \in CallType :
        /\ Update(p, x) /\ x.left = c.left /\ x.size = c.size /\ x.pc = "merge"
        /\ x.i = (IF first THEN c.i + 1 ELSE c.i) /\ x.j = (IF first THEN c.j ELSE c.j + 1)
  <2>1. CASE first
    <3>1. Update(p, [c EXCEPT !.i = @ + 1])
      BY <1>8, <2>1
    <3>2. Update(p, At(c, c.pc, c.i + 1, c.j, c.k))
      BY <3>1, Changes, Zenon
    <3>3. c.pc \in Labels /\ c.i + 1 \in Nat
      BY <1>3 DEF Labels
    <3>4. PICK x \in CallType : /\ Update(p, x) /\ x.left = c.left /\ x.size = c.size
                                /\ x.pc = c.pc /\ x.i = c.i + 1 /\ x.j = c.j
      BY <1>3, <3>2, <3>3, AtExists
    <3> QED
      BY <1>3, <2>1, <3>4
  <2>2. CASE ~first
    <3>1. Update(p, [c EXCEPT !.j = @ + 1])
      BY <1>8, <2>2
    <3>2. Update(p, At(c, c.pc, c.i, c.j + 1, c.k))
      BY <3>1, Changes, Zenon
    <3>3. c.pc \in Labels /\ c.j + 1 \in Nat
      BY <1>3 DEF Labels
    <3>4. PICK x \in CallType : /\ Update(p, x) /\ x.left = c.left /\ x.size = c.size
                                /\ x.pc = c.pc /\ x.i = c.i /\ x.j = c.j + 1
      BY <1>3, <3>2, <3>3, AtExists
    <3> QED
      BY <1>3, <2>2, <3>4
  <2> QED
    BY <2>1, <2>2
<1> QED
  BY <1>5, <1>6, <1>7, <1>9

LEMMA MergeContent ==
  ASSUME IInv, CInv, NEW p \in DOMAIN calls, Merge(p)
  PROVE  CInv'
<1>1. PICK c \in CallType : c = calls[p]
  BY DEF IInv, Types
<1>2. PICK m : m = Middle(p)
  OBVIOUS
<1>3. /\ c.left \in Nat /\ c.size \in Nat \ {0} /\ c.i \in Nat /\ c.j \in Nat /\ c.k \in Nat
      /\ c.pc = "merge" /\ input' = input /\ Merging
      /\ m \in Nat /\ m <= c.size /\ c.i <= m /\ c.j <= c.size - m
  BY <1>1, <1>2, RangeFits, MergeRange DEF Merge, IInv, Bounds
<1>4. ASSUME c.i + c.j < c.size PROVE CInv'
  <2>1. PICK first \in BOOLEAN, x \in CallType :
          /\ IF first THEN c.i < m ELSE c.j < c.size - m
          /\ Update(p, x) /\ x.left = c.left /\ x.size = c.size /\ x.pc = "merge"
          /\ x.i = (IF first THEN c.i + 1 ELSE c.i) /\ x.j = (IF first THEN c.j ELSE c.j + 1)
          /\ memory' = [memory EXCEPT ![Work(p)][c.left + c.i + c.j] =
                          memory[Work(Append(p, 1))][IF first THEN c.left + c.i
                                                     ELSE c.left + m + c.j]]
    BY <1>1, <1>2, <1>4, MergeTurns
  <2>2. /\ Holds(p)' /\ MemoryTypes'
        /\ \A a \in Elements \ Addresses(p) : /\ memory'.main[a] = memory.main[a]
                                              /\ memory'.tmp[a] = memory.tmp[a]
    BY <1>1, <1>2, <1>3, <1>4, <2>1, MergeTurnHolds
  <2> QED
    BY <1>1, <1>3, <2>1, <2>2, LocalContent
<1>5. ASSUME ~(c.i + c.j < c.size) PROVE CInv'
  <2>1. /\ c.i + c.j = c.size /\ memory' = memory
        /\ Update(p, [c EXCEPT !.pc = "done", !.i = 0, !.j = 0])
    BY <1>1, <1>3, <1>5 DEF Merge
  <2>2. Update(p, At(c, "done", 0, 0, c.k))
    BY <2>1, Changes, Zenon
  <2>3. PICK x \in CallType : Update(p, x) /\ x.left = c.left /\ x.size = c.size /\ x.pc = "done"
    BY <1>3, <2>2, AtExists DEF Labels
  <2>4. Holds(p)'
    BY <1>1, <1>3, <2>1, <2>3, MergeEndHolds
  <2> QED
    BY <1>1, <1>3, <2>1, <2>3, <2>4, QuietContent
<1> QED
  BY <1>4, <1>5

(* The steps of bubble_sort, as far as they matter here. *)
LEMMA BubbleExists ==
  ASSUME IInv, NEW p \in DOMAIN calls,
         BeginBubbleSort(p) \/ BubbleTurn(p) \/ BubbleRound(p)
  PROVE  /\ calls[p].pc \notin {"forked", "done"} /\ input' = input /\ ~Merging
         /\ \E x \in CallType : /\ Update(p, x) /\ x.pc \in {"bubble", "done"}
                                /\ x.left = calls[p].left /\ x.size = calls[p].size
<1>1. PICK c \in CallType : c = calls[p]
  BY DEF IInv, Types
<1>2. /\ c.size \in Nat \ {0} /\ c.i \in Nat /\ c.j \in Nat /\ c.k \in Nat
      /\ "bubble" \in Labels /\ "done" \in Labels
  BY DEF CallType, Labels
<1>3. CASE BeginBubbleSort(p)
  <2>1. /\ c.pc = "begin" /\ input' = input /\ ~Merging
        /\ Update(p, [c EXCEPT !.pc = "bubble", !.k = c.size - 1])
    BY <1>1, <1>3 DEF BeginBubbleSort, Merging
  <2>2. Update(p, At(c, "bubble", c.i, c.j, c.size - 1))
    BY <2>1, Changes, Zenon
  <2>3. PICK k \in Nat : k = c.size - 1
    BY <1>2
  <2>4. Update(p, At(c, "bubble", c.i, c.j, k))
    BY <2>2, <2>3
  <2>5. PICK x \in CallType : Update(p, x) /\ x.left = c.left /\ x.size = c.size /\ x.pc = "bubble"
    BY <1>2, <2>4, AtExists
  <2> QED
    BY <1>1, <2>1, <2>5
<1>4. CASE BubbleTurn(p)
  <2>1. c.pc = "bubble" /\ input' = input /\ ~Merging
    BY <1>1, <1>4 DEF BubbleTurn, IInv, Bounds
  <2>2. PICK n \in {c.i, c.j} : Update(p, [c EXCEPT !.i = @ + 1, !.j = n])
    BY <1>1, <1>4 DEF BubbleTurn
  <2>3. Update(p, At(c, c.pc, c.i + 1, n, c.k))
    BY <2>2, Changes, Zenon
  <2>4. c.i + 1 \in Nat /\ n \in Nat /\ c.pc \in Labels
    BY <1>2, <2>1
  <2>5. PICK x \in CallType : Update(p, x) /\ x.left = c.left /\ x.size = c.size /\ x.pc = c.pc
    BY <1>2, <2>3, <2>4, AtExists
  <2> QED
    BY <1>1, <2>1, <2>5
<1>5. CASE BubbleRound(p)
  <2>1. /\ c.pc = "bubble" /\ input' = input /\ ~Merging
        /\ \/ Update(p, [c EXCEPT !.pc = "done", !.i = 0, !.k = 0])
           \/ Update(p, [c EXCEPT !.i = 0, !.j = 0, !.k = c.j])
    BY <1>1, <1>5 DEF BubbleRound, IInv, Bounds
  <2>2. CASE Update(p, [c EXCEPT !.pc = "done", !.i = 0, !.k = 0])
    <3>1. Update(p, At(c, "done", 0, c.j, 0))
      BY <2>2, Changes, Zenon
    <3>2. PICK x \in CallType : Update(p, x) /\ x.left = c.left /\ x.size = c.size /\ x.pc = "done"
      BY <1>2, <3>1, AtExists
    <3> QED
      BY <1>1, <2>1, <3>2
  <2>3. CASE Update(p, [c EXCEPT !.i = 0, !.j = 0, !.k = c.j])
    <3>1. Update(p, At(c, c.pc, 0, 0, c.j))
      BY <2>3, Changes, Zenon
    <3>2. PICK x \in CallType : Update(p, x) /\ x.left = c.left /\ x.size = c.size /\ x.pc = c.pc
      BY <1>2, <2>1, <3>1, AtExists
    <3> QED
      BY <1>1, <2>1, <3>2
  <2> QED
    BY <2>1, <2>2, <2>3
<1> QED
  BY <1>3, <1>4, <1>5

LEMMA BubbleContent ==
  ASSUME IInv, CInv, NEW p \in DOMAIN calls,
         BeginBubbleSort(p) \/ BubbleTurn(p) \/ BubbleRound(p)
  PROVE  CInv'
<1>1. PICK x \in CallType : /\ Update(p, x) /\ x.pc \in {"bubble", "done"}
                            /\ x.left = calls[p].left /\ x.size = calls[p].size
  BY BubbleExists
<1>2. calls[p].pc \notin {"forked", "done"} /\ input' = input /\ ~Merging
  BY BubbleExists
<1>3. CASE BubbleTurn(p)
  BY <1>1, <1>2, <1>3, BubbleTurnMoves, MovingContent
<1>4. CASE BeginBubbleSort(p) \/ BubbleRound(p)
  <2>1. memory' = memory
    BY <1>4 DEF BeginBubbleSort, BubbleRound
  <2> QED
    BY <1>1, <1>2, <2>1, QuietContent
<1> QED
  BY <1>3, <1>4

(* What a section begins with. *)
LEMMA SectionBegins ==
  ASSUME IInv, NEW p \in DOMAIN calls, NEW s \in {1, 2}, BeginSection(p, s)
  PROVE  LET n == Append(p, s)
         IN  /\ n \in Seq({1, 2}) /\ n # p /\ n # <<>> /\ n \notin DOMAIN calls
             /\ DOMAIN calls' = DOMAIN calls \cup {n} /\ calls'[n] = Section(p, s)
             /\ \A q \in DOMAIN calls : q # p => calls'[q] = calls[q]
             /\ calls'[p].left = calls[p].left /\ calls'[p].size = calls[p].size
             /\ calls'[p].j = calls[p].j /\ calls'[p].cpus = calls[p].cpus
             /\ calls'[p].pc = "forked" /\ calls'[p].todo = calls[p].todo \ {s}
             /\ Section(p, s).left = First(p, s)
             /\ Section(p, s).left + Section(p, s).size = Behind(p, s)
             /\ Section(p, s).pc = "begin" /\ Section(p, s) \in CallType
<1> DEFINE n == Append(p, s)
<1>1. /\ calls[p] \in CallType /\ calls[p].pc = "forked" /\ Bounds(p) /\ p \in Seq({1, 2})
      /\ s \in calls[p].todo /\ input' = input /\ memory' = memory
      /\ Types /\ Tree /\ <<>> \in DOMAIN calls
  BY DEF BeginSection, IInv, Types
<1>2. /\ n \in Seq({1, 2}) /\ n # p /\ n # <<>> /\ n \notin DOMAIN calls
      /\ Len(p) \in Nat
  <2>1. n \in Seq({1, 2}) /\ n # p /\ Len(n) = Len(p) + 1 /\ Len(p) \in Nat
    BY <1>1, AppendIsCall, LenProperties
  <2>2. n # <<>>
    BY <2>1
  <2>3. n \notin DOMAIN calls
    BY <1>1, ParentWaits
  <2> QED
    BY <2>1, <2>2, <2>3
<1>3. /\ DOMAIN calls' = DOMAIN calls \cup {n} /\ calls'[n] = Section(p, s)
      /\ \A q \in DOMAIN calls : q # p => calls'[q] = calls[q]
  BY <1>2 DEF BeginSection
<1>4. /\ calls'[p].left = calls[p].left /\ calls'[p].size = calls[p].size
      /\ calls'[p].j = calls[p].j /\ calls'[p].cpus = calls[p].cpus
      /\ calls'[p].pc = "forked" /\ calls'[p].todo = calls[p].todo \ {s}
  <2>1. PICK y : y = [calls[p] EXCEPT !.todo = @ \ {s}]
    OBVIOUS
  <2>2. calls'[p] = y
    BY <1>2, <2>1 DEF BeginSection
  <2> QED
    BY <1>1, <2>1, <2>2 DEF CallType
<1>5. /\ Section(p, s).left = First(p, s)
      /\ Section(p, s).left + Section(p, s).size = Behind(p, s)
      /\ Section(p, s).pc = "begin" /\ Section(p, s) \in CallType
  BY <1>1, SectionFacts DEF Bounds
<1> QED
  BY <1>2, <1>3, <1>4, <1>5

LEMMA BeginSectionContent ==
  ASSUME IInv, CInv, NEW p \in DOMAIN calls, NEW s \in {1, 2}, BeginSection(p, s)
  PROVE  CInv'
<1> DEFINE n == Append(p, s)
<1>1. /\ calls[p] \in CallType /\ calls[p].pc = "forked" /\ Bounds(p) /\ p \in Seq({1, 2})
      /\ s \in calls[p].todo /\ input' = input /\ memory' = memory
      /\ Types /\ Tree /\ <<>> \in DOMAIN calls
  BY DEF BeginSection, IInv, Types
<1>2. /\ n \in Seq({1, 2}) /\ n # p /\ n # <<>> /\ n \notin DOMAIN calls
      /\ Len(p) \in Nat
  BY <1>1, SectionBegins, LenProperties
<1>3. /\ DOMAIN calls' = DOMAIN calls \cup {n} /\ calls'[n] = Section(p, s)
      /\ \A q \in DOMAIN calls : q # p => calls'[q] = calls[q]
  BY SectionBegins
<1>4. /\ calls'[p].left = calls[p].left /\ calls'[p].size = calls[p].size
      /\ calls'[p].j = calls[p].j /\ calls'[p].cpus = calls[p].cpus
      /\ calls'[p].pc = "forked" /\ calls'[p].todo = calls[p].todo \ {s}
  BY SectionBegins
<1>5. /\ Section(p, s).left = First(p, s)
      /\ Section(p, s).left + Section(p, s).size = Behind(p, s)
      /\ Section(p, s).pc = "begin" /\ Section(p, s) \in CallType
  BY SectionBegins
<1>6. /\ \A q \in DOMAIN calls : /\ Addresses(q)' = Addresses(q)
                                 /\ \A u : Part(q, u)' = Part(q, u)
      /\ Addresses(n)' = Part(p, s)
  <2>1. \A q \in DOMAIN calls :
          /\ calls'[q].left = calls[q].left /\ calls'[q].size = calls[q].size
          /\ calls'[q].cpus = calls[q].cpus /\ calls'[q].j = calls[q].j
    BY <1>3, <1>4
  <2>2. \A q \in DOMAIN calls : \A u : First(q, u)' = First(q, u) /\ Behind(q, u)' = Behind(q, u)
    BY <1>1, <2>1, SameRange
  <2>3. \A q \in DOMAIN calls : Addresses(q)' = Addresses(q)
    BY <2>1 DEF Addresses
  <2>4. Addresses(n)' = Part(p, s)
    <3>1. PICK y : y = Section(p, s)
      OBVIOUS
    <3>2. /\ calls'[n] = y /\ y.left = First(p, s) /\ y.left + y.size = Behind(p, s)
          /\ y.left \in Nat /\ y.size \in Nat
      BY <1>3, <1>5, <3>1 DEF CallType
    <3>3. Addresses(n)' = y.left .. y.left + y.size - 1
      BY <3>2 DEF Addresses
    <3> QED
      BY <3>2, <3>3 DEF Part
  <2> QED
    BY <2>2, <2>3, <2>4 DEF Part
<1>7. /\ MemoryTypes' /\ Merging' = Merging /\ Items' = Items /\ Elements' = Elements
      /\ \A q : Work(q)' = Work(q)
  BY <1>1, SameWork DEF CInv, MemoryTypes, Items, Elements, key
<1>8. Places'
  <2>1. calls'[<<>>].left = calls[<<>>].left /\ calls'[<<>>].size = calls[<<>>].size
    BY <1>1, <1>3, <1>4
  <2>2. ASSUME NEW q \in DOMAIN calls'
        PROVE  /\ calls'[q].pc = "network" => Work(q)' = "main"
               /\ calls'[q].pc = "partition" => calls'[q].j < calls'[q].size
               /\ calls'[q].pc = "forked" /\ ~Merging' => calls'[q].j < calls'[q].size
    BY <1>1, <1>3, <1>4, <1>5, <1>7 DEF CInv, Places
  <2> QED
    BY <1>7, <2>1, <2>2 DEF CInv, Places
<1>9. ASSUME Merging, NEW q \in DOMAIN calls' PROVE Holds(q)'
  <2>1. CASE q = n
    <3>1. \A a \in Part(p, s) : memory.main[a] = a
      BY <1>1, <1>9 DEF CInv, Holds
    <3> QED
      BY <1>1, <1>3, <1>5, <1>6, <2>1, <3>1 DEF Holds
  <2>2. CASE q = p
    <3>1. ASSUME NEW u \in {1, 2}
          PROVE  IF u \in calls'[p].todo THEN \A a \in Part(p, u)' : memory'.main[a] = a
                 ELSE Append(p, u) \in DOMAIN calls' /\ Addresses(Append(p, u))' = Part(p, u)'
      <4>1. IF u \in calls[p].todo THEN \A a \in Part(p, u) : memory.main[a] = a
            ELSE Append(p, u) \in DOMAIN calls /\ Addresses(Append(p, u)) = Part(p, u)
        BY <1>1, <1>9 DEF CInv, Holds
      <4>2. CASE u = s
        BY <1>1, <1>3, <1>4, <1>6, <4>2
      <4>3. CASE u # s
        BY <1>1, <1>3, <1>4, <1>6, <4>1, <4>3
      <4> QED
        BY <4>2, <4>3
    <3> QED
      BY <1>4, <2>2, <3>1 DEF Holds
  <2>3. CASE q # n /\ q # p
    <3>1. q \in DOMAIN calls /\ calls'[q] = calls[q] /\ Holds(q)
      BY <1>3, <1>9, <2>3 DEF CInv
    <3>2. Content(q)' = Content(q)
      <4>1. Middle(q)' = Middle(q)
        BY <1>1, <3>1, SameRange
      <4> QED
        BY <1>1, <1>6, <1>7, <3>1, <4>1 DEF Content
    <3> QED
      BY <1>1, <1>3, <1>6, <3>1, <3>2 DEF Holds
  <2> QED
    BY <2>1, <2>2, <2>3
<1> QED
  BY <1>1, <1>7, <1>8, <1>9 DEF CInv

(* When the sections of p are over, p has what they have. *)
LEMMA JoinedHolds ==
  ASSUME IInv, CInv, Merging, NEW p \in DOMAIN calls, Join(p),
         calls'[p].left = calls[p].left, calls'[p].size = calls[p].size,
         calls'[p].pc = "merge", calls'[p].i = 0, calls'[p].j = 0
  PROVE  Holds(p)'
<1>1. /\ calls[p] \in CallType /\ calls[p].pc = "forked" /\ calls[p].todo = {}
      /\ p \in Seq({1, 2}) /\ input' = input /\ memory' = memory
      /\ \A d \in Children(p) : Returned(d)
      /\ Holds(p) /\ \A q \in DOMAIN calls : Holds(q)
  BY DEF Join, IInv, Types, CInv
<1>2. PICK l \in Nat, n \in Nat, m \in Nat :
        l = calls[p].left /\ n = calls[p].size /\ m = Middle(p) /\ m <= n
  <2>1. calls[p].j <= calls[p].size
    BY <1>1 DEF IInv, Bounds
  <2> QED
    BY <1>1, <2>1, RangeFits, MiddleFits
<1>3. PICK into, from : into = memory[Work(p)] /\ from = memory[Work(Append(p, 1))]
  OBVIOUS
<1>4. ASSUME NEW s \in {1, 2}
      PROVE  Image(from, Part(p, s)) = Part(p, s)
  <2>1. /\ Append(p, s) \in DOMAIN calls /\ Addresses(Append(p, s)) = Part(p, s)
    BY <1>1 DEF Holds
  <2>2. Append(p, s) \in Children(p)
    BY <2>1 DEF Children
  <2>3. calls[Append(p, s)].pc = "done" /\ Holds(Append(p, s))
    BY <1>1, <2>1, <2>2 DEF Returned
  <2>4. Content(Append(p, s)) = Part(p, s)
    BY <2>1, <2>3 DEF Holds
  <2>5. memory[Work(Append(p, s))] = from
    BY <1>1, <1>3, Buffers
  <2> QED
    BY <2>1, <2>3, <2>4, <2>5 DEF Content, Image
<1>5. Part(p, 1) = l .. l + m - 1 /\ Part(p, 2) = l + m .. l + n - 1
      /\ Addresses(p) = l .. l + n - 1
  <2>1. /\ First(p, 1) = l /\ Behind(p, 1) = l + m
        /\ First(p, 2) = l + m + 0 /\ Behind(p, 2) = l + n
    BY <1>2 DEF First, Behind
  <2> QED
    BY <1>2, <2>1 DEF Part, Addresses
<1>6. Merged(into, from, l, 0, 0, m, n) = Image(from, Part(p, 1)) \cup Image(from, Part(p, 2))
  BY SMTT(30), <1>2, <1>5, MergedBegins
<1>7. Part(p, 1) \cup Part(p, 2) = Addresses(p)
  BY SMTT(30), <1>2, <1>5
<1>8. /\ Addresses(p)' = Addresses(p) /\ Middle(p)' = m
      /\ Work(p)' = Work(p) /\ Work(Append(p, 1))' = Work(Append(p, 1))
  BY <1>1, <1>2, SameWork DEF Addresses, Middle, Merging
<1>9. Content(p)' = Merged(into, from, l, 0, 0, m, n)
  BY <1>1, <1>2, <1>3, <1>8 DEF Content, Merged
<1>10. Content(p)' = Addresses(p)
  BY <1>4, <1>6, <1>7, <1>9
<1> QED
  BY <1>8, <1>10 DEF Holds

(* What is left of the calls after a join. *)
LEMMA JoinLeaves ==
  ASSUME IInv, NEW p \in DOMAIN calls, Join(p)
  PROVE  /\ p \notin Children(p) /\ <<>> \notin Children(p)
         /\ DOMAIN calls' = DOMAIN calls \ Children(p)
         /\ \A q \in DOMAIN calls' : q # p => calls'[q] = calls[q]
         /\ calls'[p].left = calls[p].left /\ calls'[p].size = calls[p].size
         /\ calls'[p].pc = (IF Merging THEN "merge" ELSE "done") /\ calls'[p].j = 0
         /\ calls'[p].i = 0
<1>1. /\ calls[p] \in CallType /\ calls[p].pc = "forked" /\ Bounds(p) /\ p \in Seq({1, 2})
      /\ input' = input /\ memory' = memory /\ Types /\ <<>> \in DOMAIN calls
  BY DEF Join, IInv, Types
<1>2. p \notin Children(p) /\ <<>> \notin Children(p)
  <2>1. \A s \in {1, 2} : Append(p, s) # p
    BY <1>1, AppendIsCall
  <2>2. \A s \in {1, 2} : Append(p, s) # <<>>
    <3> SUFFICES ASSUME NEW s \in {1, 2} PROVE Append(p, s) # <<>>
      OBVIOUS
    <3>1. Len(Append(p, s)) = Len(p) + 1 /\ Len(p) \in Nat
      BY <1>1, AppendIsCall, LenProperties
    <3> QED
      BY <3>1
  <2> QED
    BY <2>1, <2>2 DEF Children
<1>3. /\ DOMAIN calls' = DOMAIN calls \ Children(p)
      /\ \A q \in DOMAIN calls' : q # p => calls'[q] = calls[q]
  BY DEF Join
<1>4. /\ calls'[p].left = calls[p].left /\ calls'[p].size = calls[p].size
      /\ calls'[p].pc = (IF Merging THEN "merge" ELSE "done") /\ calls'[p].j = 0
      /\ calls'[p].i = 0
  <2>1. PICK l : l = IF Merging THEN "merge" ELSE "done"
    OBVIOUS
  <2>2. PICK y : y = [calls[p] EXCEPT !.pc = l, !.j = 0, !.team = 0]
    OBVIOUS
  <2>3. calls'[p] = y
    BY <1>2, <2>1, <2>2 DEF Join
  <2>4. calls[p].i = 0
    BY <1>1 DEF Bounds
  <2> QED
    BY <1>1, <2>1, <2>2, <2>3, <2>4 DEF CallType
<1> QED
  BY <1>2, <1>3, <1>4

LEMMA JoinContent ==
  ASSUME IInv, CInv, NEW p \in DOMAIN calls, Join(p)
  PROVE  CInv'
<1>1. /\ calls[p] \in CallType /\ calls[p].pc = "forked" /\ Bounds(p) /\ p \in Seq({1, 2})
      /\ input' = input /\ memory' = memory /\ Types /\ <<>> \in DOMAIN calls
  BY DEF Join, IInv, Types
<1>2. p \notin Children(p) /\ <<>> \notin Children(p)
  BY JoinLeaves
<1>3. /\ DOMAIN calls' = DOMAIN calls \ Children(p)
      /\ \A q \in DOMAIN calls' : q # p => calls'[q] = calls[q]
  BY JoinLeaves
<1>4. /\ calls'[p].left = calls[p].left /\ calls'[p].size = calls[p].size
      /\ calls'[p].pc = (IF Merging THEN "merge" ELSE "done") /\ calls'[p].j = 0
      /\ calls'[p].i = 0
  BY JoinLeaves
<1>5. /\ MemoryTypes' /\ Merging' = Merging /\ Items' = Items /\ Elements' = Elements
      /\ \A q : Work(q)' = Work(q)
  BY <1>1, SameWork DEF CInv, MemoryTypes, Items, Elements, key
<1>6. Places'
  <2>1. calls'[<<>>].left = calls[<<>>].left /\ calls'[<<>>].size = calls[<<>>].size
    BY <1>1, <1>2, <1>3, <1>4
  <2>2. ASSUME NEW q \in DOMAIN calls'
        PROVE  /\ calls'[q].pc = "network" => Work(q)' = "main"
               /\ calls'[q].pc = "partition" => calls'[q].j < calls'[q].size
               /\ calls'[q].pc = "forked" /\ ~Merging' => calls'[q].j < calls'[q].size
    BY <1>3, <1>4, <1>5 DEF CInv, Places
  <2> QED
    BY <1>5, <2>1, <2>2 DEF CInv, Places
<1>7. ASSUME Merging, NEW q \in DOMAIN calls' PROVE Holds(q)'
  <2>1. CASE q = p
    BY <1>4, <1>7, <2>1, JoinedHolds
  <2>2. CASE q # p
    <3>1. q \in DOMAIN calls /\ calls'[q] = calls[q] /\ Holds(q) /\ q \in Seq({1, 2})
      BY <1>1, <1>3, <1>7, <2>2 DEF CInv, Types
    <3>2. Middle(q)' = Middle(q) /\ Addresses(q)' = Addresses(q) /\ \A s : Part(q, s)' = Part(q, s)
      BY <1>1, <3>1, SameRange DEF Addresses, Part
    <3>3. Content(q)' = Content(q)
      BY <1>1, <1>5, <3>1, <3>2 DEF Content
    <3>4. ASSUME NEW s \in {1, 2}, Append(q, s) \in DOMAIN calls
          PROVE  /\ Append(q, s) \in DOMAIN calls'
                 /\ Addresses(Append(q, s))' = Addresses(Append(q, s))
      <4>1. Append(q, s) \notin Children(p)
        BY <1>1, <2>2, <3>1, AppendsDiffer DEF Children
      <4>2. /\ calls'[Append(q, s)].left = calls[Append(q, s)].left
            /\ calls'[Append(q, s)].size = calls[Append(q, s)].size
        BY <1>3, <1>4, <3>4, <4>1
      <4> QED
        BY <1>3, <3>4, <4>1, <4>2 DEF Addresses
    <3> QED
      BY <1>1, <3>1, <3>2, <3>3, <3>4 DEF Holds
  <2> QED
    BY <2>1, <2>2
<1> QED
  BY <1>1, <1>5, <1>6, <1>7 DEF CInv

LEMMA InitCInv == Init => CInv
<1> SUFFICES ASSUME Init PROVE CInv
  OBVIOUS
<1>1. /\ DOMAIN calls = {<<>>} /\ calls[<<>>] = Call(0, Items, input.cpus)
      /\ memory = [main |-> [a \in Elements |-> a], tmp |-> [a \in Elements |-> None]]
  BY DEF Init, Items
<1>2. /\ calls[<<>>].left = 0 /\ calls[<<>>].size = Items /\ calls[<<>>].pc = "begin"
  BY <1>1 DEF Call
<1>3. Items \in Nat \ {0} /\ Elements = 0 .. Items - 1
  BY InputFacts DEF Init
<1>4. memory.main = [a \in Elements |-> a] /\ MemoryTypes
  BY <1>1 DEF MemoryTypes
<1>5. Places
  BY <1>1, <1>2 DEF Places
<1>6. Addresses(<<>>) \subseteq Elements
  BY <1>2, <1>3 DEF Addresses
<1>7. \A p \in DOMAIN calls : Holds(p)
  BY <1>1, <1>2, <1>4, <1>6 DEF Holds
<1>8. Image(memory.main, Elements) = Elements
  BY <1>4 DEF Image
<1> QED
  BY <1>4, <1>5, <1>7, <1>8 DEF CInv

LEMMA StutterContent == CInv /\ UNCHANGED vars => CInv'
<1> SUFFICES ASSUME CInv, UNCHANGED vars PROVE CInv'
  OBVIOUS
<1>1. input' = input /\ memory' = memory /\ calls' = calls
  BY DEF vars
<1>2. /\ MemoryTypes' /\ Merging' = Merging /\ Items' = Items /\ Elements' = Elements
      /\ \A q : Work(q)' = Work(q)
  BY <1>1, SameWork DEF CInv, MemoryTypes, Items, Elements, key
<1>3. Places'
  BY <1>1, <1>2 DEF CInv, Places
<1>4. ASSUME NEW q PROVE Holds(q)' = Holds(q)
  <2>1. \A r : Addresses(r)' = Addresses(r)
    BY <1>1 DEF Addresses
  <2>2. Middle(q)' = Middle(q) /\ \A s : Part(q, s)' = Part(q, s)
    BY <1>1, SameRange DEF Part
  <2>3. Content(q)' = Content(q)
    BY <1>1, <1>2, <2>1, <2>2 DEF Content
  <2> QED
    BY <1>1, <2>1, <2>2, <2>3 DEF Holds
<1> QED
  BY <1>1, <1>2, <1>3, <1>4 DEF CInv

LEMMA NextCInv ==
  ASSUME IInv, CInv, [Next]_vars
  PROVE  CInv'
<1>1. CASE UNCHANGED vars
  BY <1>1, StutterContent
<1>2. ASSUME NEW p \in DOMAIN calls, Step(p)
      PROVE  CInv'
  <2>1. CASE BeginNetwork(p) \/ FastSort(p)
    BY <2>1, BeginNetworkContent, FastSortContent
  <2>2. CASE PivotIdx(p) \/ PartitionTurn(p) \/ PartitionEnds(p)
    BY <2>2, PivotContent, PartitionTurnContent, PartitionEndsContent
  <2>3. CASE Divide(p) \/ (\E s \in {1, 2} : BeginSection(p, s)) \/ Join(p)
    BY <2>3, DivideContent, BeginSectionContent, JoinContent
  <2>4. CASE Merge(p)
    BY <2>4, MergeContent
  <2>5. CASE BeginBubbleSort(p) \/ BubbleTurn(p) \/ BubbleRound(p)
    BY <2>5, BubbleContent
  <2> QED
    BY <1>2, <2>1, <2>2, <2>3, <2>4, <2>5 DEF Step
<1> QED
  BY <1>1, <1>2 DEF Next

LEMMA InvariantCInv == Spec => [](IInv /\ CInv)
<1>1. Init => IInv /\ CInv
  BY InitIInv, InitCInv
<1>2. IInv /\ CInv /\ [Next]_vars => (IInv /\ CInv)'
  BY NextIInv, NextCInv
<1> QED
  BY <1>1, <1>2, PTL DEF Spec

(* Merge sort keeps in every range what was there in the beginning, and the other
   algorithms permute the array, in whichever order the threads go on
   (psort_private.hpp:211 to 234). *)
THEOREM ElementsKept == Spec => []NothingLost
<1>1. IInv /\ CInv => NothingLost
  <2> SUFFICES ASSUME IInv, CInv, NEW p \in DOMAIN calls
               PROVE  IF Merging
                      THEN calls[p].pc \in {"merge", "network", "done"} => Content(p) = Addresses(p)
                      ELSE Content(<<>>) = Elements
    BY DEF NothingLost
  <2>1. CASE Merging
    BY <2>1 DEF CInv, Holds
  <2>2. CASE ~Merging
    <3>1. <<>> \in DOMAIN calls /\ calls[<<>>].pc # "merge"
      BY <2>2 DEF IInv, Types, Bounds
    <3>2. Addresses(<<>>) = Elements
      <4>1. calls[<<>>].left = 0 /\ calls[<<>>].size = Items
        BY DEF CInv, Places
      <4>2. Items \in Nat \ {0} /\ Elements = 0 .. Items - 1
        BY InputFacts DEF IInv, Types
      <4> QED
        BY <4>1, <4>2 DEF Addresses
    <3>3. Content(<<>>) = Image(memory.main, Elements)
      BY <2>2, <3>1, <3>2 DEF Content, Work, Image
    <3> QED
      BY <2>2, <3>3 DEF CInv
  <2> QED
    BY <2>1, <2>2
<1> QED
  BY <1>1, InvariantCInv, PTL

(* Every variable stays in its set: what the buffer of merge sort holds when it is
   allocated never gets into the array, and a network is there for each call of
   fast_sort (psort_private.hpp:29). *)
THEOREM TypeCorrect == Spec => []TypeOK
<1>1. IInv /\ CInv => TypeOK
  <2> SUFFICES ASSUME IInv, CInv PROVE TypeOK
    OBVIOUS
  <2>1. input \in Inputs /\ MemoryTypes
    BY DEF IInv, Types, CInv
  <2>2. ASSUME NEW p \in DOMAIN calls
        PROVE  /\ calls[p] \in [left : Elements, size : 1 .. Cardinality(Elements),
                                cpus : 1 .. input.cpus, pc : Labels,
                                i : Nat, j : Nat, k : Nat, team : 0 .. 2, todo : SUBSET {1, 2}]
               /\ calls[p].pc = "network" => calls[p].size <= MaxItems
    <3>1. /\ calls[p] \in CallType /\ calls[p].left + calls[p].size <= Items
          /\ calls[p].cpus <= input.cpus
          /\ calls[p].pc = "network" => calls[p].size <= MaxItems
      BY DEF IInv, Types, Bounds
    <3>2. /\ Items \in Nat \ {0} /\ Elements = 0 .. Items - 1 /\ input.cpus \in Nat
          /\ Items = Cardinality(Elements)
      BY InputFacts DEF IInv, Types, Items
    <3>3. calls[p].left \in Nat /\ calls[p].size \in Nat \ {0} /\ calls[p].cpus \in Nat \ {0}
      BY <3>1 DEF CallType
    <3>4. /\ calls[p].left \in Elements /\ calls[p].size \in 1 .. Cardinality(Elements)
          /\ calls[p].cpus \in 1 .. input.cpus
      BY <3>1, <3>2, <3>3
    <3> QED
      BY <3>1, <3>4 DEF CallType
  <2> QED
    BY <2>1, <2>2 DEF TypeOK, MemoryTypes, Labels
<1> QED
  BY <1>1, InvariantCInv, PTL

-----------------------------------------------------------------------------
(* Quick sort. *)
Value(a) == key[memory.main[a]]

(* RangesOrdered for call p. *)
Ordered(p) ==
  \A a \in Addresses(p), b \in Elements \ Addresses(p) :
    IF b < calls[p].left THEN Value(b) <= Value(a) ELSE Value(a) <= Value(b)

(* Where partition has been in the range of p, and the parts it leaves for the
   sections. *)
Parted(p) ==
  LET c == calls[p]
      last == c.left + c.size - 1
      pivot == c.left + c.j
  IN  /\ c.pc = "partition" => /\ \A a \in c.left .. pivot - 1 : Value(a) < Value(last)
                               /\ \A a \in pivot .. c.left + c.i - 1 : Value(last) <= Value(a)
      /\ c.pc = "forked" => /\ \A a \in c.left .. pivot - 1 : Value(a) <= Value(pivot)
                            /\ \A a \in pivot .. last : Value(pivot) <= Value(a)

(* The inductive invariant of RangesOrdered. *)
OInv == input.algorithm = "quick_sort" => \A p \in DOMAIN calls : Ordered(p) /\ Parted(p)

LEMMA ValueIsKey ==
  ASSUME IInv, CInv
  PROVE  \A a \in Elements : memory.main[a] \in Elements /\ Value(a) \in Int
<1>1. key \in [Elements -> Int] /\ memory.main \in [Elements -> Elements]
  BY InputFacts, MemoryFields DEF CInv, IInv, Types
<1> QED
  BY <1>1 DEF Value

(* A call that runs is apart from any other, or in a section of it. *)
LEMMA RunningWhere ==
  ASSUME IInv, NEW p \in DOMAIN calls, NEW q \in DOMAIN calls, p # q,
         calls[p].pc # "forked"
  PROVE  \/ Apart(p, q)
         \/ calls[q].pc = "forked" /\ \E s \in {1, 2} : Addresses(p) \subseteq Part(q, s)
<1>1. Types /\ Tree
  BY DEF IInv
<1>2. ~Below(q, p)
  BY <1>1, CallerWaits DEF Below
<1>3. ASSUME Below(p, q)
      PROVE  calls[q].pc = "forked" /\ \E s \in {1, 2} : Addresses(p) \subseteq Part(q, s)
  <2>1. PICK s \in {1, 2} : calls[q].pc = "forked" /\ Within(p, q, s)
    BY <1>1, <1>3, CallerWaits DEF Below
  <2>2. First(q, s) \in Nat /\ Behind(q, s) \in Nat
    <3>1. calls[q] \in CallType /\ calls[q].j <= calls[q].size
      BY <2>1 DEF IInv, Types, Bounds
    <3> QED
      BY <3>1, SectionsApart
  <2>3. calls[p].left \in Nat /\ calls[p].size \in Nat
    BY RangeFits
  <2>4. Addresses(p) \subseteq Part(q, s)
    BY <2>1, <2>2, <2>3 DEF Addresses, Part, Within
  <2> QED
    BY <2>1, <2>4
<1> QED
  BY <1>2, <1>3 DEF IInv, Nested

(* Moves(p), in values. *)
LEMMA ValuesMove ==
  ASSUME IInv, CInv, NEW p \in DOMAIN calls, Moves(p), input' = input
  PROVE  \E f \in [Elements -> Elements] :
           /\ \A a \in Elements \ Addresses(p) : f[a] = a
           /\ \A a \in Addresses(p) : f[a] \in Addresses(p)
           /\ \A a \in Elements : Value(a)' = Value(f[a])
<1>1. PICK f \in [Elements -> Elements] :
        /\ \A a \in Elements \ Addresses(p) : f[a] = a
        /\ \A a \in Addresses(p) : f[a] \in Addresses(p)
        /\ memory' = [main |-> [a \in Elements |-> memory.main[f[a]]], tmp |-> memory.tmp]
  BY DEF Moves
<1>2. \A a \in Elements : memory'.main[a] = memory.main[f[a]]
  BY <1>1
<1>3. \A a \in Elements : Value(a)' = Value(f[a])
  BY <1>2 DEF Value, key
<1> QED
  BY <1>1, <1>3

(* What runs moves no element into the range of q or out of it, nor across it. *)
LEMMA OrderedKept ==
  ASSUME IInv, CInv, NEW p \in DOMAIN calls, calls[p].pc # "forked", Moves(p), input' = input,
         NEW q \in DOMAIN calls, Ordered(q),
         calls'[q].left = calls[q].left, calls'[q].size = calls[q].size
  PROVE  Ordered(q)'
<1>1. PICK f \in [Elements -> Elements] :
        /\ \A a \in Elements \ Addresses(p) : f[a] = a
        /\ \A a \in Addresses(p) : f[a] \in Addresses(p)
        /\ \A a \in Elements : Value(a)' = Value(f[a])
  BY ValuesMove
<1>2. PICK l \in Nat, n \in Nat : /\ l = calls[q].left /\ n = calls[q].size
                                  /\ Addresses(q) = l .. l + n - 1
  BY RangeFits DEF Addresses
<1>3. PICK m \in Nat, o \in Nat : /\ m = calls[p].left /\ o = calls[p].size
                                  /\ Addresses(p) = m .. m + o - 1
  BY RangeFits DEF Addresses
<1>4. Elements \subseteq Nat /\ Addresses(q) \subseteq Elements /\ Addresses(p) \subseteq Elements
  <2>1. Items \in Nat \ {0} /\ Elements = 0 .. Items - 1
    BY InputFacts DEF IInv, Types
  <2> QED
    BY <2>1, RangeFits
<1>5. m + o <= l \/ l + n <= m \/ Addresses(p) \subseteq Addresses(q)
  <2>1. CASE p = q
    BY <2>1
  <2>2. CASE p # q /\ Apart(p, q)
    BY <1>2, <1>3, <2>2 DEF Apart
  <2>3. CASE calls[q].pc = "forked" /\ \E s \in {1, 2} : Addresses(p) \subseteq Part(q, s)
    <3>1. PICK s \in {1, 2} : Addresses(p) \subseteq Part(q, s)
      BY <2>3
    <3>2. calls[q] \in CallType /\ calls[q].j <= calls[q].size
      BY <2>3 DEF IInv, Types, Bounds
    <3>3. First(q, s) \in Nat /\ Behind(q, s) \in Nat /\ l <= First(q, s) /\ Behind(q, s) <= l + n
      BY <1>2, <3>2, SectionsApart
    <3>4. Part(q, s) \subseteq Addresses(q)
      BY <1>2, <3>3 DEF Part
    <3> QED
      BY <3>1, <3>4
  <2> QED
    BY <2>1, <2>2, <2>3, RunningWhere
<1>6. /\ \A a \in Addresses(q) : f[a] \in Addresses(q)
      /\ \A b \in Elements \ Addresses(q) : f[b] \in Elements \ Addresses(q) /\ (f[b] < l <=> b < l)
  <2>1. ASSUME NEW a \in Addresses(q) PROVE f[a] \in Addresses(q)
    <3>1. CASE a \in Addresses(p)
      <4>1. a \in Nat /\ m <= a /\ a < m + o /\ l <= a /\ a < l + n
        BY <1>2, <1>3, <2>1, <3>1
      <4>2. Addresses(p) \subseteq Addresses(q)
        BY <1>5, <4>1
      <4> QED
        BY <1>1, <3>1, <4>2
    <3>2. CASE a \notin Addresses(p)
      BY <1>1, <1>4, <2>1, <3>2
    <3> QED
      BY <3>1, <3>2
  <2>2. ASSUME NEW b \in Elements \ Addresses(q)
        PROVE  f[b] \in Elements \ Addresses(q) /\ (f[b] < l <=> b < l)
    <3>1. CASE b \in Addresses(p)
      <4>1. PICK x : x = f[b]
        OBVIOUS
      <4>2. x \in Addresses(p) /\ x \in Elements
        BY <1>1, <1>4, <3>1, <4>1
      <4>3. b \in Nat /\ m <= b /\ b < m + o /\ x \in Nat /\ m <= x /\ x < m + o
        BY <1>3, <3>1, <4>2
      <4>4. m + o <= l \/ l + n <= m
        BY <1>5, <2>2, <3>1
      <4>5. x \notin Addresses(q) /\ (x < l <=> b < l)
        BY <1>2, <4>3, <4>4
      <4> QED
        BY <4>1, <4>2, <4>5
    <3>2. CASE b \notin Addresses(p)
      BY <1>1, <2>2, <3>2
    <3> QED
      BY <3>1, <3>2
  <2> QED
    BY <2>1, <2>2
<1>7. ASSUME NEW a \in Addresses(q), NEW b \in Elements \ Addresses(q)
      PROVE  IF b < l THEN Value(b)' <= Value(a)' ELSE Value(a)' <= Value(b)'
  <2>1. PICK x \in Addresses(q), y \in Elements \ Addresses(q) :
          x = f[a] /\ y = f[b] /\ (y < l <=> b < l)
    BY <1>6
  <2>2. Value(a)' = Value(x) /\ Value(b)' = Value(y)
    BY <1>1, <1>4, <2>1
  <2>3. IF y < l THEN Value(y) <= Value(x) ELSE Value(x) <= Value(y)
    BY <1>2 DEF Ordered
  <2> QED
    BY <2>1, <2>2, <2>3
<1>8. Addresses(q)' = Addresses(q) /\ Elements' = Elements
  BY DEF Addresses, Elements, key
<1> QED
  BY <1>2, <1>7, <1>8 DEF Ordered

(* Nor across the pivot of another call. *)
LEMMA PartedKept ==
  ASSUME IInv, CInv, ~Merging, NEW p \in DOMAIN calls, calls[p].pc # "forked", Moves(p),
         input' = input, NEW q \in DOMAIN calls, q # p, Parted(q), calls'[q] = calls[q]
  PROVE  Parted(q)'
<1>1. PICK f \in [Elements -> Elements] :
        /\ \A a \in Elements \ Addresses(p) : f[a] = a
        /\ \A a \in Addresses(p) : f[a] \in Addresses(p)
        /\ \A a \in Elements : Value(a)' = Value(f[a])
  BY ValuesMove
<1>2. PICK c : c = calls[q]
  OBVIOUS
<1>3. PICK l \in Nat, n \in Nat, i \in Nat, j \in Nat :
        /\ l = c.left /\ n = c.size /\ i = c.i /\ j = c.j /\ n # 0
        /\ Addresses(q) = l .. l + n - 1 /\ Addresses(q) \subseteq Elements
  BY <1>2, RangeFits DEF Addresses
<1>4. PICK m \in Nat, o \in Nat : /\ m = calls[p].left /\ o = calls[p].size
                                  /\ Addresses(p) = m .. m + o - 1
  BY RangeFits DEF Addresses
<1>5. ASSUME Apart(p, q), NEW a \in Addresses(q) PROVE Value(a)' = Value(a)
  <2>1. m + o <= l \/ l + n <= m
    BY <1>2, <1>3, <1>4, <1>5 DEF Apart
  <2>2. a \in Nat /\ l <= a /\ a < l + n
    BY <1>3, <1>5
  <2>3. a \notin Addresses(p)
    BY <1>4, <2>1, <2>2
  <2> QED
    BY <1>1, <1>3, <1>5, <2>3
<1>6. CASE c.pc = "partition"
  <2>1. Apart(p, q) /\ j <= i /\ i <= n
    BY <1>2, <1>3, <1>6, RunningWhere DEF IInv, Bounds
  <2>2. /\ \A a \in l .. l + j - 1 : Value(a) < Value(l + n - 1)
        /\ \A a \in l + j .. l + i - 1 : Value(l + n - 1) <= Value(a)
    BY <1>2, <1>3, <1>6 DEF Parted
  <2>3. /\ l .. l + j - 1 \subseteq Addresses(q) /\ l + j .. l + i - 1 \subseteq Addresses(q)
        /\ l + n - 1 \in Addresses(q)
    <3>1. PICK S : S = Addresses(q)
      OBVIOUS
    <3>2. S = l .. l + n - 1
      BY <1>3, <3>1
    <3>3. /\ l .. l + j - 1 \subseteq S /\ l + j .. l + i - 1 \subseteq S
          /\ l + n - 1 \in S
      BY SMTT(30), <1>3, <2>1, <3>2
    <3> QED
      BY <3>1, <3>3
  <2>4. PICK e \in Addresses(q) : e = l + n - 1
    BY <2>3
  <2>5. /\ \A a \in l .. l + j - 1 : Value(a)' < Value(e)'
        /\ \A a \in l + j .. l + i - 1 : Value(e)' <= Value(a)'
    BY <1>5, <2>1, <2>2, <2>3, <2>4
  <2> QED
    BY <1>2, <1>3, <1>6, <2>4, <2>5 DEF Parted
<1>7. CASE c.pc = "forked"
  <2>1. j < n
    BY <1>2, <1>3, <1>7 DEF CInv, Places
  <2>2. PICK pivot \in Addresses(q), last \in Addresses(q) : pivot = l + j /\ last = l + n - 1
    BY <1>3, <2>1
  <2>3. /\ \A a \in l .. pivot - 1 : Value(a) <= Value(pivot)
        /\ \A a \in pivot .. last : Value(pivot) <= Value(a)
    BY <1>2, <1>3, <1>7, <2>2 DEF Parted
  <2>4. Part(q, 1) = l .. pivot - 1 /\ Part(q, 2) = pivot + 1 .. last
    <3>1. /\ First(q, 1) = l /\ Behind(q, 1) = pivot
          /\ First(q, 2) = pivot + 1 /\ Behind(q, 2) = l + n
      BY <1>2, <1>3, <2>2 DEF First, Behind, Middle
    <3> QED
      BY <2>2, <3>1 DEF Part
  <2>5. \A a \in Addresses(q) : Value(a)' = Value(f[a])
    BY <1>1, <1>3
  <2>6. Part(q, 1) \subseteq Addresses(q) /\ pivot .. last \subseteq Addresses(q)
    BY SMTT(30), <1>3, <2>1, <2>2, <2>4
  <2>7. /\ \A a \in l .. pivot - 1 : f[a] \in l .. pivot - 1
        /\ f[pivot] = pivot
        /\ \A a \in pivot .. last : f[a] \in pivot .. last
    <3>1. CASE Apart(p, q)
      <4>1. m + o <= l \/ l + n <= m
        BY <1>2, <1>3, <1>4, <3>1 DEF Apart
      <4>2. \A a \in Addresses(q) : a \notin Addresses(p)
        BY <1>3, <1>4, <4>1
      <4>3. \A a \in Addresses(q) : f[a] = a
        BY <1>1, <1>3, <4>2
      <4> QED
        BY <2>4, <2>6, <4>3
    <3>2. CASE Addresses(p) \subseteq Part(q, 1)
      <4>1. \A a \in pivot .. last : a \notin Addresses(p)
        BY <2>2, <1>3, <2>4, <3>2
      <4>2. \A a \in pivot .. last : f[a] = a
        BY <1>1, <1>3, <2>6, <4>1
      <4>3. \A a \in Part(q, 1) : f[a] \in Part(q, 1)
        BY <1>1, <1>3, <2>6, <3>2
      <4>4. pivot \in pivot .. last
        BY <1>3, <2>1, <2>2
      <4> QED
        BY <2>4, <4>2, <4>3, <4>4
    <3>3. CASE Addresses(p) \subseteq Part(q, 2)
      <4>1. \A a \in Part(q, 1) : a \notin Addresses(p)
        BY <2>2, <1>3, <2>4, <3>3
      <4>2. pivot \notin Addresses(p) /\ pivot \in pivot .. last
            /\ Part(q, 2) \subseteq pivot .. last
        <5>1. pivot \in Nat /\ last \in Nat /\ pivot <= last
          BY <1>3, <2>1, <2>2
        <5>2. /\ pivot \notin pivot + 1 .. last /\ pivot \in pivot .. last
              /\ pivot + 1 .. last \subseteq pivot .. last
          BY <5>1
        <5> QED
          BY <2>4, <3>3, <5>2
      <4>3. \A a \in Part(q, 1) : f[a] = a
        BY <1>1, <1>3, <2>6, <4>1
      <4>4. f[pivot] = pivot
        BY <1>1, <1>3, <4>2
      <4>5. \A a \in pivot .. last : f[a] \in pivot .. last
        BY <1>1, <1>3, <2>6, <3>3, <4>2
      <4> QED
        BY <2>4, <4>3, <4>4, <4>5
    <3> QED
      BY <3>1, <3>2, <3>3, RunningWhere
  <2>8. /\ \A a \in l .. pivot - 1 : Value(a)' <= Value(pivot)'
        /\ \A a \in pivot .. last : Value(pivot)' <= Value(a)'
    BY <2>3, <2>4, <2>5, <2>6, <2>7
  <2> QED
    BY <1>2, <1>3, <1>7, <2>2, <2>8 DEF Parted
<1> QED
  BY <1>2, <1>6, <1>7 DEF Parted

LEMMA SameValues ==
  ASSUME memory' = memory, input' = input
  PROVE  \A a : Value(a)' = Value(a)
BY DEF Value, key

LEMMA ExchangeValues ==
  ASSUME MemoryTypes, input' = input, NEW a \in Elements, NEW b \in Elements,
         Exchange("main", a, b)
  PROVE  /\ Value(a)' = Value(b) /\ Value(b)' = Value(a)
         /\ \A x \in Elements : x # a /\ x # b => Value(x)' = Value(x)
<1>1. memory'.main = [memory.main EXCEPT ![a] = memory.main[b], ![b] = memory.main[a]]
  BY ExchangeIsSwap
<1>2. memory.main \in [Elements -> Elements]
  BY MemoryFields
<1>3. /\ memory'.main[a] = memory.main[b] /\ memory'.main[b] = memory.main[a]
      /\ \A x \in Elements : x # a /\ x # b => memory'.main[x] = memory.main[x]
  BY <1>1, <1>2
<1> QED
  BY <1>3 DEF Value, key

LEMMA QuietOrdered ==
  ASSUME memory' = memory, input' = input, NEW q, Ordered(q),
         calls'[q].left = calls[q].left, calls'[q].size = calls[q].size
  PROVE  Ordered(q)'
<1>1. Addresses(q)' = Addresses(q) /\ Elements' = Elements
  BY DEF Addresses, Elements, key
<1> QED
  BY <1>1, SameValues DEF Ordered

LEMMA QuietParted ==
  ASSUME memory' = memory, input' = input, NEW q, Parted(q),
         \/ calls'[q] = calls[q]
         \/ /\ calls'[q].pc = "forked" /\ calls[q].pc = "forked" /\ calls'[q].j = calls[q].j
            /\ calls'[q].left = calls[q].left /\ calls'[q].size = calls[q].size
         \/ calls'[q].pc \notin {"partition", "forked"}
  PROVE  Parted(q)'
<1>1. CASE calls'[q] = calls[q]
  BY <1>1, SameValues DEF Parted
<1>2. CASE /\ calls'[q].pc = "forked" /\ calls[q].pc = "forked" /\ calls'[q].j = calls[q].j
           /\ calls'[q].left = calls[q].left /\ calls'[q].size = calls[q].size
  BY <1>2, SameValues DEF Parted
<1>3. CASE calls'[q].pc \notin {"partition", "forked"}
  BY <1>3 DEF Parted
<1> QED
  BY <1>1, <1>2, <1>3

(* The steps of calls that run. *)
LEMMA MovingOrdered ==
  ASSUME IInv, CInv, OInv, input.algorithm = "quick_sort", NEW p \in DOMAIN calls,
         calls[p].pc # "forked", Moves(p), input' = input,
         NEW x, Update(p, x), x.left = calls[p].left, x.size = calls[p].size, Parted(p)'
  PROVE  OInv'
<1>1. /\ DOMAIN calls' = DOMAIN calls /\ calls'[p] = x
      /\ \A q \in DOMAIN calls : q # p => calls'[q] = calls[q]
  BY DEF Update, IInv, Types
<1>2. ~Merging
  BY DEF Merging
<1>3. ASSUME NEW q \in DOMAIN calls PROVE Ordered(q)' /\ Parted(q)'
  <2>1. Ordered(q) /\ Parted(q) /\ calls'[q].left = calls[q].left /\ calls'[q].size = calls[q].size
    BY <1>1 DEF OInv
  <2>2. Ordered(q)'
    BY <2>1, OrderedKept
  <2>3. CASE q # p
    BY <1>1, <1>2, <2>1, <2>2, <2>3, PartedKept
  <2> QED
    BY <2>2, <2>3
<1> QED
  BY <1>1, <1>3 DEF OInv

LEMMA PartitionTurnParts ==
  ASSUME IInv, CInv, NEW p \in DOMAIN calls, PartitionTurn(p), Parted(p)
  PROVE  Parted(p)'
<1>1. PICK c : c = calls[p]
  OBVIOUS
<1>2. PICK l \in Nat, n \in Nat, i \in Nat, j \in Nat :
        /\ l = c.left /\ n = c.size /\ i = c.i /\ j = c.j
        /\ Addresses(p) = l .. l + n - 1 /\ Addresses(p) \subseteq Elements
  BY <1>1, RangeFits DEF Addresses
<1>3. /\ c.pc = "partition" /\ input' = input /\ i < n /\ j < n /\ j <= i /\ MemoryTypes
  BY <1>1, <1>2 DEF PartitionTurn, CInv, Places, IInv, Bounds
<1>4. PICK last \in Addresses(p), x \in Addresses(p), y \in Addresses(p) :
        last = l + n - 1 /\ x = l + i /\ y = l + j
  <2>1. l + n - 1 \in l .. l + n - 1 /\ l + i \in l .. l + n - 1 /\ l + j \in l .. l + n - 1
    BY <1>3
  <2> QED
    BY <1>2, <2>1
<1>5. /\ \A a \in l .. y - 1 : Value(a) < Value(last)
      /\ \A a \in y .. x - 1 : Value(last) <= Value(a)
  <2>1. /\ \A a \in l .. l + j - 1 : Value(a) < Value(l + n - 1)
        /\ \A a \in l + j .. l + i - 1 : Value(l + n - 1) <= Value(a)
    BY SMTT(30), <1>1, <1>2, <1>3 DEF Parted
  <2> QED
    BY <1>4, <2>1
<1>6. \A a \in Addresses(p) : Value(a) \in Int
  BY <1>2, ValueIsKey
<1>7. /\ calls'[p].left = l /\ calls'[p].size = n /\ calls'[p].pc = "partition"
      /\ calls'[p].i = i + 1
      /\ calls'[p].j = IF Value(x) < Value(last) THEN j + 1 ELSE j
  <2>1. PICK z \in CallType :
          /\ Update(p, z) /\ z.left = c.left /\ z.size = c.size /\ z.pc = "partition"
          /\ z.i = c.i + 1 /\ z.j = IF Value(x) < Value(last) THEN c.j + 1 ELSE c.j
    <3>1. Value(x) = key[memory.main[c.left + c.i]] /\ Value(last) = key[memory.main[c.left + c.size - 1]]
      BY <1>2, <1>4 DEF Value
    <3> QED
      BY <1>1, <3>1, TurnExists
  <2>2. calls'[p] = z
    BY <2>1 DEF Update, IInv, Types
  <2> QED
    BY <1>2, <2>1, <2>2
<1>8. CASE Value(x) < Value(last)
  <2>1. Exchange("main", x, y)
    BY <1>1, <1>2, <1>4, <1>8 DEF PartitionTurn, Value
  <2>2. /\ Value(x)' = Value(y) /\ Value(y)' = Value(x)
        /\ \A a \in Elements : a # x /\ a # y => Value(a)' = Value(a)
    BY <1>2, <1>3, <2>1, ExchangeValues
  <2>3. x # last
    BY <1>6, <1>8
  <2>4. x < last /\ y <= x /\ l <= y
    <3>1. i # n - 1
      BY <1>4, <2>3
    <3>2. i <= n - 2 /\ j <= i /\ 0 <= j
      BY <1>3, <3>1
    <3> QED
      BY <1>4, <3>2
  <2>5. Value(last)' = Value(last)
    <3>1. last \in Elements /\ last # x /\ last # y
      BY <1>2, <1>4, <2>4
    <3> QED
      BY <2>2, <3>1
  <2>6. ASSUME NEW a \in l .. y PROVE Value(a)' < Value(last)'
    <3>1. CASE a = y
      BY <1>8, <2>2, <2>5, <3>1
    <3>2. CASE a # y
      <4>1. a \in l .. y - 1 /\ a # x /\ a \in Addresses(p)
        BY SMTT(30), <1>2, <1>4, <2>4, <2>6, <3>2
      <4> QED
        BY <1>2, <1>5, <2>2, <2>5, <3>2, <4>1
    <3> QED
      BY <3>1, <3>2
  <2>7. ASSUME NEW a \in y + 1 .. x PROVE Value(last)' <= Value(a)'
    <3>1. CASE a = x
      <4>1. y \in y .. x - 1
        BY <1>2, <1>4, <2>4, <2>7
      <4> QED
        BY <1>5, <2>2, <2>5, <3>1, <4>1
    <3>2. CASE a # x
      <4>1. a \in Nat /\ y < a /\ a < x /\ l <= a /\ a < l + n
        BY <1>3, <1>4, <2>4, <2>7, <3>2
      <4>2. a \in y .. x - 1 /\ a # y /\ a \in Addresses(p)
        <5>1. a \in l .. l + n - 1
          BY <4>1
        <5>2. a \in y .. x - 1 /\ a # y
          BY <1>4, <4>1
        <5> QED
          BY <1>2, <5>1, <5>2
      <4> QED
        BY <1>2, <1>5, <2>2, <2>5, <3>2, <4>2
    <3> QED
      BY <3>1, <3>2
  <2>8. calls'[p].j = j + 1
    BY <1>7, <1>8
  <2>9. /\ l + (j + 1) - 1 = y /\ l + (j + 1) = y + 1 /\ l + (i + 1) - 1 = x
    BY <1>4
  <2> QED
    BY <1>4, <1>7, <2>6, <2>7, <2>8, <2>9 DEF Parted
<1>9. CASE ~(Value(x) < Value(last))
  <2>1. memory' = memory
    BY <1>1, <1>2, <1>4, <1>9 DEF PartitionTurn, Value
  <2>2. Value(last) <= Value(x)
    BY <1>6, <1>9
  <2>3. ASSUME NEW a \in y .. x PROVE Value(last) <= Value(a)
    <3>1. a = x \/ a \in y .. x - 1
      BY <1>2, <1>4, <2>3
    <3> QED
      BY <1>5, <2>2, <3>1
  <2>4. calls'[p].j = j
    BY <1>7, <1>9
  <2>5. \A a : Value(a)' = Value(a)
    BY <1>3, <2>1, SameValues
  <2>6. l + (i + 1) - 1 = x
    BY <1>2, <1>4
  <2> QED
    BY <1>4, <1>5, <1>7, <2>3, <2>4, <2>5, <2>6 DEF Parted
<1> QED
  BY <1>8, <1>9

LEMMA PartitionEndsParts ==
  ASSUME IInv, CInv, NEW p \in DOMAIN calls, PartitionEnds(p), Parted(p)
  PROVE  Parted(p)'
<1>1. PICK c : c = calls[p]
  OBVIOUS
<1>2. PICK l \in Nat, n \in Nat, j \in Nat :
        /\ l = c.left /\ n = c.size /\ j = c.j
        /\ Addresses(p) = l .. l + n - 1 /\ Addresses(p) \subseteq Elements
  BY <1>1, RangeFits DEF Addresses
<1>3. /\ c.pc = "partition" /\ input' = input /\ c.i = n /\ j < n /\ MemoryTypes /\ Fork(p)
  BY <1>1, <1>2 DEF PartitionEnds, CInv, Places
<1>4. PICK last \in Addresses(p), y \in Addresses(p) : last = l + n - 1 /\ y = l + j
  <2>1. l + n - 1 \in l .. l + n - 1 /\ l + j \in l .. l + n - 1
    BY <1>3
  <2> QED
    BY <1>2, <2>1
<1>5. /\ \A a \in l .. y - 1 : Value(a) < Value(last)
      /\ \A a \in y .. last : Value(last) <= Value(a)
  BY <1>1, <1>2, <1>3, <1>4 DEF Parted
<1>6. \A a \in Addresses(p) : Value(a) \in Int
  BY <1>2, ValueIsKey
<1>7. /\ calls'[p].left = l /\ calls'[p].size = n /\ calls'[p].pc = "forked"
      /\ calls'[p].j = j
  <2>1. PICK z \in CallType : /\ Update(p, z) /\ z.left = c.left /\ z.size = c.size
                              /\ z.pc = "forked" /\ z.j = c.j
    BY <1>1, <1>3, ForkExists
  <2>2. calls'[p] = z
    BY <2>1 DEF Update, IInv, Types
  <2> QED
    BY <1>2, <2>1, <2>2
<1>8. /\ Value(y)' = Value(last) /\ Value(last)' = Value(y)
      /\ \A a \in Elements : a # y /\ a # last => Value(a)' = Value(a)
  <2>1. Exchange("main", y, last)
    BY <1>1, <1>2, <1>4 DEF PartitionEnds
  <2> QED
    BY <1>2, <1>3, <2>1, ExchangeValues
<1>9. ASSUME NEW a \in l .. y - 1 PROVE Value(a)' <= Value(y)'
  <2>1. a \in Addresses(p) /\ a # y /\ a # last
    BY <1>2, <1>3, <1>4, <1>9
  <2>2. Value(a) < Value(last) /\ Value(a) \in Int /\ Value(last) \in Int
    BY <1>5, <1>6, <1>9, <2>1
  <2> QED
    BY <1>2, <1>8, <2>1, <2>2
<1>10. ASSUME NEW a \in y .. last PROVE Value(y)' <= Value(a)'
  <2>1. a \in Addresses(p) /\ y \in y .. last
    BY <1>2, <1>3, <1>4, <1>10
  <2>2. Value(last) <= Value(a) /\ Value(last) <= Value(y) /\ Value(last) \in Int
    BY <1>5, <1>6, <1>10, <2>1
  <2>3. CASE a = y
    BY <1>8, <2>2, <2>3
  <2>4. CASE a = last
    BY <1>8, <2>2, <2>4
  <2>5. CASE a # y /\ a # last
    BY <1>2, <1>8, <2>1, <2>2, <2>5
  <2> QED
    BY <2>3, <2>4, <2>5
<1> QED
  BY <1>4, <1>7, <1>9, <1>10 DEF Parted

(* The parts are apart from each other in values, and so is the pivot. *)
LEMMA SectionOrdered ==
  ASSUME IInv, CInv, ~Merging, NEW p \in DOMAIN calls, calls[p].pc = "forked",
         Ordered(p), Parted(p), NEW s \in {1, 2},
         NEW a \in Part(p, s), NEW b \in Elements \ Part(p, s)
  PROVE  IF b < First(p, s) THEN Value(b) <= Value(a) ELSE Value(a) <= Value(b)
<1>1. PICK l \in Nat, n \in Nat, j \in Nat :
        /\ l = calls[p].left /\ n = calls[p].size /\ j = calls[p].j
        /\ Addresses(p) = l .. l + n - 1 /\ Addresses(p) \subseteq Elements
  BY RangeFits DEF Addresses
<1>2. j < n
  BY <1>1 DEF CInv, Places
<1>3. PICK pivot \in Nat, last \in Nat : pivot = l + j /\ last = l + n - 1
  BY <1>2
<1>4. /\ \A x \in l .. pivot - 1 : Value(x) <= Value(pivot)
      /\ \A x \in pivot .. last : Value(pivot) <= Value(x)
  BY <1>1, <1>3 DEF Parted
<1>5. /\ First(p, 1) = l /\ Behind(p, 1) = pivot
      /\ First(p, 2) = pivot + 1 /\ Behind(p, 2) = l + n
  BY <1>1, <1>3 DEF First, Behind, Middle
<1>6. Part(p, 1) = l .. pivot - 1 /\ Part(p, 2) = pivot + 1 .. last
  BY <1>3, <1>5 DEF Part
<1>7. b \in Nat
  <2>1. Items \in Nat \ {0} /\ Elements = 0 .. Items - 1
    BY InputFacts DEF IInv, Types
  <2> QED
    BY <2>1
<1>8. a \in l .. last /\ First(p, s) \in l .. last
  <2>1. CASE s = 1
    BY <1>2, <1>3, <1>5, <1>6, <2>1
  <2>2. CASE s = 2
    <3>1. a \in Nat /\ pivot < a /\ a <= last
      BY <1>3, <1>6, <2>2
    <3> QED
      BY <1>2, <1>3, <1>5, <2>2, <3>1
  <2> QED
    BY <2>1, <2>2
<1>9. /\ \A x \in Elements : Value(x) \in Int
      /\ a \in Elements /\ pivot \in Elements
  <2>1. l .. last = Addresses(p) /\ pivot \in l .. last
    BY <1>1, <1>2, <1>3
  <2> QED
    BY <1>1, <1>8, <2>1, ValueIsKey
<1>10. CASE b \notin Addresses(p)
  <2>1. a \in Addresses(p) /\ b \in Elements \ Addresses(p)
    BY <1>1, <1>3, <1>8, <1>10
  <2>2. IF b < l THEN Value(b) <= Value(a) ELSE Value(a) <= Value(b)
    BY <1>1, <2>1 DEF Ordered
  <2>3. b < First(p, s) <=> b < l
    <3>1. ~(b \in l .. last)
      BY <1>1, <1>3, <1>10
    <3> QED
      BY <1>7, <1>8, <3>1
  <2> QED
    BY <2>2, <2>3
<1>11. CASE b \in Addresses(p)
  <2>1. b \in l .. last
    BY <1>1, <1>3, <1>11
  <2>2. CASE s = 1
    <3>1. a \in l .. pivot - 1 /\ b \in pivot .. last
      BY <1>3, <1>6, <2>1, <2>2
    <3>2. Value(a) <= Value(pivot) /\ Value(pivot) <= Value(b)
      BY <1>4, <3>1
    <3>3. ~(b < First(p, s))
      BY <1>5, <2>1, <2>2
    <3> QED
      BY <1>9, <3>2, <3>3
  <2>3. CASE s = 2
    <3>1. a \in Nat /\ pivot < a /\ a <= last /\ b \in l .. pivot
      BY <1>3, <1>6, <2>1, <2>3
    <3>2. a \in pivot .. last /\ (b = pivot \/ b \in l .. pivot - 1)
      BY <1>3, <3>1
    <3>3. Value(pivot) <= Value(a) /\ Value(b) <= Value(pivot)
      BY <1>4, <1>9, <3>2
    <3>4. b < First(p, s)
      BY <1>5, <2>3, <3>1
    <3> QED
      <4>1. Value(a) \in Int /\ Value(b) \in Int /\ Value(pivot) \in Int
        BY <1>9
      <4>2. Value(b) <= Value(a)
        BY <3>3, <4>1
      <4> QED
        BY <3>4, <4>2
  <2> QED
    BY <2>2, <2>3
<1> QED
  BY <1>10, <1>11

LEMMA BeginSectionOrdered ==
  ASSUME IInv, CInv, OInv, input.algorithm = "quick_sort", NEW p \in DOMAIN calls,
         NEW s \in {1, 2}, BeginSection(p, s)
  PROVE  OInv'
<1>1. PICK n : n = Append(p, s)
  OBVIOUS
<1>2. /\ calls[p].pc = "forked" /\ input' = input /\ memory' = memory /\ ~Merging
      /\ \A q \in DOMAIN calls : Ordered(q) /\ Parted(q)
  BY DEF BeginSection, Merging, OInv
<1>3. /\ n \notin DOMAIN calls /\ DOMAIN calls' = DOMAIN calls \cup {n}
      /\ calls'[n] = Section(p, s)
      /\ \A q \in DOMAIN calls : q # p => calls'[q] = calls[q]
      /\ calls'[p].left = calls[p].left /\ calls'[p].size = calls[p].size
      /\ calls'[p].j = calls[p].j /\ calls'[p].pc = "forked"
  BY <1>1, SectionBegins
<1>4. /\ Section(p, s).left = First(p, s)
      /\ Section(p, s).left + Section(p, s).size = Behind(p, s)
      /\ Section(p, s).pc = "begin"
  BY SectionBegins
<1>5. Ordered(n)'
  <2>1. Addresses(n)' = Part(p, s) /\ calls'[n].left = First(p, s) /\ Elements' = Elements
    <3>1. PICK c : c = Section(p, s)
      OBVIOUS
    <3>2. /\ c.left = First(p, s) /\ c.left + c.size = Behind(p, s) /\ calls'[n] = c
          /\ c \in CallType
      BY <1>3, <1>4, <3>1, SectionBegins
    <3>3. Addresses(n)' = c.left .. c.left + c.size - 1
      BY <3>2 DEF Addresses
    <3>4. Elements' = Elements
      BY <1>2 DEF Elements, key
    <3>5. PICK e : e = Behind(p, s)
      OBVIOUS
    <3>6. c.left + c.size - 1 = e - 1
      <4>1. c.left \in Nat /\ c.size \in Nat
        BY <3>2 DEF CallType
      <4> QED
        BY <3>2, <3>5, <4>1
    <3>7. Part(p, s) = c.left .. e - 1
      BY <3>2, <3>5 DEF Part
    <3> QED
      BY <3>2, <3>3, <3>4, <3>6, <3>7
  <2>2. \A a \in Part(p, s), b \in Elements \ Part(p, s) :
          IF b < First(p, s) THEN Value(b) <= Value(a) ELSE Value(a) <= Value(b)
    BY <1>2, SectionOrdered
  <2> QED
    BY <1>2, <2>1, <2>2, SameValues DEF Ordered
<1>6. Parted(n)'
  BY <1>3, <1>4 DEF Parted
<1>7. ASSUME NEW q \in DOMAIN calls PROVE Ordered(q)' /\ Parted(q)'
  BY <1>2, <1>3, QuietOrdered, QuietParted
<1> QED
  BY <1>3, <1>5, <1>6, <1>7 DEF OInv

LEMMA JoinOrdered ==
  ASSUME IInv, OInv, input.algorithm = "quick_sort", NEW p \in DOMAIN calls, Join(p)
  PROVE  OInv'
<1>1. /\ input' = input /\ memory' = memory /\ ~Merging
      /\ \A q \in DOMAIN calls : Ordered(q) /\ Parted(q)
  BY DEF Join, Merging, OInv
<1>2. /\ DOMAIN calls' = DOMAIN calls \ Children(p)
      /\ \A q \in DOMAIN calls' : q # p => calls'[q] = calls[q]
      /\ calls'[p].left = calls[p].left /\ calls'[p].size = calls[p].size
      /\ calls'[p].pc = "done"
  BY <1>1, JoinLeaves
<1>3. ASSUME NEW q \in DOMAIN calls' PROVE Ordered(q)' /\ Parted(q)'
  <2>1. q \in DOMAIN calls /\ calls'[q].left = calls[q].left /\ calls'[q].size = calls[q].size
        /\ (calls'[q] = calls[q] \/ calls'[q].pc = "done")
    BY <1>2
  <2> QED
    BY <1>1, <2>1, QuietOrdered, QuietParted
<1> QED
  BY <1>3 DEF OInv

LEMMA InitOInv == Init => OInv
<1> SUFFICES ASSUME Init PROVE OInv
  OBVIOUS
<1>1. DOMAIN calls = {<<>>} /\ calls[<<>>] = Call(0, Items, input.cpus)
  BY DEF Init, Items
<1>2. calls[<<>>].left = 0 /\ calls[<<>>].size = Items /\ calls[<<>>].pc = "begin"
  BY <1>1 DEF Call
<1>3. Items \in Nat \ {0} /\ Elements = 0 .. Items - 1
  BY InputFacts DEF Init
<1>4. Elements \ Addresses(<<>>) = {}
  BY <1>2, <1>3 DEF Addresses
<1>5. Ordered(<<>>) /\ Parted(<<>>)
  BY <1>2, <1>4 DEF Ordered, Parted
<1> QED
  BY <1>1, <1>5 DEF OInv

LEMMA NextOInv ==
  ASSUME IInv, CInv, OInv, [Next]_vars
  PROVE  OInv'
<1>1. CASE UNCHANGED vars
  <2>1. input' = input /\ memory' = memory /\ calls' = calls
    BY <1>1 DEF vars
  <2> QED
    BY <2>1, QuietOrdered, QuietParted DEF OInv
<1>2. CASE input.algorithm # "quick_sort" /\ Next
  <2>1. input' = input
    BY <1>2 DEF Next, Step, BeginNetwork, FastSort, PivotIdx, PartitionTurn, PartitionEnds, Divide,
                BeginSection, Join, Merge, BeginBubbleSort, BubbleTurn, BubbleRound
  <2> QED
    BY <1>2, <2>1 DEF OInv
<1>3. ASSUME input.algorithm = "quick_sort", NEW p \in DOMAIN calls, Step(p)
      PROVE  OInv'
  <2>1. ~Merging /\ Parted(p) /\ MemoryTypes /\ Addresses(p) \subseteq Elements
    BY <1>3, RangeFits DEF Merging, OInv, CInv
  <2>2. CASE BeginNetwork(p)
    <3>1. PICK x : x = [calls[p] EXCEPT !.pc = "network"]
      OBVIOUS
    <3>2. /\ Update(p, x) /\ input' = input /\ memory' = memory /\ calls[p].pc # "forked"
      BY <2>2, <3>1 DEF BeginNetwork
    <3>3. x.left = calls[p].left /\ x.size = calls[p].size /\ x.pc = "network"
      BY <3>1, RangeFits DEF CallType
    <3>4. Parted(p)'
      <4>1. calls'[p] = x
        BY <3>2 DEF Update, IInv, Types
      <4> QED
        BY <3>3, <4>1 DEF Parted
    <3> QED
      BY <1>3, <2>1, <3>2, <3>3, <3>4, StayingMoves, MovingOrdered
  <2>3. CASE FastSort(p)
    <3>1. PICK x : /\ Update(p, x) /\ \/ x = [calls[p] EXCEPT !.i = @ + 1]
                                      \/ x = [calls[p] EXCEPT !.pc = "done", !.i = 0]
      BY <2>3 DEF FastSort
    <3>2. input' = input /\ calls[p].pc = "network" /\ Moves(p)
      BY <2>3, FastSortMoves DEF FastSort
    <3>3. x.left = calls[p].left /\ x.size = calls[p].size /\ x.pc \in {"network", "done"}
      BY <3>1, <3>2, RangeFits DEF CallType
    <3>4. Parted(p)'
      <4>1. calls'[p] = x
        BY <3>1 DEF Update, IInv, Types
      <4> QED
        BY <3>3, <4>1 DEF Parted
    <3> QED
      BY <1>3, <3>1, <3>2, <3>3, <3>4, MovingOrdered
  <2>4. CASE PivotIdx(p)
    <3>1. PICK x : x = [calls[p] EXCEPT !.pc = "partition"]
      OBVIOUS
    <3>2. /\ Update(p, x) /\ input' = input /\ calls[p].pc = "begin" /\ Moves(p)
          /\ calls[p].i = 0 /\ calls[p].j = 0
      BY <2>4, <3>1, PivotMoves DEF PivotIdx, IInv, Bounds
    <3>3. /\ x.left = calls[p].left /\ x.size = calls[p].size /\ x.pc = "partition"
          /\ x.i = 0 /\ x.j = 0 /\ x.left \in Nat
      BY <3>1, <3>2, RangeFits DEF CallType
    <3>4. Parted(p)'
      <4>1. calls'[p] = x
        BY <3>2 DEF Update, IInv, Types
      <4>2. /\ x.left .. x.left + x.j - 1 = {}
            /\ x.left + x.j .. x.left + x.i - 1 = {}
        BY <3>3
      <4> QED
        BY <3>3, <4>1, <4>2 DEF Parted
    <3> QED
      BY <1>3, <3>2, <3>3, <3>4, MovingOrdered
  <2>5. CASE PartitionTurn(p)
    <3>1. PICK x : Update(p, x) /\ x.left = calls[p].left /\ x.size = calls[p].size
      BY <2>5, TurnExists
    <3>2. input' = input /\ calls[p].pc = "partition" /\ Moves(p) /\ Parted(p)'
      BY <2>1, <2>5, PartitionTurnMoves, PartitionTurnParts DEF PartitionTurn
    <3> QED
      BY <1>3, <3>1, <3>2, MovingOrdered
  <2>6. CASE PartitionEnds(p)
    <3>1. PICK x : Update(p, x) /\ x.left = calls[p].left /\ x.size = calls[p].size
      BY <2>6, ForkExists DEF PartitionEnds
    <3>2. input' = input /\ calls[p].pc = "partition" /\ Moves(p) /\ Parted(p)'
      BY <2>1, <2>6, PartitionEndsMoves, PartitionEndsParts DEF PartitionEnds
    <3> QED
      BY <1>3, <3>1, <3>2, MovingOrdered
  <2>7. CASE \E s \in {1, 2} : BeginSection(p, s)
    BY <1>3, <2>7, BeginSectionOrdered
  <2>8. CASE Join(p)
    BY <1>3, <2>8, JoinOrdered
  <2>9. CASE Divide(p) \/ Merge(p)
    BY <2>1, <2>9 DEF Divide, Merge, IInv, Bounds
  <2>10. CASE BeginBubbleSort(p) \/ BubbleTurn(p) \/ BubbleRound(p)
    <3>1. PICK x : /\ Update(p, x) /\ x.pc \in {"bubble", "done"}
                   /\ x.left = calls[p].left /\ x.size = calls[p].size
      BY <2>10, BubbleExists
    <3>2. calls[p].pc # "forked" /\ input' = input
      BY <2>10, BubbleExists
    <3>3. Moves(p)
      <4>1. CASE BubbleTurn(p)
        BY <4>1, BubbleTurnMoves
      <4>2. CASE BeginBubbleSort(p) \/ BubbleRound(p)
        BY <2>1, <4>2, StayingMoves DEF BeginBubbleSort, BubbleRound
      <4> QED
        BY <2>10, <4>1, <4>2
    <3>4. Parted(p)'
      <4>1. calls'[p] = x
        BY <3>1 DEF Update, IInv, Types
      <4> QED
        BY <3>1, <4>1 DEF Parted
    <3> QED
      BY <1>3, <3>1, <3>2, <3>3, <3>4, MovingOrdered
  <2> QED
    BY <1>3, <2>2, <2>3, <2>4, <2>5, <2>6, <2>7, <2>8, <2>9, <2>10 DEF Step
<1> QED
  BY <1>1, <1>2, <1>3 DEF Next

(* While quick sort works on a range, what lies to the left of it is at most and
   what lies to the right at least what is in it, for any array, any number of
   processors and any team (psort_private.hpp:60 to 79). *)
THEOREM RangesStayOrdered == Spec => []RangesOrdered
<1>1. Init => OInv
  BY InitOInv
<1>2. IInv /\ CInv /\ OInv /\ [Next]_vars => OInv'
  BY NextOInv
<1>3. OInv => RangesOrdered
  BY DEF OInv, Ordered, RangesOrdered, Value
<1>4. Spec => []OInv
  BY <1>1, <1>2, InvariantCInv, PTL DEF Spec
<1> QED
  BY <1>3, <1>4, PTL

-----------------------------------------------------------------------------
(* What calls return is sorted. *)
KeysIn(buffer) == [a \in Elements |-> key[memory[buffer][a]]]

Mono(f, S) == \A a, b \in S : a < b => f[a] <= f[b]

(* m of the n items to merge are in the first half.  i of them and j of the others
   have been merged: these are sorted, and at most what is left. *)
MergeMono(into, from, l, i, j, m, n) ==
  /\ Mono(into, l .. l + i + j - 1)
  /\ Mono(from, l + i .. l + m - 1) /\ Mono(from, l + m + j .. l + n - 1)
  /\ \A a \in l .. l + i + j - 1 : /\ \A b \in l + i .. l + m - 1 : into[a] <= from[b]
                                   /\ \A b \in l + m + j .. l + n - 1 : into[a] <= from[b]

(* The greatest of the first items is at i, what is between the last exchange j and i
   is in its place among them, and what is behind k in its place for good. *)
BubbleMono(f, l, n, i, j, k) ==
  /\ \A a, b \in l .. l + n - 1 :
       b < a /\ (l + k < a \/ (l + j < a /\ a <= l + i)) => f[b] <= f[a]
  /\ \A b \in l .. l + i : f[b] <= f[l + i]

Settled(p) ==
  LET c == calls[p]
  IN  /\ c.pc = "done" => Mono(KeysIn(Work(p)), Addresses(p))
      /\ c.pc = "merge" =>
           MergeMono(KeysIn(Work(p)), KeysIn(Work(Append(p, 1))), c.left, c.i, c.j, Middle(p), c.size)
      /\ c.pc = "network" =>
           \E t \in NetworkRuns(c.size, Int, c.i) :
             t[c.i] = [a \in 0 .. c.size - 1 |-> KeysIn("main")[c.left + a]]
      /\ c.pc = "bubble" => BubbleMono(KeysIn("main"), c.left, c.size, c.i, c.j, c.k)
      /\ c.pc \in {"partition", "forked"} => input.algorithm # "bubble_sort"

(* The sections of a call that began, but those of less than two items. *)
Kids(p) ==
  calls[p].pc = "forked" =>
    \A s \in {1, 2} :
      \/ s \in calls[p].todo
      \/ ~Merging /\ Behind(p, s) <= First(p, s) + 1
      \/ Append(p, s) \in DOMAIN calls /\ Addresses(Append(p, s)) = Part(p, s)

(* The inductive invariant of SortedWhenDone, with OInv for quick sort. *)
SInv == \A p \in DOMAIN calls : Settled(p) /\ Kids(p)

(* An exchange commutes with any look at the values that keeps their order. *)
Level(v, n, x) == [a \in 0 .. n - 1 |-> IF v[a] < x THEN 0 ELSE 1]

LEMMA SwappedLevel ==
  ASSUME NEW n \in Nat, NEW v \in [0 .. n - 1 -> Int], NEW x \in Int,
         NEW s \in (0 .. n - 1) \X (0 .. n - 1)
  PROVE  /\ Swapped(v, s) \in [0 .. n - 1 -> Int]
         /\ Level(Swapped(v, s), n, x) = Swapped(Level(v, n, x), s)
<1>1. PICK a \in 0 .. n - 1, b \in 0 .. n - 1 : s[1] = a /\ s[2] = b
  OBVIOUS
<1>2. PICK w : w = Level(v, n, x)
  OBVIOUS
<1>3. /\ w \in [0 .. n - 1 -> {0, 1}]
      /\ \A c \in 0 .. n - 1 : w[c] = IF v[c] < x THEN 0 ELSE 1
  BY <1>2 DEF Level
<1>4. CASE v[a] > v[b]
  <2>1. PICK u : u = [v EXCEPT ![a] = v[b], ![b] = v[a]]
    OBVIOUS
  <2>2. Swapped(v, s) = u /\ u \in [0 .. n - 1 -> Int]
    BY <1>1, <1>4, <2>1 DEF Swapped
  <2>3. Level(u, n, x) = [w EXCEPT ![a] = w[b], ![b] = w[a]]
    BY <1>3, <2>1 DEF Level
  <2>4. CASE w[a] > w[b]
    BY <1>1, <1>2, <2>2, <2>3, <2>4 DEF Swapped
  <2>5. CASE ~(w[a] > w[b])
    <3>1. v[a] \in Int /\ v[b] \in Int
      OBVIOUS
    <3>2. w[a] = w[b]
      <4>1. w[a] = (IF v[a] < x THEN 0 ELSE 1) /\ w[b] = (IF v[b] < x THEN 0 ELSE 1)
        BY <1>3
      <4> QED
        BY <1>4, <2>5, <3>1, <4>1
    <3>3. [w EXCEPT ![a] = w[b], ![b] = w[a]] = w
      BY <1>3, <3>2
    <3>4. Swapped(w, s) = w
      BY <1>1, <2>5 DEF Swapped
    <3> QED
      BY <1>2, <2>2, <2>3, <3>3, <3>4
  <2> QED
    BY <2>4, <2>5
<1>5. CASE ~(v[a] > v[b])
  <2>1. Swapped(v, s) = v
    BY <1>1, <1>5 DEF Swapped
  <2>2. ~(w[a] > w[b])
    <3>1. w[a] = (IF v[a] < x THEN 0 ELSE 1) /\ w[b] = (IF v[b] < x THEN 0 ELSE 1)
      BY <1>3
    <3> QED
      BY <1>5, <3>1
  <2>3. Swapped(w, s) = w
    BY <1>1, <2>2 DEF Swapped
  <2> QED
    BY <1>2, <2>1, <2>3
<1> QED
  BY <1>4, <1>5

(* The networks sort zeros and ones, so they sort all values. *)
LEMMA ZeroOnePrinciple ==
  ASSUME NEW n \in Nat, NEW t \in NetworkRuns(n, Int, Len(Network!Swaps(n)))
  PROVE  Mono(t[Len(Network!Swaps(n))], 0 .. n - 1)
<1>1. PICK swaps : swaps = Network!Swaps(n)
  OBVIOUS
<1>2. swaps \in Seq((0 .. n - 1) \X (0 .. n - 1))
  BY <1>1, NetworksAlwaysFit DEF NetworksFit
<1>3. PICK m \in Nat : m = Len(swaps)
  BY <1>2, LenProperties
<1>4. /\ t \in [0 .. m -> [0 .. n - 1 -> Int]]
      /\ \A i \in 1 .. m : t[i] = Swapped(t[i - 1], swaps[i])
  BY <1>1, <1>3 DEF NetworkRuns
<1>5. SUFFICES ASSUME NEW a \in 0 .. n - 1, NEW b \in 0 .. n - 1, a < b, ~(t[m][a] <= t[m][b])
               PROVE  FALSE
  BY <1>1, <1>3 DEF Mono
<1>6. PICK x : x = t[m][a]
  OBVIOUS
<1>7. x \in Int /\ t[m][b] \in Int /\ m \in 0 .. m
  BY <1>4, <1>6
<1> DEFINE z == [i \in 0 .. m |-> Level(t[i], n, x)]
<1>8. z \in [0 .. m -> [0 .. n - 1 -> {0, 1}]]
  BY DEF Level
<1>9. ASSUME NEW i \in 1 .. m PROVE z[i] = Swapped(z[i - 1], swaps[i])
  <2>1. PICK h \in 0 .. m : h = i - 1
    BY <1>3
  <2>2. swaps[i] \in (0 .. n - 1) \X (0 .. n - 1) /\ i \in 0 .. m
    BY <1>2, <1>3, ElementOfSeq
  <2>3. PICK v \in [0 .. n - 1 -> Int], e \in (0 .. n - 1) \X (0 .. n - 1) :
          v = t[h] /\ e = swaps[i] /\ t[i] = Swapped(v, e)
    BY <1>4, <2>1, <2>2
  <2>4. Level(Swapped(v, e), n, x) = Swapped(Level(v, n, x), e)
    BY <1>2, <1>7, <2>2, <2>3, SwappedLevel
  <2> QED
    BY <2>1, <2>2, <2>3, <2>4
<1> HIDE DEF z
<1>10. z \in NetworkRuns(n, {0, 1}, Len(Network!Swaps(n)))
  BY <1>1, <1>3, <1>8, <1>9 DEF NetworkRuns
<1>11. z[m][a] <= z[m][b]
  BY <1>1, <1>3, <1>5, <1>10, NetworksAlwaysOrder DEF NetworksOrder
<1>12. z[m][a] = 1 /\ z[m][b] = 0
  <2>1. z[m] = Level(t[m], n, x)
    BY <1>7 DEF z
  <2>2. z[m][a] = (IF t[m][a] < x THEN 0 ELSE 1) /\ z[m][b] = (IF t[m][b] < x THEN 0 ELSE 1)
    BY <2>1 DEF Level
  <2> QED
    BY <1>5, <1>6, <1>7, <2>2
<1> QED
  BY <1>11, <1>12

LEMMA NetworkTurn ==
  ASSUME NEW n \in Nat, NEW m \in Nat, NEW o \in Nat, o = m + 1, NEW t \in NetworkRuns(n, Int, m),
         NEW s, s = Network!Swaps(n)[o], s \in (0 .. n - 1) \X (0 .. n - 1)
  PROVE  \E u \in NetworkRuns(n, Int, o) : u[o] = Swapped(t[m], s)
<1>1. /\ t \in [0 .. m -> [0 .. n - 1 -> Int]]
      /\ \A i \in 1 .. m : t[i] = Swapped(t[i - 1], Network!Swaps(n)[i])
  BY DEF NetworkRuns
<1>2. PICK last : last = Swapped(t[m], s)
  OBVIOUS
<1>3. last \in [0 .. n - 1 -> Int]
  <2>1. t[m] \in [0 .. n - 1 -> Int] /\ 0 \in Int
    BY <1>1
  <2> QED
    BY <1>2, <2>1, SwappedLevel
<1> DEFINE u == [i \in 0 .. o |-> IF i = o THEN last ELSE t[i]]
<1>4. u \in [0 .. o -> [0 .. n - 1 -> Int]] /\ u[o] = last /\ \A i \in 0 .. m : u[i] = t[i]
  BY <1>1, <1>3
<1> HIDE DEF u
<1>5. ASSUME NEW i \in 1 .. o PROVE u[i] = Swapped(u[i - 1], Network!Swaps(n)[i])
  <2>1. PICK h \in 0 .. m : h = i - 1
    OBVIOUS
  <2>2. CASE i = o
    <3>1. h = m /\ u[h] = t[h]
      BY <1>4, <2>1, <2>2
    <3> QED
      BY <1>2, <1>4, <2>1, <2>2, <3>1
  <2>3. CASE i # o
    <3>1. i \in 1 .. m /\ i \in 0 .. m
      BY <2>3
    <3>2. u[i] = t[i] /\ u[h] = t[h] /\ t[i] = Swapped(t[h], Network!Swaps(n)[i])
      BY <1>1, <1>4, <2>1, <3>1
    <3> QED
      BY <2>1, <3>2
  <2> QED
    BY <2>2, <2>3
<1>6. u \in NetworkRuns(n, Int, o)
  BY <1>4, <1>5 DEF NetworkRuns
<1> QED
  BY <1>2, <1>4, <1>6

(* A turn of the loop that merges, in values: f is what has been merged, h after the
   turn, and g the halves. *)
LEMMA MergeTurnMono ==
  ASSUME NEW l \in Nat, NEW i \in Nat, NEW j \in Nat, NEW m \in Nat, NEW n \in Nat,
         m <= n, i <= m, j <= n - m,
         NEW f, NEW g, NEW h, MergeMono(f, g, l, i, j, m, n),
         \A a \in l .. l + i + j - 1 : f[a] \in Int /\ h[a] = f[a],
         \A b \in l + i .. l + m - 1 : g[b] \in Int,
         \A b \in l + m + j .. l + n - 1 : g[b] \in Int,
         NEW first \in BOOLEAN,
         first => i < m /\ (j = n - m \/ g[l + i] <= g[l + m + j]),
         ~first => j < n - m /\ (i = m \/ g[l + m + j] <= g[l + i]),
         h[l + i + j] = IF first THEN g[l + i] ELSE g[l + m + j]
  PROVE  MergeMono(h, g, l, IF first THEN i + 1 ELSE i, IF first THEN j ELSE j + 1, m, n)
<1>1. PICK x \in Nat, y \in Nat, e \in Nat : x = l + i /\ y = l + m + j /\ e = l + i + j
  OBVIOUS
<1>2. PICK half \in Nat, end \in Nat : half = l + m /\ end = l + n
  OBVIOUS
<1>3. /\ l <= e /\ x <= half /\ y <= end /\ half <= y
      /\ first => x < half /\ (y = end \/ g[x] <= g[y])
      /\ ~first => y < end /\ (x = half \/ g[y] <= g[x])
      /\ h[e] = IF first THEN g[x] ELSE g[y]
  BY <1>1, <1>2
<1>4. /\ \A a \in l .. e - 1 : f[a] \in Int /\ h[a] = f[a]
      /\ \A b \in x .. half - 1 : g[b] \in Int
      /\ \A b \in y .. end - 1 : g[b] \in Int
  BY <1>1, <1>2
<1>5. /\ \A a, b \in l .. e - 1 : a < b => f[a] <= f[b]
      /\ \A a, b \in x .. half - 1 : a < b => g[a] <= g[b]
      /\ \A a, b \in y .. end - 1 : a < b => g[a] <= g[b]
      /\ \A a \in l .. e - 1 : /\ \A b \in x .. half - 1 : f[a] <= g[b]
                               /\ \A b \in y .. end - 1 : f[a] <= g[b]
  BY <1>1, <1>2 DEF MergeMono, Mono
<1>6. /\ h[e] \in Int /\ \A a \in l .. e - 1 : h[a] <= h[e]
      /\ \A b \in x .. half - 1 : h[e] <= g[b]
      /\ \A b \in y .. end - 1 : h[e] <= g[b]
  <2>1. CASE first
    <3>1. x \in x .. half - 1 /\ (y = end \/ y \in y .. end - 1)
      BY <1>3, <2>1
    <3>2. h[e] = g[x] /\ g[x] \in Int /\ \A a \in l .. e - 1 : h[a] <= g[x]
      BY <1>3, <1>4, <1>5, <2>1, <3>1
    <3>3. ASSUME NEW b \in x .. half - 1 PROVE g[x] <= g[b]
      <4>1. b = x \/ x < b
        OBVIOUS
      <4> QED
        BY <1>5, <3>1, <3>2, <4>1
    <3>4. ASSUME NEW b \in y .. end - 1 PROVE g[x] <= g[b]
      <4>1. b = y \/ y < b
        OBVIOUS
      <4>2. y \in y .. end - 1
        BY <3>4
      <4>3. g[x] <= g[y] /\ g[y] <= g[b]
        <5>1. y # end
          BY <4>2
        <5>2. g[x] <= g[y]
          BY <1>3, <2>1, <5>1
        <5>3. g[y] \in Int
          BY <1>4, <4>2
        <5>4. g[y] <= g[b]
          BY <1>5, <3>4, <4>1, <4>2, <5>3
        <5> QED
          BY <5>2, <5>4
      <4>4. g[y] \in Int /\ g[b] \in Int
        BY <1>4, <3>4, <4>2
      <4> QED
        BY <3>2, <4>3, <4>4
    <3> QED
      BY <3>2, <3>3, <3>4
  <2>2. CASE ~first
    <3>1. y \in y .. end - 1 /\ (x = half \/ x \in x .. half - 1)
      BY <1>3, <2>2
    <3>2. h[e] = g[y] /\ g[y] \in Int /\ \A a \in l .. e - 1 : h[a] <= g[y]
      BY <1>3, <1>4, <1>5, <2>2, <3>1
    <3>3. ASSUME NEW b \in y .. end - 1 PROVE g[y] <= g[b]
      <4>1. b = y \/ y < b
        OBVIOUS
      <4> QED
        BY <1>5, <3>1, <3>2, <4>1
    <3>4. ASSUME NEW b \in x .. half - 1 PROVE g[y] <= g[b]
      <4>1. b = x \/ x < b
        OBVIOUS
      <4>2. x \in x .. half - 1
        BY <3>4
      <4>3. g[y] <= g[x] /\ g[x] <= g[b]
        <5>1. x # half
          BY <4>2
        <5>2. g[y] <= g[x]
          BY <1>3, <2>2, <5>1
        <5>3. g[x] \in Int
          BY <1>4, <4>2
        <5>4. g[x] <= g[b]
          BY <1>5, <3>4, <4>1, <4>2, <5>3
        <5> QED
          BY <5>2, <5>4
      <4>4. g[x] \in Int /\ g[b] \in Int
        BY <1>4, <3>4, <4>2
      <4> QED
        BY <3>2, <4>3, <4>4
    <3> QED
      BY <3>2, <3>3, <3>4
  <2> QED
    BY <2>1, <2>2
<1>7. \A a \in l .. e : a = e \/ a \in l .. e - 1
  OBVIOUS
<1>8. ASSUME NEW a \in l .. e, NEW b \in l .. e, a < b PROVE h[a] <= h[b]
  <2>1. a \in l .. e - 1
    BY <1>8
  <2>2. CASE b = e
    BY <1>6, <2>1, <2>2
  <2>3. CASE b \in l .. e - 1
    BY <1>4, <1>5, <1>8, <2>1, <2>3
  <2> QED
    BY <1>7, <2>2, <2>3
<1>9. ASSUME NEW a \in l .. e
      PROVE  /\ \A b \in x .. half - 1 : h[a] <= g[b]
             /\ \A b \in y .. end - 1 : h[a] <= g[b]
  BY <1>4, <1>5, <1>6, <1>7
<1>10. PICK i2 \in Nat, j2 \in Nat :
         i2 = (IF first THEN i + 1 ELSE i) /\ j2 = (IF first THEN j ELSE j + 1)
  <2>1. CASE first
    BY <2>1
  <2>2. CASE ~first
    BY <2>2
  <2> QED
    BY <2>1, <2>2
<1>11. /\ l + i2 + j2 - 1 = e /\ l + m - 1 = half - 1 /\ l + n - 1 = end - 1
       /\ l + i2 .. half - 1 \subseteq x .. half - 1
       /\ l + m + j2 .. end - 1 \subseteq y .. end - 1
  BY <1>1, <1>2, <1>10
<1>12. MergeMono(h, g, l, i2, j2, m, n)
  <2>1. Mono(h, l .. l + i2 + j2 - 1)
    BY <1>8, <1>11 DEF Mono
  <2>2. Mono(g, l + i2 .. l + m - 1) /\ Mono(g, l + m + j2 .. l + n - 1)
    BY <1>5, <1>11 DEF Mono
  <2>3. \A a \in l .. l + i2 + j2 - 1 : /\ \A b \in l + i2 .. l + m - 1 : h[a] <= g[b]
                                        /\ \A b \in l + m + j2 .. l + n - 1 : h[a] <= g[b]
    BY <1>9, <1>11
  <2> QED
    BY <2>1, <2>2, <2>3 DEF MergeMono
<1> QED
  BY <1>10, <1>12

(* A turn of the inner loop of bubble_sort, in values. *)
LEMMA BubbleTurnMono ==
  ASSUME NEW l \in Nat, NEW n \in Nat, NEW i \in Nat, NEW j \in Nat, NEW k \in Nat,
         j <= i, i < k, k < n, NEW S, l .. l + n - 1 \subseteq S, NEW f \in [S -> Int],
         BubbleMono(f, l, n, i, j, k),
         NEW x, NEW y, x = l + i, y = l + i + 1,
         NEW h, h = IF f[x] > f[y] THEN [f EXCEPT ![x] = f[y], ![y] = f[x]] ELSE f
  PROVE  BubbleMono(h, l, n, i + 1, IF f[x] > f[y] THEN i ELSE j, k)
<1>1. PICK end \in Nat, done \in Nat, behind \in Nat : end = l + n - 1 /\ done = l + k /\ behind = l + j
  OBVIOUS
<1>2. /\ x \in l .. end /\ y \in l .. end /\ x \in Nat /\ y = x + 1 /\ y <= done /\ behind <= x
      /\ l .. end \subseteq S
  BY <1>1
<1>3. /\ \A a, b \in l .. end : b < a /\ (done < a \/ (behind < a /\ a <= x)) => f[b] <= f[a]
      /\ \A b \in l .. x : f[b] <= f[x]
  BY <1>1 DEF BubbleMono
<1>4. f[x] \in Int /\ f[y] \in Int
  BY <1>2
<1>5. PICK j2 \in Nat : j2 = IF f[x] > f[y] THEN i ELSE j
  <2>1. CASE f[x] > f[y]
    BY <2>1
  <2>2. CASE ~(f[x] > f[y])
    BY <2>2
  <2> QED
    BY <2>1, <2>2
<1>6. /\ h[y] \in Int /\ \A a \in l .. end : a # x /\ a # y => h[a] = f[a]
      /\ IF f[x] > f[y] THEN h[x] = f[y] /\ h[y] = f[x] ELSE h = f
  BY <1>2, <1>4
<1>7. ASSUME NEW b \in l .. y PROVE h[b] <= h[y]
  <2>1. b = y \/ b \in l .. x
    BY <1>2, <1>7
  <2>2. CASE b = y
    BY <1>6, <2>2
  <2>3. CASE b \in l .. x /\ f[x] > f[y]
    BY <1>2, <1>3, <1>4, <1>6, <2>3
  <2>4. CASE b \in l .. x /\ ~(f[x] > f[y])
    <3>1. f[b] <= f[x] /\ f[b] \in Int /\ h = f
      BY <1>2, <1>3, <1>6, <2>4
    <3> QED
      BY <1>4, <2>4, <3>1
  <2> QED
    BY <2>1, <2>2, <2>3, <2>4
<1>8. ASSUME NEW a \in l .. end, NEW b \in l .. end, b < a,
             done < a \/ (l + j2 < a /\ a <= y)
      PROVE  h[b] <= h[a]
  <2>1. CASE done < a
    <3>1. h[a] = f[a] /\ x < a /\ y < a
      BY <1>2, <1>6, <2>1
    <3>2. f[b] <= f[a] /\ f[x] <= f[a] /\ f[y] <= f[a]
      BY <1>2, <1>3, <1>8, <2>1, <3>1
    <3>3. h[b] = f[b] \/ h[b] = f[x] \/ h[b] = f[y]
      BY <1>6
    <3> QED
      BY <3>1, <3>2, <3>3
  <2>2. CASE a = y
    <3>1. b \in l .. y
      BY <1>2, <1>8, <2>2
    <3> QED
      BY <1>7, <2>2, <3>1
  <2>3. CASE ~(done < a) /\ a # y
    <3>1. l + j2 < a /\ a <= x
      BY <1>2, <1>8, <2>3
    <3>2. j2 # i
      BY <3>1, <1>2
    <3>3. j2 = j /\ h = f
      BY <1>5, <1>6, <3>2
    <3>4. behind < a
      BY <1>1, <3>1, <3>3
    <3> QED
      BY <1>3, <1>8, <3>1, <3>3, <3>4
  <2> QED
    BY <2>1, <2>2, <2>3
<1>9. BubbleMono(h, l, n, i + 1, j2, k)
  <2>1. l + (i + 1) = y
    BY <1>2
  <2> QED
    BY <1>1, <1>7, <1>8, <2>1 DEF BubbleMono
<1> QED
  BY <1>5, <1>9

LEMMA BubbleRoundMono ==
  ASSUME NEW l \in Nat, NEW n \in Nat, NEW j \in Nat, NEW k \in Nat, j <= k, k < n, NEW f,
         \A a \in l .. l + n - 1 : f[a] \in Int, BubbleMono(f, l, n, k, j, k)
  PROVE  IF j = 0 THEN Mono(f, l .. l + n - 1) ELSE BubbleMono(f, l, n, 0, 0, j)
<1>1. ASSUME NEW a \in l .. l + n - 1, NEW b \in l .. l + n - 1, b < a, l + j < a
      PROVE  f[b] <= f[a]
  <2>1. l + k < a \/ a <= l + k
    OBVIOUS
  <2> QED
    BY <1>1, <2>1 DEF BubbleMono
<1>2. CASE j = 0
  <2>1. ASSUME NEW a \in l .. l + n - 1, NEW b \in l .. l + n - 1, a < b PROVE f[a] <= f[b]
    <3>1. l + j < b
      BY <1>2, <2>1
    <3> QED
      BY <1>1, <2>1, <3>1
  <2> QED
    BY <1>2, <2>1 DEF Mono
<1>3. CASE j # 0
  <2>1. ASSUME NEW a \in l .. l + n - 1, NEW b \in l .. l + n - 1, b < a,
               l + j < a \/ (l + 0 < a /\ a <= l + 0)
        PROVE  f[b] <= f[a]
    <3>1. l + j < a
      BY <2>1
    <3> QED
      BY <1>1, <2>1, <3>1
  <2>2. ASSUME NEW b \in l .. l + 0 PROVE f[b] <= f[l + 0]
    <3>1. b = l /\ l + 0 = l /\ l \in l .. l + n - 1
      BY <2>2
    <3> QED
      BY <3>1
  <2> QED
    BY <1>3, <2>1, <2>2 DEF BubbleMono
<1> QED
  BY <1>2, <1>3

LEMMA MainKeys ==
  ASSUME IInv, CInv
  PROVE  /\ KeysIn("main") \in [Elements -> Int]
         /\ \A a \in Elements : KeysIn("main")[a] = Value(a)
<1>1. key \in [Elements -> Int] /\ memory.main \in [Elements -> Elements]
  BY InputFacts, MemoryFields DEF CInv, IInv, Types
<1> QED
  BY <1>1 DEF KeysIn, Value

LEMMA SwapKeys ==
  ASSUME MemoryTypes, input' = input, NEW a \in Elements, NEW b \in Elements,
         SortSwap("main", a, b)
  PROVE  LET f == KeysIn("main")
         IN  KeysIn("main")' = IF f[a] > f[b] THEN [f EXCEPT ![a] = f[b], ![b] = f[a]] ELSE f
<1>1. PICK f : f = KeysIn("main")
  OBVIOUS
<1>2. /\ f[a] = key[memory.main[a]] /\ f[b] = key[memory.main[b]]
      /\ Elements' = Elements /\ key' = key /\ memory.main \in [Elements -> Elements]
  BY <1>1, MemoryFields DEF KeysIn, Elements, key
<1>3. CASE f[a] > f[b]
  <2>1. Exchange("main", a, b)
    BY <1>2, <1>3 DEF SortSwap
  <2>2. memory'.main = [memory.main EXCEPT ![a] = memory.main[b], ![b] = memory.main[a]]
    BY <2>1, ExchangeIsSwap
  <2>3. [x \in Elements |-> key[memory'.main[x]]] = [f EXCEPT ![a] = f[b], ![b] = f[a]]
    BY <1>1, <1>2, <2>2 DEF KeysIn
  <2> QED
    BY <1>1, <1>2, <1>3, <2>3 DEF KeysIn
<1>4. CASE ~(f[a] > f[b])
  <2>1. memory' = memory
    BY <1>2, <1>4 DEF SortSwap
  <2> QED
    BY <1>1, <1>2, <1>4, <2>1 DEF KeysIn
<1> QED
  BY <1>1, <1>3, <1>4

(* What a call has is not touched by steps that touch only what is not in its range. *)
LEMMA SettledKept ==
  ASSUME IInv, input' = input, NEW q \in DOMAIN calls, calls'[q] = calls[q],
         \A a \in Addresses(q) : /\ memory'.main[a] = memory.main[a]
                                 /\ memory'.tmp[a] = memory.tmp[a],
         Settled(q)
  PROVE  Settled(q)'
<1>1. PICK c : c = calls[q]
  OBVIOUS
<1>2. PICK l \in Nat, n \in Nat, i \in Nat, j \in Nat, k \in Nat :
        /\ l = c.left /\ n = c.size /\ i = c.i /\ j = c.j /\ k = c.k
        /\ Addresses(q) = l .. l + n - 1 /\ Addresses(q) \subseteq Elements
  BY <1>1, RangeFits DEF Addresses
<1>3. /\ \A b : Work(b)' = Work(b) /\ Work(b) \in {"main", "tmp"}
      /\ Middle(q)' = Middle(q) /\ Elements' = Elements /\ key' = key
  BY SameWork, SameRange DEF Work, Elements, key
<1>4. ASSUME NEW b \in {"main", "tmp"}, NEW a \in l .. l + n - 1
      PROVE  KeysIn(b)'[a] = KeysIn(b)[a]
  BY <1>2, <1>3, <1>4 DEF KeysIn
<1>5. CASE c.pc = "done"
  <2>1. PICK f, h : f = KeysIn(Work(q)) /\ h = KeysIn(Work(q))'
    OBVIOUS
  <2>2. Mono(f, l .. l + n - 1)
    BY <1>1, <1>2, <1>5, <2>1 DEF Settled
  <2>3. \A a \in l .. l + n - 1 : h[a] = f[a]
    BY <1>3, <1>4, <2>1
  <2>4. Mono(h, l .. l + n - 1)
    BY <2>2, <2>3 DEF Mono
  <2> QED
    BY <1>1, <1>2, <1>3, <1>5, <2>1, <2>4 DEF Settled, Addresses
<1>6. CASE c.pc = "merge"
  <2>1. PICK m \in Nat : m = Middle(q) /\ m <= n /\ i <= m /\ j <= n - m
    BY <1>1, <1>2, <1>6, MergeRange
  <2>2. PICK f, h, g, e :
          /\ f = KeysIn(Work(q)) /\ h = KeysIn(Work(q))'
          /\ g = KeysIn(Work(Append(q, 1))) /\ e = KeysIn(Work(Append(q, 1)))'
    OBVIOUS
  <2>3. MergeMono(f, g, l, i, j, m, n)
    BY <1>1, <1>2, <1>6, <2>1, <2>2 DEF Settled
  <2>4. \A a \in l .. l + n - 1 : h[a] = f[a] /\ e[a] = g[a]
    BY <1>3, <1>4, <2>2
  <2>5. /\ l .. l + i + j - 1 \subseteq l .. l + n - 1
        /\ l + i .. l + m - 1 \subseteq l .. l + n - 1
        /\ l + m + j .. l + n - 1 \subseteq l .. l + n - 1
    BY <2>1
  <2>6. MergeMono(h, e, l, i, j, m, n)
    BY <2>3, <2>4, <2>5 DEF MergeMono, Mono
  <2> QED
    BY <1>1, <1>2, <1>3, <1>6, <2>1, <2>2, <2>6 DEF Settled
<1>7. CASE c.pc = "network"
  <2>1. PICK t \in NetworkRuns(n, Int, i) :
          t[i] = [a \in 0 .. n - 1 |-> KeysIn("main")[l + a]]
    BY <1>1, <1>2, <1>7 DEF Settled
  <2>2. \A a \in 0 .. n - 1 : l + a \in l .. l + n - 1
    BY <1>2
  <2>3. \A a \in 0 .. n - 1 : KeysIn("main")'[l + a] = KeysIn("main")[l + a]
    BY <1>4, <2>2
  <2>4. t[i] = [a \in 0 .. n - 1 |-> KeysIn("main")'[l + a]]
    BY <2>1, <2>3
  <2>5. NetworkRuns(n, Int, i)' = NetworkRuns(n, Int, i)
    OBVIOUS
  <2> QED
    BY <1>1, <1>2, <1>7, <2>4, <2>5 DEF Settled
<1>8. CASE c.pc = "bubble"
  <2>1. PICK f, h : f = KeysIn("main") /\ h = KeysIn("main")'
    OBVIOUS
  <2>2. BubbleMono(f, l, n, i, j, k) /\ i < n
    <3>1. i <= k /\ k < n
      BY <1>1, <1>2, <1>8 DEF IInv, Bounds
    <3> QED
      BY <1>1, <1>2, <1>8, <2>1, <3>1 DEF Settled
  <2>3. \A a \in l .. l + n - 1 : h[a] = f[a]
    BY <1>4, <2>1
  <2>4. l .. l + i \subseteq l .. l + n - 1 /\ l + i \in l .. l + n - 1
    BY <2>2
  <2>5. BubbleMono(h, l, n, i, j, k)
    BY <2>2, <2>3, <2>4 DEF BubbleMono
  <2> QED
    BY <1>1, <1>2, <1>8, <2>1, <2>5 DEF Settled
<1>9. CASE c.pc \notin {"done", "merge", "network", "bubble"}
  BY <1>1, <1>9 DEF Settled
<1> QED
  BY <1>5, <1>6, <1>7, <1>8, <1>9

LEMMA KidsKept ==
  ASSUME IInv, input' = input, NEW q \in DOMAIN calls, Kids(q),
         calls'[q].left = calls[q].left, calls'[q].size = calls[q].size,
         calls'[q].cpus = calls[q].cpus, calls'[q].j = calls[q].j,
         calls'[q].pc = calls[q].pc, calls'[q].todo = calls[q].todo,
         \A s \in {1, 2} : Append(q, s) \in DOMAIN calls =>
           /\ Append(q, s) \in DOMAIN calls'
           /\ calls'[Append(q, s)].left = calls[Append(q, s)].left
           /\ calls'[Append(q, s)].size = calls[Append(q, s)].size
  PROVE  Kids(q)'
<1>1. /\ \A s : First(q, s)' = First(q, s) /\ Behind(q, s)' = Behind(q, s)
      /\ Merging' = Merging
  BY SameRange DEF Merging
<1>2. \A s : Part(q, s)' = Part(q, s)
  BY <1>1 DEF Part
<1>3. \A s \in {1, 2} : Append(q, s) \in DOMAIN calls =>
        Addresses(Append(q, s))' = Addresses(Append(q, s))
  BY DEF Addresses
<1> QED
  BY <1>1, <1>2, <1>3 DEF Kids

(* The steps of calls that run. *)
LEMMA LocalSettled ==
  ASSUME IInv, CInv, SInv, input' = input, NEW p \in DOMAIN calls, calls[p].pc # "forked",
         NEW x, Update(p, x), x.left = calls[p].left, x.size = calls[p].size,
         \A a \in Elements \ Addresses(p) : /\ memory'.main[a] = memory.main[a]
                                            /\ memory'.tmp[a] = memory.tmp[a],
         Settled(p)', Kids(p)'
  PROVE  SInv'
<1>1. /\ DOMAIN calls' = DOMAIN calls /\ calls'[p] = x
      /\ \A q \in DOMAIN calls : q # p => calls'[q] = calls[q]
  BY DEF Update, IInv, Types
<1>2. ASSUME NEW q \in DOMAIN calls, q # p PROVE Settled(q)' /\ Kids(q)'
  <2>1. Settled(q) /\ Kids(q) /\ calls'[q] = calls[q]
    BY <1>1, <1>2 DEF SInv
  <2>2. Kids(q)'
    BY <1>1, <2>1, KidsKept
  <2>3. CASE calls[q].pc = "forked"
    BY <2>1, <2>2, <2>3 DEF Settled
  <2>4. CASE calls[q].pc # "forked"
    <3>1. Apart(p, q)
      BY <1>2, <2>4, RunningWhere
    <3>2. \A a \in Addresses(q) : a \notin Addresses(p) /\ a \in Elements
      <4>1. PICK l \in Nat, n \in Nat, m \in Nat, o \in Nat :
              /\ l = calls[q].left /\ n = calls[q].size /\ m = calls[p].left /\ o = calls[p].size
              /\ Addresses(q) \subseteq Elements
        BY RangeFits
      <4>2. Addresses(q) = l .. l + n - 1 /\ Addresses(p) = m .. m + o - 1
            /\ (m + o <= l \/ l + n <= m)
        BY <3>1, <4>1 DEF Addresses, Apart
      <4>3. l .. l + n - 1 \cap m .. m + o - 1 = {}
        BY <4>2
      <4> QED
        BY <4>1, <4>2, <4>3
    <3> QED
      BY <2>1, <2>2, <3>2, SettledKept
  <2> QED
    BY <2>3, <2>4
<1>3. ASSUME NEW q \in DOMAIN calls' PROVE Settled(q)' /\ Kids(q)'
  BY <1>1, <1>2
<1> QED
  BY <1>3 DEF SInv

(* The same for calls that move elements, and those that leave them as they are. *)
LEMMA MovingSettled ==
  ASSUME IInv, CInv, SInv, input' = input, NEW p \in DOMAIN calls, calls[p].pc # "forked",
         NEW x, Update(p, x), x.left = calls[p].left, x.size = calls[p].size,
         Moves(p) \/ memory' = memory, Settled(p)', x.pc # "forked"
  PROVE  SInv'
<1>1. MemoryTypes /\ Addresses(p) \subseteq Elements
  BY RangeFits DEF CInv
<1>2. \A a \in Elements \ Addresses(p) : /\ memory'.main[a] = memory.main[a]
                                         /\ memory'.tmp[a] = memory.tmp[a]
  BY <1>1, MovesTypes
<1>3. Kids(p)'
  <2>1. calls'[p] = x
    BY DEF Update, IInv, Types
  <2> QED
    BY <2>1 DEF Kids
<1> QED
  BY <1>2, <1>3, LocalSettled

LEMMA BeginNetworkSettled ==
  ASSUME IInv, CInv, SInv, NEW p \in DOMAIN calls, BeginNetwork(p)
  PROVE  SInv'
<1>1. PICK x : x = [calls[p] EXCEPT !.pc = "network"]
  OBVIOUS
<1>2. /\ Update(p, x) /\ input' = input /\ memory' = memory /\ calls[p].pc = "begin"
      /\ calls'[p] = x
  BY <1>1 DEF BeginNetwork, Update, IInv, Types
<1>3. /\ x.left = calls[p].left /\ x.size = calls[p].size /\ x.pc = "network" /\ x.i = 0
      /\ calls[p].left \in Nat /\ calls[p].size \in Nat
  <2>1. calls[p].i = 0
    BY <1>2 DEF IInv, Bounds
  <2> QED
    BY <1>1, <2>1, RangeFits DEF CallType
<1>4. PICK l \in Nat, n \in Nat : l = calls[p].left /\ n = calls[p].size
  BY <1>3
<1>5. PICK f \in [Elements -> Int] : f = KeysIn("main")
  BY MainKeys
<1>6. \A a \in 0 .. n - 1 : l + a \in Elements
  <2>1. l .. l + n - 1 \subseteq Elements
    BY <1>4, RangeFits DEF Addresses
  <2> QED
    BY <2>1
<1> DEFINE t == [i \in 0 .. 0 |-> [a \in 0 .. n - 1 |-> f[l + a]]]
<1>7. t \in NetworkRuns(n, Int, 0) /\ t[0] = [a \in 0 .. n - 1 |-> f[l + a]]
  <2>1. t \in [0 .. 0 -> [0 .. n - 1 -> Int]]
    BY <1>6
  <2>2. \A i \in 1 .. 0 : FALSE
    OBVIOUS
  <2>3. t[0] = [a \in 0 .. n - 1 |-> f[l + a]]
    OBVIOUS
  <2> HIDE DEF t
  <2> QED
    BY <2>1, <2>2, <2>3 DEF NetworkRuns
<1> HIDE DEF t
<1>8. KeysIn("main")' = f
  BY <1>2, <1>5 DEF KeysIn, Elements, key
<1>9. Settled(p)'
  BY <1>2, <1>3, <1>4, <1>7, <1>8 DEF Settled
<1> QED
  BY <1>2, <1>3, <1>9, MovingSettled

(* From f to h the values at a and b of the range at l are exchanged, if out of order. *)
ExchangesAt(f, h, l, a, b) ==
  h = IF f[l + a] > f[l + b] THEN [f EXCEPT ![l + a] = f[l + b], ![l + b] = f[l + a]] ELSE f

(* What f has in the range of n items at l. *)
Window(f, l, n) == [c \in 0 .. n - 1 |-> f[l + c]]

(* The values of a network after an exchange. *)
LEMMA NetworkExchange ==
  ASSUME NEW n \in Nat, NEW l \in Nat, NEW S, l .. l + n - 1 \subseteq S, NEW f \in [S -> Int],
         NEW a \in 0 .. n - 1, NEW b \in 0 .. n - 1, NEW s, s = <<a, b>>,
         NEW h, ExchangesAt(f, h, l, a, b)
  PROVE  Window(h, l, n) = Swapped(Window(f, l, n), s)
<1> PICK x, y : x = l + a /\ y = l + b
  OBVIOUS
<1> h = IF f[x] > f[y] THEN [f EXCEPT ![x] = f[y], ![y] = f[x]] ELSE f
  BY DEF ExchangesAt
<1>1. PICK v : v = Window(f, l, n) /\ v = [c \in 0 .. n - 1 |-> f[l + c]]
  BY DEF Window
<1>2. v[a] = f[x] /\ v[b] = f[y] /\ x \in S /\ y \in S
  BY <1>1
<1>3. CASE f[x] > f[y]
  <2>1. Swapped(v, s) = [v EXCEPT ![a] = v[b], ![b] = v[a]]
    BY <1>2, <1>3 DEF Swapped
  <2>2. ASSUME NEW c \in 0 .. n - 1
        PROVE  h[l + c] = [v EXCEPT ![a] = v[b], ![b] = v[a]][c]
    <3>1. PICK z \in S : z = l + c
      OBVIOUS
    <3>2. (z = x <=> c = a) /\ (z = y <=> c = b) /\ v[c] = f[z]
      BY <1>1, <3>1
    <3>3. h[z] = IF z = y THEN f[x] ELSE IF z = x THEN f[y] ELSE f[z]
      BY <1>2, <1>3
    <3>4. [v EXCEPT ![a] = v[b], ![b] = v[a]][c]
            = IF c = b THEN v[a] ELSE IF c = a THEN v[b] ELSE v[c]
      BY <1>1
    <3> QED
      BY <1>2, <3>1, <3>2, <3>3, <3>4
  <2>3. DOMAIN [v EXCEPT ![a] = v[b], ![b] = v[a]] = 0 .. n - 1
    BY <1>1
  <2> QED
    BY <1>1, <2>1, <2>2, <2>3 DEF Window
<1>4. CASE ~(f[x] > f[y])
  BY <1>1, <1>2, <1>4 DEF Swapped, Window
<1> QED
  BY <1>3, <1>4

LEMMA FastSortSettled ==
  ASSUME IInv, CInv, SInv, NEW p \in DOMAIN calls, FastSort(p)
  PROVE  SInv'
<1>1. PICK c \in CallType : c = calls[p]
  BY DEF IInv, Types
<1>2. PICK l \in Nat, n \in Nat, i \in Nat :
        /\ l = c.left /\ n = c.size /\ i = c.i /\ n # 0
        /\ Addresses(p) = l .. l + n - 1 /\ Addresses(p) \subseteq Elements
  BY <1>1, RangeFits DEF Addresses
<1>3. /\ c.pc = "network" /\ input' = input /\ MemoryTypes /\ Work(p) = "main"
      /\ Work(p)' = "main"
  <2>1. c.pc = "network" /\ input' = input /\ Work(p) = "main" /\ MemoryTypes
    BY <1>1 DEF FastSort, CInv, Places
  <2> QED
    BY <2>1, SameWork
<1>4. PICK f \in [Elements -> Int] : f = KeysIn("main")
  BY MainKeys
<1>5. PICK t \in NetworkRuns(n, Int, i) : t[i] = [a \in 0 .. n - 1 |-> f[l + a]]
  BY <1>1, <1>2, <1>3, <1>4 DEF SInv, Settled
<1>6. PICK swaps : swaps = Network!Swaps(n)
  OBVIOUS
<1>7. swaps \in Seq((0 .. n - 1) \X (0 .. n - 1))
  BY <1>2, <1>6, NetworksAlwaysFit DEF NetworksFit
<1>8. CASE /\ i < Len(swaps)
           /\ SortSwap("main", c.left + swaps[c.i + 1][1], c.left + swaps[c.i + 1][2])
           /\ Update(p, [c EXCEPT !.i = @ + 1])
  <2>1. PICK o \in Nat : o = i + 1
    OBVIOUS
  <2>2. PICK s \in (0 .. n - 1) \X (0 .. n - 1) : s = swaps[o]
    <3>1. PICK m \in Nat : m = Len(swaps)
      BY <1>7, LenProperties
    <3>2. o \in 1 .. m
      BY <1>8, <2>1, <3>1
    <3> QED
      BY <1>7, <3>1, <3>2, ElementOfSeq
  <2>3. PICK a \in 0 .. n - 1, b \in 0 .. n - 1 : s = <<a, b>>
    OBVIOUS
  <2>4. PICK y, z : y = l + a /\ z = l + b
    OBVIOUS
  <2>5. y \in Elements /\ z \in Elements
    <3>1. y \in l .. l + n - 1 /\ z \in l .. l + n - 1
      BY <2>4
    <3> QED
      BY <1>2, <3>1
  <2>6. SortSwap("main", y, z)
    BY <1>2, <1>8, <2>1, <2>2, <2>3, <2>4
  <2>7. PICK h : h = KeysIn("main")'
    OBVIOUS
  <2>8. h = IF f[y] > f[z] THEN [f EXCEPT ![y] = f[z], ![z] = f[y]] ELSE f
    BY <1>3, <1>4, <2>5, <2>6, <2>7, SwapKeys
  <2>9. [e \in 0 .. n - 1 |-> h[l + e]] = Swapped(t[i], s)
    <3>1. l .. l + n - 1 \subseteq Elements
      BY <1>2
    <3>2. ExchangesAt(f, h, l, a, b)
      BY <2>4, <2>8 DEF ExchangesAt
    <3>3. Window(h, l, n) = Swapped(Window(f, l, n), s)
      BY SMTT(30), <2>3, <3>1, <3>2, NetworkExchange
    <3> QED
      BY <1>5, <3>3 DEF Window
  <2>10. PICK u \in NetworkRuns(n, Int, o) : u[o] = Swapped(t[i], s)
    BY <1>6, <2>1, <2>2, NetworkTurn
  <2>11. PICK x : x = [c EXCEPT !.i = @ + 1]
    OBVIOUS
  <2>12. x.left = c.left /\ x.size = n /\ x.pc = "network" /\ x.i = o
    BY <1>2, <1>3, <2>1, <2>11 DEF CallType
  <2>13. Update(p, x) /\ calls'[p] = x
    BY <1>8, <2>11 DEF Update, IInv, Types
  <2>14. Settled(p)'
    BY <1>2, <2>7, <2>9, <2>10, <2>12, <2>13 DEF Settled
  <2>15. Moves(p)
    BY FastSortMoves
  <2> QED
    BY <1>1, <1>2, <1>3, <2>12, <2>13, <2>14, <2>15, MovingSettled
<1>9. CASE i = Len(swaps) /\ memory' = memory /\ Update(p, [c EXCEPT !.pc = "done", !.i = 0])
  <2>1. Mono(t[i], 0 .. n - 1)
    BY <1>3, <1>6, <1>9, ZeroOnePrinciple
  <2>2. ASSUME NEW a \in l .. l + n - 1, NEW b \in l .. l + n - 1, a < b
        PROVE  f[a] <= f[b]
    <3>1. PICK y \in 0 .. n - 1, z \in 0 .. n - 1 : a = l + y /\ b = l + z
      <4>1. a - l \in 0 .. n - 1 /\ b - l \in 0 .. n - 1 /\ a = l + (a - l) /\ b = l + (b - l)
        OBVIOUS
      <4> QED
        BY <4>1
    <3>2. y < z
      BY <2>2, <3>1
    <3>3. t[i][y] <= t[i][z]
      BY <2>1, <3>2 DEF Mono
    <3> QED
      BY <1>5, <3>1, <3>3
  <2>3. KeysIn("main")' = f
    BY <1>3, <1>4, <1>9 DEF KeysIn, Elements, key
  <2>4. PICK x : x = [c EXCEPT !.pc = "done", !.i = 0]
    OBVIOUS
  <2>5. x.left = c.left /\ x.size = c.size /\ x.pc = "done"
    BY <2>4 DEF CallType
  <2>6. Update(p, x) /\ calls'[p] = x
    BY <1>9, <2>4 DEF Update, IInv, Types
  <2>7. Addresses(p)' = l .. l + n - 1
    BY <1>2, <2>5, <2>6 DEF Addresses
  <2>8. Settled(p)'
    BY <1>3, <2>2, <2>3, <2>5, <2>6, <2>7 DEF Settled, Mono
  <2> QED
    BY <1>1, <1>3, <1>9, <2>5, <2>6, <2>8, MovingSettled
<1> QED
  BY <1>1, <1>2, <1>3, <1>6, <1>8, <1>9 DEF FastSort

(* quick_sort begins no section of less than two items. *)
LEMMA ForkSettled ==
  ASSUME IInv, CInv, SInv, input' = input, NEW p \in DOMAIN calls, calls[p].pc # "forked",
         Fork(p), calls[p].j <= calls[p].size, Moves(p) \/ memory' = memory,
         input.algorithm # "bubble_sort"
  PROVE  SInv'
<1>1. PICK x \in CallType : /\ Update(p, x)
                            /\ x.left = calls[p].left /\ x.size = calls[p].size
                            /\ x.pc = "forked" /\ x.j = calls[p].j /\ x.todo = Sections(p)
  BY ForkExists
<1>2. calls'[p] = x /\ calls[p] \in CallType /\ calls[p].left \in Nat /\ calls[p].size \in Nat
  BY <1>1, RangeFits DEF Update, IInv, Types
<1>3. MemoryTypes /\ Addresses(p) \subseteq Elements
  BY RangeFits DEF CInv
<1>4. \A a \in Elements \ Addresses(p) : /\ memory'.main[a] = memory.main[a]
                                         /\ memory'.tmp[a] = memory.tmp[a]
  BY <1>3, MovesTypes
<1>5. ASSUME NEW s \in {1, 2}, s \notin Sections(p)
      PROVE  ~Merging /\ Behind(p, s) <= First(p, s) + 1
  <2>1. ~Merging /\ ~(Section(p, s).size > 1)
    BY <1>5 DEF Sections
  <2>2. PICK l \in Nat, n \in Nat, m \in Nat : l = calls[p].left /\ n = calls[p].size /\ m = Middle(p)
    BY <1>2, MiddleFits
  <2>3. CASE s = 1
    <3>1. Section(p, s).size = m /\ First(p, s) = l /\ Behind(p, s) = l + m
      BY <2>2, <2>3 DEF Section, Call, First, Behind
    <3>2. l + m <= l + 1
      BY <2>1, <3>1
    <3> QED
      BY <2>1, <3>1, <3>2
  <2>4. CASE s = 2
    <3>1. Section(p, s).size = n - m - 1 /\ First(p, s) = l + m + 1 /\ Behind(p, s) = l + n
      BY <2>1, <2>2, <2>4 DEF Section, Call, First, Behind
    <3>2. l + n <= l + m + 1 + 1
      BY <2>1, <3>1
    <3> QED
      BY <2>1, <3>1, <3>2
  <2> QED
    BY <2>3, <2>4
<1>6. \A s : First(p, s)' = First(p, s) /\ Behind(p, s)' = Behind(p, s)
  BY <1>1, <1>2 DEF First, Behind, Middle, Merging
<1>7. Kids(p)'
  BY <1>1, <1>2, <1>5, <1>6 DEF Kids, Merging
<1>8. Settled(p)'
  BY <1>1, <1>2 DEF Settled
<1> QED
  BY <1>1, <1>4, <1>7, <1>8, LocalSettled

LEMMA QuickSettled ==
  ASSUME IInv, CInv, SInv, NEW p \in DOMAIN calls,
         PivotIdx(p) \/ PartitionTurn(p) \/ PartitionEnds(p) \/ Divide(p)
  PROVE  SInv'
<1>1. CASE PivotIdx(p)
  <2>1. PICK c \in CallType : c = calls[p]
    BY DEF IInv, Types
  <2>2. PICK x : x = [c EXCEPT !.pc = "partition"]
    OBVIOUS
  <2>3. x.left = c.left /\ x.size = c.size /\ x.pc = "partition"
    BY <2>2 DEF CallType
  <2>4. c.pc = "begin" /\ input' = input /\ Update(p, x) /\ calls'[p] = x /\ Moves(p)
    BY <1>1, <2>1, <2>2, PivotMoves DEF PivotIdx, Update, IInv, Types
  <2>5. Settled(p)'
    BY <1>1, <2>3, <2>4 DEF Settled, PivotIdx
  <2> QED
    BY <2>1, <2>3, <2>4, <2>5, MovingSettled
<1>2. CASE PartitionTurn(p)
  <2>1. PICK x \in CallType : /\ Update(p, x) /\ x.pc = "partition"
                              /\ x.left = calls[p].left /\ x.size = calls[p].size
    BY <1>2, TurnExists
  <2>2. calls[p].pc = "partition" /\ input' = input /\ calls'[p] = x /\ Moves(p)
    BY <1>2, <2>1, PartitionTurnMoves DEF PartitionTurn, Update, IInv, Types
  <2>3. Settled(p)'
    BY <2>1, <2>2 DEF SInv, Settled
  <2> QED
    BY <2>1, <2>2, <2>3, MovingSettled
<1>3. CASE PartitionEnds(p)
  <2>1. /\ calls[p].pc = "partition" /\ input' = input /\ Moves(p) /\ Fork(p)
        /\ calls[p].j < calls[p].size /\ input.algorithm # "bubble_sort"
    BY <1>3, PartitionEndsMoves DEF PartitionEnds, CInv, Places, SInv, Settled
  <2>2. calls[p].j <= calls[p].size
    BY <2>1, RangeFits
  <2> QED
    BY <2>1, <2>2, ForkSettled
<1>4. CASE Divide(p)
  <2>1. /\ calls[p].pc = "begin" /\ input' = input /\ memory' = memory /\ Fork(p)
        /\ input.algorithm # "bubble_sort"
    BY <1>4 DEF Divide, Merging
  <2>2. calls[p].j = 0
    BY <2>1 DEF IInv, Bounds
  <2>3. calls[p].j <= calls[p].size
    BY <2>2, RangeFits
  <2> QED
    BY <2>1, <2>3, ForkSettled
<1> QED
  BY <1>1, <1>2, <1>3, <1>4

(* While merging, the halves hold elements, whose keys are numbers. *)
LEMMA MergeKeys ==
  ASSUME IInv, CInv, NEW p \in DOMAIN calls, calls[p].pc = "merge"
  PROVE  LET c == calls[p]  l == c.left  m == Middle(p)
         IN  /\ \A a \in l .. l + c.i + c.j - 1 : KeysIn(Work(p))[a] \in Int
             /\ \A b \in l + c.i .. l + m - 1 : KeysIn(Work(Append(p, 1)))[b] \in Int
             /\ \A b \in l + m + c.j .. l + c.size - 1 : KeysIn(Work(Append(p, 1)))[b] \in Int
<1>0. PICK l \in Nat, i \in Nat, j \in Nat, m \in Nat, n \in Nat :
        /\ l = calls[p].left /\ i = calls[p].i /\ j = calls[p].j /\ m = Middle(p)
        /\ n = calls[p].size /\ m <= n /\ i <= m /\ j <= n - m
  BY RangeFits, MergeRange
<1>1. /\ m <= n /\ i <= m /\ j <= n - m
      /\ Addresses(p) = l .. l + n - 1 /\ Addresses(p) \subseteq Elements
  BY <1>0, RangeFits DEF Addresses
<1>2. PICK into, from : into = memory[Work(p)] /\ from = memory[Work(Append(p, 1))]
  OBVIOUS
<1>3. Content(p) \subseteq Elements
  <2>1. Merging /\ Holds(p)
    BY DEF IInv, Bounds, CInv
  <2> QED
    BY <1>1, <2>1 DEF Holds
<1>4. Content(p) = {into[a] : a \in l .. l + i + j - 1} \cup {from[l + b] : b \in i .. m - 1}
                     \cup {from[l + b] : b \in m + j .. n - 1}
  BY <1>0, <1>2 DEF Content
<1>5. key \in [Elements -> Int]
  BY InputFacts DEF IInv, Types
<1>6. ASSUME NEW a \in l .. l + i + j - 1 PROVE KeysIn(Work(p))[a] \in Int
  <2>1. a \in l .. l + n - 1
    BY <1>1
  <2>2. a \in Elements /\ into[a] \in Elements
    BY <1>1, <1>3, <1>4, <2>1
  <2> QED
    BY <1>2, <1>5, <2>2 DEF KeysIn
<1>7. ASSUME NEW b \in l .. l + n - 1, from[b] \in Elements PROVE KeysIn(Work(Append(p, 1)))[b] \in Int
  BY <1>1, <1>2, <1>5, <1>7 DEF KeysIn
<1>8. ASSUME NEW b \in l + i .. l + m - 1 PROVE KeysIn(Work(Append(p, 1)))[b] \in Int
  <2>1. PICK d \in i .. m - 1 : b = l + d
    <3>1. b - l \in i .. m - 1 /\ b = l + (b - l)
      BY <1>1
    <3> QED
      BY <3>1
  <2>2. from[b] \in Elements
    BY <1>3, <1>4, <2>1
  <2>3. b \in l .. l + n - 1
    BY <1>1
  <2> QED
    BY <1>7, <2>2, <2>3
<1>9. ASSUME NEW b \in l + m + j .. l + n - 1 PROVE KeysIn(Work(Append(p, 1)))[b] \in Int
  <2>1. PICK d \in m + j .. n - 1 : b = l + d
    <3>1. b - l \in m + j .. n - 1 /\ b = l + (b - l)
      BY <1>1
    <3> QED
      BY <3>1
  <2>2. from[b] \in Elements
    BY <1>3, <1>4, <2>1
  <2>3. b \in l .. l + n - 1
    BY <1>1
  <2> QED
    BY <1>7, <2>2, <2>3
<1> QED
  BY <1>0, <1>6, <1>8, <1>9

LEMMA MergeTurnSettled ==
  ASSUME IInv, CInv, SInv, NEW p \in DOMAIN calls, Merge(p), NEW c \in CallType, c = calls[p],
         c.i + c.j < c.size
  PROVE  SInv'
<1>1. PICK m : m = Middle(p)
  OBVIOUS
<1>2. calls[p].pc = "merge" /\ c.pc = "merge" /\ input' = input /\ Merging
  BY DEF Merge, IInv, Bounds
<1>3. PICK first \in BOOLEAN, x \in CallType :
        /\ first <=> UseArray1(p, c.left, c.left + m)
        /\ IF first THEN c.i < m ELSE c.j < c.size - m
        /\ Update(p, x) /\ x.left = c.left /\ x.size = c.size /\ x.pc = "merge"
        /\ x.i = (IF first THEN c.i + 1 ELSE c.i) /\ x.j = (IF first THEN c.j ELSE c.j + 1)
        /\ memory' = [memory EXCEPT ![Work(p)][c.left + c.i + c.j] =
                        memory[Work(Append(p, 1))][IF first THEN c.left + c.i
                                                   ELSE c.left + m + c.j]]
  BY <1>1, MergeTurns
<1>4. /\ \A a \in Elements \ Addresses(p) : /\ memory'.main[a] = memory.main[a]
                                            /\ memory'.tmp[a] = memory.tmp[a]
      /\ memory'[Work(Append(p, 1))] = memory[Work(Append(p, 1))]
      /\ \A a \in c.left .. c.left + c.i + c.j - 1 : memory'[Work(p)][a] = memory[Work(p)][a]
      /\ memory'[Work(p)][c.left + c.i + c.j] =
           memory[Work(Append(p, 1))][IF first THEN c.left + c.i ELSE c.left + m + c.j]
  <2>1. c.i + c.j < c.size /\ c = calls[p]
    OBVIOUS
  <2>2. \A a \in Elements \ Addresses(p) : /\ memory'.main[a] = memory.main[a]
                                           /\ memory'.tmp[a] = memory.tmp[a]
    BY <1>1, <1>2, <1>3, <2>1, MergeTurnHolds
  <2>3. /\ memory'[Work(Append(p, 1))] = memory[Work(Append(p, 1))]
        /\ \A a \in c.left .. c.left + c.i + c.j - 1 : memory'[Work(p)][a] = memory[Work(p)][a]
    BY <1>1, <1>2, <1>3, <2>1, MergeTurnHolds
  <2>4. memory'[Work(p)][c.left + c.i + c.j] =
           memory[Work(Append(p, 1))][IF first THEN c.left + c.i ELSE c.left + m + c.j]
    <3>1. PICK e, t, W : /\ e = c.left + c.i + c.j /\ W = Work(p)
                         /\ t = memory[Work(Append(p, 1))][IF first THEN c.left + c.i
                                                           ELSE c.left + m + c.j]
      OBVIOUS
    <3>2. memory' = [memory EXCEPT ![W][e] = t]
      BY <1>3, <3>1
    <3>3. e \in Elements
      BY <3>1, RangeFits DEF Addresses
    <3>4. W \in {"main", "tmp"} /\ MemoryTypes
      BY <3>1 DEF Work, CInv
    <3>5. W \in DOMAIN memory /\ e \in DOMAIN memory[W]
      BY <3>3, <3>4 DEF MemoryTypes
    <3> QED
      BY <3>1, <3>2, <3>5
  <2> QED
    BY <2>2, <2>3, <2>4
<1>5. PICK l \in Nat, i \in Nat, j \in Nat, n \in Nat :
        /\ l = c.left /\ i = c.i /\ j = c.j /\ n = c.size
        /\ Addresses(p) = l .. l + n - 1 /\ Addresses(p) \subseteq Elements
  BY RangeFits DEF Addresses
<1>6. m \in Nat /\ m <= n /\ i <= m /\ j <= n - m
  BY <1>1, <1>2, <1>5, MergeRange
<1>7. (first => i < m) /\ (~first => j < n - m) /\ i + j < n
  BY <1>3, <1>5
<1>8. PICK f, g, h : /\ f = KeysIn(Work(p)) /\ g = KeysIn(Work(Append(p, 1)))
                     /\ h = KeysIn(Work(p))'
  OBVIOUS
<1>9. MergeMono(f, g, l, i, j, m, n)
  BY <1>1, <1>2, <1>5, <1>8 DEF SInv, Settled
<1>10. /\ Elements' = Elements /\ key' = key /\ Middle(p)' = Middle(p)
       /\ Work(p)' = Work(p) /\ Work(Append(p, 1))' = Work(Append(p, 1))
       /\ calls'[p] = x
  <2>1. calls'[p] = x
    BY <1>3 DEF Update, IInv, Types
  <2> QED
    BY <1>2, <1>3, <2>1, SameWork DEF Elements, key, Middle, Merging
<1>11. KeysIn(Work(Append(p, 1)))' = g
  BY <1>4, <1>8, <1>10 DEF KeysIn
<1>12. /\ \A b \in l + i .. l + m - 1 : g[b] \in Int
       /\ \A b \in l + m + j .. l + n - 1 : g[b] \in Int
       /\ \A a \in l .. l + i + j - 1 : f[a] \in Int
  BY <1>1, <1>2, <1>5, <1>8, MergeKeys
<1>13. PICK y, z, e : y = l + i /\ z = l + m + j /\ e = l + i + j
  OBVIOUS
<1>14. /\ l .. e - 1 \subseteq l .. l + n - 1 /\ e \in l .. l + n - 1
       /\ i < m => y \in l .. l + n - 1 /\ y \in l + i .. l + m - 1
       /\ j < n - m => z \in l .. l + n - 1 /\ z \in l + m + j .. l + n - 1
  BY <1>6, <1>7, <1>13
<1>15. \A a \in l .. l + i + j - 1 : h[a] = f[a]
  <2>1. \A a \in l .. l + i + j - 1 : a \in Elements
    <3>1. l .. l + i + j - 1 = l .. e - 1
      BY <1>13
    <3> QED
      BY <1>5, <1>14, <3>1
  <2> QED
    BY SMTT(30), <1>4, <1>5, <1>8, <1>10, <2>1 DEF KeysIn
<1>16. h[l + i + j] = IF first THEN g[l + i] ELSE g[l + m + j]
  <2>1. e \in Elements /\ (first => y \in Elements) /\ (~first => z \in Elements)
    BY <1>5, <1>7, <1>14
  <2>2. memory'[Work(p)][e] = memory[Work(Append(p, 1))][IF first THEN y ELSE z]
    BY <1>4, <1>5, <1>13
  <2>3. h[e] = IF first THEN g[y] ELSE g[z]
    BY <1>8, <1>10, <2>1, <2>2 DEF KeysIn
  <2> QED
    BY <1>13, <2>3
<1>17. first <=> j = n - m \/ (i < m /\ g[y] <= g[z])
  <2>1. first <=> \/ j = n - m
                  \/ i < m /\ key[memory[Work(Append(p, 1))][y]] <= key[memory[Work(Append(p, 1))][z]]
    BY <1>1, <1>3, <1>5, <1>13 DEF UseArray1
  <2>2. (i < m => y \in Elements) /\ (j # n - m => z \in Elements)
    <3>1. j # n - m => j < n - m
      BY <1>6
    <3> QED
      BY <1>5, <1>14, <3>1
  <2> QED
    BY <1>8, <2>1, <2>2 DEF KeysIn
<1>18. first => i < m /\ (j = n - m \/ g[l + i] <= g[l + m + j])
  BY <1>7, <1>13, <1>17
<1>19. ~first => j < n - m /\ (i = m \/ g[l + m + j] <= g[l + i])
  <2>1. ASSUME ~first, i # m PROVE g[z] <= g[y]
    <3>1. i < m /\ j < n - m /\ ~(g[y] <= g[z])
      BY <1>6, <1>7, <1>17, <2>1
    <3>2. g[y] \in Int /\ g[z] \in Int
      BY <1>12, <1>14, <3>1
    <3> QED
      BY <3>1, <3>2
  <2> QED
    BY <1>7, <1>13, <2>1
<1>20. MergeMono(h, g, l, IF first THEN i + 1 ELSE i, IF first THEN j ELSE j + 1, m, n)
  BY <1>6, <1>9, <1>12, <1>15, <1>16, <1>18, <1>19, MergeTurnMono
<1>21. Settled(p)' /\ Kids(p)'
  BY <1>1, <1>3, <1>5, <1>8, <1>10, <1>11, <1>20 DEF Settled, Kids
<1> QED
  BY <1>2, <1>3, <1>4, <1>21, LocalSettled

LEMMA MergeSettled ==
  ASSUME IInv, CInv, SInv, NEW p \in DOMAIN calls, Merge(p)
  PROVE  SInv'
<1>1. PICK c \in CallType : c = calls[p]
  BY DEF IInv, Types
<1>2. CASE c.i + c.j < c.size
  BY <1>1, <1>2, MergeTurnSettled
<1>3. CASE ~(c.i + c.j < c.size)
  <2>1. c.pc = "merge" /\ input' = input
    BY <1>1 DEF Merge
  <2>2. /\ c.i + c.j = c.size /\ memory' = memory
        /\ Update(p, [c EXCEPT !.pc = "done", !.i = 0, !.j = 0])
    BY <1>1, <1>3 DEF Merge
  <2>3. PICK x : x = [c EXCEPT !.pc = "done", !.i = 0, !.j = 0]
    OBVIOUS
  <2>4. x.left = c.left /\ x.size = c.size /\ x.pc = "done"
    BY <2>3 DEF CallType
  <2>5. Update(p, x) /\ calls'[p] = x
    BY <2>2, <2>3 DEF Update, IInv, Types
  <2>6. PICK l \in Nat, i \in Nat, j \in Nat, m \in Nat, n \in Nat :
          /\ l = c.left /\ i = c.i /\ j = c.j /\ m = Middle(p) /\ n = c.size
          /\ m <= n /\ i <= m /\ j <= n - m
    BY <1>1, <2>1, RangeFits, MergeRange
  <2>7. PICK f, g : f = KeysIn(Work(p)) /\ g = KeysIn(Work(Append(p, 1)))
    OBVIOUS
  <2>8. MergeMono(f, g, l, i, j, m, n)
    BY <1>1, <2>1, <2>6, <2>7 DEF SInv, Settled
  <2>9. l + i + j - 1 = l + n - 1
    BY <2>2, <2>6
  <2>10. Mono(f, l .. l + n - 1)
    BY <2>8, <2>9 DEF MergeMono
  <2>11. Addresses(p)' = l .. l + n - 1 /\ KeysIn(Work(p))' = f
    <3>1. Work(p)' = Work(p)
      BY <2>1, SameWork
    <3> QED
      BY <2>1, <2>2, <2>4, <2>5, <2>6, <2>7, <3>1 DEF Addresses, KeysIn, Elements, key
  <2>12. Settled(p)'
    BY <2>4, <2>5, <2>10, <2>11 DEF Settled
  <2> QED
    BY <1>1, <2>1, <2>2, <2>4, <2>5, <2>12, MovingSettled
<1> QED
  BY <1>2, <1>3

LEMMA BubbleSettled ==
  ASSUME IInv, CInv, SInv, NEW p \in DOMAIN calls,
         BeginBubbleSort(p) \/ BubbleTurn(p) \/ BubbleRound(p)
  PROVE  SInv'
<1>1. PICK c \in CallType : c = calls[p]
  BY DEF IInv, Types
<1>2. PICK l \in Nat, n \in Nat, i \in Nat, j \in Nat, k \in Nat :
        /\ l = c.left /\ n = c.size /\ i = c.i /\ j = c.j /\ k = c.k /\ n # 0
        /\ Addresses(p) = l .. l + n - 1 /\ Addresses(p) \subseteq Elements
  BY <1>1, RangeFits DEF Addresses
<1>3. /\ c.pc \notin {"forked", "done"} /\ input' = input /\ Work(p)' = "main"
      /\ calls[p].pc # "forked" /\ MemoryTypes
  BY <1>1, BubbleExists, SameWork DEF Work, CInv
<1>4. PICK f \in [Elements -> Int] : f = KeysIn("main")
  BY MainKeys
<1>5. \A a \in l .. l + n - 1 : f[a] \in Int
  BY <1>2
<1>6. PICK h : h = KeysIn("main")'
  OBVIOUS
<1>7. memory' = memory => h = f
  BY <1>3, <1>4, <1>6 DEF KeysIn, Elements, key
<1>8. CASE BeginBubbleSort(p)
  <2>1. PICK o : o = n - 1
    OBVIOUS
  <2>2. PICK x : x = [c EXCEPT !.pc = "bubble", !.k = o]
    OBVIOUS
  <2>3. /\ x.left = l /\ x.size = n /\ x.pc = "bubble" /\ x.i = i /\ x.j = j /\ x.k = o
    BY <1>2, <2>2 DEF CallType
  <2>4. Update(p, x) /\ memory' = memory /\ calls'[p] = x /\ i = 0 /\ j = 0
    BY <1>1, <1>2, <1>8, <2>1, <2>2 DEF BeginBubbleSort, Update, IInv, Types, Bounds
  <2>5. BubbleMono(f, l, n, i, j, o)
    <3>1. ASSUME NEW a \in l .. l + n - 1, NEW b \in l .. l + n - 1, b < a
          PROVE  ~(l + o < a \/ (l + j < a /\ a <= l + i))
      BY <2>1, <2>4, <3>1
    <3>2. ASSUME NEW b \in l .. l + i PROVE f[b] <= f[l + i]
      <4>1. b = l /\ l + i = l /\ l \in l .. l + n - 1
        BY <1>2, <2>4
      <4> QED
        BY <1>5, <4>1
    <3> QED
      BY <3>1, <3>2 DEF BubbleMono
  <2>6. Settled(p)'
    BY <1>6, <1>7, <2>3, <2>4, <2>5 DEF Settled
  <2> QED
    BY <1>1, <1>2, <1>3, <2>3, <2>4, <2>6, MovingSettled
<1>9. CASE BubbleTurn(p)
  <2>1. /\ c.pc = "bubble" /\ i < k /\ j <= i /\ k < n
        /\ SortSwap("main", c.left + c.i, c.left + c.i + 1)
    BY <1>1, <1>2, <1>9 DEF BubbleTurn, IInv, Bounds
  <2>2. PICK y, z : y = l + i /\ z = l + i + 1
    OBVIOUS
  <2>3. y \in Elements /\ z \in Elements
    <3>1. y \in l .. l + n - 1 /\ z \in l .. l + n - 1
      BY <2>1, <2>2
    <3> QED
      BY <1>2, <3>1
  <2>4. h = IF f[y] > f[z] THEN [f EXCEPT ![y] = f[z], ![z] = f[y]] ELSE f
    <3>1. SortSwap("main", y, z)
      BY <1>2, <2>1, <2>2
    <3> QED
      BY <1>3, <1>4, <1>6, <2>3, <3>1, SwapKeys
  <2>5. BubbleMono(f, l, n, i, j, k)
    BY <1>1, <1>2, <1>4, <2>1 DEF SInv, Settled
  <2>6. PICK o \in Nat, u \in Nat : o = i + 1 /\ u = IF f[y] > f[z] THEN i ELSE j
    <3>1. CASE f[y] > f[z]
      BY <3>1
    <3>2. CASE ~(f[y] > f[z])
      BY <3>2
    <3> QED
      BY <3>1, <3>2
  <2>7. BubbleMono(h, l, n, o, u, k)
    <3>1. l .. l + n - 1 \subseteq Elements
      BY <1>2
    <3>2. BubbleMono(h, l, n, i + 1, IF f[y] > f[z] THEN i ELSE j, k)
      BY <2>1, <2>2, <2>4, <2>5, <3>1, BubbleTurnMono
    <3> QED
      BY <2>6, <3>2
  <2>8. PICK x : x = [c EXCEPT !.i = @ + 1, !.j = u]
    OBVIOUS
  <2>9. x.left = l /\ x.size = n /\ x.pc = "bubble" /\ x.i = o /\ x.j = u /\ x.k = k
    BY <1>2, <2>1, <2>6, <2>8 DEF CallType
  <2>10. Update(p, x) /\ calls'[p] = x
    <3>1. f[y] = key[memory.main[y]] /\ f[z] = key[memory.main[z]]
      BY <1>4, <2>3 DEF KeysIn
    <3>2. u = IF key[memory.main[c.left + c.i]] > key[memory.main[c.left + c.i + 1]] THEN c.i ELSE c.j
      BY <1>2, <2>2, <2>6, <3>1
    <3>3. Update(p, x)
      BY <1>1, <1>9, <2>8, <3>2 DEF BubbleTurn
    <3> QED
      BY <3>3 DEF Update, IInv, Types
  <2>11. Settled(p)'
    BY <1>6, <2>7, <2>9, <2>10 DEF Settled
  <2> QED
    BY <1>1, <1>2, <1>3, <1>9, <2>9, <2>10, <2>11, BubbleTurnMoves, MovingSettled
<1>10. CASE BubbleRound(p)
  <2>1. c.pc = "bubble" /\ i = k /\ j <= k /\ k < n /\ memory' = memory
    BY <1>1, <1>2, <1>10 DEF BubbleRound, IInv, Bounds
  <2>2. BubbleMono(f, l, n, k, j, k)
    BY <1>1, <1>2, <1>4, <2>1 DEF SInv, Settled
  <2>3. IF j = 0 THEN Mono(f, l .. l + n - 1) ELSE BubbleMono(f, l, n, 0, 0, j)
    BY <1>5, <2>1, <2>2, BubbleRoundMono
  <2>4. CASE j = 0
    <3>1. PICK x : x = [c EXCEPT !.pc = "done", !.i = 0, !.k = 0]
      OBVIOUS
    <3>2. x.left = l /\ x.size = n /\ x.pc = "done"
      BY <1>2, <3>1 DEF CallType
    <3>3. Update(p, x) /\ calls'[p] = x
      BY <1>1, <1>2, <1>10, <2>4, <3>1 DEF BubbleRound, Update, IInv, Types
    <3>4. Addresses(p)' = l .. l + n - 1
      BY <3>2, <3>3 DEF Addresses
    <3>5. Settled(p)'
      BY <1>3, <1>6, <1>7, <2>1, <2>3, <2>4, <3>2, <3>3, <3>4 DEF Settled
    <3> QED
      BY <1>1, <1>2, <1>3, <2>1, <3>2, <3>3, <3>5, MovingSettled
  <2>5. CASE j # 0
    <3>1. PICK x : x = [c EXCEPT !.i = 0, !.j = 0, !.k = j]
      OBVIOUS
    <3>2. x.left = l /\ x.size = n /\ x.pc = "bubble" /\ x.i = 0 /\ x.j = 0 /\ x.k = j
      BY <1>2, <2>1, <3>1 DEF CallType
    <3>3. Update(p, x) /\ calls'[p] = x
      BY <1>1, <1>2, <1>10, <2>5, <3>1 DEF BubbleRound, Update, IInv, Types
    <3>4. Settled(p)'
      BY <1>6, <1>7, <2>1, <2>3, <2>5, <3>2, <3>3 DEF Settled
    <3> QED
      BY <1>1, <1>2, <1>3, <2>1, <3>2, <3>3, <3>4, MovingSettled
  <2> QED
    BY <2>4, <2>5
<1> QED
  BY <1>8, <1>9, <1>10

LEMMA BeginSectionSettled ==
  ASSUME IInv, CInv, SInv, NEW p \in DOMAIN calls, NEW s \in {1, 2}, BeginSection(p, s)
  PROVE  SInv'
<1>1. PICK n : n = Append(p, s)
  OBVIOUS
<1>2. /\ calls[p].pc = "forked" /\ input' = input /\ memory' = memory /\ p \in Seq({1, 2})
  BY DEF BeginSection, IInv, Types
<1>3. /\ n # p /\ n \notin DOMAIN calls /\ DOMAIN calls' = DOMAIN calls \cup {n}
      /\ \A q \in DOMAIN calls : q # p => calls'[q] = calls[q]
      /\ calls'[p].left = calls[p].left /\ calls'[p].size = calls[p].size
      /\ calls'[p].j = calls[p].j /\ calls'[p].cpus = calls[p].cpus
      /\ calls'[p].pc = "forked" /\ calls'[p].todo = calls[p].todo \ {s}
  BY <1>1, SectionBegins
<1>4. calls'[n].pc = "begin" /\ Addresses(n)' = Part(p, s)
  <2>1. PICK y : y = Section(p, s)
    OBVIOUS
  <2>2. /\ calls'[n] = y /\ y.left = First(p, s) /\ y.left + y.size = Behind(p, s)
        /\ y.pc = "begin"
    BY <1>1, <2>1, SectionBegins
  <2>3. Addresses(n)' = y.left .. y.left + y.size - 1
    BY <2>2 DEF Addresses
  <2>4. y \in CallType
    BY <2>1, SectionBegins
  <2>5. y.left + y.size - 1 = Behind(p, s) - 1
    BY <2>2, <2>4 DEF CallType
  <2> QED
    BY <2>2, <2>3, <2>5 DEF Part
<1>5. Settled(n)' /\ Kids(n)'
  BY <1>4 DEF Settled, Kids
<1>6. Settled(p)'
  BY <1>2, <1>3 DEF SInv, Settled
<1>7. Kids(p)'
  <2>1. /\ Merging' = Merging
        /\ \A u : First(p, u)' = First(p, u) /\ Behind(p, u)' = Behind(p, u)
    BY <1>2, <1>3, SameRange DEF Merging
  <2>2. \A u : Part(p, u)' = Part(p, u)
    BY <2>1 DEF Part
  <2>3. ASSUME NEW u \in {1, 2}
        PROVE  \/ u \in calls'[p].todo
               \/ ~Merging' /\ Behind(p, u)' <= First(p, u)' + 1
               \/ Append(p, u) \in DOMAIN calls' /\ Addresses(Append(p, u))' = Part(p, u)'
    <3>1. CASE u = s
      BY <1>1, <1>3, <1>4, <2>2, <3>1
    <3>2. CASE u # s
      <4>1. \/ u \in calls[p].todo
            \/ ~Merging /\ Behind(p, u) <= First(p, u) + 1
            \/ Append(p, u) \in DOMAIN calls /\ Addresses(Append(p, u)) = Part(p, u)
        BY <1>2 DEF SInv, Kids
      <4>2. CASE u \in calls[p].todo
        BY <1>3, <3>2, <4>2
      <4>3. CASE ~Merging /\ Behind(p, u) <= First(p, u) + 1
        BY <2>1, <4>3
      <4>4. CASE Append(p, u) \in DOMAIN calls /\ Addresses(Append(p, u)) = Part(p, u)
        <5>1. Append(p, u) # p
          BY <1>2, AppendIsCall
        <5>2. Addresses(Append(p, u))' = Addresses(Append(p, u))
          BY <1>3, <4>4, <5>1 DEF Addresses
        <5> QED
          BY <1>3, <2>2, <4>4, <5>2
      <4> QED
        BY <4>1, <4>2, <4>3, <4>4
    <3> QED
      BY <3>1, <3>2
  <2> QED
    BY <2>3 DEF Kids
<1>8. ASSUME NEW q \in DOMAIN calls, q # p PROVE Settled(q)' /\ Kids(q)'
  <2>1. Settled(q) /\ Kids(q) /\ calls'[q] = calls[q] /\ q \in DOMAIN calls'
    BY <1>3, <1>8 DEF SInv
  <2>2. \A u \in {1, 2} : Append(q, u) \in DOMAIN calls =>
          /\ Append(q, u) \in DOMAIN calls'
          /\ calls'[Append(q, u)].left = calls[Append(q, u)].left
          /\ calls'[Append(q, u)].size = calls[Append(q, u)].size
    BY <1>3
  <2> QED
    BY <1>2, <2>1, <2>2, SettledKept, KidsKept
<1>9. ASSUME NEW q \in DOMAIN calls' PROVE Settled(q)' /\ Kids(q)'
  BY <1>3, <1>5, <1>6, <1>7, <1>8, <1>9
<1> QED
  BY <1>9 DEF SInv

(* When the sections of p are over, the parts are sorted. *)
LEMMA PartsSorted ==
  ASSUME IInv, CInv, SInv, NEW p \in DOMAIN calls, Join(p), NEW s \in {1, 2}
  PROVE  Mono(KeysIn(Work(Append(p, s))), Part(p, s))
<1>1. /\ calls[p].pc = "forked" /\ calls[p].todo = {} /\ p \in Seq({1, 2})
      /\ \A d \in Children(p) : Returned(d)
  BY DEF Join, IInv, Types
<1>2. CASE Append(p, s) \in DOMAIN calls /\ Addresses(Append(p, s)) = Part(p, s)
  <2>1. Append(p, s) \in Children(p)
    BY <1>2 DEF Children
  <2>2. calls[Append(p, s)].pc = "done" /\ Settled(Append(p, s))
    BY <1>1, <1>2, <2>1 DEF Returned, SInv
  <2> QED
    BY <1>2, <2>2 DEF Settled
<1>3. CASE ~Merging /\ Behind(p, s) <= First(p, s) + 1
  <2>1. PICK a, b : a = First(p, s) /\ b = Behind(p, s)
    OBVIOUS
  <2>2. a \in Nat /\ b \in Nat
    <3>1. calls[p].j <= calls[p].size
      BY <1>1 DEF IInv, Bounds
    <3>2. PICK l \in Nat, n \in Nat, m \in Nat : l = calls[p].left /\ n = calls[p].size /\ m = Middle(p)
      BY <3>1, RangeFits, MiddleFits
    <3> QED
      BY <1>3, <2>1, <3>2 DEF First, Behind
  <2>3. ASSUME NEW x \in a .. b - 1, NEW y \in a .. b - 1 PROVE ~(x < y)
    BY <1>3, <2>1, <2>2, <2>3
  <2> QED
    BY <2>1, <2>3 DEF Mono, Part
<1> QED
  BY <1>1, <1>2, <1>3 DEF SInv, Kids

LEMMA JoinedSettled ==
  ASSUME IInv, CInv, OInv, SInv, NEW p \in DOMAIN calls, Join(p)
  PROVE  Settled(p)'
<1>1. /\ calls[p].pc = "forked" /\ p \in Seq({1, 2}) /\ input' = input /\ memory' = memory
      /\ calls[p].j <= calls[p].size
  BY DEF Join, IInv, Types, Bounds
<1>2. /\ calls'[p].left = calls[p].left /\ calls'[p].size = calls[p].size
      /\ calls'[p].pc = (IF Merging THEN "merge" ELSE "done") /\ calls'[p].j = 0
      /\ calls'[p].i = 0
  BY JoinLeaves
<1>3. PICK l \in Nat, n \in Nat, m \in Nat :
        /\ l = calls[p].left /\ n = calls[p].size /\ m = Middle(p) /\ m <= n
        /\ Addresses(p) = l .. l + n - 1 /\ Addresses(p) \subseteq Elements
  BY <1>1, RangeFits, MiddleFits DEF Addresses
<1>4. \A b : KeysIn(b)' = KeysIn(b)
  BY <1>1 DEF KeysIn, Elements, key
<1>5. Addresses(p)' = Addresses(p) /\ Work(p)' = Work(p) /\ Work(Append(p, 1))' = Work(Append(p, 1))
  BY <1>1, <1>2, SameWork DEF Addresses
<1>6. CASE Merging
  <2>1. PICK f, g : f = KeysIn(Work(p)) /\ g = KeysIn(Work(Append(p, 1)))
    OBVIOUS
  <2>2. Work(Append(p, 2)) = Work(Append(p, 1))
    BY <1>1, <1>6, Buffers
  <2>3. Mono(g, Part(p, 1)) /\ Mono(g, Part(p, 2))
    BY <2>1, <2>2, PartsSorted
  <2>4. Part(p, 1) = l .. l + m - 1 /\ Part(p, 2) = l + m .. l + n - 1
    <3>1. First(p, 1) = l /\ Behind(p, 1) = l + m
      BY <1>3 DEF First, Behind
    <3>2. First(p, 2) = l + m + 0 /\ Behind(p, 2) = l + n /\ l + m + 0 = l + m
      BY <1>3, <1>6 DEF First, Behind
    <3> QED
      BY <3>1, <3>2 DEF Part
  <2>5. l + 0 + 0 - 1 = l - 1 /\ l + 0 = l /\ l + m + 0 = l + m /\ l .. l - 1 = {}
    BY <1>3
  <2>6. MergeMono(f, g, l, 0, 0, m, n)
    BY <2>3, <2>4, <2>5 DEF MergeMono, Mono
  <2>7. Middle(p)' = m
    BY <1>1, <1>2, <1>3, <1>6 DEF Middle, Merging
  <2> QED
    BY <1>2, <1>3, <1>4, <1>5, <1>6, <2>1, <2>6, <2>7 DEF Settled
<1>7. CASE ~Merging
  <2>1. /\ \A b : Work(b) = "main"
        /\ input.algorithm = "quick_sort"
    <3>1. input.algorithm # "bubble_sort" /\ input.algorithm # "merge_sort"
      BY <1>1, <1>7 DEF SInv, Settled, Merging
    <3>2. input.algorithm \in {"merge_sort", "quick_sort", "bubble_sort"}
      BY InputsAssumption DEF IInv, Types
    <3> QED
      BY <1>7, <3>1, <3>2 DEF Work
  <2>2. PICK f \in [Elements -> Int] : f = KeysIn("main") /\ \A a \in Elements : f[a] = Value(a)
    BY MainKeys
  <2>3. m = calls[p].j /\ m < n
    BY <1>1, <1>3, <1>7 DEF Middle, CInv, Places
  <2>4. Part(p, 1) = l .. l + m - 1 /\ Part(p, 2) = l + m + 1 .. l + n - 1
    <3>1. First(p, 1) = l /\ Behind(p, 1) = l + m
      BY <1>3 DEF First, Behind
    <3>2. First(p, 2) = l + m + 1 /\ Behind(p, 2) = l + n
      BY <1>3, <1>7 DEF First, Behind
    <3> QED
      BY <3>1, <3>2 DEF Part
  <2>5. Mono(f, l .. l + m - 1) /\ Mono(f, l + m + 1 .. l + n - 1)
    BY <2>1, <2>2, <2>4, PartsSorted
  <2>6. PICK pivot \in Nat, last \in Nat : pivot = l + m /\ last = l + n - 1
    BY <2>3
  <2>7. /\ \A a \in l .. pivot - 1 : Value(a) <= Value(pivot)
        /\ \A a \in pivot .. last : Value(pivot) <= Value(a)
    BY <1>1, <1>3, <2>1, <2>3, <2>6 DEF OInv, Parted
  <2>8. l <= pivot /\ pivot <= last /\ \A a \in l .. last : a \in Elements /\ f[a] \in Int
    BY SMTT(30), <1>3, <2>3, <2>6
  <2>9. \A a \in l .. last : (a < pivot => f[a] <= f[pivot]) /\ (pivot <= a => f[pivot] <= f[a])
    <3>1. pivot \in l .. last /\ f[pivot] = Value(pivot)
      BY <2>2, <2>8
    <3>2. \A a \in l .. last : f[a] = Value(a) /\ (a \in l .. pivot - 1 \/ a \in pivot .. last)
      BY <2>2, <2>8
    <3> QED
      BY <2>7, <2>8, <3>1, <3>2
  <2>10. ASSUME NEW a \in l .. last, NEW b \in l .. last, a < b PROVE f[a] <= f[b]
    <3>1. CASE b < pivot
      <4>1. a \in l .. l + m - 1 /\ b \in l .. l + m - 1
        BY <2>6, <2>10, <3>1
      <4> QED
        BY <2>5, <2>10, <4>1 DEF Mono
    <3>2. CASE pivot < a
      <4>1. a \in l + m + 1 .. l + n - 1 /\ b \in l + m + 1 .. l + n - 1
        BY <2>6, <2>10, <3>2
      <4> QED
        BY <2>5, <2>10, <4>1 DEF Mono
    <3>3. CASE a <= pivot /\ pivot <= b
      <4>1. f[a] <= f[pivot] /\ f[pivot] <= f[b]
        <5>1. pivot \in l .. last /\ (a = pivot \/ a < pivot)
          BY <2>8, <3>3
        <5> QED
          BY <2>8, <2>9, <3>3, <5>1
      <4>2. f[a] \in Int /\ f[pivot] \in Int /\ f[b] \in Int
        BY <2>8
      <4> QED
        BY <4>1, <4>2
    <3> QED
      BY <3>1, <3>2, <3>3
  <2>11. Mono(f, Addresses(p))
    BY <1>3, <2>6, <2>10 DEF Mono
  <2> QED
    BY <1>2, <1>4, <1>5, <1>7, <2>1, <2>2, <2>11 DEF Settled
<1> QED
  BY <1>6, <1>7

LEMMA JoinSettled ==
  ASSUME IInv, CInv, OInv, SInv, NEW p \in DOMAIN calls, Join(p)
  PROVE  SInv'
<1>1. /\ p \in Seq({1, 2}) /\ input' = input /\ memory' = memory
      /\ \A q \in DOMAIN calls : q \in Seq({1, 2})
  BY DEF Join, IInv, Types
<1>2. /\ DOMAIN calls' = DOMAIN calls \ Children(p)
      /\ \A q \in DOMAIN calls' : q # p => calls'[q] = calls[q]
      /\ calls'[p].left = calls[p].left /\ calls'[p].size = calls[p].size
      /\ calls'[p].pc \in {"merge", "done"}
  BY JoinLeaves
<1>3. Settled(p)' /\ Kids(p)'
  BY <1>2, JoinedSettled DEF Kids
<1>4. ASSUME NEW q \in DOMAIN calls', q # p PROVE Settled(q)' /\ Kids(q)'
  <2>1. q \in DOMAIN calls /\ calls'[q] = calls[q] /\ Settled(q) /\ Kids(q) /\ q \in Seq({1, 2})
    BY <1>1, <1>2, <1>4 DEF SInv
  <2>2. ASSUME NEW u \in {1, 2}, Append(q, u) \in DOMAIN calls
        PROVE  /\ Append(q, u) \in DOMAIN calls'
               /\ calls'[Append(q, u)].left = calls[Append(q, u)].left
               /\ calls'[Append(q, u)].size = calls[Append(q, u)].size
    <3>1. Append(q, u) \notin Children(p)
      BY <1>1, <1>4, <2>1, AppendsDiffer DEF Children
    <3> QED
      BY <1>2, <2>2, <3>1
  <2> QED
    BY <1>1, <2>1, <2>2, SettledKept, KidsKept
<1> QED
  BY <1>3, <1>4 DEF SInv

LEMMA InitSInv == Init => SInv
<1> SUFFICES ASSUME Init PROVE SInv
  OBVIOUS
<1>1. DOMAIN calls = {<<>>} /\ calls[<<>>].pc = "begin"
  BY DEF Init, Call
<1> QED
  BY <1>1 DEF SInv, Settled, Kids

LEMMA NextSInv ==
  ASSUME IInv, CInv, OInv, SInv, [Next]_vars
  PROVE  SInv'
<1>1. CASE UNCHANGED vars
  <2>1. input' = input /\ memory' = memory /\ calls' = calls
    BY <1>1 DEF vars
  <2>2. ASSUME NEW q \in DOMAIN calls PROVE Settled(q)' /\ Kids(q)'
    BY <2>1, SettledKept, KidsKept DEF SInv
  <2> QED
    BY <2>1, <2>2 DEF SInv
<1>2. ASSUME NEW p \in DOMAIN calls, Step(p)
      PROVE  SInv'
  <2>1. CASE BeginNetwork(p) \/ FastSort(p)
    BY <2>1, BeginNetworkSettled, FastSortSettled
  <2>2. CASE PivotIdx(p) \/ PartitionTurn(p) \/ PartitionEnds(p) \/ Divide(p)
    BY <2>2, QuickSettled
  <2>3. CASE (\E s \in {1, 2} : BeginSection(p, s)) \/ Join(p)
    BY <2>3, BeginSectionSettled, JoinSettled
  <2>4. CASE Merge(p)
    BY <2>4, MergeSettled
  <2>5. CASE BeginBubbleSort(p) \/ BubbleTurn(p) \/ BubbleRound(p)
    BY <2>5, BubbleSettled
  <2> QED
    BY <1>2, <2>1, <2>2, <2>3, <2>4, <2>5 DEF Step
<1> QED
  BY <1>1, <1>2 DEF Next

(* Every call returns with its range sorted, in the buffer where its caller looks for
   it: the sort of the client with the whole array, for any array, processors, teams
   and interleaving (psort_private.hpp:46 and 211). *)
THEOREM CallsReturnSorted == Spec => []SortedWhenDone
<1>1. Init => OInv /\ SInv
  BY InitOInv, InitSInv
<1>2. IInv /\ CInv /\ OInv /\ SInv /\ [Next]_vars => OInv' /\ SInv'
  BY NextOInv, NextSInv
<1>3. IInv /\ SInv => SortedWhenDone
  <2> SUFFICES ASSUME IInv, SInv, NEW p \in DOMAIN calls, Returned(p),
                      NEW a \in Addresses(p), NEW b \in Addresses(p), a < b
               PROVE  key[memory[Work(p)][a]] <= key[memory[Work(p)][b]]
    BY DEF SortedWhenDone
  <2>1. PICK f : f = KeysIn(Work(p))
    OBVIOUS
  <2>2. f[a] <= f[b]
    BY <2>1 DEF SInv, Settled, Returned, Mono
  <2>3. a \in Elements /\ b \in Elements
    BY RangeFits
  <2> QED
    BY <2>1, <2>2, <2>3 DEF KeysIn
<1>4. Spec => [](IInv /\ OInv /\ SInv)
  BY <1>1, <1>2, InvariantCInv, PTL DEF Spec
<1> QED
  BY <1>3, <1>4, PTL

=============================================================================
