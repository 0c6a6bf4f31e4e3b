---------------------------- MODULE SortingProofs ----------------------------
(***************************************************************************)
(* Theorems about Sorting, for any arrays of any length, any number of     *)
(* processors and teams of any size: which calls there are, on which parts *)
(* of the memory they work, and how many of them at a time.                *)
(*                                                                         *)
(* The calls are a tree.  Two of them are in different sections of some    *)
(* call, or one is in a section of the other, which then waits.            *)
(*                                                                         *)
(* The last part is about the networks: that they sort, for any number of  *)
(* items.                                                                  *)
(***************************************************************************)
EXTENDS Sorting, FiniteSetTheorems, SequenceTheorems, TLAPS

Items == Cardinality(Elements)

Labels == {"begin", "network", "partition", "forked", "merge", "bubble", "done"}

CallType ==
  [left : Nat, size : Nat \ {0}, cpus : Nat \ {0}, pc : Labels,
   i : Nat, j : Nat, k : Nat, team : 0 .. 2, todo : SUBSET {1, 2}]

(* The call that the first m sections of p lead to. *)
Ancestor(p, m) == SubSeq(p, 1, m)

Types ==
  /\ input \in Inputs
  /\ <<>> \in DOMAIN calls
  /\ IsFiniteSet(DOMAIN calls)
  /\ \A p \in DOMAIN calls : p \in Seq({1, 2}) /\ calls[p] \in CallType

(* A call is in a section that began, of a call that waits. *)
Tree ==
  \A p \in DOMAIN calls : \A m \in 0 .. Len(p) - 1 :
    /\ Ancestor(p, m) \in DOMAIN calls
    /\ calls[Ancestor(p, m)].pc = "forked"
    /\ p[m + 1] \notin calls[Ancestor(p, m)].todo

(* Section s of call p has the part of the array from First(p, s) to before Behind(p, s). *)
First(p, s) ==
  IF s = 1 THEN calls[p].left ELSE calls[p].left + Middle(p) + (IF Merging THEN 0 ELSE 1)
Behind(p, s) == IF s = 1 THEN calls[p].left + Middle(p) ELSE calls[p].left + calls[p].size

Within(p, q, s) ==
  First(q, s) <= calls[p].left /\ calls[p].left + calls[p].size <= Behind(q, s)

(* p is in a section of q. *)
Below(p, q) ==
  /\ Len(q) < Len(p) /\ Ancestor(p, Len(q)) = q
  /\ Within(p, q, p[Len(q) + 1])

Apart(p, q) ==
  \/ calls[p].left + calls[p].size <= calls[q].left
  \/ calls[q].left + calls[q].size <= calls[p].left

Nested == \A p, q \in DOMAIN calls : p # q => Apart(p, q) \/ Below(p, q) \/ Below(q, p)

(* The ranges of calls and the variables of their loops. *)
Bounds(p) ==
  LET c == calls[p]
  IN  /\ c.left + c.size <= Items
      /\ c.cpus <= input.cpus
      /\ Merging /\ Len(p) % 2 = 1 => c.size >= 2
      /\ c.pc = "begin" => c.i = 0 /\ c.j = 0
      /\ c.pc = "network" => c.size <= MaxItems
      /\ c.pc = "partition" => ~Merging /\ c.j <= c.i /\ c.i <= c.size
      /\ c.pc = "bubble" => ~Merging /\ c.j <= c.i /\ c.i <= c.k /\ c.k < c.size
      /\ c.pc = "forked" => /\ c.i = 0 /\ c.j <= c.size
                            /\ Merging => Splits(p)
                            /\ c.todo \subseteq Sections(p)
                            /\ c.team <= CoresToUse(p)
      /\ c.pc = "merge" => /\ Merging /\ Splits(p)
                           /\ c.i <= Middle(p) /\ c.j <= c.size - Middle(p)

(* Processors: a section has its share, and as many sections are in progress as
   there are threads. *)
Shares ==
  /\ calls[<<>>].cpus = input.cpus
  /\ \A p \in DOMAIN calls : calls[p].pc = "forked" =>
       /\ \A c \in Children(p) : calls[c].cpus = CoresForSub(p)
       /\ Cardinality({c \in Children(p) : ~Returned(c)}) <= calls[p].team

(* The inductive invariant. *)
IInv ==
  /\ Types /\ Tree /\ Nested /\ Shares
  /\ \A p \in DOMAIN calls : Bounds(p)

-----------------------------------------------------------------------------
(* The names of calls. *)
LEMMA AncestorIsCall ==
  ASSUME NEW p \in Seq({1, 2}), NEW m \in 0 .. Len(p)
  PROVE  /\ Ancestor(p, m) \in Seq({1, 2}) /\ Len(Ancestor(p, m)) = m
         /\ \A i \in 1 .. m : Ancestor(p, m)[i] = p[i]
<1>1. m \in Int /\ \A i \in 1 .. m : p[i] \in {1, 2}
  BY ElementOfSeq, LenProperties
<1>2. /\ SubSeq(p, 1, m) \in Seq({1, 2})
      /\ Len(SubSeq(p, 1, m)) = IF 1 <= m THEN m - 1 + 1 ELSE 0
      /\ \A i \in 1 .. m - 1 + 1 : SubSeq(p, 1, m)[i] = p[1 + i - 1]
  BY <1>1, SubSeqProperties
<1> QED
  BY <1>1, <1>2, LenProperties DEF Ancestor

LEMMA AncestorOfItself ==
  ASSUME NEW p \in Seq({1, 2})
  PROVE  Ancestor(p, Len(p)) = p
BY SubSeqFull DEF Ancestor

LEMMA AppendIsCall ==
  ASSUME NEW p \in Seq({1, 2}), NEW s \in {1, 2}
  PROVE  /\ Append(p, s) \in Seq({1, 2}) /\ Len(Append(p, s)) = Len(p) + 1
         /\ Append(p, s)[Len(p) + 1] = s
         /\ \A i \in 1 .. Len(p) : Append(p, s)[i] = p[i]
         /\ Append(p, s) # p
<1>1. /\ Append(p, s) \in Seq({1, 2}) /\ Len(Append(p, s)) = Len(p) + 1
      /\ Append(p, s)[Len(p) + 1] = s
      /\ \A i \in 1 .. Len(p) : Append(p, s)[i] = p[i]
  BY AppendProperties
<1>2. Len(p) \in Nat
  BY LenProperties
<1>3. Len(Append(p, s)) # Len(p)
  BY <1>1, <1>2
<1> QED
  BY <1>1, <1>3

LEMMA AncestorOfAppend ==
  ASSUME NEW p \in Seq({1, 2}), NEW s \in {1, 2}, NEW m \in 0 .. Len(p)
  PROVE  Ancestor(Append(p, s), m) = Ancestor(p, m)
<1>1. Len(p) \in Nat /\ m \in 0 .. Len(Append(p, s))
  BY AppendIsCall, LenProperties
<1>2. /\ Append(p, s) \in Seq({1, 2})
      /\ \A i \in 1 .. Len(p) : Append(p, s)[i] = p[i]
  BY AppendIsCall
<1>3. /\ Ancestor(p, m) \in Seq({1, 2}) /\ Len(Ancestor(p, m)) = m
      /\ \A i \in 1 .. m : Ancestor(p, m)[i] = p[i]
  BY AncestorIsCall
<1>4. /\ Ancestor(Append(p, s), m) \in Seq({1, 2}) /\ Len(Ancestor(Append(p, s), m)) = m
      /\ \A i \in 1 .. m : Ancestor(Append(p, s), m)[i] = Append(p, s)[i]
  BY <1>1, <1>2, AncestorIsCall
<1>5. \A i \in 1 .. m : Ancestor(Append(p, s), m)[i] = Ancestor(p, m)[i]
  BY <1>1, <1>2, <1>3, <1>4
<1> QED
  BY <1>3, <1>4, <1>5, SeqEqual

LEMMA NextAncestor ==
  ASSUME NEW p \in Seq({1, 2}), NEW m \in 0 .. Len(p) - 1
  PROVE  p[m + 1] \in {1, 2} /\ Ancestor(p, m + 1) = Append(Ancestor(p, m), p[m + 1])
<1>1. Len(p) \in Nat /\ m \in 0 .. Len(p) /\ m + 1 \in 0 .. Len(p) /\ m + 1 \in 1 .. Len(p)
  BY LenProperties
<1>2. p[m + 1] \in {1, 2}
  BY <1>1, ElementOfSeq
<1>3. /\ Ancestor(p, m) \in Seq({1, 2}) /\ Len(Ancestor(p, m)) = m
      /\ \A i \in 1 .. m : Ancestor(p, m)[i] = p[i]
  BY <1>1, AncestorIsCall
<1>4. /\ Ancestor(p, m + 1) \in Seq({1, 2}) /\ Len(Ancestor(p, m + 1)) = m + 1
      /\ \A i \in 1 .. m + 1 : Ancestor(p, m + 1)[i] = p[i]
  BY <1>1, AncestorIsCall
<1> DEFINE a == Append(Ancestor(p, m), p[m + 1])
<1>5. /\ a \in Seq({1, 2}) /\ Len(a) = m + 1 /\ a[m + 1] = p[m + 1]
      /\ \A i \in 1 .. m : a[i] = Ancestor(p, m)[i]
  BY <1>2, <1>3, AppendIsCall
<1> HIDE DEF a
<1>6. \A i \in 1 .. m + 1 : Ancestor(p, m + 1)[i] = a[i]
  BY <1>1, <1>3, <1>4, <1>5
<1>7. Ancestor(p, m + 1) = a
  BY <1>4, <1>5, <1>6, SeqEqual
<1> QED
  BY <1>2, <1>7 DEF a

LEMMA AppendsDiffer ==
  ASSUME NEW p \in Seq({1, 2}), NEW q \in Seq({1, 2}), NEW s \in {1, 2}, NEW t \in {1, 2},
         Append(p, s) = Append(q, t)
  PROVE  p = q /\ s = t
<1>1. Len(p) \in Nat /\ Len(q) \in Nat
  BY LenProperties
<1>2. /\ Len(Append(p, s)) = Len(p) + 1 /\ Append(p, s)[Len(p) + 1] = s
      /\ \A i \in 1 .. Len(p) : Append(p, s)[i] = p[i]
  BY AppendIsCall
<1>3. /\ Len(Append(q, t)) = Len(q) + 1 /\ Append(q, t)[Len(q) + 1] = t
      /\ \A i \in 1 .. Len(q) : Append(q, t)[i] = q[i]
  BY AppendIsCall
<1>4. Len(p) = Len(q)
  BY <1>1, <1>2, <1>3
<1>5. \A i \in 1 .. Len(p) : p[i] = q[i]
  BY <1>2, <1>3, <1>4
<1> QED
  BY <1>2, <1>3, <1>4, <1>5, SeqEqual

-----------------------------------------------------------------------------
(* The input and the parts of a call. *)
LEMMA InputFacts ==
  ASSUME input \in Inputs
  PROVE  /\ Items \in Nat \ {0} /\ Elements = 0 .. Items - 1 /\ key \in [Elements -> Int]
         /\ input.cpus \in Nat \ {0}
         /\ input.algorithm \in {"merge_sort", "quick_sort", "bubble_sort"}
<1>1. /\ IsFiniteSet(Elements) /\ Elements # {} /\ key \in [0 .. Items - 1 -> Int]
      /\ input.cpus \in Nat \ {0}
      /\ input.algorithm \in {"merge_sort", "quick_sort", "bubble_sort"}
  BY InputsAssumption DEF Elements, key, Items
<1>2. Items \in Nat /\ Items # 0
  BY <1>1, FS_CardinalityType, FS_EmptySet DEF Items
<1>3. Elements = 0 .. Items - 1
  BY <1>1 DEF Elements
<1> QED
  BY <1>1, <1>2, <1>3

LEMMA SharesFit ==
  ASSUME NEW p, calls[p] \in CallType
  PROVE  /\ CoresToUse(p) \in {1, 2} /\ CoresForSub(p) \in Nat \ {0}
         /\ CoresForSub(p) <= calls[p].cpus
         /\ CoresToUse(p) = 2 => CoresForSub(p) + CoresForSub(p) <= calls[p].cpus
<1>1. calls[p].cpus \in Nat \ {0}
  BY DEF CallType
<1>2. CoresToUse(p) \in {1, 2} /\ (CoresToUse(p) = 2 => calls[p].cpus >= 2)
  BY DEF CoresToUse
<1>3. CASE CoresToUse(p) = 1
  BY <1>1, <1>3 DEF CoresForSub
<1>4. CASE CoresToUse(p) = 2
  BY <1>1, <1>2, <1>4 DEF CoresForSub
<1> QED
  BY <1>2, <1>3, <1>4

LEMMA MiddleFits ==
  ASSUME NEW p, calls[p] \in CallType, calls[p].j <= calls[p].size
  PROVE  /\ Middle(p) \in Nat /\ Middle(p) <= calls[p].size
         /\ Merging /\ calls[p].size >= 2 => 1 <= Middle(p) /\ Middle(p) <= calls[p].size - 1
         /\ Merging /\ calls[p].size >= 4 => 2 <= Middle(p) /\ Middle(p) <= calls[p].size - 2
BY DEF Middle, CallType

LEMMA SectionsApart ==
  ASSUME NEW p, calls[p] \in CallType, calls[p].j <= calls[p].size
  PROVE  /\ \A s \in {1, 2} : First(p, s) \in Nat /\ Behind(p, s) \in Nat
         /\ \A s \in {1, 2} : calls[p].left <= First(p, s)
         /\ \A s \in {1, 2} : Behind(p, s) <= calls[p].left + calls[p].size
         /\ Behind(p, 1) <= First(p, 2)
<1>1. /\ calls[p].left \in Nat /\ calls[p].size \in Nat
      /\ Middle(p) \in Nat /\ Middle(p) <= calls[p].size
  BY MiddleFits DEF CallType
<1> QED
  BY <1>1 DEF First, Behind

LEMMA SectionFacts ==
  ASSUME NEW p, calls[p] \in CallType, Bounds(p), calls[p].pc = "forked", Len(p) \in Nat,
         NEW s \in Sections(p)
  PROVE  /\ Section(p, s) \in CallType
         /\ Section(p, s).left = First(p, s)
         /\ Section(p, s).left + Section(p, s).size = Behind(p, s)
         /\ Section(p, s).cpus = CoresForSub(p)
         /\ Section(p, s).pc = "begin" /\ Section(p, s).i = 0 /\ Section(p, s).j = 0
         /\ Merging /\ Len(p) % 2 = 0 => Section(p, s).size >= 2
<1> DEFINE c == calls[p]
<1>1. /\ c.left \in Nat /\ c.size \in Nat /\ c.j \in Nat
      /\ c.j <= c.size /\ (Merging => Splits(p)) /\ (Merging /\ Len(p) % 2 = 1 => c.size >= 2)
  BY DEF Bounds, CallType
<1>2. CoresForSub(p) \in Nat \ {0}
  BY SharesFit
<1>3. s \in {1, 2} /\ (Merging \/ Section(p, s).size > 1)
  BY DEF Sections
<1>4. Middle(p) \in Nat
  BY <1>1, MiddleFits
<1>5. Section(p, s) = Call(First(p, s), Behind(p, s) - First(p, s), CoresForSub(p))
  <2>1. CASE s = 1
    BY <1>1, <1>4, <2>1 DEF Section, First, Behind
  <2>2. CASE s = 2
    <3>1. CASE Merging
      BY <1>1, <1>4, <2>2, <3>1 DEF Section, First, Behind
    <3>2. CASE ~Merging
      BY <1>1, <1>4, <2>2, <3>2 DEF Section, First, Behind
    <3> QED
      BY <3>1, <3>2
  <2> QED
    BY <1>3, <2>1, <2>2
<1>6. First(p, s) \in Nat /\ Behind(p, s) \in Nat
  BY <1>1, <1>3, SectionsApart
<1>7. CASE Merging
  <2>1. Len(p) % 2 = 0 \/ Len(p) % 2 = 1
    OBVIOUS
  <2>2. c.size >= 2 /\ (Len(p) % 2 = 0 => c.size >= 4)
    BY <1>1, <1>7, <2>1, SortingAssumption DEF Splits
  <2>3. /\ 1 <= Middle(p) /\ Middle(p) <= c.size - 1
        /\ Len(p) % 2 = 0 => 2 <= Middle(p) /\ Middle(p) <= c.size - 2
    BY <1>1, <1>7, <2>2, MiddleFits
  <2>4. /\ Behind(p, s) - First(p, s) \in Nat \ {0}
        /\ Len(p) % 2 = 0 => Behind(p, s) - First(p, s) >= 2
    <3>1. Behind(p, s) - First(p, s) \in {Middle(p), c.size - Middle(p)}
      BY <1>1, <1>3, <1>4, <1>7 DEF First, Behind
    <3> HIDE DEF c
    <3> QED
      BY <1>1, <1>4, <2>3, <3>1
  <2> QED
    BY <1>2, <1>5, <1>6, <2>4 DEF Call, CallType, Labels
<1>8. CASE ~Merging
  <2>1. Behind(p, s) - First(p, s) \in Nat \ {0}
    BY <1>3, <1>5, <1>6, <1>8 DEF Call
  <2> QED
    BY <1>2, <1>5, <1>6, <1>8, <2>1 DEF Call, CallType, Labels
<1> QED
  BY <1>7, <1>8

(* Call c at another place in its code. *)
At(c, l, i, j, k) ==
  [left |-> c.left, size |-> c.size, cpus |-> c.cpus, pc |-> l, i |-> i, j |-> j, k |-> k,
   team |-> c.team, todo |-> c.todo]

LEMMA AtIsCall ==
  ASSUME NEW c \in CallType, NEW l \in Labels, NEW i \in Nat, NEW j \in Nat, NEW k \in Nat
  PROVE  LET x == At(c, l, i, j, k)
         IN  /\ x \in CallType
             /\ x.left = c.left /\ x.size = c.size /\ x.cpus = c.cpus
             /\ x.pc = l /\ x.i = i /\ x.j = j /\ x.k = k
             /\ x.team = c.team /\ x.todo = c.todo
BY DEF At, CallType

LEMMA Changes ==
  ASSUME NEW c \in CallType, NEW p, NEW l, NEW i, NEW j, NEW k
  PROVE  /\ Update(p, [c EXCEPT !.pc = l]) => Update(p, At(c, l, c.i, c.j, c.k))
         /\ Update(p, [c EXCEPT !.i = i]) => Update(p, At(c, c.pc, i, c.j, c.k))
         /\ Update(p, [c EXCEPT !.j = j]) => Update(p, At(c, c.pc, c.i, j, c.k))
         /\ Update(p, [c EXCEPT !.pc = l, !.i = i]) => Update(p, At(c, l, i, c.j, c.k))
         /\ Update(p, [c EXCEPT !.pc = l, !.k = k]) => Update(p, At(c, l, c.i, c.j, k))
         /\ Update(p, [c EXCEPT !.i = i, !.j = j]) => Update(p, At(c, c.pc, i, j, c.k))
         /\ Update(p, [c EXCEPT !.pc = l, !.i = i, !.j = j]) => Update(p, At(c, l, i, j, c.k))
         /\ Update(p, [c EXCEPT !.pc = l, !.i = i, !.k = k]) => Update(p, At(c, l, i, c.j, k))
         /\ Update(p, [c EXCEPT !.i = i, !.j = j, !.k = k]) => Update(p, At(c, c.pc, i, j, k))
<1>1. ASSUME NEW x, x = [c EXCEPT !.pc = l]
      PROVE  x = At(c, l, c.i, c.j, c.k)
  BY <1>1 DEF At, CallType
<1>2. ASSUME NEW x, x = [c EXCEPT !.i = i]
      PROVE  x = At(c, c.pc, i, c.j, c.k)
  BY <1>2 DEF At, CallType
<1>3. ASSUME NEW x, x = [c EXCEPT !.j = j]
      PROVE  x = At(c, c.pc, c.i, j, c.k)
  BY <1>3 DEF At, CallType
<1>4. ASSUME NEW x, x = [c EXCEPT !.pc = l, !.i = i]
      PROVE  x = At(c, l, i, c.j, c.k)
  BY <1>4 DEF At, CallType
<1>5. ASSUME NEW x, x = [c EXCEPT !.pc = l, !.k = k]
      PROVE  x = At(c, l, c.i, c.j, k)
  BY <1>5 DEF At, CallType
<1>6. ASSUME NEW x, x = [c EXCEPT !.i = i, !.j = j]
      PROVE  x = At(c, c.pc, i, j, c.k)
  BY <1>6 DEF At, CallType
<1>7. ASSUME NEW x, x = [c EXCEPT !.pc = l, !.i = i, !.j = j]
      PROVE  x = At(c, l, i, j, c.k)
  BY <1>7 DEF At, CallType
<1>8. ASSUME NEW x, x = [c EXCEPT !.pc = l, !.i = i, !.k = k]
      PROVE  x = At(c, l, i, c.j, k)
  BY <1>8 DEF At, CallType
<1>9. ASSUME NEW x, x = [c EXCEPT !.i = i, !.j = j, !.k = k]
      PROVE  x = At(c, c.pc, i, j, k)
  BY <1>9 DEF At, CallType
<1> QED
  BY <1>1, <1>2, <1>3, <1>4, <1>5, <1>6, <1>7, <1>8, <1>9, Zenon

-----------------------------------------------------------------------------
(* The tree of calls. *)
LEMMA CallerWaits ==
  ASSUME Types, Tree, NEW p \in DOMAIN calls, NEW q \in DOMAIN calls,
         Len(q) < Len(p), Ancestor(p, Len(q)) = q
  PROVE  /\ calls[q].pc = "forked"
         /\ p[Len(q) + 1] \in {1, 2} /\ p[Len(q) + 1] \notin calls[q].todo
<1>1. p \in Seq({1, 2}) /\ Len(p) \in Nat /\ Len(q) \in Nat
  BY LenProperties DEF Types
<1>2. Len(q) \in 0 .. Len(p) - 1
  BY <1>1
<1>3. calls[Ancestor(p, Len(q))].pc = "forked" /\ p[Len(q) + 1] \notin calls[Ancestor(p, Len(q))].todo
  BY <1>2 DEF Tree
<1> QED
  BY <1>1, <1>2, <1>3, NextAncestor

LEMMA ParentWaits ==
  ASSUME Types, Tree, NEW p \in Seq({1, 2}), NEW s \in {1, 2}, Append(p, s) \in DOMAIN calls
  PROVE  p \in DOMAIN calls /\ calls[p].pc = "forked" /\ s \notin calls[p].todo
<1>1. Len(p) \in Nat /\ Len(Append(p, s)) = Len(p) + 1 /\ Append(p, s)[Len(p) + 1] = s
  BY AppendIsCall, LenProperties
<1>2. Len(p) \in 0 .. Len(Append(p, s)) - 1 /\ Len(p) \in 0 .. Len(p)
  BY <1>1
<1>3. Ancestor(Append(p, s), Len(p)) = p
  BY <1>2, AncestorOfAppend, AncestorOfItself
<1>4. /\ Ancestor(Append(p, s), Len(p)) \in DOMAIN calls
      /\ calls[Ancestor(Append(p, s), Len(p))].pc = "forked"
      /\ Append(p, s)[Len(p) + 1] \notin calls[Ancestor(Append(p, s), Len(p))].todo
  BY <1>2 DEF Tree
<1> QED
  BY <1>1, <1>3, <1>4

LEMMA NoChildren ==
  ASSUME Types, Tree, NEW p \in DOMAIN calls, calls[p].pc # "forked"
  PROVE  Children(p) = {}
<1>1. p \in Seq({1, 2})
  BY DEF Types
<1>2. \A s \in {1, 2} : Append(p, s) \notin DOMAIN calls
  BY <1>1, ParentWaits
<1> QED
  BY <1>2, Zenon DEF Children

(* What is said of a call depends on the call only, and where its sections are on
   its range. *)
LEMMA SameRange ==
  ASSUME input' = input, NEW p, calls'[p].left = calls[p].left, calls'[p].size = calls[p].size,
         calls'[p].cpus = calls[p].cpus, calls'[p].j = calls[p].j
  PROVE  /\ Middle(p)' = Middle(p) /\ Splits(p)' = Splits(p) /\ Sections(p)' = Sections(p)
         /\ CoresForSub(p)' = CoresForSub(p) /\ CoresToUse(p)' = CoresToUse(p)
         /\ \A s : First(p, s)' = First(p, s) /\ Behind(p, s)' = Behind(p, s)
<1>1. Merging' = Merging
  BY DEF Merging
<1>2. Middle(p)' = Middle(p) /\ Splits(p)' = Splits(p)
  BY <1>1 DEF Middle, Splits
<1>3. CoresToUse(p)' = CoresToUse(p)
  BY <1>1, <1>2 DEF CoresToUse, Lopsided
<1>4. CoresForSub(p)' = CoresForSub(p)
  BY <1>3 DEF CoresForSub
<1>5. Sections(p)' = Sections(p)
  BY <1>1, <1>2, <1>4 DEF Sections, Section
<1>6. \A s : First(p, s)' = First(p, s) /\ Behind(p, s)' = Behind(p, s)
  BY <1>1, <1>2 DEF First, Behind
<1> QED
  BY <1>2, <1>3, <1>4, <1>5, <1>6

LEMMA SameCall ==
  ASSUME input' = input, NEW p, calls'[p] = calls[p]
  PROVE  /\ Bounds(p)' = Bounds(p) /\ CoresForSub(p)' = CoresForSub(p)
         /\ \A s : First(p, s)' = First(p, s) /\ Behind(p, s)' = Behind(p, s)
<1>1. Merging' = Merging /\ Items' = Items
  BY DEF Merging, Items, Elements, key
<1>2. /\ Middle(p)' = Middle(p) /\ Splits(p)' = Splits(p) /\ Sections(p)' = Sections(p)
      /\ CoresForSub(p)' = CoresForSub(p) /\ CoresToUse(p)' = CoresToUse(p)
      /\ \A s : First(p, s)' = First(p, s) /\ Behind(p, s)' = Behind(p, s)
  BY SameRange
<1>3. Bounds(p)' = Bounds(p)
  BY <1>1, <1>2 DEF Bounds
<1> QED
  BY <1>2, <1>3

(* A step of a call that does not wait, which stays where it is. *)
LEMMA LocalKeeps ==
  ASSUME IInv, input' = input, NEW p \in DOMAIN calls, NEW x \in CallType, Update(p, x),
         calls[p].pc \notin {"forked", "done"}, Bounds(p)',
         x.left = calls[p].left, x.size = calls[p].size, x.cpus = calls[p].cpus
  PROVE  IInv'
<1>1. /\ DOMAIN calls' = DOMAIN calls /\ calls'[p] = x
      /\ \A q \in DOMAIN calls : q # p => calls'[q] = calls[q]
  BY DEF Update
<1>2. \A q \in DOMAIN calls :
        /\ calls'[q].left = calls[q].left /\ calls'[q].size = calls[q].size
        /\ calls'[q].cpus = calls[q].cpus
  BY <1>1
<1>3. Types'
  BY <1>1 DEF IInv, Types
<1>4. Tree'
  <2> SUFFICES ASSUME NEW q \in DOMAIN calls, NEW m \in 0 .. Len(q) - 1
               PROVE  /\ Ancestor(q, m) \in DOMAIN calls
                      /\ calls'[Ancestor(q, m)].pc = "forked"
                      /\ q[m + 1] \notin calls'[Ancestor(q, m)].todo
    BY <1>1 DEF Tree, Ancestor
  <2>1. /\ Ancestor(q, m) \in DOMAIN calls
        /\ calls[Ancestor(q, m)].pc = "forked"
        /\ q[m + 1] \notin calls[Ancestor(q, m)].todo
    BY DEF IInv, Tree
  <2> QED
    BY <1>1, <2>1
<1>5. ASSUME NEW q \in DOMAIN calls, NEW r \in DOMAIN calls, Below(q, r)
      PROVE  Below(q, r)'
  <2>1. r # p
    BY <1>5, CallerWaits DEF IInv, Below
  <2>2. \A s : First(r, s)' = First(r, s) /\ Behind(r, s)' = Behind(r, s)
    BY <1>1, <2>1, SameCall
  <2> QED
    BY <1>2, <1>5, <2>2 DEF Below, Within, Ancestor
<1>6. Nested'
  <2> SUFFICES ASSUME NEW q \in DOMAIN calls, NEW r \in DOMAIN calls, q # r
               PROVE  Apart(q, r)' \/ Below(q, r)' \/ Below(r, q)'
    BY <1>1 DEF Nested
  <2>1. Apart(q, r) => Apart(q, r)'
    BY <1>2 DEF Apart
  <2> QED
    BY <1>5, <2>1 DEF IInv, Nested
<1>7. Shares'
  <2>1. calls'[<<>>].cpus = input'.cpus
    BY <1>2 DEF IInv, Types, Shares
  <2>2. \A q : Children(q)' = Children(q)
    BY <1>1 DEF Children
  <2>3. ASSUME NEW q \in DOMAIN calls, calls'[q].pc = "forked"
        PROVE  /\ \A c \in Children(q) : calls'[c].cpus = CoresForSub(q)'
               /\ Cardinality({c \in Children(q) : ~Returned(c)'}) <= calls'[q].team
    <3>1. CASE q = p
      <4>1. Children(q) = {}
        BY <3>1, NoChildren DEF IInv
      <4>2. calls'[q].team \in Nat
        BY <1>1, <3>1 DEF CallType
      <4>3. {c \in Children(q) : ~Returned(c)'} = {}
        BY <4>1
      <4> QED
        BY <4>1, <4>2, <4>3, FS_EmptySet
    <3>2. CASE q # p
      <4>1. calls'[q] = calls[q]
        BY <1>1, <3>2
      <4>2. /\ \A c \in Children(q) : calls[c].cpus = CoresForSub(q)
            /\ Cardinality({c \in Children(q) : ~Returned(c)}) <= calls[q].team
        BY <2>3, <4>1 DEF IInv, Shares
      <4>3. CoresForSub(q)' = CoresForSub(q)
        BY <4>1, SameCall
      <4>4. \A c \in Children(q) : c \in DOMAIN calls
        BY DEF Children
      <4>5. {c \in Children(q) : ~Returned(c)'} \subseteq {c \in Children(q) : ~Returned(c)}
        BY <1>1, <4>4 DEF Returned
      <4>6. IsFiniteSet({c \in Children(q) : ~Returned(c)})
        BY <4>4, FS_Subset DEF IInv, Types
      <4>7. /\ Cardinality({c \in Children(q) : ~Returned(c)'})
                 <= Cardinality({c \in Children(q) : ~Returned(c)})
            /\ Cardinality({c \in Children(q) : ~Returned(c)'}) \in Nat
            /\ Cardinality({c \in Children(q) : ~Returned(c)}) \in Nat
        BY <4>5, <4>6, FS_Subset, FS_CardinalityType
      <4>8. calls[q].team \in Nat
        <5>1. calls[q] \in CallType
          BY DEF IInv, Types
        <5> QED
          BY <5>1 DEF CallType
      <4>9. Cardinality({c \in Children(q) : ~Returned(c)'}) <= calls'[q].team
        BY <4>1, <4>2, <4>7, <4>8
      <4> QED
        BY <1>2, <4>2, <4>3, <4>4, <4>9
    <3> QED
      BY <3>1, <3>2
  <2> QED
    BY <1>1, <2>1, <2>2, <2>3 DEF Shares
<1>8. \A q \in DOMAIN calls' : Bounds(q)'
  <2> SUFFICES ASSUME NEW q \in DOMAIN calls, q # p
               PROVE  Bounds(q)'
    BY <1>1
  <2> QED
    BY <1>1, SameCall DEF IInv
<1> QED
  BY <1>3, <1>4, <1>6, <1>7, <1>8 DEF IInv

LEMMA BeginSectionKeeps ==
  ASSUME IInv, NEW p \in DOMAIN calls, NEW s \in {1, 2}, BeginSection(p, s)
  PROVE  IInv'
<1> DEFINE c == Append(p, s)
<1>1. /\ p \in Seq({1, 2}) /\ Len(p) \in Nat /\ calls[p] \in CallType /\ Bounds(p)
      /\ calls[p].pc = "forked" /\ s \in calls[p].todo
      /\ input' = input
  BY LenProperties DEF IInv, Types, BeginSection
<1>2. s \in Sections(p) /\ calls[p].j <= calls[p].size
  BY <1>1 DEF Bounds
<1>3. /\ c \in Seq({1, 2}) /\ Len(c) = Len(p) + 1 /\ c[Len(p) + 1] = s /\ c # p
      /\ \A i \in 1 .. Len(p) : c[i] = p[i]
      /\ \A m \in 0 .. Len(p) : Ancestor(c, m) = Ancestor(p, m)
      /\ Ancestor(c, Len(p)) = p
  <2>1. /\ c \in Seq({1, 2}) /\ Len(c) = Len(p) + 1 /\ c[Len(p) + 1] = s /\ c # p
        /\ \A i \in 1 .. Len(p) : c[i] = p[i]
    BY <1>1, AppendIsCall
  <2>2. \A m \in 0 .. Len(p) : Ancestor(c, m) = Ancestor(p, m)
    BY <1>1, AncestorOfAppend
  <2>3. Ancestor(p, Len(p)) = p /\ Len(p) \in 0 .. Len(p)
    BY <1>1, AncestorOfItself
  <2> QED
    BY <2>1, <2>2, <2>3
<1>4. c \notin DOMAIN calls
  BY <1>1, ParentWaits DEF IInv
<1>5. /\ Section(p, s) \in CallType
      /\ Section(p, s).left = First(p, s)
      /\ Section(p, s).left + Section(p, s).size = Behind(p, s)
      /\ Section(p, s).cpus = CoresForSub(p)
      /\ Section(p, s).pc = "begin" /\ Section(p, s).i = 0 /\ Section(p, s).j = 0
      /\ Merging /\ Len(p) % 2 = 0 => Section(p, s).size >= 2
  BY <1>1, <1>2, SectionFacts
<1>6. /\ DOMAIN calls' = DOMAIN calls \cup {c}
      /\ calls'[c] = Section(p, s)
      /\ calls'[p] = [calls[p] EXCEPT !.todo = @ \ {s}]
      /\ \A q \in DOMAIN calls : q # p => calls'[q] = calls[q]
  BY <1>3, <1>4 DEF BeginSection
<1> HIDE DEF c
<1>7. /\ calls'[p] \in CallType /\ calls'[p].pc = calls[p].pc /\ calls'[p].todo = calls[p].todo \ {s}
      /\ calls'[p].left = calls[p].left /\ calls'[p].size = calls[p].size
      /\ calls'[p].cpus = calls[p].cpus /\ calls'[p].team = calls[p].team
      /\ calls'[p].i = calls[p].i /\ calls'[p].j = calls[p].j
  BY <1>1, <1>6 DEF CallType
<1>8. /\ Middle(p)' = Middle(p) /\ Splits(p)' = Splits(p) /\ Sections(p)' = Sections(p)
      /\ CoresForSub(p)' = CoresForSub(p) /\ CoresToUse(p)' = CoresToUse(p)
      /\ \A t : First(p, t)' = First(p, t) /\ Behind(p, t)' = Behind(p, t)
  BY <1>1, <1>7, SameRange
<1>9. \A q \in DOMAIN calls :
        /\ calls'[q].left = calls[q].left /\ calls'[q].size = calls[q].size
        /\ calls'[q].cpus = calls[q].cpus /\ calls'[q].pc = calls[q].pc
        /\ calls'[q].todo \subseteq calls[q].todo /\ calls'[q].team = calls[q].team
        /\ \A t : First(q, t)' = First(q, t) /\ Behind(q, t)' = Behind(q, t)
        /\ CoresForSub(q)' = CoresForSub(q)
  BY <1>1, <1>6, <1>7, <1>8, SameCall
<1>10. Types'
  <2>1. IsFiniteSet(DOMAIN calls \cup {c})
    BY FS_AddElement DEF IInv, Types
  <2> QED
    BY <1>1, <1>3, <1>5, <1>6, <1>7, <2>1 DEF IInv, Types
<1>11. Tree'
  <2>1. ASSUME NEW q \in DOMAIN calls, NEW m \in 0 .. Len(q) - 1
        PROVE  /\ Ancestor(q, m) \in DOMAIN calls
               /\ calls'[Ancestor(q, m)].pc = "forked"
               /\ q[m + 1] \notin calls'[Ancestor(q, m)].todo
    BY <1>9 DEF IInv, Tree
  <2>2. ASSUME NEW m \in 0 .. Len(c) - 1
        PROVE  /\ Ancestor(c, m) \in DOMAIN calls
               /\ calls'[Ancestor(c, m)].pc = "forked"
               /\ c[m + 1] \notin calls'[Ancestor(c, m)].todo
    <3>1. CASE m = Len(p)
      BY <1>1, <1>3, <1>7, <3>1
    <3>2. CASE m # Len(p)
      <4>1. m \in 0 .. Len(p) - 1 /\ m \in 0 .. Len(p) /\ m + 1 \in 1 .. Len(p)
        BY <1>1, <1>3, <3>2
      <4>2. Ancestor(c, m) = Ancestor(p, m) /\ c[m + 1] = p[m + 1]
        BY <1>3, <4>1
      <4> QED
        BY <2>1, <4>1, <4>2
    <3> QED
      BY <3>1, <3>2
  <2> QED
    BY <1>6, <2>1, <2>2 DEF Tree, Ancestor
<1>12. Nested'
  <2>1. ASSUME NEW q \in DOMAIN calls, NEW r \in DOMAIN calls
        PROVE  (Apart(q, r) => Apart(q, r)') /\ (Below(q, r) => Below(q, r)')
    BY <1>9 DEF Apart, Below, Within, Ancestor
  <2>2. /\ calls'[c].left = First(p, s) /\ calls'[c].left + calls'[c].size = Behind(p, s)
        /\ \A t \in {1, 2} : First(p, t) \in Nat /\ Behind(p, t) \in Nat
        /\ calls[p].left <= First(p, s) /\ Behind(p, s) <= calls[p].left + calls[p].size
        /\ Behind(p, 1) <= First(p, 2)
        /\ calls[p].left \in Nat /\ calls[p].size \in Nat
        /\ calls'[c].left \in Nat /\ calls'[c].size \in Nat
    <3>1. calls[p].left \in Nat /\ calls[p].size \in Nat
      BY <1>1 DEF CallType
    <3>2. calls'[c].left \in Nat /\ calls'[c].size \in Nat
      BY <1>5, <1>6 DEF CallType
    <3> QED
      BY <1>1, <1>2, <1>5, <1>6, <3>1, <3>2, SectionsApart
  <2>3. ASSUME NEW q \in DOMAIN calls
        PROVE  Apart(c, q)' \/ Below(c, q)' \/ Below(q, c)'
    <3>0. /\ calls[q].left \in Nat /\ calls[q].size \in Nat /\ q \in Seq({1, 2}) /\ Len(q) \in Nat
      BY LenProperties DEF IInv, Types, CallType
    <3>1. CASE q = p
      <4>1. Within(c, p, s)'
        BY <1>8, <2>2 DEF Within
      <4> QED
        BY <1>1, <1>3, <3>1, <4>1 DEF Below, Ancestor
    <3>2. CASE q # p /\ Apart(p, q)
      <4>1. calls'[q].left = calls[q].left /\ calls'[q].size = calls[q].size
        BY <1>9
      <4>2. calls[p].left <= calls'[c].left
            /\ calls'[c].left + calls'[c].size <= calls[p].left + calls[p].size
            /\ calls[p].left \in Nat /\ calls[p].size \in Nat
            /\ calls'[c].left \in Nat /\ calls'[c].size \in Nat
        BY <2>2
      <4>3. calls'[c].left + calls'[c].size <= calls[q].left
            \/ calls[q].left + calls[q].size <= calls'[c].left
        <5>1. CASE calls[p].left + calls[p].size <= calls[q].left
          BY <3>0, <4>2, <5>1
        <5>2. CASE calls[q].left + calls[q].size <= calls[p].left
          BY <3>0, <4>2, <5>2
        <5> QED
          BY <3>2, <5>1, <5>2 DEF Apart
      <4> QED
        BY <4>1, <4>3 DEF Apart
    <3>3. CASE q # p /\ Below(p, q)
      <4>1. Len(q) < Len(p) /\ Ancestor(p, Len(q)) = q /\ Within(p, q, p[Len(q) + 1])
            /\ p[Len(q) + 1] \in {1, 2}
        BY <3>3, CallerWaits DEF Below, IInv
      <4>2. Len(q) < Len(c) /\ Ancestor(c, Len(q)) = q /\ c[Len(q) + 1] = p[Len(q) + 1]
        <5>1. Len(q) \in 0 .. Len(p) /\ Len(q) + 1 \in 1 .. Len(p)
          BY <1>1, <3>0, <4>1
        <5> QED
          BY <1>1, <1>3, <3>0, <4>1, <5>1
      <4>3. First(q, p[Len(q) + 1]) <= calls[p].left
            /\ calls[p].left + calls[p].size <= Behind(q, p[Len(q) + 1])
        BY <4>1 DEF Within
      <4>4. First(q, p[Len(q) + 1]) \in Nat /\ Behind(q, p[Len(q) + 1]) \in Nat
        <5>1. calls[q] \in CallType /\ calls[q].pc = "forked" /\ Bounds(q)
          BY <4>1, CallerWaits DEF IInv, Types
        <5>2. calls[q].j <= calls[q].size
          BY <5>1 DEF Bounds
        <5> QED
          BY <4>1, <5>1, <5>2, SectionsApart
      <4>5. Within(c, q, c[Len(q) + 1])'
        <5>1. calls[p].left <= calls'[c].left
              /\ calls'[c].left + calls'[c].size <= calls[p].left + calls[p].size
          BY <2>2
        <5>2. First(q, p[Len(q) + 1]) <= calls'[c].left
              /\ calls'[c].left + calls'[c].size <= Behind(q, p[Len(q) + 1])
          BY <2>2, <4>3, <4>4, <5>1
        <5>3. /\ First(q, c[Len(q) + 1])' = First(q, c[Len(q) + 1])
              /\ Behind(q, c[Len(q) + 1])' = Behind(q, c[Len(q) + 1])
          BY <1>9
        <5>4. First(q, c[Len(q) + 1])' <= calls'[c].left
              /\ calls'[c].left + calls'[c].size <= Behind(q, c[Len(q) + 1])'
          BY <4>2, <5>2, <5>3
        <5> QED
          BY <5>4 DEF Within
      <4> QED
        BY <4>2, <4>5 DEF Below, Ancestor
    <3>4. CASE q # p /\ Below(q, p)
      <4>1. PICK t \in {1, 2} : t = q[Len(p) + 1] /\ t # s /\ Within(q, p, t)
        BY <1>1, <3>4, CallerWaits DEF Below, IInv
      <4>2. calls'[c].left + calls'[c].size <= calls[q].left
            \/ calls[q].left + calls[q].size <= calls'[c].left
        BY <2>2, <3>0, <4>1 DEF Within
      <4> QED
        BY <1>9, <4>2 DEF Apart
    <3> QED
      BY <3>1, <3>2, <3>3, <3>4 DEF IInv, Nested
  <2>4. ASSUME NEW q \in DOMAIN calls, NEW r \in DOMAIN calls, q # r
        PROVE  Apart(q, r)' \/ Below(q, r)' \/ Below(r, q)'
    BY <2>1, <2>4 DEF IInv, Nested
  <2>5. \A q : Apart(c, q)' => Apart(q, c)'
    BY DEF Apart
  <2> QED
    BY <1>6, <2>3, <2>4, <2>5 DEF Nested
<1>13. Shares'
  <2>1. calls'[<<>>].cpus = input'.cpus
    BY <1>1, <1>9 DEF IInv, Types, Shares
  <2>2. ASSUME NEW q \in DOMAIN calls, calls'[q].pc = "forked", q # p
        PROVE  /\ \A d \in Children(q)' : calls'[d].cpus = CoresForSub(q)'
               /\ Cardinality({d \in Children(q)' : ~Returned(d)'}) <= calls'[q].team
    <3>1. Children(q)' = Children(q)
      <4>1. \A t \in {1, 2} : c # Append(q, t)
        BY <1>1, <2>2, AppendsDiffer DEF IInv, Types, c
      <4> QED
        BY <1>6, <4>1 DEF Children
    <3>2. /\ \A d \in Children(q) : calls[d].cpus = CoresForSub(q)
          /\ Cardinality({d \in Children(q) : ~Returned(d)}) <= calls[q].team
      BY <1>9, <2>2 DEF IInv, Shares
    <3>3. \A d \in Children(q) : d \in DOMAIN calls
      BY DEF Children
    <3>4. {d \in Children(q)' : ~Returned(d)'} = {d \in Children(q) : ~Returned(d)}
      BY <1>9, <3>1, <3>3 DEF Returned
    <3> QED
      BY <1>9, <3>1, <3>2, <3>3, <3>4
  <2>3. /\ \A d \in Children(p)' : calls'[d].cpus = CoresForSub(p)'
        /\ Cardinality({d \in Children(p)' : ~Returned(d)'}) <= calls'[p].team
    <3> DEFINE D == {d \in Children(p) : ~Returned(d)}
    <3>1. Children(p)' = Children(p) \cup {c}
      BY <1>6 DEF Children, c
    <3>2. /\ \A d \in Children(p) : calls[d].cpus = CoresForSub(p) /\ d \in DOMAIN calls
          /\ Cardinality(D) < calls[p].team
      BY <1>1 DEF IInv, Shares, Children, BeginSection
    <3>3. {d \in Children(p)' : ~Returned(d)'} = D \cup {c}
      BY <1>5, <1>6, <1>9, <3>1, <3>2 DEF Returned
    <3>4. D \subseteq DOMAIN calls
      BY <3>2
    <3> HIDE DEF D
    <3>5. IsFiniteSet(D) /\ c \notin D
      BY <1>4, <3>4, FS_Subset DEF IInv, Types
    <3>6. Cardinality(D \cup {c}) = Cardinality(D) + 1 /\ Cardinality(D) \in Nat
      BY <3>5, FS_AddElement, FS_CardinalityType
    <3>7. calls[p].team \in Nat
      BY <1>1 DEF CallType
    <3>8. Cardinality(D \cup {c}) <= calls'[p].team
      BY <1>9, <3>2, <3>6, <3>7
    <3>9. \A d \in Children(p)' : calls'[d].cpus = CoresForSub(p)'
      BY <1>5, <1>6, <1>8, <1>9, <3>1, <3>2
    <3> QED
      BY <3>3, <3>8, <3>9
  <2>4. calls'[c].pc # "forked"
    BY <1>5, <1>6
  <2> QED
    BY <1>6, <2>1, <2>2, <2>3, <2>4 DEF Shares
<1>14. Bounds(p)'
  <2>1. Items' = Items /\ Merging' = Merging
    BY <1>1 DEF Items, Elements, key, Merging
  <2> QED
    BY <1>1, <1>7, <1>8, <2>1 DEF Bounds
<1>15. Bounds(c)'
  <2>1. Items' = Items /\ Merging' = Merging
    BY <1>1 DEF Items, Elements, key, Merging
  <2>2. calls'[c].left + calls'[c].size <= Items
    <3>1. calls[p].left \in Nat /\ calls[p].size \in Nat /\ Items \in Nat
          /\ calls[p].left + calls[p].size <= Items
      BY <1>1, InputFacts DEF CallType, Bounds, IInv, Types
    <3>2. Behind(p, s) \in Nat /\ Behind(p, s) <= calls[p].left + calls[p].size
      BY <1>1, <1>2, SectionsApart
    <3> QED
      BY <1>5, <1>6, <3>1, <3>2
  <2>3. calls'[c].cpus <= input'.cpus
    <3>1. calls[p].cpus \in Nat /\ input.cpus \in Nat /\ calls[p].cpus <= input.cpus
      BY <1>1, InputFacts DEF CallType, Bounds, IInv, Types
    <3>2. CoresForSub(p) \in Nat /\ CoresForSub(p) <= calls[p].cpus
      BY <1>1, SharesFit
    <3> QED
      BY <1>1, <1>5, <1>6, <3>1, <3>2
  <2>4. Merging /\ Len(c) % 2 = 1 => calls'[c].size >= 2
    <3>1. Len(c) % 2 = 1 => Len(p) % 2 = 0
      BY <1>1, <1>3
    <3> QED
      BY <1>5, <1>6, <3>1
  <2> QED
    BY <1>5, <1>6, <2>1, <2>2, <2>3, <2>4 DEF Bounds, c
<1>16. \A q \in DOMAIN calls' : Bounds(q)'
  BY <1>1, <1>6, <1>14, <1>15, SameCall DEF IInv
<1> QED
  BY <1>10, <1>11, <1>12, <1>13, <1>16 DEF IInv

(* When a call goes on, the calls in its sections are gone. *)
LEMMA NothingBelow ==
  ASSUME Types, Tree, NEW p \in DOMAIN calls, \A d \in Children(p) : Returned(d),
         NEW q \in DOMAIN calls \ Children(p)
  PROVE  ~(Len(p) < Len(q) /\ Ancestor(q, Len(p)) = p)
<1> SUFFICES ASSUME Len(p) < Len(q), Ancestor(q, Len(p)) = p PROVE FALSE
  OBVIOUS
<1> DEFINE d == Ancestor(q, Len(p) + 1)
<1>1. /\ p \in Seq({1, 2}) /\ Len(p) \in Nat /\ q \in Seq({1, 2}) /\ Len(q) \in Nat
      /\ Len(p) \in 0 .. Len(q) - 1
  BY LenProperties DEF Types
<1>2. q[Len(p) + 1] \in {1, 2} /\ d = Append(p, q[Len(p) + 1])
  BY <1>1, NextAncestor
<1>3. CASE Len(p) + 1 = Len(q)
  <2>1. d = q
    BY <1>1, <1>3, AncestorOfItself
  <2> QED
    BY <1>2, <2>1 DEF Children
<1>4. CASE Len(p) + 1 # Len(q)
  <2>1. Len(p) + 1 \in 0 .. Len(q) - 1
    BY <1>1, <1>4
  <2>2. d \in DOMAIN calls /\ calls[d].pc = "forked"
    BY <2>1 DEF Tree
  <2> QED
    BY <1>2, <2>2 DEF Children, Returned
<1> QED
  BY <1>3, <1>4

LEMMA JoinKeeps ==
  ASSUME IInv, NEW p \in DOMAIN calls, Join(p)
  PROVE  IInv'
<1> DEFINE D == DOMAIN calls \ Children(p)
           x == [calls[p] EXCEPT !.pc = IF Merging THEN "merge" ELSE "done", !.j = 0, !.team = 0]
<1>1. /\ p \in Seq({1, 2}) /\ Len(p) \in Nat /\ calls[p] \in CallType /\ Bounds(p)
      /\ calls[p].pc = "forked" /\ input' = input
      /\ \A d \in Children(p) : Returned(d)
  BY LenProperties DEF IInv, Types, Join
<1>2. p \in D /\ <<>> \in D
  <2>1. \A s \in {1, 2} : Append(p, s) # p /\ Append(p, s) # <<>>
    <3>1. ASSUME NEW s \in {1, 2}
          PROVE  Append(p, s) # p /\ Append(p, s) # <<>>
      <4>1. Append(p, s) # p /\ Len(Append(p, s)) = Len(p) + 1
        BY <1>1, AppendIsCall
      <4>2. Len(<<>>) = 0
        BY EmptySeq
      <4> QED
        BY <1>1, <4>1, <4>2
    <3> QED
      BY <3>1
  <2> QED
    BY <2>1 DEF Children, IInv, Types
<1>3. /\ DOMAIN calls' = D
      /\ calls'[p] = x
      /\ \A q \in D : q # p => calls'[q] = calls[q]
  BY <1>2 DEF Join
<1>4. /\ x \in CallType /\ x.pc \in {"merge", "done"} /\ (x.pc = "merge" => Merging)
      /\ x.left = calls[p].left /\ x.size = calls[p].size /\ x.cpus = calls[p].cpus
      /\ x.i = calls[p].i /\ x.j = 0
  <2>1. PICK l : l = IF Merging THEN "merge" ELSE "done"
    OBVIOUS
  <2>2. l \in {"merge", "done"} /\ l \in Labels /\ (l = "merge" => Merging)
    BY <2>1 DEF Labels
  <2>3. x = [calls[p] EXCEPT !.pc = l, !.j = 0, !.team = 0]
    BY <2>1
  <2>4. calls[p] \in CallType
    BY <1>1
  <2> HIDE DEF x
  <2>5. /\ x \in CallType /\ x.pc = l
        /\ x.left = calls[p].left /\ x.size = calls[p].size /\ x.cpus = calls[p].cpus
        /\ x.i = calls[p].i /\ x.j = 0
    <3>1. PICK c \in CallType : c = calls[p]
      BY <2>4
    <3>2. x = [left |-> c.left, size |-> c.size, cpus |-> c.cpus, pc |-> l,
               i |-> c.i, j |-> 0, k |-> c.k, team |-> 0, todo |-> c.todo]
      BY <2>3, <3>1 DEF CallType
    <3> QED
      BY <2>2, <3>1, <3>2 DEF CallType
  <2> QED
    BY <2>2, <2>5
<1> HIDE DEF D, x
<1>5. \A q \in D : q \in DOMAIN calls /\ q \notin Children(p)
  BY DEF D
<1>6. \A q \in D :
        /\ calls'[q].left = calls[q].left /\ calls'[q].size = calls[q].size
        /\ calls'[q].cpus = calls[q].cpus
  BY <1>3, <1>4
<1>7. Types'
  <2>1. IsFiniteSet(D)
    BY FS_Subset DEF IInv, Types, D
  <2> QED
    BY <1>1, <1>2, <1>3, <1>4, <1>5, <2>1 DEF IInv, Types
<1>8. Tree'
  <2> SUFFICES ASSUME NEW q \in D, NEW m \in 0 .. Len(q) - 1
               PROVE  /\ Ancestor(q, m) \in D
                      /\ calls'[Ancestor(q, m)].pc = "forked"
                      /\ q[m + 1] \notin calls'[Ancestor(q, m)].todo
    BY <1>3 DEF Tree, Ancestor
  <2> DEFINE a == Ancestor(q, m)
  <2>1. a \in DOMAIN calls /\ calls[a].pc = "forked" /\ q[m + 1] \notin calls[a].todo
    BY <1>5 DEF IInv, Tree
  <2>2. a \in D
    BY <1>1, <2>1 DEF D, Returned
  <2>3. a # p
    <3>1. Len(q) \in Nat /\ q \in Seq({1, 2})
      BY <1>5, LenProperties DEF IInv, Types
    <3>2. Len(a) = m /\ m < Len(q)
      <4>1. m \in 0 .. Len(q)
        BY <3>1
      <4> QED
        BY <3>1, <4>1, AncestorIsCall
    <3> QED
      BY <1>1, <1>5, <3>2, NothingBelow DEF IInv
  <2> QED
    BY <1>3, <2>1, <2>2, <2>3
<1>9. Nested'
  <2>1. ASSUME NEW q \in D, NEW r \in D, Below(q, r)
        PROVE  Below(q, r)'
    <3>1. r # p
      BY <1>1, <1>5, <2>1, NothingBelow DEF IInv, Below
    <3>2. \A s : First(r, s)' = First(r, s) /\ Behind(r, s)' = Behind(r, s)
      BY <1>1, <1>3, <3>1, SameCall
    <3> QED
      BY <1>6, <2>1, <3>2 DEF Below, Within, Ancestor
  <2>2. \A q, r \in D : Apart(q, r) => Apart(q, r)'
    BY <1>6 DEF Apart
  <2> QED
    BY <1>3, <1>5, <2>1, <2>2 DEF IInv, Nested
<1>10. Shares'
  <2>1. calls'[<<>>].cpus = input'.cpus
    BY <1>1, <1>2, <1>6 DEF IInv, Shares
  <2>2. ASSUME NEW q \in D, calls'[q].pc = "forked"
        PROVE  /\ \A d \in Children(q)' : calls'[d].cpus = CoresForSub(q)'
               /\ Cardinality({d \in Children(q)' : ~Returned(d)'}) <= calls'[q].team
    <3>1. q # p /\ calls'[q] = calls[q]
      BY <1>3, <1>4, <2>2
    <3>2. /\ \A d \in Children(q) : calls[d].cpus = CoresForSub(q)
          /\ Cardinality({d \in Children(q) : ~Returned(d)}) <= calls[q].team
      BY <1>5, <2>2, <3>1 DEF IInv, Shares
    <3>3. CoresForSub(q)' = CoresForSub(q)
      BY <1>1, <3>1, SameCall
    <3>4. Children(q)' \subseteq Children(q) /\ Children(q)' \subseteq D
          /\ Children(q) \subseteq DOMAIN calls
      BY <1>3, <1>5 DEF Children
    <3>5. {d \in Children(q)' : ~Returned(d)'} \subseteq {d \in Children(q) : ~Returned(d)}
      BY <1>1, <1>3, <3>4 DEF Returned
    <3>6. IsFiniteSet({d \in Children(q) : ~Returned(d)})
      BY <3>4, FS_Subset DEF IInv, Types
    <3>7. /\ Cardinality({d \in Children(q)' : ~Returned(d)'})
               <= Cardinality({d \in Children(q) : ~Returned(d)})
          /\ Cardinality({d \in Children(q)' : ~Returned(d)'}) \in Nat
          /\ Cardinality({d \in Children(q) : ~Returned(d)}) \in Nat
      BY <3>5, <3>6, FS_Subset, FS_CardinalityType
    <3>8. calls[q].team \in Nat
      <4>1. calls[q] \in CallType
        BY <1>5 DEF IInv, Types
      <4> QED
        BY <4>1 DEF CallType
    <3>9. Cardinality({d \in Children(q)' : ~Returned(d)'}) <= calls'[q].team
      BY <3>1, <3>2, <3>7, <3>8
    <3> QED
      BY <1>6, <3>2, <3>3, <3>4, <3>9
  <2> QED
    BY <1>3, <2>1, <2>2 DEF Shares
<1>11. Bounds(p)'
  <2>1. Items' = Items /\ Merging' = Merging
    BY <1>1 DEF Items, Elements, key, Merging
  <2>2. Merging => Middle(p)' = Middle(p) /\ Splits(p)' = Splits(p)
    BY <1>3, <1>4, <2>1 DEF Middle, Splits
  <2>3. /\ calls[p].i = 0 /\ calls[p].j <= calls[p].size /\ (Merging => Splits(p))
        /\ calls[p].size \in Nat
    BY <1>1 DEF Bounds, CallType
  <2>4. Middle(p) \in Nat /\ Middle(p) <= calls[p].size
    BY <1>1, <2>3, MiddleFits
  <2>5. /\ calls[p].left + calls[p].size <= Items /\ calls[p].cpus <= input.cpus
        /\ Merging /\ Len(p) % 2 = 1 => calls[p].size >= 2
    BY <1>1 DEF Bounds
  <2> QED
    BY <1>1, <1>3, <1>4, <2>1, <2>2, <2>3, <2>4, <2>5 DEF Bounds
<1>12. \A q \in DOMAIN calls' : Bounds(q)'
  BY <1>1, <1>3, <1>5, <1>11, SameCall DEF IInv
<1> QED
  BY <1>7, <1>8, <1>9, <1>10, <1>12 DEF IInv

LEMMA UpdateKeeps ==
  ASSUME IInv, input' = input, NEW p \in DOMAIN calls,
         NEW c \in CallType, c = calls[p], c.pc \notin {"forked", "done"},
         NEW l \in Labels \ {"begin", "forked"}, NEW i \in Nat, NEW j \in Nat, NEW k \in Nat,
         Update(p, At(c, l, i, j, k)),
         l = "network" => c.size <= MaxItems,
         l = "partition" => ~Merging /\ j <= i /\ i <= c.size,
         l = "bubble" => ~Merging /\ j <= i /\ i <= k /\ k < c.size,
         l = "merge" => Merging /\ Splits(p) /\ i <= Middle(p) /\ j <= c.size - Middle(p)
  PROVE  IInv'
<1>1. PICK x \in CallType :
        /\ x = At(c, l, i, j, k)
        /\ x.left = c.left /\ x.size = c.size /\ x.cpus = c.cpus
        /\ x.pc = l /\ x.i = i /\ x.j = j /\ x.k = k
  <2>1. At(c, l, i, j, k) \in CallType
    BY AtIsCall
  <2> QED
    BY <2>1 DEF At
<1>2. Items' = Items /\ Merging' = Merging /\ calls'[p] = x
  BY <1>1 DEF Items, Elements, key, Merging, Update
<1>3. Merging => Middle(p)' = Middle(p) /\ Splits(p)' = Splits(p)
  BY <1>1, <1>2 DEF Middle, Splits
<1>4. /\ c.left + c.size <= Items /\ c.cpus <= input.cpus
      /\ Merging /\ Len(p) % 2 = 1 => c.size >= 2
  BY DEF IInv, Bounds
<1>5. Bounds(p)'
  BY <1>1, <1>2, <1>3, <1>4 DEF Bounds
<1> QED
  BY <1>1, <1>5, LocalKeeps

LEMMA ForkKeeps ==
  ASSUME IInv, input' = input, NEW p \in DOMAIN calls, Fork(p),
         calls[p].pc \notin {"forked", "done"},
         calls[p].j <= calls[p].size, Merging => Splits(p)
  PROVE  IInv'
<1>1. calls[p] \in CallType /\ Bounds(p)
  BY DEF IInv, Types
<1>2. PICK n \in 1 .. CoresToUse(p) :
        Update(p, [calls[p] EXCEPT !.pc = "forked", !.i = 0, !.team = n, !.todo = Sections(p)])
  BY DEF Fork
<1>3. n \in 0 .. 2 /\ n <= CoresToUse(p) /\ Sections(p) \in SUBSET {1, 2} /\ CoresToUse(p) \in {1, 2}
  <2>1. CoresToUse(p) \in {1, 2}
    BY <1>1, SharesFit
  <2> QED
    BY <2>1 DEF Sections
<1>4. PICK x \in CallType :
        /\ x.left = calls[p].left /\ x.size = calls[p].size /\ x.cpus = calls[p].cpus
        /\ x.pc = "forked" /\ x.i = 0 /\ x.j = calls[p].j
        /\ x.team = n /\ x.todo = Sections(p)
        /\ Update(p, x)
  <2>1. PICK c \in CallType : c = calls[p]
    BY <1>1
  <2> DEFINE x == [left |-> c.left, size |-> c.size, cpus |-> c.cpus, pc |-> "forked",
                   i |-> 0, j |-> c.j, k |-> c.k, team |-> n, todo |-> Sections(p)]
  <2>2. [calls[p] EXCEPT !.pc = "forked", !.i = 0, !.team = n, !.todo = Sections(p)] = x
    <3>1. PICK y : y = [calls[p] EXCEPT !.pc = "forked", !.i = 0, !.team = n, !.todo = Sections(p)]
      OBVIOUS
    <3>2. y = x
      BY <2>1, <3>1 DEF CallType
    <3> QED
      BY <3>1, <3>2, Zenon
  <2>3. x \in CallType
    BY <1>3, <2>1 DEF CallType, Labels
  <2> QED
    BY <1>2, <2>1, <2>2, <2>3
<1>5. Items' = Items /\ Merging' = Merging /\ calls'[p] = x
  BY <1>4 DEF Items, Elements, key, Merging, Update
<1>6. /\ Splits(p)' = Splits(p) /\ Sections(p)' = Sections(p) /\ CoresToUse(p)' = CoresToUse(p)
  BY <1>4, <1>5, SameRange
<1>7. Bounds(p)'
  BY <1>1, <1>3, <1>4, <1>5, <1>6 DEF Bounds
<1> QED
  BY <1>4, <1>7, LocalKeeps

-----------------------------------------------------------------------------
LEMMA InitIInv == Init => IInv
<1> SUFFICES ASSUME Init PROVE IInv
  OBVIOUS
<1>1. /\ input \in Inputs /\ Items \in Nat \ {0} /\ input.cpus \in Nat \ {0}
      /\ input.algorithm \in {"merge_sort", "quick_sort", "bubble_sort"}
  BY InputFacts DEF Init
<1>2. DOMAIN calls = {<<>>} /\ calls[<<>>] = Call(0, Items, input.cpus)
  BY DEF Init, Items
<1>3. <<>> \in Seq({1, 2}) /\ Len(<<>>) = 0
  BY EmptySeq
<1>4. calls[<<>>] \in CallType
  BY <1>1, <1>2 DEF Call, CallType, Labels
<1>5. Types
  <2>1. IsFiniteSet(DOMAIN calls)
    BY <1>2, FS_Singleton
  <2> QED
    BY <1>1, <1>2, <1>3, <1>4, <2>1 DEF Types
<1>6. Tree
  BY <1>2, <1>3 DEF Tree
<1>7. Nested
  BY <1>2 DEF Nested
<1>8. Shares
  BY <1>2 DEF Shares, Call
<1>9. Bounds(<<>>)
  BY <1>1, <1>2, <1>3 DEF Bounds, Call
<1> QED
  BY <1>2, <1>5, <1>6, <1>7, <1>8, <1>9 DEF IInv

LEMMA NextIInv == IInv /\ [Next]_vars => IInv'
<1> SUFFICES ASSUME IInv, [Next]_vars PROVE IInv'
  OBVIOUS
<1>1. CASE UNCHANGED vars
  <2>1. input' = input /\ calls' = calls
    BY <1>1 DEF vars
  <2>2. Types' /\ Tree' /\ (\A p \in DOMAIN calls : Bounds(p)')
    BY <2>1, SameCall DEF IInv, Types, Tree, Ancestor
  <2>3. Nested'
    BY <2>1, SameCall DEF IInv, Nested, Apart, Below, Within, Ancestor
  <2>4. Shares'
    BY <2>1, SameCall DEF IInv, Shares, Children, Returned
  <2> QED
    BY <2>1, <2>2, <2>3, <2>4 DEF IInv
<1> SUFFICES ASSUME NEW p \in DOMAIN calls, Step(p)
             PROVE  IInv'
  BY <1>1 DEF Next
<1>2. PICK c \in CallType : c = calls[p]
  BY DEF IInv, Types
<1>3. Bounds(p) /\ input \in Inputs
  BY DEF IInv, Types
<1>4. /\ c.left \in Nat /\ c.size \in Nat \ {0} /\ c.pc \in Labels
      /\ c.i \in Nat /\ c.j \in Nat /\ c.k \in Nat
  BY DEF CallType
<1>5. CASE BeginNetwork(p)
  <2>1. /\ c.pc = "begin" /\ input' = input /\ ~(c.size > MaxItems)
        /\ Update(p, [c EXCEPT !.pc = "network"])
    BY <1>2, <1>5 DEF BeginNetwork, Splits
  <2>2. Update(p, At(c, "network", c.i, c.j, c.k))
    BY <2>1, Changes, Zenon
  <2>3. c.size <= MaxItems
    BY <1>4, <2>1, SortingAssumption
  <2> QED
    BY <1>2, <1>4, <2>1, <2>2, <2>3, UpdateKeeps DEF Labels
<1>6. CASE FastSort(p)
  <2>1. /\ c.pc = "network" /\ input' = input /\ c.size <= MaxItems
        /\ \/ Update(p, [c EXCEPT !.i = @ + 1])
           \/ Update(p, [c EXCEPT !.pc = "done", !.i = 0])
    BY <1>2, <1>3, <1>6 DEF FastSort, Bounds
  <2>2. PICK l \in {"network", "done"}, i \in Nat : Update(p, At(c, l, i, c.j, c.k))
    <3>1. CASE Update(p, [c EXCEPT !.i = @ + 1])
      <4>1. Update(p, At(c, c.pc, c.i + 1, c.j, c.k))
        BY <3>1, Changes, Zenon
      <4> QED
        BY <1>4, <2>1, <4>1
    <3>2. CASE Update(p, [c EXCEPT !.pc = "done", !.i = 0])
      <4>1. Update(p, At(c, "done", 0, c.j, c.k))
        BY <3>2, Changes, Zenon
      <4> QED
        BY <4>1
    <3> QED
      BY <2>1, <3>1, <3>2
  <2> QED
    BY <1>2, <1>4, <2>1, <2>2, UpdateKeeps DEF Labels
<1>7. CASE PivotIdx(p)
  <2>1. /\ c.pc = "begin" /\ input' = input /\ c.i = 0 /\ c.j = 0 /\ ~Merging
        /\ Update(p, [c EXCEPT !.pc = "partition"])
    BY <1>2, <1>3, <1>7 DEF PivotIdx, Bounds, Merging
  <2>2. Update(p, At(c, "partition", c.i, c.j, c.k))
    BY <2>1, Changes, Zenon
  <2> QED
    BY <1>2, <1>4, <2>1, <2>2, UpdateKeeps DEF Labels
<1>8. CASE PartitionTurn(p)
  <2>1. /\ c.pc = "partition" /\ input' = input /\ ~Merging /\ c.i < c.size /\ c.j <= c.i
        /\ \/ Update(p, [c EXCEPT !.i = @ + 1, !.j = @ + 1])
           \/ Update(p, [c EXCEPT !.i = @ + 1])
    BY <1>2, <1>3, <1>8 DEF PartitionTurn, Bounds
  <2>2. PICK j \in {c.j, c.j + 1} : Update(p, At(c, c.pc, c.i + 1, j, c.k))
    BY <2>1, Changes, Zenon
  <2>3. j \in Nat /\ c.i + 1 \in Nat /\ j <= c.i + 1 /\ c.i + 1 <= c.size
    BY <1>4, <2>1, <2>2
  <2> QED
    BY <1>2, <1>4, <2>1, <2>2, <2>3, UpdateKeeps DEF Labels
<1>9. CASE PartitionEnds(p)
  <2>1. c.pc = "partition" /\ input' = input /\ ~Merging /\ Fork(p) /\ c.j <= c.size
    BY <1>2, <1>3, <1>4, <1>9 DEF PartitionEnds, Bounds
  <2> QED
    BY <1>2, <2>1, ForkKeeps
<1>10. CASE Divide(p)
  <2>1. c.pc = "begin" /\ input' = input /\ Splits(p) /\ Fork(p) /\ c.j <= c.size
    BY <1>2, <1>3, <1>4, <1>10 DEF Divide, Bounds
  <2> QED
    BY <1>2, <2>1, ForkKeeps
<1>11. ASSUME NEW s \in {1, 2}, BeginSection(p, s)
       PROVE  IInv'
  BY <1>11, BeginSectionKeeps
<1>12. CASE Join(p)
  BY <1>12, JoinKeeps
<1>13. CASE Merge(p)
  <2>1. /\ c.pc = "merge" /\ input' = input /\ Merging /\ Splits(p)
        /\ c.i <= Middle(p) /\ c.j <= c.size - Middle(p)
    BY <1>2, <1>3, <1>13 DEF Merge, Bounds
  <2>2. Middle(p) \in Nat
    BY <1>2, <1>4, <2>1 DEF Middle
  <2>3. CASE c.i + c.j < c.size /\ UseArray1(p, c.left, c.left + Middle(p))
    <3>1. c.j = c.size - Middle(p) \/ c.i < Middle(p)
      BY <1>2, <2>3 DEF UseArray1
    <3>2. c.i + 1 \in Nat /\ c.i + 1 <= Middle(p)
      BY <1>4, <2>1, <2>2, <2>3, <3>1
    <3>3. Update(p, [c EXCEPT !.i = @ + 1])
      BY <1>2, <1>4, <1>13, <2>3 DEF Merge
    <3>4. Update(p, At(c, c.pc, c.i + 1, c.j, c.k))
      BY <3>3, Changes, Zenon
    <3> QED
      BY <1>2, <1>4, <2>1, <3>2, <3>4, UpdateKeeps
  <2>4. CASE c.i + c.j < c.size /\ ~UseArray1(p, c.left, c.left + Middle(p))
    <3>1. c.j # c.size - Middle(p)
      BY <1>2, <2>4 DEF UseArray1
    <3>2. c.j + 1 \in Nat /\ c.j + 1 <= c.size - Middle(p)
      BY <1>4, <2>1, <2>2, <3>1
    <3>3. Update(p, [c EXCEPT !.j = @ + 1])
      BY <1>2, <1>4, <1>13, <2>4 DEF Merge
    <3>4. Update(p, At(c, c.pc, c.i, c.j + 1, c.k))
      BY <3>3, Changes, Zenon
    <3> QED
      BY <1>2, <1>4, <2>1, <3>2, <3>4, UpdateKeeps
  <2>5. CASE ~(c.i + c.j < c.size)
    <3>1. Update(p, [c EXCEPT !.pc = "done", !.i = 0, !.j = 0])
      BY <1>2, <1>13, <2>5 DEF Merge
    <3>2. Update(p, At(c, "done", 0, 0, c.k))
      BY <3>1, Changes, Zenon
    <3>3. /\ "done" \in Labels \ {"begin", "forked"} /\ 0 \in Nat
          /\ "done" \notin {"network", "partition", "bubble", "merge"}
      BY DEF Labels
    <3>4. input' = input /\ c.pc \notin {"forked", "done"}
      BY <2>1
    <3> QED
      BY <1>2, <1>4, <3>2, <3>3, <3>4, UpdateKeeps
  <2> QED
    BY <2>3, <2>4, <2>5
<1>14. CASE BeginBubbleSort(p)
  <2>1. /\ c.pc = "begin" /\ input' = input /\ ~Merging /\ c.i = 0 /\ c.j = 0
        /\ Update(p, [c EXCEPT !.pc = "bubble", !.k = c.size - 1])
    BY <1>2, <1>3, <1>14 DEF BeginBubbleSort, Bounds, Merging
  <2>2. PICK k \in Nat : k = c.size - 1
    BY <1>4
  <2>3. Update(p, At(c, "bubble", 0, 0, k))
    <3>1. Update(p, At(c, "bubble", c.i, c.j, c.size - 1))
      BY <2>1, Changes, Zenon
    <3> QED
      BY <2>1, <2>2, <3>1
  <2>4. k < c.size
    BY <1>4, <2>2
  <2> QED
    BY <1>2, <1>4, <2>1, <2>3, <2>4, UpdateKeeps DEF Labels
<1>15. CASE BubbleTurn(p)
  <2>1. /\ c.pc = "bubble" /\ input' = input /\ ~Merging
        /\ c.j <= c.i /\ c.i < c.k /\ c.k < c.size
        /\ \E n \in {c.i, c.j} : Update(p, [c EXCEPT !.i = @ + 1, !.j = n])
    BY <1>2, <1>3, <1>15 DEF BubbleTurn, Bounds
  <2>2. PICK n \in {c.i, c.j} : Update(p, [c EXCEPT !.i = @ + 1, !.j = n])
    BY <2>1
  <2>3. Update(p, At(c, c.pc, c.i + 1, n, c.k))
    BY <2>2, Changes, Zenon
  <2>4. n \in Nat /\ c.i + 1 \in Nat /\ n <= c.i + 1 /\ c.i + 1 <= c.k
    BY <1>4, <2>1, <2>2
  <2> QED
    BY <1>2, <1>4, <2>1, <2>3, <2>4, UpdateKeeps DEF Labels
<1>16. CASE BubbleRound(p)
  <2>1. /\ c.pc = "bubble" /\ input' = input /\ ~Merging
        /\ c.j <= c.i /\ c.i = c.k /\ c.k < c.size
        /\ \/ Update(p, [c EXCEPT !.pc = "done", !.i = 0, !.k = 0])
           \/ Update(p, [c EXCEPT !.i = 0, !.j = 0, !.k = c.j])
    BY <1>2, <1>3, <1>16 DEF BubbleRound, Bounds
  <2>2. CASE Update(p, [c EXCEPT !.pc = "done", !.i = 0, !.k = 0])
    <3>1. Update(p, At(c, "done", 0, c.j, 0))
      BY <2>2, Changes, Zenon
    <3> QED
      BY <1>2, <1>4, <2>1, <3>1, UpdateKeeps DEF Labels
  <2>3. CASE Update(p, [c EXCEPT !.i = 0, !.j = 0, !.k = c.j])
    <3>1. Update(p, At(c, c.pc, 0, 0, c.j))
      BY <2>3, Changes, Zenon
    <3>2. c.j < c.size
      BY <1>4, <2>1
    <3> QED
      BY <1>2, <1>4, <2>1, <3>1, <3>2, UpdateKeeps
  <2> QED
    BY <2>1, <2>2, <2>3
<1> QED
  BY <1>5, <1>6, <1>7, <1>8, <1>9, <1>10, <1>11, <1>12, <1>13, <1>14, <1>15, <1>16 DEF Step

LEMMA InvariantIInv == Spec => []IInv
BY InitIInv, NextIInv, PTL DEF Spec

-----------------------------------------------------------------------------
LEMMA RunningApart ==
  ASSUME IInv, NEW p \in DOMAIN calls, NEW q \in DOMAIN calls, p # q,
         calls[p].pc # "forked", calls[q].pc # "forked"
  PROVE  Apart(p, q)
<1>1. ~Below(p, q) /\ ~Below(q, p)
  BY CallerWaits DEF IInv, Below
<1> QED
  BY <1>1 DEF IInv, Nested

(* Sections that run at the same time, however deep they are nested, touch different
   memory: there is no data race between the threads (psort_private.hpp:132 and 201). *)
THEOREM NoRaces == Spec => []RaceFree
<1>1. IInv => RaceFree
  <2> SUFFICES ASSUME IInv, NEW p \in DOMAIN calls, NEW q \in DOMAIN calls,
                      Running(p), Running(q), p # q
               PROVE  Footprint(p) \cap Footprint(q) = {}
    BY DEF RaceFree
  <2>1. Apart(p, q)
    BY RunningApart DEF Running
  <2>2. /\ calls[p].left \in Nat /\ calls[p].size \in Nat
        /\ calls[q].left \in Nat /\ calls[q].size \in Nat
    BY DEF IInv, Types, CallType
  <2>3. Addresses(p) \cap Addresses(q) = {}
    BY <2>1, <2>2 DEF Apart, Addresses
  <2> QED
    BY <2>3, Zenon DEF Footprint
<1> QED
  BY <1>1, InvariantIInv, PTL

(* The calls in the sections of p and p itself, and those of them that run. *)
Subtree(p) == {q \in DOMAIN calls : Len(p) <= Len(q) /\ Ancestor(q, Len(p)) = p}
Working(p) == {q \in Subtree(p) : Running(q)}

LEMMA WorkingFinite ==
  ASSUME Types, NEW p
  PROVE  /\ Working(p) \subseteq Subtree(p) /\ Subtree(p) \subseteq DOMAIN calls
         /\ IsFiniteSet(Working(p)) /\ IsFiniteSet(Subtree(p)) /\ Cardinality(Working(p)) \in Nat
<1>1. Working(p) \subseteq Subtree(p) /\ Subtree(p) \subseteq DOMAIN calls
  BY DEF Working, Subtree
<1>2. IsFiniteSet(Working(p)) /\ IsFiniteSet(Subtree(p))
  BY <1>1, FS_Subset DEF Types
<1> QED
  BY <1>1, <1>2, FS_CardinalityType

LEMMA SubtreeOfCall ==
  ASSUME Types, NEW p \in DOMAIN calls
  PROVE  /\ p \in Subtree(p)
         /\ \A q \in Subtree(p) : q # p => \E s \in {1, 2} : q \in Subtree(Append(p, s))
         /\ \A s \in {1, 2} : Subtree(Append(p, s)) \subseteq Subtree(p) \ {p}
<1>1. p \in Seq({1, 2}) /\ Len(p) \in Nat /\ Ancestor(p, Len(p)) = p
  BY AncestorOfItself, LenProperties DEF Types
<1>2. p \in Subtree(p)
  BY <1>1 DEF Subtree
<1>3. ASSUME NEW q \in Subtree(p), q # p
      PROVE  \E s \in {1, 2} : q \in Subtree(Append(p, s))
  <2>1. q \in Seq({1, 2}) /\ Len(q) \in Nat /\ Ancestor(q, Len(p)) = p /\ Ancestor(q, Len(q)) = q
        /\ Len(p) <= Len(q)
    BY AncestorOfItself, LenProperties DEF Types, Subtree
  <2>2. Len(p) \in 0 .. Len(q) - 1
    BY <1>1, <1>3, <2>1
  <2>3. PICK s \in {1, 2} : Ancestor(q, Len(p) + 1) = Append(p, s)
    BY <2>1, <2>2, NextAncestor
  <2>4. Len(Append(p, s)) = Len(p) + 1
    BY <1>1, AppendIsCall
  <2> QED
    BY <2>2, <2>3, <2>4, <2>1, <1>1 DEF Subtree
<1>4. ASSUME NEW s \in {1, 2}, NEW q \in Subtree(Append(p, s))
      PROVE  q \in Subtree(p) \ {p}
  <2>1. Len(Append(p, s)) = Len(p) + 1 /\ Append(p, s) \in Seq({1, 2})
        /\ Len(p) \in 0 .. Len(p)
    BY <1>1, AppendIsCall
  <2>2. q \in DOMAIN calls /\ q \in Seq({1, 2}) /\ Len(q) \in Nat /\ Len(p) + 1 <= Len(q)
        /\ Ancestor(q, Len(p) + 1) = Append(p, s)
    BY <2>1, LenProperties DEF Subtree, Types
  <2>3. Len(p) \in 0 .. Len(q) - 1 /\ Len(p) \in 0 .. Len(q)
    BY <1>1, <2>2
  <2>4. PICK t \in {1, 2} : Append(Ancestor(q, Len(p)), t) = Append(p, s)
    BY <2>2, <2>3, NextAncestor
  <2>5. Ancestor(q, Len(p)) \in Seq({1, 2})
    BY <2>2, <2>3, AncestorIsCall
  <2>6. Ancestor(q, Len(p)) = p
    BY <1>1, <2>4, <2>5, AppendsDiffer
  <2> QED
    BY <1>1, <2>2, <2>6 DEF Subtree
<1> QED
  BY <1>2, <1>3, <1>4

(* The calls below p are those in its sections. *)
LEMMA WorkingBelow ==
  ASSUME IInv, NEW p \in DOMAIN calls, calls[p].pc = "forked"
  PROVE  Working(p) = Working(Append(p, 1)) \cup Working(Append(p, 2))
BY SubtreeOfCall DEF IInv, Working, Running

LEMMA OnlyItself ==
  ASSUME IInv, NEW p \in DOMAIN calls, calls[p].pc # "forked"
  PROVE  Subtree(p) = {p}
<1>1. \A q \in Subtree(p) : q = p
  <2> SUFFICES ASSUME NEW q \in Subtree(p), q # p PROVE FALSE
    OBVIOUS
  <2>1. p \in Seq({1, 2}) /\ Len(p) \in Nat /\ q \in Seq({1, 2}) /\ Len(q) \in Nat
        /\ q \in DOMAIN calls /\ Ancestor(q, Len(p)) = p /\ Ancestor(q, Len(q)) = q
        /\ Len(p) <= Len(q)
    BY AncestorOfItself, LenProperties DEF IInv, Types, Subtree
  <2>2. Len(p) < Len(q)
    BY <2>1
  <2> QED
    BY <2>1, <2>2, CallerWaits DEF IInv
<1> QED
  BY <1>1, SubtreeOfCall DEF IInv

(* The calls that run below a call are not more than the processors it was given. *)
LEMMA LoadFits ==
  ASSUME IInv
  PROVE  \A p \in DOMAIN calls : Cardinality(Working(p)) <= calls[p].cpus
<1> DEFINE Bad == {p \in DOMAIN calls : ~(Cardinality(Working(p)) <= calls[p].cpus)}
           T == {Subtree(p) : p \in Bad}
<1> SUFFICES ASSUME T # {} PROVE FALSE
  OBVIOUS
<1>1. IsWellFoundedOn(StrictSubsetOrdering(DOMAIN calls), SUBSET DOMAIN calls)
  BY FS_StrictSubsetOrderingWellFounded, FS_FiniteSubsetsOfFinite DEF IInv, Types
<1>2. PICK U \in T : \A V \in T : <<V, U>> \notin StrictSubsetOrdering(DOMAIN calls)
  <2>1. T \subseteq SUBSET DOMAIN calls
    BY DEF Subtree
  <2> HIDE DEF T
  <2> QED
    BY <1>1, <2>1, WFMin
<1>3. PICK p \in Bad : U = Subtree(p)
  OBVIOUS
<1>4. /\ p \in DOMAIN calls /\ calls[p] \in CallType /\ calls[p].cpus \in Nat \ {0}
      /\ ~(Cardinality(Working(p)) <= calls[p].cpus)
  BY DEF IInv, Types, CallType
<1>5. ASSUME NEW s \in {1, 2}, Append(p, s) \in DOMAIN calls
      PROVE  Cardinality(Working(Append(p, s))) <= calls[Append(p, s)].cpus
  <2>1. Subtree(Append(p, s)) \subseteq Subtree(p) /\ p \notin Subtree(Append(p, s)) /\ p \in Subtree(p)
        /\ Subtree(p) \subseteq DOMAIN calls
    BY <1>4, SubtreeOfCall DEF IInv, Subtree
  <2>2. <<Subtree(Append(p, s)), U>> \in StrictSubsetOrdering(DOMAIN calls)
    BY <1>3, <2>1 DEF StrictSubsetOrdering
  <2>3. Subtree(Append(p, s)) \notin T
    BY <1>2, <2>2
  <2> QED
    BY <1>5, <2>3
<1> HIDE DEF Bad, T
<1>6. CASE calls[p].pc # "forked"
  <2>1. Working(p) \subseteq {p}
    BY <1>4, <1>6, OnlyItself, WorkingFinite DEF IInv
  <2>2. Cardinality(Working(p)) <= 1
    <3>1. IsFiniteSet({p}) /\ Cardinality({p}) = 1
      BY FS_Singleton
    <3>2. Cardinality(Working(p)) <= Cardinality({p})
      BY <2>1, <3>1, FS_Subset
    <3> QED
      BY <3>1, <3>2
  <2> QED
    BY <1>4, <2>2, WorkingFinite DEF IInv
<1>7. CASE calls[p].pc = "forked"
  <2> DEFINE W(s) == Working(Append(p, s))
             Busy == {d \in Children(p) : ~Returned(d)}
             n == CoresForSub(p)
  <2>1. p \in Seq({1, 2})
    BY <1>4 DEF IInv, Types
  <2>2. /\ CoresToUse(p) \in {1, 2} /\ n \in Nat \ {0} /\ n <= calls[p].cpus
        /\ CoresToUse(p) = 2 => n + n <= calls[p].cpus
    BY <1>4, SharesFit
  <2>3. /\ \A d \in Children(p) : calls[d].cpus = n
        /\ Cardinality(Busy) <= CoresToUse(p)
    <3>1. calls[p].team \in Nat /\ calls[p].team <= CoresToUse(p)
      BY <1>4, <1>7 DEF IInv, Bounds, CallType
    <3>2. Cardinality(Busy) <= calls[p].team /\ (\A d \in Children(p) : calls[d].cpus = n)
      BY <1>4, <1>7 DEF IInv, Shares
    <3>3. IsFiniteSet(Busy)
      BY FS_Subset DEF IInv, Types, Children
    <3>4. Cardinality(Busy) \in Nat
      BY <3>3, FS_CardinalityType
    <3> QED
      BY <2>2, <3>1, <3>2, <3>4
  <2>4. ASSUME NEW s \in {1, 2}
        PROVE  /\ Append(p, s) \in Busy => Cardinality(W(s)) <= n
               /\ Append(p, s) \notin Busy => W(s) = {}
    <3>1. CASE Append(p, s) \in Busy
      BY <1>5, <2>3, <3>1 DEF Children
    <3>2. CASE Append(p, s) \in DOMAIN calls /\ Append(p, s) \notin Busy
      <4>1. calls[Append(p, s)].pc = "done"
        BY <3>2 DEF Children, Returned
      <4>2. Subtree(Append(p, s)) = {Append(p, s)}
        BY <3>2, <4>1, OnlyItself
      <4> QED
        BY <3>2, <4>1, <4>2 DEF Working, Running
    <3>3. CASE Append(p, s) \notin DOMAIN calls
      <4> SUFFICES ASSUME NEW q \in Subtree(Append(p, s)) PROVE FALSE
        BY <3>3 DEF Working, Children
      <4> DEFINE a == Append(p, s)
      <4>1. /\ q \in DOMAIN calls /\ q \in Seq({1, 2}) /\ Len(q) \in Nat
            /\ a \in Seq({1, 2}) /\ Len(a) \in Nat /\ Len(a) <= Len(q) /\ Ancestor(q, Len(a)) = a
        BY <2>1, AppendIsCall, LenProperties DEF IInv, Types, Subtree
      <4>2. CASE Len(a) = Len(q)
        BY <3>3, <4>1, <4>2, AncestorOfItself
      <4>3. CASE Len(a) # Len(q)
        <5>1. Len(a) \in 0 .. Len(q) - 1
          BY <4>1, <4>3
        <5> QED
          BY <3>3, <4>1, <5>1 DEF IInv, Tree
      <4> QED
        BY <4>2, <4>3
    <3> QED
      BY <3>1, <3>2, <3>3 DEF Children
  <2>5. /\ IsFiniteSet(W(1)) /\ IsFiniteSet(W(2))
        /\ Cardinality(W(1)) \in Nat /\ Cardinality(W(2)) \in Nat
    BY WorkingFinite DEF IInv
  <2>6. Working(p) = W(1) \cup W(2)
    BY <1>4, <1>7, WorkingBelow
  <2> HIDE DEF W, n
  <2>7. Cardinality(Working(p)) \in Nat
        /\ Cardinality(Working(p)) <= Cardinality(W(1)) + Cardinality(W(2))
    <3>1. Cardinality(W(1) \cup W(2)) = Cardinality(W(1)) + Cardinality(W(2)) - Cardinality(W(1) \cap W(2))
      BY <2>5, FS_Union
    <3>2. IsFiniteSet(W(1) \cap W(2)) /\ IsFiniteSet(W(1) \cup W(2))
      BY <2>5, FS_Intersection, FS_Union
    <3>3. Cardinality(W(1) \cap W(2)) \in Nat /\ Cardinality(W(1) \cup W(2)) \in Nat
      BY <3>2, FS_CardinalityType
    <3> QED
      BY <2>5, <2>6, <3>1, <3>3
  <2>8. Cardinality({}) = 0
    BY FS_EmptySet
  <2>9. CASE Append(p, 1) \in Busy /\ Append(p, 2) \in Busy
    <3>1. CoresToUse(p) = 2
      <4>1. Append(p, 1) # Append(p, 2)
        BY <2>1, AppendsDiffer
      <4>2. IsFiniteSet({Append(p, 1)}) /\ Cardinality({Append(p, 1)}) = 1
        BY FS_Singleton
      <4>3. IsFiniteSet({Append(p, 1)} \cup {Append(p, 2)})
            /\ Cardinality({Append(p, 1)} \cup {Append(p, 2)}) = 2
        <5>1. Append(p, 2) \notin {Append(p, 1)}
          BY <4>1
        <5>2. Cardinality({Append(p, 1)} \cup {Append(p, 2)}) = Cardinality({Append(p, 1)}) + 1
              /\ IsFiniteSet({Append(p, 1)} \cup {Append(p, 2)})
          BY <4>2, <5>1, FS_AddElement
        <5> QED
          BY <4>2, <5>2
      <4>4. IsFiniteSet(Busy) /\ {Append(p, 1)} \cup {Append(p, 2)} \subseteq Busy
        BY <2>9, FS_Subset DEF IInv, Types, Children
      <4>5. 2 <= Cardinality(Busy) /\ Cardinality(Busy) \in Nat
        BY <4>3, <4>4, FS_Subset, FS_CardinalityType
      <4> QED
        BY <2>2, <2>3, <4>5
    <3>2. Cardinality(W(1)) <= n /\ Cardinality(W(2)) <= n
      BY <2>4, <2>9
    <3> QED
      BY <1>4, <2>2, <2>5, <2>7, <3>1, <3>2
  <2>10. CASE Append(p, 1) \notin Busy
    <3>1. Cardinality(W(1)) = 0 /\ (Cardinality(W(2)) <= n \/ Cardinality(W(2)) = 0)
      BY <2>4, <2>8, <2>10
    <3> QED
      BY <1>4, <2>2, <2>5, <2>7, <3>1
  <2>11. CASE Append(p, 2) \notin Busy
    <3>1. Cardinality(W(2)) = 0 /\ (Cardinality(W(1)) <= n \/ Cardinality(W(1)) = 0)
      BY <2>4, <2>8, <2>11
    <3> QED
      BY <1>4, <2>2, <2>5, <2>7, <3>1
  <2> QED
    BY <2>9, <2>10, <2>11
<1> QED
  BY <1>6, <1>7

(* However the processors are divided among nested sections, no more threads work at
   one time than there are processors (psort_private.hpp:119 to 129, 198 and 199). *)
THEOREM ProcessorsSuffice == Spec => []WithinCpus
<1>1. IInv => WithinCpus
  <2> SUFFICES ASSUME IInv PROVE WithinCpus
    OBVIOUS
  <2>1. <<>> \in DOMAIN calls /\ calls[<<>>].cpus = input.cpus
    BY DEF IInv, Types, Shares
  <2>2. ASSUME NEW q \in DOMAIN calls
        PROVE  q \in Subtree(<<>>)
    <3>1. q \in Seq({1, 2}) /\ Len(q) \in Nat /\ Len(<<>>) = 0
      BY EmptySeq, LenProperties DEF IInv, Types
    <3>2. Ancestor(q, 0) = <<>>
      BY SubSeqEmpty DEF Ancestor
    <3> QED
      BY <3>1, <3>2 DEF Subtree
  <2>3. Working(<<>>) = {p \in DOMAIN calls : Running(p)}
    BY <2>2 DEF Working, Subtree
  <2> QED
    BY <2>1, <2>3, LoadFits DEF WithinCpus
<1> QED
  BY <1>1, InvariantIInv, PTL

-----------------------------------------------------------------------------
(* The networks of Bose and Nelson, for any number of items: first, that what is defined
   by recursion is what its definition says.  A set of numbers has a least one. *)
LEMMA LeastExists ==
  ASSUME NEW S \in SUBSET Nat, S # {}
  PROVE  \E x \in S : \A y \in S : x <= y
<1> SUFFICES ASSUME \A x \in S : \E y \in S : ~(x <= y) PROVE FALSE
  OBVIOUS
<1>1. PICK x \in S : TRUE
  OBVIOUS
<1> DEFINE U == {y \in S : y <= x}
           Low == {V \in SUBSET U : V # {} /\ ~\E z \in V : \A y \in V : z <= y}
<1>2. \A y \in S : y \in Nat
  OBVIOUS
<1>3. IsFiniteSet(U)
  <2>1. U \in SUBSET Nat /\ \A y \in U : y <= x
    OBVIOUS
  <2> QED
    BY <1>1, <1>2, <2>1, FS_BoundedSetOfNaturals
<1>4. U \in Low
  <2>1. x \in U
    BY <1>1, <1>2
  <2>2. ASSUME NEW z \in U, \A y \in U : z <= y PROVE FALSE
    BY <1>2, <2>2
  <2> QED
    BY <2>1, <2>2
<1>5. IsWellFoundedOn(StrictSubsetOrdering(U), SUBSET U)
  BY <1>3, FS_StrictSubsetOrderingWellFounded, FS_FiniteSubsetsOfFinite
<1>6. PICK V \in Low : \A W \in Low : <<W, V>> \notin StrictSubsetOrdering(U)
  <2>1. Low \subseteq SUBSET U
    OBVIOUS
  <2> HIDE DEF Low, U
  <2> QED
    BY <1>4, <1>5, <2>1, WFMin
<1>7. PICK z \in V : TRUE
  BY <1>6
<1>8. \A y \in V : y \in Nat
  BY <1>2, <1>6
<1>9. CASE V \ {z} = {}
  <2>1. \A y \in V : z <= y
    BY <1>7, <1>8, <1>9
  <2> QED
    BY <1>6, <1>7, <2>1
<1>10. CASE V \ {z} # {}
  <2>1. <<V \ {z}, V>> \in StrictSubsetOrdering(U)
    BY <1>6, <1>7 DEF StrictSubsetOrdering
  <2>2. PICK m \in V \ {z} : \A y \in V \ {z} : m <= y
    BY <1>6, <1>10, <2>1
  <2>3. CASE m <= z
    BY <1>6, <1>7, <1>8, <2>2, <2>3
  <2>4. CASE ~(m <= z)
    <3>1. \A y \in V : z <= y
      BY <1>7, <1>8, <2>2, <2>4
    <3> QED
      BY <1>6, <1>7, <3>1
  <2> QED
    BY <2>3, <2>4
<1> QED
  BY <1>9, <1>10

(* A set of numbers with 0 and the successor of each member has them all. *)
LEMMA SetInduction ==
  ASSUME NEW S, 0 \in S, \A n \in Nat : n \in S => n + 1 \in S
  PROVE  \A n \in Nat : n \in S
<1> DEFINE T == {n \in Nat : n \notin S}
<1> SUFFICES ASSUME T # {} PROVE FALSE
  OBVIOUS
<1>1. PICK x \in T : \A y \in T : x <= y
  BY LeastExists
<1>2. x \in Nat /\ x # 0
  BY <1>1
<1>3. x - 1 \in Nat /\ ~(x <= x - 1) /\ x - 1 + 1 = x
  BY <1>2
<1> QED
  BY <1>1, <1>3

(* A recursion has a solution if each value depends on those of smaller arguments only.
   First: for arguments smaller than k; then the solutions for all k agree. *)
Local(A, D, size, G) ==
  \A a \in A, f, g \in [A -> D] :
    (\A b \in A : size[b] < size[a] => f[b] = g[b]) => G[<<f, a>>] = G[<<g, a>>]

Recursive(A, G, f) == \A a \in A : f[a] = G[<<f, a>>]
Solves(A, G, size, f, k) == \A a \in A : size[a] < k => f[a] = G[<<f, a>>]

LEMMA SolutionsAgree ==
  ASSUME NEW A, NEW D, NEW size \in [A -> Nat], NEW G, Local(A, D, size, G),
         NEW f \in [A -> D], NEW g \in [A -> D], NEW k \in Nat, NEW l \in Nat,
         Solves(A, G, size, f, k), Solves(A, G, size, g, l)
  PROVE  \A a \in A : size[a] < k /\ size[a] < l => f[a] = g[a]
<1> DEFINE Same == {s \in Nat : \A a \in A : size[a] < s /\ size[a] < k /\ size[a] < l => f[a] = g[a]}
<1>1. \A a \in A : size[a] \in Nat
  OBVIOUS
<1>2. 0 \in Same
  BY <1>1
<1>3. ASSUME NEW s \in Nat, s \in Same PROVE s + 1 \in Same
  <2> SUFFICES ASSUME NEW a \in A, size[a] < s + 1, size[a] < k, size[a] < l PROVE f[a] = g[a]
    OBVIOUS
  <2>1. \A b \in A : size[b] < size[a] => size[b] < s /\ size[b] < k /\ size[b] < l
    BY <1>1
  <2>2. \A b \in A : size[b] < size[a] => f[b] = g[b]
    BY <1>3, <2>1
  <2>3. G[<<f, a>>] = G[<<g, a>>]
    BY <2>2 DEF Local
  <2> QED
    BY <2>3 DEF Solves
<1>4. \A s \in Nat : s \in Same
  <2> HIDE DEF Same
  <2> QED
    BY <1>2, <1>3, SetInduction
<1> SUFFICES ASSUME NEW a \in A, size[a] < k, size[a] < l PROVE f[a] = g[a]
  OBVIOUS
<1>5. size[a] + 1 \in Nat /\ size[a] < size[a] + 1
  BY <1>1
<1> QED
  BY <1>4, <1>5

LEMMA SolutionExists ==
  ASSUME NEW A, NEW D, NEW size \in [A -> Nat], NEW G \in [[A -> D] \X A -> D],
         Local(A, D, size, G), D # {}, NEW k \in Nat
  PROVE  \E f \in [A -> D] : Solves(A, G, size, f, k)
<1> DEFINE Solved == {s \in Nat : \E f \in [A -> D] : Solves(A, G, size, f, s)}
<1>1. \A a \in A : size[a] \in Nat
  OBVIOUS
<1>2. 0 \in Solved
  <2>1. PICK d \in D : TRUE
    OBVIOUS
  <2>2. [a \in A |-> d] \in [A -> D]
    OBVIOUS
  <2>3. Solves(A, G, size, [a \in A |-> d], 0)
    BY <1>1 DEF Solves
  <2> QED
    BY <2>2, <2>3
<1>3. ASSUME NEW s \in Nat, s \in Solved PROVE s + 1 \in Solved
  <2>1. PICK f \in [A -> D] : Solves(A, G, size, f, s)
    BY <1>3
  <2>2. PICK g : g = [a \in A |-> G[<<f, a>>]]
    OBVIOUS
  <2>3. g \in [A -> D]
    BY <2>2
  <2>4. \A a \in A : size[a] < s => g[a] = f[a]
    BY <2>1, <2>2 DEF Solves
  <2>5. Solves(A, G, size, g, s + 1)
    <3> SUFFICES ASSUME NEW a \in A, size[a] < s + 1 PROVE g[a] = G[<<g, a>>]
      BY DEF Solves
    <3>1. \A b \in A : size[b] < size[a] => size[b] < s
      BY <1>1
    <3>2. \A b \in A : size[b] < size[a] => f[b] = g[b]
      BY <2>4, <3>1
    <3>3. G[<<f, a>>] = G[<<g, a>>]
      BY <2>3, <3>2 DEF Local
    <3> QED
      BY <2>2, <3>3
  <2> QED
    BY <2>3, <2>5
<1> HIDE DEF Solved
<1>4. k \in Solved
  BY <1>2, <1>3, SetInduction
<1> QED
  BY <1>4 DEF Solved

LEMMA RecursionExists ==
  ASSUME NEW A, NEW D, NEW size \in [A -> Nat], NEW G \in [[A -> D] \X A -> D],
         Local(A, D, size, G), D # {}
  PROVE  \E f \in [A -> D] : Recursive(A, G, f)
<1> DEFINE Upto(k) == CHOOSE f \in [A -> D] : Solves(A, G, size, f, k)
           F == [a \in A |-> Upto(size[a] + 1)[a]]
<1>1. \A a \in A : size[a] \in Nat /\ size[a] + 1 \in Nat /\ size[a] < size[a] + 1
  OBVIOUS
<1>2. \A k \in Nat : Upto(k) \in [A -> D] /\ Solves(A, G, size, Upto(k), k)
  <2> SUFFICES ASSUME NEW k \in Nat
               PROVE  Upto(k) \in [A -> D] /\ Solves(A, G, size, Upto(k), k)
    OBVIOUS
  <2>1. \E f \in [A -> D] : Solves(A, G, size, f, k)
    BY SolutionExists
  <2> QED
    BY <2>1
<1> HIDE DEF Upto
<1>3. F \in [A -> D]
  BY <1>1, <1>2
<1>4. ASSUME NEW a \in A PROVE F[a] = G[<<F, a>>]
  <2>1. PICK f \in [A -> D] : f = Upto(size[a] + 1) /\ Solves(A, G, size, f, size[a] + 1)
    BY <1>1, <1>2
  <2>2. ASSUME NEW b \in A, size[b] < size[a] PROVE f[b] = F[b]
    <3>1. PICK g \in [A -> D] : g = Upto(size[b] + 1) /\ Solves(A, G, size, g, size[b] + 1)
      BY <1>1, <1>2
    <3>2. size[b] < size[a] + 1
      BY <1>1, <2>2
    <3>3. f[b] = g[b]
      BY <1>1, <2>1, <3>1, <3>2, SolutionsAgree
    <3> QED
      BY <3>1, <3>3
  <2>3. G[<<f, a>>] = G[<<F, a>>]
    <3> HIDE DEF F
    <3> QED
      BY <1>3, <2>2 DEF Local
  <2>4. f[a] = G[<<f, a>>]
    BY <1>1, <2>1 DEF Solves
  <2> QED
    BY <2>1, <2>3, <2>4
<1> HIDE DEF F
<1> QED
  BY <1>3, <1>4 DEF Recursive

-----------------------------------------------------------------------------
(* What Pbracket does with its arguments, given what f does with smaller ones. *)
Half(x) == x \div 2
Other(x, y) == IF x % 2 = 1 THEN y \div 2 ELSE (y + 1) \div 2

Pairs == Seq(Nat \X Nat)
BracketArgs == Nat \X Nat \X Nat \X Nat

BracketOf(f, i, x, j, y) ==
  IF x = 1 /\ y = 1 THEN Network!P(i, j)
  ELSE IF x = 1 /\ y = 2 THEN Network!P(i, j + 1) \o Network!P(i, j)
  ELSE IF x = 2 /\ y = 1 THEN Network!P(i, j) \o Network!P(i + 1, j)
  ELSE f[<<i, Half(x), j, Other(x, y)>>]
         \o f[<<i + Half(x), x - Half(x), j + Other(x, y), y - Other(x, y)>>]
         \o f[<<i + Half(x), x - Half(x), j, Other(x, y)>>]

LEMMA Halves ==
  ASSUME NEW x \in Nat, NEW y \in Nat
  PROVE  /\ Half(x) \in Nat /\ x - Half(x) \in Nat
         /\ Other(x, y) \in Nat /\ y - Other(x, y) \in Nat
         /\ x = 0 => Half(x) = 0
         /\ y = 0 => Other(x, y) = 0
         /\ x # 0 => Half(x) < x
         /\ x > 1 => Half(x) > 0
         /\ x > 1 /\ y > 0 => Other(x, y) < Half(x) + y
         /\ x = 1 => Half(x) = 0 /\ Other(x, y) <= y
         /\ x = 1 /\ y > 1 => Other(x, y) > 0 /\ Other(x, y) < y
<1>1. PICK h \in Nat : h = x \div 2 /\ (x = 2 * h \/ x = 2 * h + 1)
  OBVIOUS
<1>2. PICK k \in Nat : k = y \div 2 /\ (y = 2 * k \/ y = 2 * k + 1)
  OBVIOUS
<1>3. PICK l \in Nat : l = (y + 1) \div 2 /\ (y + 1 = 2 * l \/ y + 1 = 2 * l + 1)
  OBVIOUS
<1>4. PICK o \in Nat : o = Other(x, y) /\ (x = 1 => o = k) /\ (o = k \/ o = l)
  BY <1>2, <1>3 DEF Other
<1>5. Half(x) = h
  BY <1>1 DEF Half
<1> QED
  BY <1>1, <1>2, <1>3, <1>4, <1>5

(* Nothing is to be merged with nothing; the recursion ends by the number of items. *)
Size(a) == IF a[2] = 0 \/ a[4] = 0 THEN 0 ELSE a[2] + a[4]

LEMMA BracketEquation ==
  \A i, x, j, y \in Nat : Network!Pbracket[<<i, x, j, y>>] = BracketOf(Network!Pbracket, i, x, j, y)
<1> DEFINE Body(f, a) == IF Size(a) = 0 THEN <<>> ELSE BracketOf(f, a[1], a[2], a[3], a[4])
           Fun == [BracketArgs -> Pairs]
<1>1. PICK size \in [BracketArgs -> Nat] : \A a \in BracketArgs : size[a] = Size(a)
  <2>1. \A a \in BracketArgs : Size(a) \in Nat
    BY DEF BracketArgs, Size
  <2>2. [a \in BracketArgs |-> Size(a)] \in [BracketArgs -> Nat]
    BY <2>1
  <2> QED
    BY <2>2
<1>2. ASSUME NEW i \in Nat, NEW x \in Nat, NEW j \in Nat, NEW y \in Nat
      PROVE  /\ <<i, Half(x), j, Other(x, y)>> \in BracketArgs
             /\ <<i + Half(x), x - Half(x), j + Other(x, y), y - Other(x, y)>> \in BracketArgs
             /\ <<i + Half(x), x - Half(x), j, Other(x, y)>> \in BracketArgs
             /\ (x = 0 \/ y = 0) =>
                  /\ Size(<<i, Half(x), j, Other(x, y)>>) = 0
                  /\ Size(<<i + Half(x), x - Half(x), j + Other(x, y), y - Other(x, y)>>) = 0
                  /\ Size(<<i + Half(x), x - Half(x), j, Other(x, y)>>) = 0
             /\ x # 0 /\ y # 0 /\ ~(x = 1 /\ y = 1) =>
                  /\ Size(<<i, Half(x), j, Other(x, y)>>) < x + y
                  /\ Size(<<i + Half(x), x - Half(x), j + Other(x, y), y - Other(x, y)>>) < x + y
                  /\ Size(<<i + Half(x), x - Half(x), j, Other(x, y)>>) < x + y
  <2>1. PICK h \in Nat, o \in Nat, r \in Nat, q \in Nat :
          /\ h = Half(x) /\ o = Other(x, y) /\ r = x - h /\ q = y - o
          /\ x = 0 => h = 0
          /\ y = 0 => o = 0
          /\ x # 0 => h < x
          /\ x > 1 => h > 0
          /\ x > 1 /\ y > 0 => o < h + y
          /\ x = 1 => h = 0 /\ o <= y
          /\ x = 1 /\ y > 1 => o > 0 /\ o < y
    BY Halves
  <2>2. /\ <<i, h, j, o>> \in BracketArgs
        /\ <<i + h, r, j + o, q>> \in BracketArgs
        /\ <<i + h, r, j, o>> \in BracketArgs
    BY DEF BracketArgs
  <2>3. /\ Size(<<i, h, j, o>>) = IF h = 0 \/ o = 0 THEN 0 ELSE h + o
        /\ Size(<<i + h, r, j + o, q>>) = IF r = 0 \/ q = 0 THEN 0 ELSE r + q
        /\ Size(<<i + h, r, j, o>>) = IF r = 0 \/ o = 0 THEN 0 ELSE r + o
    BY DEF Size
  <2>4. x = 0 \/ y = 0 => (h = 0 \/ o = 0) /\ (r = 0 \/ q = 0) /\ (r = 0 \/ o = 0)
    BY <2>1
  <2>5. x # 0 /\ y # 0 /\ ~(x = 1 /\ y = 1) => h + o < x + y /\ r + q < x + y /\ r + o < x + y /\ 0 < x + y
    BY <2>1
  <2> QED
    BY <2>1, <2>2, <2>3, <2>4, <2>5
<1>3. ASSUME NEW f \in Fun, NEW i \in Nat, NEW x \in Nat, NEW j \in Nat, NEW y \in Nat
      PROVE  BracketOf(f, i, x, j, y) \in Pairs
  <2>1. \A a \in BracketArgs : f[a] \in Pairs
    OBVIOUS
  <2>2. \A s, t, u \in Pairs : s \o t \in Pairs /\ s \o t \o u \in Pairs
    BY DEF Pairs
  <2>3. \A k, l \in Nat : Network!P(k, l) \in Pairs
    BY DEF Network!P, Pairs
  <2>4. PICK b1 \in BracketArgs, b2 \in BracketArgs, b3 \in BracketArgs :
          /\ b1 = <<i, Half(x), j, Other(x, y)>>
          /\ b2 = <<i + Half(x), x - Half(x), j + Other(x, y), y - Other(x, y)>>
          /\ b3 = <<i + Half(x), x - Half(x), j, Other(x, y)>>
    BY <1>2
  <2>5. f[b1] \o f[b2] \o f[b3] \in Pairs
    BY <2>1, <2>2
  <2>6. i + 1 \in Nat /\ j + 1 \in Nat
    OBVIOUS
  <2>7. /\ Network!P(i, j) \in Pairs
        /\ Network!P(i, j + 1) \o Network!P(i, j) \in Pairs
        /\ Network!P(i, j) \o Network!P(i + 1, j) \in Pairs
    BY <2>2, <2>3, <2>6
  <2> QED
    BY <2>4, <2>5, <2>7, Zenon DEF BracketOf
<1>4. PICK G \in [Fun \X BracketArgs -> Pairs] :
        \A f \in Fun, a \in BracketArgs : G[<<f, a>>] = Body(f, a)
  <2>1. \A f \in Fun, a \in BracketArgs : Body(f, a) \in Pairs
    <3> SUFFICES ASSUME NEW f \in Fun, NEW a \in BracketArgs PROVE Body(f, a) \in Pairs
      OBVIOUS
    <3>1. a[1] \in Nat /\ a[2] \in Nat /\ a[3] \in Nat /\ a[4] \in Nat /\ <<>> \in Pairs
      BY DEF BracketArgs, Pairs
    <3> QED
      BY <1>3, <3>1
  <2> HIDE DEF Body, Fun
  <2>2. [fa \in Fun \X BracketArgs |-> Body(fa[1], fa[2])] \in [Fun \X BracketArgs -> Pairs]
    BY <2>1
  <2> QED
    BY <2>2
<1>5. Local(BracketArgs, Pairs, size, G)
  <2> SUFFICES ASSUME NEW a \in BracketArgs, NEW f \in Fun, NEW g \in Fun,
                      \A b \in BracketArgs : size[b] < size[a] => f[b] = g[b]
               PROVE  G[<<f, a>>] = G[<<g, a>>]
    BY DEF Local
  <2>1. CASE Size(a) = 0
    BY <1>4, <2>1
  <2>2. CASE Size(a) # 0
    <3>1. PICK i \in Nat, x \in Nat, j \in Nat, y \in Nat : a = <<i, x, j, y>>
      BY DEF BracketArgs
    <3>2. x # 0 /\ y # 0 /\ Size(a) = x + y
      BY <2>2, <3>1 DEF Size
    <3>3. \A b \in BracketArgs : Size(b) < x + y => f[b] = g[b]
      BY <1>1, <3>2
    <3>4. BracketOf(f, i, x, j, y) = BracketOf(g, i, x, j, y)
      <4>1. CASE x = 1 /\ y = 1
        BY <4>1 DEF BracketOf
      <4>2. CASE ~(x = 1 /\ y = 1)
        BY <1>2, <3>2, <3>3, <4>2 DEF BracketOf
      <4> QED
        BY <4>1, <4>2
    <3>5. G[<<f, a>>] = BracketOf(f, i, x, j, y) /\ G[<<g, a>>] = BracketOf(g, i, x, j, y)
      BY <1>4, <2>2, <3>1
    <3> QED
      BY <3>4, <3>5
  <2> QED
    BY <2>1, <2>2
<1>6. PICK f \in Fun : \A a \in BracketArgs : f[a] = G[<<f, a>>]
  <2>1. Pairs # {}
    <3>1. <<>> \in Pairs
      BY DEF Pairs
    <3> QED
      BY <3>1
  <2>2. G \in [[BracketArgs -> Pairs] \X BracketArgs -> Pairs] /\ size \in [BracketArgs -> Nat]
    OBVIOUS
  <2>3. \E f \in [BracketArgs -> Pairs] : Recursive(BracketArgs, G, f)
    BY <1>5, <2>1, <2>2, RecursionExists, Zenon
  <2> QED
    BY <2>3 DEF Recursive
<1>7. \A a \in BracketArgs : Size(a) = 0 => f[a] = <<>>
  BY <1>4, <1>6
<1>8. ASSUME NEW i \in Nat, NEW x \in Nat, NEW j \in Nat, NEW y \in Nat
      PROVE  f[<<i, x, j, y>>] = BracketOf(f, i, x, j, y)
  <2>1. <<i, x, j, y>> \in BracketArgs
    BY DEF BracketArgs
  <2>2. CASE x = 0 \/ y = 0
    <3>1. Size(<<i, x, j, y>>) = 0
      BY <2>2 DEF Size
    <3>2. /\ f[<<i, Half(x), j, Other(x, y)>>] = <<>>
          /\ f[<<i + Half(x), x - Half(x), j + Other(x, y), y - Other(x, y)>>] = <<>>
          /\ f[<<i + Half(x), x - Half(x), j, Other(x, y)>>] = <<>>
      <4>1. PICK b1 \in BracketArgs, b2 \in BracketArgs, b3 \in BracketArgs :
              /\ b1 = <<i, Half(x), j, Other(x, y)>>
              /\ b2 = <<i + Half(x), x - Half(x), j + Other(x, y), y - Other(x, y)>>
              /\ b3 = <<i + Half(x), x - Half(x), j, Other(x, y)>>
        BY <1>2
      <4>2. /\ Size(<<i, Half(x), j, Other(x, y)>>) = 0
            /\ Size(<<i + Half(x), x - Half(x), j + Other(x, y), y - Other(x, y)>>) = 0
            /\ Size(<<i + Half(x), x - Half(x), j, Other(x, y)>>) = 0
        BY <1>2, <2>2
      <4>3. Size(b1) = 0 /\ Size(b2) = 0 /\ Size(b3) = 0
        BY <4>1, <4>2
      <4> QED
        BY <1>7, <4>1, <4>3
    <3>3. <<>> \o <<>> \o <<>> = <<>>
      OBVIOUS
    <3> QED
      BY <1>7, <2>1, <2>2, <3>1, <3>2, <3>3 DEF BracketOf
  <2>3. CASE ~(x = 0 \/ y = 0)
    <3>1. Size(<<i, x, j, y>>) # 0
      BY <2>3 DEF Size
    <3> QED
      BY <1>4, <1>6, <2>1, <3>1
  <2> QED
    BY <2>2, <2>3
<1>9. f = [a \in BracketArgs |-> BracketOf(f, a[1], a[2], a[3], a[4])]
  <2>1. f = [a \in BracketArgs |-> f[a]]
    OBVIOUS
  <2>2. \A a \in BracketArgs : f[a] = BracketOf(f, a[1], a[2], a[3], a[4])
    <3> SUFFICES ASSUME NEW a \in BracketArgs PROVE f[a] = BracketOf(f, a[1], a[2], a[3], a[4])
      OBVIOUS
    <3>1. PICK i \in Nat, x \in Nat, j \in Nat, y \in Nat : a = <<i, x, j, y>>
      BY DEF BracketArgs
    <3> QED
      BY <1>8, <3>1
  <2> QED
    BY <2>1, <2>2
<1>10. Network!Pbracket = [a \in BracketArgs |-> BracketOf(Network!Pbracket, a[1], a[2], a[3], a[4])]
  <2> HIDE DEF Fun
  <2> QED
    BY <1>9 DEF Network!Pbracket, BracketOf, BracketArgs, Half, Other
<1> SUFFICES ASSUME NEW i \in Nat, NEW x \in Nat, NEW j \in Nat, NEW y \in Nat
             PROVE  Network!Pbracket[<<i, x, j, y>>] = BracketOf(Network!Pbracket, i, x, j, y)
  OBVIOUS
<1>11. <<i, x, j, y>> \in BracketArgs
  BY DEF BracketArgs
<1> QED
  BY <1>10, <1>11, Zenon

-----------------------------------------------------------------------------
(* Ranges that differ in length by one at most are only divided into such ranges, and
   never into empty ones. *)
Balanced(x, y) == x >= 1 /\ y >= 1 /\ x <= y + 1 /\ y <= x + 1

Divides(i, x, j, y, h, o) ==
  /\ Balanced(x, y) /\ Balanced(h, o) /\ Balanced(x - h, y - o) /\ Balanced(x - h, o)
  /\ h < x /\ o < y /\ h <= o /\ y - o <= x - h
  /\ Network!Pbracket[<<i, x, j, y>>] =
       Network!Pbracket[<<i, h, j, o>>] \o Network!Pbracket[<<i + h, x - h, j + o, y - o>>]
         \o Network!Pbracket[<<i + h, x - h, j, o>>]

LEMMA BracketDivides ==
  ASSUME NEW i \in Nat, NEW x \in Nat, NEW j \in Nat, NEW y \in Nat,
         Balanced(x, y), x > 1, ~(x = 2 /\ y = 1)
  PROVE  \E h \in Nat, o \in Nat : Divides(i, x, j, y, h, o)
<1>1. PICK h \in Nat : h = x \div 2 /\ ((x = 2 * h /\ x % 2 = 0) \/ (x = 2 * h + 1 /\ x % 2 = 1))
  OBVIOUS
<1>2. PICK k \in Nat : k = y \div 2 /\ (y = 2 * k \/ y = 2 * k + 1)
  OBVIOUS
<1>3. PICK l \in Nat : l = (y + 1) \div 2 /\ (y + 1 = 2 * l \/ y + 1 = 2 * l + 1)
  OBVIOUS
<1>4. PICK o \in Nat : o = Other(x, y) /\ (x = 2 * h + 1 => o = k) /\ (x = 2 * h => o = l)
  BY <1>1, <1>2, <1>3 DEF Other
<1>5. Half(x) = h
  BY <1>1 DEF Half
<1>6. /\ Balanced(h, o) /\ Balanced(x - h, y - o) /\ Balanced(x - h, o)
      /\ h < x /\ o < y /\ h <= o /\ y - o <= x - h
  <2>1. CASE x = 2 * h
    BY <1>3, <1>4, <2>1 DEF Balanced
  <2>2. CASE x = 2 * h + 1
    BY <1>2, <1>4, <2>2 DEF Balanced
  <2> QED
    BY <1>1, <2>1, <2>2
<1>7. Network!Pbracket[<<i, x, j, y>>] = BracketOf(Network!Pbracket, i, x, j, y)
  BY BracketEquation
<1>8. BracketOf(Network!Pbracket, i, x, j, y) =
        Network!Pbracket[<<i, h, j, o>>] \o Network!Pbracket[<<i + h, x - h, j + o, y - o>>]
          \o Network!Pbracket[<<i + h, x - h, j, o>>]
  <2>1. ~(x = 1 /\ y = 1) /\ ~(x = 1 /\ y = 2) /\ ~(x = 2 /\ y = 1)
    OBVIOUS
  <2>2. Half(x) = h /\ Other(x, y) = o
    BY <1>4, <1>5
  <2> QED
    BY <2>1, <2>2, Zenon DEF BracketOf
<1>9. Divides(i, x, j, y, h, o)
  BY <1>6, <1>7, <1>8, Zenon DEF Divides
<1> QED
  BY <1>9

LEMMA BracketEnds ==
  ASSUME NEW i \in Nat, NEW j \in Nat
  PROVE  /\ Network!Pbracket[<<i, 1, j, 1>>] = << <<i, j>> >>
         /\ Network!Pbracket[<<i, 1, j, 2>>] = << <<i, j + 1>> >> \o << <<i, j>> >>
         /\ Network!Pbracket[<<i, 2, j, 1>>] = << <<i, j>> >> \o << <<i + 1, j>> >>
<1>1. /\ Network!Pbracket[<<i, 1, j, 1>>] = BracketOf(Network!Pbracket, i, 1, j, 1)
      /\ Network!Pbracket[<<i, 1, j, 2>>] = BracketOf(Network!Pbracket, i, 1, j, 2)
      /\ Network!Pbracket[<<i, 2, j, 1>>] = BracketOf(Network!Pbracket, i, 2, j, 1)
  BY BracketEquation
<1> QED
  BY <1>1 DEF BracketOf, Network!P

(* What holds of the shortest ranges, and of ranges if it holds of those they are divided
   into, holds of all. *)
LEMMA BracketInduction ==
  ASSUME NEW S,
         \A i, j \in Nat : <<i, 1, j, 1>> \in S /\ <<i, 1, j, 2>> \in S /\ <<i, 2, j, 1>> \in S,
         \A i, x, j, y, h, o \in Nat :
           /\ Divides(i, x, j, y, h, o) /\ <<i, h, j, o>> \in S
           /\ <<i + h, x - h, j + o, y - o>> \in S /\ <<i + h, x - h, j, o>> \in S
           => <<i, x, j, y>> \in S
  PROVE  \A i, x, j, y \in Nat : Balanced(x, y) => <<i, x, j, y>> \in S
<1> DEFINE T == {s \in Nat : \A i, x, j, y \in Nat :
                   Balanced(x, y) /\ x + y <= s => <<i, x, j, y>> \in S}
<1>1. 0 \in T
  BY DEF Balanced
<1>2. ASSUME NEW s \in Nat, s \in T PROVE s + 1 \in T
  <2> SUFFICES ASSUME NEW i \in Nat, NEW x \in Nat, NEW j \in Nat, NEW y \in Nat,
                      Balanced(x, y), x + y <= s + 1
               PROVE  <<i, x, j, y>> \in S
    OBVIOUS
  <2>1. CASE x = 1
    <3>1. y = 1 \/ y = 2
      BY <2>1 DEF Balanced
    <3> QED
      BY <2>1, <3>1
  <2>2. CASE x = 2 /\ y = 1
    BY <2>2
  <2>3. CASE x # 1 /\ ~(x = 2 /\ y = 1)
    <3>1. x > 1
      BY <2>3 DEF Balanced
    <3>2. PICK h \in Nat, o \in Nat : Divides(i, x, j, y, h, o)
      BY <2>3, <3>1, BracketDivides
    <3>3. PICK r \in Nat, q \in Nat : r = x - h /\ q = y - o
      BY <3>2 DEF Divides
    <3>4. /\ Balanced(h, o) /\ Balanced(r, q) /\ Balanced(r, o)
          /\ h + o <= s /\ r + q <= s /\ r + o <= s
      <4>1. Balanced(h, o) /\ Balanced(r, q) /\ Balanced(r, o) /\ h < x /\ o < y
        BY <3>2, <3>3 DEF Divides
      <4>2. h >= 1 /\ o >= 1
        BY <4>1 DEF Balanced
      <4> QED
        BY <3>3, <4>1, <4>2
    <3>5. i + h \in Nat /\ j + o \in Nat
      OBVIOUS
    <3>6. <<i, h, j, o>> \in S /\ <<i + h, r, j + o, q>> \in S /\ <<i + h, r, j, o>> \in S
      BY <1>2, <3>4, <3>5
    <3> QED
      BY <3>2, <3>3, <3>6
  <2> QED
    BY <2>1, <2>2, <2>3
<1>3. \A s \in Nat : s \in T
  <2> HIDE DEF T
  <2> QED
    BY <1>1, <1>2, SetInduction
<1> SUFFICES ASSUME NEW i \in Nat, NEW x \in Nat, NEW j \in Nat, NEW y \in Nat, Balanced(x, y)
             PROVE  <<i, x, j, y>> \in S
  OBVIOUS
<1>4. x + y \in Nat /\ x + y <= x + y
  OBVIOUS
<1>5. x + y \in T
  BY <1>3, <1>4
<1> QED
  BY <1>4, <1>5

(* A network merges two ranges by exchanges within them. *)
Span(i, x) == i .. i + x - 1

LEMMA SeqMonotone ==
  ASSUME NEW T, NEW U, T \subseteq U, NEW s \in Seq(T \X T)
  PROVE  s \in Seq(U \X U)
<1>1. T \X T \subseteq U \X U
  OBVIOUS
<1> QED
  BY <1>1, SeqMonotonic

LEMMA BracketFits ==
  ASSUME NEW i \in Nat, NEW x \in Nat, NEW j \in Nat, NEW y \in Nat, Balanced(x, y)
  PROVE  Network!Pbracket[<<i, x, j, y>>]
           \in Seq((Span(i, x) \cup Span(j, y)) \X (Span(i, x) \cup Span(j, y)))
<1> DEFINE Both(a, b, c, d) == Span(a, b) \cup Span(c, d)
           S == {a \in BracketArgs : Network!Pbracket[a] \in
                   Seq(Both(a[1], a[2], a[3], a[4]) \X Both(a[1], a[2], a[3], a[4]))}
<1>1. ASSUME NEW a \in Nat, NEW b \in Nat
      PROVE  <<a, 1, b, 1>> \in S /\ <<a, 1, b, 2>> \in S /\ <<a, 2, b, 1>> \in S
  <2>1. /\ a \in Span(a, 1) /\ b \in Span(b, 1)
        /\ a \in Span(a, 2) /\ a + 1 \in Span(a, 2)
        /\ b \in Span(b, 2) /\ b + 1 \in Span(b, 2)
    BY DEF Span
  <2>2. \A T : \A s, t \in T \X T : <<s>> \in Seq(T \X T) /\ <<s>> \o <<t>> \in Seq(T \X T)
    OBVIOUS
  <2>3. PICK u : u = Both(a, 1, b, 1)
    OBVIOUS
  <2>4. PICK v : v = Both(a, 1, b, 2)
    OBVIOUS
  <2>5. PICK w : w = Both(a, 2, b, 1)
    OBVIOUS
  <2>6. /\ << <<a, b>> >> \in Seq(u \X u)
        /\ << <<a, b + 1>> >> \o << <<a, b>> >> \in Seq(v \X v)
        /\ << <<a, b>> >> \o << <<a + 1, b>> >> \in Seq(w \X w)
    <3>1. /\ <<a, b>> \in u \X u
          /\ <<a, b + 1>> \in v \X v /\ <<a, b>> \in v \X v
          /\ <<a, b>> \in w \X w /\ <<a + 1, b>> \in w \X w
      BY <2>1, <2>3, <2>4, <2>5
    <3> QED
      BY <2>2, <3>1
  <2>7. <<a, 1, b, 1>> \in BracketArgs /\ <<a, 1, b, 2>> \in BracketArgs /\ <<a, 2, b, 1>> \in BracketArgs
    BY DEF BracketArgs
  <2> HIDE DEF Both
  <2> QED
    BY <2>3, <2>4, <2>5, <2>6, <2>7, BracketEnds
<1>2. ASSUME NEW a \in Nat, NEW b \in Nat, NEW c \in Nat, NEW d \in Nat, NEW h \in Nat, NEW o \in Nat,
             Divides(a, b, c, d, h, o), <<a, h, c, o>> \in S,
             <<a + h, b - h, c + o, d - o>> \in S, <<a + h, b - h, c, o>> \in S
      PROVE  <<a, b, c, d>> \in S
  <2>1. PICK U : U = Both(a, b, c, d)
    OBVIOUS
  <2>2. /\ Both(a, h, c, o) \subseteq U
        /\ Both(a + h, b - h, c + o, d - o) \subseteq U
        /\ Both(a + h, b - h, c, o) \subseteq U
    BY <1>2, <2>1 DEF Divides, Span
  <2>3. PICK s : s = Network!Pbracket[<<a, h, c, o>>]
    OBVIOUS
  <2>4. PICK t : t = Network!Pbracket[<<a + h, b - h, c + o, d - o>>]
    OBVIOUS
  <2>5. PICK u : u = Network!Pbracket[<<a + h, b - h, c, o>>]
    OBVIOUS
  <2> HIDE DEF Both
  <2>6. s \in Seq(U \X U)
    BY <1>2, <2>2, <2>3, SeqMonotone
  <2>7. t \in Seq(U \X U)
    BY <1>2, <2>2, <2>4, SeqMonotone
  <2>8. u \in Seq(U \X U)
    BY <1>2, <2>2, <2>5, SeqMonotone
  <2>9. s \o t \o u \in Seq(U \X U)
    BY <2>6, <2>7, <2>8
  <2>10. Network!Pbracket[<<a, b, c, d>>] = s \o t \o u
    BY <1>2, <2>3, <2>4, <2>5 DEF Divides
  <2>11. <<a, b, c, d>> \in BracketArgs
    BY DEF BracketArgs
  <2> QED
    BY <2>1, <2>9, <2>10, <2>11
<1>3. <<i, x, j, y>> \in S
  <2> HIDE DEF S
  <2>1. \A a, b \in Nat : <<a, 1, b, 1>> \in S /\ <<a, 1, b, 2>> \in S /\ <<a, 2, b, 1>> \in S
    BY <1>1
  <2>2. \A a, b, c, d, h, o \in Nat :
          /\ Divides(a, b, c, d, h, o) /\ <<a, h, c, o>> \in S
          /\ <<a + h, b - h, c + o, d - o>> \in S /\ <<a + h, b - h, c, o>> \in S
          => <<a, b, c, d>> \in S
    <3> TAKE a, b, c, d, h, o \in Nat
    <3> HAVE /\ Divides(a, b, c, d, h, o) /\ <<a, h, c, o>> \in S
             /\ <<a + h, b - h, c + o, d - o>> \in S /\ <<a + h, b - h, c, o>> \in S
    <3> QED
      BY <1>2
  <2>3. \A a, b, c, d \in Nat : Balanced(b, d) => <<a, b, c, d>> \in S
    BY <2>1, <2>2, BracketInduction, Zenon
  <2> QED
    BY <2>3
<1> QED
  BY <1>3

-----------------------------------------------------------------------------
(* The same for Pstar. *)
StarOf(f, i, m) ==
  IF m <= 1 THEN <<>>
  ELSE f[<<i, Half(m)>>] \o f[<<i + Half(m), m - Half(m)>>]
         \o Network!Pbracket[<<i, Half(m), i + Half(m), m - Half(m)>>]

LEMMA HalvesBalanced ==
  ASSUME NEW m \in Nat, m > 1
  PROVE  /\ Half(m) \in Nat /\ m - Half(m) \in Nat
         /\ Half(m) < m /\ m - Half(m) < m /\ Balanced(Half(m), m - Half(m))
<1>1. PICK h \in Nat : h = m \div 2 /\ (m = 2 * h \/ m = 2 * h + 1)
  OBVIOUS
<1>2. Half(m) = h
  BY <1>1 DEF Half
<1> QED
  BY <1>1, <1>2 DEF Balanced

LEMMA StarEquation ==
  \A i, m \in Nat : Network!Pstar[<<i, m>>] = StarOf(Network!Pstar, i, m)
<1> DEFINE StarArgs == Nat \X Nat
           Fun == [StarArgs -> Pairs]
<1>1. PICK size \in [StarArgs -> Nat] : \A i, m \in Nat : size[<<i, m>>] = m
  <2>1. [a \in StarArgs |-> a[2]] \in [StarArgs -> Nat]
    OBVIOUS
  <2> QED
    BY <2>1
<1>2. ASSUME NEW f \in Fun, NEW i \in Nat, NEW m \in Nat
      PROVE  StarOf(f, i, m) \in Pairs
  <2>1. CASE m <= 1
    BY <2>1 DEF StarOf, Pairs
  <2>2. CASE ~(m <= 1)
    <3>1. PICK h \in Nat, r \in Nat : h = Half(m) /\ r = m - h /\ Balanced(h, r)
      BY <2>2, HalvesBalanced
    <3>2. PICK b : b = Network!Pbracket[<<i, h, i + h, r>>]
      OBVIOUS
    <3>3. b \in Pairs
      <4>1. i + h \in Nat
        OBVIOUS
      <4>2. b \in Seq((Span(i, h) \cup Span(i + h, r)) \X (Span(i, h) \cup Span(i + h, r)))
        BY <3>1, <3>2, <4>1, BracketFits
      <4>3. Span(i, h) \cup Span(i + h, r) \subseteq Nat
        BY DEF Span
      <4> QED
        BY <4>2, <4>3, SeqMonotone DEF Pairs
    <3>4. <<i, h>> \in StarArgs /\ <<i + h, r>> \in StarArgs
      OBVIOUS
    <3>5. f[<<i, h>>] \o f[<<i + h, r>>] \o b \in Pairs
      <4>1. f[<<i, h>>] \in Pairs /\ f[<<i + h, r>>] \in Pairs
        BY <3>4
      <4>2. \A s, t, u \in Pairs : s \o t \o u \in Pairs
        BY DEF Pairs
      <4> QED
        BY <3>3, <4>1, <4>2
    <3> QED
      BY <2>2, <3>1, <3>2, <3>5, Zenon DEF StarOf
  <2> QED
    BY <2>1, <2>2
<1>3. PICK G \in [Fun \X StarArgs -> Pairs] :
        \A f \in Fun, i, m \in Nat : G[<<f, <<i, m>> >>] = StarOf(f, i, m)
  <2>1. \A f \in Fun, a \in StarArgs : StarOf(f, a[1], a[2]) \in Pairs
    BY <1>2
  <2> HIDE DEF Fun
  <2>2. [fa \in Fun \X StarArgs |-> StarOf(fa[1], fa[2][1], fa[2][2])] \in [Fun \X StarArgs -> Pairs]
    BY <2>1
  <2> QED
    BY <2>2
<1>4. Local(StarArgs, Pairs, size, G)
  <2> SUFFICES ASSUME NEW a \in StarArgs, NEW f \in Fun, NEW g \in Fun,
                      \A b \in StarArgs : size[b] < size[a] => f[b] = g[b]
               PROVE  G[<<f, a>>] = G[<<g, a>>]
    BY DEF Local
  <2>1. PICK i \in Nat, m \in Nat : a = <<i, m>>
    OBVIOUS
  <2>2. \A k, n \in Nat : n < m => f[<<k, n>>] = g[<<k, n>>]
    BY <1>1, <2>1
  <2>3. StarOf(f, i, m) = StarOf(g, i, m)
    <3>1. CASE m <= 1
      BY <3>1 DEF StarOf
    <3>2. CASE ~(m <= 1)
      <4>1. PICK h \in Nat, r \in Nat : h = Half(m) /\ r = m - h /\ h < m /\ r < m
        BY <3>2, HalvesBalanced
      <4>2. i + h \in Nat
        OBVIOUS
      <4>3. f[<<i, h>>] = g[<<i, h>>] /\ f[<<i + h, r>>] = g[<<i + h, r>>]
        BY <2>2, <4>1, <4>2
      <4> QED
        BY <4>1, <4>3, Zenon DEF StarOf
    <3> QED
      BY <3>1, <3>2
  <2> QED
    BY <1>3, <2>1, <2>3
<1>5. PICK f \in Fun : \A a \in StarArgs : f[a] = G[<<f, a>>]
  <2>1. Pairs # {}
    <3>1. <<>> \in Pairs
      BY DEF Pairs
    <3> QED
      BY <3>1
  <2>2. G \in [[StarArgs -> Pairs] \X StarArgs -> Pairs] /\ size \in [StarArgs -> Nat]
    OBVIOUS
  <2>3. \E f \in [StarArgs -> Pairs] : Recursive(StarArgs, G, f)
    BY <1>4, <2>1, <2>2, RecursionExists, Zenon
  <2> QED
    BY <2>3 DEF Recursive
<1>6. f = [a \in StarArgs |-> StarOf(f, a[1], a[2])]
  <2>1. f = [a \in StarArgs |-> f[a]]
    OBVIOUS
  <2>2. \A a \in StarArgs : f[a] = StarOf(f, a[1], a[2])
    <3> SUFFICES ASSUME NEW a \in StarArgs PROVE f[a] = StarOf(f, a[1], a[2])
      OBVIOUS
    <3>1. PICK i \in Nat, m \in Nat : a = <<i, m>>
      OBVIOUS
    <3>2. f[a] = G[<<f, a>>]
      BY <1>5
    <3>3. G[<<f, a>>] = StarOf(f, i, m)
      BY <1>3, <3>1
    <3> QED
      BY <3>1, <3>2, <3>3
  <2> QED
    BY <2>1, <2>2
<1>7. Network!Pstar = [a \in Nat \X Nat |-> StarOf(Network!Pstar, a[1], a[2])]
  <2> HIDE DEF Fun
  <2> QED
    BY <1>6 DEF Network!Pstar, StarOf, Half
<1> SUFFICES ASSUME NEW i \in Nat, NEW m \in Nat
             PROVE  Network!Pstar[<<i, m>>] = StarOf(Network!Pstar, i, m)
  OBVIOUS
<1>8. <<i, m>> \in Nat \X Nat
  OBVIOUS
<1> QED
  BY <1>7, <1>8, Zenon

StarDivides(i, m, h) ==
  /\ h < m /\ Balanced(h, m - h)
  /\ Network!Pstar[<<i, m>>] =
       Network!Pstar[<<i, h>>] \o Network!Pstar[<<i + h, m - h>>]
         \o Network!Pbracket[<<i, h, i + h, m - h>>]

LEMMA StarInduction ==
  ASSUME NEW S,
         \A i \in Nat : <<i, 0>> \in S /\ <<i, 1>> \in S,
         \A i, m, h \in Nat :
           StarDivides(i, m, h) /\ <<i, h>> \in S /\ <<i + h, m - h>> \in S => <<i, m>> \in S
  PROVE  \A i, m \in Nat : <<i, m>> \in S
<1> DEFINE T == {s \in Nat : \A i, m \in Nat : m <= s => <<i, m>> \in S}
<1>1. 0 \in T
  <2>1. \A m \in Nat : m <= 0 => m = 0
    OBVIOUS
  <2> QED
    BY <2>1
<1>2. ASSUME NEW s \in Nat, s \in T PROVE s + 1 \in T
  <2> SUFFICES ASSUME NEW i \in Nat, NEW m \in Nat, m <= s + 1
               PROVE  <<i, m>> \in S
    OBVIOUS
  <2>1. CASE m <= 1
    <3>1. m = 0 \/ m = 1
      BY <2>1
    <3> QED
      BY <3>1
  <2>2. CASE ~(m <= 1)
    <3>1. PICK h \in Nat, r \in Nat : h = Half(m) /\ r = m - h /\ h < m /\ r < m /\ Balanced(h, r)
      BY <2>2, HalvesBalanced
    <3>2. StarDivides(i, m, h)
      <4>1. Network!Pstar[<<i, m>>] = StarOf(Network!Pstar, i, m)
        BY StarEquation
      <4> QED
        BY <2>2, <3>1, <4>1, Zenon DEF StarOf, StarDivides
    <3>3. i + h \in Nat /\ h <= s /\ r <= s
      BY <3>1
    <3>4. <<i, h>> \in S /\ <<i + h, r>> \in S
      BY <1>2, <3>3
    <3> QED
      BY <3>1, <3>2, <3>4
  <2> QED
    BY <2>1, <2>2
<1>3. \A s \in Nat : s \in T
  <2> HIDE DEF T
  <2> QED
    BY <1>1, <1>2, SetInduction
<1> SUFFICES ASSUME NEW i \in Nat, NEW m \in Nat PROVE <<i, m>> \in S
  OBVIOUS
<1>4. m \in T /\ m <= m
  BY <1>3
<1> QED
  BY <1>4

LEMMA StarFits ==
  \A i, m \in Nat : Network!Pstar[<<i, m>>] \in Seq(Span(i, m) \X Span(i, m))
<1> DEFINE S == {a \in Nat \X Nat :
                   Network!Pstar[a] \in Seq(Span(a[1], a[2]) \X Span(a[1], a[2]))}
<1>1. ASSUME NEW i \in Nat PROVE <<i, 0>> \in S /\ <<i, 1>> \in S
  <2>1. Network!Pstar[<<i, 0>>] = <<>> /\ Network!Pstar[<<i, 1>>] = <<>>
    <3>1. /\ Network!Pstar[<<i, 0>>] = StarOf(Network!Pstar, i, 0)
          /\ Network!Pstar[<<i, 1>>] = StarOf(Network!Pstar, i, 1)
      BY StarEquation
    <3> QED
      BY <3>1 DEF StarOf
  <2>2. \A T : <<>> \in Seq(T)
    OBVIOUS
  <2> QED
    BY <2>1, <2>2
<1>2. ASSUME NEW i \in Nat, NEW m \in Nat, NEW h \in Nat, StarDivides(i, m, h),
             <<i, h>> \in S, <<i + h, m - h>> \in S
      PROVE  <<i, m>> \in S
  <2>1. PICK U : U = Span(i, m)
    OBVIOUS
  <2>2. PICK r \in Nat : r = m - h /\ Balanced(h, r)
    BY <1>2 DEF StarDivides
  <2>3. Span(i, h) \subseteq U /\ Span(i + h, r) \subseteq U /\ i + h \in Nat
    BY <1>2, <2>1, <2>2 DEF StarDivides, Span
  <2>4. Network!Pstar[<<i, h>>] \in Seq(U \X U)
    BY <1>2, <2>3, SeqMonotone
  <2>5. Network!Pstar[<<i + h, r>>] \in Seq(U \X U)
    BY <1>2, <2>2, <2>3, SeqMonotone
  <2>6. Network!Pbracket[<<i, h, i + h, r>>] \in Seq(U \X U)
    <3>1. PICK V : V = Span(i, h) \cup Span(i + h, r)
      OBVIOUS
    <3>2. Network!Pbracket[<<i, h, i + h, r>>] \in Seq(V \X V)
      BY <2>2, <2>3, <3>1, BracketFits
    <3>3. V \subseteq U
      BY <2>3, <3>1
    <3> QED
      BY <3>2, <3>3, SeqMonotone
  <2>7. Network!Pstar[<<i, m>>] \in Seq(U \X U)
    <3>1. PICK s \in Seq(U \X U), t \in Seq(U \X U), u \in Seq(U \X U) :
            /\ s = Network!Pstar[<<i, h>>] /\ t = Network!Pstar[<<i + h, r>>]
            /\ u = Network!Pbracket[<<i, h, i + h, r>>]
      BY <2>4, <2>5, <2>6
    <3>2. Network!Pstar[<<i, m>>] = s \o t \o u
      BY <1>2, <2>2, <3>1, Zenon DEF StarDivides
    <3>3. s \o t \o u \in Seq(U \X U)
      OBVIOUS
    <3> QED
      BY <3>2, <3>3
  <2> QED
    BY <2>1, <2>7
<1>3. \A i, m \in Nat : <<i, m>> \in S
  <2> HIDE DEF S
  <2>1. \A i \in Nat : <<i, 0>> \in S /\ <<i, 1>> \in S
    BY <1>1
  <2>2. \A i, m, h \in Nat :
          StarDivides(i, m, h) /\ <<i, h>> \in S /\ <<i + h, m - h>> \in S => <<i, m>> \in S
    BY <1>2, Zenon
  <2> QED
    BY <2>1, <2>2, StarInduction, Zenon
<1> QED
  BY <1>3

(* The networks of all sizes exchange items of their range only. *)
THEOREM NetworksAlwaysFit == NetworksFit(Nat)
<1> SUFFICES ASSUME NEW n \in Nat
             PROVE  Network!Swaps(n) \in Seq((0 .. n - 1) \X (0 .. n - 1))
  BY DEF NetworksFit
<1>1. Network!Pstar[<<0, n>>] \in Seq(Span(0, n) \X Span(0, n))
  BY StarFits
<1>2. Span(0, n) = 0 .. n - 1
  BY DEF Span
<1> QED
  BY <1>1, <1>2 DEF Network!Swaps

-----------------------------------------------------------------------------
(* What the exchanges of a list make of zeros and ones. *)
Bits(N) == [0 .. N - 1 -> {0, 1}]

Goes(N, s, v, w) ==
  \E t \in [0 .. Len(s) -> Bits(N)] :
    t[0] = v /\ t[Len(s)] = w /\ \A k \in 1 .. Len(s) : t[k] = Swapped(t[k - 1], s[k])

LEMMA GoesSplit ==
  ASSUME NEW N, NEW T, NEW s1 \in Seq(T), NEW s2 \in Seq(T), NEW v, NEW w, Goes(N, s1 \o s2, v, w)
  PROVE  \E u \in Bits(N) : Goes(N, s1, v, u) /\ Goes(N, s2, u, w)
<1>1. PICK m \in Nat, n \in Nat : m = Len(s1) /\ n = Len(s2)
  OBVIOUS
<1>2. /\ Len(s1 \o s2) = m + n
      /\ \A k \in 1 .. m : (s1 \o s2)[k] = s1[k]
      /\ \A k \in 1 .. n : (s1 \o s2)[m + k] = s2[k]
  BY <1>1
<1>3. PICK t \in [0 .. m + n -> Bits(N)] :
        t[0] = v /\ t[m + n] = w /\ \A k \in 1 .. m + n : t[k] = Swapped(t[k - 1], (s1 \o s2)[k])
  BY <1>2 DEF Goes
<1>4. PICK t1 : t1 = [k \in 0 .. m |-> t[k]]
  OBVIOUS
<1>5. PICK t2 : t2 = [k \in 0 .. n |-> t[m + k]]
  OBVIOUS
<1>6. t[m] \in Bits(N)
  BY <1>3
<1>7. Goes(N, s1, v, t[m])
  <2>1. t1 \in [0 .. m -> Bits(N)]
    BY <1>3, <1>4
  <2>2. \A k \in 1 .. m : t1[k] = Swapped(t1[k - 1], s1[k])
    <3> SUFFICES ASSUME NEW k \in 1 .. m PROVE t1[k] = Swapped(t1[k - 1], s1[k])
      OBVIOUS
    <3>1. k \in 1 .. m + n /\ k \in 0 .. m /\ k - 1 \in 0 .. m
      OBVIOUS
    <3>2. t[k] = Swapped(t[k - 1], s1[k])
      BY <1>2, <1>3, <3>1
    <3> QED
      BY <1>4, <3>1, <3>2
  <2>3. t1[0] = v /\ t1[m] = t[m]
    BY <1>3, <1>4
  <2> QED
    BY <1>1, <2>1, <2>2, <2>3 DEF Goes
<1>8. Goes(N, s2, t[m], w)
  <2>1. t2 \in [0 .. n -> Bits(N)]
    BY <1>3, <1>5
  <2>2. \A k \in 1 .. n : t2[k] = Swapped(t2[k - 1], s2[k])
    <3> SUFFICES ASSUME NEW k \in 1 .. n PROVE t2[k] = Swapped(t2[k - 1], s2[k])
      OBVIOUS
    <3>1. m + k \in 1 .. m + n /\ k \in 0 .. n /\ k - 1 \in 0 .. n /\ m + k - 1 = m + (k - 1)
      OBVIOUS
    <3>2. t[m + k] = Swapped(t[m + k - 1], s2[k])
      <4>1. (s1 \o s2)[m + k] = s2[k]
        BY <1>2
      <4>2. PICK e \in 1 .. m + n : e = m + k
        BY <3>1
      <4>3. t[e] = Swapped(t[e - 1], (s1 \o s2)[e])
        BY <1>3
      <4> QED
        BY <4>1, <4>2, <4>3
    <3> QED
      BY <1>5, <3>1, <3>2
  <2>3. t2[0] = t[m] /\ t2[n] = w
    BY <1>3, <1>5
  <2> QED
    BY <1>1, <2>1, <2>2, <2>3 DEF Goes
<1> QED
  BY <1>6, <1>7, <1>8

LEMMA GoesNowhere ==
  ASSUME NEW N, NEW v, NEW w, Goes(N, <<>>, v, w)
  PROVE  w = v
BY DEF Goes

LEMMA GoesOnce ==
  ASSUME NEW N \in Nat, NEW a \in 0 .. N - 1, NEW b \in 0 .. N - 1, a # b,
         NEW v \in Bits(N), NEW w, Goes(N, << <<a, b>> >>, v, w)
  PROVE  /\ w \in Bits(N)
         /\ w[a] = IF v[a] = 1 /\ v[b] = 0 THEN 0 ELSE v[a]
         /\ w[b] = IF v[a] = 1 /\ v[b] = 0 THEN 1 ELSE v[b]
         /\ \A k \in 0 .. N - 1 : k # a /\ k # b => w[k] = v[k]
<1>1. Len(<< <<a, b>> >>) = 1 /\ << <<a, b>> >>[1] = <<a, b>> /\ <<a, b>>[1] = a /\ <<a, b>>[2] = b
  OBVIOUS
<1>2. PICK s : s = << <<a, b>> >>
  OBVIOUS
<1>3. w = Swapped(v, <<a, b>>) /\ w \in Bits(N)
  <2>1. PICK t \in [0 .. 1 -> Bits(N)] :
          t[0] = v /\ t[1] = w /\ \A k \in 1 .. 1 : t[k] = Swapped(t[k - 1], s[k])
    BY <1>1, <1>2 DEF Goes
  <2>2. t[1] = Swapped(t[0], s[1])
    BY <2>1
  <2> QED
    BY <1>1, <1>2, <2>1, <2>2
<1>4. v[a] \in {0, 1} /\ v[b] \in {0, 1} /\ DOMAIN v = 0 .. N - 1
  BY DEF Bits
<1>5. w = IF v[a] > v[b] THEN [v EXCEPT ![a] = v[b], ![b] = v[a]] ELSE v
  BY <1>1, <1>3 DEF Swapped
<1>6. CASE v[a] = 1 /\ v[b] = 0
  BY <1>3, <1>4, <1>5, <1>6
<1>7. CASE ~(v[a] = 1 /\ v[b] = 0)
  BY <1>3, <1>4, <1>5, <1>7
<1> QED
  BY <1>6, <1>7

(* x bits from i on are p zeros, then ones. *)
Zeros(v, i, x, p) == p \in 0 .. x /\ \A k \in i .. i + x - 1 : v[k] = IF k < i + p THEN 0 ELSE 1

ZerosOfParts(v, i, h, r, p, p1, p2) ==
  Zeros(v, i, h, p1) /\ Zeros(v, i + h, r, p2) /\ p1 + p2 = p /\ (p1 < h => p2 = 0)

LEMMA ZerosSplit ==
  ASSUME NEW v, NEW i \in Nat, NEW h \in Nat, NEW r \in Nat, NEW p, NEW x, x = h + r, Zeros(v, i, x, p)
  PROVE  \E p1 \in Nat, p2 \in Nat : ZerosOfParts(v, i, h, r, p, p1, p2)
<1>1. p \in Nat /\ p <= h + r
  BY DEF Zeros
<1>2. CASE p <= h
  <2>1. Zeros(v, i, h, p) /\ Zeros(v, i + h, r, 0)
    BY <1>1, <1>2 DEF Zeros
  <2> QED
    BY <1>1, <2>1 DEF ZerosOfParts
<1>3. CASE ~(p <= h)
  <2>1. Zeros(v, i, h, h) /\ Zeros(v, i + h, r, p - h)
    BY <1>1, <1>3 DEF Zeros
  <2>2. p - h \in Nat /\ h + (p - h) = p
    BY <1>1, <1>3
  <2> QED
    BY <2>1, <2>2 DEF ZerosOfParts
<1> QED
  BY <1>2, <1>3

LEMMA ZerosJoin ==
  ASSUME NEW v, NEW i \in Nat, NEW h \in Nat, NEW r \in Nat, NEW p \in Nat, NEW q \in Nat,
         Zeros(v, i, h, p), Zeros(v, i + h, r, q), p < h => q = 0
  PROVE  Zeros(v, i, h + r, p + q)
<1>1. p <= h /\ q <= r
  BY DEF Zeros
<1>2. ASSUME NEW k \in i .. i + (h + r) - 1 PROVE v[k] = IF k < i + (p + q) THEN 0 ELSE 1
  <2>1. CASE k < i + h
    <3>1. k \in i .. i + h - 1
      BY <2>1
    <3>2. v[k] = IF k < i + p THEN 0 ELSE 1
      BY <3>1 DEF Zeros
    <3> QED
      BY <1>1, <2>1, <3>2
  <2>2. CASE ~(k < i + h)
    <3>1. k \in i + h .. i + h + r - 1
      BY <2>2
    <3>2. v[k] = IF k < i + h + q THEN 0 ELSE 1
      BY <3>1 DEF Zeros
    <3> QED
      BY <1>1, <2>2, <3>2
  <2> QED
    BY <2>1, <2>2
<1>3. p + q \in 0 .. h + r
  BY <1>1
<1> QED
  BY <1>2, <1>3 DEF Zeros

LEMMA ZerosKept ==
  ASSUME NEW v, NEW w, NEW i, NEW x, NEW p, Zeros(v, i, x, p),
         \A k \in i .. i + x - 1 : w[k] = v[k]
  PROVE  Zeros(w, i, x, p)
BY DEF Zeros

(* The numbers of zeros in the parts of two ranges, before and after each of the three
   networks that Pbracket puts together. *)
LEMMA ZeroCounts ==
  ASSUME NEW h \in Nat, NEW r \in Nat, NEW o \in Nat, NEW s \in Nat, h <= o, s <= r, o >= 1,
         NEW p1 \in 0 .. h, NEW p2 \in 0 .. r, NEW q1 \in 0 .. o, NEW q2 \in 0 .. s,
         p1 < h => p2 = 0, q1 < o => q2 = 0,
         NEW a1 \in 0 .. h, NEW b1 \in 0 .. o, a1 + b1 = p1 + q1, a1 < h => b1 = 0,
         NEW a2 \in 0 .. r, NEW b2 \in 0 .. s, a2 + b2 = p2 + q2, a2 < r => b2 = 0,
         NEW c \in 0 .. r, NEW d \in 0 .. o, c + d = a2 + b1, c < r => d = 0
  PROVE  /\ a1 < h => c = 0
         /\ d < o => b2 = 0
         /\ (a1 + c) + (d + b2) = (p1 + p2) + (q1 + q2)
         /\ a1 + c < h + r => d + b2 = 0
OBVIOUS

-----------------------------------------------------------------------------
(* A network for two ranges with the zeros in front leaves the zeros in front, and those of
   the first range come first. *)
ZerosMerged(v, w, i, x, j, y, p, q) ==
  \E c \in Nat, d \in Nat :
    Zeros(w, i, x, c) /\ Zeros(w, j, y, d) /\ c + d = p + q /\ (c < x => d = 0)

Merges(N, i, x, j, y) ==
  i + x <= j /\ j + y <= N =>
    \A v, w \in Bits(N), p, q \in Nat :
      Zeros(v, i, x, p) /\ Zeros(v, j, y, q) /\ Goes(N, Network!Pbracket[<<i, x, j, y>>], v, w)
      => /\ ZerosMerged(v, w, i, x, j, y, p, q)
         /\ \A k \in 0 .. N - 1 : k \notin Span(i, x) /\ k \notin Span(j, y) => w[k] = v[k]

LEMMA ZerosFew ==
  ASSUME NEW v, NEW i \in Nat, NEW p
  PROVE  /\ Zeros(v, i, 1, p) <=> p \in 0 .. 1 /\ v[i] = IF p = 0 THEN 1 ELSE 0
         /\ Zeros(v, i, 2, p) <=>
              /\ p \in 0 .. 2 /\ v[i] = (IF p = 0 THEN 1 ELSE 0)
              /\ v[i + 1] = IF p = 2 THEN 0 ELSE 1
<1>1. i .. i + 1 - 1 = {i} /\ i .. i + 2 - 1 = {i, i + 1}
  OBVIOUS
<1>2. ASSUME p \in 0 .. 1
      PROVE  (\A k \in {i} : v[k] = IF k < i + p THEN 0 ELSE 1) <=> v[i] = IF p = 0 THEN 1 ELSE 0
  BY <1>2
<1>3. ASSUME p \in 0 .. 2
      PROVE  (\A k \in {i, i + 1} : v[k] = IF k < i + p THEN 0 ELSE 1) <=>
                v[i] = (IF p = 0 THEN 1 ELSE 0) /\ v[i + 1] = (IF p = 2 THEN 0 ELSE 1)
  BY <1>3
<1> QED
  BY <1>1, <1>2, <1>3 DEF Zeros

LEMMA MergesOnes ==
  ASSUME NEW N \in Nat, NEW i \in Nat, NEW j \in Nat
  PROVE  Merges(N, i, 1, j, 1)
<1> SUFFICES ASSUME i + 1 <= j, j + 1 <= N, NEW v \in Bits(N), NEW w \in Bits(N),
                    NEW p \in Nat, NEW q \in Nat, Zeros(v, i, 1, p), Zeros(v, j, 1, q),
                    Goes(N, << <<i, j>> >>, v, w)
             PROVE  /\ ZerosMerged(v, w, i, 1, j, 1, p, q)
                    /\ \A k \in 0 .. N - 1 : k \notin Span(i, 1) /\ k \notin Span(j, 1) => w[k] = v[k]
  BY BracketEnds DEF Merges
<1>1. i \in 0 .. N - 1 /\ j \in 0 .. N - 1 /\ i # j
  OBVIOUS
<1>2. /\ w[i] = IF v[i] = 1 /\ v[j] = 0 THEN 0 ELSE v[i]
      /\ w[j] = IF v[i] = 1 /\ v[j] = 0 THEN 1 ELSE v[j]
      /\ \A k \in 0 .. N - 1 : k # i /\ k # j => w[k] = v[k]
  BY <1>1, GoesOnce
<1>3. /\ p \in 0 .. 1 /\ v[i] = IF p = 0 THEN 1 ELSE 0
      /\ q \in 0 .. 1 /\ v[j] = IF q = 0 THEN 1 ELSE 0
  BY ZerosFew
<1>4. \E c \in 0 .. 1, d \in 0 .. 1 :
        /\ w[i] = (IF c = 0 THEN 1 ELSE 0) /\ w[j] = (IF d = 0 THEN 1 ELSE 0)
        /\ c + d = p + q /\ (c < 1 => d = 0)
  <2>1. CASE p = 0 /\ q = 1
    BY <1>2, <1>3, <2>1
  <2>2. CASE ~(p = 0 /\ q = 1)
    BY <1>2, <1>3, <2>2
  <2> QED
    BY <2>1, <2>2
<1>5. ZerosMerged(v, w, i, 1, j, 1, p, q)
  BY <1>4, ZerosFew DEF ZerosMerged
<1>6. i \in Span(i, 1) /\ j \in Span(j, 1)
  BY DEF Span
<1> QED
  BY <1>2, <1>5, <1>6

LEMMA MergesOneTwo ==
  ASSUME NEW N \in Nat, NEW i \in Nat, NEW j \in Nat
  PROVE  Merges(N, i, 1, j, 2)
<1> SUFFICES ASSUME i + 1 <= j, j + 2 <= N, NEW v \in Bits(N), NEW w \in Bits(N),
                    NEW p \in Nat, NEW q \in Nat, Zeros(v, i, 1, p), Zeros(v, j, 2, q),
                    Goes(N, << <<i, j + 1>> >> \o << <<i, j>> >>, v, w)
             PROVE  /\ ZerosMerged(v, w, i, 1, j, 2, p, q)
                    /\ \A k \in 0 .. N - 1 : k \notin Span(i, 1) /\ k \notin Span(j, 2) => w[k] = v[k]
  BY BracketEnds DEF Merges
<1>1. i \in 0 .. N - 1 /\ j \in 0 .. N - 1 /\ j + 1 \in 0 .. N - 1 /\ i # j /\ i # j + 1 /\ j # j + 1
  OBVIOUS
<1>2. PICK u \in Bits(N) : Goes(N, << <<i, j + 1>> >>, v, u) /\ Goes(N, << <<i, j>> >>, u, w)
  <2>1. << <<i, j + 1>> >> \in Seq(Nat \X Nat) /\ << <<i, j>> >> \in Seq(Nat \X Nat)
    OBVIOUS
  <2> QED
    BY <2>1, GoesSplit
<1>3. /\ u[i] = IF v[i] = 1 /\ v[j + 1] = 0 THEN 0 ELSE v[i]
      /\ u[j + 1] = IF v[i] = 1 /\ v[j + 1] = 0 THEN 1 ELSE v[j + 1]
      /\ \A k \in 0 .. N - 1 : k # i /\ k # j + 1 => u[k] = v[k]
  BY <1>1, <1>2, GoesOnce
<1>4. /\ w[i] = IF u[i] = 1 /\ u[j] = 0 THEN 0 ELSE u[i]
      /\ w[j] = IF u[i] = 1 /\ u[j] = 0 THEN 1 ELSE u[j]
      /\ \A k \in 0 .. N - 1 : k # i /\ k # j => w[k] = u[k]
  BY <1>1, <1>2, GoesOnce
<1>5. u[j] = v[j] /\ w[j + 1] = u[j + 1]
  BY <1>1, <1>3, <1>4
<1>6. /\ p \in 0 .. 1 /\ v[i] = IF p = 0 THEN 1 ELSE 0
      /\ q \in 0 .. 2 /\ v[j] = (IF q = 0 THEN 1 ELSE 0) /\ v[j + 1] = IF q = 2 THEN 0 ELSE 1
  BY ZerosFew
<1>7. \E c \in 0 .. 1, d \in 0 .. 2 :
        /\ w[i] = (IF c = 0 THEN 1 ELSE 0)
        /\ w[j] = (IF d = 0 THEN 1 ELSE 0) /\ w[j + 1] = (IF d = 2 THEN 0 ELSE 1)
        /\ c + d = p + q /\ (c < 1 => d = 0)
  <2>1. CASE p = 1
    BY <1>3, <1>4, <1>5, <1>6, <2>1
  <2>2. CASE p = 0 /\ q = 0
    BY <1>3, <1>4, <1>5, <1>6, <2>2
  <2>3. CASE p = 0 /\ q = 1
    BY <1>3, <1>4, <1>5, <1>6, <2>3
  <2>4. CASE p = 0 /\ q = 2
    BY <1>3, <1>4, <1>5, <1>6, <2>4
  <2> QED
    BY <1>6, <2>1, <2>2, <2>3, <2>4
<1>8. ZerosMerged(v, w, i, 1, j, 2, p, q)
  BY <1>7, ZerosFew DEF ZerosMerged
<1>9. i \in Span(i, 1) /\ j \in Span(j, 2) /\ j + 1 \in Span(j, 2)
  BY DEF Span
<1> QED
  BY <1>3, <1>4, <1>8, <1>9

LEMMA MergesTwoOne ==
  ASSUME NEW N \in Nat, NEW i \in Nat, NEW j \in Nat
  PROVE  Merges(N, i, 2, j, 1)
<1> SUFFICES ASSUME i + 2 <= j, j + 1 <= N, NEW v \in Bits(N), NEW w \in Bits(N),
                    NEW p \in Nat, NEW q \in Nat, Zeros(v, i, 2, p), Zeros(v, j, 1, q),
                    Goes(N, << <<i, j>> >> \o << <<i + 1, j>> >>, v, w)
             PROVE  /\ ZerosMerged(v, w, i, 2, j, 1, p, q)
                    /\ \A k \in 0 .. N - 1 : k \notin Span(i, 2) /\ k \notin Span(j, 1) => w[k] = v[k]
  BY BracketEnds DEF Merges
<1>1. i \in 0 .. N - 1 /\ j \in 0 .. N - 1 /\ i + 1 \in 0 .. N - 1 /\ i # j /\ j # i + 1 /\ i # i + 1
  OBVIOUS
<1>2. PICK u \in Bits(N) : Goes(N, << <<i, j>> >>, v, u) /\ Goes(N, << <<i + 1, j>> >>, u, w)
  <2>1. << <<i, j>> >> \in Seq(Nat \X Nat) /\ << <<i + 1, j>> >> \in Seq(Nat \X Nat)
    OBVIOUS
  <2> QED
    BY <2>1, GoesSplit
<1>3. /\ u[i] = IF v[i] = 1 /\ v[j] = 0 THEN 0 ELSE v[i]
      /\ u[j] = IF v[i] = 1 /\ v[j] = 0 THEN 1 ELSE v[j]
      /\ \A k \in 0 .. N - 1 : k # i /\ k # j => u[k] = v[k]
  BY <1>1, <1>2, GoesOnce
<1>4. /\ w[i + 1] = IF u[i + 1] = 1 /\ u[j] = 0 THEN 0 ELSE u[i + 1]
      /\ w[j] = IF u[i + 1] = 1 /\ u[j] = 0 THEN 1 ELSE u[j]
      /\ \A k \in 0 .. N - 1 : k # i + 1 /\ k # j => w[k] = u[k]
  BY <1>1, <1>2, GoesOnce
<1>5. u[i + 1] = v[i + 1] /\ w[i] = u[i]
  BY <1>1, <1>3, <1>4
<1>6. /\ q \in 0 .. 1 /\ v[j] = IF q = 0 THEN 1 ELSE 0
      /\ p \in 0 .. 2 /\ v[i] = (IF p = 0 THEN 1 ELSE 0) /\ v[i + 1] = IF p = 2 THEN 0 ELSE 1
  BY ZerosFew
<1>7. \E c \in 0 .. 2, d \in 0 .. 1 :
        /\ w[i] = (IF c = 0 THEN 1 ELSE 0) /\ w[i + 1] = (IF c = 2 THEN 0 ELSE 1)
        /\ w[j] = (IF d = 0 THEN 1 ELSE 0)
        /\ c + d = p + q /\ (c < 2 => d = 0)
  <2>1. CASE q = 0
    BY <1>3, <1>4, <1>5, <1>6, <2>1
  <2>2. CASE q = 1 /\ p = 0
    BY <1>3, <1>4, <1>5, <1>6, <2>2
  <2>3. CASE q = 1 /\ p = 1
    BY <1>3, <1>4, <1>5, <1>6, <2>3
  <2>4. CASE q = 1 /\ p = 2
    BY <1>3, <1>4, <1>5, <1>6, <2>4
  <2> QED
    BY <1>6, <2>1, <2>2, <2>3, <2>4
<1>8. ZerosMerged(v, w, i, 2, j, 1, p, q)
  BY <1>7, ZerosFew DEF ZerosMerged
<1>9. i \in Span(i, 2) /\ i + 1 \in Span(i, 2) /\ j \in Span(j, 1)
  BY DEF Span
<1> QED
  BY <1>3, <1>4, <1>8, <1>9

LEMMA MergesParts ==
  ASSUME NEW N \in Nat, NEW i \in Nat, NEW x \in Nat, NEW j \in Nat, NEW y \in Nat,
         NEW h \in Nat, NEW o \in Nat, Divides(i, x, j, y, h, o),
         Merges(N, i, h, j, o), Merges(N, i + h, x - h, j + o, y - o), Merges(N, i + h, x - h, j, o)
  PROVE  Merges(N, i, x, j, y)
<1> SUFFICES ASSUME i + x <= j, j + y <= N, NEW v \in Bits(N), NEW w \in Bits(N),
                    NEW p \in Nat, NEW q \in Nat, Zeros(v, i, x, p), Zeros(v, j, y, q),
                    Goes(N, Network!Pbracket[<<i, x, j, y>>], v, w)
             PROVE  /\ ZerosMerged(v, w, i, x, j, y, p, q)
                    /\ \A k \in 0 .. N - 1 : k \notin Span(i, x) /\ k \notin Span(j, y) => w[k] = v[k]
  BY DEF Merges
<1>1. PICK r \in Nat, s \in Nat :
        /\ r = x - h /\ s = y - o /\ h <= o /\ s <= r /\ o >= 1 /\ h < x /\ o < y
        /\ Balanced(h, o) /\ Balanced(r, s) /\ Balanced(r, o)
  <2>1. /\ Balanced(h, o) /\ Balanced(x - h, y - o) /\ Balanced(x - h, o)
        /\ h < x /\ o < y /\ h <= o /\ y - o <= x - h
    BY Zenon DEF Divides
  <2>2. o >= 1
    BY <2>1 DEF Balanced
  <2>3. x - h \in Nat /\ y - o \in Nat
    BY <2>1
  <2> QED
    BY <2>1, <2>2, <2>3
<1>2. x = h + r /\ y = o + s /\ i + h \in Nat /\ j + o \in Nat
  BY <1>1
<1>3. PICK u1 \in Bits(N), u2 \in Bits(N) :
        /\ Goes(N, Network!Pbracket[<<i, h, j, o>>], v, u1)
        /\ Goes(N, Network!Pbracket[<<i + h, r, j + o, s>>], u1, u2)
        /\ Goes(N, Network!Pbracket[<<i + h, r, j, o>>], u2, w)
  <2>1. PICK s1 \in Pairs, s2 \in Pairs, s3 \in Pairs :
          /\ s1 = Network!Pbracket[<<i, h, j, o>>]
          /\ s2 = Network!Pbracket[<<i + h, r, j + o, s>>]
          /\ s3 = Network!Pbracket[<<i + h, r, j, o>>]
    <3>1. ASSUME NEW a \in Nat, NEW b \in Nat, NEW c \in Nat, NEW d \in Nat, Balanced(b, d)
          PROVE  Network!Pbracket[<<a, b, c, d>>] \in Pairs
      <4> DEFINE T == Span(a, b) \cup Span(c, d)
      <4>1. Network!Pbracket[<<a, b, c, d>>] \in Seq(T \X T)
        BY <3>1, BracketFits
      <4>2. T \subseteq Nat
        BY DEF Span
      <4> HIDE DEF T
      <4> QED
        BY <4>1, <4>2, SeqMonotone DEF Pairs
    <3> QED
      BY <1>1, <1>2, <3>1
  <2>2. Goes(N, (s1 \o s2) \o s3, v, w)
    BY <1>1, <2>1 DEF Divides
  <2>3. s1 \o s2 \in Pairs
    BY DEF Pairs
  <2>4. PICK u2 \in Bits(N) : Goes(N, s1 \o s2, v, u2) /\ Goes(N, s3, u2, w)
    BY <2>2, <2>3, GoesSplit DEF Pairs
  <2>5. PICK u1 \in Bits(N) : Goes(N, s1, v, u1) /\ Goes(N, s2, u1, u2)
    BY <2>4, GoesSplit DEF Pairs
  <2> QED
    BY <2>1, <2>4, <2>5
<1>4. PICK p1 \in Nat, p2 \in Nat : ZerosOfParts(v, i, h, r, p, p1, p2)
  BY <1>2, ZerosSplit, Zenon
<1>5. PICK q1 \in Nat, q2 \in Nat : ZerosOfParts(v, j, o, s, q, q1, q2)
  BY <1>2, ZerosSplit, Zenon
<1>6. /\ Zeros(v, i, h, p1) /\ Zeros(v, i + h, r, p2) /\ p1 + p2 = p /\ (p1 < h => p2 = 0)
      /\ Zeros(v, j, o, q1) /\ Zeros(v, j + o, s, q2) /\ q1 + q2 = q /\ (q1 < o => q2 = 0)
  BY <1>4, <1>5 DEF ZerosOfParts
(* The parts are apart from each other. *)
<1>7. /\ i + h <= j /\ j + o <= N /\ i + h + r <= j + o /\ j + o + s <= N /\ i + h + r <= j
      /\ \A k \in Span(i, h) : /\ k \in 0 .. N - 1 /\ k \notin Span(i + h, r)
                               /\ k \notin Span(j + o, s) /\ k \notin Span(j, o)
      /\ \A k \in Span(i + h, r) : /\ k \in 0 .. N - 1 /\ k \notin Span(i, h)
                                   /\ k \notin Span(j + o, s) /\ k \notin Span(j, o)
      /\ \A k \in Span(j, o) : /\ k \in 0 .. N - 1 /\ k \notin Span(i, h)
                               /\ k \notin Span(i + h, r) /\ k \notin Span(j + o, s)
      /\ \A k \in Span(j + o, s) : /\ k \in 0 .. N - 1 /\ k \notin Span(i, h)
                                   /\ k \notin Span(i + h, r) /\ k \notin Span(j, o)
  BY <1>1, <1>2 DEF Span
<1>8. ZerosMerged(v, u1, i, h, j, o, p1, q1) /\
      \A k \in 0 .. N - 1 : k \notin Span(i, h) /\ k \notin Span(j, o) => u1[k] = v[k]
  BY <1>3, <1>6, <1>7 DEF Merges
<1>9. PICK a1 \in Nat, b1 \in Nat :
        Zeros(u1, i, h, a1) /\ Zeros(u1, j, o, b1) /\ a1 + b1 = p1 + q1 /\ (a1 < h => b1 = 0)
  BY <1>8 DEF ZerosMerged
<1>10. Zeros(u1, i + h, r, p2) /\ Zeros(u1, j + o, s, q2)
  BY <1>6, <1>7, <1>8, ZerosKept DEF Span
<1>11. ZerosMerged(u1, u2, i + h, r, j + o, s, p2, q2) /\
       \A k \in 0 .. N - 1 : k \notin Span(i + h, r) /\ k \notin Span(j + o, s) => u2[k] = u1[k]
  BY <1>1, <1>3, <1>7, <1>10 DEF Merges
<1>12. PICK a2 \in Nat, b2 \in Nat :
        Zeros(u2, i + h, r, a2) /\ Zeros(u2, j + o, s, b2) /\ a2 + b2 = p2 + q2 /\ (a2 < r => b2 = 0)
  BY <1>11 DEF ZerosMerged
<1>13. Zeros(u2, i, h, a1) /\ Zeros(u2, j, o, b1)
  BY <1>7, <1>9, <1>11, ZerosKept DEF Span
<1>14. ZerosMerged(u2, w, i + h, r, j, o, a2, b1) /\
       \A k \in 0 .. N - 1 : k \notin Span(i + h, r) /\ k \notin Span(j, o) => w[k] = u2[k]
  BY <1>1, <1>3, <1>7, <1>12, <1>13 DEF Merges
<1>15. PICK c \in Nat, d \in Nat :
        Zeros(w, i + h, r, c) /\ Zeros(w, j, o, d) /\ c + d = a2 + b1 /\ (c < r => d = 0)
  BY <1>14 DEF ZerosMerged
<1>16. Zeros(w, i, h, a1) /\ Zeros(w, j + o, s, b2)
  BY <1>7, <1>12, <1>13, <1>14, ZerosKept DEF Span
<1>17. /\ p1 \in 0 .. h /\ p2 \in 0 .. r /\ q1 \in 0 .. o /\ q2 \in 0 .. s
       /\ a1 \in 0 .. h /\ b1 \in 0 .. o /\ a2 \in 0 .. r /\ b2 \in 0 .. s
       /\ c \in 0 .. r /\ d \in 0 .. o
  BY <1>6, <1>9, <1>12, <1>15 DEF Zeros
<1>18. /\ a1 < h => c = 0
       /\ d < o => b2 = 0
       /\ (a1 + c) + (d + b2) = (p1 + p2) + (q1 + q2)
       /\ a1 + c < h + r => d + b2 = 0
  <2> HIDE <1>2, <1>3, <1>7, <1>8, <1>10, <1>11, <1>13, <1>14, <1>16
  <2> QED
    BY <1>1, <1>6, <1>9, <1>12, <1>15, <1>17, ZeroCounts
<1>19. Zeros(w, i, h + r, a1 + c)
  BY <1>2, <1>15, <1>16, <1>18, ZerosJoin
<1>20. Zeros(w, j, o + s, d + b2)
  BY <1>2, <1>15, <1>16, <1>18, ZerosJoin
<1>21. ZerosMerged(v, w, i, x, j, y, p, q)
  BY <1>2, <1>6, <1>18, <1>19, <1>20 DEF ZerosMerged
<1>22. \A k \in 0 .. N - 1 : k \notin Span(i, x) /\ k \notin Span(j, y) => w[k] = v[k]
  <2>1. /\ Span(i, h) \subseteq Span(i, x) /\ Span(i + h, r) \subseteq Span(i, x)
        /\ Span(j, o) \subseteq Span(j, y) /\ Span(j + o, s) \subseteq Span(j, y)
    BY <1>1, <1>2 DEF Span
  <2> QED
    BY <1>8, <1>11, <1>14, <2>1
<1> QED
  BY <1>21, <1>22

LEMMA BracketMerges ==
  ASSUME NEW N \in Nat, NEW i \in Nat, NEW x \in Nat, NEW j \in Nat, NEW y \in Nat, Balanced(x, y)
  PROVE  Merges(N, i, x, j, y)
<1> DEFINE S == {a \in BracketArgs : Merges(N, a[1], a[2], a[3], a[4])}
<1>1. \A a, b, c, d : <<a, b, c, d>> \in S <=>
        a \in Nat /\ b \in Nat /\ c \in Nat /\ d \in Nat /\ Merges(N, a, b, c, d)
  BY DEF BracketArgs
<1> HIDE DEF S
<1>2. \A a, b \in Nat : <<a, 1, b, 1>> \in S /\ <<a, 1, b, 2>> \in S /\ <<a, 2, b, 1>> \in S
  BY <1>1, MergesOnes, MergesOneTwo, MergesTwoOne
<1>3. \A a, b, c, d, h, o \in Nat :
        /\ Divides(a, b, c, d, h, o) /\ <<a, h, c, o>> \in S
        /\ <<a + h, b - h, c + o, d - o>> \in S /\ <<a + h, b - h, c, o>> \in S
        => <<a, b, c, d>> \in S
  <2> TAKE a, b, c, d, h, o \in Nat
  <2> HAVE /\ Divides(a, b, c, d, h, o) /\ <<a, h, c, o>> \in S
           /\ <<a + h, b - h, c + o, d - o>> \in S /\ <<a + h, b - h, c, o>> \in S
  <2>1. Merges(N, a, h, c, o) /\ Merges(N, a + h, b - h, c + o, d - o) /\ Merges(N, a + h, b - h, c, o)
    BY <1>1
  <2>2. Merges(N, a, b, c, d)
    BY <2>1, MergesParts
  <2> QED
    BY <1>1, <2>2
<1>4. \A a, b, c, d \in Nat : Balanced(b, d) => <<a, b, c, d>> \in S
  BY <1>2, <1>3, BracketInduction, Zenon
<1> QED
  BY <1>1, <1>4

-----------------------------------------------------------------------------
(* A network for one range puts its zeros in front. *)
ZerosFirst(w, i, m) == \E p \in Nat : Zeros(w, i, m, p)

Orders(N, i, m) ==
  i + m <= N =>
    \A v, w \in Bits(N) :
      Goes(N, Network!Pstar[<<i, m>>], v, w)
      => /\ ZerosFirst(w, i, m)
         /\ \A k \in 0 .. N - 1 : k \notin Span(i, m) => w[k] = v[k]

LEMMA OrdersFew ==
  ASSUME NEW N \in Nat, NEW i \in Nat
  PROVE  Orders(N, i, 0) /\ Orders(N, i, 1)
<1>1. Network!Pstar[<<i, 0>>] = <<>> /\ Network!Pstar[<<i, 1>>] = <<>>
  <2>1. /\ Network!Pstar[<<i, 0>>] = StarOf(Network!Pstar, i, 0)
        /\ Network!Pstar[<<i, 1>>] = StarOf(Network!Pstar, i, 1)
    BY StarEquation
  <2> QED
    BY <2>1 DEF StarOf
<1>2. Orders(N, i, 0)
  <2> SUFFICES ASSUME i + 0 <= N, NEW v \in Bits(N), NEW w \in Bits(N), Goes(N, <<>>, v, w)
               PROVE  /\ ZerosFirst(w, i, 0)
                      /\ \A k \in 0 .. N - 1 : k \notin Span(i, 0) => w[k] = v[k]
    BY <1>1 DEF Orders
  <2>1. w = v
    BY GoesNowhere
  <2>2. Zeros(w, i, 0, 0)
    BY DEF Zeros
  <2> QED
    BY <2>1, <2>2 DEF ZerosFirst
<1>3. Orders(N, i, 1)
  <2> SUFFICES ASSUME i + 1 <= N, NEW v \in Bits(N), NEW w \in Bits(N), Goes(N, <<>>, v, w)
               PROVE  /\ ZerosFirst(w, i, 1)
                      /\ \A k \in 0 .. N - 1 : k \notin Span(i, 1) => w[k] = v[k]
    BY <1>1 DEF Orders
  <2>1. w = v
    BY GoesNowhere
  <2>2. i \in 0 .. N - 1
    OBVIOUS
  <2>3. w[i] \in {0, 1}
    BY <2>2 DEF Bits
  <2>4. CASE w[i] = 0
    <3>1. Zeros(w, i, 1, 1)
      BY <2>4, ZerosFew
    <3> QED
      BY <2>1, <3>1 DEF ZerosFirst
  <2>5. CASE w[i] = 1
    <3>1. Zeros(w, i, 1, 0)
      BY <2>5, ZerosFew
    <3> QED
      BY <2>1, <3>1 DEF ZerosFirst
  <2> QED
    BY <2>3, <2>4, <2>5
<1> QED
  BY <1>2, <1>3

LEMMA OrdersParts ==
  ASSUME NEW N \in Nat, NEW i \in Nat, NEW m \in Nat, NEW h \in Nat, StarDivides(i, m, h),
         Orders(N, i, h), Orders(N, i + h, m - h)
  PROVE  Orders(N, i, m)
<1> SUFFICES ASSUME i + m <= N, NEW v \in Bits(N), NEW w \in Bits(N),
                    Goes(N, Network!Pstar[<<i, m>>], v, w)
             PROVE  /\ ZerosFirst(w, i, m)
                    /\ \A k \in 0 .. N - 1 : k \notin Span(i, m) => w[k] = v[k]
  BY DEF Orders
<1>1. PICK r \in Nat, j \in Nat : r = m - h /\ j = i + h /\ Balanced(h, r)
  BY DEF StarDivides
<1>2. m = h + r /\ i + h <= j /\ j + r <= N /\ i + h <= N
  BY <1>1
<1>3. PICK u1 \in Bits(N), u2 \in Bits(N) :
        /\ Goes(N, Network!Pstar[<<i, h>>], v, u1)
        /\ Goes(N, Network!Pstar[<<j, r>>], u1, u2)
        /\ Goes(N, Network!Pbracket[<<i, h, j, r>>], u2, w)
  <2>1. ASSUME NEW a \in Nat, NEW b \in Nat PROVE Network!Pstar[<<a, b>>] \in Pairs
    <3>1. Network!Pstar[<<a, b>>] \in Seq(Span(a, b) \X Span(a, b))
      BY StarFits
    <3>2. Span(a, b) \subseteq Nat
      BY DEF Span
    <3> QED
      BY <3>1, <3>2, SeqMonotone DEF Pairs
  <2>2. PICK s1 \in Pairs, s2 \in Pairs :
          s1 = Network!Pstar[<<i, h>>] /\ s2 = Network!Pstar[<<j, r>>]
    BY <2>1
  <2>3. PICK s3 \in Pairs : s3 = Network!Pbracket[<<i, h, j, r>>]
    <3>1. PICK U : U = Span(i, h) \cup Span(j, r)
      OBVIOUS
    <3>2. Network!Pbracket[<<i, h, j, r>>] \in Seq(U \X U)
      BY <1>1, <3>1, BracketFits
    <3>3. U \subseteq Nat
      BY <3>1 DEF Span
    <3>4. Network!Pbracket[<<i, h, j, r>>] \in Seq(Nat \X Nat)
      BY <3>2, <3>3, SeqMonotone
    <3> QED
      BY <3>4 DEF Pairs
  <2>4. Goes(N, (s1 \o s2) \o s3, v, w)
    BY <1>1, <2>2, <2>3 DEF StarDivides
  <2>5. s1 \o s2 \in Pairs
    BY DEF Pairs
  <2>6. PICK u2 \in Bits(N) : Goes(N, s1 \o s2, v, u2) /\ Goes(N, s3, u2, w)
    BY <2>4, <2>5, GoesSplit DEF Pairs
  <2>7. PICK u1 \in Bits(N) : Goes(N, s1, v, u1) /\ Goes(N, s2, u1, u2)
    BY <2>6, GoesSplit DEF Pairs
  <2> QED
    BY <2>2, <2>3, <2>6, <2>7
(* The halves are apart from each other. *)
<1>4. /\ \A k \in Span(i, h) : k \in 0 .. N - 1 /\ k \notin Span(j, r)
      /\ Span(i, h) \subseteq Span(i, m) /\ Span(j, r) \subseteq Span(i, m)
  BY <1>1, <1>2 DEF Span
<1>5. ZerosFirst(u1, i, h) /\ \A k \in 0 .. N - 1 : k \notin Span(i, h) => u1[k] = v[k]
  BY <1>2, <1>3 DEF Orders
<1>6. ZerosFirst(u2, j, r) /\ \A k \in 0 .. N - 1 : k \notin Span(j, r) => u2[k] = u1[k]
  <2>1. Orders(N, j, r)
    BY <1>1
  <2> QED
    BY <1>2, <1>3, <2>1 DEF Orders
<1>7. PICK p \in Nat, q \in Nat : Zeros(u1, i, h, p) /\ Zeros(u2, j, r, q)
  BY <1>5, <1>6 DEF ZerosFirst
<1>8. Zeros(u2, i, h, p)
  BY <1>4, <1>6, <1>7, ZerosKept DEF Span
<1>9. /\ ZerosMerged(u2, w, i, h, j, r, p, q)
      /\ \A k \in 0 .. N - 1 : k \notin Span(i, h) /\ k \notin Span(j, r) => w[k] = u2[k]
  <2>1. Merges(N, i, h, j, r)
    BY <1>1, BracketMerges
  <2> QED
    BY <1>2, <1>3, <1>7, <1>8, <2>1 DEF Merges
<1>10. PICK c \in Nat, d \in Nat : Zeros(w, i, h, c) /\ Zeros(w, j, r, d) /\ (c < h => d = 0)
  BY <1>9 DEF ZerosMerged
<1>11. Zeros(w, i, h + r, c + d)
  BY <1>1, <1>10, ZerosJoin
<1>12. ZerosFirst(w, i, m)
  BY <1>2, <1>11 DEF ZerosFirst
<1> QED
  BY <1>4, <1>5, <1>6, <1>9, <1>12

LEMMA StarOrders ==
  ASSUME NEW N \in Nat
  PROVE  \A i, m \in Nat : Orders(N, i, m)
<1> DEFINE S == {a \in Nat \X Nat : Orders(N, a[1], a[2])}
<1>1. \A i, m : <<i, m>> \in S <=> i \in Nat /\ m \in Nat /\ Orders(N, i, m)
  OBVIOUS
<1> HIDE DEF S
<1>2. \A i \in Nat : <<i, 0>> \in S /\ <<i, 1>> \in S
  BY <1>1, OrdersFew
<1>3. \A i, m, h \in Nat :
        StarDivides(i, m, h) /\ <<i, h>> \in S /\ <<i + h, m - h>> \in S => <<i, m>> \in S
  <2> TAKE i, m, h \in Nat
  <2> HAVE StarDivides(i, m, h) /\ <<i, h>> \in S /\ <<i + h, m - h>> \in S
  <2>1. Orders(N, i, h) /\ Orders(N, i + h, m - h)
    BY <1>1
  <2>2. Orders(N, i, m)
    BY <2>1, OrdersParts
  <2> QED
    BY <1>1, <2>2
<1>4. \A i, m \in Nat : <<i, m>> \in S
  BY <1>2, <1>3, StarInduction, Zenon
<1> QED
  BY <1>1, <1>4

(* The networks of all sizes sort zeros and ones. *)
THEOREM NetworksAlwaysOrder == NetworksOrder(Nat)
<1> SUFFICES ASSUME NEW n \in Nat, NEW t \in NetworkRuns(n, {0, 1}, Len(Network!Swaps(n))),
                    NEW a \in 0 .. n - 1, NEW b \in 0 .. n - 1, a < b
             PROVE  t[Len(Network!Swaps(n))][a] <= t[Len(Network!Swaps(n))][b]
  BY DEF NetworksOrder
<1>1. PICK s \in Pairs : s = Network!Swaps(n)
  <2>1. Network!Swaps(n) \in Seq((0 .. n - 1) \X (0 .. n - 1))
    BY NetworksAlwaysFit DEF NetworksFit
  <2>2. 0 .. n - 1 \subseteq Nat
    OBVIOUS
  <2> QED
    BY <2>1, <2>2, SeqMonotone DEF Pairs
<1>2. PICK o \in Nat : o = Len(s)
  BY DEF Pairs
<1>3. t \in [0 .. o -> Bits(n)] /\ \A k \in 1 .. o : t[k] = Swapped(t[k - 1], s[k])
  BY <1>1, <1>2 DEF NetworkRuns, Bits
<1>4. t[0] \in Bits(n) /\ t[o] \in Bits(n)
  BY <1>3
<1>5. Goes(n, s, t[0], t[o])
  BY <1>2, <1>3 DEF Goes
<1>6. s = Network!Pstar[<<0, n>>]
  BY <1>1 DEF Network!Swaps
<1>7. ZerosFirst(t[o], 0, n)
  <2>1. Orders(n, 0, n)
    BY StarOrders
  <2> QED
    BY <1>4, <1>5, <1>6, <2>1 DEF Orders
<1>8. PICK p \in Nat : Zeros(t[o], 0, n, p)
  BY <1>7 DEF ZerosFirst
<1>9. t[o][a] = (IF a < p THEN 0 ELSE 1) /\ t[o][b] = (IF b < p THEN 0 ELSE 1)
  BY <1>8 DEF Zeros
<1>10. t[o][a] <= t[o][b]
  BY <1>8, <1>9
<1> QED
  BY <1>1, <1>2, <1>10

=============================================================================
