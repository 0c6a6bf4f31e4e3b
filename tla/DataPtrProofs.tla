--------------------------- MODULE DataPtrProofs ----------------------------
(***************************************************************************)
(* Theorems about data_ptr, for any number of variables, objects, kinds of *)
(* deleters and values, with copies that throw and deleters that are mixed.*)
(***************************************************************************)
EXTENDS DataPtr, TLAPS

Heaps == UNION {[S -> [value : Values, kind : Kinds]] : S \in SUBSET Objects}

(* OneOwner in three parts: what is pointed to exists, what exists is pointed to,
   by one data_ptr only. *)
Exact ==
  \A p \in Ptrs : Exists(p) /\ ptrs[p].m_ptr \in Objects \ spoiled =>
                    ptrs[p].m_ptr \in DOMAIN objects

Owned == \A o \in DOMAIN objects : \E p \in Ptrs : Exists(p) /\ ptrs[p].m_ptr = o

Unique ==
  \A p, q \in Ptrs : Exists(p) /\ Exists(q) /\ ptrs[p].m_ptr \in Objects \ spoiled
                       /\ ptrs[p].m_ptr = ptrs[q].m_ptr => p = q

(* A data_ptr has the deleter and the copier for its object. *)
DeletersFit ==
  \A p \in Ptrs : Exists(p) =>
    /\ ptrs[p].m_copier = ptrs[p].m_deleter
    /\ ptrs[p].m_ptr \in DOMAIN objects \ spoiled =>
         objects[ptrs[p].m_ptr].kind = ptrs[p].m_deleter

(* The inductive invariant. *)
IInv == TypeOK /\ Exact /\ Owned /\ Unique /\ DeletersFit /\ OnlySpoiledHurts

(* The address that p gives up when it gets another one. *)
Gone(p) == IF Exists(p) THEN {ptrs[p].m_ptr} ELSE {}

-----------------------------------------------------------------------------
(* The heap. *)

LEMMA IsHeap ==
  ASSUME NEW heap
  PROVE  heap \in Heaps <=> /\ DOMAIN heap \subseteq Objects
                            /\ heap \in [DOMAIN heap -> [value : Values, kind : Kinds]]
  BY DEF Heaps

(* A deleter removes the object it is called with and leaves the others. *)
LEMMA Releasing ==
  ASSUME NEW heap \in Heaps, NEW o
  PROVE  /\ Release(heap, o) \in Heaps
         /\ DOMAIN Release(heap, o) = DOMAIN heap \ {o}
         /\ \A a \in DOMAIN Release(heap, o) : Release(heap, o)[a] = heap[a]
  BY IsHeap DEF Release

-----------------------------------------------------------------------------
(* Type correctness, and that objects have exactly one owner. *)

LEMMA Types ==
  TypeOK <=> /\ ptrs \in [Ptrs -> DataPtrs \cup {None}] /\ objects \in Heaps
             /\ spoiled \subseteq Objects /\ undefined \in Objects \cup {None}
  BY IsHeap DEF TypeOK

LEMMA Unlike == None \notin DataPtrs /\ None \notin Objects
  BY DataPtrAssumption

LEMMA Initially == Init => IInv
  <1> SUFFICES ASSUME Init PROVE IInv
    OBVIOUS
  <1>1. DOMAIN objects = {} /\ objects \in Heaps
    BY IsHeap DEF Init
  <1>2. ptrs = [p \in Ptrs |-> None] /\ spoiled = {} /\ undefined = None
    BY DEF Init
  <1>3. TypeOK
    BY <1>1, <1>2, Types
  <1> QED  BY <1>1, <1>2, <1>3 DEF IInv, Exact, Owned, Unique, DeletersFit, Exists, OnlySpoiledHurts

(* A data_ptr with an address that is not spoiled has an object, with the deleter
   for it. *)
LEMMA Having ==
  ASSUME IInv, NEW p \in Ptrs, Exists(p)
  PROVE  /\ ptrs[p] \in DataPtrs /\ ptrs[p].m_deleter \in Kinds /\ ptrs[p].m_copier \in Kinds
         /\ ptrs[p].m_deleter = ptrs[p].m_copier
         /\ ptrs[p].m_ptr \in Objects \cup {None}
         /\ ptrs[p].m_ptr \in DOMAIN objects =>
              ptrs[p].m_ptr \in Objects /\ objects[ptrs[p].m_ptr].value \in Values
         /\ ptrs[p].m_ptr \in Objects \ spoiled =>
              /\ ptrs[p].m_ptr \in DOMAIN objects
              /\ objects[ptrs[p].m_ptr].kind = ptrs[p].m_deleter
  <1>1. ptrs[p] \in DataPtrs
    BY DEF IInv, TypeOK, Exists
  <1>2. ptrs[p].m_ptr \in Objects \ spoiled => ptrs[p].m_ptr \in DOMAIN objects
    BY DEF IInv, Exact
  <1>3. DOMAIN objects \subseteq Objects /\ objects \in [DOMAIN objects -> [value : Values, kind : Kinds]]
    BY DEF IInv, TypeOK
  <1>4. ptrs[p].m_ptr \in DOMAIN objects => objects[ptrs[p].m_ptr].value \in Values
    BY <1>3
  <1> QED  BY <1>1, <1>2, <1>3, <1>4 DEF IInv, DeletersFit, DataPtrs

(* The value of a data_ptr says what it has. *)
LEMMA Showing ==
  ASSUME IInv, NEW p \in Ptrs
  PROVE  /\ ValuesOfPtrs[p] = ValueOf(p)
         /\ ValuesOfPtrs[p] = "unmade" <=> ~Exists(p)
         /\ ValuesOfPtrs[p] = "empty" <=> Exists(p) /\ ptrs[p].m_ptr = None
         /\ ValuesOfPtrs[p] = "broken" <=> Exists(p) /\ ptrs[p].m_ptr \in spoiled
         /\ Exists(p) /\ ptrs[p].m_ptr \in Objects \ spoiled <=> ValuesOfPtrs[p] \in Values
         /\ Exists(p) /\ ptrs[p].m_ptr \in Objects \ spoiled =>
              ValuesOfPtrs[p] = objects[ptrs[p].m_ptr].value
  <1>1. ValuesOfPtrs[p] = ValueOf(p)
    BY DEF ValuesOfPtrs
  <1>2. {"unmade", "empty", "broken"} \cap Values = {} /\ spoiled \subseteq Objects
    BY DataPtrAssumption DEF IInv, TypeOK
  <1>3. CASE ~Exists(p)
    BY <1>1, <1>2, <1>3 DEF ValueOf, Exists
  <1>4. CASE Exists(p) /\ ptrs[p].m_ptr = None
    BY <1>1, <1>2, <1>4, Unlike DEF ValueOf, Exists
  <1>5. CASE Exists(p) /\ ptrs[p].m_ptr \in spoiled
    BY <1>1, <1>2, <1>5, Unlike DEF ValueOf, Exists
  <1>6. CASE Exists(p) /\ ptrs[p].m_ptr \in Objects \ spoiled
    <2>1. objects[ptrs[p].m_ptr].value \in Values
      BY <1>6, Having
    <2>2. ValueOf(p) = objects[ptrs[p].m_ptr].value
      BY <1>6, Unlike DEF ValueOf, Exists
    <2> QED  BY <1>1, <1>2, <1>6, <2>1, <2>2, Unlike
  <1>7. Exists(p) => ptrs[p].m_ptr \in Objects \cup {None}
    BY Having
  <1> QED  BY <1>3, <1>4, <1>5, <1>6, <1>7

-----------------------------------------------------------------------------
(* p gets object o, which is new, and whatever it had is gone: the invariant
   stays, whichever deleter and copier p has now, and the value is that of o. *)
LEMMA Replacing ==
  ASSUME IInv, NEW p \in Ptrs, NEW left \in Heaps, NEW o \in Objects \ DOMAIN left,
         NEW value \in Values, NEW kind \in Kinds,
         DOMAIN left = DOMAIN objects \ Gone(p),
         \A a \in DOMAIN left : left[a] = objects[a],
         objects' = Create(left, o, value, kind),
         ptrs' = [ptrs EXCEPT ![p] = [m_ptr |-> o, m_deleter |-> kind, m_copier |-> kind]],
         Defined
  PROVE  /\ IInv'
         /\ ValuesOfPtrs' = [ValuesOfPtrs EXCEPT ![p] = IF o \in spoiled THEN "broken" ELSE value]
  <1>1. /\ objects' \in Heaps /\ DOMAIN objects' = DOMAIN left \cup {o}
        /\ objects'[o] = [value |-> value, kind |-> kind]
        /\ \A a \in DOMAIN left : objects'[a] = objects[a]
    BY IsHeap DEF Create
  <1>2. /\ ptrs \in [Ptrs -> DataPtrs \cup {None}]
        /\ [m_ptr |-> o, m_deleter |-> kind, m_copier |-> kind] \in DataPtrs
        /\ spoiled' = spoiled /\ undefined' = undefined
    BY DEF IInv, TypeOK, DataPtrs, Defined
  <1>3. ptrs' \in [Ptrs -> DataPtrs \cup {None}]
    BY <1>2
  <1>4. /\ ptrs'[p] = [m_ptr |-> o, m_deleter |-> kind, m_copier |-> kind] /\ ptrs'[p] # None
        /\ \A q \in Ptrs \ {p} : ptrs'[q] = ptrs[q]
    BY <1>2, Unlike
  <1>5. TypeOK'
    BY <1>1, <1>2, <1>3, IsHeap DEF TypeOK, IInv
  (* What another data_ptr points to is what it was, and neither o nor gone. *)
  <1>6. ASSUME NEW q \in Ptrs \ {p}, ptrs[q] # None, ptrs[q].m_ptr \in Objects \ spoiled
        PROVE  ptrs[q].m_ptr \in DOMAIN left /\ ptrs[q].m_ptr # o
    <2>1. ptrs[q].m_ptr \in DOMAIN objects
      BY <1>6 DEF IInv, Exact, Exists
    <2>2. Exists(p) => ptrs[p].m_ptr # ptrs[q].m_ptr
      BY <1>6 DEF IInv, Unique, Exists
    <2> QED  BY <2>1, <2>2 DEF Gone
  <1>7. Exact'
    BY <1>1, <1>2, <1>4, <1>6 DEF Exact, Exists
  <1>8. Owned'
    <2> SUFFICES ASSUME NEW a \in DOMAIN objects'
                 PROVE  \E q \in Ptrs : ptrs'[q] # None /\ ptrs'[q].m_ptr = a
      BY DEF Owned, Exists
    <2>1. CASE a = o
      BY <2>1, <1>4
    <2>2. CASE a \in DOMAIN left
      <3>1. PICK q \in Ptrs : ptrs[q] # None /\ ptrs[q].m_ptr = a
        BY <2>2 DEF IInv, Owned, Exists
      <3>2. q # p
        BY <2>2, <3>1 DEF Exists, Gone
      <3> QED  BY <3>1, <3>2, <1>4
    <2> QED  BY <1>1, <2>1, <2>2
  <1>9. Unique'
    BY <1>2, <1>4, <1>6 DEF IInv, Unique, Exists
  <1>10. DeletersFit'
    <2> SUFFICES ASSUME NEW q \in Ptrs, ptrs'[q] # None
                 PROVE  /\ ptrs'[q].m_copier = ptrs'[q].m_deleter
                        /\ ptrs'[q].m_ptr \in DOMAIN objects' \ spoiled =>
                             objects'[ptrs'[q].m_ptr].kind = ptrs'[q].m_deleter
      BY <1>2 DEF DeletersFit, Exists
    <2>1. CASE q = p
      BY <2>1, <1>1, <1>4
    <2>2. CASE q # p
      <3>1. /\ ptrs[q].m_copier = ptrs[q].m_deleter
            /\ ptrs[q].m_ptr \in DOMAIN objects \ spoiled =>
                 objects[ptrs[q].m_ptr].kind = ptrs[q].m_deleter
        BY <2>2, <1>4 DEF IInv, DeletersFit, Exists
      <3>2. ptrs'[q].m_ptr \in DOMAIN objects' \ spoiled => ptrs[q].m_ptr \in DOMAIN left \ spoiled
        BY <2>2, <1>1, <1>4, <1>5, <1>6, IsHeap
      <3> QED  BY <2>2, <3>1, <3>2, <1>1, <1>4
    <2> QED  BY <2>1, <2>2
  <1>11. ASSUME NEW q \in Ptrs
         PROVE  ValueOf(q)' = IF q # p THEN ValueOf(q)
                              ELSE IF o \in spoiled THEN "broken" ELSE value
    <2>1. CASE q = p
      <3>1. o # None
        BY Unlike
      <3> QED  BY <2>1, <3>1, <1>1, <1>2, <1>4 DEF ValueOf
    <2>2. CASE q # p
      <3>1. CASE ptrs[q] # None /\ ptrs[q].m_ptr \in Objects \ spoiled
        <4>1. objects'[ptrs[q].m_ptr] = objects[ptrs[q].m_ptr]
          BY <2>2, <3>1, <1>1, <1>6
        <4> QED  BY <2>2, <4>1, <1>2, <1>4 DEF ValueOf
      <3>2. CASE ptrs[q] = None \/ ptrs[q].m_ptr \notin Objects \ spoiled
        <4>1. ptrs[q] = None \/ ptrs[q].m_ptr = None \/ ptrs[q].m_ptr \in spoiled
          BY <3>2, <1>2 DEF DataPtrs
        <4> QED  BY <2>2, <4>1, <1>2, <1>4 DEF ValueOf
      <3> QED  BY <3>1, <3>2
    <2> QED  BY <2>1, <2>2
  <1>12. ValuesOfPtrs' = [ValuesOfPtrs EXCEPT ![p] = IF o \in spoiled THEN "broken" ELSE value]
    BY <1>11 DEF ValuesOfPtrs
  <1>13. OnlySpoiledHurts'
    BY <1>2 DEF IInv, OnlySpoiledHurts
  <1> QED  BY <1>5, <1>7, <1>8, <1>9, <1>10, <1>12, <1>13 DEF IInv

(* p loses its object: the same for a data_ptr that has none afterwards, or the
   old address, which is spoiled. *)
LEMMA Losing ==
  ASSUME IInv, NEW p \in Ptrs, NEW d \in DataPtrs \cup {None}, NEW after \in SUBSET Objects,
         d # None => d.m_ptr \in after \cup {None} /\ d.m_deleter = d.m_copier,
         after = spoiled \/ after = spoiled \cup Gone(p),
         spoiled' = after, undefined' = undefined,
         objects' \in Heaps, DOMAIN objects' = DOMAIN objects \ Gone(p),
         \A a \in DOMAIN objects' : objects'[a] = objects[a],
         ptrs' = [ptrs EXCEPT ![p] = d]
  PROVE  /\ IInv'
         /\ ValuesOfPtrs' = [ValuesOfPtrs EXCEPT ![p] = IF d = None THEN "unmade"
                                                       ELSE IF d.m_ptr = None THEN "empty"
                                                       ELSE "broken"]
  <1>1. ptrs \in [Ptrs -> DataPtrs \cup {None}]
    BY DEF IInv, TypeOK
  <1>2. ptrs' \in [Ptrs -> DataPtrs \cup {None}]
    BY <1>1
  <1>3. ptrs'[p] = d /\ \A q \in Ptrs \ {p} : ptrs'[q] = ptrs[q]
    BY <1>1
  <1>4. TypeOK' /\ DOMAIN objects' \subseteq Objects /\ spoiled \subseteq spoiled'
    BY <1>2, IsHeap DEF TypeOK, IInv
  (* What another data_ptr points to is neither gone nor newly spoiled. *)
  <1>5. ASSUME NEW q \in Ptrs \ {p}, ptrs[q] # None, ptrs[q].m_ptr \in Objects \ spoiled
        PROVE  ptrs[q].m_ptr \in DOMAIN objects' /\ ptrs[q].m_ptr \notin spoiled'
    <2>1. ptrs[q].m_ptr \in DOMAIN objects
      BY <1>5 DEF IInv, Exact, Exists
    <2>2. Exists(p) => ptrs[p].m_ptr # ptrs[q].m_ptr
      BY <1>5 DEF IInv, Unique, Exists
    <2> QED  BY <2>1, <2>2, <1>5 DEF Gone
  <1>6. Exact'
    <2> SUFFICES ASSUME NEW q \in Ptrs, ptrs'[q] # None, ptrs'[q].m_ptr \in Objects \ spoiled'
                 PROVE  ptrs'[q].m_ptr \in DOMAIN objects'
      BY DEF Exact, Exists
    <2>1. q # p /\ ptrs'[q] = ptrs[q]
      BY <1>3, Unlike
    <2> QED  BY <2>1, <1>4, <1>5
  <1>7. Owned'
    <2> SUFFICES ASSUME NEW a \in DOMAIN objects'
                 PROVE  \E q \in Ptrs : ptrs'[q] # None /\ ptrs'[q].m_ptr = a
      BY DEF Owned, Exists
    <2>1. PICK q \in Ptrs : ptrs[q] # None /\ ptrs[q].m_ptr = a
      BY DEF IInv, Owned, Exists
    <2>2. q # p
      BY <2>1 DEF Exists, Gone
    <2> QED  BY <2>1, <2>2, <1>3
  <1>8. Unique'
    <2> SUFFICES ASSUME NEW q \in Ptrs, NEW r \in Ptrs, ptrs'[q] # None, ptrs'[r] # None,
                        ptrs'[q].m_ptr \in Objects \ spoiled', ptrs'[q].m_ptr = ptrs'[r].m_ptr
                 PROVE  q = r
      BY DEF Unique, Exists
    <2>1. q # p /\ r # p
      BY <1>3, Unlike
    <2> QED  BY <2>1, <1>3, <1>4 DEF IInv, Unique, Exists
  <1>9. DeletersFit'
    <2> SUFFICES ASSUME NEW q \in Ptrs, ptrs'[q] # None
                 PROVE  /\ ptrs'[q].m_copier = ptrs'[q].m_deleter
                        /\ ptrs'[q].m_ptr \in DOMAIN objects' \ spoiled' =>
                             objects'[ptrs'[q].m_ptr].kind = ptrs'[q].m_deleter
      BY DEF DeletersFit, Exists
    <2>1. CASE q = p
      BY <2>1, <1>3, <1>4, Unlike
    <2>2. CASE q # p
      BY <2>2, <1>3, <1>4 DEF IInv, DeletersFit, Exists
    <2> QED  BY <2>1, <2>2
  <1>10. ASSUME NEW q \in Ptrs
         PROVE  ValueOf(q)' = IF q # p THEN ValueOf(q)
                              ELSE IF d = None THEN "unmade"
                              ELSE IF d.m_ptr = None THEN "empty" ELSE "broken"
    <2>1. CASE q = p
      BY <2>1, <1>3 DEF ValueOf
    <2>2. CASE q # p
      <3>1. CASE ptrs[q] # None /\ ptrs[q].m_ptr \in Objects \ spoiled
        <4>1. objects'[ptrs[q].m_ptr] = objects[ptrs[q].m_ptr] /\ ptrs[q].m_ptr \notin spoiled'
          BY <2>2, <3>1, <1>5
        <4> QED  BY <2>2, <3>1, <4>1, <1>3 DEF ValueOf
      <3>2. CASE ptrs[q] = None \/ ptrs[q].m_ptr \notin Objects \ spoiled
        <4>1. ptrs[q] = None \/ ptrs[q].m_ptr = None \/ ptrs[q].m_ptr \in spoiled
          BY <3>2, <1>1 DEF DataPtrs
        <4> QED  BY <2>2, <4>1, <1>3, <1>4 DEF ValueOf
      <3> QED  BY <3>1, <3>2
    <2> QED  BY <2>1, <2>2
  <1>11. ValuesOfPtrs' = [ValuesOfPtrs EXCEPT ![p] = IF d = None THEN "unmade"
                                                    ELSE IF d.m_ptr = None THEN "empty"
                                                    ELSE "broken"]
    BY <1>10 DEF ValuesOfPtrs
  <1>12. OnlySpoiledHurts'
    BY <1>4 DEF IInv, OnlySpoiledHurts
  <1> QED  BY <1>4, <1>6, <1>7, <1>8, <1>9, <1>11, <1>12 DEF IInv

(* The object of p is modified. *)
LEMMA Modifying ==
  ASSUME IInv, NEW p \in Ptrs, NEW value \in Values, Exists(p), ptrs[p].m_ptr \in DOMAIN objects,
         objects' = [objects EXCEPT ![ptrs[p].m_ptr].value = value], UNCHANGED ptrs, Defined
  PROVE  /\ IInv'
         /\ ValuesOfPtrs' = [ValuesOfPtrs EXCEPT ![p] = IF ptrs[p].m_ptr \in spoiled
                                                       THEN "broken" ELSE value]
  <1>1. /\ DOMAIN objects' = DOMAIN objects /\ ptrs' = ptrs
        /\ spoiled' = spoiled /\ undefined' = undefined
    BY DEF Defined
  <1>2. objects \in [DOMAIN objects -> [value : Values, kind : Kinds]]
    BY DEF IInv, TypeOK
  <1>3. /\ objects' \in [DOMAIN objects -> [value : Values, kind : Kinds]]
        /\ \A a \in DOMAIN objects : objects'[a].kind = objects[a].kind
    BY <1>1, <1>2
  <1>4. TypeOK'
    BY <1>1, <1>3 DEF IInv, TypeOK
  <1>5. IInv'
    BY <1>1, <1>3, <1>4 DEF IInv, Exact, Owned, Unique, DeletersFit, Exists, OnlySpoiledHurts
  <1>6. ptrs[p].m_ptr # None
    BY Having, Unlike
  <1>7. ASSUME NEW q \in Ptrs
        PROVE  ValueOf(q)' = IF q # p THEN ValueOf(q)
                             ELSE IF ptrs[p].m_ptr \in spoiled THEN "broken" ELSE value
    <2>1. CASE q = p
      <3>1. objects'[ptrs[p].m_ptr].value = value
        BY <1>1, <1>2
      <3> QED  BY <2>1, <3>1, <1>1, <1>6 DEF ValueOf, Exists
    <2>2. CASE q # p
      <3>1. CASE ptrs[q] # None /\ ptrs[q].m_ptr \in Objects \ spoiled
        <4>1. ptrs[q].m_ptr # ptrs[p].m_ptr /\ ptrs[q].m_ptr \in DOMAIN objects
          BY <2>2, <3>1 DEF IInv, Unique, Exact, Exists
        <4>2. objects'[ptrs[q].m_ptr] = objects[ptrs[q].m_ptr]
          BY <4>1, <1>1, <1>2
        <4>3. ptrs'[q] = ptrs[q] /\ spoiled' = spoiled
          BY <1>1
        <4>4. ValueOf(q) = objects[ptrs[q].m_ptr].value
          BY <3>1, Unlike DEF ValueOf
        <4>5. ValueOf(q)' = objects'[ptrs[q].m_ptr].value
          BY <3>1, <4>3, Unlike DEF ValueOf
        <4> QED  BY <2>2, <4>2, <4>4, <4>5
      <3>2. CASE ptrs[q] = None \/ ptrs[q].m_ptr \notin Objects \ spoiled
        <4>1. ptrs[q] = None \/ ptrs[q].m_ptr = None \/ ptrs[q].m_ptr \in spoiled
          BY <3>2 DEF IInv, TypeOK, DataPtrs
        <4> QED  BY <2>2, <4>1, <1>1 DEF ValueOf
      <3> QED  BY <3>1, <3>2
    <2> QED  BY <2>1, <2>2
  <1>8. ValuesOfPtrs' = [ValuesOfPtrs EXCEPT ![p] = IF ptrs[p].m_ptr \in spoiled
                                                   THEN "broken" ELSE value]
    BY <1>7 DEF ValuesOfPtrs
  <1> QED  BY <1>5, <1>8

(* The object, or the address, of q moves to p. *)
LEMMA Moving ==
  ASSUME IInv, NEW p \in Ptrs, NEW q \in Ptrs, MoveConstruct(p, q)
  PROVE  /\ IInv'
         /\ ValuesOfPtrs' = [ValuesOfPtrs EXCEPT ![p] = ValuesOfPtrs[q], ![q] = "empty"]
  <1>1. /\ ptrs \in [Ptrs -> DataPtrs \cup {None}] /\ ptrs[p] = None /\ ptrs[q] \in DataPtrs
        /\ p # q /\ objects' = objects /\ spoiled' = spoiled /\ undefined' = undefined
        /\ ptrs' = [ptrs EXCEPT ![p] = ptrs[q], ![q].m_ptr = None]
    BY DEF IInv, TypeOK, MoveConstruct, Exists, Defined
  <1>2. /\ ptrs'[p] = ptrs[q] /\ ptrs'[q] = [ptrs[q] EXCEPT !.m_ptr = None]
        /\ \A r \in Ptrs \ {p, q} : ptrs'[r] = ptrs[r]
    BY <1>1
  <1>3. /\ ptrs'[q] \in DataPtrs /\ ptrs'[q] # None /\ ptrs[q] # None
        /\ ptrs'[q].m_ptr = None /\ ptrs'[q].m_ptr \notin Objects
        /\ ptrs'[q].m_deleter = ptrs[q].m_deleter /\ ptrs'[q].m_copier = ptrs[q].m_copier
    BY <1>1, <1>2, Unlike DEF DataPtrs
  <1>4. ptrs' \in [Ptrs -> DataPtrs \cup {None}]
    BY <1>1, <1>3
  <1>5. TypeOK' /\ DOMAIN objects \subseteq Objects
    BY <1>1, <1>4 DEF IInv, TypeOK
  <1>6. Exact'
    BY <1>1, <1>2, <1>3 DEF IInv, Exact, Exists
  <1>7. Owned'
    <2>1. \A o \in DOMAIN objects : o # None
      BY <1>5, Unlike
    <2> QED  BY <2>1, <1>1, <1>2, <1>3 DEF IInv, Owned, Exists
  <1>8. Unique'
    BY <1>1, <1>2, <1>3 DEF IInv, Unique, Exists
  <1>9. DeletersFit'
    BY <1>1, <1>2, <1>3, <1>5 DEF IInv, DeletersFit, Exists
  <1>10. \A r \in Ptrs : ValueOf(r)' = IF r = p THEN ValueOf(q)
                                       ELSE IF r = q THEN "empty" ELSE ValueOf(r)
    BY <1>1, <1>2, <1>3 DEF ValueOf
  <1>11. ValuesOfPtrs' = [ValuesOfPtrs EXCEPT ![p] = ValuesOfPtrs[q], ![q] = "empty"]
    BY <1>1, <1>10 DEF ValuesOfPtrs
  <1>12. OnlySpoiledHurts'
    BY <1>1 DEF IInv, OnlySpoiledHurts
  <1> QED  BY <1>5, <1>6, <1>7, <1>8, <1>9, <1>11, <1>12 DEF IInv

(* A step that changes nothing. *)
LEMMA Stuttering ==
  ASSUME IInv, UNCHANGED vars
  PROVE  IInv' /\ UNCHANGED Variables!vars
  <1>1. ptrs' = ptrs /\ objects' = objects /\ spoiled' = spoiled /\ undefined' = undefined
    BY DEF vars
  <1>2. IInv'
    BY <1>1 DEF IInv, TypeOK, Exact, Owned, Unique, DeletersFit, OnlySpoiledHurts, Exists
  <1> QED  BY <1>1, <1>2 DEF Variables!vars, ValuesOfPtrs, ValueOf

(* Undefined behaviour is met with a spoiled address. *)
LEMMA Hurting ==
  ASSUME IInv, NEW o \in spoiled, Undefined(o), UNCHANGED spoiled
  PROVE  IInv' /\ UNCHANGED Variables!vars
  <1>1. ptrs' = ptrs /\ objects' = objects /\ spoiled' = spoiled /\ undefined' = o
    BY DEF Undefined
  <1>2. TypeOK'
    BY <1>1 DEF IInv, TypeOK
  <1>3. Exact' /\ Owned' /\ Unique' /\ DeletersFit' /\ OnlySpoiledHurts'
    BY <1>1 DEF IInv, Exact, Owned, Unique, DeletersFit, OnlySpoiledHurts, Exists
  <1>4. UNCHANGED Variables!vars
    BY <1>1 DEF Variables!vars, ValuesOfPtrs, ValueOf
  <1> QED  BY <1>2, <1>3, <1>4 DEF IInv

(* ... or with the one of p, which is spoiled by the same step. *)
LEMMA Spoiling ==
  ASSUME IInv, NEW p \in Ptrs, Exists(p), ptrs[p].m_ptr \in Objects,
         Undefined(ptrs[p].m_ptr), spoiled' = spoiled \cup {ptrs[p].m_ptr}
  PROVE  IInv' /\ ValuesOfPtrs' = [ValuesOfPtrs EXCEPT ![p] = "broken"]
  <1>1. ptrs' = ptrs /\ objects' = objects /\ undefined' = ptrs[p].m_ptr
    BY DEF Undefined
  <1>2. TypeOK'
    BY <1>1 DEF IInv, TypeOK
  <1>3. Exact' /\ Owned' /\ Unique' /\ DeletersFit' /\ OnlySpoiledHurts'
    BY <1>1 DEF IInv, Exact, Owned, Unique, DeletersFit, OnlySpoiledHurts, Exists
  <1>4. ptrs[p].m_ptr # None
    BY Unlike
  <1>5. ASSUME NEW q \in Ptrs
        PROVE  ValueOf(q)' = IF q = p THEN "broken" ELSE ValueOf(q)
    <2>1. CASE q = p
      BY <2>1, <1>1, <1>4 DEF ValueOf, Exists
    <2>2. CASE q # p /\ ptrs[q] # None /\ ptrs[q].m_ptr = ptrs[p].m_ptr
      <3>1. ptrs[p].m_ptr \in spoiled
        BY <2>2 DEF IInv, Unique, Exists
      <3> QED  BY <2>2, <3>1, <1>1, <1>4 DEF ValueOf
    <2>3. CASE q # p /\ (ptrs[q] = None \/ ptrs[q].m_ptr # ptrs[p].m_ptr)
      BY <2>3, <1>1 DEF ValueOf
    <2> QED  BY <2>1, <2>2, <2>3
  <1>6. ValuesOfPtrs' = [ValuesOfPtrs EXCEPT ![p] = "broken"]
    BY <1>5 DEF ValuesOfPtrs
  <1> QED  BY <1>2, <1>3, <1>6 DEF IInv

-----------------------------------------------------------------------------
(* Steps of the variables, by what they do to the values. *)

LEMMA Giving ==
  ASSUME NEW p \in Ptrs, NEW value, UNCHANGED spoiled,
         value \in Values \cup {"empty"} \/ (value = "broken" /\ spoiled # {}),
         ValuesOfPtrs' = [ValuesOfPtrs EXCEPT ![p] = value]
  PROVE  Variables!Next
  <1>1. (spoiled # {})' = (spoiled # {})
    OBVIOUS
  <1>2. Variables!Give(p, value)
    BY <1>1 DEF Variables!Give, Variables!Set
  <1>3. CASE value \in Values \cup {"empty"}
    BY <1>2, <1>3 DEF Variables!Next
  <1>4. CASE value = "broken" /\ spoiled # {}
    <2>1. Variables!GiveBroken(p)
      BY <1>2, <1>4 DEF Variables!GiveBroken, Variables!Give
    <2> QED  BY <2>1 DEF Variables!Next
  <1> QED  BY <1>3, <1>4

LEMMA Failing ==
  ASSUME IInv, NEW p \in Ptrs, NEW q \in Ptrs, p # q, Exists(p), Exists(q),
         ptrs[p].m_ptr \in Objects, spoiled' # {},
         ValuesOfPtrs' = [ValuesOfPtrs EXCEPT ![p] = "broken"]
  PROVE  Variables!Next
  <1>1. ValuesOfPtrs[p] \in Values \cup {"broken"} /\ ValuesOfPtrs[q] # "unmade"
    BY Showing
  <1>2. Variables!CopyFails(p, q)
    BY <1>1 DEF Variables!CopyFails
  <1> QED  BY <1>2 DEF Variables!Next

(* The value that a copy of q gets. *)
CopyValue(q) == IF ptrs[q].m_ptr = None THEN DefaultValue ELSE objects[ptrs[q].m_ptr].value

(* p gets a copy of the object of q, at o. *)
Copies(p, q, left, o) ==
  /\ objects' = CopyInto(left, o, ptrs[q].m_ptr, ptrs[q].m_copier)
  /\ ptrs' = [ptrs EXCEPT ![p] = [ptrs[q] EXCEPT !.m_ptr = o]]

LEMMA Copying ==
  ASSUME IInv, NEW p \in Ptrs, NEW q \in Ptrs, p # q, Exists(q),
         NEW left \in Heaps, DOMAIN left = DOMAIN objects \ Gone(p),
         \A a \in DOMAIN left : left[a] = objects[a],
         Readable(left, ptrs[q].m_ptr), NEW o \in Free(left), Copies(p, q, left, o), Defined
  PROVE  IInv' /\ Variables!Next
  <1>1. /\ ptrs[q] \in DataPtrs /\ ptrs[q].m_copier \in Kinds
        /\ ptrs[q].m_deleter = ptrs[q].m_copier
    BY Having
  <1>2. ptrs[q].m_ptr = None \/ (ptrs[q].m_ptr \in DOMAIN objects /\ ptrs[q].m_ptr \in DOMAIN left)
    BY DEF Readable
  <1>3. CopyValue(q) \in Values
    BY <1>2, Having, DataPtrAssumption DEF CopyValue
  <1>4. objects' = Create(left, o, CopyValue(q), ptrs[q].m_copier)
    BY <1>2 DEF Copies, CopyInto, CopyValue
  <1>5. [ptrs[q] EXCEPT !.m_ptr = o]
          = [m_ptr |-> o, m_deleter |-> ptrs[q].m_copier, m_copier |-> ptrs[q].m_copier]
    BY <1>1 DEF DataPtrs
  <1>6. ptrs' = [ptrs EXCEPT ![p] = [m_ptr |-> o, m_deleter |-> ptrs[q].m_copier,
                                     m_copier |-> ptrs[q].m_copier]]
    BY <1>5 DEF Copies
  <1>7. o \in Objects \ DOMAIN left
    BY DEF Free
  <1>8. PICK value \in Values, kind \in Kinds : value = CopyValue(q) /\ kind = ptrs[q].m_copier
    BY <1>1, <1>3
  <1>9. /\ objects' = Create(left, o, value, kind)
        /\ ptrs' = [ptrs EXCEPT ![p] = [m_ptr |-> o, m_deleter |-> kind, m_copier |-> kind]]
    BY <1>4, <1>6, <1>8
  <1>10. /\ IInv'
         /\ ValuesOfPtrs' = [ValuesOfPtrs EXCEPT ![p] = IF o \in spoiled THEN "broken" ELSE value]
    BY <1>7, <1>9, Replacing
  <1>11. spoiled' = spoiled /\ (spoiled # {})' = (spoiled # {})
    BY DEF Defined
  <1>12. CASE o \in spoiled
    <2>1. ValuesOfPtrs' = [ValuesOfPtrs EXCEPT ![p] = "broken"]
      BY <1>10, <1>12
    <2> QED  BY <1>10, <1>11, <1>12, <2>1, Giving
  <1>13. CASE o \notin spoiled
    <2>1. ValuesOfPtrs[q] = "empty" => value = DefaultValue
      BY <1>8, Showing DEF CopyValue
    <2>2. ValuesOfPtrs[q] \in Values => value = ValuesOfPtrs[q]
      BY <1>8, Showing, Unlike DEF CopyValue
    <2>3. ValuesOfPtrs[q] # "unmade"
      BY Showing
    <2>4. Variables!Set(p, value)
      BY <1>10, <1>11, <1>13 DEF Variables!Set
    <2>5. Variables!Copy(p, q)
      BY <2>1, <2>2, <2>3, <2>4 DEF Variables!Copy
    <2> QED  BY <1>10, <2>5 DEF Variables!Next
  <1> QED  BY <1>12, <1>13

-----------------------------------------------------------------------------
(* What deleters and copiers may not be called with is spoiled. *)
LEMMA Deleting ==
  ASSUME IInv, NEW p \in Ptrs, Exists(p),
         ~Deletable(objects, ptrs[p].m_ptr, ptrs[p].m_deleter)
  PROVE  ptrs[p].m_ptr \in spoiled
  BY Having DEF Deletable

LEMMA Reading ==
  ASSUME IInv, NEW q \in Ptrs, Exists(q), ~Readable(objects, ptrs[q].m_ptr)
  PROVE  ptrs[q].m_ptr \in spoiled
  BY Having DEF Readable

LEMMA ReadingAfterDel ==
  ASSUME IInv, NEW p \in Ptrs, NEW q \in Ptrs, CanAssign(p, q),
         ~Readable(AfterDel(p), ptrs[q].m_ptr)
  PROVE  ptrs[q].m_ptr \in spoiled
  <1>1. p # q /\ Exists(p) /\ Exists(q)
    BY DEF CanAssign
  <1>2. DOMAIN AfterDel(p) = DOMAIN objects \ {ptrs[p].m_ptr}
    BY DEF AfterDel, Release
  <1>3. CASE ~Readable(objects, ptrs[q].m_ptr)
    BY <1>1, <1>3, Reading
  <1>4. CASE Readable(objects, ptrs[q].m_ptr)
    <2>1. ptrs[q].m_ptr = ptrs[p].m_ptr /\ ptrs[q].m_ptr \in DOMAIN objects
      BY <1>2, <1>4 DEF Readable
    <2>2. ptrs[q].m_ptr \in Objects
      BY <1>1, <2>1, Having
    <2> QED  BY <1>1, <2>1, <2>2 DEF IInv, Unique
  <1> QED  BY <1>3, <1>4

(* The heap after del(). *)
LEMMA AfterDeleting ==
  ASSUME IInv, NEW p \in Ptrs, Exists(p)
  PROVE  /\ AfterDel(p) \in Heaps /\ DOMAIN AfterDel(p) = DOMAIN objects \ Gone(p)
         /\ \A a \in DOMAIN AfterDel(p) : AfterDel(p)[a] = objects[a]
  <1>1. objects \in Heaps
    BY Types DEF IInv
  <1> QED  BY <1>1, Releasing DEF AfterDel, Gone

LEMMA Commuting ==
  ASSUME NEW heap, NEW o, NEW a, o # a, NEW value, NEW kind
  PROVE  Release(Create(heap, o, value, kind), a) = Create(Release(heap, a), o, value, kind)
  BY DEF Release, Create

-----------------------------------------------------------------------------
(* Every operation keeps the invariant, and is a step of a variable. *)

LEMMA Constructing ==
  ASSUME IInv, NEW p \in Ptrs, NEW kind \in Kinds, Construct(p, kind)
  PROVE  IInv' /\ Variables!Next
  <1>1. /\ ~Exists(p) /\ Defined /\ spoiled' = spoiled /\ undefined' = undefined
        /\ DOMAIN objects = DOMAIN objects \ Gone(p)
        /\ objects \in Heaps
    BY Types DEF Construct, Defined, Gone, IInv
  <1>2. CASE \E o \in Free(objects), value \in Values :
               /\ objects' = Create(objects, o, value, kind)
               /\ ptrs' = [ptrs EXCEPT ![p] = [m_ptr |-> o, m_deleter |-> kind, m_copier |-> kind]]
    <2>1. PICK o \in Objects \ DOMAIN objects, value \in Values :
               /\ objects' = Create(objects, o, value, kind)
               /\ ptrs' = [ptrs EXCEPT ![p] = [m_ptr |-> o, m_deleter |-> kind, m_copier |-> kind]]
      BY <1>2 DEF Free
    <2>2. /\ IInv'
          /\ ValuesOfPtrs' = [ValuesOfPtrs EXCEPT ![p] = IF o \in spoiled THEN "broken" ELSE value]
      BY <1>1, <2>1, Replacing
    <2> QED  BY <1>1, <2>2, Giving
  <1>3. CASE /\ ptrs' = [ptrs EXCEPT ![p] = [m_ptr |-> None, m_deleter |-> kind, m_copier |-> kind]]
             /\ UNCHANGED objects
    <2>1. PICK d \in DataPtrs : /\ d.m_ptr = None /\ d.m_deleter = d.m_copier
                                /\ ptrs' = [ptrs EXCEPT ![p] = d]
      BY <1>3 DEF DataPtrs
    <2>2. d # None /\ spoiled \in SUBSET Objects
      BY Unlike DEF IInv, TypeOK
    <2>3. IInv' /\ ValuesOfPtrs' = [ValuesOfPtrs EXCEPT ![p] = "empty"]
      BY <1>1, <1>3, <2>1, <2>2, Losing
    <2> QED  BY <1>1, <2>3, Giving
  <1> QED  BY <1>2, <1>3 DEF Construct

LEMMA CopyConstructing ==
  ASSUME IInv, NEW p \in Ptrs, NEW q \in Ptrs, CopyConstruct(p, q)
  PROVE  IInv' /\ [Variables!Next]_(Variables!vars)
  <1>1. /\ ~Exists(p) /\ Exists(q) /\ p # q /\ objects \in Heaps
        /\ DOMAIN objects = DOMAIN objects \ Gone(p)
    BY Types DEF CopyConstruct, Gone, IInv
  <1>2. CASE Readable(objects, ptrs[q].m_ptr)
    <2>1. PICK o \in Free(objects) : Copies(p, q, objects, o)
      BY <1>2 DEF CopyConstruct, Copies
    <2>2. Defined
      BY <1>2 DEF CopyConstruct
    <2> QED  BY <1>1, <1>2, <2>1, <2>2, Copying
  <1>3. CASE ~Readable(objects, ptrs[q].m_ptr)
    <2>1. Undefined(ptrs[q].m_ptr) /\ UNCHANGED spoiled
      BY <1>3 DEF CopyConstruct
    <2> QED  BY <1>1, <1>3, <2>1, Reading, Hurting
  <1> QED  BY <1>2, <1>3

LEMMA Assigning ==
  ASSUME IInv, NEW p \in Ptrs, NEW value \in Values, NEW ptr \in Objects \cup {None},
         Assign(p, ptr, value)
  PROVE  IInv' /\ [Variables!Next]_(Variables!vars)
  <1>1. /\ Exists(p) /\ (ptr = None \/ ptr \in Objects \ DOMAIN objects)
        /\ objects \in Heaps /\ spoiled \in SUBSET Objects
    BY Types, Unlike DEF Assign, Free, IInv
  <1>2. /\ ptrs[p] \in DataPtrs /\ ptrs[p].m_deleter \in Kinds
        /\ ptrs[p].m_copier = ptrs[p].m_deleter
    BY <1>1, Having
  <1>3. PICK d \in DataPtrs, kind \in Kinds :
             /\ kind = ptrs[p].m_deleter
             /\ d = [m_ptr |-> ptr, m_deleter |-> kind, m_copier |-> kind]
             /\ d = [ptrs[p] EXCEPT !.m_ptr = ptr]
    <2> DEFINE r == [m_ptr |-> ptr, m_deleter |-> ptrs[p].m_deleter, m_copier |-> ptrs[p].m_deleter]
    <2>1. r \in DataPtrs /\ r = [ptrs[p] EXCEPT !.m_ptr = ptr]
      BY <1>2 DEF DataPtrs
    <2> QED  BY <1>2, <2>1
  <1>4. CASE ptr = ptrs[p].m_ptr /\ ptr = None
    <2>1. UNCHANGED vars
      BY <1>4 DEF Assign, Defined, vars
    <2> QED  BY <2>1, Stuttering
  <1>5. CASE ptr = ptrs[p].m_ptr /\ ptr # None
    <2>1. /\ objects' = Create(objects, ptr, value, kind)
          /\ ptrs' = ptrs /\ Defined
      BY <1>3, <1>5 DEF Assign
    <2>2. ptrs' = [ptrs EXCEPT ![p] = [m_ptr |-> ptr, m_deleter |-> kind, m_copier |-> kind]]
      <3>1. ptrs[p] = [m_ptr |-> ptr, m_deleter |-> kind, m_copier |-> kind]
        BY <1>2, <1>3, <1>5 DEF DataPtrs
      <3>2. ptrs \in [Ptrs -> DataPtrs \cup {None}]
        BY DEF IInv, TypeOK
      <3> QED  BY <2>1, <3>1, <3>2
    <2>3. ptr \in Objects \ DOMAIN objects /\ DOMAIN objects = DOMAIN objects \ Gone(p)
      BY <1>1, <1>5 DEF Gone
    <2>4. /\ IInv'
          /\ ValuesOfPtrs' = [ValuesOfPtrs EXCEPT ![p] = IF ptr \in spoiled THEN "broken" ELSE value]
      BY <1>1, <2>1, <2>2, <2>3, Replacing
    <2>5. spoiled' = spoiled
      BY <2>1 DEF Defined
    <2> QED  BY <2>4, <2>5, Giving
  <1>6. CASE ptr # ptrs[p].m_ptr /\ ~Deletable(objects, ptrs[p].m_ptr, ptrs[p].m_deleter)
    <2>1. Undefined(ptrs[p].m_ptr) /\ UNCHANGED spoiled
      BY <1>6 DEF Assign
    <2> QED  BY <1>1, <1>6, <2>1, Deleting, Hurting
  <1>7. CASE ptr # ptrs[p].m_ptr /\ Deletable(objects, ptrs[p].m_ptr, ptrs[p].m_deleter)
    <2>1. /\ objects' = Release(IF ptr = None THEN objects ELSE Create(objects, ptr, value, kind),
                                ptrs[p].m_ptr)
          /\ ptrs' = [ptrs EXCEPT ![p].m_ptr = ptr] /\ Defined
      BY <1>3, <1>7 DEF Assign
    <2>2. ptrs' = [ptrs EXCEPT ![p] = d] /\ spoiled' = spoiled /\ undefined' = undefined
      BY <1>3, <2>1 DEF Defined
    <2>3. /\ AfterDel(p) \in Heaps /\ DOMAIN AfterDel(p) = DOMAIN objects \ Gone(p)
          /\ \A a \in DOMAIN AfterDel(p) : AfterDel(p)[a] = objects[a]
      BY <1>1, AfterDeleting
    <2>4. CASE ptr = None
      <3>1. objects' = AfterDel(p)
        BY <2>1, <2>4 DEF AfterDel
      <3>2. d # None /\ d.m_ptr = None /\ d.m_deleter = d.m_copier
        BY <1>3, <2>4, Unlike
      <3>3. IInv' /\ ValuesOfPtrs' = [ValuesOfPtrs EXCEPT ![p] = "empty"]
        BY <1>1, <2>2, <2>3, <3>1, <3>2, Losing
      <3> QED  BY <2>2, <3>3, Giving
    <2>5. CASE ptr # None
      <3>1. objects' = Create(AfterDel(p), ptr, value, kind)
        BY <1>7, <2>1, <2>5, Commuting DEF AfterDel
      <3>2. ptr \in Objects \ DOMAIN AfterDel(p)
        BY <1>1, <2>3, <2>5
      <3>3. ptrs' = [ptrs EXCEPT ![p] = [m_ptr |-> ptr, m_deleter |-> kind, m_copier |-> kind]]
        BY <1>3, <2>2
      <3>4. /\ IInv'
            /\ ValuesOfPtrs' = [ValuesOfPtrs EXCEPT ![p] = IF ptr \in spoiled THEN "broken" ELSE value]
        <4>1. PICK left \in Heaps : left = AfterDel(p)
          BY <2>3
        <4>2. /\ DOMAIN left = DOMAIN objects \ Gone(p) /\ ptr \in Objects \ DOMAIN left
              /\ \A a \in DOMAIN left : left[a] = objects[a]
              /\ objects' = Create(left, ptr, value, kind) /\ Defined
          BY <2>1, <2>3, <3>1, <3>2, <4>1
        <4> QED  BY <3>3, <4>2, Replacing
      <3> QED  BY <2>2, <3>4, Giving
    <2> QED  BY <2>4, <2>5
  <1> QED  BY <1>4, <1>5, <1>6, <1>7

LEMMA CopyAssigning ==
  ASSUME IInv, NEW p \in Ptrs, NEW q \in Ptrs, CopyAssign(p, q)
  PROVE  IInv' /\ Variables!Next
  <1>1. /\ p # q /\ Exists(p) /\ Exists(q)
        /\ Readable(AfterDel(p), ptrs[q].m_ptr) /\ Defined
    BY DEF CopyAssign, CanAssign
  <1>2. PICK o \in Free(AfterDel(p)) : Copies(p, q, AfterDel(p), o)
    BY DEF CopyAssign, Copies
  <1> QED  BY <1>1, <1>2, AfterDeleting, Copying

LEMMA CopyAssignThrowing ==
  ASSUME IInv, NEW p \in Ptrs, NEW q \in Ptrs, CopyAssignThrows(p, q)
  PROVE  IInv' /\ Variables!Next
  <1>1. /\ p # q /\ Exists(p) /\ Exists(q) /\ objects' = AfterDel(p)
        /\ undefined' = undefined
    BY DEF CopyAssignThrows, CanAssign
  <1>2. /\ objects' \in Heaps /\ DOMAIN objects' = DOMAIN objects \ Gone(p)
        /\ \A a \in DOMAIN objects' : objects'[a] = objects[a]
    BY <1>1, AfterDeleting
  <1>3. /\ ptrs[p].m_ptr \in Objects \cup {None} /\ ptrs[q] \in DataPtrs
        /\ ptrs[q].m_deleter = ptrs[q].m_copier
    BY <1>1, Having
  <1>4. PICK d \in DataPtrs : /\ d.m_ptr = ptrs[p].m_ptr /\ d.m_deleter = d.m_copier
                              /\ ptrs' = [ptrs EXCEPT ![p] = d]
    <2>1. [ptrs[q] EXCEPT !.m_ptr = ptrs[p].m_ptr] \in DataPtrs
      BY <1>3 DEF DataPtrs
    <2>2. /\ [ptrs[q] EXCEPT !.m_ptr = ptrs[p].m_ptr].m_ptr = ptrs[p].m_ptr
          /\ [ptrs[q] EXCEPT !.m_ptr = ptrs[p].m_ptr].m_deleter = ptrs[q].m_deleter
          /\ [ptrs[q] EXCEPT !.m_ptr = ptrs[p].m_ptr].m_copier = ptrs[q].m_copier
      BY <1>3 DEF DataPtrs
    <2> QED  BY <1>3, <2>1, <2>2 DEF CopyAssignThrows
  <1>5. PICK after \in SUBSET Objects :
             /\ spoiled' = after
             /\ IF ptrs[p].m_ptr = None THEN after = spoiled
                ELSE after = spoiled \cup Gone(p) /\ ptrs[p].m_ptr \in after
    BY <1>1, <1>3 DEF CopyAssignThrows, Gone, IInv, TypeOK
  <1>6. /\ d # None /\ d.m_ptr \in after \cup {None}
        /\ after = spoiled \/ after = spoiled \cup Gone(p)
    BY <1>4, <1>5, Unlike
  <1>7. /\ IInv'
        /\ ValuesOfPtrs' = [ValuesOfPtrs EXCEPT ![p] = IF d.m_ptr = None THEN "empty" ELSE "broken"]
    BY <1>1, <1>2, <1>4, <1>5, <1>6, Losing
  <1>8. CASE ptrs[p].m_ptr = None
    <2>1. spoiled' = spoiled /\ ValuesOfPtrs' = [ValuesOfPtrs EXCEPT ![p] = "empty"]
      BY <1>4, <1>5, <1>7, <1>8
    <2> QED  BY <1>7, <2>1, Giving
  <1>9. CASE ptrs[p].m_ptr # None
    <2>1. /\ ptrs[p].m_ptr \in Objects /\ spoiled' # {}
          /\ ValuesOfPtrs' = [ValuesOfPtrs EXCEPT ![p] = "broken"]
      BY <1>3, <1>4, <1>5, <1>7, <1>9
    <2> QED  BY <1>1, <1>7, <2>1, Failing
  <1> QED  BY <1>8, <1>9

LEMMA CopyAssignDelHurting ==
  ASSUME IInv, NEW p \in Ptrs, NEW q \in Ptrs, CopyAssignDelUndefined(p, q)
  PROVE  IInv' /\ [Variables!Next]_(Variables!vars)
  <1>1. /\ p # q /\ Exists(p) /\ Exists(q) /\ Undefined(ptrs[p].m_ptr)
        /\ ~Deletable(objects, ptrs[p].m_ptr, ptrs[q].m_deleter)
        /\ spoiled' = spoiled \cup {o \in {ptrs[p].m_ptr} : ptrs[p].m_deleter # ptrs[q].m_deleter}
    BY DEF CopyAssignDelUndefined, CanAssign
  <1>2. CASE ptrs[p].m_deleter = ptrs[q].m_deleter
    <2>1. UNCHANGED spoiled
      BY <1>1, <1>2
    <2>2. ptrs[p].m_ptr \in spoiled
      BY <1>1, <1>2, Deleting
    <2> QED  BY <1>1, <2>1, <2>2, Hurting
  <1>3. CASE ptrs[p].m_deleter # ptrs[q].m_deleter
    <2>1. spoiled' = spoiled \cup {ptrs[p].m_ptr}
      BY <1>1, <1>3
    <2>2. ptrs[p].m_ptr \in Objects
      BY <1>1, Having DEF Deletable
    <2>3. IInv' /\ ValuesOfPtrs' = [ValuesOfPtrs EXCEPT ![p] = "broken"]
      BY <1>1, <2>1, <2>2, Spoiling
    <2>4. spoiled' # {}
      BY <2>1
    <2> QED  BY <1>1, <2>2, <2>3, <2>4, Failing
  <1> QED  BY <1>2, <1>3

LEMMA Destructing ==
  ASSUME IInv, NEW p \in Ptrs, Destruct(p)
  PROVE  IInv' /\ [Variables!Next]_(Variables!vars)
  <1>1. Exists(p) /\ spoiled \in SUBSET Objects /\ None \in DataPtrs \cup {None}
    BY DEF Destruct, IInv, TypeOK
  <1>2. CASE ~Deletable(objects, ptrs[p].m_ptr, ptrs[p].m_deleter)
    <2>1. Undefined(ptrs[p].m_ptr) /\ UNCHANGED spoiled
      BY <1>2 DEF Destruct
    <2> QED  BY <1>1, <1>2, <2>1, Deleting, Hurting
  <1>3. CASE Deletable(objects, ptrs[p].m_ptr, ptrs[p].m_deleter)
    <2>1. /\ objects' = AfterDel(p) /\ ptrs' = [ptrs EXCEPT ![p] = None]
          /\ spoiled' = spoiled /\ undefined' = undefined
      BY <1>3 DEF Destruct, AfterDel, Defined
    <2>2. /\ objects' \in Heaps /\ DOMAIN objects' = DOMAIN objects \ Gone(p)
          /\ \A a \in DOMAIN objects' : objects'[a] = objects[a]
      BY <1>1, <2>1, AfterDeleting
    <2>3. IInv' /\ ValuesOfPtrs' = [ValuesOfPtrs EXCEPT ![p] = "unmade"]
      BY <1>1, <2>1, <2>2, Losing
    <2>4. ValuesOfPtrs[p] # "unmade" /\ (spoiled # {})' = (spoiled # {})
      BY <1>1, <2>1, Showing
    <2>5. Variables!Destroy(p)
      BY <2>3, <2>4 DEF Variables!Destroy, Variables!Set
    <2> QED  BY <2>3, <2>5 DEF Variables!Next
  <1> QED  BY <1>2, <1>3

LEMMA Changing ==
  ASSUME IInv, NEW p \in Ptrs, NEW value \in Values, Modify(p, value)
  PROVE  IInv' /\ [Variables!Next]_(Variables!vars)
  <1>1. Exists(p) /\ ptrs[p].m_ptr # None
    BY DEF Modify
  <1>2. CASE ptrs[p].m_ptr \notin DOMAIN objects
    <2>1. Undefined(ptrs[p].m_ptr) /\ UNCHANGED spoiled /\ ~Readable(objects, ptrs[p].m_ptr)
      BY <1>1, <1>2 DEF Modify, Readable
    <2> QED  BY <1>1, <2>1, Reading, Hurting
  <1>3. CASE ptrs[p].m_ptr \in DOMAIN objects
    <2>1. /\ objects' = [objects EXCEPT ![ptrs[p].m_ptr].value = value]
          /\ UNCHANGED ptrs /\ Defined /\ spoiled' = spoiled
      BY <1>3 DEF Modify, Defined
    <2>2. /\ IInv'
          /\ ValuesOfPtrs' = [ValuesOfPtrs EXCEPT ![p] = IF ptrs[p].m_ptr \in spoiled
                                                         THEN "broken" ELSE value]
      BY <1>1, <1>3, <2>1, Modifying
    <2> QED  BY <2>1, <2>2, Giving
  <1> QED  BY <1>2, <1>3

LEMMA Inductive ==
  ASSUME IInv, [Next]_vars
  PROVE  IInv' /\ [Variables!Next]_(Variables!vars)
  <1>1. CASE UNCHANGED vars
    BY <1>1, Stuttering
  <1>2. ASSUME NEW p \in Ptrs, NEW q \in Ptrs, MoveConstruct(p, q)
        PROVE  IInv' /\ Variables!Next
    <2>1. /\ IInv'
          /\ ValuesOfPtrs' = [ValuesOfPtrs EXCEPT ![p] = ValuesOfPtrs[q], ![q] = "empty"]
      BY <1>2, Moving
    <2>2. ValuesOfPtrs[p] = "unmade" /\ ValuesOfPtrs[q] # "unmade"
      BY <1>2, Showing DEF MoveConstruct
    <2>3. (spoiled # {})' = (spoiled # {})
      BY <1>2 DEF MoveConstruct, Defined
    <2>4. Variables!Move(p, q)
      BY <2>1, <2>2, <2>3 DEF Variables!Move
    <2> QED  BY <2>1, <2>4 DEF Variables!Next
  <1>3. ASSUME NEW p \in Ptrs, NEW q \in Ptrs, CopyAssignReadUndefined(p, q)
        PROVE  IInv' /\ UNCHANGED Variables!vars
    <2>1. /\ CanAssign(p, q) /\ ~Readable(AfterDel(p), ptrs[q].m_ptr)
          /\ Undefined(ptrs[q].m_ptr) /\ UNCHANGED spoiled
      BY <1>3 DEF CopyAssignReadUndefined
    <2>2. ptrs[q].m_ptr \in spoiled
      BY <2>1, ReadingAfterDel
    <2> QED  BY <2>1, <2>2, Hurting
  <1>4. ASSUME NEW p \in Ptrs, NEW kind \in Kinds, Construct(p, kind)
        PROVE  IInv' /\ Variables!Next
    BY <1>4, Constructing
  <1>5. ASSUME NEW p \in Ptrs, NEW q \in Ptrs,
               \/ CopyConstruct(p, q) \/ CopyAssign(p, q) \/ CopyAssignThrows(p, q)
               \/ CopyAssignDelUndefined(p, q)
        PROVE  IInv' /\ [Variables!Next]_(Variables!vars)
    BY <1>5, CopyConstructing, CopyAssigning, CopyAssignThrowing, CopyAssignDelHurting
  <1>6. ASSUME NEW p \in Ptrs, NEW value \in Values,
               \/ Modify(p, value)
               \/ \E ptr \in Objects \cup {None} : Assign(p, ptr, value)
        PROVE  IInv' /\ [Variables!Next]_(Variables!vars)
    BY <1>6, Changing, Assigning
  <1>7. ASSUME NEW p \in Ptrs, Destruct(p)
        PROVE  IInv' /\ [Variables!Next]_(Variables!vars)
    BY <1>7, Destructing
  <1> QED  BY <1>1, <1>2, <1>3, <1>4, <1>5, <1>6, <1>7 DEF Next

(* The invariant says what OneOwner says. *)
LEMMA Meaning == IInv => OneOwner
  <1> SUFFICES ASSUME IInv PROVE OneOwner
    OBVIOUS
  <1>1. DOMAIN objects \subseteq Objects
    BY DEF IInv, TypeOK
  <1>2. \A o \in DOMAIN objects : Owners(o) # {}
    BY DEF IInv, Owned, Owners
  <1>3. \A o \in Objects \ spoiled : Owners(o) # {} => o \in DOMAIN objects
    BY DEF IInv, Exact, Owners
  <1>4. \A o \in Objects \ spoiled : \A p, q \in Owners(o) : p = q
    BY DEF IInv, Unique, Owners
  <1> QED  BY <1>2, <1>3, <1>4 DEF OneOwner

(* Whatever clients do, the inductive invariant holds. *)
THEOREM Invariance == Spec => []IInv
  <1>1. IInv /\ [Next]_vars => IInv'
    BY Inductive
  <1> QED  BY <1>1, Initially, PTL DEF Spec

(* Every variable stays in the set it is meant for, *)
THEOREM TypeCorrect == Spec => []TypeOK
  BY Invariance, PTL DEF IInv

(* ... no object is without a data_ptr; and what is pointed to exists and has one
   owner, but for the addresses that a throwing or mixing copy has left, *)
THEOREM Ownership == Spec => []OneOwner
  BY Invariance, Meaning, PTL

(* ... where, and nowhere else, something may be deleted twice, by the wrong deleter
   or used when it is gone. *)
THEOREM Harm == Spec => []OnlySpoiledHurts
  BY Invariance, PTL DEF IInv

(* ... and data_ptrs are variables with values of their own, but for those whose
   copy failed and those that get such an address. *)
THEOREM Refinement == Spec => ActsAsVariables
  <1>1. Init => Variables!Init
    BY DEF Init, Variables!Init, ValuesOfPtrs, ValueOf
  <1>2. IInv /\ [Next]_vars => [Variables!Next]_(Variables!vars)
    BY Inductive
  <1> QED  BY <1>1, <1>2, Invariance, PTL DEF Spec, ActsAsVariables, Variables!Spec

=============================================================================
