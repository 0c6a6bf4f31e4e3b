------------------------- MODULE ConfigurationProofs -------------------------
(***************************************************************************)
(* Theorems about Configuration, for any number of threads, watchers, keys *)
(* and values, any use of the object, crashes and restarts.                *)
(*                                                                         *)
(* The storage is a fold over the entries.  That the entries come back     *)
(* from its document, StorageKeeps, is proved first, by induction on the   *)
(* number of paths written; the invariants and the refinement follow.      *)
(***************************************************************************)
EXTENDS Configuration, FiniteSetTheorems, TLAPS

(* The use of the object never changes. *)
UseInv == writers \in SUBSET Threads /\ fails \in BOOLEAN /\ keys \in SUBSET Keys

(* Who has the lock, and where threads can be in each phase. *)
LockInv ==
  /\ \A t \in Threads :
       /\ pc[t] \in {"notify", "commit"} <=> holder = t
       /\ pc[t] \in {"save", "commit"} => t = Owner /\ phase \in {"up", "closing"}
       /\ pc[t] \in {"probe", "store", "notify"} =>
            /\ phase = "up" /\ t \in writers
            /\ arg[t].key \in keys /\ arg[t].value \in Values
  /\ phase = "closing" => pc[Owner] \in {"save", "commit"}

(* A save has begun to write the entries as they are, or has failed. *)
WriteInv ==
  pc[Owner] = "commit" =>
    temp = Storage!Document(m_entries) \/ (fails /\ temp = Absent)

(* A change that is not saved is being made, or being saved, or the timer is active. *)
SaveInv ==
  Careful /\ phase \in {"up", "closing"} =>
    Saved \/ m_dumpTimer # "off" \/ pc[Owner] \in {"notify", "save", "commit"}

(* The inductive invariant of what concerns the storage. *)
IInv == TypeOK /\ UseInv /\ LockInv /\ WriteInv /\ SaveInv

-----------------------------------------------------------------------------
(* A set of numbers that is not empty has a least one. *)
LEMMA LeastExists ==
  ASSUME NEW S \in SUBSET Nat, S # {}
  PROVE  \E x \in S : \A y \in S : x <= y
<1> DEFINE T == {U \in SUBSET S : U # {} /\ IsFiniteSet(U)}
<1> SUFFICES ASSUME \A x \in S : \E y \in S : ~(x <= y) PROVE FALSE
  OBVIOUS
<1>1. PICK x \in S : TRUE
  OBVIOUS
<1> DEFINE U == {y \in S : y <= x}
           Low == {V \in SUBSET U : V # {} /\ ~\E z \in V : \A y \in V : z <= y}
<1>2. \A y \in S : y \in Nat
  OBVIOUS
<1>3. IsFiniteSet(U)
  <2>1. U \in SUBSET Nat /\ \A y \in U : y <= x
    OBVIOUS
  <2> QED
    BY <1>1, <1>2, <2>1, FS_BoundedSetOfNaturals
<1>4. U \in Low
  <2>1. x \in U
    BY <1>1, <1>2
  <2>2. ASSUME NEW z \in U, \A y \in U : z <= y PROVE FALSE
    BY <1>2, <2>2
  <2> QED
    BY <2>1, <2>2
<1>5. IsWellFoundedOn(StrictSubsetOrdering(U), SUBSET U)
  BY <1>3, FS_StrictSubsetOrderingWellFounded, FS_FiniteSubsetsOfFinite
<1>6. PICK V \in Low : \A W \in Low : <<W, V>> \notin StrictSubsetOrdering(U)
  <2>1. Low \subseteq SUBSET U
    OBVIOUS
  <2> HIDE DEF Low, U
  <2> QED
    BY <1>4, <1>5, <2>1, WFMin
<1>7. PICK z \in V : TRUE
  BY <1>6
<1>8. \A y \in V : y \in Nat
  BY <1>2, <1>6
<1>9. CASE V \ {z} = {}
  <2>1. \A y \in V : z <= y
    BY <1>7, <1>8, <1>9
  <2> QED
    BY <1>6, <1>7, <2>1
<1>10. CASE V \ {z} # {}
  <2>1. <<V \ {z}, V>> \in StrictSubsetOrdering(U)
    BY <1>6, <1>7 DEF StrictSubsetOrdering
  <2>2. PICK m \in V \ {z} : \A y \in V \ {z} : m <= y
    BY <1>6, <1>10, <2>1
  <2>3. CASE m <= z
    BY <1>6, <1>7, <1>8, <2>2, <2>3
  <2>4. CASE ~(m <= z)
    <3>1. \A y \in V : z <= y
      BY <1>7, <1>8, <2>2, <2>4
    <3> QED
      BY <1>6, <1>7, <3>1
  <2> QED
    BY <2>3, <2>4
<1> QED
  BY <1>9, <1>10

(* A set of numbers with 0 and the successor of each member has them all. *)
LEMMA SetInduction ==
  ASSUME NEW S, 0 \in S, \A n \in Nat : n \in S => n + 1 \in S
  PROVE  \A n \in Nat : n \in S
<1> DEFINE T == {n \in Nat : n \notin S}
<1> SUFFICES ASSUME T # {} PROVE FALSE
  OBVIOUS
<1>1. PICK x \in T : \A y \in T : x <= y
  BY LeastExists
<1>2. x \in Nat /\ x # 0
  BY <1>1
<1>3. x - 1 \in Nat /\ ~(x <= x - 1) /\ x - 1 + 1 = x
  BY <1>2
<1> QED
  BY <1>1, <1>3

-----------------------------------------------------------------------------
(* A path goes on in another one. *)
GoesOn(p, q) == Len(p) < Len(q) /\ \A i \in 1..Len(p) : p[i] = q[i]

LEMMA PrefixGoesOn ==
  ASSUME NEW p \in Seq(Names), NEW q \in Seq(Names)
  PROVE  /\ Storage!IsStrictPrefix(p, q) <=> GoesOn(p, q)
         /\ Map!IsStrictPrefix(p, q) <=> GoesOn(p, q)
<1>1. Len(p) \in Nat /\ Len(q) \in Nat
  OBVIOUS
<1>2. SubSeq(p, 1, Len(p)) = p
  OBVIOUS
<1>3. ASSUME Len(p) <= Len(q)
      PROVE  SubSeq(q, 1, Len(p)) = [i \in 1..Len(p) |-> q[i]]
  BY <1>1, <1>3
<1>4. p = [i \in 1..Len(p) |-> p[i]] /\ q = [i \in 1..Len(q) |-> q[i]]
  OBVIOUS
<1>5. (Len(p) <= Len(q) /\ SubSeq(p, 1, Len(p)) = SubSeq(q, 1, Len(p)) /\ p # q) <=> GoesOn(p, q)
  <2>1. ASSUME Len(p) <= Len(q), SubSeq(p, 1, Len(p)) = SubSeq(q, 1, Len(p)), p # q
        PROVE  GoesOn(p, q)
    <3>1. \A i \in 1..Len(p) : p[i] = q[i]
      BY <1>2, <1>3, <2>1
    <3>2. Len(p) # Len(q)
      BY <1>4, <2>1, <3>1
    <3> QED
      BY <1>1, <2>1, <3>1, <3>2 DEF GoesOn
  <2>2. ASSUME GoesOn(p, q)
        PROVE  Len(p) <= Len(q) /\ SubSeq(p, 1, Len(p)) = SubSeq(q, 1, Len(p)) /\ p # q
    BY <1>1, <1>2, <1>3, <1>4, <2>2 DEF GoesOn
  <2> QED
    BY <2>1, <2>2
<1> QED
  BY <1>5 DEF Storage!IsStrictPrefix, Storage!IsPrefix, Map!IsStrictPrefix, Map!IsPrefix

LEMMA GoesOnTransitive ==
  ASSUME NEW p \in Seq(Names), NEW q \in Seq(Names), NEW r \in Seq(Names),
         GoesOn(p, q), GoesOn(q, r)
  PROVE  GoesOn(p, r)
<1>1. Len(p) \in Nat /\ Len(q) \in Nat /\ Len(r) \in Nat
  OBVIOUS
<1> QED
  BY <1>1 DEF GoesOn

LEMMA BranchesGoOn ==
  ASSUME NEW q \in Seq(Names)
  PROVE  /\ Storage!Branches(q) \subseteq Seq(Names) \ {<<>>}
         /\ \A p \in Seq(Names) \ {<<>>} : p \in Storage!Branches(q) <=> GoesOn(p, q)
<1>1. Len(q) \in Nat
  OBVIOUS
<1>2. Storage!Branches(q) = {p \in {SubSeq(q, 1, l) : l \in 0..Len(q)} : p \notin {<<>>, q}}
  BY DEF Storage!Branches, Storage!Prefixes
<1>3. \A l \in 0..Len(q) : SubSeq(q, 1, l) \in Seq(Names)
  BY <1>1
<1>4. ASSUME NEW p \in Seq(Names) \ {<<>>}, p \in Storage!Branches(q)
      PROVE  GoesOn(p, q)
  <2>1. PICK l \in 0..Len(q) : p = SubSeq(q, 1, l) /\ p # q
    BY <1>2, <1>4
  <2>2. l # Len(q)
    BY <1>1, <2>1
  <2>3. Len(p) = l /\ \A i \in 1..l : p[i] = q[i]
    BY <1>1, <2>1
  <2> QED
    BY <1>1, <2>2, <2>3 DEF GoesOn
<1>5. ASSUME NEW p \in Seq(Names) \ {<<>>}, GoesOn(p, q)
      PROVE  p \in Storage!Branches(q)
  <2>1. Len(p) \in Nat /\ Len(p) < Len(q)
    BY <1>5 DEF GoesOn
  <2>2. SubSeq(q, 1, Len(p)) = [i \in 1..Len(p) |-> q[i]]
    BY <1>1, <2>1
  <2>3. p = SubSeq(q, 1, Len(p))
    BY <1>5, <2>2 DEF GoesOn
  <2>4. p # q /\ Len(p) \in 0..Len(q)
    BY <1>1, <2>1
  <2> QED
    BY <1>2, <2>3, <2>4
<1> QED
  BY <1>2, <1>3, <1>4, <1>5

-----------------------------------------------------------------------------
(* A list of the paths in K, in which none comes after one that it goes on in. *)
Listing(order, K) ==
  \E n \in Nat :
    /\ order \in [1..n -> K]
    /\ \A p \in K : \E i \in 1..n : order[i] = p
    /\ \A i, j \in 1..n : GoesOn(order[i], order[j]) => i < j
    /\ IsFiniteSet(K) /\ n = Cardinality(K)

(* A shortest path may come first. *)
LEMMA ListingExists ==
  ASSUME NEW K \in SUBSET Seq(Names), IsFiniteSet(K)
  PROVE  \E order : Listing(order, K)
<1> DEFINE Good == {n \in Nat : \A L \in SUBSET Seq(Names) :
                      IsFiniteSet(L) /\ Cardinality(L) = n => \E order : Listing(order, L)}
<1>1. 0 \in Good
  <2>1. ASSUME NEW L \in SUBSET Seq(Names), IsFiniteSet(L), Cardinality(L) = 0
        PROVE  Listing([i \in 1..0 |-> i], L)
    <3>1. L = {}
      BY <2>1, FS_EmptySet
    <3>2. 1..0 = {}
      OBVIOUS
    <3> QED
      BY <2>1, <3>1, <3>2 DEF Listing
  <2> QED
    BY <2>1
<1>2. ASSUME NEW n \in Nat, n \in Good PROVE n + 1 \in Good
  <2> SUFFICES ASSUME NEW L \in SUBSET Seq(Names), IsFiniteSet(L), Cardinality(L) = n + 1
               PROVE  \E order : Listing(order, L)
    OBVIOUS
  <2> DEFINE Lens == {Len(p) : p \in L}
  <2>1. \A p \in L : Len(p) \in Nat
    OBVIOUS
  <2>2. L # {}
    BY FS_EmptySet
  <2>3. PICK p \in L : \A q \in L : Len(p) <= Len(q)
    <3>1. Lens \in SUBSET Nat /\ Lens # {}
      BY <2>1, <2>2
    <3>2. PICK x \in Lens : \A y \in Lens : x <= y
      BY <3>1, LeastExists
    <3> QED
      BY <3>2
  <2>4. IsFiniteSet(L \ {p}) /\ Cardinality(L \ {p}) = n
    <3>1. IsFiniteSet(L \ {p}) /\ Cardinality(L \ {p}) = Cardinality(L) - 1
      BY <2>3, FS_RemoveElement
    <3> QED
      BY <3>1
  <2>5. PICK rest : Listing(rest, L \ {p})
    BY <1>2, <2>4
  <2>6. /\ rest \in [1..n -> L \ {p}]
        /\ \A q \in L \ {p} : \E i \in 1..n : rest[i] = q
        /\ \A i, j \in 1..n : GoesOn(rest[i], rest[j]) => i < j
    BY <2>4, <2>5 DEF Listing
  <2>7. PICK order : order = [i \in 1..n + 1 |-> IF i = 1 THEN p ELSE rest[i - 1]]
    OBVIOUS
  <2>8. \A i \in 1..n + 1 : i # 1 => i - 1 \in 1..n
    OBVIOUS
  <2>9. order \in [1..n + 1 -> L]
    BY <2>3, <2>6, <2>7, <2>8
  <2>10. \A q \in L : \E i \in 1..n + 1 : order[i] = q
    <3> SUFFICES ASSUME NEW q \in L PROVE \E i \in 1..n + 1 : order[i] = q
      OBVIOUS
    <3>1. CASE q = p
      BY <2>7, <3>1
    <3>2. CASE q # p
      <4>1. PICK i \in 1..n : rest[i] = q
        BY <2>6, <3>2
      <4>2. i + 1 \in 1..n + 1 /\ i + 1 # 1 /\ i + 1 - 1 = i
        OBVIOUS
      <4>3. order[i + 1] = q
        BY <2>7, <4>1, <4>2
      <4> QED
        BY <4>2, <4>3
    <3> QED
      BY <3>1, <3>2
  <2>11. ASSUME NEW i \in 1..n + 1, NEW j \in 1..n + 1, GoesOn(order[i], order[j])
         PROVE  i < j
    <3>1. CASE j = 1
      <4>1. order[j] = p /\ order[i] \in L
        BY <2>7, <2>9, <3>1
      <4>2. Len(order[i]) < Len(p)
        BY <2>11, <4>1 DEF GoesOn
      <4> QED
        BY <2>1, <2>3, <4>1, <4>2
    <3>2. CASE j # 1 /\ i = 1
      BY <3>2
    <3>3. CASE j # 1 /\ i # 1
      <4>1. i - 1 \in 1..n /\ j - 1 \in 1..n
        BY <2>8, <3>3
      <4>2. order[i] = rest[i - 1] /\ order[j] = rest[j - 1]
        BY <2>7, <3>3
      <4>3. i - 1 < j - 1
        BY <2>6, <2>11, <4>1, <4>2
      <4> QED
        BY <4>3
    <3> QED
      BY <3>1, <3>2, <3>3
  <2>12. Listing(order, L)
    <3>1. n + 1 \in Nat
      OBVIOUS
    <3> QED
      BY <2>9, <2>10, <2>11, <3>1 DEF Listing
  <2> QED
    BY <2>12
<1>3. Cardinality(K) \in Nat
  BY FS_CardinalityType
<1>4. Cardinality(K) \in Good
  <2> HIDE DEF Good
  <2> QED
    BY <1>1, <1>2, <1>3, SetInduction
<1> QED
  BY <1>4

(* So the order in which save() writes the entries is one. *)
LEMMA InOrderIsListing ==
  ASSUME NEW K \in SUBSET Seq(Names), IsFiniteSet(K)
  PROVE  Listing(Storage!InOrder(K), K)
<1> DEFINE IsOrder(order) ==
             /\ Storage!Range(order) = K
             /\ \A m, n \in DOMAIN order : Storage!IsStrictPrefix(order[m], order[n]) => m < n
<1>1. Cardinality(K) \in Nat
  BY FS_CardinalityType
<1>2. ASSUME NEW order \in [1..Cardinality(K) -> K]
      PROVE  IsOrder(order) <=> Listing(order, K)
  <2>1. DOMAIN order = 1..Cardinality(K) /\ \A i \in 1..Cardinality(K) : order[i] \in K
    OBVIOUS
  <2>2. \A i \in 1..Cardinality(K) : order[i] \in Seq(Names)
    BY <2>1
  <2>3. \A m, n \in 1..Cardinality(K) :
          Storage!IsStrictPrefix(order[m], order[n]) <=> GoesOn(order[m], order[n])
    BY <2>2, PrefixGoesOn
  <2>4. Storage!Range(order) = K <=> \A p \in K : \E i \in 1..Cardinality(K) : order[i] = p
    BY <2>1 DEF Storage!Range
  <2> QED
    BY <1>1, <2>1, <2>3, <2>4 DEF Listing
<1>3. Storage!Cardinality(K) = Cardinality(K)
  BY DEF Cardinality, Storage!Cardinality
<1>4. Storage!InOrder(K) = CHOOSE order \in [1..Cardinality(K) -> K] : IsOrder(order)
  BY <1>3 DEF Storage!InOrder
<1>5. \E order \in [1..Cardinality(K) -> K] : IsOrder(order)
  <2>1. PICK order : Listing(order, K)
    BY ListingExists
  <2>2. order \in [1..Cardinality(K) -> K]
    BY <2>1 DEF Listing
  <2> HIDE DEF IsOrder
  <2> QED
    BY <1>2, <2>1, <2>2
<1>6. Storage!InOrder(K) \in [1..Cardinality(K) -> K] /\ IsOrder(Storage!InOrder(K))
  <2> HIDE DEF IsOrder
  <2> QED
    BY <1>4, <1>5
<1> HIDE DEF IsOrder
<1> QED
  BY <1>2, <1>6

-----------------------------------------------------------------------------
(* The document of the entries whose paths are in W. *)
Written(entries, W) ==
  [p \in W \cup UNION {Storage!Branches(w) : w \in W} |->
     IF \E w \in W : p \in Storage!Branches(w) THEN Object ELSE entries[p]]

LEMMA WriteNext ==
  ASSUME NEW entries, NEW W \in SUBSET Seq(Names), NEW path \in Seq(Names),
         \A w \in W : ~GoesOn(path, w), <<>> \notin W, path # <<>>
  PROVE  Storage!WriteTo(Written(entries, W), path, entries[path]) = Written(entries, W \cup {path})
<1> DEFINE D == W \cup UNION {Storage!Branches(w) : w \in W}
           V == W \cup {path}
           E == V \cup UNION {Storage!Branches(w) : w \in V}
<1>1. \A p \in D : p \in Seq(Names) \ {<<>>} /\ ~GoesOn(path, p)
  <2> SUFFICES ASSUME NEW p \in D PROVE p \in Seq(Names) \ {<<>>} /\ ~GoesOn(path, p)
    OBVIOUS
  <2>1. CASE p \in W
    BY <2>1
  <2>2. CASE p \notin W
    <3>1. PICK w \in W : p \in Storage!Branches(w)
      BY <2>2
    <3>2. w \in Seq(Names)
      OBVIOUS
    <3>3. p \in Seq(Names) \ {<<>>} /\ GoesOn(p, w)
      BY <3>1, <3>2, BranchesGoOn
    <3> QED
      BY <3>2, <3>3, GoesOnTransitive
  <2> QED
    BY <2>1, <2>2
<1>2. {p \in D : ~Storage!IsStrictPrefix(path, p)} = D
  BY <1>1, PrefixGoesOn
<1>3. D \cup Storage!Branches(path) \cup {path} = E
  OBVIOUS
<1>4. \A w \in V : path \notin Storage!Branches(w)
  <2>1. path \notin Storage!Branches(path)
    BY DEF Storage!Branches
  <2>2. \A w \in W : path \notin Storage!Branches(w)
    BY BranchesGoOn
  <2> QED
    BY <2>1, <2>2
<1>5. PICK obj : obj = Written(entries, W)
  OBVIOUS
<1>6. DOMAIN obj = D /\ \A p \in D :
        obj[p] = IF \E w \in W : p \in Storage!Branches(w) THEN Object ELSE entries[p]
  BY <1>5 DEF Written
<1>7. Storage!WriteTo(obj, path, entries[path]) =
        [p \in E |-> IF p = path THEN entries[path]
                     ELSE IF p \in Storage!Branches(path) THEN Object ELSE obj[p]]
  <2> HIDE DEF D, E
  <2> QED
    BY <1>2, <1>3, <1>6 DEF Storage!WriteTo
<1>8. \A p \in E :
        (IF p = path THEN entries[path]
         ELSE IF p \in Storage!Branches(path) THEN Object ELSE obj[p])
        = IF \E w \in V : p \in Storage!Branches(w) THEN Object ELSE entries[p]
  <2> SUFFICES ASSUME NEW p \in E
               PROVE (IF p = path THEN entries[path]
                      ELSE IF p \in Storage!Branches(path) THEN Object ELSE obj[p])
                     = IF \E w \in V : p \in Storage!Branches(w) THEN Object ELSE entries[p]
    OBVIOUS
  <2>1. CASE p = path
    BY <1>4, <2>1
  <2>2. CASE p # path /\ p \in Storage!Branches(path)
    BY <2>2
  <2>3. CASE p # path /\ p \notin Storage!Branches(path)
    <3>1. p \in D
      BY <2>3
    <3>2. (\E w \in V : p \in Storage!Branches(w)) <=> \E w \in W : p \in Storage!Branches(w)
      BY <2>3
    <3> QED
      BY <1>6, <2>3, <3>1, <3>2
  <2> QED
    BY <2>1, <2>2, <2>3
<1>9. Written(entries, V) =
        [p \in E |-> IF \E w \in V : p \in Storage!Branches(w) THEN Object ELSE entries[p]]
  BY DEF Written
<1> QED
  <2> HIDE DEF D, E, V
  <2>1. Storage!WriteTo(obj, path, entries[path]) = Written(entries, V)
    BY <1>7, <1>8, <1>9
  <2> QED
    BY <1>5, <2>1 DEF V

-----------------------------------------------------------------------------
(* What the loop of save() has written after some of the steps of a list. *)
IsLoop(loop, entries, order) ==
  loop = [s \in SUBSET DOMAIN order |->
            IF s = {} THEN Storage!EmptyDocument
            ELSE Storage!WriteTo(loop[s \ {Storage!Max(s)}], order[Storage!Max(s)],
                                 entries[order[Storage!Max(s)]])]

LEMMA DocumentIsLoop ==
  ASSUME NEW entries, NEW order, order = Storage!InOrder(DOMAIN entries)
  PROVE  Storage!Document(entries) = (CHOOSE loop : IsLoop(loop, entries, order))[DOMAIN order]
<1>1. Storage!Document(entries) =
        LET iter == CHOOSE iter : iter = [s \in SUBSET DOMAIN order |->
              IF s = {} THEN Storage!EmptyDocument
              ELSE Storage!WriteTo(iter[s \ {Storage!Max(s)}], order[Storage!Max(s)],
                                   entries[order[Storage!Max(s)]])]
        IN  iter[DOMAIN order]
  BY Zenon DEF Storage!Document, Storage!FoldLeft, Storage!MapThenFoldSet
<1> QED
  BY <1>1, Zenon DEF IsLoop

LEMMA MaxOfSet ==
  ASSUME NEW n \in Nat, NEW s \in SUBSET (1..n), s # {}
  PROVE  Storage!Max(s) \in s /\ \A i \in s : i <= Storage!Max(s)
<1> DEFINE Above == {m \in Nat : \A i \in s : i <= m}
<1>1. \A i \in s : i \in Nat /\ i <= n
  OBVIOUS
<1>2. n \in Above
  BY <1>1
<1>3. PICK m \in Above : \A k \in Above : m <= k
  <2>1. Above \in SUBSET Nat /\ Above # {}
    BY <1>2
  <2> HIDE DEF Above
  <2> QED
    BY <2>1, LeastExists
<1>4. m \in s
  <2> SUFFICES ASSUME m \notin s PROVE FALSE
    OBVIOUS
  <2>1. PICK i \in s : TRUE
    OBVIOUS
  <2>2. i <= m /\ i # m /\ m \in Nat
    BY <1>3, <2>1
  <2>3. m - 1 \in Nat
    BY <1>1, <2>1, <2>2
  <2>4. \A k \in s : k <= m - 1
    BY <1>1, <1>3
  <2>5. m - 1 \in Above
    BY <2>3, <2>4
  <2> QED
    BY <1>3, <2>3, <2>5
<1>5. \A i \in s : m >= i
  BY <1>1, <1>3
<1>6. Storage!Max(s) \in s /\ \A i \in s : Storage!Max(s) >= i
  BY <1>4, <1>5 DEF Storage!Max
<1> QED
  BY <1>1, <1>6

Listed(order, s) == {order[i] : i \in s}

(* The document of the listed paths fits the loop. *)
LEMMA WrittenIsLoop ==
  ASSUME NEW entries, NEW order, NEW K \in SUBSET (Seq(Names) \ {<<>>}), Listing(order, K)
  PROVE  IsLoop([s \in SUBSET DOMAIN order |-> Written(entries, Listed(order, s))], entries, order)
<1>1. PICK n \in Nat :
        /\ order \in [1..n -> K]
        /\ \A i, j \in 1..n : GoesOn(order[i], order[j]) => i < j
  BY DEF Listing
<1>2. DOMAIN order = 1..n
  BY <1>1
<1>3. PICK loop : loop = [s \in SUBSET (1..n) |-> Written(entries, Listed(order, s))]
  OBVIOUS
<1>4. Written(entries, Listed(order, {})) = Storage!EmptyDocument
  <2>1. Listed(order, {}) = {}
    BY DEF Listed
  <2>2. {} \cup UNION {Storage!Branches(w) : w \in {}} = {}
    OBVIOUS
  <2> QED
    BY <2>1, <2>2 DEF Written, Storage!EmptyDocument
<1>5. ASSUME NEW s \in SUBSET (1..n), s # {}
      PROVE  loop[s] = Storage!WriteTo(loop[s \ {Storage!Max(s)}], order[Storage!Max(s)],
                                       entries[order[Storage!Max(s)]])
  <2>1. PICK m : m = Storage!Max(s)
    OBVIOUS
  <2>2. m \in s /\ m \in 1..n /\ \A i \in s : i <= m
    BY <1>5, <2>1, MaxOfSet
  <2>3. PICK path : path = order[m]
    OBVIOUS
  <2>4. PICK W : W = Listed(order, s \ {m})
    OBVIOUS
  <2>5. \A i \in 1..n : order[i] \in Seq(Names) /\ order[i] # <<>>
    BY <1>1
  <2>6. W \in SUBSET Seq(Names) /\ <<>> \notin W /\ path \in Seq(Names) /\ path # <<>>
    BY <2>2, <2>3, <2>4, <2>5 DEF Listed
  <2>7. \A w \in W : ~GoesOn(path, w)
    <3> SUFFICES ASSUME NEW w \in W, GoesOn(path, w) PROVE FALSE
      OBVIOUS
    <3>1. PICK i \in s \ {m} : w = order[i]
      BY <2>4 DEF Listed
    <3>2. i \in 1..n /\ i <= m
      BY <2>2, <3>1
    <3>3. m < i
      BY <1>1, <2>2, <2>3, <3>1, <3>2
    <3> QED
      BY <2>2, <3>2, <3>3
  <2>8. Storage!WriteTo(Written(entries, W), path, entries[path]) = Written(entries, W \cup {path})
    BY <2>6, <2>7, WriteNext
  <2>9. W \cup {path} = Listed(order, s)
    BY <2>2, <2>3, <2>4 DEF Listed
  <2>10. loop[s \ {m}] = Written(entries, W) /\ loop[s] = Written(entries, Listed(order, s))
    BY <1>3, <2>4
  <2> QED
    BY <2>1, <2>3, <2>8, <2>9, <2>10
<1>6. loop[{}] = Storage!EmptyDocument
  <2>1. {} \in SUBSET (1..n)
    OBVIOUS
  <2> QED
    BY <1>3, <1>4, <2>1
<1>7. \A s \in SUBSET (1..n) : loop[s] =
        IF s = {} THEN Storage!EmptyDocument
        ELSE Storage!WriteTo(loop[s \ {Storage!Max(s)}], order[Storage!Max(s)],
                             entries[order[Storage!Max(s)]])
  BY <1>5, <1>6
<1>8. loop = [s \in SUBSET (1..n) |-> loop[s]]
  BY <1>3
<1>9. IsLoop(loop, entries, order)
  BY <1>2, <1>7, <1>8 DEF IsLoop
<1> QED
  BY <1>2, <1>3, <1>9

(* There is only one loop, so the document is that of all paths. *)
LEMMA DocumentIsWritten ==
  ASSUME NEW entries, DOMAIN entries \in SUBSET (Seq(Names) \ {<<>>}), IsFiniteSet(DOMAIN entries)
  PROVE  Storage!Document(entries) = Written(entries, DOMAIN entries)
<1>1. PICK order : order = Storage!InOrder(DOMAIN entries)
  OBVIOUS
<1>2. Listing(order, DOMAIN entries)
  <2>1. DOMAIN entries \in SUBSET Seq(Names)
    OBVIOUS
  <2> QED
    BY <1>1, <2>1, InOrderIsListing
<1>3. PICK n \in Nat :
        /\ order \in [1..n -> DOMAIN entries]
        /\ \A p \in DOMAIN entries : \E i \in 1..n : order[i] = p
        /\ \A i, j \in 1..n : GoesOn(order[i], order[j]) => i < j
  BY <1>2 DEF Listing
<1>4. PICK chosen : chosen = CHOOSE loop : IsLoop(loop, entries, order)
  OBVIOUS
<1>5. IsLoop(chosen, entries, order)
  <2>1. \E loop : IsLoop(loop, entries, order)
    BY <1>2, WrittenIsLoop
  <2> QED
    BY <1>4, <2>1, Zenon
<1>6. DOMAIN order = 1..n
  BY <1>3
<1>7. \A s \in SUBSET (1..n) : chosen[s] =
        IF s = {} THEN Storage!EmptyDocument
        ELSE Storage!WriteTo(chosen[s \ {Storage!Max(s)}], order[Storage!Max(s)],
                             entries[order[Storage!Max(s)]])
  <2>1. chosen = [s \in SUBSET (1..n) |->
          IF s = {} THEN Storage!EmptyDocument
          ELSE Storage!WriteTo(chosen[s \ {Storage!Max(s)}], order[Storage!Max(s)],
                               entries[order[Storage!Max(s)]])]
    BY <1>5, <1>6 DEF IsLoop
  <2> QED
    BY <2>1, Zenon
<1>8. PICK loop : loop = [s \in SUBSET (1..n) |-> Written(entries, Listed(order, s))]
  OBVIOUS
<1>9. \A s \in SUBSET (1..n) : loop[s] =
        IF s = {} THEN Storage!EmptyDocument
        ELSE Storage!WriteTo(loop[s \ {Storage!Max(s)}], order[Storage!Max(s)],
                             entries[order[Storage!Max(s)]])
  <2>1. IsLoop(loop, entries, order)
    BY <1>2, <1>6, <1>8, WrittenIsLoop
  <2>2. loop = [s \in SUBSET (1..n) |->
          IF s = {} THEN Storage!EmptyDocument
          ELSE Storage!WriteTo(loop[s \ {Storage!Max(s)}], order[Storage!Max(s)],
                               entries[order[Storage!Max(s)]])]
    BY <1>6, <2>1 DEF IsLoop
  <2> QED
    BY <2>2, Zenon
<1> DEFINE Same == {k \in Nat : k <= n => chosen[1..k] = loop[1..k]}
<1>10. 0 \in Same
  <2>1. 1..0 = {} /\ 1..0 \in SUBSET (1..n)
    OBVIOUS
  <2>2. chosen[1..0] = loop[1..0]
    BY <1>7, <1>9, <2>1
  <2> QED
    BY <2>2
<1>11. ASSUME NEW k \in Nat, k \in Same PROVE k + 1 \in Same
  <2> SUFFICES ASSUME k + 1 <= n PROVE chosen[1..k + 1] = loop[1..k + 1]
    OBVIOUS
  <2>1. 1..k + 1 \in SUBSET (1..n) /\ 1..k + 1 # {}
    <3>1. 1 \in 1..k + 1 /\ \A i \in 1..k + 1 : i \in 1..n
      OBVIOUS
    <3> QED
      BY <3>1
  <2>2. Storage!Max(1..k + 1) = k + 1
    <3>1. PICK m : m = Storage!Max(1..k + 1)
      OBVIOUS
    <3>2. m \in 1..k + 1 /\ \A i \in 1..k + 1 : i <= m
      BY <2>1, <3>1, MaxOfSet
    <3>3. k + 1 \in 1..k + 1
      OBVIOUS
    <3>4. m = k + 1
      BY <3>2, <3>3
    <3> QED
      BY <3>1, <3>4
  <2>3. (1..k + 1) \ {k + 1} = 1..k
    OBVIOUS
  <2>4. chosen[1..k] = loop[1..k]
    BY <1>11
  <2>5. chosen[1..k + 1] = Storage!WriteTo(chosen[1..k], order[k + 1], entries[order[k + 1]])
    BY <1>7, <2>1, <2>2, <2>3
  <2>6. loop[1..k + 1] = Storage!WriteTo(loop[1..k], order[k + 1], entries[order[k + 1]])
    BY <1>9, <2>1, <2>2, <2>3
  <2> QED
    BY <2>4, <2>5, <2>6
<1>12. n \in Same
  <2> HIDE DEF Same
  <2> QED
    BY <1>10, <1>11, SetInduction
<1>13. chosen[1..n] = Written(entries, Listed(order, 1..n))
  BY <1>8, <1>12
<1>14. Listed(order, 1..n) = DOMAIN entries
  BY <1>3 DEF Listed
<1>15. Storage!Document(entries) = chosen[DOMAIN order]
  BY <1>1, <1>4, DocumentIsLoop
<1> QED
  BY <1>6, <1>13, <1>14, <1>15

-----------------------------------------------------------------------------
(* What the file keeps of any entries: those whose path goes on in no other one,
   which readNode finds among the members that are not objects (configuration_json_storage.cpp:17
   to 70). *)
THEOREM StorageAlwaysKeeps == StorageKeeps
<1> SUFFICES ASSUME NEW entries \in Contents(Keys)
             PROVE  /\ Storage!Document(entries) # Absent
                    /\ Storage!ReadNode(Storage!Document(entries)) = Map!Storable(entries)
  BY DEF StorageKeeps
<1>1. PICK K \in SUBSET Keys : entries \in [K -> Values]
  BY DEF Contents
<1>2. K \in SUBSET (Seq(Names) \ {<<>>}) /\ IsFiniteSet(K)
  BY StorageAssumption, FS_Subset DEF StorageAssumption
<1>3. DOMAIN entries = K /\ \A p \in K : entries[p] \in Values /\ entries[p] # Object
  BY <1>1, ConfigurationAssumption DEF ConfigurationAssumption
<1>4. PICK doc : doc = Written(entries, K)
  OBVIOUS
<1>5. Storage!Document(entries) = doc
  BY <1>2, <1>3, <1>4, DocumentIsWritten
<1> DEFINE D == K \cup UNION {Storage!Branches(w) : w \in K}
           Kept == {p \in K : ~\E q \in K : Map!IsStrictPrefix(p, q)}
<1>6. doc = [p \in D |-> IF \E w \in K : p \in Storage!Branches(w) THEN Object ELSE entries[p]]
  BY <1>4 DEF Written
<1>7. doc # Absent
  <2>1. doc \in [D -> Values \cup {Object}]
    <3>1. \A p \in D : (IF \E w \in K : p \in Storage!Branches(w) THEN Object ELSE entries[p])
                         \in Values \cup {Object}
      BY <1>3
    <3> QED
      BY <1>6, <3>1
  <2>2. \A k \in Keys : Prefixes(k) = Storage!Prefixes(k)
    BY DEF Prefixes, Storage!Prefixes
  <2>3. \A k \in Keys : Storage!Branches(k) \subseteq Prefixes(k)
    BY <2>2 DEF Storage!Branches
  <2>4. \A k \in Keys : k \in Prefixes(k)
    <3>1. ASSUME NEW k \in Seq(Names) PROVE k \in Prefixes(k)
      <4>1. k = SubSeq(k, 1, Len(k)) /\ Len(k) \in 0..Len(k)
        OBVIOUS
      <4> QED
        BY <4>1 DEF Prefixes
    <3> QED
      BY <3>1, StorageAssumption DEF StorageAssumption
  <2>5. D \in SUBSET UNION {Prefixes(k) : k \in Keys}
    BY <2>3, <2>4
  <2> HIDE DEF D
  <2> QED
    BY <2>1, <2>5, StorageAssumption DEF StorageAssumption
<1>8. {p \in D : doc[p] # Object} = Kept
  <2>1. \A p \in D : doc[p] # Object <=> ~\E w \in K : p \in Storage!Branches(w)
    BY <1>3, <1>6
  <2>2. \A p \in K, w \in K : p \in Storage!Branches(w) <=> Map!IsStrictPrefix(p, w)
    BY <1>2, BranchesGoOn, PrefixGoesOn
  <2> QED
    BY <2>1, <2>2
<1>9. \A p \in Kept : doc[p] = entries[p]
  <2>1. \A p \in K, w \in K : p \in Storage!Branches(w) <=> Map!IsStrictPrefix(p, w)
    BY <1>2, BranchesGoOn, PrefixGoesOn
  <2> QED
    BY <1>6, <2>1
<1>10. Storage!ReadNode(doc) = [p \in {q \in D : doc[q] # Object} |-> doc[p]]
  BY <1>6 DEF Storage!RestrictValues, Storage!Restrict, Storage!ReadNode
<1>11. Map!Storable(entries) = [p \in Kept |-> entries[p]]
  BY <1>3 DEF Map!Storable, Map!Restrict
<1>12. Storage!ReadNode(doc) = [p \in Kept |-> doc[p]]
  BY <1>8, <1>10
<1>13. Storage!ReadNode(doc) = Map!Storable(entries)
  BY <1>9, <1>11, <1>12
<1> QED
  BY <1>5, <1>7, <1>13

-----------------------------------------------------------------------------
(* What the storage keeps of a map is a map with some of its keys. *)
LEMMA StorableIn ==
  ASSUME NEW S, NEW map \in Contents(S)
  PROVE  Map!Storable(map) \in Contents(S)
<1>1. PICK K \in SUBSET S : map \in [K -> Values]
  BY DEF Contents
<1> DEFINE L == {p \in DOMAIN map : ~\E q \in DOMAIN map : Map!IsStrictPrefix(p, q)}
<1>2. Map!Storable(map) \in [L -> Values] /\ L \in SUBSET S
  BY <1>1 DEF Map!Storable, Map!Restrict
<1> QED
  BY <1>2 DEF Contents

(* To store it again loses nothing more. *)
LEMMA StorableTwice ==
  ASSUME NEW S, NEW map \in Contents(S)
  PROVE  Map!Storable(Map!Storable(map)) = Map!Storable(map)
<1>1. PICK K \in SUBSET S : map \in [K -> Values]
  BY DEF Contents
<1> DEFINE L == {p \in DOMAIN map : ~\E q \in DOMAIN map : Map!IsStrictPrefix(p, q)}
           M == {p \in L : ~\E q \in L : Map!IsStrictPrefix(p, q)}
<1>2. Map!Storable(map) = [p \in L |-> map[p]]
  BY DEF Map!Storable, Map!Restrict
<1>3. Map!Storable([p \in L |-> map[p]]) = [p \in M |-> [q \in L |-> map[q]][p]]
  BY DEF Map!Storable, Map!Restrict
<1>4. M = L
  OBVIOUS
<1> QED
  BY <1>2, <1>3, <1>4

(* The map without keys. *)
LEMMA EmptyMap ==
  /\ \A S : Storage!EmptyDocument \in Contents(S)
  /\ Map!Empty = Storage!EmptyDocument
  /\ Map!Storable(Map!Empty) = Map!Empty
<1>1. Map!Empty = Storage!EmptyDocument
  BY DEF Map!Empty, Storage!EmptyDocument
<1>2. Map!Empty \in [{} -> Values]
  BY DEF Map!Empty
<1>3. Map!Storable(Map!Empty) = Map!Empty
  BY DEF Map!Storable, Map!Restrict, Map!Empty
<1> QED
  BY <1>1, <1>2, <1>3 DEF Contents

(* What load() returns is what the storage keeps of some map, or nothing. *)
LEMMA StoredIn ==
  ASSUME TypeOK, UseInv
  PROVE  /\ Storage!Stored \in Contents(keys)
         /\ Map!Storable(Storage!Stored) = Storage!Stored
         /\ \E map \in Contents(keys) : Storage!Stored \in {Map!Empty, Map!Storable(map)}
<1>1. CASE file = Absent
  BY <1>1, EmptyMap DEF Storage!Stored
<1>2. CASE file # Absent
  <2>1. PICK map \in Contents(keys) : file = Storage!Document(map)
    BY <1>2 DEF TypeOK
  <2>2. map \in Contents(Keys)
    BY DEF Contents, UseInv
  <2>3. Storage!Stored = Map!Storable(map)
    BY <1>2, <2>1, <2>2, StorageAlwaysKeeps DEF StorageKeeps, Storage!Stored
  <2> QED
    BY <2>3, StorableIn, StorableTwice
<1> QED
  BY <1>1, <1>2

-----------------------------------------------------------------------------
LEMMA InitIInv == Init => IInv
<1> SUFFICES ASSUME Init PROVE IInv
  OBVIOUS
<1>1. UseInv
  BY ConfigurationAssumption DEF Init, UseInv, ConfigurationAssumption
<1>2. PICK map \in Contents(keys) : file \in {Absent, Storage!Document(map)}
  BY DEF Init
<1>3. Storage!Stored \in Contents(keys) /\ Map!Storable(Storage!Stored) = Storage!Stored
  <2>1. CASE file = Absent
    BY <2>1, EmptyMap DEF Storage!Stored
  <2>2. CASE file # Absent
    <3>1. map \in Contents(Keys)
      BY <1>1 DEF Contents, UseInv
    <3>2. Storage!Stored = Map!Storable(map)
      BY <1>2, <2>2, <3>1, StorageAlwaysKeeps DEF StorageKeeps, Storage!Stored
    <3> QED
      BY <3>2, StorableIn, StorableTwice
  <2> QED
    BY <2>1, <2>2
<1>4. m_entries \in Contents(keys)
  BY <1>3, EmptyMap DEF Init, Storage!Loaded
<1>5. TypeOK
  <2>1. <<>> \in Seq(Watchers)
    OBVIOUS
  <2> QED
    BY <1>2, <1>4, <2>1 DEF Init, TypeOK, Labels, Nothing
<1>6. LockInv /\ WriteInv
  BY ConfigurationAssumption DEF Init, LockInv, WriteInv, ConfigurationAssumption
<1>7. SaveInv
  BY <1>3 DEF Init, SaveInv, Saved, Careful, Storage!Loaded
<1> QED
  BY <1>1, <1>5, <1>6, <1>7 DEF IInv

(* Every variable keeps its type. *)
LEMMA NextTypeOK == IInv /\ [Next]_vars => TypeOK' /\ UseInv'
<1> SUFFICES ASSUME IInv, [Next]_vars PROVE TypeOK' /\ UseInv'
  OBVIOUS
<1>1. UNCHANGED use
  BY DEF vars, use, Next, CallSetEntry, CallSetDefaultValue, WatchFor, Continue, Probe, Store,
     CallWatcher, MarkDataDirty, Timeout, SaveData, SaveDataReturns, Destruct, Crash, Construct
<1>2. UseInv'
  BY <1>1 DEF IInv, UseInv, use
<1> SUFFICES TypeOK'
  BY <1>2
<1> USE ConfigurationAssumption, <1>1
    DEF IInv, UseInv, use, TypeOK, Labels, Goto, Return, Nothing, ConfigurationAssumption
<1>3. CASE UNCHANGED vars
  BY <1>3 DEF vars
<1>4. ASSUME NEW t \in Threads, NEW k \in keys, NEW v \in Values,
             CallSetEntry(t, k, v) \/ CallSetDefaultValue(t, k, v)
      PROVE  TypeOK'
  <2>1. [key |-> k, value |-> v] \in [key : Keys \cup {None}, value : Values \cup {None}]
    OBVIOUS
  <2>2. pc' \in [Threads -> Labels]
    BY <1>4 DEF CallSetEntry, CallSetDefaultValue
  <2>3. arg' \in [Threads -> [key : Keys \cup {None}, value : Values \cup {None}]]
    <3>1. PICK call : call = [key |-> k, value |-> v]
      OBVIOUS
    <3>2. arg' = [arg EXCEPT ![t] = call]
      BY <1>4, <3>1 DEF CallSetEntry, CallSetDefaultValue
    <3>3. PICK Args : Args = [key : Keys \cup {None}, value : Values \cup {None}]
      OBVIOUS
    <3>4. arg \in [Threads -> Args] /\ call \in Args
      BY <2>1, <3>1, <3>3
    <3>5. arg' \in [Threads -> Args]
      BY ONLY <3>2, <3>4
    <3> QED
      BY ONLY <3>3, <3>5
  <2> QED
    BY <1>4, <2>2, <2>3 DEF CallSetEntry, CallSetDefaultValue
<1>5. ASSUME NEW t \in Threads, NEW k \in keys, NEW w \in Watchers, WatchFor(t, k, w)
      PROVE  TypeOK'
  BY <1>5 DEF WatchFor
<1>6. ASSUME NEW t \in Threads, Probe(t) PROVE TypeOK'
  <2>1. pc' \in [Threads -> Labels]
    BY <1>6 DEF Probe
  <2>2. [key |-> None, value |-> None] \in [key : Keys \cup {None}, value : Values \cup {None}]
    OBVIOUS
  <2>3. arg' \in [Threads -> [key : Keys \cup {None}, value : Values \cup {None}]]
    BY <1>6, <2>2 DEF Probe
  <2> QED
    BY <1>6, <2>1, <2>3 DEF Probe
<1>7. ASSUME NEW t \in Threads, Store(t) PROVE TypeOK'
  <2>1. arg[t].key \in keys /\ arg[t].value \in Values
    BY <1>7 DEF Store, LockInv
  <2>2. PICK K \in SUBSET keys : m_entries \in [K -> Values]
    BY DEF Contents
  <2>3. m_entries' \in [K \cup {arg[t].key} -> Values]
    BY <1>7, <2>1, <2>2 DEF Store
  <2>4. m_entries' \in Contents(keys)'
    <3>1. K \cup {arg[t].key} \in SUBSET keys'
      BY <2>1
    <3> HIDE DEF TypeOK, IInv, UseInv
    <3> QED
      BY <2>3, <3>1 DEF Contents
  <2> QED
    BY <1>7, <2>1, <2>4 DEF Store
<1>8. ASSUME NEW t \in Threads, CallWatcher(t) PROVE TypeOK'
  <2>1. Head(todo[t]) \in Watchers /\ Tail(todo[t]) \in Seq(Watchers)
    BY <1>8 DEF CallWatcher
  <2>2. arg[t].key \in Keys /\ arg[t].value \in Values
    BY <1>8 DEF CallWatcher, LockInv
  <2> QED
    BY <1>8, <2>1, <2>2 DEF CallWatcher
<1>9. ASSUME NEW t \in Threads, MarkDataDirty(t) PROVE TypeOK'
  BY <1>9 DEF MarkDataDirty, StartTimer
<1>10. CASE Timeout
  BY <1>10 DEF Timeout
<1>11. CASE SaveData
  <2>1. file' = file /\ temp' \in {Storage!Document(m_entries), Absent}
    BY <1>11 DEF SaveData, Storage!Write
  <2> QED
    BY <1>11, <2>1 DEF SaveData
<1>12. CASE SaveDataReturns
  <2>1. file' \in {file, temp} /\ temp' = Absent
    BY <1>12 DEF SaveDataReturns, Storage!Commit
  <2> QED
    BY <1>12, <2>1 DEF SaveDataReturns
<1>13. CASE Destruct
  BY <1>13 DEF Destruct
<1>14. CASE Crash
  <2>1. <<>> \in Seq(Watchers)
    OBVIOUS
  <2> QED
    BY <1>14, <2>1 DEF Crash
<1>15. CASE Construct
  <2>1. m_entries' \in Contents(keys)
    BY <1>15, StoredIn, EmptyMap DEF Construct, Storage!Loaded
  <2>2. <<>> \in Seq(Watchers)
    OBVIOUS
  <2> QED
    BY <1>15, <2>1, <2>2 DEF Construct
<1> QED
  BY <1>3, <1>4, <1>5, <1>6, <1>7, <1>8, <1>9, <1>10, <1>11, <1>12, <1>13, <1>14, <1>15
     DEF Next, Continue

(* Whoever is in a call has what it needs, and the lock if it works under it. *)
LEMMA NextLockInv == IInv /\ [Next]_vars => LockInv'
<1> SUFFICES ASSUME IInv, [Next]_vars PROVE LockInv'
  OBVIOUS
<1> USE ConfigurationAssumption
    DEF IInv, UseInv, use, TypeOK, LockInv, Goto, Return, Nothing, ConfigurationAssumption
<1>1. CASE UNCHANGED vars
  BY <1>1 DEF vars
<1>2. ASSUME NEW t \in writers, NEW k \in keys, NEW v \in Values,
             CallSetEntry(t, k, v) \/ CallSetDefaultValue(t, k, v)
      PROVE  LockInv'
  BY <1>2 DEF CallSetEntry, CallSetDefaultValue
<1>3. ASSUME NEW t \in Threads, NEW k \in keys, NEW w \in Watchers, WatchFor(t, k, w)
      PROVE  LockInv'
  BY <1>3 DEF WatchFor
<1>4. ASSUME NEW t \in Threads, Probe(t) PROVE LockInv'
  BY <1>4 DEF Probe
<1>5. ASSUME NEW t \in Threads, Store(t) PROVE LockInv'
  BY <1>5 DEF Store
<1>6. ASSUME NEW t \in Threads, CallWatcher(t) PROVE LockInv'
  BY <1>6 DEF CallWatcher
<1>7. ASSUME NEW t \in Threads, MarkDataDirty(t) PROVE LockInv'
  BY <1>7 DEF MarkDataDirty
<1>8. CASE Timeout
  BY <1>8 DEF Timeout
<1>9. CASE SaveData
  BY <1>9 DEF SaveData
<1>10. CASE SaveDataReturns
  BY <1>10 DEF SaveDataReturns
<1>11. CASE Destruct
  BY <1>11 DEF Destruct
<1>12. CASE Crash
  BY <1>12 DEF Crash
<1>13. CASE Construct
  BY <1>13 DEF Construct
<1> QED
  BY <1>1, <1>2, <1>3, <1>4, <1>5, <1>6, <1>7, <1>8, <1>9, <1>10, <1>11, <1>12, <1>13
     DEF Next, Continue

(* While a file is written the entries do not change. *)
LEMMA NextWriteInv == IInv /\ [Next]_vars => WriteInv'
<1> SUFFICES ASSUME IInv, [Next]_vars PROVE WriteInv'
  OBVIOUS
<1> USE ConfigurationAssumption
    DEF IInv, use, TypeOK, LockInv, WriteInv, Goto, Return, ConfigurationAssumption
<1>1. CASE UNCHANGED vars
  BY <1>1 DEF vars
<1>2. ASSUME NEW t \in writers, NEW k \in keys, NEW v \in Values,
             CallSetEntry(t, k, v) \/ CallSetDefaultValue(t, k, v)
      PROVE  WriteInv'
  BY <1>2 DEF CallSetEntry, CallSetDefaultValue
<1>3. ASSUME NEW t \in Threads, NEW k \in keys, NEW w \in Watchers, WatchFor(t, k, w)
      PROVE  WriteInv'
  BY <1>3 DEF WatchFor
<1>4. ASSUME NEW t \in Threads, Probe(t) PROVE WriteInv'
  BY <1>4 DEF Probe
<1>5. ASSUME NEW t \in Threads, Store(t) PROVE WriteInv'
  BY <1>5 DEF Store
<1>6. ASSUME NEW t \in Threads, CallWatcher(t) PROVE WriteInv'
  BY <1>6 DEF CallWatcher
<1>7. ASSUME NEW t \in Threads, MarkDataDirty(t) PROVE WriteInv'
  BY <1>7 DEF MarkDataDirty
<1>8. CASE Timeout
  BY <1>8 DEF Timeout
<1>9. CASE SaveData
  BY <1>9 DEF SaveData, Storage!Write
<1>10. CASE SaveDataReturns
  BY <1>10 DEF SaveDataReturns
<1>11. CASE Destruct
  BY <1>11 DEF Destruct
<1>12. CASE Crash
  BY <1>12 DEF Crash
<1>13. CASE Construct
  BY <1>13 DEF Construct
<1> QED
  BY <1>1, <1>2, <1>3, <1>4, <1>5, <1>6, <1>7, <1>8, <1>9, <1>10, <1>11, <1>12, <1>13
     DEF Next, Continue

(* If the last save has worked, the file is what the entries are stored as. *)
LEMMA CommitSaves ==
  ASSUME IInv, SaveDataReturns, file' = temp, temp # Absent
  PROVE  Storage!Stored' = Map!Storable(m_entries)
<1>1. temp = Storage!Document(m_entries)
  BY ConfigurationAssumption DEF IInv, WriteInv, SaveDataReturns, ConfigurationAssumption
<1>2. m_entries \in Contents(Keys)
  BY DEF IInv, TypeOK, UseInv, Contents
<1> QED
  BY <1>1, <1>2, StorageAlwaysKeeps DEF StorageKeeps, Storage!Stored

LEMMA NextSaveInv == IInv /\ [Next]_vars => SaveInv'
<1> SUFFICES ASSUME IInv, [Next]_vars, Careful', phase' \in {"up", "closing"}
             PROVE  Saved' \/ m_dumpTimer' # "off" \/ pc'[Owner] \in {"notify", "save", "commit"}
  BY DEF SaveInv
<1> USE ConfigurationAssumption DEF IInv, use, TypeOK, Goto, Return, ConfigurationAssumption
<1>1. ASSUME Careful, phase \in {"up", "closing"}, file' = file, m_entries' = m_entries,
             m_dumpTimer' = m_dumpTimer,
             pc[Owner] \in {"notify", "save", "commit"} =>
               pc'[Owner] \in {"notify", "save", "commit"}
      PROVE  Saved' \/ m_dumpTimer' # "off" \/ pc'[Owner] \in {"notify", "save", "commit"}
  BY <1>1 DEF SaveInv, Saved, Storage!Stored
<1>2. CASE UNCHANGED vars
  BY <1>1, <1>2 DEF vars, Careful
<1>3. ASSUME NEW t \in writers, NEW k \in keys, NEW v \in Values,
             CallSetEntry(t, k, v) \/ CallSetDefaultValue(t, k, v)
      PROVE  Saved' \/ m_dumpTimer' # "off" \/ pc'[Owner] \in {"notify", "save", "commit"}
  BY <1>1, <1>3 DEF CallSetEntry, CallSetDefaultValue, Careful
<1>4. ASSUME NEW t \in Threads, NEW k \in keys, NEW w \in Watchers, WatchFor(t, k, w)
      PROVE  Saved' \/ m_dumpTimer' # "off" \/ pc'[Owner] \in {"notify", "save", "commit"}
  BY <1>1, <1>4 DEF WatchFor, Careful
<1>5. ASSUME NEW t \in Threads, Probe(t)
      PROVE  Saved' \/ m_dumpTimer' # "off" \/ pc'[Owner] \in {"notify", "save", "commit"}
  BY <1>1, <1>5 DEF Probe, Careful
<1>6. ASSUME NEW t \in Threads, Store(t)
      PROVE  Saved' \/ m_dumpTimer' # "off" \/ pc'[Owner] \in {"notify", "save", "commit"}
  <2>1. t = Owner
    BY <1>6 DEF Store, Careful, LockInv
  <2> QED
    BY <1>6, <2>1 DEF Store
<1>7. ASSUME NEW t \in Threads, CallWatcher(t)
      PROVE  Saved' \/ m_dumpTimer' # "off" \/ pc'[Owner] \in {"notify", "save", "commit"}
  BY <1>1, <1>7 DEF CallWatcher, Careful
<1>8. ASSUME NEW t \in Threads, MarkDataDirty(t)
      PROVE  Saved' \/ m_dumpTimer' # "off" \/ pc'[Owner] \in {"notify", "save", "commit"}
  <2>1. t = Owner
    BY <1>8 DEF MarkDataDirty, Careful, LockInv
  <2> QED
    BY <1>8, <2>1 DEF MarkDataDirty, StartTimer
<1>9. CASE Timeout
  BY <1>9 DEF Timeout
<1>10. CASE SaveData
  BY <1>10 DEF SaveData
<1>11. CASE SaveDataReturns
  <2>1. ~fails /\ ~fails'
    BY <1>11 DEF SaveDataReturns, Careful
  <2>2. temp = Storage!Document(m_entries)
    BY <1>11, <2>1 DEF SaveDataReturns, WriteInv
  <2>3. m_entries \in Contents(Keys)
    BY DEF UseInv, Contents
  <2>4. temp # Absent
    BY <2>2, <2>3, StorageAlwaysKeeps DEF StorageKeeps
  <2>5. file' = temp
    BY <1>11, <2>1, <2>4 DEF SaveDataReturns, Storage!Commit
  <2>6. Storage!Stored' = Map!Storable(m_entries)
    BY <1>11, <2>4, <2>5, CommitSaves
  <2> QED
    BY <1>11, <2>6 DEF SaveDataReturns, Saved
<1>12. CASE Destruct
  BY <1>12 DEF Destruct
<1>13. CASE Crash
  BY <1>13 DEF Crash
<1>14. CASE Construct
  <2>1. m_entries' = Storage!Stored /\ file' = file
    BY <1>14 DEF Construct, Careful, Storage!Loaded
  <2>2. Map!Storable(m_entries') = Storage!Stored'
    BY <2>1, StoredIn DEF Storage!Stored
  <2> QED
    BY <2>2 DEF Saved
<1> QED
  BY <1>2, <1>3, <1>4, <1>5, <1>6, <1>7, <1>8, <1>9, <1>10, <1>11, <1>12, <1>13, <1>14
     DEF Next, Continue

(* The inductive invariant holds in every behaviour. *)
THEOREM InvariantIInv == Spec => []IInv
<1>1. IInv /\ [Next]_vars => IInv'
  BY NextTypeOK, NextLockInv, NextWriteInv, NextSaveInv DEF IInv
<1> QED
  BY InitIInv, <1>1, PTL DEF Spec

(* Every variable keeps its type. *)
THEOREM TypeCorrect == Spec => []TypeOK
<1>1. IInv => TypeOK
  BY DEF IInv
<1> QED
  BY InvariantIInv, <1>1, PTL

(* A change that is not saved is never forgotten (configuration.cpp:44, 116). *)
THEOREM ChangesAreKept == Spec => []NothingForgotten
<1>1. IInv => NothingForgotten
  BY ConfigurationAssumption DEF IInv, LockInv, SaveInv, NothingForgotten, ConfigurationAssumption
<1> QED
  BY InvariantIInv, <1>1, PTL

-----------------------------------------------------------------------------
(* A watcher that was told something is registered; it was told the value the
   entry has, unless the thread that sets the entry is about to call it. *)
Registered(k, w) == \E i \in 1..Len(m_watchers[k]) : m_watchers[k][i] = w

Waiting(k, w) ==
  \E t \in Threads :
    /\ pc[t] = "notify" /\ arg[t].key = k
    /\ \E i \in 1..Len(todo[t]) : todo[t][i] = w

Calling(t) ==
  /\ arg[t].key \in DOMAIN m_entries /\ m_entries[arg[t].key] = arg[t].value
  /\ \A i \in 1..Len(todo[t]) :
       \E j \in 1..Len(m_watchers[arg[t].key]) : m_watchers[arg[t].key][j] = todo[t][i]

WatchInv ==
  /\ \A t \in Threads : pc[t] = "notify" => Calling(t)
  /\ \A k \in Keys, w \in Watchers :
       heard[k][w] # None =>
         /\ Registered(k, w)
         /\ phase = "up" =>
              \/ k \in DOMAIN m_entries /\ heard[k][w] = m_entries[k]
              \/ Waiting(k, w)

(* Steps that WatchInv does not look at. *)
LEMMA QuietWatchInv ==
  ASSUME WatchInv, UNCHANGED <<m_entries, m_watchers, heard>>,
         phase' = "up" => phase = "up",
         \A t \in Threads :
           /\ pc'[t] = "notify" => pc[t] = "notify"
           /\ pc[t] = "notify" /\ phase' = "up" => pc'[t] = "notify"
           /\ pc'[t] = "notify" => arg'[t] = arg[t] /\ todo'[t] = todo[t]
  PROVE  WatchInv'
<1>1. ASSUME NEW t \in Threads, pc'[t] = "notify" PROVE Calling(t)'
  <2>1. Calling(t) /\ arg'[t] = arg[t] /\ todo'[t] = todo[t]
    BY <1>1 DEF WatchInv
  <2> QED
    BY <2>1 DEF Calling
<1>2. ASSUME NEW k \in Keys, NEW w \in Watchers, heard'[k][w] # None
      PROVE  /\ Registered(k, w)'
             /\ phase' = "up" =>
                  \/ k \in DOMAIN m_entries' /\ heard'[k][w] = m_entries'[k]
                  \/ Waiting(k, w)'
  <2>1. Registered(k, w)'
    BY <1>2 DEF WatchInv, Registered
  <2>2. CASE phase' = "up" /\ Waiting(k, w)
    BY <2>1, <2>2 DEF Waiting
  <2> QED
    BY <1>2, <2>1, <2>2 DEF WatchInv
<1> QED
  BY <1>1, <1>2 DEF WatchInv

LEMMA NextWatchInv == IInv /\ WatchInv /\ TypeOK' /\ [Next]_vars => WatchInv'
<1> SUFFICES ASSUME IInv, WatchInv, TypeOK', [Next]_vars PROVE WatchInv'
  OBVIOUS
<1> USE ConfigurationAssumption
    DEF IInv, UseInv, use, TypeOK, LockInv, Goto, Return, Nothing, ConfigurationAssumption
<1>1. CASE UNCHANGED vars
  BY <1>1, QuietWatchInv DEF vars
<1>2. ASSUME NEW t \in writers, NEW k \in keys, NEW v \in Values,
             CallSetEntry(t, k, v) \/ CallSetDefaultValue(t, k, v)
      PROVE  WatchInv'
  BY <1>2, QuietWatchInv DEF CallSetEntry, CallSetDefaultValue
<1>3. ASSUME NEW t \in Threads, NEW k \in keys, NEW w \in Watchers, WatchFor(t, k, w)
      PROVE  WatchInv'
  <2>1. ASSUME NEW l \in Keys, NEW x \in Watchers, heard'[l][x] # None
        PROVE  heard'[l][x] = heard[l][x] /\ (Registered(l, x) => Registered(l, x)')
               /\ (Waiting(l, x) => Waiting(l, x)')
    <3>1. heard'[l][x] = heard[l][x]
      BY <1>3, <2>1 DEF WatchFor
    <3>2. \A i \in 1..Len(m_watchers[l]) :
            i \in 1..Len(m_watchers'[l]) /\ m_watchers'[l][i] = m_watchers[l][i]
      BY <1>3 DEF WatchFor
    <3>3. Waiting(l, x) => Waiting(l, x)'
      BY <1>3 DEF WatchFor, Waiting
    <3> QED
      BY <3>1, <3>2, <3>3 DEF Registered
  <2>2. UNCHANGED <<m_entries, phase, pc, arg, todo>> /\ \A u \in Threads : pc[u] # "notify"
    BY <1>3 DEF WatchFor, WatchersUnused
  <2> HIDE DEF IInv, TypeOK, LockInv
  <2> QED
    BY <2>1, <2>2 DEF WatchInv
<1>4. ASSUME NEW t \in Threads, Probe(t) PROVE WatchInv'
  BY <1>4, QuietWatchInv DEF Probe
<1>5. ASSUME NEW t \in Threads, Store(t) PROVE WatchInv'
  <2>1. /\ arg[t].key \in Keys /\ arg[t].value \in Values /\ phase = "up" /\ phase' = "up"
        /\ \A u \in Threads : pc[u] # "notify"
    BY <1>5 DEF Store
  <2>2. \A u \in Threads : pc'[u] = "notify" <=> u = t
    BY <1>5, <2>1 DEF Store
  <2>3. /\ DOMAIN m_entries' = DOMAIN m_entries \cup {arg[t].key}
        /\ m_entries'[arg[t].key] = arg[t].value
        /\ \A k \in DOMAIN m_entries : k # arg[t].key => m_entries'[k] = m_entries[k]
        /\ UNCHANGED <<m_watchers, heard, arg>>
        /\ todo'[t] = m_watchers[arg[t].key]
    BY <1>5, <2>1 DEF Store
  <2> HIDE DEF IInv, TypeOK, LockInv
  <2>4. ASSUME NEW k \in Keys, NEW w \in Watchers, heard'[k][w] # None
        PROVE  /\ Registered(k, w)'
               /\ \/ k \in DOMAIN m_entries' /\ heard'[k][w] = m_entries'[k]
                  \/ Waiting(k, w)'
    <3>1. Registered(k, w) /\ Registered(k, w)'
      BY <2>3, <2>4 DEF WatchInv, Registered
    <3>2. CASE k = arg[t].key
      BY <2>2, <2>3, <3>1, <3>2 DEF Registered, Waiting
    <3>3. CASE k # arg[t].key
      <4>1. ~Waiting(k, w) /\ heard[k][w] # None /\ heard'[k][w] = heard[k][w]
        BY <2>1, <2>3, <2>4 DEF Waiting
      <4>2. k \in DOMAIN m_entries /\ heard[k][w] = m_entries[k]
        BY <2>1, <4>1 DEF WatchInv
      <4> QED
        BY <2>3, <3>1, <3>3, <4>1, <4>2
    <3> QED
      BY <3>1, <3>2, <3>3
  <2>5. Calling(t)'
    BY <2>3 DEF Calling
  <2> QED
    BY <2>2, <2>3, <2>4, <2>5 DEF WatchInv
<1>6. ASSUME NEW t \in Threads, CallWatcher(t) PROVE WatchInv'
  <2> DEFINE key == arg[t].key
             watcher == Head(todo[t])
  <2>1. /\ pc[t] = "notify" /\ key \in Keys /\ watcher \in Watchers
        /\ key \in DOMAIN m_entries /\ m_entries[key] = arg[t].value
        /\ \A u \in Threads : pc[u] = "notify" => u = t
    BY <1>6 DEF CallWatcher, WatchInv, Calling
  <2>2. UNCHANGED <<phase, m_entries, m_watchers, pc, arg>>
    BY <1>6 DEF CallWatcher
  <2>3. /\ todo'[t] = Tail(todo[t])
        /\ \A k \in Keys, w \in Watchers :
             heard'[k][w] = IF k = key /\ w = watcher THEN arg[t].value ELSE heard[k][w]
    BY <1>6, <2>1 DEF CallWatcher
  <2>4. /\ \A i \in 1..Len(todo'[t]) : i + 1 \in 1..Len(todo[t]) /\ todo'[t][i] = todo[t][i + 1]
        /\ \A i \in 1..Len(todo[t]) :
             i # 1 => i - 1 \in 1..Len(todo'[t]) /\ todo[t][i] = todo'[t][i - 1]
        /\ 1 \in 1..Len(todo[t]) /\ watcher = todo[t][1]
    <3>1. todo[t] \in Seq(Watchers) /\ todo[t] # <<>> /\ todo'[t] = Tail(todo[t])
      BY <1>6, <2>3 DEF CallWatcher
    <3> HIDE DEF IInv, TypeOK, LockInv
    <3> QED
      BY <3>1
  <2> HIDE DEF IInv, TypeOK, LockInv
  <2>5. Calling(t) /\ Registered(key, watcher)
    BY <2>1, <2>4 DEF WatchInv, Calling, Registered
  <2>6. ASSUME NEW k \in Keys, NEW w \in Watchers, heard'[k][w] # None
        PROVE  /\ Registered(k, w)'
               /\ phase' = "up" =>
                    \/ k \in DOMAIN m_entries' /\ heard'[k][w] = m_entries'[k]
                    \/ Waiting(k, w)'
    <3>1. CASE k = key /\ w = watcher
      BY <2>1, <2>2, <2>3, <2>5, <3>1 DEF Registered
    <3>2. CASE ~(k = key /\ w = watcher)
      <4> HIDE DEF key, watcher
      <4>1. heard[k][w] = heard'[k][w] /\ heard[k][w] # None
        BY <2>3, <2>6, <3>2
      <4>2. CASE Waiting(k, w)
        <5>1. k = key /\ w # watcher
          BY <2>1, <3>2, <4>2 DEF Waiting, key
        <5>2. PICK i \in 1..Len(todo[t]) : todo[t][i] = w
          BY <2>1, <4>2 DEF Waiting
        <5>3. i - 1 \in 1..Len(todo'[t]) /\ todo'[t][i - 1] = w
          BY <2>4, <5>1, <5>2
        <5>4. Waiting(k, w)'
          BY <2>1, <2>2, <5>1, <5>3 DEF Waiting, key
        <5> QED
          BY <2>2, <4>1, <5>4 DEF WatchInv, Registered
      <4>3. CASE ~Waiting(k, w)
        BY <2>2, <4>1, <4>3 DEF WatchInv, Registered
      <4> QED
        BY <4>2, <4>3
    <3> QED
      BY <3>1, <3>2
  <2>7. Calling(t)'
    BY <2>2, <2>4, <2>5 DEF Calling
  <2> QED
    BY <2>1, <2>2, <2>6, <2>7 DEF WatchInv
<1>7. ASSUME NEW t \in Threads, MarkDataDirty(t) PROVE WatchInv'
  <2>1. /\ UNCHANGED <<phase, m_entries, m_watchers, heard, todo>>
        /\ pc[t] = "notify" /\ pc'[t] # "notify" /\ todo[t] = <<>>
        /\ \A u \in Threads : u # t => pc'[u] = pc[u] /\ arg'[u] = arg[u]
    BY <1>7 DEF MarkDataDirty
  <2>2. \A k \in Keys, w \in Watchers : Waiting(k, w) => Waiting(k, w)'
    BY <2>1 DEF Waiting
  <2>3. \A k \in Keys, w \in Watchers : Registered(k, w) => Registered(k, w)'
    BY <2>1 DEF Registered
  <2>4. \A u \in Threads : pc'[u] = "notify" => u # t /\ pc[u] = "notify"
    BY <2>1
  <2> HIDE DEF IInv, TypeOK, LockInv, Registered, Waiting
  <2>5. ASSUME NEW u \in Threads, pc'[u] = "notify" PROVE Calling(u)'
    <3>1. Calling(u) /\ arg'[u] = arg[u] /\ todo'[u] = todo[u]
      BY <2>1, <2>4, <2>5 DEF WatchInv
    <3> QED
      BY <2>1, <3>1 DEF Calling
  <2> QED
    BY <2>1, <2>2, <2>3, <2>5 DEF WatchInv
<1>8. CASE Timeout
  BY <1>8, QuietWatchInv DEF Timeout
<1>9. CASE SaveData
  BY <1>9, QuietWatchInv DEF SaveData
<1>10. CASE SaveDataReturns
  BY <1>10, QuietWatchInv DEF SaveDataReturns
<1>11. CASE Destruct
  BY <1>11, QuietWatchInv DEF Destruct
<1>12. CASE Crash
  BY <1>12, QuietWatchInv DEF Crash
<1>13. CASE Construct
  <2>1. \A k \in Keys, w \in Watchers : heard'[k][w] = None
    BY <1>13 DEF Construct
  <2>2. \A t \in Threads : pc'[t] # "notify"
    BY <1>13 DEF Construct
  <2> HIDE DEF IInv, TypeOK, LockInv
  <2> QED
    BY <2>1, <2>2 DEF WatchInv
<1> QED
  BY <1>1, <1>2, <1>3, <1>4, <1>5, <1>6, <1>7, <1>8, <1>9, <1>10, <1>11, <1>12, <1>13
     DEF Next, Continue

(* Two threads that set one entry cannot tell its watchers in the other order
   (configuration.cpp:107 to 114). *)
THEOREM WatchersAreUpToDate == Spec => []WatchersUpToDate
<1>1. Init => WatchInv
  BY DEF Init, WatchInv
<1>2. IInv /\ WatchInv /\ [Next]_vars => WatchInv'
  BY NextTypeOK, NextWatchInv
<1>3. IInv /\ WatchInv => WatchersUpToDate
  <2> SUFFICES ASSUME IInv, WatchInv, phase = "up", holder = None PROVE WatchersUpToDate
    BY DEF WatchersUpToDate
  <2>1. \A t \in Threads : pc[t] # "notify"
    BY ConfigurationAssumption DEF IInv, LockInv, ConfigurationAssumption
  <2> QED
    BY <2>1 DEF WatchInv, Waiting, WatchersUpToDate
<1> QED
  BY InvariantIInv, <1>1, <1>2, <1>3, PTL DEF Spec

-----------------------------------------------------------------------------
(* The initial states are initial states of the map. *)
LEMMA InitIsMapInit == Init => Map!Init
<1> SUFFICES ASSUME Init PROVE Map!Init
  OBVIOUS
<1>1. IInv
  BY InitIInv
<1>2. PICK map \in Contents(keys) : Storage!Stored \in {Map!Empty, Map!Storable(map)}
  BY <1>1, StoredIn DEF IInv
<1>3. map \in Map!Contents
  BY <1>1 DEF IInv, UseInv, Contents, Map!Contents
<1>4. m_entries = Storage!Stored \/ (~Careful /\ m_entries = Map!Empty)
  BY EmptyMap DEF Init, Storage!Loaded, Careful
<1>5. Careful \in BOOLEAN
  BY <1>1 DEF IInv, UseInv, Careful
<1> QED
  BY <1>2, <1>3, <1>4, <1>5 DEF Init, Map!Init

(* Every step is a step of the map, or none it can see. *)
LEMMA NextIsMapNext == IInv /\ IInv' /\ [Next]_vars => [Map!Next]_Map!vars
<1> SUFFICES ASSUME IInv, IInv', [Next]_vars PROVE [Map!Next]_Map!vars
  OBVIOUS
<1> USE DEF use
<1>1. ASSUME UNCHANGED <<m_entries, file, phase, writers, fails>> PROVE UNCHANGED Map!vars
  BY <1>1 DEF Map!vars, Storage!Stored, Careful
<1>2. CASE UNCHANGED vars
  BY <1>1, <1>2 DEF vars
<1>3. ASSUME NEW t \in writers, NEW k \in keys, NEW v \in Values,
             CallSetEntry(t, k, v) \/ CallSetDefaultValue(t, k, v)
      PROVE  UNCHANGED Map!vars
  BY <1>1, <1>3 DEF CallSetEntry, CallSetDefaultValue
<1>4. ASSUME NEW t \in Threads, NEW k \in keys, NEW w \in Watchers, WatchFor(t, k, w)
      PROVE  UNCHANGED Map!vars
  BY <1>1, <1>4 DEF WatchFor
<1>5. ASSUME NEW t \in Threads, Probe(t) PROVE UNCHANGED Map!vars
  BY <1>1, <1>5 DEF Probe
<1>6. ASSUME NEW t \in Threads, Store(t) PROVE Map!Set
  <2>1. phase = "up" /\ arg[t].key \in Keys /\ arg[t].value \in Values
    BY <1>6 DEF Store, IInv, LockInv, UseInv
  <2>2. Storage!Stored' = Storage!Stored /\ Careful' = Careful /\ phase' = phase
    BY <1>6 DEF Store, Storage!Stored, Careful
  <2> QED
    BY <1>6, <2>1, <2>2 DEF Store, Map!Set
<1>7. ASSUME NEW t \in Threads, CallWatcher(t) PROVE UNCHANGED Map!vars
  BY <1>1, <1>7 DEF CallWatcher
<1>8. ASSUME NEW t \in Threads, MarkDataDirty(t) PROVE UNCHANGED Map!vars
  BY <1>1, <1>8 DEF MarkDataDirty
<1>9. CASE Timeout
  BY <1>1, <1>9 DEF Timeout
<1>10. CASE SaveData
  BY <1>1, <1>10 DEF SaveData, Storage!Write
<1>11. CASE SaveDataReturns
  <2>1. phase \in {"up", "closing"} /\ phase' \in {phase, "down"}
    BY <1>11, ConfigurationAssumption
       DEF SaveDataReturns, IInv, LockInv, ConfigurationAssumption
  <2>2. m_entries' = m_entries /\ Careful' = Careful
    BY <1>11 DEF SaveDataReturns, Careful
  <2>3. CASE temp # Absent /\ file' = temp
    <3>1. Storage!Stored' = Map!Storable(m_entries)
      BY <1>11, <2>3, CommitSaves
    <3>2. Map!Save
      BY <1>11, <2>1, <2>2, <3>1 DEF SaveDataReturns, Map!Save
    <3> QED
      BY <3>2 DEF Map!Next
  <2>4. CASE file' = file /\ ~(temp # Absent /\ file' = temp)
    <3>1. Storage!Stored' = Storage!Stored
      BY <2>4 DEF Storage!Stored
    <3>2. CASE phase = "up"
      BY <1>1, <1>11, <2>4, <3>2 DEF SaveDataReturns
    <3>3. CASE phase = "closing"
      <4>1. ~Careful
        <5>1. m_entries \in Contents(Keys)
          BY DEF IInv, TypeOK, UseInv, Contents
        <5>2. ~fails => temp # Absent
          BY <1>11, <5>1, ConfigurationAssumption, StorageAlwaysKeeps
             DEF SaveDataReturns, IInv, WriteInv, StorageKeeps, ConfigurationAssumption
        <5> QED
          BY <1>11, <2>4, <5>2 DEF SaveDataReturns, Storage!Commit, Careful
      <4>2. Map!Close
        BY <1>11, <2>2, <3>1, <3>3, <4>1 DEF SaveDataReturns, Map!Close
      <4> QED
        BY <4>2 DEF Map!Next
    <3> QED
      BY <2>1, <3>2, <3>3
  <2> QED
    BY <1>11, <2>3, <2>4 DEF SaveDataReturns, Storage!Commit
<1>12. CASE Destruct
  <2>1. CASE m_dumpTimer # "off"
    <3>1. UNCHANGED <<m_entries, file, writers, fails>> /\ phase = "up" /\ phase' = "closing"
      BY <1>12, <2>1 DEF Destruct
    <3> QED
      BY <3>1 DEF Map!vars, Storage!Stored, Careful
  <2>2. CASE m_dumpTimer = "off"
    <3>1. UNCHANGED <<m_entries, file, writers, fails>> /\ phase = "up" /\ phase' = "down"
      BY <1>12, <2>2 DEF Destruct
    <3>2. Careful => Saved
      BY <1>12, <2>2, ConfigurationAssumption
         DEF Destruct, IInv, SaveInv, ConfigurationAssumption
    <3>3. Map!Close
      BY <3>1, <3>2 DEF Map!Close, Saved, Storage!Stored, Careful
    <3> QED
      BY <3>3 DEF Map!Next
  <2> QED
    BY <2>1, <2>2
<1>13. CASE Crash
  <2>1. Map!Crash
    BY <1>13 DEF Crash, Map!Crash, Storage!Stored, Careful
  <2> QED
    BY <2>1 DEF Map!Next
<1>14. CASE Construct
  <2>1. UNCHANGED <<file, writers, fails>> /\ phase \in {"down", "crashed"} /\ phase' = "up"
    BY <1>14 DEF Construct
  <2>2. Storage!Stored' = Storage!Stored /\ Careful' = Careful
    BY <2>1 DEF Storage!Stored, Careful
  <2>3. m_entries' = Storage!Stored \/ (~Careful /\ m_entries' = Map!Empty)
    BY <1>14, EmptyMap DEF Construct, Storage!Loaded, Careful
  <2>4. Map!Open
    BY <2>1, <2>2, <2>3 DEF Map!Open
  <2> QED
    BY <2>4 DEF Map!Next
<1> QED
  BY <1>2, <1>3, <1>4, <1>5, <1>6, <1>7, <1>8, <1>9, <1>10, <1>11, <1>12, <1>13, <1>14
     DEF Next, Continue, Map!Next

(* A Configuration with its storage is a map with a copy that survives: the
   lock, the timer, the two steps of a save and the destructor lose nothing. *)
THEOREM ActsAsMap == Spec => ActsAsPersistentMap
<1>1. IInv /\ IInv' /\ [Next]_vars => [Map!Next]_Map!vars
  BY NextIsMapNext
<1> QED
  BY InvariantIInv, InitIsMapInit, <1>1, PTL DEF Spec, ActsAsPersistentMap, Map!Spec

=============================================================================
