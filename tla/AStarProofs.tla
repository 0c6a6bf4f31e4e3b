---------------------------- MODULE AStarProofs -----------------------------
(***************************************************************************)
(* Theorems about AStar, for any arguments of route.                       *)
(*                                                                         *)
(* The first argument (IInv) is about addresses: which points exist, in    *)
(* which of the sets they are, and that new never returns the address of a *)
(* point that exists.  The second one (WayInv) is about the order in which *)
(* points are taken: layer by layer, by the steps it takes to get there.   *)
(***************************************************************************)
EXTENDS AStar, FiniteSetTheorems, SequenceTheorems, TLAPS

(* The sequence has the elements of the set, each of them once. *)
Lists(s, S) ==
  /\ s \in Seq(S)
  /\ \A x \in S : \E i \in 1 .. Len(s) : s[i] = x
  /\ \A i, j \in 1 .. Len(s) : s[i] = s[j] => i = j

Point == [at : Int \X Int, g_score : Nat \X Nat, origin : (Nat \ {0}) \cup {None}]

(* The points that exist. *)
Memory ==
  /\ IsFiniteSet(DOMAIN points)
  /\ DOMAIN points \subseteq Nat \ {0}
  /\ \A a \in DOMAIN points : points[a] \in Point

(* The open and the closed set are of different points that exist, and the open
   set has one for each pair of coordinates. *)
SetsInv ==
  /\ Locals \subseteq DOMAIN points
  /\ m_points \subseteq DOMAIN points /\ m_closedSet \subseteq DOMAIN points
  /\ m_points \cap m_closedSet = {}
  /\ lastPoint \notin m_points \cup m_closedSet
  /\ \A q, r \in m_points : SameCoordinates(q, r) => q = r

(* The neighbours of p that were not looked at are in no set. *)
VisitInv ==
  /\ p \in m_closedSet
  /\ neighbours # <<>>
  /\ \A i, j \in 1 .. Len(neighbours) : neighbours[i] = neighbours[j] => i = j
  /\ \A i \in 1 .. Len(neighbours) :
       /\ neighbours[i] \in DOMAIN points \ (m_points \cup m_closedSet \cup Locals)
       /\ points[neighbours[i]].origin = p

(* The points that may be on a route. *)
Used == m_points \cup m_closedSet \cup (IF pc = "reconstruct" THEN {lastPoint} ELSE {})

(* What ScoresMatchOrigins says of point a. *)
ScoreMatches(a) ==
  LET o == points[a].origin
  IN  IF o = None THEN points[a].g_score = <<0, 0>>
      ELSE /\ o \in m_closedSet
           /\ points[a].g_score = Plus(points[o].g_score, Distance(points[o].at, points[a].at))

(* The inductive invariant. *)
IInv ==
  /\ TypeOK
  /\ Memory
  /\ Lists(m_value, m_points)
  /\ pc = "idle" => Locals \cap DOMAIN points = {}
  /\ pc # "idle" => SetsInv /\ \A a \in Used : ScoreMatches(a)
  /\ pc = "search" => m_points # {}
  /\ pc = "visit" => VisitInv
  /\ pc = "reconstruct" => p \in m_closedSet \cup {lastPoint, None}

-----------------------------------------------------------------------------
(* A set of numbers that is finite and not empty has a greatest one.  Otherwise there
   would be a smallest subset without one. *)
LEMMA GreatestExists ==
  ASSUME NEW S \in SUBSET Nat, IsFiniteSet(S), S # {}
  PROVE  \E x \in S : \A y \in S : x >= y
<1> DEFINE T == {U \in SUBSET S : U # {} /\ ~\E x \in U : \A y \in U : x >= y}
<1> SUFFICES ASSUME T # {} PROVE FALSE
  OBVIOUS
<1>1. IsWellFoundedOn(StrictSubsetOrdering(S), SUBSET S)
  BY FS_StrictSubsetOrderingWellFounded, FS_FiniteSubsetsOfFinite
<1>2. PICK U \in T : \A V \in T : <<V, U>> \notin StrictSubsetOrdering(S)
  <2>1. T \subseteq SUBSET S
    OBVIOUS
  <2> HIDE DEF T
  <2> QED
    BY <1>1, <2>1, WFMin
<1>3. PICK x \in U : TRUE
  BY <1>2
<1>4. CASE U \ {x} = {}
  BY <1>2, <1>3, <1>4
<1>5. CASE U \ {x} # {}
  <2>1. <<U \ {x}, U>> \in StrictSubsetOrdering(S)
    BY <1>3 DEF StrictSubsetOrdering
  <2>2. U \ {x} \notin T
    BY <1>2, <2>1
  <2>3. PICK m \in U \ {x} : \A y \in U \ {x} : m >= y
    BY <1>5, <2>2
  <2>4. CASE m >= x
    BY <1>2, <1>3, <2>3, <2>4
  <2>5. CASE ~(m >= x)
    <3>1. x \in Nat /\ m \in Nat /\ \A y \in U : y \in Nat
      BY <1>3, <2>3
    <3>2. \A y \in U : x >= y
      BY <2>3, <2>5, <3>1
    <3> QED
      BY <1>3, <3>2
  <2> QED
    BY <2>4, <2>5
<1> QED
  BY <1>4, <1>5

LEMMA MaxIsGreatest ==
  ASSUME NEW S \in SUBSET Nat, IsFiniteSet(S), S # {}
  PROVE  Max(S) \in S /\ \A y \in S : Max(S) >= y
BY GreatestExists DEF Max

(* The containers of the open set agree: what is taken from one is taken from the
   other, and what is added to one is added to the other. *)
LEMMA ListsTail ==
  ASSUME NEW s, NEW S, Lists(s, S), s # <<>>
  PROVE  Head(s) \in S /\ Lists(Tail(s), S \ {Head(s)})
<1> USE DEF Lists
<1>1. /\ Head(s) = s[1] /\ Len(s) \in Nat /\ Len(s) >= 1
      /\ \A i \in 1 .. Len(s) : s[i] \in S
  OBVIOUS
<1>2. /\ Tail(s) \in Seq(S) /\ Len(Tail(s)) = Len(s) - 1
      /\ \A i \in 1 .. Len(s) - 1 : Tail(s)[i] = s[i + 1]
  BY HeadTailProperties
<1>3. \A i \in 1 .. Len(s) - 1 : Tail(s)[i] \in S \ {Head(s)}
  BY <1>1, <1>2
<1>4. Tail(s) \in Seq(S \ {Head(s)})
  <2>1. Tail(s) = SubSeq(Tail(s), 1, Len(s) - 1)
    BY <1>2, SubSeqFull
  <2>2. SubSeq(Tail(s), 1, Len(s) - 1) \in Seq(S \ {Head(s)})
    BY <1>1, <1>3, SubSeqProperties
  <2> QED
    BY <2>1, <2>2
<1>5. ASSUME NEW x \in S \ {Head(s)} PROVE \E i \in 1 .. Len(s) - 1 : Tail(s)[i] = x
  <2>1. PICK i \in 1 .. Len(s) : s[i] = x
    OBVIOUS
  <2>2. i # 1
    BY <1>1, <2>1
  <2>3. i - 1 \in 1 .. Len(s) - 1 /\ (i - 1) + 1 = i
    BY <1>1, <2>2
  <2> QED
    BY <1>2, <2>1, <2>3
<1>6. ASSUME NEW i \in 1 .. Len(s) - 1, NEW j \in 1 .. Len(s) - 1, Tail(s)[i] = Tail(s)[j]
      PROVE  i = j
  <2>1. i + 1 \in 1 .. Len(s) /\ j + 1 \in 1 .. Len(s) /\ s[i + 1] = s[j + 1]
    BY <1>1, <1>2, <1>6
  <2> QED
    BY <2>1
<1> QED
  BY <1>1, <1>2, <1>4, <1>5, <1>6

LEMMA ListsAppend ==
  ASSUME NEW s, NEW S, NEW x, Lists(s, S), x \notin S
  PROVE  Lists(Append(s, x), S \cup {x})
<1> USE DEF Lists
<1>1. s \in Seq(S \cup {x})
  BY SeqMonotonic
<1>2. /\ Append(s, x) \in Seq(S \cup {x}) /\ Len(Append(s, x)) = Len(s) + 1
      /\ \A i \in 1 .. Len(s) : Append(s, x)[i] = s[i]
      /\ Append(s, x)[Len(s) + 1] = x
  BY <1>1, AppendProperties
<1>3. Len(s) \in Nat /\ \A i \in 1 .. Len(s) : s[i] \in S /\ s[i] # x
  OBVIOUS
<1>4. \A y \in S \cup {x} : \E i \in 1 .. Len(s) + 1 : Append(s, x)[i] = y
  BY <1>2, <1>3
<1>5. ASSUME NEW i \in 1 .. Len(s) + 1, NEW j \in 1 .. Len(s) + 1,
             Append(s, x)[i] = Append(s, x)[j]
      PROVE  i = j
  BY <1>2, <1>3, <1>5
<1> QED
  BY <1>2, <1>4, <1>5

(* As many as there are in the set. *)
LEMMA ListsLen ==
  ASSUME NEW s, NEW S, Lists(s, S)
  PROVE  /\ {s[i] : i \in DOMAIN s} = S
         /\ Len(s) = Cardinality(S)
<1> USE DEF Lists
<1>1. Len(s) \in Nat /\ DOMAIN s = 1 .. Len(s) /\ s \in [1 .. Len(s) -> S]
  BY LenProperties
<1>2. s \in Bijection(1 .. Len(s), S)
  BY <1>1 DEF Bijection, Injection, Surjection, IsInjective
<1>3. ExistsBijection(1 .. Len(s), S)
  BY <1>2 DEF ExistsBijection
<1> QED
  BY <1>1, <1>3, FS_CountingElements

-----------------------------------------------------------------------------
(* Coordinates, scores and the moves to neighbours. *)
LEMMA Arithmetic ==
  /\ \A g, h \in Nat \X Nat : Plus(g, h) \in Nat \X Nat
  /\ \A c, d \in Int \X Int : Plus(c, d) \in Int \X Int /\ Distance(c, d) \in Nat \X Nat
  /\ DOMAIN Moves = 1 .. 8 /\ \A i \in 1 .. 8 : Moves[i] \in Int \X Int
<1>1. \A g, h \in Nat \X Nat : Plus(g, h) \in Nat \X Nat
  BY DEF Plus
<1>2. \A c, d \in Int \X Int : Plus(c, d) \in Int \X Int
  BY DEF Plus
<1>3. \A c, d : Distance(c, d) \in Nat \X Nat
  BY DEF Distance
<1>4. DOMAIN Moves = 1 .. 8 /\ \A i \in 1 .. 8 : Moves[i] \in Int \X Int
  BY DEF Moves
<1> QED
  BY <1>1, <1>2, <1>3, <1>4

LEMMA NewPointIsPoint ==
  ASSUME NEW c \in Int \X Int, NEW o \in (Nat \ {0}) \cup {None}
  PROVE  /\ NewPoint(c, o) \in Point
         /\ NewPoint(c, o).at = c /\ NewPoint(c, o).origin = o
         /\ NewPoint(c, o).g_score = <<0, 0>>
BY DEF NewPoint, Point

(* new returns addresses that no point has. *)
LEMMA NewAddressesAreNew ==
  ASSUME Memory, DOMAIN points # {}
  PROVE  /\ Max(DOMAIN points) \in Nat \ {0}
         /\ NewAddresses = [i \in 1 .. 8 |-> Max(DOMAIN points) + i]
         /\ \A i \in 1 .. 8 : Max(DOMAIN points) + i \in Nat \ ({0} \cup DOMAIN points)
<1> DEFINE m == Max(DOMAIN points)
<1>1. m \in DOMAIN points /\ \A a \in DOMAIN points : m >= a
  <2>1. DOMAIN points \in SUBSET Nat
    BY DEF Memory
  <2> QED
    BY <2>1, MaxIsGreatest DEF Memory
<1>2. m \in Nat \ {0}
  BY <1>1 DEF Memory
<1> HIDE DEF m
<1>3. \A i \in 1 .. 8 : m + i \in Nat \ {0} /\ m + i \notin DOMAIN points
  BY <1>1, <1>2
<1>4. NewAddresses = [i \in 1 .. 8 |-> m + i]
  BY Arithmetic DEF NewAddresses, m
<1> QED
  BY <1>2, <1>3, <1>4 DEF m

LEMMA InitIInv == Init => IInv
<1> SUFFICES ASSUME Init PROVE IInv
  OBVIOUS
<1> USE DEF Init
<1>1. DOMAIN points = {} /\ m_value = <<>> /\ m_points = {}
  OBVIOUS
<1>2. Memory
  BY <1>1, FS_EmptySet DEF Memory
<1>3. Lists(m_value, m_points)
  BY <1>1 DEF Lists
<1>4. TypeOK
  <2>1. neighbours \in Seq(Nat \ {0}) /\ m_value \in Seq(Nat \ {0}) /\ path \in Seq(Int \X Int)
    OBVIOUS
  <2> QED
    BY <1>1, <2>1 DEF TypeOK
<1> QED
  BY <1>1, <1>2, <1>3, <1>4 DEF IInv

(* What is the same in all turns of the loop over neighbours: a is the one that is
   looked at. *)
LEMMA Turn ==
  ASSUME IInv, pc = "visit", NEW a, a = Head(neighbours)
  PROVE  /\ a \in DOMAIN points /\ a \notin m_points \cup m_closedSet \cup Locals
         /\ p \in m_closedSet /\ p \in DOMAIN points /\ p # None
         /\ p \in Nat \ {0}
         /\ points[a].origin = p
         /\ Score(a) \in Nat \X Nat
         /\ ~Closed(a)
<1>1. VisitInv /\ SetsInv /\ Memory /\ neighbours \in Seq(Nat \ {0})
  BY DEF IInv, TypeOK
<1>2. 1 \in 1 .. Len(neighbours) /\ a = neighbours[1]
  BY <1>1 DEF VisitInv
<1>3. /\ a \in DOMAIN points /\ a \notin m_points \cup m_closedSet \cup Locals
      /\ p \in m_closedSet /\ points[a].origin = p
  BY <1>1, <1>2 DEF VisitInv
<1>4. p \in DOMAIN points /\ p \in Nat \ {0}
  BY <1>1, <1>3 DEF SetsInv, Memory
<1>5. p # None
  BY <1>4, AStarAssumption DEF AStarAssumption
<1>6. Score(a) \in Nat \X Nat
  BY <1>1, <1>3, <1>4, Arithmetic DEF Score, Memory, Point
<1> QED
  BY <1>3, <1>4, <1>5, <1>6 DEF Closed

(* A turn leaves the other neighbours to come as they are. *)
LEMMA NextNeighbourKeeps ==
  ASSUME IInv, pc = "visit", NextNeighbour, NEW a, a = Head(neighbours),
         m_closedSet' = m_closedSet, m_points' \subseteq m_points \cup {a},
         DOMAIN points \ {a} \subseteq DOMAIN points',
         \A x \in DOMAIN points \ (m_points \cup {a}) : points'[x] = points[x]
  PROVE  /\ pc' = "visit" => VisitInv'
         /\ pc' \in {"visit", "search"}
         /\ neighbours' \in Seq(Nat \ {0}) /\ p' \in (Nat \ {0}) \cup {None}
<1>1. VisitInv /\ neighbours \in Seq(Nat \ {0}) /\ neighbours # <<>>
      /\ p \in (Nat \ {0}) \cup {None}
  BY DEF IInv, TypeOK, VisitInv
<1>2. /\ neighbours' = Tail(neighbours) /\ a = neighbours[1]
      /\ Len(neighbours) \in Nat /\ Len(neighbours) >= 1
      /\ neighbours' \in Seq(Nat \ {0}) /\ Len(neighbours') = Len(neighbours) - 1
      /\ \A i \in 1 .. Len(neighbours) - 1 : neighbours'[i] = neighbours[i + 1]
  BY <1>1, HeadTailProperties DEF NextNeighbour
<1>3. \/ Len(neighbours) > 1 /\ p' = p /\ pc' = "visit"
      \/ p' = None /\ pc' = "search"
  BY DEF NextNeighbour
<1>4. ASSUME pc' = "visit" PROVE VisitInv'
  <2>1. Len(neighbours) > 1 /\ p' = p /\ neighbours' # <<>>
    <3>1. Len(neighbours) > 1 /\ p' = p
      BY <1>3, <1>4
    <3>2. Len(neighbours') # 0
      BY <1>2, <3>1
    <3> QED
      BY <3>1, <3>2
  <2>2. ASSUME NEW i \in 1 .. Len(neighbours'), NEW j \in 1 .. Len(neighbours'),
               neighbours'[i] = neighbours'[j]
        PROVE  i = j
    <3>1. i + 1 \in 1 .. Len(neighbours) /\ j + 1 \in 1 .. Len(neighbours)
      BY <1>2
    <3>2. neighbours[i + 1] = neighbours[j + 1]
      BY <1>2, <2>2
    <3>3. i + 1 = j + 1
      BY <1>1, <3>1, <3>2 DEF VisitInv
    <3> QED
      BY <1>2, <3>3
  <2>3. ASSUME NEW i \in 1 .. Len(neighbours')
        PROVE  /\ neighbours'[i] \in DOMAIN points' \ (m_points' \cup m_closedSet' \cup Locals)
               /\ points'[neighbours'[i]].origin = p'
    <3> DEFINE x == neighbours[i + 1]
    <3>1. i + 1 \in 1 .. Len(neighbours) /\ i + 1 # 1 /\ 1 \in 1 .. Len(neighbours)
          /\ neighbours'[i] = x
      BY <1>2
    <3>2. x # a
      BY <1>1, <1>2, <3>1 DEF VisitInv
    <3>3. x \in DOMAIN points \ (m_points \cup m_closedSet \cup Locals) /\ points[x].origin = p
      BY <1>1, <3>1 DEF VisitInv
    <3> QED
      BY <2>1, <3>1, <3>2, <3>3
  <2> QED
    BY <1>1, <2>1, <2>2, <2>3 DEF VisitInv
<1> QED
  BY <1>1, <1>2, <1>3, <1>4

(* The neighbour a is deleted; the point q of the open set may be updated with its
   score and origin. *)
LEMMA DeleteKeeps ==
  ASSUME IInv, pc = "visit", NextNeighbour, NEW a, a = Head(neighbours),
         UNCHANGED <<m_points, m_value, m_closedSet>>, m_points # {},
         NEW new, points' = Delete(new, {a}), DOMAIN new = DOMAIN points,
         \A x \in DOMAIN points :
           \/ new[x] = points[x]
           \/ /\ x \in m_points /\ new[x] \in Point /\ new[x].at = points[x].at
              /\ new[x].origin = p
              /\ new[x].g_score = Plus(points[p].g_score, Distance(points[p].at, points[x].at))
  PROVE  IInv'
<1>1. VisitInv /\ SetsInv /\ Memory /\ Lists(m_value, m_points)
      /\ \A x \in m_points \cup m_closedSet : ScoreMatches(x)
  BY DEF IInv, Used
<1>2. /\ a \in DOMAIN points /\ a \notin m_points \cup m_closedSet \cup Locals
      /\ p \in m_closedSet /\ p # None
  BY Turn
<1>3. /\ DOMAIN points' = DOMAIN points \ {a}
      /\ \A x \in DOMAIN points' : points'[x] = new[x]
  BY DEF Delete
<1>4. \A x \in DOMAIN points' : points'[x] \in Point /\ points'[x].at = points[x].at
  BY <1>1, <1>3 DEF Memory
<1>5. Memory'
  <2>1. IsFiniteSet(DOMAIN points)
    BY <1>1 DEF Memory
  <2>2. IsFiniteSet(DOMAIN points \ {a})
    BY <2>1, FS_RemoveElement
  <2> QED
    BY <1>1, <1>3, <1>4, <2>2 DEF Memory
<1>6. SetsInv'
  <2>1. /\ Locals \subseteq DOMAIN points'
        /\ m_points \subseteq DOMAIN points' /\ m_closedSet \subseteq DOMAIN points'
    BY <1>1, <1>2, <1>3 DEF SetsInv
  <2>2. ASSUME NEW q \in m_points, NEW r \in m_points, points'[q].at = points'[r].at
        PROVE  q = r
    <3>1. points[q].at = points[r].at
      BY <1>4, <2>1, <2>2
    <3> QED
      BY <1>1, <3>1 DEF SetsInv, SameCoordinates
  <2> QED
    BY <1>1, <2>1, <2>2 DEF SetsInv, SameCoordinates
<1>7. ASSUME NEW x \in m_points \cup m_closedSet PROVE ScoreMatches(x)'
  <2>1. /\ \A y \in m_closedSet : points'[y] = points[y] /\ y \in DOMAIN points'
        /\ x \in DOMAIN points /\ x \in DOMAIN points'
    BY <1>1, <1>2, <1>3 DEF SetsInv
  <2>2. ScoreMatches(x)
    BY <1>1
  <2>3. CASE new[x] = points[x]
    <3>1. points'[x] = points[x] /\ m_closedSet' = m_closedSet
      BY <1>3, <2>1, <2>3
    <3> QED
      BY <2>1, <2>2, <3>1 DEF ScoreMatches
  <2>4. CASE new[x] # points[x]
    <3>1. /\ points'[x].origin = p /\ points'[x].at = points[x].at
          /\ points'[x].g_score = Plus(points[p].g_score, Distance(points[p].at, points[x].at))
      BY <1>3, <2>1, <2>4
    <3>2. points'[p] = points[p]
      BY <1>2, <2>1
    <3> QED
      BY <1>2, <3>1, <3>2 DEF ScoreMatches
  <2> QED
    BY <2>3, <2>4
<1>8. \A x \in DOMAIN points \ (m_points \cup {a}) : points'[x] = points[x]
  BY <1>3
<1>9. /\ pc' = "visit" => VisitInv'
      /\ pc' \in {"visit", "search"}
      /\ neighbours' \in Seq(Nat \ {0}) /\ p' \in (Nat \ {0}) \cup {None}
  BY <1>3, <1>8, NextNeighbourKeeps
<1>10. TypeOK'
  <2>1. DOMAIN points' \subseteq Nat \ {0} /\ \A x \in DOMAIN points' : points'[x] \in Point
    BY <1>5 DEF Memory
  <2>2. args' = args /\ path' = path
    BY DEF NextNeighbour
  <2> QED
    BY <1>9, <2>1, <2>2 DEF IInv, TypeOK, Point
<1>11. \A x \in Used' : ScoreMatches(x)'
  BY <1>7, <1>9 DEF Used
<1>12. Lists(m_value, m_points)' /\ m_points' # {}
  BY <1>1
<1> QED
  BY <1>5, <1>6, <1>9, <1>10, <1>11, <1>12 DEF IInv

LEMMA DiscardKeeps == IInv /\ Discard => IInv'
<1> SUFFICES ASSUME IInv, Discard PROVE IInv'
  OBVIOUS
<1> DEFINE a == Head(neighbours)
<1>1. /\ pc = "visit" /\ points' = Delete(points, {a}) /\ NextNeighbour
      /\ UNCHANGED <<m_points, m_value, m_closedSet>>
  BY DEF Discard
<1>2. m_points # {}
  <2>1. ~Closed(a)
    BY <1>1, Turn
  <2> QED
    BY <2>1 DEF Discard, Existing
<1> QED
  BY <1>1, <1>2, DeleteKeeps

LEMMA ImproveKeeps == IInv /\ Improve => IInv'
<1> SUFFICES ASSUME IInv, Improve PROVE IInv'
  OBVIOUS
<1> DEFINE a == Head(neighbours)
<1>1. /\ pc = "visit" /\ NextNeighbour
      /\ UNCHANGED <<m_points, m_value, m_closedSet>>
  BY DEF Improve
<1>2. PICK q \in Existing(a) :
        points' = Delete([points EXCEPT ![q].g_score = Score(a),
                                        ![q].origin = points[a].origin], {a})
  BY DEF Improve
<1> DEFINE new == [points EXCEPT ![q].g_score = Score(a), ![q].origin = points[a].origin]
<1>3. q \in m_points /\ points[q].at = points[a].at
  BY DEF Existing, SameCoordinates
<1>4. q \in DOMAIN points /\ points[q] \in Point
  BY <1>1, <1>3 DEF IInv, SetsInv, Memory
<1>5. /\ points[a].origin = p /\ Score(a) \in Nat \X Nat /\ p \in Nat \ {0}
      /\ Score(a) = Plus(points[p].g_score, Distance(points[p].at, points[q].at))
  BY <1>1, <1>3, Turn DEF Score
<1>6. /\ DOMAIN new = DOMAIN points
      /\ \A x \in DOMAIN points : x # q => new[x] = points[x]
      /\ new[q] = [points[q] EXCEPT !.g_score = Score(a), !.origin = p]
  BY <1>4, <1>5
<1>7. /\ new[q] \in Point /\ new[q].at = points[q].at /\ new[q].origin = p
      /\ new[q].g_score = Score(a)
  BY <1>4, <1>5, <1>6 DEF Point
<1>8. points' = Delete(new, {a})
  BY <1>2
<1> HIDE DEF new
<1>9. \A x \in DOMAIN points :
        \/ new[x] = points[x]
        \/ /\ x \in m_points /\ new[x] \in Point /\ new[x].at = points[x].at
           /\ new[x].origin = p
           /\ new[x].g_score = Plus(points[p].g_score, Distance(points[p].at, points[x].at))
  BY <1>3, <1>5, <1>6, <1>7
<1>10. DOMAIN new = DOMAIN points /\ m_points # {}
  BY <1>3, <1>6
<1> HIDE DEF a
<1>11. a = Head(neighbours)
  BY DEF a
<1> QED
  BY <1>1, <1>8, <1>9, <1>10, <1>11, DeleteKeeps

(* The neighbour a gets into the open set, which had no point at its coordinates. *)
LEMMA AddKeeps == IInv /\ Add => IInv'
<1> SUFFICES ASSUME IInv, Add, NEW a, a = Head(neighbours) PROVE IInv'
  OBVIOUS
<1>1. /\ VisitInv /\ SetsInv /\ Memory /\ Lists(m_value, m_points) /\ pc = "visit"
      /\ \A x \in m_points \cup m_closedSet : ScoreMatches(x)
  BY DEF IInv, Used, Add
<1>2. /\ a \in DOMAIN points /\ a \notin m_points \cup m_closedSet \cup Locals
      /\ p \in m_closedSet /\ p # None /\ p # a
      /\ points[a].origin = p /\ Score(a) \in Nat \X Nat
  BY <1>1, Turn
<1>3. /\ points' = [points EXCEPT ![a].g_score = Score(a)]
      /\ m_closedSet' = m_closedSet /\ NextNeighbour
      /\ \A q \in m_points : points[q].at # points[a].at
  BY DEF Add, Existing, SameCoordinates
<1>4. m_points' = m_points \cup {a} /\ m_value' = Append(m_value, a)
  BY <1>3 DEF Add, OpenSetInsert, Insert, SameCoordinates
<1>5. points[a] \in Point
  BY <1>1, <1>2 DEF Memory
<1>6. /\ DOMAIN points' = DOMAIN points
      /\ \A x \in DOMAIN points : x # a => points'[x] = points[x]
      /\ points'[a] = [points[a] EXCEPT !.g_score = Score(a)]
  BY <1>2, <1>3
<1>7. /\ points'[a] \in Point /\ points'[a].at = points[a].at /\ points'[a].origin = p
      /\ points'[a].g_score = Plus(points[p].g_score, Distance(points[p].at, points[a].at))
  BY <1>2, <1>5, <1>6 DEF Point, Score
<1>8. Memory'
  BY <1>1, <1>6, <1>7 DEF Memory
<1>9. SetsInv'
  <2>1. /\ Locals \subseteq DOMAIN points'
        /\ m_points' \subseteq DOMAIN points' /\ m_closedSet' \subseteq DOMAIN points'
        /\ m_points' \cap m_closedSet' = {} /\ lastPoint \notin m_points' \cup m_closedSet'
    BY <1>1, <1>2, <1>3, <1>4, <1>6 DEF SetsInv, Locals
  <2>2. \A x \in DOMAIN points : points'[x].at = points[x].at
    BY <1>6, <1>7
  <2>3. ASSUME NEW q \in m_points', NEW r \in m_points', points'[q].at = points'[r].at
        PROVE  q = r
    <3>1. points[q].at = points[r].at
      BY <1>6, <2>1, <2>2, <2>3
    <3> QED
      BY <1>1, <1>3, <1>4, <3>1 DEF SetsInv, SameCoordinates
  <2> QED
    BY <2>1, <2>3 DEF SetsInv, SameCoordinates
<1>10. ASSUME NEW x \in m_points' \cup m_closedSet' PROVE ScoreMatches(x)'
  <2>1. \A y \in m_closedSet : points'[y] = points[y]
    BY <1>1, <1>2, <1>6 DEF SetsInv
  <2>2. CASE x = a
    BY <1>2, <1>3, <1>7, <2>1, <2>2 DEF ScoreMatches
  <2>3. CASE x # a
    <3>1. ScoreMatches(x) /\ points'[x] = points[x] /\ m_closedSet' = m_closedSet
      BY <1>1, <1>3, <1>4, <1>6, <2>3 DEF SetsInv
    <3> QED
      BY <2>1, <3>1 DEF ScoreMatches
  <2> QED
    BY <2>2, <2>3
<1>11. /\ pc' = "visit" => VisitInv'
       /\ pc' \in {"visit", "search"}
       /\ neighbours' \in Seq(Nat \ {0}) /\ p' \in (Nat \ {0}) \cup {None}
  BY <1>1, <1>3, <1>4, <1>6, NextNeighbourKeeps
<1>12. Lists(m_value, m_points)' /\ m_points' # {}
  BY <1>1, <1>2, <1>4, ListsAppend
<1>13. TypeOK'
  <2>1. DOMAIN points' \subseteq Nat \ {0} /\ \A x \in DOMAIN points' : points'[x] \in Point
    BY <1>8 DEF Memory
  <2>2. args' = args /\ path' = path
    BY <1>3 DEF NextNeighbour
  <2>3. a \in Nat \ {0} /\ m_value \in Seq(Nat \ {0}) /\ m_points \subseteq Nat \ {0}
    BY <1>1, <1>2 DEF Memory, IInv, TypeOK
  <2>4. m_value' \in Seq(Nat \ {0})
    BY <1>4, <2>3, AppendProperties
  <2> QED
    BY <1>3, <1>4, <1>11, <2>1, <2>2, <2>3, <2>4 DEF IInv, TypeOK, Point
<1>14. \A x \in Used' : ScoreMatches(x)'
  BY <1>10, <1>11 DEF Used
<1> QED
  BY <1>8, <1>9, <1>11, <1>12, <1>13, <1>14 DEF IInv

(* Of the two containers getBest takes the same point. *)
LEMMA GetBestTakesHead ==
  ASSUME IInv, pc = "search", GetBest, NEW best, best = Head(m_value)
  PROVE  /\ best \in m_points
         /\ m_points' = m_points \ {best}
         /\ m_value' = Tail(m_value)
         /\ Lists(m_value, m_points)'
<1>1. Lists(m_value, m_points) /\ SetsInv
  BY DEF IInv
<1>2. m_value # <<>> /\ m_value' = Tail(m_value)
  BY DEF GetBest
<1>3. best \in m_points /\ Lists(Tail(m_value), m_points \ {best})
  BY <1>1, <1>2, ListsTail
<1>4. Existing(best) = {best}
  BY <1>1, <1>3 DEF Existing, SetsInv, SameCoordinates
<1>5. m_points' = m_points \ {best}
  BY <1>4 DEF GetBest
<1> QED
  BY <1>2, <1>3, <1>5

(* The last point becomes a copy of the best one. *)
LEMMA ReachEndKeeps == IInv /\ ReachEnd => IInv'
<1> SUFFICES ASSUME IInv, ReachEnd, NEW best, best = Head(m_value) PROVE IInv'
  OBVIOUS
<1>1. /\ pc = "search" /\ pc' = "reconstruct" /\ GetBest
      /\ points' = [points EXCEPT ![lastPoint] = points[best]]
      /\ p' = lastPoint /\ UNCHANGED <<m_closedSet, args, neighbours, path>>
  BY DEF ReachEnd
<1>2. /\ SetsInv /\ Memory
      /\ \A x \in m_points \cup m_closedSet : ScoreMatches(x)
  BY <1>1 DEF IInv, Used
<1>3. /\ best \in m_points /\ m_points' = m_points \ {best}
      /\ m_value' = Tail(m_value) /\ Lists(m_value, m_points)'
  BY <1>1, GetBestTakesHead
<1>4. best \in DOMAIN points /\ lastPoint \in DOMAIN points
  BY <1>2, <1>3 DEF SetsInv, Locals
<1>5. /\ DOMAIN points' = DOMAIN points /\ points'[lastPoint] = points[best]
      /\ \A x \in DOMAIN points : x # lastPoint => points'[x] = points[x]
  BY <1>1, <1>4
<1>6. Memory'
  BY <1>2, <1>4, <1>5 DEF Memory
<1>7. \A x \in m_points \cup m_closedSet :
        x # lastPoint /\ x \in DOMAIN points /\ points'[x] = points[x]
  BY <1>2, <1>5 DEF SetsInv
<1>8. SetsInv'
  <2>1. m_closedSet' = m_closedSet
    BY <1>1
  <2> QED
    BY <1>2, <1>3, <1>5, <1>7, <2>1 DEF SetsInv, SameCoordinates
<1>9. ASSUME NEW x \in m_points \cup m_closedSet \cup {lastPoint} PROVE ScoreMatches(x)'
  <2> DEFINE y == IF x = lastPoint THEN best ELSE x
  <2>1. ScoreMatches(y) /\ points'[x] = points[y] /\ m_closedSet' = m_closedSet
    BY <1>1, <1>2, <1>3, <1>5, <1>7
  <2> HIDE DEF y
  <2> QED
    BY <1>7, <2>1 DEF ScoreMatches
<1>10. TypeOK'
  <2>1. DOMAIN points' \subseteq Nat \ {0} /\ \A x \in DOMAIN points' : points'[x] \in Point
    BY <1>6 DEF Memory
  <2>2. m_value' \in Seq(Nat \ {0})
    BY <1>1, <1>3, HeadTailProperties DEF GetBest, IInv, TypeOK
  <2>3. lastPoint \in Nat \ {0}
    BY DEF lastPoint
  <2> QED
    BY <1>1, <1>3, <2>1, <2>2, <2>3 DEF IInv, TypeOK, Point
<1>11. \A x \in Used' : ScoreMatches(x)'
  BY <1>1, <1>3, <1>9 DEF Used
<1> QED
  BY <1>1, <1>3, <1>6, <1>8, <1>10, <1>11 DEF IInv

(* The best point is closed, and eight points are made around it. *)
LEMMA ExpandKeeps == IInv /\ Expand => IInv'
<1> SUFFICES ASSUME IInv, Expand, NEW best, best = Head(m_value) PROVE IInv'
  OBVIOUS
<1> DEFINE m == Max(DOMAIN points)
<1>1. /\ pc = "search" /\ pc' = "visit" /\ GetBest
      /\ p' = best /\ m_closedSet' = m_closedSet \cup {best}
      /\ neighbours' = NewAddresses /\ args' = args /\ path' = path
  BY DEF Expand
<1>2. /\ SetsInv /\ Memory
      /\ \A x \in m_points \cup m_closedSet : ScoreMatches(x)
  BY <1>1 DEF IInv, Used
<1>3. /\ best \in m_points /\ m_points' = m_points \ {best}
      /\ m_value' = Tail(m_value) /\ Lists(m_value, m_points)'
  BY <1>1, GetBestTakesHead
<1>4. /\ best \in DOMAIN points /\ best \in Nat \ {0}
      /\ points[best].at \in Int \X Int
  BY <1>2, <1>3 DEF SetsInv, Memory, Point
<1>5. /\ m \in Nat \ {0} /\ NewAddresses = [i \in 1 .. 8 |-> m + i]
      /\ \A i \in 1 .. 8 : m + i \in Nat \ {0} /\ m + i \notin DOMAIN points
  BY <1>2, <1>4, NewAddressesAreNew
<1>6. /\ DOMAIN points' = DOMAIN points \cup (m + 1 .. m + 8)
      /\ \A x \in DOMAIN points : points'[x] = points[x]
      /\ \A i \in 1 .. 8 : points'[m + i] = NewPoint(Plus(points[best].at, Moves[i]), best)
  <2>1. points' = [x \in DOMAIN points \cup {NewAddresses[i] : i \in 1 .. 8} |->
                     IF x \in DOMAIN points THEN points[x]
                     ELSE NewPoint(Plus(points[best].at, Moves[x - m]), best)]
    BY <1>1, Arithmetic DEF Expand
  <2>2. {NewAddresses[i] : i \in 1 .. 8} = m + 1 .. m + 8
    <3> HIDE DEF m
    <3>1. \A i \in 1 .. 8 : NewAddresses[i] = m + i
      BY <1>5
    <3>2. \A x \in m + 1 .. m + 8 : x - m \in 1 .. 8 /\ m + (x - m) = x
      BY <1>5
    <3>3. \A i \in 1 .. 8 : m + i \in m + 1 .. m + 8
      BY <1>5
    <3> QED
      BY <3>1, <3>2, <3>3
  <2> HIDE DEF m
  <2>3. \A i \in 1 .. 8 : m + i \in m + 1 .. m + 8 /\ (m + i) - m = i
    BY <1>5
  <2> QED
    BY <1>5, <2>1, <2>2, <2>3
<1> HIDE DEF m
<1>7. \A i \in 1 .. 8 : /\ points'[m + i] \in Point /\ points'[m + i].origin = best
                       /\ m + i \in DOMAIN points'
  <2>1. ASSUME NEW i \in 1 .. 8 PROVE Plus(points[best].at, Moves[i]) \in Int \X Int
    BY <1>4, Arithmetic
  <2>2. \A i \in 1 .. 8 : m + i \in m + 1 .. m + 8
    BY <1>5
  <2> QED
    BY <1>4, <1>6, <2>1, <2>2, NewPointIsPoint
<1>8. Memory'
  <2>1. IsFiniteSet(m + 1 .. m + 8)
    BY <1>5, FS_Interval
  <2>2. IsFiniteSet(DOMAIN points')
    BY <1>2, <1>6, <2>1, FS_Union DEF Memory
  <2>3. \A x \in m + 1 .. m + 8 : x - m \in 1 .. 8 /\ m + (x - m) = x
    BY <1>5
  <2>4. \A x \in m + 1 .. m + 8 : x \in Nat \ {0} /\ points'[x] \in Point
    BY <1>5, <1>7, <2>3
  <2> QED
    BY <1>2, <1>6, <2>2, <2>4 DEF Memory
<1>9. SetsInv'
  <2>1. /\ m_points' \subseteq DOMAIN points /\ m_closedSet' \subseteq DOMAIN points
        /\ m_points' \cap m_closedSet' = {} /\ lastPoint \notin m_points' \cup m_closedSet'
    BY <1>1, <1>2, <1>3 DEF SetsInv
  <2>2. ASSUME NEW q \in m_points', NEW r \in m_points', points'[q].at = points'[r].at
        PROVE  q = r
    BY <1>2, <1>3, <1>6, <2>1, <2>2 DEF SetsInv, SameCoordinates
  <2> QED
    BY <1>2, <1>6, <2>1, <2>2 DEF SetsInv, SameCoordinates
<1>10. ASSUME NEW x \in m_points' \cup m_closedSet' PROVE ScoreMatches(x)'
  <2>1. ScoreMatches(x) /\ x \in DOMAIN points
    BY <1>1, <1>2, <1>3, <1>10 DEF SetsInv
  <2>2. \A y \in m_closedSet : points'[y] = points[y] /\ y \in m_closedSet'
    BY <1>1, <1>2, <1>6 DEF SetsInv
  <2>3. points'[x] = points[x]
    BY <1>6, <2>1
  <2> QED
    BY <2>1, <2>2, <2>3 DEF ScoreMatches
<1>11. Len(neighbours') = 8 /\ neighbours' \in Seq(Nat \ {0})
       /\ \A i \in 1 .. 8 : neighbours'[i] = m + i
  BY <1>1, <1>5
<1>12. VisitInv'
  <2>1. neighbours' # <<>>
    <3>1. Len(neighbours') # 0
      BY <1>11
    <3> QED
      BY <3>1
  <2>2. \A i, j \in 1 .. 8 : neighbours'[i] = neighbours'[j] => i = j
    BY <1>5, <1>11
  <2>3. ASSUME NEW i \in 1 .. 8
        PROVE  /\ neighbours'[i] \in DOMAIN points' \ (m_points' \cup m_closedSet' \cup Locals)
               /\ points'[neighbours'[i]].origin = p'
    BY <1>1, <1>2, <1>3, <1>5, <1>7, <1>11 DEF SetsInv
  <2> QED
    BY <1>1, <1>11, <2>1, <2>2, <2>3 DEF VisitInv
<1>13. TypeOK'
  <2>1. DOMAIN points' \subseteq Nat \ {0} /\ \A x \in DOMAIN points' : points'[x] \in Point
    BY <1>8 DEF Memory
  <2>2. m_value' \in Seq(Nat \ {0})
    BY <1>1, <1>3, HeadTailProperties DEF GetBest, IInv, TypeOK
  <2> QED
    BY <1>1, <1>3, <1>4, <1>11, <2>1, <2>2 DEF IInv, TypeOK, Point
<1>14. \A x \in Used' : ScoreMatches(x)'
  BY <1>1, <1>10 DEF Used
<1> QED
  BY <1>1, <1>3, <1>8, <1>9, <1>12, <1>13, <1>14 DEF IInv

(* route is called when its sets have no point of an earlier call that was a local
   variable; what is left in them is deleted. *)
LEMMA CallRouteKeeps ==
  ASSUME IInv, NEW start \in Int \X Int, NEW end \in Int \X Int, NEW prependable \in BOOLEAN,
         CallRoute(start, end, prependable)
  PROVE  IInv'
<1> DEFINE kept == AfterClosedSetClear(AfterOpenSetClear(points))
<1>1. /\ pc = "idle" /\ pc' = "search"
      /\ args' = [start |-> start, end |-> end, prependable |-> prependable]
      /\ m_points' = {firstPoint} /\ m_value' = <<firstPoint>> /\ m_closedSet' = {}
      /\ path' = <<>> /\ p' = p /\ neighbours' = neighbours
  BY DEF CallRoute
<1>2. Memory /\ Locals \cap DOMAIN points = {}
  BY <1>1 DEF IInv
<1>3. /\ DOMAIN kept = DOMAIN points \ (m_points \cup m_closedSet)
      /\ \A a \in DOMAIN kept : kept[a] = points[a]
  BY DEF AfterClosedSetClear, AfterOpenSetClear, Delete
<1>4. points' = [a \in DOMAIN kept \cup Locals |->
                   IF a \in DOMAIN kept THEN kept[a]
                   ELSE IF prependable <=> (a = firstPoint) THEN NewPoint(start, None)
                   ELSE NewPoint(end, None)]
  BY DEF CallRoute
<1> HIDE DEF kept
<1>5. firstPoint \in Locals /\ lastPoint \in Locals /\ firstPoint # lastPoint
      /\ Locals \subseteq Nat \ {0} /\ IsFiniteSet(Locals)
  <2>1. IsFiniteSet(Locals)
    <3>1. IsFiniteSet({firstPoint})
      BY FS_Singleton
    <3>2. IsFiniteSet({firstPoint} \cup {lastPoint})
      BY <3>1, FS_AddElement
    <3>3. Locals = {firstPoint} \cup {lastPoint}
      BY DEF Locals
    <3> QED
      BY <3>2, <3>3
  <2> QED
    BY <2>1 DEF Locals, firstPoint, lastPoint
<1>6. /\ DOMAIN points' = DOMAIN kept \cup Locals
      /\ \A a \in DOMAIN kept : points'[a] = points[a]
      /\ \A a \in Locals : points'[a] \in {NewPoint(start, None), NewPoint(end, None)}
  BY <1>2, <1>3, <1>4
<1>7. Memory'
  <2>1. IsFiniteSet(DOMAIN kept)
    BY <1>2, <1>3, FS_Difference DEF Memory
  <2>2. IsFiniteSet(DOMAIN points')
    <3>1. IsFiniteSet(DOMAIN kept \cup Locals)
      BY <1>5, <2>1, FS_Union
    <3> QED
      BY <1>6, <3>1
  <2>3. \A a \in DOMAIN points' : points'[a] \in Point
    <3>1. NewPoint(start, None) \in Point /\ NewPoint(end, None) \in Point
      BY NewPointIsPoint
    <3>2. \A a \in DOMAIN kept : points'[a] \in Point
      BY <1>2, <1>3, <1>6 DEF Memory
    <3>3. \A a \in Locals : points'[a] \in Point
      BY <1>6, <3>1
    <3> QED
      BY <1>6, <3>2, <3>3
  <2> QED
    BY <1>2, <1>3, <1>5, <1>6, <2>2, <2>3 DEF Memory
<1>8. SetsInv'
  BY <1>1, <1>5, <1>6 DEF SetsInv
<1>9. \A x \in Used' : ScoreMatches(x)'
  <2>1. points'[firstPoint].origin = None /\ points'[firstPoint].g_score = <<0, 0>>
    BY <1>5, <1>6, NewPointIsPoint
  <2> QED
    BY <1>1, <2>1 DEF Used, ScoreMatches
<1>10. Lists(m_value, m_points)'
  BY <1>1 DEF Lists
<1>11. TypeOK'
  <2>1. DOMAIN points' \subseteq Nat \ {0} /\ \A x \in DOMAIN points' : points'[x] \in Point
    BY <1>7 DEF Memory
  <2>2. m_value' \in Seq(Nat \ {0}) /\ path' \in Seq(Int \X Int)
    BY <1>1, <1>5
  <2> QED
    BY <1>1, <1>5, <2>1, <2>2 DEF IInv, TypeOK, Point
<1> QED
  BY <1>1, <1>7, <1>8, <1>9, <1>10, <1>11 DEF IInv

LEMMA ReconstructKeeps == IInv /\ Reconstruct => IInv'
<1> SUFFICES ASSUME IInv, Reconstruct PROVE IInv'
  OBVIOUS
<1>1. /\ pc = "reconstruct" /\ p # None /\ p' = points[p].origin
      /\ UNCHANGED <<points, m_points, m_value, m_closedSet, pc, args, neighbours>>
      /\ path' = InsertIntoPath(points[p].at)
  BY DEF Reconstruct
<1>2. /\ SetsInv /\ Memory /\ p \in m_closedSet \cup {lastPoint}
      /\ \A x \in m_closedSet \cup {lastPoint} : ScoreMatches(x)
  BY <1>1 DEF IInv, Used
<1>3. p \in DOMAIN points
  BY <1>2 DEF SetsInv, Locals
<1>4. points[p] \in Point
  BY <1>2, <1>3 DEF Memory
<1>5. p' \in m_closedSet \cup {None}
  BY <1>1, <1>2 DEF ScoreMatches
<1>6. path' \in Seq(Int \X Int)
  <2>1. path \in Seq(Int \X Int) /\ points[p].at \in Int \X Int
    BY <1>4 DEF IInv, TypeOK, Point
  <2>2. <<points[p].at>> \in Seq(Int \X Int)
    BY <2>1
  <2>3. /\ <<points[p].at>> \o path \in Seq(Int \X Int)
        /\ Append(path, points[p].at) \in Seq(Int \X Int)
    BY <2>1, <2>2, ConcatProperties, AppendProperties
  <2> QED
    BY <1>1, <2>3 DEF InsertIntoPath
<1>7. TypeOK'
  BY <1>1, <1>4, <1>6 DEF IInv, TypeOK, Point
<1>8. /\ Memory' /\ SetsInv' /\ Lists(m_value, m_points)' /\ Used' = Used
      /\ \A x \in Used' : ScoreMatches(x)'
  BY <1>1 DEF IInv, Memory, SetsInv, SameCoordinates, Used, ScoreMatches
<1> QED
  BY <1>1, <1>5, <1>7, <1>8 DEF IInv

LEMMA ReturnKeeps == IInv /\ Return => IInv'
<1> SUFFICES ASSUME IInv, Return PROVE IInv'
  OBVIOUS
<1>1. /\ pc' = "idle" /\ points' = Delete(points, Locals) /\ Memory
      /\ UNCHANGED <<m_points, m_value, m_closedSet, args, p, neighbours, path>>
  BY DEF Return, IInv
<1>2. /\ DOMAIN points' = DOMAIN points \ Locals
      /\ \A a \in DOMAIN points' : points'[a] = points[a]
  BY <1>1 DEF Delete
<1>3. IsFiniteSet(DOMAIN points')
  BY <1>1, <1>2, FS_Difference DEF Memory
<1>4. Memory'
  BY <1>1, <1>2, <1>3 DEF Memory
<1>5. TypeOK'
  BY <1>1, <1>2 DEF IInv, TypeOK
<1>6. Lists(m_value, m_points)'
  BY <1>1 DEF IInv
<1> QED
  BY <1>1, <1>2, <1>4, <1>5, <1>6 DEF IInv

(* IInv is inductive. *)
LEMMA InvariantIInv == Spec => []IInv
<1>1. ASSUME IInv, Next PROVE IInv'
  <2>1. ASSUME NEW a \in Arguments, NEW prependable \in Prependable,
               CallRoute(a[1], a[2], prependable)
        PROVE  IInv'
    <3>1. a[1] \in Int \X Int /\ a[2] \in Int \X Int /\ prependable \in BOOLEAN
      BY AStarAssumption DEF AStarAssumption, Prependable
    <3> QED
      BY <1>1, <2>1, <3>1, CallRouteKeeps
  <2> QED
    BY <1>1, <2>1, ReachEndKeeps, ExpandKeeps, DiscardKeeps, ImproveKeeps, AddKeeps,
       ReconstructKeeps, ReturnKeeps DEF Next
<1>2. ASSUME IInv, UNCHANGED vars PROVE IInv'
  BY <1>2 DEF vars, IInv, TypeOK, Memory, SetsInv, SameCoordinates, VisitInv, Used, ScoreMatches
<1> QED
  BY InitIInv, <1>1, <1>2, PTL DEF Spec

-----------------------------------------------------------------------------
(* Every variable stays in its set: no address is used that no point can have. *)
THEOREM TypeCorrect == Spec => []TypeOK
<1>1. IInv => TypeOK
  BY DEF IInv
<1> QED
  BY InvariantIInv, <1>1, PTL

(* The two containers of the open set have the same points, once each and at different
   coordinates, and the search does not run out of them (std_types.hpp:125 to 162). *)
THEOREM OpenSetKeptConsistent == Spec => []OpenSetConsistent
<1>1. IInv => OpenSetConsistent
  <2> SUFFICES ASSUME IInv PROVE OpenSetConsistent
    OBVIOUS
  <2>1. {m_value[i] : i \in DOMAIN m_value} = m_points /\ Len(m_value) = Cardinality(m_points)
    BY ListsLen DEF IInv
  <2>2. pc # "idle" => /\ m_points \subseteq DOMAIN points
                       /\ \A q, r \in m_points : SameCoordinates(q, r) => q = r
    BY DEF IInv, SetsInv
  <2>3. pc = "search" => m_value # <<>>
    BY DEF IInv, Lists
  <2> QED
    BY <2>1, <2>2, <2>3 DEF OpenSetConsistent
<1> QED
  BY InvariantIInv, <1>1, PTL

(* The score of a point that may be on a route is that of its origin and the way from
   there, and the origin is a closed point that still exists (base.hpp:190). *)
THEOREM ScoresKeptMatching == Spec => []ScoresMatchOrigins
<1>1. IInv => ScoresMatchOrigins
  BY DEF IInv, ScoresMatchOrigins, Used, ScoreMatches, SetsInv
<1> QED
  BY InvariantIInv, <1>1, PTL

-----------------------------------------------------------------------------
(* Ways on the grid. *)
(* Steps and Diagonals in terms of numbers only. *)
LEMMA StepsAre ==
  ASSUME NEW c \in Int \X Int, NEW d \in Int \X Int,
         NEW x \in Int, x = d[1] - c[1], NEW y \in Int, y = d[2] - c[2]
  PROVE  /\ Steps(c, d) = IF Abs(x) >= Abs(y) THEN Abs(x) ELSE Abs(y)
         /\ Diagonals(c, d) = IF Abs(x) >= Abs(y) THEN Abs(y) ELSE Abs(x)
<1>1. PICK m \in Nat, n \in Nat : m = Abs(x) /\ n = Abs(y)
  BY DEF Abs
<1>2. Abs(c[1] - d[1]) = m /\ Abs(c[2] - d[2]) = n
  <2>1. PICK i \in Int, j \in Int, k \in Int, l \in Int : c = <<i, j>> /\ d = <<k, l>>
    OBVIOUS
  <2> QED
    BY <1>1, <2>1 DEF Abs
<1>3. Steps(c, d) = Max({m, n}) /\ Diagonals(c, d) = Min({m, n})
  BY <1>2 DEF Steps, Diagonals
<1>4. CASE m >= n
  <2>1. \A z \in {m, n} : (\A w \in {m, n} : z >= w) <=> z = m
    BY <1>4
  <2>2. \A z \in {m, n} : (\A w \in {m, n} : z <= w) <=> z = n
    BY <1>4
  <2>3. Max({m, n}) = m /\ Min({m, n}) = n
    BY <2>1, <2>2 DEF Max, Min
  <2> QED
    BY <1>1, <1>3, <1>4, <2>3
<1>5. CASE ~(m >= n)
  <2>1. \A z \in {m, n} : (\A w \in {m, n} : z >= w) <=> z = n
    BY <1>5
  <2>2. \A z \in {m, n} : (\A w \in {m, n} : z <= w) <=> z = m
    BY <1>5
  <2>3. Max({m, n}) = n /\ Min({m, n}) = m
    BY <2>1, <2>2 DEF Max, Min
  <2> QED
    BY <1>1, <1>3, <1>5, <2>3
<1> QED
  BY <1>4, <1>5

LEMMA StepsTypes ==
  ASSUME NEW c \in Int \X Int, NEW d \in Int \X Int
  PROVE  /\ Steps(c, d) \in Nat /\ Diagonals(c, d) \in Nat /\ Diagonals(c, d) <= Steps(c, d)
         /\ Steps(d, c) = Steps(c, d) /\ Diagonals(d, c) = Diagonals(c, d)
         /\ Steps(c, d) = 0 <=> c = d
         /\ c = d => Diagonals(c, d) = 0
<1>1. PICK i \in Int, j \in Int, k \in Int, l \in Int : c = <<i, j>> /\ d = <<k, l>>
  OBVIOUS
<1>2. PICK x \in Int, y \in Int : x = k - i /\ y = l - j
  OBVIOUS
<1>3. x = d[1] - c[1] /\ y = d[2] - c[2] /\ -x = c[1] - d[1] /\ -y = c[2] - d[2]
      /\ -x \in Int /\ -y \in Int
  BY <1>1, <1>2
<1>4. /\ Steps(c, d) = IF Abs(x) >= Abs(y) THEN Abs(x) ELSE Abs(y)
      /\ Diagonals(c, d) = IF Abs(x) >= Abs(y) THEN Abs(y) ELSE Abs(x)
  BY <1>3, StepsAre
<1>5. /\ Steps(d, c) = IF Abs(-x) >= Abs(-y) THEN Abs(-x) ELSE Abs(-y)
      /\ Diagonals(d, c) = IF Abs(-x) >= Abs(-y) THEN Abs(-y) ELSE Abs(-x)
  BY <1>3, StepsAre
<1>6. Abs(-x) = Abs(x) /\ Abs(-y) = Abs(y) /\ Abs(x) \in Nat /\ Abs(y) \in Nat
      /\ (Abs(x) = 0 <=> k = i) /\ (Abs(y) = 0 <=> l = j)
  BY <1>2 DEF Abs
<1>7. c = d <=> k = i /\ l = j
  BY <1>1
<1> QED
  BY <1>4, <1>5, <1>6, <1>7

(* The coordinates at one step. *)
LEMMA NextTo ==
  ASSUME NEW c \in Int \X Int, NEW d \in Int \X Int, Steps(c, d) = 1
  PROVE  /\ d[1] - c[1] \in -1 .. 1 /\ d[2] - c[2] \in -1 .. 1
         /\ Diagonals(c, d) \in {0, 1}
         /\ Distance(c, d) = <<1 - Diagonals(c, d), Diagonals(c, d)>>
<1>1. PICK i \in Int, j \in Int, k \in Int, l \in Int : c = <<i, j>> /\ d = <<k, l>>
  OBVIOUS
<1>2. PICK x \in Int, y \in Int : x = k - i /\ y = l - j
  OBVIOUS
<1>3. x = d[1] - c[1] /\ y = d[2] - c[2]
  BY <1>1, <1>2
<1>4. /\ Steps(c, d) = IF Abs(x) >= Abs(y) THEN Abs(x) ELSE Abs(y)
      /\ Diagonals(c, d) = IF Abs(x) >= Abs(y) THEN Abs(y) ELSE Abs(x)
  BY <1>3, StepsAre
<1>5. x \in -1 .. 1 /\ y \in -1 .. 1
  BY <1>4 DEF Abs
<1>6. Diagonals(c, d) = IF x = 0 \/ y = 0 THEN 0 ELSE 1
  BY <1>4, <1>5 DEF Abs
<1>7. c[1] = d[1] \/ c[2] = d[2] <=> x = 0 \/ y = 0
  BY <1>1, <1>2
<1> QED
  BY <1>3, <1>5, <1>6, <1>7 DEF Distance

(* One step leads one step further at most, and as much further along the diagonals. *)
LEMMA OneStep ==
  ASSUME NEW f \in Int \X Int, NEW c \in Int \X Int, NEW d \in Int \X Int, Steps(c, d) = 1
  PROVE  /\ Steps(f, d) <= Steps(f, c) + 1
         /\ Steps(f, c) <= Steps(f, d) + 1
         /\ Steps(f, d) + Diagonals(f, d) <= Steps(f, c) + Diagonals(f, c) + 1 + Diagonals(c, d)
<1>1. PICK i \in Int, j \in Int, k \in Int, l \in Int : c = <<i, j>> /\ d = <<k, l>>
  OBVIOUS
<1>2. PICK m \in Int, n \in Int : f = <<m, n>>
  OBVIOUS
<1>3. PICK x \in -1 .. 1, y \in -1 .. 1 : x = k - i /\ y = l - j
  BY <1>1, NextTo
<1>4. PICK u \in Int, v \in Int : u = i - m /\ v = j - n
  OBVIOUS
<1>5. u = c[1] - f[1] /\ v = c[2] - f[2] /\ x = d[1] - c[1] /\ y = d[2] - c[2]
      /\ u + x = d[1] - f[1] /\ v + y = d[2] - f[2] /\ u + x \in Int /\ v + y \in Int
      /\ x \in Int /\ y \in Int
  BY <1>1, <1>2, <1>3, <1>4
<1>6. /\ Steps(f, c) = IF Abs(u) >= Abs(v) THEN Abs(u) ELSE Abs(v)
      /\ Diagonals(f, c) = IF Abs(u) >= Abs(v) THEN Abs(v) ELSE Abs(u)
  BY <1>5, StepsAre
<1>7. /\ Steps(f, d) = IF Abs(u + x) >= Abs(v + y) THEN Abs(u + x) ELSE Abs(v + y)
      /\ Diagonals(f, d) = IF Abs(u + x) >= Abs(v + y) THEN Abs(v + y) ELSE Abs(u + x)
  BY <1>5, StepsAre
<1>8. /\ Steps(c, d) = IF Abs(x) >= Abs(y) THEN Abs(x) ELSE Abs(y)
      /\ Diagonals(c, d) = IF Abs(x) >= Abs(y) THEN Abs(y) ELSE Abs(x)
  BY <1>5, StepsAre
<1>9. Abs(u + x) <= Abs(u) + Abs(x) /\ Abs(v + y) <= Abs(v) + Abs(y)
      /\ Abs(u) <= Abs(u + x) + Abs(x) /\ Abs(v) <= Abs(v + y) + Abs(y)
      /\ Abs(x) \in 0 .. 1 /\ Abs(y) \in 0 .. 1
      /\ Abs(u) \in Nat /\ Abs(v) \in Nat /\ Abs(u + x) \in Nat /\ Abs(v + y) \in Nat
  BY <1>5 DEF Abs
<1> QED
  BY <1>6, <1>7, <1>8, <1>9

(* From the start to coordinates there is a shortest way by other coordinates next to
   them. *)
LEMMA StepBefore ==
  ASSUME NEW f \in Int \X Int, NEW d \in Int \X Int, NEW n \in Nat, Steps(f, d) = n + 1
  PROVE  \E c \in Int \X Int : /\ Steps(c, d) = 1 /\ Steps(f, c) = n
                              /\ Diagonals(f, c) + Diagonals(c, d) = Diagonals(f, d)
<1>1. PICK i \in Int, j \in Int, k \in Int, l \in Int : f = <<i, j>> /\ d = <<k, l>>
  OBVIOUS
<1>2. PICK x \in Int, y \in Int : x = k - i /\ y = l - j
  OBVIOUS
<1>3. PICK s \in Int, t \in Int :
        /\ s = IF x > 0 THEN 1 ELSE IF x < 0 THEN -1 ELSE 0
        /\ t = IF y > 0 THEN 1 ELSE IF y < 0 THEN -1 ELSE 0
  OBVIOUS
<1>a. k - s \in Int /\ l - t \in Int
  BY <1>1, <1>3
<1>4. PICK c \in Int \X Int : c = <<k - s, l - t>>
  BY <1>a
<1>5. /\ x = d[1] - f[1] /\ y = d[2] - f[2] /\ s = d[1] - c[1] /\ t = d[2] - c[2]
      /\ x - s = c[1] - f[1] /\ y - t = c[2] - f[2]
      /\ x - s \in Int /\ y - t \in Int /\ s \in Int /\ t \in Int
  BY <1>1, <1>2, <1>4
<1>6. /\ Steps(f, d) = IF Abs(x) >= Abs(y) THEN Abs(x) ELSE Abs(y)
      /\ Diagonals(f, d) = IF Abs(x) >= Abs(y) THEN Abs(y) ELSE Abs(x)
  BY <1>5, StepsAre
<1>7. /\ Steps(f, c) = IF Abs(x - s) >= Abs(y - t) THEN Abs(x - s) ELSE Abs(y - t)
      /\ Diagonals(f, c) = IF Abs(x - s) >= Abs(y - t) THEN Abs(y - t) ELSE Abs(x - s)
  BY <1>5, StepsAre
<1>8. /\ Steps(c, d) = IF Abs(s) >= Abs(t) THEN Abs(s) ELSE Abs(t)
      /\ Diagonals(c, d) = IF Abs(s) >= Abs(t) THEN Abs(t) ELSE Abs(s)
  BY <1>5, StepsAre
<1>9. /\ Abs(x) = Abs(x - s) + Abs(s) /\ Abs(y) = Abs(y - t) + Abs(t)
      /\ Abs(s) = (IF x = 0 THEN 0 ELSE 1) /\ Abs(t) = IF y = 0 THEN 0 ELSE 1
      /\ (Abs(x) = 0 <=> x = 0) /\ (Abs(y) = 0 <=> y = 0)
      /\ Abs(x) \in Nat /\ Abs(y) \in Nat /\ Abs(x - s) \in Nat /\ Abs(y - t) \in Nat
  BY <1>3, <1>5 DEF Abs
<1>10. Steps(c, d) = 1 /\ Steps(f, c) = n /\ Diagonals(f, c) + Diagonals(c, d) = Diagonals(f, d)
  BY <1>6, <1>7, <1>8, <1>9
<1> QED
  BY <1>10

(* The neighbours of coordinates are those at one step. *)
LEMMA MovesAreSteps ==
  ASSUME NEW c \in Int \X Int
  PROVE  /\ \A i \in 1 .. 8 :
              Plus(c, Moves[i]) \in Int \X Int /\ Steps(c, Plus(c, Moves[i])) = 1
         /\ \A d \in Int \X Int : Steps(c, d) = 1 => \E i \in 1 .. 8 : d = Plus(c, Moves[i])
<1>1. PICK i \in Int, j \in Int : c = <<i, j>>
  OBVIOUS
<1>2. ASSUME NEW m \in 1 .. 8
      PROVE  Plus(c, Moves[m]) \in Int \X Int /\ Steps(c, Plus(c, Moves[m])) = 1
  <2>1. PICK x \in -1 .. 1, y \in -1 .. 1 : Moves[m] = <<x, y>> /\ ~(x = 0 /\ y = 0)
    BY DEF Moves
  <2>a. i + x \in Int /\ j + y \in Int
    OBVIOUS
  <2>b. Plus(c, Moves[m]) = <<i + x, j + y>>
    BY <1>1, <2>1 DEF Plus
  <2>2. PICK d \in Int \X Int : d = Plus(c, Moves[m]) /\ d = <<i + x, j + y>>
    BY <2>a, <2>b
  <2>3. x \in Int /\ y \in Int /\ x = d[1] - c[1] /\ y = d[2] - c[2]
    BY <1>1, <2>2
  <2>4. Steps(c, d) = IF Abs(x) >= Abs(y) THEN Abs(x) ELSE Abs(y)
    BY <2>3, StepsAre
  <2>5. Steps(c, d) = 1
    BY <2>1, <2>4 DEF Abs
  <2> QED
    BY <2>2, <2>5
<1>3. ASSUME NEW d \in Int \X Int, Steps(c, d) = 1
      PROVE  \E m \in 1 .. 8 : d = Plus(c, Moves[m])
  <2>1. PICK k \in Int, l \in Int : d = <<k, l>>
    OBVIOUS
  <2>2. PICK x \in -1 .. 1, y \in -1 .. 1 : x = k - i /\ y = l - j
    BY <1>1, <1>3, <2>1, NextTo
  <2>3. ~(x = 0 /\ y = 0)
    <3>1. c # d
      BY <1>3, StepsTypes
    <3> QED
      BY <1>1, <2>1, <2>2, <3>1
  <2>4. \E m \in 1 .. 8 : Moves[m] = <<x, y>>
    BY <2>2, <2>3 DEF Moves
  <2>5. PICK m \in 1 .. 8 : Moves[m] = <<x, y>>
    BY <2>4
  <2>6. i + x = k /\ j + y = l
    BY <2>2
  <2> QED
    BY <1>1, <2>1, <2>5, <2>6 DEF Plus
<1> QED
  BY <1>2, <1>3

-----------------------------------------------------------------------------
(* Lengths of ways. *)
Length(g) == g[1] + g[2]

LEMMA Squares ==
  ASSUME NEW n \in Int
  PROVE  /\ n > 0 => n * n < 2 * n * n
         /\ n = 0 => ~(n * n < 2 * n * n)
         /\ n < 0 => ~(n * n > 2 * n * n)
<1>1. n # 0 => n * n > 0
  OBVIOUS
<1>2. n * n \in Int /\ 2 * n * n = n * n + n * n
  OBVIOUS
<1> QED
  BY <1>1, <1>2

(* Of scores of one length in steps the one with fewer diagonal steps is less. *)
LEMMA LessDiagonal ==
  ASSUME NEW g \in Nat \X Nat, NEW h \in Nat \X Nat, Length(g) = Length(h)
  PROVE  Less(g, h) <=> g[2] < h[2]
<1>1. PICK a \in Nat, b \in Nat, c \in Nat, d \in Nat : g = <<a, b>> /\ h = <<c, d>>
  OBVIOUS
<1>2. PICK n \in Int : n = a - c
  OBVIOUS
<1>3. d - b = n
  BY <1>1, <1>2 DEF Length
<1>4. Less(g, h) <=> \/ n >= 0 /\ (n < 0 \/ n * n < 2 * n * n)
                     \/ n < 0 /\ n < 0 /\ n * n > 2 * n * n
  BY <1>1, <1>2, <1>3 DEF Less
<1>5. Less(g, h) <=> n > 0
  BY <1>4, Squares
<1> QED
  BY <1>1, <1>3, <1>5

(* With x steps more, and y more if diagonal ones count twice, a way is not shorter. *)
LEMMA LongerWay ==
  ASSUME NEW x \in Nat, NEW y \in Nat
  PROVE  /\ x >= y => 2 * x - y >= 0 /\ ~((2 * x - y) * (2 * x - y) < 2 * (x - y) * (x - y))
         /\ y > 2 * x => ~((2 * x - y) * (2 * x - y) > 2 * (x - y) * (x - y))
<1>1. (2 * x - y) * (2 * x - y) = 4 * (x * x) - 4 * (x * y) + y * y
  OBVIOUS
<1>2. 2 * (x - y) * (x - y) = 2 * (x * x) - 4 * (x * y) + 2 * (y * y)
  OBVIOUS
<1>3. PICK q \in Nat, r \in Nat, s \in Nat : q = x * x /\ r = x * y /\ s = y * y
  OBVIOUS
<1>4. x >= y => q >= s
  BY <1>3
<1>5. y > 2 * x => s >= 2 * q
  <2>1. SUFFICES ASSUME y > 2 * x PROVE s >= 2 * q
    OBVIOUS
  <2>2. y * y >= (2 * x) * (2 * x)
    BY <2>1
  <2> QED
    BY <1>3, <2>2
<1>6. /\ (2 * x - y) * (2 * x - y) = 4 * q - 4 * r + s
      /\ 2 * (x - y) * (x - y) = 2 * q - 4 * r + 2 * s
  BY <1>1, <1>2, <1>3
<1>7. PICK v \in Int, w \in Int : v = (2 * x - y) * (2 * x - y) /\ w = 2 * (x - y) * (x - y)
  OBVIOUS
<1>8. v = 4 * q - 4 * r + s /\ w = 2 * q - 4 * r + 2 * s
  BY <1>6, <1>7
<1>9. (x >= y => ~(v < w)) /\ (y > 2 * x => ~(v > w))
  BY <1>4, <1>5, <1>8
<1>10. x >= y => 2 * x - y >= 0
  OBVIOUS
<1> QED
  BY <1>7, <1>9, <1>10

(* No score is less than one with as few steps as can be, also if diagonal ones count
   twice: then it is the length of a shortest way. *)
LEMMA NoneIsLess ==
  ASSUME NEW g \in Nat \X Nat, NEW h \in Nat \X Nat,
         Length(h) <= Length(g), Length(h) + h[2] <= Length(g) + g[2]
  PROVE  ~Less(g, h)
<1>1. PICK a \in Nat, b \in Nat, c \in Nat, d \in Nat : g = <<a, b>> /\ h = <<c, d>>
  OBVIOUS
<1>2. PICK x \in Nat, y \in Nat : x = (a + b) - (c + d) /\ y = (a + 2 * b) - (c + 2 * d)
  BY <1>1 DEF Length
<1>3. a - c = 2 * x - y /\ d - b = x - y
  BY <1>1, <1>2
<1>4. Less(g, h) <=>
        \/ x - y >= 0 /\ (2 * x - y < 0 \/ (2 * x - y) * (2 * x - y) < 2 * (x - y) * (x - y))
        \/ x - y < 0 /\ 2 * x - y < 0 /\ (2 * x - y) * (2 * x - y) > 2 * (x - y) * (x - y)
  BY <1>1, <1>3 DEF Less
<1>5. CASE x >= y
  BY <1>4, <1>5, LongerWay
<1>6. CASE ~(x >= y)
  BY <1>4, <1>6, LongerWay
<1> QED
  BY <1>5, <1>6

(* The coordinates at n steps or fewer are a square. *)
Square(f, n) == {c \in Int \X Int : Steps(f, c) <= n}

LEMMA SquareCounts ==
  ASSUME NEW f \in Int \X Int, NEW n \in Nat
  PROVE  /\ IsFiniteSet(Square(f, n))
         /\ Cardinality(Square(f, n)) = (2 * n + 1) * (2 * n + 1)
<1>1. PICK i \in Int, j \in Int : f = <<i, j>>
  OBVIOUS
<1>2. Square(f, n) = (i - n .. i + n) \X (j - n .. j + n)
  <2>1. ASSUME NEW k \in Int, NEW l \in Int
        PROVE  Steps(f, <<k, l>>) <= n <=> k \in i - n .. i + n /\ l \in j - n .. j + n
    <3>1. PICK x \in Int, y \in Int : x = k - i /\ y = l - j
      OBVIOUS
    <3>2. PICK d \in Int \X Int : d = <<k, l>>
      OBVIOUS
    <3>3. Steps(f, d) = IF Abs(x) >= Abs(y) THEN Abs(x) ELSE Abs(y)
      BY <1>1, <3>1, <3>2, StepsAre
    <3>4. Steps(f, d) <= n <=> x \in -n .. n /\ y \in -n .. n
      BY <3>3 DEF Abs
    <3>5. (x \in -n .. n <=> k \in i - n .. i + n) /\ (y \in -n .. n <=> l \in j - n .. j + n)
      BY <3>1
    <3> QED
      BY <3>2, <3>4, <3>5
  <2>2. \A c \in Int \X Int : c \in Square(f, n) <=> c \in (i - n .. i + n) \X (j - n .. j + n)
    <3> SUFFICES ASSUME NEW k \in Int, NEW l \in Int
                 PROVE  <<k, l>> \in Square(f, n)
                          <=> <<k, l>> \in (i - n .. i + n) \X (j - n .. j + n)
      OBVIOUS
    <3> QED
      BY <2>1 DEF Square
  <2>3. Square(f, n) \subseteq Int \X Int
        /\ (i - n .. i + n) \X (j - n .. j + n) \subseteq Int \X Int
    BY DEF Square
  <2> QED
    BY <2>2, <2>3
<1>3. ASSUME NEW k \in Int
      PROVE  IsFiniteSet(k - n .. k + n) /\ Cardinality(k - n .. k + n) = 2 * n + 1
  <2>1. k - n \in Int /\ k + n \in Int /\ k - n <= k + n /\ (k + n) - (k - n) + 1 = 2 * n + 1
    OBVIOUS
  <2> QED
    BY <2>1, FS_Interval
<1>4. PICK S, T : S = i - n .. i + n /\ T = j - n .. j + n
  OBVIOUS
<1>5. /\ IsFiniteSet(S) /\ Cardinality(S) = 2 * n + 1
      /\ IsFiniteSet(T) /\ Cardinality(T) = 2 * n + 1
  BY <1>3, <1>4
<1>6. IsFiniteSet(S \X T) /\ Cardinality(S \X T) = Cardinality(S) * Cardinality(T)
  BY <1>5, FS_Product
<1> QED
  BY <1>2, <1>4, <1>5, <1>6

-----------------------------------------------------------------------------
Call == [start : Int \X Int, end : Int \X Int, prependable : BOOLEAN]

(* Where the search begins, and what it is for. *)
From == IF args.prependable THEN args.start ELSE args.end
Goal == IF args.prependable THEN args.end ELSE args.start

(* No point has a score that is less than a shortest way from f. *)
Attains(f, x) ==
  /\ Steps(f, x.at) <= Length(x.g_score)
  /\ Steps(f, x.at) + Diagonals(f, x.at) <= Length(x.g_score) + x.g_score[2]

(* The score of a shortest way from f. *)
OnShortest(f, x) ==
  /\ Length(x.g_score) = Steps(f, x.at)
  /\ x.g_score[2] = Diagonals(f, x.at)

(* The points of the layer that is taken, L steps from f, and of the one after it.  In
   both there are points that are nearer to f and were closed before; nothing is said
   of their scores. *)
InLayer(f, L, x) ==
  /\ Steps(f, x.at) <= L
  /\ Steps(f, x.at) = L => OnShortest(f, x)
InNext(f, L, x) ==
  /\ Steps(f, x.at) <= L + 1
  /\ Steps(f, x.at) = L + 1 => Length(x.g_score) = L + 1

LEMMA PointFields ==
  ASSUME NEW x \in Point
  PROVE  /\ x.at \in Int \X Int /\ x.g_score \in Nat \X Nat /\ x.g_score[2] \in Nat
         /\ x.origin \in (Nat \ {0}) \cup {None}
         /\ Length(x.g_score) \in Nat
BY DEF Point, Length

(* The score of a neighbour y of x. *)
LEMMA Follow ==
  ASSUME NEW f \in Int \X Int, NEW x \in Point, NEW y \in Point, Steps(x.at, y.at) = 1,
         y.g_score = Plus(x.g_score, Distance(x.at, y.at)), Attains(f, x)
  PROVE  /\ Length(y.g_score) = Length(x.g_score) + 1
         /\ y.g_score[2] = x.g_score[2] + Diagonals(x.at, y.at)
         /\ Attains(f, y)
<1>1. PICK n \in Nat, d \in Nat : x.g_score = <<n, d>>
  BY PointFields
<1>2. PICK t \in {0, 1} : t = Diagonals(x.at, y.at) /\ Distance(x.at, y.at) = <<1 - t, t>>
  BY PointFields, NextTo
<1>3. y.g_score = <<n + (1 - t), d + t>>
  BY <1>1, <1>2 DEF Plus
<1>4. /\ Length(x.g_score) = n + d /\ x.g_score[2] = d
      /\ Length(y.g_score) = n + (1 - t) + (d + t) /\ y.g_score[2] = d + t
  BY <1>1, <1>3 DEF Length
<1>5. Length(y.g_score) = n + d + 1
  BY <1>4
<1>6. PICK s \in Nat, b \in Nat, v \in Nat, w \in Nat :
        /\ s = Steps(f, x.at) /\ b = Diagonals(f, x.at)
        /\ v = Steps(f, y.at) /\ w = Diagonals(f, y.at)
  BY PointFields, StepsTypes
<1>7. v <= s + 1 /\ v + w <= s + b + 1 + t
  BY <1>2, <1>6, PointFields, OneStep
<1>8. s <= n + d /\ s + b <= n + d + d
  BY <1>4, <1>6 DEF Attains
<1>9. v <= n + d + 1 /\ v + w <= n + d + 1 + (d + t)
  BY <1>7, <1>8
<1> QED
  BY <1>2, <1>4, <1>5, <1>6, <1>9 DEF Attains

LEMMA FollowLayer ==
  ASSUME NEW f \in Int \X Int, NEW L \in Nat, NEW x \in Point, NEW y \in Point,
         Steps(x.at, y.at) = 1, Length(y.g_score) = Length(x.g_score) + 1, InLayer(f, L, x)
  PROVE  /\ InNext(f, L, y)
         /\ Steps(f, y.at) = L + 1 => Steps(f, x.at) = L
<1>1. PICK s \in Nat, v \in Nat : s = Steps(f, x.at) /\ v = Steps(f, y.at)
  BY PointFields, StepsTypes
<1>2. v <= s + 1 /\ s <= L
  BY <1>1, PointFields, OneStep DEF InLayer
<1>3. v = L + 1 => s = L
  BY <1>2
<1>4. v = L + 1 => Length(y.g_score) = L + 1
  BY <1>1, <1>3 DEF InLayer, OnShortest
<1> QED
  BY <1>1, <1>2, <1>3, <1>4 DEF InNext

(* A point of an open layer whose score becomes less stays in its layer. *)
LEMMA Improved ==
  ASSUME NEW f \in Int \X Int, NEW L \in Nat, NEW x \in Point, NEW y \in Point,
         y.at = x.at, Less(y.g_score, x.g_score), Attains(f, y), InNext(f, L, y)
  PROVE  /\ InLayer(f, L, x) => InLayer(f, L, y)
         /\ Steps(f, x.at) = L + 1 /\ InNext(f, L, x) => y.g_score[2] <= x.g_score[2]
<1>1. ASSUME InLayer(f, L, x) PROVE InLayer(f, L, y)
  <2>1. Steps(f, x.at) # L
    <3>1. SUFFICES ASSUME OnShortest(f, x) PROVE FALSE
      BY <1>1 DEF InLayer
    <3>2. Length(x.g_score) <= Length(y.g_score)
          /\ Length(x.g_score) + x.g_score[2] <= Length(y.g_score) + y.g_score[2]
      BY <3>1 DEF OnShortest, Attains
    <3> QED
      BY <3>2, NoneIsLess, PointFields
  <2> QED
    BY <1>1, <2>1 DEF InLayer
<1>2. ASSUME Steps(f, x.at) = L + 1, InNext(f, L, x) PROVE y.g_score[2] <= x.g_score[2]
  <2>1. Length(y.g_score) = Length(x.g_score)
    BY <1>2 DEF InNext
  <2>2. y.g_score[2] < x.g_score[2]
    BY <2>1, LessDiagonal, PointFields
  <2> QED
    BY <2>2, PointFields
<1> QED
  BY <1>1, <1>2

-----------------------------------------------------------------------------
(* The neighbour of a with coordinates c is in the open set with a score that is as
   good as that by a, or the loop of findPath has not come to it. *)
Opened(a, c) ==
  \E q \in m_points :
    /\ points[q].at = c
    /\ points[q].g_score[2] <= points[a].g_score[2] + Diagonals(points[a].at, c)
Awaited(a, c) ==
  /\ pc = "visit" /\ a = p
  /\ \E i \in 1 .. Len(neighbours) : points[neighbours[i]].at = c
Covered(f, L, a) ==
  \A c \in Int \X Int :
    Steps(points[a].at, c) = 1 /\ Steps(f, c) = L + 1 => Opened(a, c) \/ Awaited(a, c)

(* Three times 1 + 9 + 25 + ..., the squares around f up to a distance of n. *)
Cubes(n) == (n + 1) * (2 * n + 1) * (2 * n + 3)

(* The first k points of the open set are of the layer L, the others of the one after
   it.  All coordinates of the layer were closed or are among the first. *)
Layer(f, L, k) ==
  /\ \A i \in 1 .. k : InLayer(f, L, points[m_value[i]])
  /\ \A i \in k + 1 .. Len(m_value) : InNext(f, L, points[m_value[i]])
  /\ \A a \in m_closedSet :
       /\ InLayer(f, L, points[a])
       /\ Steps(f, points[a].at) = L => Covered(f, L, a)
  /\ \A c \in Int \X Int : Steps(f, c) = L =>
       \E a \in m_closedSet \cup {m_value[i] : i \in 1 .. k} : points[a].at = c
  /\ 3 * (Cardinality(m_closedSet) + k) <= Cubes(L)

(* Points that may be on a route have a score that a way can have, and are next to
   their origins. *)
Reached(a) ==
  /\ Attains(From, points[a])
  /\ points[a].origin # None => Steps(points[points[a].origin].at, points[a].at) = 1

SearchInv ==
  /\ path = <<>>
  /\ points[lastPoint].at = Goal
  /\ \A a \in m_closedSet : points[a].at # Goal
  /\ \E L \in Nat, k \in Nat : L <= Steps(From, Goal) /\ k <= Len(m_value) /\ Layer(From, L, k)

NeighboursInv ==
  \A i \in 1 .. Len(neighbours) : Steps(points[p].at, points[neighbours[i]].at) = 1

(* The ends of the part of the path that is made: where points are added, and the
   other one. *)
Tip == IF args.prependable THEN path[1] ELSE path[Len(path)]
Base == IF args.prependable THEN path[Len(path)] ELSE path[1]

(* The neighbours in a path are next to each other; how many of its steps are
   diagonal. *)
Links(s) == \A i \in 1 .. Len(s) - 1 : Steps(s[i], s[i + 1]) = 1
Turns(s) == Cardinality({i \in 1 .. Len(s) - 1 : Diagonals(s[i], s[i + 1]) = 1})

(* What was added and what is to come make a shortest way. *)
RouteInv ==
  /\ 3 * Cardinality(m_closedSet) <= Cubes(Steps(From, Goal))
  /\ path = <<>> => p = lastPoint /\ points[p].at = Goal /\ OnShortest(From, points[p])
  /\ path # <<>> => Links(path) /\ Base = Goal
  /\ path # <<>> /\ p # None =>
       /\ Steps(Tip, points[p].at) = 1
       /\ Len(path) + Length(points[p].g_score) = Steps(From, Goal)
       /\ Turns(path) + Diagonals(Tip, points[p].at) + points[p].g_score[2]
            = Diagonals(From, Goal)
  /\ p = None =>
       /\ path # <<>> /\ Tip = From
       /\ Len(path) = Steps(From, Goal) + 1
       /\ Turns(path) = Diagonals(From, Goal)

(* The inductive invariant of the search, with IInv. *)
WayInv ==
  /\ pc # "idle" => args \in Call /\ \A a \in Used : Reached(a)
  /\ pc \in {"search", "visit"} => SearchInv
  /\ pc = "visit" => NeighboursInv
  /\ pc = "reconstruct" => RouteInv
  /\ PathIsShortest

LEMMA Ends ==
  ASSUME args \in Call
  PROVE  /\ From \in Int \X Int /\ Goal \in Int \X Int /\ args.prependable \in BOOLEAN
         /\ args.start \in Int \X Int /\ args.end \in Int \X Int
         /\ Steps(From, Goal) = Steps(args.start, args.end) /\ Steps(From, Goal) \in Nat
         /\ Diagonals(From, Goal) = Diagonals(args.start, args.end)
<1>2. args.start \in Int \X Int /\ args.end \in Int \X Int /\ args.prependable \in BOOLEAN
  BY DEF Call
<1>3. \/ From = args.start /\ Goal = args.end
      \/ From = args.end /\ Goal = args.start
  BY DEF From, Goal
<1> QED
  BY <1>2, <1>3, StepsTypes

(* The points of the open and the closed set. *)
LEMMA SetPoints ==
  ASSUME IInv, pc # "idle"
  PROVE  /\ \A a \in m_points \cup m_closedSet : a \in DOMAIN points /\ points[a] \in Point
         /\ m_value \in Seq(m_points) /\ Len(m_value) \in Nat
         /\ \A i \in 1 .. Len(m_value) : m_value[i] \in m_points
         /\ \A q \in m_points : \E i \in 1 .. Len(m_value) : m_value[i] = q
         /\ \A q, r \in m_points : points[q].at = points[r].at => q = r
         /\ IsFiniteSet(m_closedSet) /\ Cardinality(m_closedSet) \in Nat
         /\ IsFiniteSet(m_points) /\ Cardinality(m_points) = Len(m_value)
         /\ lastPoint \in DOMAIN points /\ points[lastPoint] \in Point
         /\ lastPoint \notin m_points \cup m_closedSet
<1>1. Memory /\ SetsInv /\ Lists(m_value, m_points)
  BY DEF IInv
<1>2. /\ m_points \subseteq DOMAIN points /\ m_closedSet \subseteq DOMAIN points
      /\ lastPoint \in DOMAIN points /\ lastPoint \notin m_points \cup m_closedSet
      /\ \A q, r \in m_points : points[q].at = points[r].at => q = r
  BY <1>1 DEF SetsInv, SameCoordinates, Locals
<1>3. \A a \in DOMAIN points : points[a] \in Point
  BY <1>1 DEF Memory
<1>4. IsFiniteSet(m_closedSet) /\ IsFiniteSet(m_points)
  BY <1>1, <1>2, FS_Subset DEF Memory
<1>5. Cardinality(m_closedSet) \in Nat
  BY <1>4, FS_CardinalityType
<1>6. Cardinality(m_points) = Len(m_value)
  BY <1>1, ListsLen
<1>7. /\ m_value \in Seq(m_points)
      /\ \A q \in m_points : \E i \in 1 .. Len(m_value) : m_value[i] = q
  BY <1>1 DEF Lists
<1>8. Len(m_value) \in Nat /\ \A i \in 1 .. Len(m_value) : m_value[i] \in m_points
  BY <1>7
<1> QED
  BY <1>2, <1>3, <1>4, <1>5, <1>6, <1>7, <1>8

(* There are as many coordinates as points, if these are at different ones. *)
LEMMA FitSquare ==
  ASSUME NEW f \in Int \X Int, NEW n \in Nat, NEW S, NEW at,
         \A q \in S : at[q] \in Int \X Int /\ Steps(f, at[q]) <= n,
         \A q, r \in S : at[q] = at[r] => q = r
  PROVE  Cardinality(S) <= (2 * n + 1) * (2 * n + 1)
<1>1. PICK g : g = [q \in S |-> at[q]]
  OBVIOUS
<1>2. g \in Injection(S, Square(f, n))
  BY <1>1 DEF Injection, IsInjective, Square
<1>3. IsFiniteSet(Square(f, n)) /\ Cardinality(Square(f, n)) = (2 * n + 1) * (2 * n + 1)
  BY SquareCounts
<1> QED
  BY <1>2, <1>3, FS_Injection

LEMMA CubesGrow ==
  /\ \A n \in Nat : Cubes(n) \in Nat
  /\ \A n \in Nat : Cubes(n + 1) = Cubes(n) + 3 * ((2 * (n + 1) + 1) * (2 * (n + 1) + 1))
  /\ \A m, n \in Nat : m <= n => Cubes(m) <= Cubes(n)
<1>1. ASSUME NEW n \in Nat
      PROVE  Cubes(n) = 4 * (n * (n * n)) + 12 * (n * n) + 11 * n + 3
  BY DEF Cubes
<1>2. ASSUME NEW n \in Nat
      PROVE  Cubes(n + 1) = Cubes(n) + 3 * ((2 * (n + 1) + 1) * (2 * (n + 1) + 1))
  BY DEF Cubes
<1>3. ASSUME NEW n \in Nat PROVE Cubes(n) \in Nat
  BY DEF Cubes
<1>4. ASSUME NEW m \in Nat, NEW n \in Nat, m <= n PROVE Cubes(m) <= Cubes(n)
  <2>1. PICK q \in Nat, r \in Nat : q = m * m /\ r = n * n
    OBVIOUS
  <2>2. q <= r
    BY <1>4, <2>1
  <2>3. PICK u \in Nat, v \in Nat : u = m * q /\ v = n * r
    OBVIOUS
  <2>4. u <= v
    <3>1. m * q <= m * r
      BY <2>2
    <3>2. m * r <= n * r
      BY <1>4
    <3> QED
      BY <2>3, <3>1, <3>2
  <2>5. Cubes(m) = 4 * u + 12 * q + 11 * m + 3 /\ Cubes(n) = 4 * v + 12 * r + 11 * n + 3
    BY <1>1, <2>1, <2>3
  <2> QED
    BY <1>4, <2>2, <2>4, <2>5
<1> QED
  BY <1>2, <1>3, <1>4

(* When a layer was taken, the whole open set is the next one, and all of it has the
   scores of shortest ways: each of its coordinates has a neighbour in the layer that
   was closed, by which such a way leads. *)
LEMMA NextLayer ==
  ASSUME IInv, pc = "search", NEW f \in Int \X Int, NEW L \in Nat, Layer(f, L, 0),
         \A a \in m_points : Attains(f, points[a])
  PROVE  Layer(f, L + 1, Len(m_value))
<1>1. /\ \A a \in m_points \cup m_closedSet : points[a] \in Point
      /\ Len(m_value) \in Nat
      /\ \A i \in 1 .. Len(m_value) : m_value[i] \in m_points
      /\ \A q \in m_points : \E i \in 1 .. Len(m_value) : m_value[i] = q
      /\ \A q, r \in m_points : points[q].at = points[r].at => q = r
      /\ Cardinality(m_closedSet) \in Nat /\ Cardinality(m_points) = Len(m_value)
  BY SetPoints
<1>2. PICK n \in Nat : n = Len(m_value)
  BY <1>1
<1>3. \A q \in m_points : InNext(f, L, points[q])
  <2>1. \A i \in 0 + 1 .. Len(m_value) : InNext(f, L, points[m_value[i]])
    BY DEF Layer
  <2> QED
    BY <1>1, <2>1
<1>4. ASSUME NEW c \in Int \X Int, Steps(f, c) = L + 1
      PROVE  \E q \in m_points : points[q].at = c /\ points[q].g_score[2] <= Diagonals(f, c)
  <2>1. PICK b \in Int \X Int : /\ Steps(b, c) = 1 /\ Steps(f, b) = L
                                /\ Diagonals(f, b) + Diagonals(b, c) = Diagonals(f, c)
    BY <1>4, StepBefore
  <2>2. \E a \in m_closedSet \cup {m_value[i] : i \in 1 .. 0} : points[a].at = b
    BY <2>1 DEF Layer
  <2>3. PICK a \in m_closedSet : points[a].at = b
    BY <2>2
  <2>4. OnShortest(f, points[a]) /\ Covered(f, L, a)
    BY <2>1, <2>3 DEF Layer, InLayer
  <2>5. Opened(a, c)
    BY <1>4, <2>1, <2>3, <2>4 DEF Covered, Awaited
  <2>6. PICK q \in m_points :
          /\ points[q].at = c
          /\ points[q].g_score[2] <= points[a].g_score[2] + Diagonals(points[a].at, c)
    BY <2>5 DEF Opened
  <2>7. points[a].g_score[2] = Diagonals(f, b)
    BY <2>3, <2>4 DEF OnShortest
  <2> QED
    BY <2>1, <2>3, <2>6, <2>7
<1>5. ASSUME NEW q \in m_points, Steps(f, points[q].at) = L + 1
      PROVE  OnShortest(f, points[q])
  <2>1. PICK c \in Int \X Int : c = points[q].at
    BY <1>1, PointFields
  <2>2. PICK r \in m_points : points[r].at = c /\ points[r].g_score[2] <= Diagonals(f, c)
    BY <1>4, <1>5, <2>1
  <2>3. r = q
    BY <1>1, <2>1, <2>2
  <2>4. Length(points[q].g_score) = L + 1
    BY <1>3, <1>5 DEF InNext
  <2>5. PICK d \in Nat, e \in Nat : d = points[q].g_score[2] /\ e = Diagonals(f, c)
    BY <1>1, <2>1, PointFields, StepsTypes
  <2>6. L + 1 + e <= L + 1 + d
    BY <1>5, <2>1, <2>4, <2>5 DEF Attains
  <2>7. d = e
    BY <2>2, <2>3, <2>5, <2>6
  <2> QED
    BY <1>5, <2>1, <2>4, <2>5, <2>7 DEF OnShortest
<1>6. \A q \in m_points : InLayer(f, L + 1, points[q])
  BY <1>3, <1>5 DEF InLayer, InNext
<1>7. ASSUME NEW a \in m_closedSet
      PROVE  InLayer(f, L + 1, points[a]) /\ Steps(f, points[a].at) # L + 1
  <2>1. PICK s \in Nat : s = Steps(f, points[a].at)
    BY <1>1, PointFields, StepsTypes
  <2>2. s <= L
    BY <2>1 DEF Layer, InLayer
  <2>3. s <= L + 1 /\ s # L + 1
    BY <2>2
  <2> QED
    BY <2>1, <2>3 DEF InLayer
<1>8. ASSUME NEW c \in Int \X Int, Steps(f, c) = L + 1
      PROVE  \E a \in m_closedSet \cup {m_value[i] : i \in 1 .. Len(m_value)} : points[a].at = c
  <2>1. PICK q \in m_points : points[q].at = c
    BY <1>4, <1>8
  <2>2. PICK i \in 1 .. Len(m_value) : m_value[i] = q
    BY <1>1
  <2> QED
    BY <2>1, <2>2
<1>9. 3 * (Cardinality(m_closedSet) + Len(m_value)) <= Cubes(L + 1)
  <2>1. PICK at : at = [q \in m_points |-> points[q].at]
    OBVIOUS
  <2>2. Cardinality(m_points) <= (2 * (L + 1) + 1) * (2 * (L + 1) + 1)
    <3>1. \A q \in m_points : at[q] \in Int \X Int /\ Steps(f, at[q]) <= L + 1
      BY <1>1, <1>6, <2>1, PointFields DEF InLayer
    <3>2. \A q, r \in m_points : at[q] = at[r] => q = r
      BY <1>1, <2>1
    <3> QED
      BY <3>1, <3>2, FitSquare
  <2>3. 3 * (Cardinality(m_closedSet) + 0) <= Cubes(L)
    BY DEF Layer
  <2>a. Cubes(L) \in Nat
    BY CubesGrow
  <2>b. PICK w \in Int : w = (2 * (L + 1) + 1) * (2 * (L + 1) + 1)
    OBVIOUS
  <2>4. PICK u \in Nat, v \in Nat : u = Cardinality(m_closedSet) /\ v = Cubes(L)
    BY <1>1, <2>a
  <2>5. Cubes(L + 1) = v + 3 * w
    BY <2>b, <2>4, CubesGrow
  <2>6. n <= w /\ 3 * u <= v
    BY <1>1, <1>2, <2>2, <2>3, <2>b, <2>4
  <2>7. 3 * (u + n) <= v + 3 * w
    BY <2>6
  <2> QED
    BY <1>2, <2>4, <2>5, <2>7
<1> QED
  <2>1. \A i \in 1 .. Len(m_value) : InLayer(f, L + 1, points[m_value[i]])
    BY <1>1, <1>6
  <2>2. Len(m_value) + 1 .. Len(m_value) = {}
    BY <1>1
  <2> QED
    BY <1>7, <1>8, <1>9, <2>1, <2>2 DEF Layer

(* The best point is one of the layer that is taken. *)
LEMMA BestInLayer ==
  ASSUME IInv, WayInv, pc = "search"
  PROVE  \E L \in Nat, k \in Nat : /\ L <= Steps(From, Goal) /\ 1 <= k /\ k <= Len(m_value)
                                   /\ Layer(From, L, k)
<1>1. SearchInv /\ args \in Call /\ \A a \in m_points : Attains(From, points[a])
  BY DEF WayInv, Used, Reached
<1>2. PICK f \in Int \X Int, g \in Int \X Int, s \in Nat :
        f = From /\ g = Goal /\ s = Steps(f, g)
  BY <1>1, Ends
<1>3. PICK L \in Nat, k \in Nat : L <= s /\ k <= Len(m_value) /\ Layer(f, L, k)
  BY <1>1, <1>2 DEF SearchInv
<1>4. CASE k >= 1
  BY <1>2, <1>3, <1>4
<1>5. CASE ~(k >= 1)
  <2>1. Layer(f, L, 0)
    <3>1. k = 0
      BY <1>5
    <3> QED
      BY <1>3, <3>1
  <2>2. Layer(f, L + 1, Len(m_value))
    BY <1>1, <1>2, <2>1, NextLayer
  <2>3. L # s
    <3>1. SUFFICES ASSUME Steps(f, g) = L PROVE FALSE
      BY <1>2
    <3>2. \E a \in m_closedSet \cup {m_value[i] : i \in 1 .. 0} : points[a].at = g
      BY <2>1, <3>1 DEF Layer
    <3> QED
      BY <1>1, <1>2, <3>2 DEF SearchInv
  <2>4. Len(m_value) \in Nat /\ Len(m_value) # 0
    <3>1. m_points # {}
      BY DEF IInv
    <3> QED
      BY <3>1, SetPoints
  <2>5. L + 1 \in Nat /\ L + 1 <= s /\ 1 <= Len(m_value) /\ Len(m_value) <= Len(m_value)
    BY <1>3, <2>3, <2>4
  <2> QED
    BY <1>2, <2>2, <2>4, <2>5
<1> QED
  BY <1>4, <1>5

LEMMA SameEnds == args' = args => From' = From /\ Goal' = Goal
BY DEF From, Goal

(* A point that stays as it is stays reached, as its origin is closed. *)
LEMMA StaysReached ==
  ASSUME NEW a, Reached(a), args' = args, points'[a] = points[a],
         points[a].origin # None =>
           points'[points[a].origin] = points[points[a].origin]
  PROVE  Reached(a)'
<1>1. PICK f : f = From /\ f = From'
  BY SameEnds
<1> QED
  BY <1>1 DEF Reached

(* The best point is closed. *)
LEMMA ExpandKeepsWay == IInv /\ WayInv /\ Expand => WayInv'
<1> SUFFICES ASSUME IInv, WayInv, Expand, NEW best, best = Head(m_value) PROVE WayInv'
  OBVIOUS
<1>1. /\ pc = "search" /\ pc' = "visit" /\ GetBest
      /\ p' = best /\ m_closedSet' = m_closedSet \cup {best}
      /\ neighbours' = NewAddresses /\ args' = args /\ path' = path
      /\ points[best].at # points[lastPoint].at
  BY DEF Expand, SameCoordinates
<1>2. /\ SetsInv /\ Memory /\ SearchInv /\ args \in Call
      /\ \A a \in m_points \cup m_closedSet : Reached(a) /\ ScoreMatches(a)
  BY <1>1 DEF IInv, WayInv, Used
<1>3. /\ best \in m_points /\ m_points' = m_points \ {best} /\ m_value' = Tail(m_value)
  BY <1>1, GetBestTakesHead
<1>4. /\ \A a \in m_points \cup m_closedSet : a \in DOMAIN points /\ points[a] \in Point
      /\ m_value \in Seq(m_points) /\ Len(m_value) \in Nat
      /\ \A i \in 1 .. Len(m_value) : m_value[i] \in m_points
      /\ IsFiniteSet(m_closedSet) /\ Cardinality(m_closedSet) \in Nat
      /\ lastPoint \in DOMAIN points
  BY <1>1, SetPoints
<1>5. PICK f \in Int \X Int, g \in Int \X Int :
        f = From /\ g = Goal /\ f = From' /\ g = Goal' /\ Steps(f, g) \in Nat
  BY <1>1, <1>2, Ends, SameEnds
<1>6. PICK L \in Nat, k \in Nat :
        L <= Steps(f, g) /\ 1 <= k /\ k <= Len(m_value) /\ Layer(f, L, k)
  BY <1>1, <1>5, BestInLayer
<1>7. /\ Len(m_value') = Len(m_value) - 1 /\ best = m_value[1]
      /\ \A i \in 1 .. Len(m_value) - 1 : m_value'[i] = m_value[i + 1]
  <2>1. m_value # <<>>
    BY <1>1 DEF GetBest
  <2> QED
    BY <1>3, <1>4, <2>1, HeadTailProperties
<1>8. /\ \A a \in DOMAIN points : points'[a] = points[a]
      /\ Len(neighbours') = 8
      /\ \A i \in 1 .. 8 : points'[neighbours'[i]].at = Plus(points[best].at, Moves[i])
  <2>1. PICK m \in Nat : m = Max(DOMAIN points)
    BY <1>2, <1>4, NewAddressesAreNew
  <2>2. /\ NewAddresses = [i \in 1 .. 8 |-> m + i]
        /\ \A i \in 1 .. 8 : m + i \notin DOMAIN points
    BY <1>2, <1>4, <2>1, NewAddressesAreNew
  <2>3. points' = [a \in DOMAIN points \cup {NewAddresses[i] : i \in 1 .. 8} |->
                     IF a \in DOMAIN points THEN points[a]
                     ELSE NewPoint(Plus(points[best].at, Moves[a - m]), best)]
    BY <1>1, <2>1, Arithmetic DEF Expand
  <2>4. ASSUME NEW i \in 1 .. 8
        PROVE  /\ neighbours'[i] = m + i
               /\ points'[m + i] = NewPoint(Plus(points[best].at, Moves[i]), best)
    <3>1. (m + i) - m = i /\ neighbours'[i] = m + i /\ NewAddresses[i] = m + i
      BY <1>1, <2>2
    <3>2. m + i \in {NewAddresses[j] : j \in 1 .. 8}
      BY <3>1
    <3> QED
      BY <2>2, <2>3, <3>1, <3>2
  <2>5. Len(neighbours') = 8
    BY <1>1, <2>2
  <2> QED
    BY <2>3, <2>4, <2>5 DEF NewPoint
<1>9. ASSUME NEW a \in m_points \cup m_closedSet PROVE Reached(a)'
  <2>1. points[a].origin # None => points[a].origin \in m_closedSet
    BY <1>2 DEF ScoreMatches
  <2>2. points[a].origin # None => points'[points[a].origin] = points[points[a].origin]
    BY <1>4, <1>8, <2>1
  <2> QED
    BY <1>1, <1>2, <1>4, <1>8, <2>2, StaysReached
<1>10. ASSUME NEW a \in m_closedSet, Steps(f, points[a].at) = L
       PROVE  Covered(f, L, a)'
  <2>1. SUFFICES ASSUME NEW c \in Int \X Int, Steps(points[a].at, c) = 1, Steps(f, c) = L + 1
                 PROVE  Opened(a, c)'
    BY <1>4, <1>8 DEF Covered
  <2>2. Opened(a, c)
    BY <1>1, <1>6, <1>10, <2>1 DEF Layer, Covered, Awaited
  <2>3. PICK q \in m_points :
          /\ points[q].at = c
          /\ points[q].g_score[2] <= points[a].g_score[2] + Diagonals(points[a].at, c)
    BY <2>2 DEF Opened
  <2>4. q # best
    <3>1. Steps(f, points[best].at) <= L
      BY <1>6, <1>7 DEF Layer, InLayer
    <3> QED
      BY <2>1, <2>3, <3>1
  <2> QED
    BY <1>3, <1>4, <1>8, <2>3, <2>4 DEF Opened
<1>11. Covered(f, L, best)'
  <2>1. SUFFICES ASSUME NEW c \in Int \X Int, Steps(points[best].at, c) = 1
                 PROVE  Awaited(best, c)'
    BY <1>3, <1>4, <1>8 DEF Covered
  <2>2. PICK i \in 1 .. 8 : c = Plus(points[best].at, Moves[i])
    BY <1>3, <1>4, <2>1, PointFields, MovesAreSteps
  <2> QED
    BY <1>1, <1>8, <2>2 DEF Awaited
<1>12. PICK j \in Nat : j = k - 1
  BY <1>6
<1>13. Layer(f, L, j)'
  <2>1. ASSUME NEW i \in 1 .. j PROVE InLayer(f, L, points'[m_value'[i]])
    <3>1. i + 1 \in 1 .. k /\ i \in 1 .. Len(m_value) - 1 /\ i + 1 \in 1 .. Len(m_value)
      BY <1>4, <1>6, <1>12
    <3>2. InLayer(f, L, points[m_value[i + 1]])
      BY <1>6, <3>1 DEF Layer
    <3> QED
      BY <1>4, <1>7, <1>8, <3>1, <3>2
  <2>2. ASSUME NEW i \in j + 1 .. Len(m_value') PROVE InNext(f, L, points'[m_value'[i]])
    <3>1. i + 1 \in k + 1 .. Len(m_value) /\ i \in 1 .. Len(m_value) - 1
          /\ i + 1 \in 1 .. Len(m_value)
      BY <1>4, <1>6, <1>7, <1>12
    <3>2. InNext(f, L, points[m_value[i + 1]])
      BY <1>6, <3>1 DEF Layer
    <3> QED
      BY <1>4, <1>7, <1>8, <3>1, <3>2
  <2>3. ASSUME NEW a \in m_closedSet'
        PROVE  /\ InLayer(f, L, points'[a])
               /\ Steps(f, points'[a].at) = L => Covered(f, L, a)'
    <3>1. InLayer(f, L, points[a]) /\ points'[a] = points[a]
      BY <1>1, <1>3, <1>4, <1>6, <1>7, <1>8, <2>3 DEF Layer
    <3> QED
      BY <1>1, <1>10, <1>11, <2>3, <3>1
  <2>4. ASSUME NEW c \in Int \X Int, Steps(f, c) = L
        PROVE  \E a \in m_closedSet' \cup {m_value'[i] : i \in 1 .. j} : points'[a].at = c
    <3>1. PICK a \in m_closedSet \cup {m_value[i] : i \in 1 .. k} : points[a].at = c
      BY <1>6, <2>4 DEF Layer
    <3>2. a \in m_points \cup m_closedSet
      BY <1>4, <1>6
    <3>3. points'[a].at = c
      BY <1>4, <1>8, <3>1, <3>2
    <3>4. CASE a \in m_closedSet \cup {best}
      BY <1>1, <3>3, <3>4
    <3>5. CASE a \notin m_closedSet \cup {best}
      <4>1. PICK i \in 1 .. k : a = m_value[i] /\ i # 1
        BY <1>7, <3>5
      <4>2. i - 1 \in 1 .. j /\ i - 1 \in 1 .. Len(m_value) - 1 /\ (i - 1) + 1 = i
        BY <1>4, <1>6, <1>12, <4>1
      <4>3. m_value'[i - 1] = a
        BY <1>7, <4>1, <4>2
      <4> QED
        BY <3>3, <4>2, <4>3
    <3> QED
      BY <3>4, <3>5
  <2>5. 3 * (Cardinality(m_closedSet') + j) <= Cubes(L)
    <3>1. best \notin m_closedSet
      BY <1>2, <1>3 DEF SetsInv
    <3>2. Cardinality(m_closedSet') = Cardinality(m_closedSet) + 1
      BY <1>1, <1>4, <3>1, FS_AddElement
    <3>3. 3 * (Cardinality(m_closedSet) + k) <= Cubes(L)
      BY <1>6 DEF Layer
    <3>4. (Cardinality(m_closedSet) + 1) + j = Cardinality(m_closedSet) + k
      BY <1>4, <1>12
    <3> QED
      BY <3>2, <3>3, <3>4
  <2> QED
    BY <2>1, <2>2, <2>3, <2>4, <2>5 DEF Layer
<1>14. SearchInv'
  <2>1. path' = <<>> /\ points'[lastPoint].at = g
    BY <1>1, <1>2, <1>4, <1>5, <1>8 DEF SearchInv
  <2>2. \A a \in m_closedSet' : points'[a].at # g
    BY <1>1, <1>2, <1>3, <1>4, <1>5, <1>8 DEF SearchInv
  <2>3. j <= Len(m_value')
    BY <1>4, <1>6, <1>7, <1>12
  <2> QED
    BY <1>5, <1>6, <1>12, <1>13, <2>1, <2>2, <2>3 DEF SearchInv
<1>15. NeighboursInv'
  <2>1. \A i \in 1 .. 8 : Steps(points[best].at, Plus(points[best].at, Moves[i])) = 1
    BY <1>3, <1>4, PointFields, MovesAreSteps
  <2>2. p' = best /\ points'[best] = points[best]
    BY <1>1, <1>3, <1>4, <1>8
  <2>3. \A i \in 1 .. 8 : Steps(points'[best].at, points'[neighbours'[i]].at) = 1
    BY <1>8, <2>1, <2>2
  <2> QED
    BY <1>8, <2>2, <2>3 DEF NeighboursInv
<1>16. \A a \in Used' : Reached(a)'
  BY <1>1, <1>3, <1>9 DEF Used
<1>17. PathIsShortest'
  BY <1>1 DEF PathIsShortest
<1> QED
  BY <1>1, <1>2, <1>14, <1>15, <1>16, <1>17 DEF WayInv

(* What the neighbour a of p, with a score by p, is to the layer.  It is y as Add
   would leave it. *)
LEMMA Candidate ==
  ASSUME IInv, WayInv, pc = "visit", NEW a, a = Head(neighbours),
         NEW f \in Int \X Int, f = From, NEW L \in Nat, InLayer(f, L, points[p])
  PROVE  LET y == [points[a] EXCEPT !.g_score = Score(a)]
         IN  /\ y \in Point /\ y.at = points[a].at /\ y.g_score = Score(a)
             /\ Steps(points[p].at, y.at) = 1
             /\ Attains(f, y) /\ InNext(f, L, y)
             /\ y.g_score[2] = points[p].g_score[2] + Diagonals(points[p].at, y.at)
             /\ Steps(f, y.at) = L + 1 => Length(y.g_score) = L + 1
<1>1. /\ a \in DOMAIN points /\ p \in DOMAIN points /\ p \in m_closedSet
      /\ Score(a) \in Nat \X Nat
  BY Turn
<1>2. points[a] \in Point /\ points[p] \in Point
  BY <1>1 DEF IInv, Memory
<1>3. PICK y : y = [points[a] EXCEPT !.g_score = Score(a)]
  OBVIOUS
<1>4. y \in Point /\ y.at = points[a].at /\ y.g_score = Score(a)
  BY <1>1, <1>2, <1>3 DEF Point
<1>5. Steps(points[p].at, y.at) = 1
  <2>1. neighbours # <<>> /\ neighbours \in Seq(Nat \ {0}) /\ NeighboursInv
    BY DEF IInv, VisitInv, TypeOK, WayInv
  <2>2. 1 \in 1 .. Len(neighbours) /\ a = neighbours[1]
    BY <2>1
  <2> QED
    BY <1>4, <2>1, <2>2 DEF NeighboursInv
<1>6. Attains(f, points[p])
  BY <1>1 DEF WayInv, Used, Reached
<1>7. y.g_score = Plus(points[p].g_score, Distance(points[p].at, y.at))
  BY <1>4 DEF Score
<1>8. /\ Length(y.g_score) = Length(points[p].g_score) + 1
      /\ y.g_score[2] = points[p].g_score[2] + Diagonals(points[p].at, y.at)
      /\ Attains(f, y)
  BY <1>2, <1>4, <1>5, <1>6, <1>7, Follow
<1>9. InNext(f, L, y)
  BY <1>2, <1>4, <1>5, <1>8, FollowLayer
<1>10. Steps(f, y.at) = L + 1 => Length(y.g_score) = L + 1
  BY <1>9 DEF InNext
<1> QED
  BY <1>3, <1>4, <1>5, <1>8, <1>9, <1>10

(* The loop of findPath goes on. *)
LEMMA TurnEnds ==
  ASSUME IInv, pc = "visit", NextNeighbour
  PROVE  /\ neighbours' \in Seq(Nat \ {0}) /\ Len(neighbours) \in Nat \ {0}
         /\ Head(neighbours) = neighbours[1]
         /\ Len(neighbours') = Len(neighbours) - 1
         /\ \A i \in 1 .. Len(neighbours) - 1 : neighbours'[i] = neighbours[i + 1]
         /\ \/ Len(neighbours) > 1 /\ p' = p /\ pc' = "visit"
            \/ Len(neighbours) = 1 /\ p' = None /\ pc' = "search"
         /\ args' = args /\ path' = path
<1>1. neighbours \in Seq(Nat \ {0}) /\ neighbours # <<>>
  BY DEF IInv, TypeOK, VisitInv
<1>2. Len(neighbours) \in Nat \ {0} /\ Head(neighbours) = neighbours[1]
  BY <1>1
<1>3. neighbours' = Tail(neighbours)
  BY DEF NextNeighbour
<1>4. /\ neighbours' \in Seq(Nat \ {0}) /\ Len(neighbours') = Len(neighbours) - 1
      /\ \A i \in 1 .. Len(neighbours) - 1 : neighbours'[i] = neighbours[i + 1]
  BY <1>1, <1>3, HeadTailProperties
<1>5. /\ \/ Len(neighbours) > 1 /\ p' = p /\ pc' = "visit"
         \/ Len(neighbours) = 1 /\ p' = None /\ pc' = "search"
      /\ args' = args /\ path' = path
  BY <1>2 DEF NextNeighbour
<1> QED
  BY <1>2, <1>4, <1>5

(* A turn of the loop for the neighbour a: after it the open set has a point with the
   coordinates of a and a score that is as good as that by p.  The point may be new,
   or an old one that was updated. *)
LEMMA VisitKeepsWay ==
  ASSUME IInv, WayInv, pc = "visit", NextNeighbour, NEW a, a = Head(neighbours), IInv',
         NEW y, y = [points[a] EXCEPT !.g_score = Score(a)],
         m_closedSet' = m_closedSet,
         m_points \subseteq m_points', m_points' \subseteq m_points \cup {a},
         a \in m_points' => points'[a] = y,
         \/ m_value' = m_value
         \/ m_value' = Append(m_value, a) /\ a \in m_points',
         \A x \in DOMAIN points \ (m_points \cup {a}) : points'[x] = points[x],
         \A q \in m_points :
           \/ points'[q] = points[q]
           \/ /\ points'[q].at = points[q].at /\ points'[q].at = y.at
              /\ points'[q].g_score = y.g_score /\ points'[q].origin = p
              /\ Less(y.g_score, points[q].g_score),
         \E q \in m_points' : points'[q].at = y.at /\ ~Less(y.g_score, points'[q].g_score)
  PROVE  WayInv'
<1>1. /\ SearchInv /\ NeighboursInv /\ args \in Call
      /\ \A x \in m_points \cup m_closedSet : Reached(x) /\ ScoreMatches(x)
  BY DEF WayInv, IInv, Used
<1>2. /\ neighbours' \in Seq(Nat \ {0}) /\ Len(neighbours) \in Nat \ {0}
      /\ a = neighbours[1]
      /\ Len(neighbours') = Len(neighbours) - 1
      /\ \A i \in 1 .. Len(neighbours) - 1 : neighbours'[i] = neighbours[i + 1]
      /\ \/ Len(neighbours) > 1 /\ p' = p /\ pc' = "visit"
         \/ Len(neighbours) = 1 /\ p' = None /\ pc' = "search"
      /\ args' = args /\ path' = path
  BY TurnEnds
<1>3. /\ \A x \in m_points \cup m_closedSet : x \in DOMAIN points /\ points[x] \in Point
      /\ m_value \in Seq(m_points) /\ Len(m_value) \in Nat
      /\ \A i \in 1 .. Len(m_value) : m_value[i] \in m_points
      /\ \A q \in m_points : \E i \in 1 .. Len(m_value) : m_value[i] = q
      /\ lastPoint \in DOMAIN points /\ lastPoint \notin m_points \cup m_closedSet
  BY SetPoints
<1>4. /\ \A q \in m_points' : points'[q] \in Point
      /\ \A q \in m_points' : \E i \in 1 .. Len(m_value') : m_value'[i] = q
  <2>1. pc' # "idle"
    BY <1>2
  <2>2. Memory' /\ SetsInv' /\ Lists(m_value, m_points)'
    BY <2>1 DEF IInv
  <2> QED
    BY <2>2 DEF Memory, SetsInv, Lists
<1>5. /\ a \in DOMAIN points /\ a \notin m_points \cup m_closedSet \cup Locals
      /\ p \in m_closedSet /\ p \in DOMAIN points /\ p # None
  BY Turn
<1>6. PICK f \in Int \X Int, g \in Int \X Int :
        f = From /\ g = Goal /\ f = From' /\ g = Goal' /\ Steps(f, g) \in Nat
  BY <1>1, <1>2, Ends, SameEnds
<1>7. PICK L \in Nat, k \in Nat : L <= Steps(f, g) /\ k <= Len(m_value) /\ Layer(f, L, k)
  BY <1>1, <1>6 DEF SearchInv
<1>8. /\ \A x \in m_closedSet : points'[x] = points[x]
      /\ points'[lastPoint] = points[lastPoint]
      /\ \A q \in m_points : points'[q].at = points[q].at
  <2>1. \A x \in m_closedSet \cup {lastPoint} : x \in DOMAIN points \ (m_points \cup {a})
    BY <1>3, <1>5 DEF IInv, SetsInv, Locals
  <2> QED
    BY <2>1
<1>9. InLayer(f, L, points[p])
  BY <1>5, <1>7 DEF Layer
<1>10. /\ y \in Point /\ y.at = points[a].at /\ y.g_score = Score(a)
       /\ Steps(points[p].at, y.at) = 1
       /\ Attains(f, y) /\ InNext(f, L, y)
       /\ y.g_score[2] = points[p].g_score[2] + Diagonals(points[p].at, y.at)
       /\ Steps(f, y.at) = L + 1 => Length(y.g_score) = L + 1
  BY <1>6, <1>9, Candidate
<1>11. ASSUME NEW q \in m_points
       PROVE  /\ InLayer(f, L, points[q]) => InLayer(f, L, points'[q])
              /\ InNext(f, L, points[q]) => InNext(f, L, points'[q])
              /\ Steps(f, points[q].at) = L + 1 /\ InNext(f, L, points[q])
                   => points'[q].g_score[2] <= points[q].g_score[2]
  <2>1. CASE points'[q] = points[q]
    <3>1. points[q].g_score[2] \in Nat
      BY <1>3, PointFields
    <3> QED
      BY <2>1, <3>1
  <2>2. CASE points'[q] # points[q]
    <3>1. PICK x : x = points'[q]
      OBVIOUS
    <3>2. /\ x.at = points[q].at /\ x.at = y.at /\ x.g_score = y.g_score
          /\ Less(y.g_score, points[q].g_score) /\ x \in Point
      BY <1>4, <2>2, <3>1
    <3>3. Attains(f, x) /\ InNext(f, L, x)
      BY <1>10, <3>2 DEF Attains, InNext
    <3> QED
      BY <1>3, <3>1, <3>2, <3>3, Improved
  <2> QED
    BY <2>1, <2>2
<1>12. ASSUME NEW q \in m_points'
       PROVE  Reached(q)'
  <2>1. CASE q \in m_points /\ points'[q] = points[q]
    <3>1. points[q].origin # None => points[q].origin \in m_closedSet
      BY <1>1, <2>1 DEF ScoreMatches
    <3> QED
      BY <1>1, <1>2, <1>8, <2>1, <3>1, StaysReached
  <2>2. CASE ~(q \in m_points /\ points'[q] = points[q])
    <3>1. /\ points'[q].at = y.at /\ points'[q].g_score = y.g_score /\ points'[q].origin = p
          /\ points'[p] = points[p]
      <4>1. CASE q \in m_points
        BY <1>5, <1>8, <2>2, <4>1
      <4>2. CASE q \notin m_points
        <5>1. q = a /\ points[a].origin = p /\ points[a] \in Point
          BY <1>5, <4>2, Turn DEF IInv, Memory
        <5>2. y.origin = p
          BY <5>1 DEF Point
        <5> QED
          BY <1>5, <1>8, <5>1, <5>2
      <4> QED
        BY <4>1, <4>2
    <3>2. Attains(f, points'[q])
      BY <1>10, <3>1 DEF Attains
    <3>3. Steps(points'[p].at, points'[q].at) = 1
      BY <1>10, <3>1
    <3> QED
      BY <1>6, <3>1, <3>2, <3>3 DEF Reached
  <2> QED
    BY <2>1, <2>2
<1>13. ASSUME NEW q \in m_closedSet PROVE Reached(q)'
  <2>1. points[q].origin # None => points[q].origin \in m_closedSet
    BY <1>1 DEF ScoreMatches
  <2> QED
    BY <1>1, <1>2, <1>8, <2>1, StaysReached
<1>14. /\ \A i \in 1 .. k : InLayer(f, L, points'[m_value'[i]]) /\ m_value'[i] = m_value[i]
       /\ \A i \in k + 1 .. Len(m_value') : InNext(f, L, points'[m_value'[i]])
       /\ Len(m_value') \in Nat /\ Len(m_value') >= Len(m_value)
  <2>1. /\ Len(m_value') \in Nat /\ Len(m_value') >= Len(m_value)
        /\ \A i \in 1 .. Len(m_value) : m_value'[i] = m_value[i]
        /\ \A i \in 1 .. Len(m_value') :
             i \in 1 .. Len(m_value) \/ (m_value'[i] = a /\ a \in m_points')
    <3>1. CASE m_value' = m_value
      BY <1>3, <3>1
    <3>2. CASE m_value' = Append(m_value, a) /\ a \in m_points'
      <4>1. m_value \in Seq(m_points \cup {a})
        BY <1>3, SeqMonotonic
      <4>2. /\ Len(m_value') = Len(m_value) + 1 /\ m_value'[Len(m_value) + 1] = a
            /\ \A i \in 1 .. Len(m_value) : m_value'[i] = m_value[i]
        BY <3>2, <4>1, AppendProperties
      <4>3. \A i \in 1 .. Len(m_value) + 1 : i \in 1 .. Len(m_value) \/ i = Len(m_value) + 1
        BY <1>3
      <4> QED
        BY <1>3, <3>2, <4>2, <4>3
    <3> QED
      BY <3>1, <3>2
  <2>2. ASSUME NEW i \in 1 .. k
        PROVE  InLayer(f, L, points'[m_value'[i]]) /\ m_value'[i] = m_value[i]
    <3>1. i \in 1 .. Len(m_value)
      BY <1>3, <1>7
    <3>2. InLayer(f, L, points[m_value[i]])
      BY <1>7 DEF Layer
    <3> QED
      BY <1>3, <1>11, <2>1, <3>1, <3>2
  <2>3. ASSUME NEW i \in k + 1 .. Len(m_value')
        PROVE  InNext(f, L, points'[m_value'[i]])
    <3>1. i \in 1 .. Len(m_value')
      BY <1>7, <2>1
    <3>2. CASE i \in 1 .. Len(m_value)
      <4>1. i \in k + 1 .. Len(m_value)
        BY <3>2
      <4>2. InNext(f, L, points[m_value[i]])
        BY <1>7, <4>1 DEF Layer
      <4> QED
        BY <1>3, <1>11, <2>1, <3>2, <4>2
    <3>3. CASE m_value'[i] = a /\ a \in m_points'
      BY <1>10, <3>3
    <3> QED
      BY <2>1, <3>1, <3>2, <3>3
  <2> QED
    BY <2>1, <2>2, <2>3
<1>15. ASSUME NEW q \in m_points, Steps(f, points[q].at) = L + 1
       PROVE  InNext(f, L, points[q])
  <2>1. PICK i \in 1 .. Len(m_value) : m_value[i] = q
    BY <1>3
  <2>2. i \notin 1 .. k
    <3>1. SUFFICES ASSUME i \in 1 .. k PROVE FALSE
      OBVIOUS
    <3>2. Steps(f, points[q].at) <= L
      BY <1>7, <2>1, <3>1 DEF Layer, InLayer
    <3> QED
      BY <1>15, <3>2
  <2>3. i \in k + 1 .. Len(m_value)
    BY <2>2
  <2> QED
    BY <1>7, <2>1, <2>3 DEF Layer
<1>16. ASSUME NEW q \in m_points', Steps(f, points'[q].at) = L + 1
       PROVE  Length(points'[q].g_score) = L + 1
  <2>1. CASE q \in m_points
    BY <1>8, <1>11, <1>15, <1>16, <2>1 DEF InNext
  <2>2. CASE q \notin m_points
    BY <1>10, <1>16, <2>2
  <2> QED
    BY <2>1, <2>2
<1>17. ASSUME NEW b \in m_closedSet, Steps(f, points[b].at) = L
       PROVE  Covered(f, L, b)'
  <2>1. SUFFICES ASSUME NEW c \in Int \X Int, Steps(points[b].at, c) = 1, Steps(f, c) = L + 1
                 PROVE  Opened(b, c)' \/ Awaited(b, c)'
    BY <1>8 DEF Covered
  <2>2. Opened(b, c) \/ Awaited(b, c)
    BY <1>7, <1>17, <2>1 DEF Layer, Covered
  <2>a. points[b].g_score[2] \in Nat /\ Diagonals(points[b].at, c) \in Nat
    BY <1>3, PointFields, StepsTypes
  <2>3. PICK d \in Nat : d = points[b].g_score[2] + Diagonals(points[b].at, c)
    BY <2>a
  <2>4. points'[b] = points[b]
    BY <1>8
  <2>5. SUFFICES ASSUME ~Awaited(b, c)'
                 PROVE  \E q \in m_points' : points'[q].at = c /\ points'[q].g_score[2] <= d
    BY <2>3, <2>4 DEF Opened
  <2>6. CASE Opened(b, c)
    <3>1. PICK q \in m_points : points[q].at = c /\ points[q].g_score[2] <= d
      BY <2>3, <2>6 DEF Opened
    <3>2. points'[q].g_score[2] <= points[q].g_score[2]
      BY <1>11, <1>15, <2>1, <3>1
    <3>3. points'[q].g_score[2] \in Nat /\ points[q].g_score[2] \in Nat
      BY <1>3, <1>4, PointFields
    <3>4. PICK u \in Nat, v \in Nat : u = points'[q].g_score[2] /\ v = points[q].g_score[2]
      BY <3>3
    <3>5. u <= d
      BY <3>1, <3>2, <3>4
    <3> QED
      BY <1>8, <3>1, <3>4, <3>5
  <2>7. CASE Awaited(b, c)
    <3>1. b = p
      BY <2>7 DEF Awaited
    <3>2. PICK i \in 1 .. Len(neighbours) : points[neighbours[i]].at = c
      BY <2>7 DEF Awaited
    <3>3. i = 1
      <4>1. SUFFICES ASSUME i # 1 PROVE Awaited(b, c)'
        BY <2>5
      <4>2. PICK n \in Nat : n = Len(neighbours)
        BY <1>2
      <4>3. n > 1 /\ i - 1 \in 1 .. n - 1 /\ (i - 1) + 1 = i
        BY <4>1, <4>2
      <4>4. i - 1 \in 1 .. Len(neighbours')
        BY <1>2, <4>2, <4>3
      <4>5. Len(neighbours) = 1 \/ (p' = p /\ pc' = "visit")
        BY TurnEnds
      <4>6. n # 1
        BY <4>3
      <4>7. p' = p /\ pc' = "visit"
        BY <4>2, <4>5, <4>6
      <4>8. \A j \in 1 .. n - 1 : neighbours'[j] = neighbours[j + 1]
        BY <1>2, <4>2
      <4>9. neighbours'[i - 1] = neighbours[i] /\ p' = p /\ pc' = "visit"
        BY <4>3, <4>7, <4>8
      <4>10. neighbours[i] \in DOMAIN points \ (m_points \cup {a})
        <5>1. VisitInv /\ 1 \in 1 .. Len(neighbours)
          BY <1>2 DEF IInv
        <5> QED
          BY <1>2, <4>1, <5>1 DEF VisitInv
      <4>11. points'[neighbours'[i - 1]].at = c
        BY <3>2, <4>9, <4>10
      <4> QED
        BY <3>1, <4>4, <4>9, <4>11 DEF Awaited
    <3>4. c = y.at
      BY <1>2, <1>10, <3>2, <3>3
    <3>5. y.g_score[2] = d /\ Length(y.g_score) = L + 1
      BY <1>10, <2>1, <2>3, <3>1, <3>4
    <3>6. PICK q \in m_points' : points'[q].at = y.at /\ ~Less(y.g_score, points'[q].g_score)
      OBVIOUS
    <3>7. Length(points'[q].g_score) = L + 1
      BY <1>16, <2>1, <3>4, <3>6
    <3>8. ~(y.g_score[2] < points'[q].g_score[2])
      <4>1. points'[q].g_score \in Nat \X Nat /\ y.g_score \in Nat \X Nat
        BY <1>4, <1>10, PointFields
      <4> QED
        BY <3>5, <3>6, <3>7, <4>1, LessDiagonal
    <3>9. points'[q].g_score[2] \in Nat
      BY <1>4, PointFields
    <3>10. PICK u \in Nat : u = points'[q].g_score[2]
      BY <3>9
    <3>11. u <= d
      BY <3>5, <3>8, <3>10
    <3> QED
      BY <3>4, <3>6, <3>10, <3>11
  <2> QED
    BY <2>2, <2>6, <2>7
<1>18. Layer(f, L, k)'
  <2>1. ASSUME NEW x \in m_closedSet'
        PROVE  /\ InLayer(f, L, points'[x])
               /\ Steps(f, points'[x].at) = L => Covered(f, L, x)'
    <3>1. x \in m_closedSet /\ points'[x] = points[x]
      BY <1>8
    <3>2. InLayer(f, L, points[x])
      BY <1>7, <3>1 DEF Layer
    <3> QED
      BY <1>17, <3>1, <3>2
  <2>2. ASSUME NEW c \in Int \X Int, Steps(f, c) = L
        PROVE  \E x \in m_closedSet' \cup {m_value'[i] : i \in 1 .. k} : points'[x].at = c
    <3>1. PICK x \in m_closedSet \cup {m_value[i] : i \in 1 .. k} : points[x].at = c
      BY <1>7, <2>2 DEF Layer
    <3>2. \A i \in 1 .. k : m_value[i] \in m_points
      BY <1>3, <1>7
    <3>3. points'[x].at = c
      BY <1>8, <3>1, <3>2
    <3>4. x \in m_closedSet' \cup {m_value'[i] : i \in 1 .. k}
      BY <1>14, <3>1
    <3> QED
      BY <3>3, <3>4
  <2>3. 3 * (Cardinality(m_closedSet') + k) <= Cubes(L)
    BY <1>7 DEF Layer
  <2> QED
    BY <1>14, <2>1, <2>2, <2>3 DEF Layer
<1>19. SearchInv'
  <2>1. path' = <<>> /\ points'[lastPoint].at = g
    BY <1>1, <1>2, <1>6, <1>8 DEF SearchInv
  <2>2. \A x \in m_closedSet' : points'[x].at # g
    BY <1>1, <1>6, <1>8 DEF SearchInv
  <2>3. k <= Len(m_value')
    BY <1>3, <1>7, <1>14
  <2> QED
    BY <1>6, <1>7, <1>18, <2>1, <2>2, <2>3 DEF SearchInv
<1>20. ASSUME pc' = "visit" PROVE NeighboursInv'
  <2>1. p' = p /\ points'[p] = points[p]
    BY <1>2, <1>5, <1>8, <1>20
  <2>2. ASSUME NEW i \in 1 .. Len(neighbours')
        PROVE  Steps(points[p].at, points'[neighbours'[i]].at) = 1
    <3>1. i \in 1 .. Len(neighbours) - 1 /\ i + 1 \in 1 .. Len(neighbours) /\ i + 1 # 1
          /\ 1 \in 1 .. Len(neighbours)
      BY <1>2
    <3>2. PICK j \in 1 .. Len(neighbours) : j = i + 1 /\ j # 1
      BY <3>1
    <3>3. \A m, n \in 1 .. Len(neighbours) : neighbours[m] = neighbours[n] => m = n
      BY DEF IInv, VisitInv
    <3>4. a = neighbours[1] /\ 1 \in 1 .. Len(neighbours)
      BY <1>2, <3>1
    <3>5. neighbours[j] # a
      BY <3>2, <3>3, <3>4
    <3>6. neighbours[j] \in DOMAIN points \ m_points
      BY DEF IInv, VisitInv
    <3>7. neighbours[i + 1] \in DOMAIN points \ (m_points \cup {a})
      BY <3>2, <3>5, <3>6
    <3>8. points'[neighbours'[i]] = points[neighbours[i + 1]]
      BY <1>2, <3>1, <3>7
    <3> QED
      BY <1>1, <3>1, <3>8 DEF NeighboursInv
  <2> QED
    BY <2>1, <2>2 DEF NeighboursInv
<1>21. pc' \in {"visit", "search"}
  BY <1>2
<1>22. \A x \in Used' : Reached(x)'
  BY <1>12, <1>13, <1>21 DEF Used
<1>23. PathIsShortest'
  BY <1>21 DEF PathIsShortest
<1> QED
  BY <1>1, <1>2, <1>19, <1>20, <1>21, <1>22, <1>23 DEF WayInv

LEMMA DiscardKeepsWay == IInv /\ WayInv /\ Discard /\ IInv' => WayInv'
<1> SUFFICES ASSUME IInv, WayInv, Discard, IInv', NEW a, a = Head(neighbours) PROVE WayInv'
  OBVIOUS
<1>1. /\ pc = "visit" /\ NextNeighbour /\ points' = Delete(points, {a})
      /\ UNCHANGED <<m_points, m_value, m_closedSet>>
  BY DEF Discard
<1>2. /\ a \in DOMAIN points /\ a \notin m_points \cup m_closedSet \cup Locals /\ ~Closed(a)
  BY <1>1, Turn
<1>3. PICK y : y = [points[a] EXCEPT !.g_score = Score(a)]
  OBVIOUS
<1>4. y.at = points[a].at /\ y.g_score = Score(a)
  BY <1>2, <1>3 DEF IInv, Memory, Point
<1>5. PICK q \in m_points : points[q].at = points[a].at /\ ~Less(Score(a), points[q].g_score)
  BY <1>2 DEF Discard, Existing, SameCoordinates
<1>6. /\ \A x \in DOMAIN points \ {a} : points'[x] = points[x]
      /\ \A x \in m_points : x \in DOMAIN points \ {a}
  BY <1>1, <1>2, SetPoints DEF Delete
<1>7. \A x \in m_points : points'[x] = points[x]
  BY <1>6
<1>8. \A x \in DOMAIN points \ (m_points \cup {a}) : points'[x] = points[x]
  BY <1>6
<1>9. \E x \in m_points' : points'[x].at = y.at /\ ~Less(y.g_score, points'[x].g_score)
  BY <1>1, <1>4, <1>5, <1>7
<1>10. /\ m_points \subseteq m_points' /\ m_points' \subseteq m_points \cup {a}
       /\ a \notin m_points' /\ m_value' = m_value /\ m_closedSet' = m_closedSet
  BY <1>1, <1>2
<1> QED
  BY <1>1, <1>3, <1>7, <1>8, <1>9, <1>10, VisitKeepsWay

LEMMA NotLessItself ==
  ASSUME NEW g \in Nat \X Nat
  PROVE  ~Less(g, g)
<1>1. g[2] \in Nat /\ ~(g[2] < g[2])
  OBVIOUS
<1> QED
  BY <1>1, LessDiagonal

LEMMA ImproveKeepsWay == IInv /\ WayInv /\ Improve /\ IInv' => WayInv'
<1> SUFFICES ASSUME IInv, WayInv, Improve, IInv', NEW a, a = Head(neighbours) PROVE WayInv'
  OBVIOUS
<1>1. pc = "visit" /\ NextNeighbour /\ UNCHANGED <<m_points, m_value, m_closedSet>>
  BY DEF Improve
<1>2. PICK q \in Existing(a) :
        /\ Less(Score(a), points[q].g_score)
        /\ points' = Delete([points EXCEPT ![q].g_score = Score(a),
                                           ![q].origin = points[a].origin], {a})
  BY DEF Improve
<1>3. q \in m_points /\ points[q].at = points[a].at
  BY DEF Existing, SameCoordinates
<1>4. /\ a \in DOMAIN points /\ a \notin m_points \cup m_closedSet \cup Locals
      /\ points[a].origin = p /\ Score(a) \in Nat \X Nat
  BY <1>1, Turn
<1>5. PICK y : y = [points[a] EXCEPT !.g_score = Score(a)]
  OBVIOUS
<1>6. y.at = points[a].at /\ y.g_score = Score(a)
  BY <1>4, <1>5 DEF IInv, Memory, Point
<1>7. /\ q \in DOMAIN points /\ points[q] \in Point
      /\ \A x \in m_points : x \in DOMAIN points \ {a}
  BY <1>1, <1>3, <1>4, SetPoints
<1>8. /\ \A x \in DOMAIN points \ {a, q} : points'[x] = points[x]
      /\ points'[q] = [points[q] EXCEPT !.g_score = Score(a), !.origin = p]
  BY <1>2, <1>3, <1>4, <1>7 DEF Delete
<1>9. points'[q].at = points[q].at /\ points'[q].g_score = y.g_score /\ points'[q].origin = p
  BY <1>6, <1>7, <1>8 DEF Point
<1>10. ASSUME NEW x \in m_points
       PROVE  \/ points'[x] = points[x]
              \/ /\ points'[x].at = points[x].at /\ points'[x].at = y.at
                 /\ points'[x].g_score = y.g_score /\ points'[x].origin = p
                 /\ Less(y.g_score, points[x].g_score)
  <2>1. CASE x = q
    BY <1>2, <1>3, <1>6, <1>9, <2>1
  <2>2. CASE x # q
    BY <1>7, <1>8, <2>2
  <2> QED
    BY <2>1, <2>2
<1>11. \A x \in DOMAIN points \ (m_points \cup {a}) : points'[x] = points[x]
  BY <1>3, <1>8
<1>12. \E x \in m_points' : points'[x].at = y.at /\ ~Less(y.g_score, points'[x].g_score)
  BY <1>1, <1>3, <1>4, <1>6, <1>9, NotLessItself
<1>13. /\ m_points \subseteq m_points' /\ m_points' \subseteq m_points \cup {a}
       /\ a \notin m_points' /\ m_value' = m_value /\ m_closedSet' = m_closedSet
  BY <1>1, <1>4
<1>14. pc = "visit" /\ NextNeighbour
  BY <1>1
<1> QED
  BY <1>5, <1>10, <1>11, <1>12, <1>13, <1>14, VisitKeepsWay

LEMMA AddKeepsWay == IInv /\ WayInv /\ Add /\ IInv' => WayInv'
<1> SUFFICES ASSUME IInv, WayInv, Add, IInv', NEW a, a = Head(neighbours) PROVE WayInv'
  OBVIOUS
<1>1. /\ pc = "visit" /\ NextNeighbour /\ m_closedSet' = m_closedSet
      /\ points' = [points EXCEPT ![a].g_score = Score(a)]
      /\ m_points' = m_points \cup {a} /\ m_value' = Append(m_value, a)
  BY DEF Add, Existing, SameCoordinates, OpenSetInsert, Insert
<1>2. a \in DOMAIN points /\ a \notin m_points /\ Score(a) \in Nat \X Nat
  BY <1>1, Turn
<1>3. PICK y : y = [points[a] EXCEPT !.g_score = Score(a)]
  OBVIOUS
<1>4. y.at = points[a].at /\ y.g_score = Score(a)
  BY <1>2, <1>3 DEF IInv, Memory, Point
<1>5. points'[a] = y /\ \A x \in DOMAIN points \ {a} : points'[x] = points[x]
  BY <1>1, <1>2, <1>3
<1>6. \A x \in m_points : x \in DOMAIN points \ {a}
  BY <1>1, <1>2, SetPoints
<1>7. \A x \in m_points : points'[x] = points[x]
  BY <1>5, <1>6
<1>8. \A x \in DOMAIN points \ (m_points \cup {a}) : points'[x] = points[x]
  BY <1>5
<1>9. \E x \in m_points' : points'[x].at = y.at /\ ~Less(y.g_score, points'[x].g_score)
  BY <1>1, <1>2, <1>4, <1>5, NotLessItself
<1>10. a \in m_points' /\ m_points \subseteq m_points' /\ m_points' \subseteq m_points \cup {a}
  BY <1>1
<1>11. m_value' = m_value \/ (m_value' = Append(m_value, a) /\ a \in m_points')
  BY <1>1, <1>10
<1>12. pc = "visit" /\ NextNeighbour /\ m_closedSet' = m_closedSet /\ points'[a] = y
  BY <1>1, <1>5
<1> QED
  BY <1>3, <1>7, <1>8, <1>9, <1>10, <1>11, <1>12, VisitKeepsWay

(* A call begins with one point, which is the layer 0. *)
LEMMA CallRouteKeepsWay ==
  ASSUME IInv, WayInv, NEW start \in Int \X Int, NEW end \in Int \X Int,
         NEW prependable \in BOOLEAN, CallRoute(start, end, prependable)
  PROVE  WayInv'
<1> DEFINE kept == AfterClosedSetClear(AfterOpenSetClear(points))
<1>1. /\ pc = "idle" /\ pc' = "search"
      /\ args' = [start |-> start, end |-> end, prependable |-> prependable]
      /\ m_points' = {firstPoint} /\ m_value' = <<firstPoint>> /\ m_closedSet' = {}
      /\ path' = <<>>
  BY DEF CallRoute
<1>2. Locals \cap DOMAIN kept = {}
  <2>1. Locals \cap DOMAIN points = {}
    BY <1>1 DEF IInv
  <2> QED
    BY <2>1 DEF AfterClosedSetClear, AfterOpenSetClear, Delete
<1>3. points' = [a \in DOMAIN kept \cup Locals |->
                   IF a \in DOMAIN kept THEN kept[a]
                   ELSE IF prependable <=> (a = firstPoint) THEN NewPoint(start, None)
                   ELSE NewPoint(end, None)]
  BY DEF CallRoute
<1> HIDE DEF kept
<1>4. PICK f \in Int \X Int, g \in Int \X Int :
        /\ f = IF prependable THEN start ELSE end
        /\ g = IF prependable THEN end ELSE start
  OBVIOUS
<1>5. f = From' /\ g = Goal' /\ args' \in Call
  <2>1. From' = f /\ Goal' = g
    BY <1>1, <1>4 DEF From, Goal
  <2>2. args' \in Call
    BY <1>1 DEF Call
  <2> QED
    BY <2>1, <2>2
<1>6. points'[firstPoint] = NewPoint(f, None) /\ points'[lastPoint] = NewPoint(g, None)
  <2>1. firstPoint \in Locals /\ lastPoint \in Locals /\ firstPoint # lastPoint
    BY DEF Locals, firstPoint, lastPoint
  <2> QED
    BY <1>2, <1>3, <1>4, <2>1
<1>7. /\ points'[firstPoint].at = f /\ points'[firstPoint].g_score = <<0, 0>>
      /\ points'[firstPoint].origin = None /\ points'[lastPoint].at = g
  BY <1>6 DEF NewPoint
<1>8. Steps(f, f) = 0 /\ Diagonals(f, f) = 0 /\ Steps(f, g) \in Nat
      /\ \A c \in Int \X Int : Steps(f, c) = 0 => c = f
  BY StepsTypes
<1>9. Length(<<0, 0>>) = 0 /\ <<0, 0>>[2] = 0
  BY DEF Length
<1>10. OnShortest(f, points'[firstPoint]) /\ Attains(f, points'[firstPoint])
  BY <1>7, <1>8, <1>9 DEF OnShortest, Attains
<1>11. /\ Len(m_value') = 1 /\ m_value'[1] = firstPoint
       /\ {m_value'[i] : i \in 1 .. 1} = {firstPoint}
  BY <1>1
<1>12. Layer(f, 0, 1)'
  <2>1. \A i \in 1 .. 1 : InLayer(f, 0, points'[m_value'[i]])
    BY <1>7, <1>8, <1>10, <1>11 DEF InLayer
  <2>2. 1 + 1 .. Len(m_value') = {}
    BY <1>11
  <2>3. \A c \in Int \X Int : Steps(f, c) = 0 =>
          \E a \in m_closedSet' \cup {m_value'[i] : i \in 1 .. 1} : points'[a].at = c
    BY <1>7, <1>8, <1>11
  <2>4. 3 * (Cardinality(m_closedSet') + 1) <= Cubes(0)
    <3>1. Cardinality(m_closedSet') = 0
      BY <1>1, FS_EmptySet
    <3>2. Cubes(0) = 3
      BY DEF Cubes
    <3> QED
      BY <3>1, <3>2
  <2> QED
    BY <1>1, <2>1, <2>2, <2>3, <2>4 DEF Layer
<1>13. SearchInv'
  <2>1. 0 <= Steps(f, g) /\ 1 <= Len(m_value')
    BY <1>8, <1>11
  <2> QED
    BY <1>1, <1>5, <1>7, <1>12, <2>1 DEF SearchInv
<1>14. \A a \in Used' : Reached(a)'
  BY <1>1, <1>5, <1>7, <1>10 DEF Used, Reached
<1>15. PathIsShortest'
  BY <1>1 DEF PathIsShortest
<1> QED
  BY <1>1, <1>5, <1>13, <1>14, <1>15 DEF WayInv

(* The first point taken that has the coordinates of the goal is of the layer that the
   goal is in, and so its score is that of a shortest way. *)
LEMMA ReachEndKeepsWay == IInv /\ WayInv /\ ReachEnd => WayInv'
<1> SUFFICES ASSUME IInv, WayInv, ReachEnd, NEW best, best = Head(m_value) PROVE WayInv'
  OBVIOUS
<1>1. /\ pc = "search" /\ pc' = "reconstruct" /\ GetBest
      /\ points' = [points EXCEPT ![lastPoint] = points[best]]
      /\ p' = lastPoint /\ UNCHANGED <<m_closedSet, args, neighbours, path>>
      /\ points[best].at = points[lastPoint].at
  BY DEF ReachEnd, SameCoordinates
<1>2. /\ SearchInv /\ args \in Call
      /\ \A x \in m_points \cup m_closedSet : Reached(x) /\ ScoreMatches(x)
  BY <1>1 DEF IInv, WayInv, Used
<1>3. best \in m_points /\ m_points' = m_points \ {best}
  BY <1>1, GetBestTakesHead
<1>4. /\ \A a \in m_points \cup m_closedSet : a \in DOMAIN points /\ points[a] \in Point
      /\ Cardinality(m_closedSet) \in Nat
      /\ lastPoint \in DOMAIN points /\ lastPoint \notin m_points \cup m_closedSet
      /\ m_value \in Seq(m_points)
  BY <1>1, SetPoints
<1>5. PICK f \in Int \X Int, g \in Int \X Int, s \in Nat :
        f = From /\ g = Goal /\ f = From' /\ g = Goal' /\ Steps(f, g) = s
  BY <1>1, <1>2, Ends, SameEnds
<1>6. PICK L \in Nat, k \in Nat : L <= s /\ 1 <= k /\ k <= Len(m_value) /\ Layer(f, L, k)
  BY <1>1, <1>5, BestInLayer
<1>7. points[best].at = g
  BY <1>1, <1>2, <1>5 DEF SearchInv
<1>8. InLayer(f, L, points[best])
  <2>1. 1 \in 1 .. k /\ best = m_value[1]
    <3>1. m_value # <<>>
      BY <1>1 DEF GetBest
    <3> QED
      BY <1>4, <1>6, <3>1
  <2> QED
    BY <1>6, <2>1 DEF Layer
<1>9. s = L
  <2>1. s <= L
    BY <1>5, <1>7, <1>8 DEF InLayer
  <2> QED
    BY <1>6, <2>1
<1>10. OnShortest(f, points[best])
  BY <1>5, <1>7, <1>8, <1>9 DEF InLayer
<1>11. /\ points'[lastPoint] = points[best]
       /\ \A x \in m_points \cup m_closedSet : points'[x] = points[x]
  BY <1>1, <1>4
<1>12. ASSUME NEW x \in m_points \cup m_closedSet PROVE Reached(x)'
  <2>1. points[x].origin # None => points[x].origin \in m_closedSet
    BY <1>2 DEF ScoreMatches
  <2> QED
    BY <1>1, <1>2, <1>11, <2>1, StaysReached
<1>13. Reached(lastPoint)'
  <2>1. points[best].origin # None => points[best].origin \in m_closedSet
    BY <1>2, <1>3 DEF ScoreMatches
  <2> QED
    BY <1>2, <1>3, <1>5, <1>11, <2>1 DEF Reached
<1>14. RouteInv'
  <2>1. path' = <<>> /\ lastPoint # None
    BY <1>1, <1>2, AStarAssumption DEF SearchInv, AStarAssumption, lastPoint
  <2>2. 3 * Cardinality(m_closedSet') <= Cubes(s)
    <3>1. 3 * (Cardinality(m_closedSet) + k) <= Cubes(L)
      BY <1>6 DEF Layer
    <3>2. PICK n \in Nat, c \in Nat : n = Cardinality(m_closedSet) /\ c = Cubes(L)
      BY <1>4, CubesGrow
    <3>3. 3 * n <= c
      BY <3>1, <3>2
    <3> QED
      BY <1>1, <1>9, <3>2, <3>3
  <2>3. p' = lastPoint /\ points'[p'].at = g /\ OnShortest(f, points'[p'])
    BY <1>1, <1>7, <1>10, <1>11
  <2> QED
    BY <1>5, <2>1, <2>2, <2>3 DEF RouteInv
<1>15. \A x \in Used' : Reached(x)'
  BY <1>1, <1>3, <1>12, <1>13 DEF Used
<1>16. PathIsShortest'
  BY <1>1 DEF PathIsShortest
<1> QED
  BY <1>1, <1>2, <1>14, <1>15, <1>16 DEF WayInv

-----------------------------------------------------------------------------
(* A path that gets longer at its end, or at its beginning. *)
DiagonalAt(s) == {i \in 1 .. Len(s) - 1 : Diagonals(s[i], s[i + 1]) = 1}

LEMMA DiagonalsFinite ==
  ASSUME NEW s, Len(s) \in Nat
  PROVE  IsFiniteSet(DiagonalAt(s)) /\ Cardinality(DiagonalAt(s)) \in Nat
<1>1. IsFiniteSet(1 .. Len(s) - 1) /\ DiagonalAt(s) \subseteq 1 .. Len(s) - 1
  BY FS_Interval DEF DiagonalAt
<1> QED
  BY <1>1, FS_Subset, FS_CardinalityType

LEMMA LongerAtEnd ==
  ASSUME NEW S, NEW s \in Seq(S), NEW c \in S, s # <<>>, Links(s), Steps(s[Len(s)], c) = 1,
         Diagonals(s[Len(s)], c) \in {0, 1}
  PROVE  LET t == Append(s, c)
         IN  /\ Links(t) /\ t # <<>> /\ Len(t) = Len(s) + 1
             /\ t[1] = s[1] /\ t[Len(t)] = c
             /\ Turns(t) = Turns(s) + Diagonals(s[Len(s)], c)
<1>1. PICK n \in Nat : n = Len(s) /\ n >= 1
  OBVIOUS
<1>2. PICK t : t = Append(s, c)
  OBVIOUS
<1>3. /\ Len(t) = n + 1 /\ t[n + 1] = c /\ t # <<>>
      /\ \A i \in 1 .. n : t[i] = s[i]
  BY <1>1, <1>2, AppendProperties
<1>4. ASSUME NEW i \in 1 .. n
      PROVE  /\ t[i] = s[i]
             /\ t[i + 1] = IF i = n THEN c ELSE s[i + 1]
             /\ i # n => i \in 1 .. Len(s) - 1
  <2>1. i # n => i + 1 \in 1 .. n
    BY <1>1
  <2> QED
    BY <1>1, <1>3, <2>1
<1>5. Links(t)
  <2>1. ASSUME NEW i \in 1 .. n PROVE Steps(t[i], t[i + 1]) = 1
    BY <1>1, <1>4 DEF Links
  <2>2. Len(t) - 1 = n
    BY <1>3
  <2> QED
    BY <2>1, <2>2 DEF Links
<1>6. DiagonalAt(t) = IF Diagonals(s[n], c) = 1 THEN DiagonalAt(s) \cup {n} ELSE DiagonalAt(s)
  <2>1. Len(t) - 1 = n /\ Len(s) - 1 = n - 1
    BY <1>1, <1>3
  <2>2. \A i : i \in 1 .. n <=> i \in 1 .. n - 1 \/ i = n
    BY <1>1
  <2>3. n \notin 1 .. n - 1
    BY <1>1
  <2> QED
    BY <1>4, <2>1, <2>2, <2>3 DEF DiagonalAt
<1>7. n \notin DiagonalAt(s)
  BY <1>1 DEF DiagonalAt
<1>8. IsFiniteSet(DiagonalAt(s)) /\ Cardinality(DiagonalAt(s)) \in Nat
  BY <1>1, DiagonalsFinite
<1>9. Cardinality(DiagonalAt(s) \cup {n}) = Cardinality(DiagonalAt(s)) + 1
  BY <1>7, <1>8, FS_AddElement
<1>10. Cardinality(DiagonalAt(t)) = Cardinality(DiagonalAt(s)) + Diagonals(s[n], c)
  <2>1. CASE Diagonals(s[n], c) = 1
    BY <1>6, <1>9, <2>1
  <2>2. CASE Diagonals(s[n], c) = 0
    BY <1>6, <1>8, <2>2
  <2> QED
    BY <1>1, <2>1, <2>2
<1>11. Turns(t) = Turns(s) + Diagonals(s[Len(s)], c)
  BY <1>1, <1>10 DEF Turns, DiagonalAt
<1> QED
  BY <1>1, <1>2, <1>3, <1>5, <1>11

LEMMA LongerAtBegin ==
  ASSUME NEW S, NEW s \in Seq(S), NEW c \in S, s # <<>>, Links(s), Steps(c, s[1]) = 1,
         Diagonals(c, s[1]) \in {0, 1}
  PROVE  LET t == <<c>> \o s
         IN  /\ Links(t) /\ t # <<>> /\ Len(t) = Len(s) + 1
             /\ t[1] = c /\ t[Len(t)] = s[Len(s)]
             /\ Turns(t) = Turns(s) + Diagonals(c, s[1])
<1>1. PICK n \in Nat : n = Len(s) /\ n >= 1
  OBVIOUS
<1>2. PICK t : t = <<c>> \o s
  OBVIOUS
<1>3. /\ Len(t) = n + 1 /\ t[1] = c /\ t # <<>>
      /\ \A i \in 1 .. n : t[i + 1] = s[i]
  BY <1>1, <1>2
<1>4. ASSUME NEW i \in 1 .. n
      PROVE  /\ t[i + 1] = s[i]
             /\ t[i] = IF i = 1 THEN c ELSE s[i - 1]
             /\ i # 1 => i - 1 \in 1 .. Len(s) - 1 /\ (i - 1) + 1 = i
  <2>1. i # 1 => i - 1 \in 1 .. n /\ (i - 1) + 1 = i /\ i - 1 \in 1 .. n - 1
    BY <1>1
  <2> QED
    BY <1>1, <1>3, <2>1
<1>5. Links(t)
  <2>1. ASSUME NEW i \in 1 .. n PROVE Steps(t[i], t[i + 1]) = 1
    <3>1. CASE i = 1
      BY <1>4, <3>1
    <3>2. CASE i # 1
      <4>1. PICK j \in 1 .. Len(s) - 1 : j = i - 1 /\ j + 1 = i
        BY <1>4, <3>2
      <4>2. Steps(s[j], s[j + 1]) = 1
        BY DEF Links
      <4> QED
        BY <1>4, <3>2, <4>1, <4>2
    <3> QED
      BY <3>1, <3>2
  <2>2. Len(t) - 1 = n
    BY <1>3
  <2> QED
    BY <2>1, <2>2 DEF Links
<1> DEFINE shifted == {i + 1 : i \in DiagonalAt(s)}
<1>6. DiagonalAt(t) = IF Diagonals(c, s[1]) = 1 THEN shifted \cup {1} ELSE shifted
  <2>1. Len(t) - 1 = n /\ Len(s) - 1 = n - 1
    BY <1>1, <1>3
  <2>2. ASSUME NEW i \in 1 .. n
        PROVE  i \in DiagonalAt(t) <=> (i = 1 /\ Diagonals(c, s[1]) = 1) \/ i \in shifted
    <3>1. i \in DiagonalAt(t) <=> Diagonals(t[i], t[i + 1]) = 1
      BY <2>1 DEF DiagonalAt
    <3>2. CASE i = 1
      <4>1. i \notin shifted
        BY <3>2 DEF DiagonalAt
      <4> QED
        BY <1>4, <3>1, <3>2, <4>1
    <3>3. CASE i # 1
      <4>1. PICK j \in 1 .. Len(s) - 1 : j = i - 1 /\ j + 1 = i
        BY <1>4, <3>3
      <4>2. t[i] = s[j] /\ t[i + 1] = s[j + 1]
        BY <1>4, <3>3, <4>1
      <4>3. i \in shifted <=> j \in DiagonalAt(s)
        <5>1. \A m \in DiagonalAt(s) : m \in Int /\ (m + 1 = i => m = j)
          BY <4>1 DEF DiagonalAt
        <5> QED
          BY <4>1, <5>1
      <4>4. j \in DiagonalAt(s) <=> Diagonals(s[j], s[j + 1]) = 1
        BY DEF DiagonalAt
      <4> QED
        BY <3>1, <3>3, <4>2, <4>3, <4>4
    <3> QED
      BY <3>2, <3>3
  <2>3. DiagonalAt(t) \subseteq 1 .. n /\ shifted \subseteq 1 .. n /\ 1 \in 1 .. n
    BY <1>1, <2>1 DEF DiagonalAt
  <2> HIDE DEF shifted
  <2> QED
    BY <2>2, <2>3
<1>7. 1 \notin shifted
  BY DEF DiagonalAt
<1>8. IsFiniteSet(DiagonalAt(s)) /\ Cardinality(DiagonalAt(s)) \in Nat
  BY <1>1, DiagonalsFinite
<1>9. IsFiniteSet(shifted) /\ Cardinality(shifted) = Cardinality(DiagonalAt(s))
  <2>1. PICK h : h = [i \in DiagonalAt(s) |-> i + 1]
    OBVIOUS
  <2>2. h \in Bijection(DiagonalAt(s), shifted)
    <3>1. \A i, j \in DiagonalAt(s) : i + 1 = j + 1 => i = j
      BY DEF DiagonalAt
    <3> QED
      BY <2>1, <3>1 DEF Bijection, Injection, Surjection, IsInjective
  <2>3. ExistsBijection(DiagonalAt(s), shifted)
    BY <2>2 DEF ExistsBijection
  <2> HIDE DEF shifted
  <2> QED
    BY <1>8, <2>3, FS_Bijection
<1> HIDE DEF shifted
<1>10. Cardinality(shifted \cup {1}) = Cardinality(shifted) + 1
  BY <1>7, <1>9, FS_AddElement
<1>11. Cardinality(DiagonalAt(t)) = Cardinality(DiagonalAt(s)) + Diagonals(c, s[1])
  <2>1. CASE Diagonals(c, s[1]) = 1
    BY <1>6, <1>9, <1>10, <2>1
  <2>2. CASE Diagonals(c, s[1]) = 0
    BY <1>6, <1>8, <1>9, <2>2
  <2> QED
    BY <2>1, <2>2
<1>12. Turns(t) = Turns(s) + Diagonals(c, s[1])
  BY <1>11 DEF Turns, DiagonalAt
<1>13. t[Len(t)] = s[Len(s)]
  <2>1. n \in 1 .. n
    BY <1>1
  <2> QED
    BY <1>1, <1>3, <2>1
<1> QED
  BY <1>1, <1>2, <1>3, <1>5, <1>12, <1>13

(* One more point of the path: its end where points are added is at it, and it has the
   step to it. *)
LEMMA Inserted ==
  ASSUME path \in Seq(Int \X Int), path # <<>> => Links(path) /\ Base = Goal,
         args \in Call, NEW c \in Int \X Int, path' = InsertIntoPath(c), args' = args,
         path # <<>> => Steps(Tip, c) = 1, path = <<>> => c = Goal
  PROVE  /\ path' # <<>> /\ Links(path)' /\ Base' = Goal /\ Tip' = c
         /\ Len(path') = Len(path) + 1
         /\ Turns(path') = IF path = <<>> THEN 0 ELSE Turns(path) + Diagonals(Tip, c)
<1>1. args.prependable \in BOOLEAN /\ args'.prependable = args.prependable
  BY DEF Call
<1>2. CASE path = <<>>
  <2>1. path' = <<c>>
    BY <1>2 DEF InsertIntoPath
  <2>2. Len(path') = 1 /\ path' # <<>> /\ path'[1] = c /\ Len(path) = 0
    BY <1>2, <2>1
  <2>3. Links(path') /\ Turns(path') = 0
    <3>1. 1 .. Len(path') - 1 = {}
      BY <2>2
    <3>2. {i \in 1 .. Len(path') - 1 : Diagonals(path'[i], path'[i + 1]) = 1} = {}
      BY <3>1
    <3> QED
      BY <3>1, <3>2, FS_EmptySet DEF Links, Turns
  <2>4. Base' = c /\ Tip' = c
    BY <1>1, <2>2 DEF Base, Tip
  <2> QED
    BY <1>2, <2>2, <2>3, <2>4
<1>3. CASE path # <<>> /\ args.prependable
  <2>1. path' = <<c>> \o path /\ Tip = path[1] /\ Base = path[Len(path)]
    BY <1>3 DEF InsertIntoPath, Tip, Base
  <2>2. path[1] \in Int \X Int
    BY <1>3
  <2>3. /\ Steps(c, path[1]) = 1 /\ Diagonals(c, path[1]) = Diagonals(path[1], c)
        /\ Diagonals(c, path[1]) \in {0, 1}
    BY <1>3, <2>1, <2>2, StepsTypes, NextTo
  <2>4. /\ Links(path') /\ path' # <<>> /\ Len(path') = Len(path) + 1
        /\ path'[1] = c /\ path'[Len(path')] = path[Len(path)]
        /\ Turns(path') = Turns(path) + Diagonals(c, path[1])
    BY <1>3, <2>1, <2>3, LongerAtBegin
  <2>5. Base' = path'[Len(path')] /\ Tip' = path'[1]
    BY <1>1, <1>3 DEF Base, Tip
  <2> QED
    BY <1>3, <2>1, <2>3, <2>4, <2>5
<1>4. CASE path # <<>> /\ ~args.prependable
  <2>1. path' = Append(path, c) /\ Tip = path[Len(path)] /\ Base = path[1]
    BY <1>4 DEF InsertIntoPath, Tip, Base
  <2>2. path[Len(path)] \in Int \X Int
    BY <1>4
  <2>3. Diagonals(path[Len(path)], c) \in {0, 1} /\ Steps(path[Len(path)], c) = 1
    BY <1>4, <2>1, <2>2, NextTo
  <2>4. /\ Links(path') /\ path' # <<>> /\ Len(path') = Len(path) + 1
        /\ path'[1] = path[1] /\ path'[Len(path')] = c
        /\ Turns(path') = Turns(path) + Diagonals(path[Len(path)], c)
    BY <1>4, <2>1, <2>3, LongerAtEnd
  <2>5. Base' = path'[1] /\ Tip' = path'[Len(path')]
    BY <1>1, <1>4 DEF Base, Tip
  <2> QED
    BY <1>4, <2>1, <2>4, <2>5
<1> QED
  BY <1>1, <1>2, <1>3, <1>4

(* The origin of a point is one step nearer to where the search began, and only the
   first point has none. *)
LEMMA ReconstructKeepsWay == IInv /\ WayInv /\ Reconstruct => WayInv'
<1> SUFFICES ASSUME IInv, WayInv, Reconstruct PROVE WayInv'
  OBVIOUS
<1>1. /\ pc = "reconstruct" /\ pc' = pc /\ p # None /\ p' = points[p].origin
      /\ UNCHANGED <<points, m_points, m_value, m_closedSet, args, neighbours>>
      /\ path' = InsertIntoPath(points[p].at)
  BY DEF Reconstruct
<1>2. /\ RouteInv /\ args \in Call /\ p \in m_closedSet \cup {lastPoint}
      /\ path \in Seq(Int \X Int)
      /\ \A x \in m_closedSet \cup {lastPoint} : Reached(x) /\ ScoreMatches(x)
  BY <1>1 DEF IInv, WayInv, Used, TypeOK
<1>3. \A x \in m_closedSet \cup {lastPoint} : points[x] \in Point
  BY <1>1, SetPoints
<1>4. PICK f \in Int \X Int, g \in Int \X Int, s \in Nat, d \in Nat :
        /\ f = From /\ g = Goal /\ f = From' /\ g = Goal' /\ Steps(f, g) = s
        /\ Diagonals(f, g) = d
  BY <1>1, <1>2, Ends, SameEnds, StepsTypes
<1>5. PICK x \in Point : x = points[p]
  BY <1>2, <1>3
<1>6. /\ x.at \in Int \X Int /\ Length(x.g_score) \in Nat /\ x.g_score[2] \in Nat
      /\ Attains(f, x) /\ (p' # None => p' \in m_closedSet)
      /\ p' = x.origin
  BY <1>1, <1>2, <1>4, <1>5, PointFields DEF Reached, ScoreMatches
<1>7. /\ path # <<>> => Steps(Tip, x.at) = 1
      /\ path = <<>> => x.at = Goal
  BY <1>1, <1>2, <1>5 DEF RouteInv
<1>8. /\ path' # <<>> /\ Links(path') /\ Base' = g /\ Tip' = x.at
      /\ Len(path') = Len(path) + 1
      /\ Turns(path') = IF path = <<>> THEN 0 ELSE Turns(path) + Diagonals(Tip, x.at)
  BY <1>1, <1>2, <1>4, <1>5, <1>6, <1>7, Inserted DEF RouteInv
<1>9. /\ Len(path') \in Nat /\ Turns(path') \in Nat
      /\ Len(path') + Length(x.g_score) = s + 1
      /\ Turns(path') + x.g_score[2] = d
  <2>1. Len(path) \in Nat
    BY <1>2
  <2>2. Turns(path') \in Nat
    <3>1. Len(path') \in Nat
      BY <1>8, <2>1
    <3> QED
      BY <3>1, DiagonalsFinite DEF Turns, DiagonalAt
  <2>3. CASE path = <<>>
    <3>1. Len(path') = 1 /\ Turns(path') = 0
      BY <1>8, <2>3
    <3>2. OnShortest(f, x) /\ x.at = g
      BY <1>2, <1>4, <1>5, <2>3 DEF RouteInv
    <3> QED
      BY <1>4, <3>1, <3>2 DEF OnShortest
  <2>4. CASE path # <<>>
    <3>1. /\ Len(path) + Length(x.g_score) = s
          /\ Turns(path) + Diagonals(Tip, x.at) + x.g_score[2] = d
      BY <1>1, <1>2, <1>4, <1>5, <2>4 DEF RouteInv
    <3>2. Turns(path') = Turns(path) + Diagonals(Tip, x.at)
      BY <1>8, <2>4
    <3>3. PICK n \in Nat, l \in Nat, e \in Nat :
            n = Len(path) /\ l = Length(x.g_score) /\ e = x.g_score[2]
      BY <1>6, <2>1
    <3>4. Turns(path') + e = d
      BY <3>1, <3>2, <3>3
    <3>5. Len(path') = n + 1 /\ n + l = s
      BY <1>8, <3>1, <3>3
    <3>6. Len(path') + l = s + 1
      BY <3>5
    <3> QED
      BY <1>8, <2>1, <2>2, <3>3, <3>4, <3>6
  <2> QED
    BY <1>8, <2>1, <2>2, <2>3, <2>4
<1>10. ASSUME p' = None PROVE RouteInv'
  <2>1. x.g_score = <<0, 0>>
    BY <1>1, <1>2, <1>5, <1>10 DEF ScoreMatches
  <2>2. Length(x.g_score) = 0 /\ x.g_score[2] = 0
    BY <2>1 DEF Length
  <2>3. x.at = f
    <3>1. Steps(f, x.at) \in Nat /\ (Steps(f, x.at) = 0 => f = x.at)
      BY <1>6, StepsTypes
    <3>2. Steps(f, x.at) <= 0
      BY <1>6, <2>2 DEF Attains
    <3> QED
      BY <3>1, <3>2
  <2>4. Len(path') = s + 1 /\ Turns(path') = d
    BY <1>9, <2>2
  <2>5. 3 * Cardinality(m_closedSet') <= Cubes(s)
    BY <1>1, <1>2, <1>4 DEF RouteInv
  <2> QED
    BY <1>4, <1>8, <1>10, <2>3, <2>4, <2>5 DEF RouteInv
<1>11. ASSUME p' # None PROVE RouteInv'
  <2>1. PICK o \in Point : o = points[p']
    BY <1>3, <1>6, <1>11
  <2>2. /\ x.g_score = Plus(o.g_score, Distance(o.at, x.at))
        /\ Steps(o.at, x.at) = 1
    BY <1>1, <1>2, <1>5, <1>11, <2>1 DEF ScoreMatches, Reached
  <2>3. Attains(f, o)
    BY <1>2, <1>4, <1>6, <1>11, <2>1 DEF Reached
  <2>4. /\ Length(x.g_score) = Length(o.g_score) + 1
        /\ x.g_score[2] = o.g_score[2] + Diagonals(o.at, x.at)
    BY <2>2, <2>3, Follow
  <2>5. o.at \in Int \X Int /\ Length(o.g_score) \in Nat /\ o.g_score[2] \in Nat
    BY PointFields
  <2>6. /\ Steps(x.at, o.at) = 1 /\ Diagonals(x.at, o.at) = Diagonals(o.at, x.at)
        /\ Diagonals(x.at, o.at) \in Nat
    BY <1>6, <2>2, <2>5, StepsTypes
  <2>7. /\ Len(path') + Length(o.g_score) = s
        /\ Turns(path') + Diagonals(x.at, o.at) + o.g_score[2] = d
    <3>1. PICK n \in Nat, t \in Nat, l \in Nat, e \in Nat, m \in Nat :
            /\ n = Len(path') /\ t = Turns(path') /\ l = Length(o.g_score)
            /\ e = o.g_score[2] /\ m = Diagonals(x.at, o.at)
      BY <1>9, <2>5, <2>6
    <3>2. n + (l + 1) = s + 1 /\ t + (e + m) = d
      BY <1>9, <2>4, <2>6, <3>1
    <3>3. n + l = s /\ t + m + e = d
      BY <3>2
    <3> QED
      BY <3>1, <3>3
  <2>8. points'[p'] = o
    BY <1>1, <2>1
  <2>9. 3 * Cardinality(m_closedSet') <= Cubes(s)
    BY <1>1, <1>2, <1>4 DEF RouteInv
  <2> QED
    BY <1>4, <1>8, <1>11, <2>6, <2>7, <2>8, <2>9 DEF RouteInv
<1>12. \A y \in Used' : Reached(y)'
  <2>1. Used' = Used /\ points' = points /\ From' = From
    BY <1>1, <1>4 DEF Used
  <2> QED
    BY <1>1, <2>1 DEF WayInv, Reached
<1>13. PathIsShortest'
  BY <1>1 DEF PathIsShortest
<1>14. RouteInv'
  BY <1>10, <1>11
<1> QED
  BY <1>1, <1>2, <1>12, <1>13, <1>14 DEF WayInv

LEMMA ReturnKeepsWay == IInv /\ WayInv /\ Return => WayInv'
<1> SUFFICES ASSUME IInv, WayInv, Return PROVE WayInv'
  OBVIOUS
<1>1. /\ pc = "reconstruct" /\ p = None /\ pc' = "idle" /\ args' = args /\ path' = path
  BY DEF Return
<1>2. RouteInv /\ args \in Call
  BY <1>1 DEF WayInv
<1>3. /\ path # <<>> /\ Links(path) /\ Base = Goal /\ Tip = From
      /\ Len(path) = Steps(From, Goal) + 1 /\ Turns(path) = Diagonals(From, Goal)
  BY <1>1, <1>2 DEF RouteInv
<1>4. path[1] = args.start /\ path[Len(path)] = args.end
  BY <1>3 DEF Base, Goal, Tip, From
<1>5. /\ Steps(From, Goal) = Steps(args.start, args.end) /\ Steps(From, Goal) \in Nat
      /\ Diagonals(From, Goal) = Diagonals(args.start, args.end)
  BY <1>2, Ends
<1>6. PathIsShortest'
  <2>1. Len(path) = 1 + Steps(args.start, args.end)
    BY <1>3, <1>5
  <2>2. \A i \in 1 .. Len(path) - 1 : Steps(path[i], path[i + 1]) = 1
    BY <1>3 DEF Links
  <2>3. Cardinality({i \in 1 .. Len(path) - 1 : Diagonals(path[i], path[i + 1]) = 1})
          = Diagonals(args.start, args.end)
    BY <1>3, <1>5 DEF Turns
  <2> QED
    BY <1>1, <1>3, <1>4, <2>1, <2>2, <2>3 DEF PathIsShortest
<1> QED
  BY <1>1, <1>6 DEF WayInv

(* WayInv is inductive, with IInv. *)
LEMMA InvariantWayInv == Spec => []WayInv
<1>1. Init => WayInv
  BY DEF Init, WayInv, PathIsShortest
<1>2. ASSUME IInv, WayInv, Next, IInv' PROVE WayInv'
  <2>1. ASSUME NEW a \in Arguments, NEW prependable \in Prependable,
               CallRoute(a[1], a[2], prependable)
        PROVE  WayInv'
    <3>1. a[1] \in Int \X Int /\ a[2] \in Int \X Int /\ prependable \in BOOLEAN
      BY AStarAssumption DEF AStarAssumption, Prependable
    <3> QED
      BY <1>2, <2>1, <3>1, CallRouteKeepsWay
  <2> QED
    BY <1>2, <2>1, ReachEndKeepsWay, ExpandKeepsWay, DiscardKeepsWay, ImproveKeepsWay,
       AddKeepsWay, ReconstructKeepsWay, ReturnKeepsWay DEF Next
<1>3. ASSUME WayInv, UNCHANGED vars PROVE WayInv'
  <2> USE <1>3 DEF vars
  <2>1. From' = From /\ Goal' = Goal /\ Used' = Used
    BY DEF From, Goal, Used
  <2>2. \A a \in Used : Reached(a)' <=> Reached(a)
    BY <2>1 DEF Reached
  <2>3. SearchInv' <=> SearchInv
    <3>1. \A f, L, k : Layer(f, L, k)' <=> Layer(f, L, k)
      BY DEF Layer, Covered, Opened, Awaited
    <3> QED
      BY <2>1, <3>1 DEF SearchInv
  <2>4. (NeighboursInv' <=> NeighboursInv) /\ (RouteInv' <=> RouteInv)
        /\ (PathIsShortest' <=> PathIsShortest)
    BY <2>1 DEF NeighboursInv, RouteInv, Links, Turns, Base, Tip, PathIsShortest
  <2> QED
    BY <2>1, <2>2, <2>3, <2>4 DEF WayInv
<1> QED
  BY InvariantIInv, <1>1, <1>2, <1>3, PTL DEF Spec

(* What route returns leads from the start to the end and is as short as can be,
   whatever its arguments are: although the open set is a queue and looks at no
   score, the points are taken in the order of their distance (base.hpp:106). *)
THEOREM PathAlwaysShortest == Spec => []PathIsShortest
<1>1. WayInv => PathIsShortest
  BY DEF WayInv
<1> QED
  BY InvariantWayInv, <1>1, PTL

(* The search for a point at a distance of d steps closes not more points than the
   squares around the first one up to that distance hold: in no layer are two points at
   the same coordinates, although later layers come to coordinates that were closed
   (std_types.hpp:199). *)
THEOREM SearchAlwaysBounded == Spec => []SearchIsBounded
<1>1. IInv /\ WayInv => SearchIsBounded
  <2> SUFFICES ASSUME IInv, WayInv, pc # "idle"
               PROVE  LET d == Steps(args.start, args.end)
                      IN  Cardinality(m_closedSet)
                            <= ((d + 1) * (2 * d + 1) * (2 * d + 3)) \div 3
    BY DEF SearchIsBounded
  <2>1. PICK d \in Nat : d = Steps(args.start, args.end) /\ d = Steps(From, Goal)
    BY Ends DEF WayInv
  <2>2. PICK n \in Nat : n = Cardinality(m_closedSet)
    BY SetPoints
  <2>3. 3 * n <= Cubes(d)
    <3>1. CASE pc = "reconstruct"
      BY <2>1, <2>2, <3>1 DEF WayInv, RouteInv
    <3>2. CASE pc # "reconstruct"
      <4>1. pc \in {"search", "visit"}
        BY <3>2 DEF IInv, TypeOK
      <4>2. PICK L \in Nat, k \in Nat : L <= d /\ Layer(From, L, k)
        BY <2>1, <4>1 DEF WayInv, SearchInv
      <4>3. 3 * (n + k) <= Cubes(L)
        BY <2>2, <4>2 DEF Layer
      <4>4. Cubes(L) \in Nat /\ Cubes(d) \in Nat /\ Cubes(L) <= Cubes(d)
        BY <4>2, CubesGrow
      <4> QED
        BY <4>3, <4>4
    <3> QED
      BY <3>1, <3>2
  <2>4. PICK c \in Nat : c = (d + 1) * (2 * d + 1) * (2 * d + 3)
    OBVIOUS
  <2>5. n <= c \div 3
    BY <2>3, <2>4 DEF Cubes
  <2> QED
    BY <2>1, <2>2, <2>4, <2>5
<1> QED
  BY InvariantIInv, InvariantWayInv, <1>1, PTL

=============================================================================
