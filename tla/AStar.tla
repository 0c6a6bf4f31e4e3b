------------------------------- MODULE AStar --------------------------------
(***************************************************************************)
(* ol::Router::StdAStar of src/router/A_star: the search of AStar::route   *)
(* (base.hpp) with the OpenSet and ClosedSet of std_types.hpp, and the     *)
(* first-in first-out SortingContainer and the eight neighbours of         *)
(* std_alg.hpp, on the unlimited grid of integer coordinates.              *)
(*                                                                         *)
(* A point is an object at an address, because ClosedSet compares          *)
(* addresses and OpenSet coordinates.  Two points, firstPoint and          *)
(* lastPoint, are local variables of route; the others come from new.  A   *)
(* step is a call, one turn of a loop, or a return.  f_score is left out:  *)
(* SortingContainer never looks at it.  A route from a point to itself     *)
(* fails the assert of reconstruct_path; the model is of the build with    *)
(* NDEBUG.                                                                 *)
(***************************************************************************)
EXTENDS Integers, Sequences, FiniteSets, FiniteSetsExt

CONSTANTS
  Arguments,    (* the pairs of coordinates that route is called with      *)
  None          (* nullptr                                                 *)

ASSUME AStarAssumption ==
  /\ Arguments \subseteq (Int \X Int) \X (Int \X Int)
  /\ None \notin Nat

(* The addresses of the local variables of route; new returns larger ones. *)
firstPoint == 1
lastPoint == 2
Locals == {firstPoint, lastPoint}

VARIABLES
  points,       (* the points that exist, by address                       *)
  m_points,     (* OpenSet::m_points                                       *)
  m_value,      (* OpenSet::m_value, the SortingContainer                  *)
  m_closedSet,
  pc,
  args,         (* the arguments of the last call of route                 *)
  p,            (* currentPoint of findPath, p of reconstruct_path         *)
  neighbours,   (* those the loop of findPath has not come to              *)
  path          (* what reconstruct_path has made so far, or route returned *)

vars == <<points, m_points, m_value, m_closedSet, pc, args, p, neighbours, path>>

Init ==
  /\ points = <<>>
  /\ m_points = {} /\ m_value = <<>> /\ m_closedSet = {}
  /\ pc = "idle"
  /\ args = None
  /\ p = None
  /\ neighbours = <<>>
  /\ path = <<>>

-----------------------------------------------------------------------------
(* Points, scores and sets. *)

NewPoint(at, origin) == [at |-> at, g_score |-> <<0, 0>>, origin |-> origin]

Delete(store, addresses) == [a \in DOMAIN store \ addresses |-> store[a]]

(* A score <<n, d>> is the length of n straight and d diagonal steps: the
   number n + d * sqrt(2).  Mutant: what is left to go instead of what was gone. *)
Minus(g, h) == <<g[1] - h[1], g[2] - h[2]>>

Plus(g, h) == <<g[1] + h[1], g[2] + h[2]>>

(* g < h: exactly, where double may round two equal lengths differently. *)
Less(g, h) ==
  LET n == g[1] - h[1]
      d == h[2] - g[2]
  IN  \/ d >= 0 /\ (n < 0 \/ n * n < 2 * d * d)
      \/ d < 0 /\ n < 0 /\ n * n > 2 * d * d

(* distance() of neighbouring coordinates.  Mutant: every step counts as one. *)
DistanceInSteps(c, d) == <<1, 0>>

Distance(c, d) == IF c[1] = d[1] \/ c[2] = d[2] THEN <<1, 0>> ELSE <<0, 1>>

Moves == << <<0, -1>>, <<1, -1>>, <<1, 0>>, <<1, 1>>, <<0, 1>>, <<-1, 1>>, <<-1, 0>>, <<-1, -1>> >>

(* operator== of Coordinates, and CompareCoordinates. *)
SameCoordinates(a, b) == points[a].at = points[b].at

(* OpenSet::exists, the point that has the coordinates of point a.
   Mutant: addresses are compared, as ClosedSet does. *)
ExistingByAddress(a) == {q \in m_points : q = a}

Existing(a) == {q \in m_points : SameCoordinates(q, a)}

(* ClosedSet::exists *)
Closed(a) == a \in m_closedSet

(* clear() of both sets deletes the points in them. *)
AfterOpenSetClear(store) == Delete(store, m_points)
AfterClosedSetClear(store) == Delete(store, m_closedSet)

(* SortingContainer::insert.  Mutant: push_front, the youngest point first. *)
InsertYoungestFirst(queue, a) == <<a>> \o queue

Insert(queue, a) == Append(queue, a)

(* OpenSet::insert: m_points keeps one point for each pair of coordinates. *)
OpenSetInsert(a) ==
  /\ m_points' = IF \E q \in m_points : SameCoordinates(q, a) THEN m_points
                 ELSE m_points \cup {a}
  /\ m_value' = Insert(m_value, a)

(* new: addresses no living point has. *)
NewAddresses == [i \in DOMAIN Moves |-> Max(DOMAIN points) + i]

-----------------------------------------------------------------------------
(* Container<PathT>::prependable *)
Prependable == BOOLEAN

(* route, as far as the loop of findPath.  A container that cannot be prepended
   to is filled from the other end.  clear() deletes the points an earlier call
   has left in the sets; if firstPoint of that call is one of them, this is
   undefined and the model ends. *)
CallRoute(start, end, prependable) ==
  /\ pc = "idle" /\ firstPoint \notin m_points \cup m_closedSet
  /\ args' = [start |-> start, end |-> end, prependable |-> prependable]
  /\ LET kept == AfterClosedSetClear(AfterOpenSetClear(points))
     IN  points' = [a \in DOMAIN kept \cup Locals |->
                      IF a \in DOMAIN kept THEN kept[a]
                      ELSE IF prependable <=> (a = firstPoint) THEN NewPoint(start, None)
                      ELSE NewPoint(end, None)]
  /\ m_points' = {firstPoint} /\ m_value' = <<firstPoint>> /\ m_closedSet' = {}
  /\ path' = <<>>
  /\ pc' = "search"
  /\ UNCHANGED <<p, neighbours>>

(* OpenSet::getBest: m_points looks for the coordinates. *)
GetBest ==
  /\ m_value # <<>>
  /\ m_points' = m_points \ Existing(Head(m_value))
  /\ m_value' = Tail(m_value)

(* The best point is the end point.  There always is a best point, as the grid
   has no borders, so the loop does not end without it. *)
ReachEnd ==
  /\ pc = "search" /\ GetBest
  /\ SameCoordinates(Head(m_value), lastPoint)
  /\ points' = [points EXCEPT ![lastPoint] = points[Head(m_value)]]
  /\ p' = lastPoint
  /\ pc' = "reconstruct"
  /\ UNCHANGED <<m_closedSet, args, neighbours, path>>

(* The best point goes to the closed set, and its neighbours are made. *)
Expand ==
  /\ pc = "search" /\ GetBest
  /\ ~SameCoordinates(Head(m_value), lastPoint)
  /\ p' = Head(m_value)
  /\ m_closedSet' = m_closedSet \cup {p'}
  /\ neighbours' = NewAddresses
  /\ points' = [a \in DOMAIN points \cup {NewAddresses[i] : i \in DOMAIN Moves} |->
                  IF a \in DOMAIN points THEN points[a]
                  ELSE LET move == Moves[a - Max(DOMAIN points)]
                       IN  NewPoint(Plus(points[p'].at, move), p')]
  /\ pc' = "visit"
  /\ UNCHANGED <<args, path>>

(* The turn of the loop for a neighbour is over. *)
NextNeighbour ==
  /\ neighbours' = Tail(neighbours)
  /\ \/ Len(neighbours) > 1 /\ UNCHANGED <<p, pc>>
     \/ Len(neighbours) = 1 /\ p' = None /\ pc' = "search"
  /\ UNCHANGED <<args, path>>

(* neighbour_g_score *)
Score(a) == Plus(points[p].g_score, Distance(points[p].at, points[a].at))

(* The neighbour is in the closed set, or in the open set with a score that is
   as good. *)
Discard ==
  /\ pc = "visit"
  /\ LET a == Head(neighbours)
     IN  /\ \/ Closed(a)
            \/ \E q \in Existing(a) : ~Less(Score(a), points[q].g_score)
         /\ points' = Delete(points, {a})
  /\ NextNeighbour
  /\ UNCHANGED <<m_points, m_value, m_closedSet>>

(* Mutant: the point in the open set keeps its origin. *)
ImproveScoreOnly ==
  /\ pc = "visit"
  /\ LET a == Head(neighbours)
     IN  /\ ~Closed(a)
         /\ \E q \in Existing(a) :
              /\ Less(Score(a), points[q].g_score)
              /\ points' = Delete([points EXCEPT ![q].g_score = Score(a)], {a})
  /\ NextNeighbour
  /\ UNCHANGED <<m_points, m_value, m_closedSet>>

(* It is in the open set with a worse score: the point there is updated. *)
Improve ==
  /\ pc = "visit"
  /\ LET a == Head(neighbours)
     IN  /\ ~Closed(a)
         /\ \E q \in Existing(a) :
              /\ Less(Score(a), points[q].g_score)
              /\ points' = Delete([points EXCEPT ![q].g_score = Score(a),
                                                 ![q].origin = points[a].origin], {a})
  /\ NextNeighbour
  /\ UNCHANGED <<m_points, m_value, m_closedSet>>

(* It is in neither set. *)
Add ==
  /\ pc = "visit"
  /\ LET a == Head(neighbours)
     IN  /\ ~Closed(a) /\ Existing(a) = {}
         /\ points' = [points EXCEPT ![a].g_score = Score(a)]
         /\ OpenSetInsert(a)
  /\ NextNeighbour
  /\ UNCHANGED m_closedSet

(* push_front or push_back. *)
InsertIntoPath(at) == IF args.prependable THEN <<at>> \o path ELSE Append(path, at)

(* One turn of the loop of reconstruct_path. *)
Reconstruct ==
  /\ pc = "reconstruct" /\ p # None
  /\ path' = InsertIntoPath(points[p].at)
  /\ p' = points[p].origin
  /\ UNCHANGED <<points, m_points, m_value, m_closedSet, pc, args, neighbours>>

(* route returns; firstPoint and lastPoint do not exist any more. *)
Return ==
  /\ pc = "reconstruct" /\ p = None
  /\ points' = Delete(points, Locals)
  /\ pc' = "idle"
  /\ UNCHANGED <<m_points, m_value, m_closedSet, args, p, neighbours, path>>

Next ==
  \/ \E a \in Arguments, prependable \in Prependable : CallRoute(a[1], a[2], prependable)
  \/ ReachEnd \/ Expand
  \/ Discard \/ Improve \/ Add
  \/ Reconstruct \/ Return

Spec == Init /\ [][Next]_vars

-----------------------------------------------------------------------------
(* Every variable stays in the set it is meant for; the one type invariant of
   this module. *)
TypeOK ==
  LET Coordinates == Int \X Int
      Address == Nat \ {0}
  IN  /\ DOMAIN points \subseteq Address
      /\ \A a \in DOMAIN points :
           points[a] \in [at : Coordinates, g_score : Nat \X Nat, origin : Address \cup {None}]
      /\ m_points \subseteq Address
      /\ m_value \in Seq(Address)
      /\ m_closedSet \subseteq Address
      /\ pc \in {"idle", "search", "visit", "reconstruct"}
      /\ args \in [start : Coordinates, end : Coordinates, prependable : BOOLEAN] \cup {None}
      /\ p \in Address \cup {None}
      /\ neighbours \in Seq(Address)
      /\ path \in Seq(Coordinates)

(* The two containers of the open set keep the same points (the asserts of
   std_types.hpp:125, 157 and 162), once each, of different coordinates, and are
   never empty before the end is found. *)
OpenSetConsistent ==
  /\ {m_value[i] : i \in DOMAIN m_value} = m_points
  /\ Len(m_value) = Cardinality(m_points)
  /\ m_points \subseteq DOMAIN points \/ pc = "idle"
  /\ pc # "idle" => \A q, r \in m_points : SameCoordinates(q, r) => q = r
  /\ pc = "search" => m_value # <<>>

(* The origin of a point that is used is a closed point, which nobody deletes or updates
   any more, and the point's score is that of its origin and the way from it,
   also after an update of a point that is in the open set (base.hpp:190). *)
ScoresMatchOrigins ==
  pc # "idle" =>
    \A a \in m_points \cup m_closedSet \cup (IF pc = "reconstruct" THEN {lastPoint} ELSE {}) :
      LET o == points[a].origin
      IN  IF o = None THEN points[a].g_score = <<0, 0>>
          ELSE /\ o \in m_closedSet /\ o \in DOMAIN points
               /\ points[a].g_score = Plus(points[o].g_score, Distance(points[o].at, points[a].at))

Abs(n) == IF n < 0 THEN -n ELSE n

(* How many steps, and how many diagonal ones, a shortest way takes. *)
Steps(c, d) == Max({Abs(c[1] - d[1]), Abs(c[2] - d[2])})
Diagonals(c, d) == Min({Abs(c[1] - d[1]), Abs(c[2] - d[2])})

(* What route returns leads from the start to the end by neighbouring points and
   is as short as can be, although points are taken by age and not by score, for
   both kinds of containers (base.hpp:106). *)
PathIsShortest ==
  pc = "idle" /\ args # None =>
    /\ path # <<>> /\ path[1] = args.start /\ path[Len(path)] = args.end
    /\ \A i \in 1 .. Len(path) - 1 : Steps(path[i], path[i + 1]) = 1
    /\ Len(path) = 1 + Steps(args.start, args.end)
    /\ Cardinality({i \in 1 .. Len(path) - 1 : Diagonals(path[i], path[i + 1]) = 1})
         = Diagonals(args.start, args.end)

(* The search ends: although ClosedSet keeps no point from being added again
   (std_types.hpp:199), not more points are closed than the squares around the
   start up to the distance of the end hold, 1 + 9 + 25 + ... *)
SearchIsBounded ==
  pc # "idle" =>
    LET d == Steps(args.start, args.end)
    IN  Cardinality(m_closedSet) <= ((d + 1) * (2 * d + 1) * (2 * d + 3)) \div 3

=============================================================================
