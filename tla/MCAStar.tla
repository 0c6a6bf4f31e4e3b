------------------------------ MODULE MCAStar -------------------------------
(* Ways from the origin to coordinates near it: one or more in each of the
   eight directions, in the directions between them, and on the spot. *)
EXTENDS AStar

CONSTANT Radius

Targets == (-Radius .. Radius) \X (-Radius .. Radius)

Near == {<< <<0, 0>>, t >> : t \in Targets}
=============================================================================
