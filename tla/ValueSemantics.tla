--------------------------- MODULE ValueSemantics ---------------------------
(***************************************************************************)
(* What data_ptr promises (src/utils/data_ptr.hpp, lines 29 to 34): it is a *)
(* variable with a value of its own, or none.  There are neither objects   *)
(* nor pointers here, so nothing a variable does is seen by another.       *)
(*                                                                         *)
(* A copy that fails breaks the variable it was for, and from then on any  *)
(* variable that is given a value may get a broken one instead, which says *)
(* nothing of what it contains.  The others keep theirs.                   *)
(***************************************************************************)
CONSTANTS
  Ptrs,           (* the variables *)
  Values,
  DefaultValue,   (* what T() makes *)
  Unmade,         (* a variable before its constructor and after its destructor *)
  Empty,          (* a variable without a value *)
  Broken          (* a variable that no value can be relied on *)

VARIABLES
  values,
  failed          (* has a copy failed? *)

vars == <<values, failed>>

Init == values = [p \in Ptrs |-> Unmade] /\ failed = FALSE

Set(p, value) == values' = [values EXCEPT ![p] = value] /\ UNCHANGED failed

(* A constructor, or an assignment of a value or of nothing. *)
Give(p, value) == Set(p, value)

(* A constructor or an assignment from another variable.  The copy of nothing
   is T(). *)
Copy(p, q) ==
  /\ p # q /\ values[q] # Unmade
  /\ \E value \in Values :
       /\ values[q] = Empty => value = DefaultValue
       /\ values[q] \in Values => value = values[q]
       /\ Set(p, value)

(* The copy fails: the old value, if there was one, is lost. *)
CopyFails(p, q) ==
  /\ p # q /\ values[p] \in Values \cup {Broken} /\ values[q] # Unmade
  /\ values' = [values EXCEPT ![p] = Broken]
  /\ failed' = TRUE

(* A variable is given a value but cannot be relied on. *)
GiveBroken(p) == failed /\ Set(p, Broken)

(* The constructor that moves: the other variable has no value any more. *)
Move(p, q) ==
  /\ values[p] = Unmade /\ values[q] # Unmade
  /\ values' = [values EXCEPT ![p] = values[q], ![q] = Empty]
  /\ UNCHANGED failed

Destroy(p) == values[p] # Unmade /\ Set(p, Unmade)

Next ==
  \E p \in Ptrs :
    \/ \E value \in Values \cup {Empty} : Give(p, value)
    \/ \E q \in Ptrs : Copy(p, q) \/ CopyFails(p, q) \/ Move(p, q)
    \/ GiveBroken(p)
    \/ Destroy(p)

Spec == Init /\ [][Next]_vars
=============================================================================
