------------------------------ MODULE DataPtr -------------------------------
(***************************************************************************)
(* data_ptr<T> of src/utils/data_ptr.hpp: a pointer that owns its object    *)
(* and copies it when it is copied itself.                                 *)
(*                                                                         *)
(* The pointers that clients hand over own an object that no data_ptr has, *)
(* and a deleter and a copier that are given together fit: the deleter     *)
(* releases what the copier makes, as delete does with new.  Such a pair   *)
(* is a kind.  Objects are addresses, and new may return the address of an *)
(* object that was deleted.  There is no assignment that moves; assigning  *)
(* a temporary copies.                                                     *)
(*                                                                         *)
(* A deleter does nothing with nullptr.  To call it with an object of      *)
(* another kind or with one that is gone, and to read or change one that   *)
(* is gone, is undefined: the model stops there.                           *)
(***************************************************************************)
CONSTANTS
  Ptrs,           (* the variables of type data_ptr<T>                     *)
  Objects,        (* addresses; bounds how many objects of type T exist    *)
  Kinds,          (* deleters with the copiers that fit them               *)
  Values,         (* what objects contain                                  *)
  DefaultValue,   (* ... after T()                                         *)
  None            (* nullptr, or no data_ptr                               *)

(* A data_ptr. *)
DataPtrs == [m_ptr : Objects \cup {None}, m_deleter : Kinds, m_copier : Kinds]

ASSUME DataPtrAssumption ==
  /\ DefaultValue \in Values
  /\ None \notin Objects \cup DataPtrs
  /\ {"unmade", "empty", "broken"} \cap Values = {}

VARIABLES
  ptrs,           (* the data_ptr in each variable, or None                *)
  objects,        (* the objects that exist                                *)
  (* History, which no step depends on but that nothing follows undefined: *)
  spoiled,        (* addresses with which copy() has left a data_ptr after *)
                  (* the copier threw, or called another's deleter         *)
  undefined       (* the address that undefined behaviour was met with     *)

vars == <<ptrs, objects, spoiled, undefined>>

Init ==
  /\ ptrs = [p \in Ptrs |-> None]
  /\ objects = [o \in {} |-> o]
  /\ spoiled = {}
  /\ undefined = None

-----------------------------------------------------------------------------
(* The heap after something was done: new T, a deleter, a copier. *)

Create(heap, o, value, kind) ==
  [a \in DOMAIN heap \cup {o} |-> IF a = o THEN [value |-> value, kind |-> kind] ELSE heap[a]]

Release(heap, o) == [a \in DOMAIN heap \ {o} |-> heap[a]]

CopyInto(heap, o, from, copier) ==
  Create(heap, o, IF from = None THEN DefaultValue ELSE heap[from].value, copier)

(* Addresses that new may return. *)
Free(heap) == Objects \ DOMAIN heap

(* What a deleter, and a copier, may be called with. *)
Deletable(heap, o, deleter) == o = None \/ (o \in DOMAIN heap /\ heap[o].kind = deleter)

Readable(heap, o) == o \in DOMAIN heap \cup {None}

-----------------------------------------------------------------------------
Exists(p) == ptrs[p] # None

Defined == UNCHANGED <<spoiled, undefined>>

Undefined(o) == undefined' = o /\ UNCHANGED <<ptrs, objects>>

(* The constructor, with an object or with nullptr. *)
Construct(p, kind) ==
  /\ ~Exists(p)
  /\ \/ \E o \in Free(objects), value \in Values :
          /\ objects' = Create(objects, o, value, kind)
          /\ ptrs' = [ptrs EXCEPT ![p] = [m_ptr |-> o, m_deleter |-> kind, m_copier |-> kind]]
     \/ /\ ptrs' = [ptrs EXCEPT ![p] = [m_ptr |-> None, m_deleter |-> kind, m_copier |-> kind]]
        /\ UNCHANGED objects
  /\ Defined

(* Mutant: the copy has no deleter, as before copy(). *)
CopyWithoutDeleter(p, q) ==
  /\ ~Exists(p) /\ Exists(q) /\ Readable(objects, ptrs[q].m_ptr)
  /\ \E o \in Free(objects) :
       /\ objects' = CopyInto(objects, o, ptrs[q].m_ptr, ptrs[q].m_copier)
       /\ ptrs' = [ptrs EXCEPT ![p] = [m_ptr |-> o, m_deleter |-> None, m_copier |-> None]]
  /\ Defined

(* The constructor that copies.  If the copier throws there is no data_ptr. *)
CopyConstruct(p, q) ==
  /\ ~Exists(p) /\ Exists(q)
  /\ IF Readable(objects, ptrs[q].m_ptr)
     THEN /\ \E o \in Free(objects) :
               /\ objects' = CopyInto(objects, o, ptrs[q].m_ptr, ptrs[q].m_copier)
               /\ ptrs' = [ptrs EXCEPT ![p] = [ptrs[q] EXCEPT !.m_ptr = o]]
          /\ Defined
     ELSE Undefined(ptrs[q].m_ptr) /\ UNCHANGED spoiled

(* Mutant: the other data_ptr keeps the object. *)
MoveAndKeep(p, q) ==
  /\ ~Exists(p) /\ Exists(q)
  /\ ptrs' = [ptrs EXCEPT ![p] = ptrs[q]]
  /\ UNCHANGED objects /\ Defined

(* The constructor that moves. *)
MoveConstruct(p, q) ==
  /\ ~Exists(p) /\ Exists(q)
  /\ ptrs' = [ptrs EXCEPT ![p] = ptrs[q], ![q].m_ptr = None]
  /\ UNCHANGED objects /\ Defined

(* The destructor: del() with whatever there is. *)
Destruct(p) ==
  /\ Exists(p)
  /\ IF Deletable(objects, ptrs[p].m_ptr, ptrs[p].m_deleter)
     THEN /\ objects' = Release(objects, ptrs[p].m_ptr)
          /\ ptrs' = [ptrs EXCEPT ![p] = None]
          /\ Defined
     ELSE Undefined(ptrs[p].m_ptr) /\ UNCHANGED spoiled

(* operator= for a T* : nullptr, the pointer that p has, which changes nothing, or
   an object that the client has just made.  New may have returned the address of
   an object of p that is gone, which is the one p has, too. *)
Assign(p, ptr, value) ==
  /\ Exists(p)
  /\ ptr \in Free(objects) \cup {None}
  /\ LET given == IF ptr = None THEN objects ELSE Create(objects, ptr, value, ptrs[p].m_deleter)
     IN  IF ptr = ptrs[p].m_ptr THEN objects' = given /\ UNCHANGED ptrs /\ Defined
         ELSE IF Deletable(objects, ptrs[p].m_ptr, ptrs[p].m_deleter)
              THEN /\ objects' = Release(given, ptrs[p].m_ptr)
                   /\ ptrs' = [ptrs EXCEPT ![p].m_ptr = ptr]
                   /\ Defined
              ELSE Undefined(ptrs[p].m_ptr) /\ UNCHANGED spoiled

-----------------------------------------------------------------------------
(* operator=(const data_ptr &), which of itself does nothing: copy() takes the
   deleter and the copier of q, calls that deleter and then that copier. *)

CanAssign(p, q) == p # q /\ Exists(p) /\ Exists(q)

AfterDel(p) == Release(objects, ptrs[p].m_ptr)

(* Mutant: the deleter is not taken. *)
CopyAssignKeepingDeleter(p, q) ==
  /\ CanAssign(p, q)
  /\ Deletable(objects, ptrs[p].m_ptr, ptrs[p].m_deleter)
  /\ Readable(AfterDel(p), ptrs[q].m_ptr)
  /\ \E o \in Free(AfterDel(p)) :
       /\ objects' = CopyInto(AfterDel(p), o, ptrs[q].m_ptr, ptrs[q].m_copier)
       /\ ptrs' = [ptrs EXCEPT ![p] = [@ EXCEPT !.m_ptr = o, !.m_copier = ptrs[q].m_copier]]
  /\ Defined

(* Mutant: the assignment moves. *)
MoveAssign(p, q) ==
  /\ CanAssign(p, q)
  /\ Deletable(objects, ptrs[p].m_ptr, ptrs[q].m_deleter)
  /\ objects' = AfterDel(p)
  /\ ptrs' = [ptrs EXCEPT ![p] = ptrs[q], ![q].m_ptr = None]
  /\ Defined

CopyAssign(p, q) ==
  /\ CanAssign(p, q)
  /\ Deletable(objects, ptrs[p].m_ptr, ptrs[q].m_deleter)
  /\ Readable(AfterDel(p), ptrs[q].m_ptr)
  /\ \E o \in Free(AfterDel(p)) :
       /\ objects' = CopyInto(AfterDel(p), o, ptrs[q].m_ptr, ptrs[q].m_copier)
       /\ ptrs' = [ptrs EXCEPT ![p] = [ptrs[q] EXCEPT !.m_ptr = o]]
  /\ Defined

(* The copier throws, before it reads or later: m_ptr is still the address of the
   object that was deleted. *)
CopyAssignThrows(p, q) ==
  /\ CanAssign(p, q)
  /\ Deletable(objects, ptrs[p].m_ptr, ptrs[q].m_deleter)
  /\ objects' = AfterDel(p)
  /\ ptrs' = [ptrs EXCEPT ![p] = [ptrs[q] EXCEPT !.m_ptr = ptrs[p].m_ptr]]
  /\ spoiled' = spoiled \cup ({ptrs[p].m_ptr} \ {None})
  /\ UNCHANGED undefined

(* The object of p is not one for the deleter of q, or is gone. *)
CopyAssignDelUndefined(p, q) ==
  /\ CanAssign(p, q)
  /\ ~Deletable(objects, ptrs[p].m_ptr, ptrs[q].m_deleter)
  /\ Undefined(ptrs[p].m_ptr)
  /\ spoiled' = spoiled \cup {o \in {ptrs[p].m_ptr} : ptrs[p].m_deleter # ptrs[q].m_deleter}

(* The object of q is gone. *)
CopyAssignReadUndefined(p, q) ==
  /\ CanAssign(p, q)
  /\ Deletable(objects, ptrs[p].m_ptr, ptrs[q].m_deleter)
  /\ ~Readable(AfterDel(p), ptrs[q].m_ptr)
  /\ Undefined(ptrs[q].m_ptr)
  /\ UNCHANGED spoiled

-----------------------------------------------------------------------------
(* The client changes the object, through p or through the pointer it has given. *)
Modify(p, value) ==
  /\ Exists(p) /\ ptrs[p].m_ptr # None
  /\ IF ptrs[p].m_ptr \in DOMAIN objects
     THEN /\ objects' = [objects EXCEPT ![ptrs[p].m_ptr].value = value]
          /\ UNCHANGED ptrs /\ Defined
     ELSE Undefined(ptrs[p].m_ptr) /\ UNCHANGED spoiled

Next ==
  /\ undefined = None
  /\ \E p \in Ptrs :
       \/ \E kind \in Kinds : Construct(p, kind)
       \/ \E q \in Ptrs : \/ CopyConstruct(p, q) \/ MoveConstruct(p, q)
                          \/ CopyAssign(p, q) \/ CopyAssignThrows(p, q)
                          \/ CopyAssignDelUndefined(p, q) \/ CopyAssignReadUndefined(p, q)
       \/ \E value \in Values : \/ Modify(p, value)
                                \/ \E ptr \in Objects \cup {None} : Assign(p, ptr, value)
       \/ Destruct(p)

Spec == Init /\ [][Next]_vars

-----------------------------------------------------------------------------
(* Every variable stays in the set it is meant for; the one type invariant of
   this module. *)
TypeOK ==
  /\ ptrs \in [Ptrs -> DataPtrs \cup {None}]
  /\ DOMAIN objects \subseteq Objects
  /\ objects \in [DOMAIN objects -> [value : Values, kind : Kinds]]
  /\ spoiled \subseteq Objects
  /\ undefined \in Objects \cup {None}

(* The data_ptrs that have object o. *)
Owners(o) == {p \in Ptrs : Exists(p) /\ ptrs[p].m_ptr = o}

(* Nothing leaks: an object is always left with a data_ptr.  And but for the
   addresses that copy() has spoiled, what a data_ptr points to exists and no two
   point to the same, whatever is copied, moved, assigned and destroyed
   (data_ptr.hpp:41, 142 to 175).  A spoiled address is one that new may give to
   another data_ptr. *)
OneOwner ==
  /\ \A o \in DOMAIN objects : Owners(o) # {}
  /\ \A o \in Objects \ spoiled : /\ Owners(o) # {} => o \in DOMAIN objects
                                  /\ \A p, q \in Owners(o) : p = q

(* Nothing is deleted twice, deleted by the wrong deleter or used after it was
   deleted, unless a copy() threw or called another's deleter before, and then
   only at that address: deleters and copiers come from elsewhere with each copy
   (data_ptr.hpp:145) and still are the ones for the object. *)
OnlySpoiledHurts == undefined # None => undefined \in spoiled

(* The value of a data_ptr is that of its object. *)
ValueOf(p) ==
  IF ptrs[p] = None THEN "unmade"
  ELSE IF ptrs[p].m_ptr = None THEN "empty"
  ELSE IF ptrs[p].m_ptr \in spoiled THEN "broken"
  ELSE objects[ptrs[p].m_ptr].value

ValuesOfPtrs == [p \in Ptrs |-> ValueOf(p)]

Variables == INSTANCE ValueSemantics
  WITH values <- ValuesOfPtrs, failed <- spoiled # {},
       Unmade <- "unmade", Empty <- "empty", Broken <- "broken"

(* Objects are copied and not shared: data_ptrs are variables with values of their
   own (data_ptr.hpp:31), which only what is done with them changes.  The exceptions
   are the data_ptr whose copy() threw and, after that, those that get its address:
   they may see and delete each other's object, but no other data_ptr's. *)
ActsAsVariables == Variables!Spec

=============================================================================
