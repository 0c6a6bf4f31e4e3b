----------------------------- MODULE TSResource -----------------------------
(***************************************************************************)
(* ol::ThreadSafeResource<T> of src/putils/ts_resource.hpp: an object that *)
(* is reached only through an Accessor, which owns the object's mutex by a *)
(* unique_lock, can be moved, and on destruction first unlocks the mutex   *)
(* and then tells an INotify about it.                                     *)
(*                                                                         *)
(* There are several resources because a move assignment may replace the   *)
(* Accessor of one by the Accessor of another.  A thread keeps its         *)
(* Accessors in slots (its local variables) and hands none to another      *)
(* thread, which std::mutex forbids.  The threads are legal clients: none  *)
(* locks a resource it has locked, and none starts to lock a resource      *)
(* whose destructor has begun.                                             *)
(***************************************************************************)
EXTENDS Integers, FiniteSets

CONSTANTS
  Threads, Resources,
  Slots,        (* the variables in which a thread keeps Accessors         *)
  Notifiers,    (* the INotify objects                                     *)
  Overwrites,   (* whether clients assign to Accessors that own a resource *)
  None

ASSUME TSResourceAssumption ==
  /\ IsFiniteSet(Threads) /\ IsFiniteSet(Slots)
  /\ Overwrites \in BOOLEAN
  /\ None \notin Threads \cup Resources \cup Slots \cup Notifiers

VARIABLES
  m_mutex,      (* of each resource: the thread that owns its mutex        *)
  alive,        (* the resources that are not destroyed                    *)
  accessors,    (* of each thread: its Accessors by slot                   *)
  pc,           (* where each thread is                                    *)
  frame,        (* the arguments of the call the thread is in              *)
  owed          (* of each INotify: how many calls of unlocked() are due   *)

vars == <<m_mutex, alive, accessors, pc, frame, owed>>

(* m_lock and m_object are identified with the resource they belong to; made
   is FALSE for a slot without an Accessor in it. *)
Accessor == [made : BOOLEAN, m_lock : Resources \cup {None}, m_object : Resources \cup {None},
             m_notify : Notifiers \cup {None}]

(* Accessor(), and an Accessor that was moved from. *)
Invalid == [made |-> TRUE, m_lock |-> None, m_object |-> None, m_notify |-> None]

Vacant == [Invalid EXCEPT !.made = FALSE]

(* The Accessor made from an owning unique_lock. *)
Owning(r, n) == [made |-> TRUE, m_lock |-> r, m_object |-> r, m_notify |-> n]

Labels == {"idle", "lock", "notify", "destroy"}

Frames == [resource : Resources \cup {None}, slot : Slots \cup {None},
           notify : Notifiers \cup {None}]

NoFrame == [resource |-> None, slot |-> None, notify |-> None]

Init ==
  /\ m_mutex = [r \in Resources |-> None]
  /\ alive = Resources
  /\ accessors = [t \in Threads |-> [s \in Slots |-> Vacant]]
  /\ pc = [t \in Threads |-> "idle"]
  /\ frame = [t \in Threads |-> NoFrame]
  /\ owed = [n \in Notifiers |-> 0]

-----------------------------------------------------------------------------
Idle(t) == pc[t] = "idle"

(* The resource can be used: it exists and is not being destroyed. *)
Usable(r) ==
  r \in alive /\ ~\E t \in Threads : pc[t] = "destroy" /\ frame[t].resource = r

Put(t, s, a) == accessors' = [accessors EXCEPT ![t][s] = a]

(* unique_lock lets go of the mutex it owns, if any. *)
Release(lock) == m_mutex' = [r \in Resources |-> IF r = lock THEN None ELSE m_mutex[r]]

-----------------------------------------------------------------------------
(* The actions of a thread t. *)

(* lock() and, with n # None, the lock() that takes an INotify. *)
CallLock(t, r, s, n) ==
  /\ Idle(t) /\ Usable(r) /\ m_mutex[r] # t /\ ~accessors[t][s].made
  /\ pc' = [pc EXCEPT ![t] = "lock"]
  /\ frame' = [frame EXCEPT ![t] = [resource |-> r, slot |-> s, notify |-> n]]
  /\ UNCHANGED <<m_mutex, alive, accessors, owed>>

(* The mutex is free: the Accessor is made, told whom to notify, returned. *)
Acquire(t) ==
  /\ pc[t] = "lock" /\ m_mutex[frame[t].resource] = None
  /\ m_mutex' = [m_mutex EXCEPT ![frame[t].resource] = t]
  /\ Put(t, frame[t].slot, Owning(frame[t].resource, frame[t].notify))
  /\ owed' = [n \in Notifiers |-> IF n = frame[t].notify THEN owed[n] + 1 ELSE owed[n]]
  /\ pc' = [pc EXCEPT ![t] = "idle"]
  /\ frame' = [frame EXCEPT ![t] = NoFrame]
  /\ UNCHANGED alive

TryLockSucceeds(t, r, s) ==
  /\ Idle(t) /\ Usable(r) /\ ~accessors[t][s].made
  /\ m_mutex[r] = None
  /\ m_mutex' = [m_mutex EXCEPT ![r] = t]
  /\ Put(t, s, Owning(r, None))
  /\ UNCHANGED <<alive, pc, frame, owed>>

(* std::mutex::try_lock may fail although the mutex is free. *)
TryLockFails(t, r, s) ==
  /\ Idle(t) /\ Usable(r) /\ m_mutex[r] # t /\ ~accessors[t][s].made
  /\ Put(t, s, Invalid)
  /\ UNCHANGED <<m_mutex, alive, pc, frame, owed>>

(* Accessor(). *)
Default(t, s) ==
  /\ Idle(t) /\ ~accessors[t][s].made
  /\ Put(t, s, Invalid)
  /\ UNCHANGED <<m_mutex, alive, pc, frame, owed>>

(* Mutant: the Accessor that was moved from keeps m_notify. *)
MoveConstructKeepingNotify(t, s, d) ==
  /\ Idle(t) /\ accessors[t][s].made /\ ~accessors[t][d].made
  /\ accessors' = [accessors EXCEPT
                     ![t][d] = accessors[t][s],
                     ![t][s] = [Invalid EXCEPT !.m_notify = accessors[t][s].m_notify]]
  /\ UNCHANGED <<m_mutex, alive, pc, frame, owed>>

(* Mutant: m_notify is not moved. *)
MoveConstructDroppingNotify(t, s, d) ==
  /\ Idle(t) /\ accessors[t][s].made /\ ~accessors[t][d].made
  /\ accessors' = [accessors EXCEPT ![t][d] = [accessors[t][s] EXCEPT !.m_notify = None],
                                    ![t][s] = Invalid]
  /\ UNCHANGED <<m_mutex, alive, pc, frame, owed>>

(* Accessor(Accessor&&), from slot s to slot d. *)
MoveConstruct(t, s, d) ==
  /\ Idle(t) /\ accessors[t][s].made /\ ~accessors[t][d].made
  /\ accessors' = [accessors EXCEPT ![t][d] = accessors[t][s], ![t][s] = Invalid]
  /\ UNCHANGED <<m_mutex, alive, pc, frame, owed>>

(* Mutant: the Accessor that was moved from keeps m_object. *)
MoveAssignKeepingObject(t, s, d) ==
  /\ Idle(t) /\ s # d /\ accessors[t][s].made /\ accessors[t][d].made
  /\ Overwrites \/ accessors[t][d].m_lock = None
  /\ Release(accessors[t][d].m_lock)
  /\ accessors' = [accessors EXCEPT
                     ![t][d] = accessors[t][s],
                     ![t][s] = [Invalid EXCEPT !.m_object = accessors[t][s].m_object]]
  /\ UNCHANGED <<alive, pc, frame, owed>>

(* operator=(Accessor&&): the target's m_lock releases what it owned, and
   nobody is told. *)
MoveAssign(t, s, d) ==
  /\ Idle(t) /\ s # d /\ accessors[t][s].made /\ accessors[t][d].made
  /\ Overwrites \/ accessors[t][d].m_lock = None
  /\ Release(accessors[t][d].m_lock)
  /\ accessors' = [accessors EXCEPT ![t][d] = accessors[t][s], ![t][s] = Invalid]
  /\ UNCHANGED <<alive, pc, frame, owed>>

(* Mutant: unique_lock::release instead of unlock. *)
DestructWithoutUnlock(t, s) ==
  /\ Idle(t) /\ accessors[t][s].made
  /\ Put(t, s, Vacant)
  /\ \/ /\ accessors[t][s].m_notify = None
        /\ UNCHANGED <<pc, frame>>
     \/ /\ accessors[t][s].m_notify # None
        /\ pc' = [pc EXCEPT ![t] = "notify"]
        /\ frame' = [frame EXCEPT ![t] = [resource |-> accessors[t][s].m_lock, slot |-> None,
                                          notify |-> accessors[t][s].m_notify]]
  /\ UNCHANGED <<m_mutex, alive, owed>>

(* ~Accessor, as far as the unlock. *)
Destruct(t, s) ==
  /\ Idle(t) /\ accessors[t][s].made
  /\ Release(accessors[t][s].m_lock)
  /\ Put(t, s, Vacant)
  /\ \/ /\ accessors[t][s].m_notify = None
        /\ UNCHANGED <<pc, frame>>
     \/ /\ accessors[t][s].m_notify # None
        /\ pc' = [pc EXCEPT ![t] = "notify"]
        /\ frame' = [frame EXCEPT ![t] = [resource |-> accessors[t][s].m_lock, slot |-> None,
                                          notify |-> accessors[t][s].m_notify]]
  /\ UNCHANGED <<alive, owed>>

(* ~Accessor calls unlocked(). *)
Unlocked(t) ==
  /\ pc[t] = "notify"
  /\ owed' = [owed EXCEPT ![frame[t].notify] = @ - 1]
  /\ pc' = [pc EXCEPT ![t] = "idle"]
  /\ frame' = [frame EXCEPT ![t] = NoFrame]
  /\ UNCHANGED <<m_mutex, alive, accessors>>

(* ~ThreadSafeResource begins; no call of lock() is under way. *)
CallDestroy(t, r) ==
  /\ Idle(t) /\ Usable(r) /\ m_mutex[r] # t
  /\ ~\E u \in Threads : pc[u] = "lock" /\ frame[u].resource = r
  /\ pc' = [pc EXCEPT ![t] = "destroy"]
  /\ frame' = [frame EXCEPT ![t] = [resource |-> r, slot |-> None, notify |-> None]]
  /\ UNCHANGED <<m_mutex, alive, accessors, owed>>

(* Mutant: the destructor of the resource does not lock. *)
DestroyAtOnce(t) ==
  /\ pc[t] = "destroy"
  /\ alive' = alive \ {frame[t].resource}
  /\ pc' = [pc EXCEPT ![t] = "idle"]
  /\ frame' = [frame EXCEPT ![t] = NoFrame]
  /\ UNCHANGED <<m_mutex, accessors, owed>>

(* ~ThreadSafeResource has locked the mutex, unlocks it and returns. *)
Destroy(t) ==
  /\ pc[t] = "destroy" /\ m_mutex[frame[t].resource] = None
  /\ alive' = alive \ {frame[t].resource}
  /\ pc' = [pc EXCEPT ![t] = "idle"]
  /\ frame' = [frame EXCEPT ![t] = NoFrame]
  /\ UNCHANGED <<m_mutex, accessors, owed>>

Use(t, s) ==
  \/ \E r \in Resources : \/ \E n \in Notifiers \cup {None} : CallLock(t, r, s, n)
                          \/ TryLockSucceeds(t, r, s) \/ TryLockFails(t, r, s)
  \/ Default(t, s)
  \/ \E d \in Slots : MoveConstruct(t, s, d) \/ MoveAssign(t, s, d)
  \/ Destruct(t, s)

Next ==
  \E t \in Threads :
    \/ \E s \in Slots : Use(t, s)
    \/ Acquire(t) \/ Unlocked(t) \/ Destroy(t)
    \/ \E r \in Resources : CallDestroy(t, r)

Spec == Init /\ [][Next]_vars

-----------------------------------------------------------------------------
(* Every variable stays in the set it is meant for; the one type invariant of
   this module. *)
TypeOK ==
  /\ m_mutex \in [Resources -> Threads \cup {None}]
  /\ alive \subseteq Resources
  /\ accessors \in [Threads -> [Slots -> Accessor]]
  /\ pc \in [Threads -> Labels]
  /\ frame \in [Threads -> Frames]
  /\ owed \in [Notifiers -> Nat]

(* The Accessors that own resource r. *)
Owners(r) == {o \in Threads \X Slots : accessors[o[1]][o[2]].m_lock = r}

(* "exclusive access to resource" (ts_resource.hpp:37): an Accessor and its
   copies by move never make two owners of one resource, the owner is with the
   thread that holds the mutex, and a mutex that is held has an owner that
   will release it. *)
Exclusive ==
  \A r \in Resources :
    /\ (\A o, p \in Owners(r) : o = p)
    /\ \A t \in Threads : m_mutex[r] = t <=> (\E s \in Slots : <<t, s>> \in Owners(r))

(* is_valid() "returns true when Accessor holds resource" (ts_resource.hpp:129)
   whatever it was made from and assigned to: the object can be reached exactly
   as long as the mutex is owned. *)
ValidWhileLocked ==
  \A t \in Threads, s \in Slots : accessors[t][s].m_object = accessors[t][s].m_lock

(* Who will still call unlocked() of n: Accessors, and destructors that have
   unlocked. *)
Debtors(n) ==
  {o \in Threads \X Slots : accessors[o[1]][o[2]].m_notify = n}
    \cup {t \in Threads : pc[t] = "notify" /\ frame[t].notify = n} \X {None}

(* Every lock() with an INotify is followed by one call of unlocked(), not by none and
   not by two ("will be called on it", ts_resource.hpp:81, and line 176). *)
EveryUnlockNotified == \A n \in Notifiers : owed[n] = Cardinality(Debtors(n))

(* unlocked() may lock the resource again: its thread does not hold it any
   more (ts_resource.hpp:85 to 89). *)
NotifierMayLock ==
  \A t \in Threads : pc[t] = "notify" /\ frame[t].resource # None => m_mutex[frame[t].resource] # t

(* "destructor will wait until resource is released" (ts_resource.hpp:156):
   no Accessor reaches a destroyed object. *)
NoAccessorOutlives ==
  \A t \in Threads, s \in Slots : accessors[t][s].m_object \in alive \cup {None}

=============================================================================
