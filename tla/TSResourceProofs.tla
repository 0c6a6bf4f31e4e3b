-------------------------- MODULE TSResourceProofs --------------------------
(***************************************************************************)
(* Theorems about TSResource, for any number of threads, resources, slots  *)
(* and INotify objects.  Only NotifiedOnce needs that clients do not       *)
(* assign to Accessors that own a resource.                                *)
(*                                                                         *)
(* First come the mutexes and who owns them (IInv), then the notifications *)
(* that are due (DebtInv).                                                 *)
(***************************************************************************)
EXTENDS TSResource, FiniteSetTheorems, TLAPS

(* TypeOK but for the number of notifications due. *)
Types ==
  /\ m_mutex \in [Resources -> Threads \cup {None}]
  /\ alive \subseteq Resources
  /\ accessors \in [Threads -> [Slots -> Accessor]]
  /\ pc \in [Threads -> Labels]
  /\ frame \in [Threads -> Frames]

(* Exclusive, by resource and thread instead of by pairs. *)
OwnerInv ==
  /\ \A t \in Threads, s \in Slots :
       accessors[t][s].m_lock # None => m_mutex[accessors[t][s].m_lock] = t
  /\ \A t \in Threads, s, d \in Slots :
       accessors[t][s].m_lock = accessors[t][d].m_lock /\ accessors[t][s].m_lock # None => s = d
  /\ \A t \in Threads, r \in Resources :
       m_mutex[r] = t => \E s \in Slots : accessors[t][s].m_lock = r

(* A vacant slot has nothing in it, and the slot a call of lock() will fill is
   vacant. *)
SlotInv ==
  /\ \A t \in Threads, s \in Slots : ~accessors[t][s].made => accessors[t][s] = Vacant
  /\ \A t \in Threads :
       pc[t] = "lock" => /\ frame[t].resource \in alive /\ frame[t].slot \in Slots
                         /\ ~accessors[t][frame[t].slot].made
  /\ \A t \in Threads : pc[t] = "destroy" => frame[t].resource \in alive

(* Nobody waits for the lock of a resource that is being destroyed, and only
   one thread destroys it. *)
DestroyInv ==
  \A t, u \in Threads :
    pc[t] = "destroy" /\ pc[u] \in {"lock", "destroy"} /\ frame[u].resource = frame[t].resource
      => t = u

(* The inductive invariant. *)
IInv == Types /\ OwnerInv /\ SlotInv /\ ValidWhileLocked /\ DestroyInv /\ NoAccessorOutlives

(* The parts of a vacant slot. *)
LEMMA VacantFields ==
  /\ Invalid \in Accessor /\ Vacant \in Accessor /\ NoFrame \in Frames
  /\ Invalid.made /\ Invalid.m_lock = None /\ Invalid.m_object = None
  /\ ~Vacant.made /\ Vacant.m_lock = None /\ Vacant.m_object = None
BY DEF Invalid, Vacant, Accessor, NoFrame, Frames

LEMMA InitIInv == Init => IInv
<1> SUFFICES ASSUME Init PROVE IInv
  OBVIOUS
<1> USE DEF Init
<1>1. Types
  BY VacantFields DEF Types, Labels
<1>2. \A t \in Threads, s \in Slots : accessors[t][s] = Vacant
  OBVIOUS
<1>3. OwnerInv /\ SlotInv /\ ValidWhileLocked /\ DestroyInv /\ NoAccessorOutlives
  BY <1>2, VacantFields, TSResourceAssumption
  DEF OwnerInv, SlotInv, ValidWhileLocked, DestroyInv, NoAccessorOutlives, TSResourceAssumption
<1> QED
  BY <1>1, <1>3 DEF IInv

LEMMA NextTypes == IInv /\ [Next]_vars => Types'
<1> SUFFICES ASSUME IInv, [Next]_vars PROVE Types'
  OBVIOUS
<1> USE DEF IInv, Types, Labels
<1>1. CASE UNCHANGED vars
  BY <1>1 DEF vars
<1>2. Invalid \in Accessor /\ Vacant \in Accessor /\ NoFrame \in Frames
  BY VacantFields
<1>3. ASSUME NEW t \in Threads, NEW s \in Slots, NEW r \in Resources,
             NEW n \in Notifiers \cup {None},
             CallLock(t, r, s, n) \/ TryLockSucceeds(t, r, s) \/ TryLockFails(t, r, s)
      PROVE  Types'
  <2>1. Owning(r, None) \in Accessor
    BY DEF Owning, Accessor
  <2>2. CASE CallLock(t, r, s, n)
    <3>1. [resource |-> r, slot |-> s, notify |-> n] \in Frames
      BY DEF Frames
    <3> QED
      BY <2>2, <3>1 DEF CallLock
  <2>3. CASE TryLockSucceeds(t, r, s)
    BY <2>1, <2>3 DEF TryLockSucceeds, Put
  <2>4. CASE TryLockFails(t, r, s)
    BY <1>2, <2>4 DEF TryLockFails, Put
  <2> QED
    BY <1>3, <2>2, <2>3, <2>4
<1>4. ASSUME NEW t \in Threads, NEW s \in Slots, Default(t, s)
      PROVE  Types'
  BY <1>2, <1>4 DEF Default, Put
<1>5. ASSUME NEW t \in Threads, NEW s \in Slots, NEW d \in Slots,
             MoveConstruct(t, s, d) \/ MoveAssign(t, s, d)
      PROVE  Types'
  BY <1>2, <1>5 DEF MoveConstruct, MoveAssign, Release
<1>6. ASSUME NEW t \in Threads, NEW s \in Slots, Destruct(t, s)
      PROVE  Types'
  <2>1. accessors[t][s].m_lock \in Resources \cup {None}
        /\ accessors[t][s].m_notify \in Notifiers \cup {None}
    BY DEF Accessor
  <2>2. accessors' \in [Threads -> [Slots -> Accessor]]
    BY <1>2, <1>6 DEF Destruct, Put
  <2>3. m_mutex' \in [Resources -> Threads \cup {None}] /\ alive' = alive
    BY <1>6 DEF Destruct, Release
  <2>4. [resource |-> accessors[t][s].m_lock, slot |-> None, notify |-> accessors[t][s].m_notify]
          \in Frames
    BY <2>1 DEF Frames
  <2>5. pc' \in [Threads -> Labels] /\ frame' \in [Threads -> Frames]
    BY <1>6, <2>4 DEF Destruct
  <2> QED
    BY <2>2, <2>3, <2>5
<1>7. ASSUME NEW t \in Threads, Acquire(t)
      PROVE  Types'
  BY <1>2, <1>7 DEF Acquire, Put, Owning, Accessor, Frames, SlotInv
<1>8. ASSUME NEW t \in Threads, Unlocked(t) \/ Destroy(t)
      PROVE  Types'
  BY <1>2, <1>8 DEF Unlocked, Destroy
<1>9. ASSUME NEW t \in Threads, NEW r \in Resources, CallDestroy(t, r)
      PROVE  Types'
  BY <1>9 DEF CallDestroy, Frames
<1> QED
  BY <1>1, <1>3, <1>4, <1>5, <1>6, <1>7, <1>8, <1>9 DEF Next, Use

(* What the steps of Accessors keep: they leave pc and frame of the threads
   that lock or destroy alone. *)
Kept == OwnerInv /\ SlotInv /\ ValidWhileLocked /\ DestroyInv /\ NoAccessorOutlives

LEMMA LockKeeps ==
  ASSUME IInv, NEW t \in Threads, NEW s \in Slots, NEW r \in Resources,
         NEW n \in Notifiers \cup {None}, CallLock(t, r, s, n)
  PROVE  Kept'
<1> USE DEF IInv, Types, CallLock, Idle, Usable
<1>1. OwnerInv' /\ ValidWhileLocked' /\ NoAccessorOutlives'
  BY DEF OwnerInv, ValidWhileLocked, NoAccessorOutlives
<1>2. frame'[t].resource = r /\ frame'[t].slot = s
  OBVIOUS
<1>3. \A u \in Threads : u # t => pc'[u] = pc[u] /\ frame'[u] = frame[u]
  OBVIOUS
<1>4. SlotInv'
  BY <1>2, <1>3 DEF SlotInv
<1>5. DestroyInv'
  BY <1>2, <1>3 DEF DestroyInv
<1> QED
  BY <1>1, <1>4, <1>5 DEF Kept

(* An empty Accessor is made: try_lock() fails, or Accessor(). *)
LEMMA InvalidKeeps ==
  ASSUME IInv, NEW t \in Threads, NEW s \in Slots, Idle(t), ~accessors[t][s].made,
         Put(t, s, Invalid), UNCHANGED <<m_mutex, alive, pc, frame>>
  PROVE  Kept'
<1> USE DEF IInv, Types, Idle, Put
<1>1. /\ accessors'[t][s] = Invalid
      /\ \A u \in Threads, d \in Slots :
           u # t \/ d # s => accessors'[u][d] = accessors[u][d]
      /\ m_mutex' = m_mutex /\ alive' = alive /\ pc' = pc /\ frame' = frame
  OBVIOUS
<1>2. accessors[t][s].m_lock = None
  BY VacantFields DEF SlotInv
<1>3. OwnerInv'
  <2>1. \A u \in Threads, q \in Resources :
          m_mutex'[q] = u => \E d \in Slots : accessors'[u][d].m_lock = q
    BY <1>1, <1>2, VacantFields, TSResourceAssumption DEF OwnerInv, TSResourceAssumption
  <2>2. \A u \in Threads, d \in Slots : accessors'[u][d].m_lock = accessors[u][d].m_lock
    BY <1>1, <1>2, VacantFields
  <2>3. \A u \in Threads, d \in Slots :
          accessors'[u][d].m_lock # None => m_mutex'[accessors'[u][d].m_lock] = u
    BY <1>1, <2>2 DEF OwnerInv
  <2>4. \A u \in Threads, d, e \in Slots :
          accessors'[u][d].m_lock = accessors'[u][e].m_lock /\ accessors'[u][d].m_lock # None
            => d = e
    BY <2>2 DEF OwnerInv
  <2> QED
    BY <2>1, <2>3, <2>4 DEF OwnerInv
<1>4. SlotInv'
  <2>1. \A u \in Threads, d \in Slots : ~accessors'[u][d].made => accessors'[u][d] = Vacant
    BY <1>1, VacantFields DEF SlotInv
  <2>2. \A u \in Threads : u # t => accessors'[u] = accessors[u]
    OBVIOUS
  <2>3. pc[t] = "idle"
    OBVIOUS
  <2>4. \A u \in Threads :
          pc'[u] = "lock" => ~accessors'[u][frame'[u].slot].made
    BY <1>1, <2>2, <2>3 DEF SlotInv
  <2> QED
    BY <1>1, <2>1, <2>4 DEF SlotInv
<1>5. ValidWhileLocked'
  BY <1>1, VacantFields DEF ValidWhileLocked
<1>6. DestroyInv'
  BY <1>1 DEF DestroyInv
<1>7. NoAccessorOutlives'
  BY <1>1, VacantFields DEF NoAccessorOutlives
<1> QED
  BY <1>3, <1>4, <1>5, <1>6, <1>7 DEF Kept

LEMMA TryLockKeeps ==
  ASSUME IInv, NEW t \in Threads, NEW s \in Slots, NEW r \in Resources,
         TryLockSucceeds(t, r, s) \/ TryLockFails(t, r, s)
  PROVE  Kept'
<1> USE DEF IInv, Types, Idle, Usable, Put
<1>1. CASE TryLockSucceeds(t, r, s)
  <2> USE <1>1 DEF TryLockSucceeds
  <2>1. /\ accessors'[t][s] = Owning(r, None)
        /\ \A u \in Threads, d \in Slots :
             u # t \/ d # s => accessors'[u][d] = accessors[u][d]
    OBVIOUS
  <2>2. Owning(r, None).m_lock = r /\ Owning(r, None).m_object = r /\ Owning(r, None).made
    BY DEF Owning
  <2>3. m_mutex'[r] = t /\ \A q \in Resources : q # r => m_mutex'[q] = m_mutex[q]
    OBVIOUS
  <2>4. \A u \in Threads, d \in Slots : accessors[u][d].m_lock # r
    BY TSResourceAssumption DEF OwnerInv, TSResourceAssumption
  <2>5. accessors[t][s].m_lock = None
    BY VacantFields DEF SlotInv
  <2>6. \A u \in Threads, d \in Slots : accessors[u][d].m_lock \in Resources \cup {None}
    BY DEF Accessor
  <2>7. OwnerInv'
    <3>1. \A u \in Threads, d \in Slots :
            accessors'[u][d].m_lock # None => m_mutex'[accessors'[u][d].m_lock] = u
      BY <2>1, <2>2, <2>3, <2>4, <2>6 DEF OwnerInv
    <3>2. \A u \in Threads, d, e \in Slots :
            accessors'[u][d].m_lock = accessors'[u][e].m_lock /\ accessors'[u][d].m_lock # None
              => d = e
      BY <2>1, <2>2, <2>4 DEF OwnerInv
    <3>3. \A u \in Threads, q \in Resources :
            m_mutex'[q] = u => \E d \in Slots : accessors'[u][d].m_lock = q
      BY <2>1, <2>2, <2>3, <2>5, TSResourceAssumption DEF OwnerInv, TSResourceAssumption
    <3> QED
      BY <3>1, <3>2, <3>3 DEF OwnerInv
  <2>8. SlotInv'
    BY <2>1, <2>2 DEF SlotInv
  <2>9. ValidWhileLocked' /\ DestroyInv' /\ NoAccessorOutlives'
    BY <2>1, <2>2 DEF ValidWhileLocked, DestroyInv, NoAccessorOutlives
  <2> QED
    BY <2>7, <2>8, <2>9 DEF Kept
<1>2. CASE TryLockFails(t, r, s)
  BY <1>2, InvalidKeeps DEF TryLockFails
<1> QED
  BY <1>1, <1>2

LEMMA MoveKeeps ==
  ASSUME IInv, NEW t \in Threads, NEW s \in Slots, NEW d \in Slots,
         MoveConstruct(t, s, d) \/ MoveAssign(t, s, d)
  PROVE  Kept'
<1> DEFINE old == accessors[t][d].m_lock
<1>1. /\ s # d /\ pc[t] = "idle" /\ accessors[t][s].made
      /\ alive' = alive /\ pc' = pc /\ frame' = frame
  BY DEF MoveConstruct, MoveAssign, Idle
<1>2. /\ accessors'[t][d] = accessors[t][s] /\ accessors'[t][s] = Invalid
      /\ \A u \in Threads, e \in Slots :
           u # t \/ e \notin {s, d} => accessors'[u][e] = accessors[u][e]
  BY <1>1 DEF MoveConstruct, MoveAssign, IInv, Types
<1>3. \A r \in Resources : m_mutex'[r] = IF r = old THEN None ELSE m_mutex[r]
  <2>1. CASE MoveConstruct(t, s, d)
    <3>1. old = None
      BY <2>1, VacantFields DEF MoveConstruct, IInv, SlotInv
    <3> QED
      BY <2>1, <3>1, TSResourceAssumption DEF MoveConstruct, TSResourceAssumption
  <2>2. CASE MoveAssign(t, s, d)
    BY <2>2 DEF MoveAssign, Release
  <2> QED
    BY <2>1, <2>2
<1>4. \A u \in Threads, e \in Slots : accessors[u][e].m_lock \in Resources \cup {None}
  BY DEF IInv, Types, Accessor
(* The lock of d was t's and nobody else's. *)
<1>5. \A u \in Threads, e \in Slots :
        accessors[u][e].m_lock = old /\ old # None => u = t /\ e = d
  BY <1>4 DEF IInv, OwnerInv
<1>6. OwnerInv'
  <2>1. ASSUME NEW u \in Threads, NEW e \in Slots, accessors'[u][e].m_lock # None
        PROVE  m_mutex'[accessors'[u][e].m_lock] = u
    <3>1. CASE u = t /\ e = d
      <4>1. accessors[t][s].m_lock # None /\ accessors[t][s].m_lock # old
        BY <1>1, <1>2, <1>5, <2>1, <3>1
      <4> QED
        BY <1>2, <1>3, <1>4, <3>1, <4>1 DEF IInv, OwnerInv
    <3>2. CASE u # t \/ e \notin {s, d}
      <4>1. accessors'[u][e] = accessors[u][e] /\ accessors[u][e].m_lock # old
        BY <1>2, <1>5, <2>1, <3>2
      <4> QED
        BY <1>3, <1>4, <2>1, <4>1 DEF IInv, OwnerInv
    <3>3. ~(u = t /\ e = s)
      BY <1>2, <2>1, VacantFields
    <3> QED
      BY <3>1, <3>2, <3>3
  <2>2. ASSUME NEW u \in Threads, NEW e \in Slots, NEW f \in Slots,
               accessors'[u][e].m_lock = accessors'[u][f].m_lock, accessors'[u][e].m_lock # None
        PROVE  e = f
    BY <1>1, <1>2, <2>2, VacantFields DEF IInv, OwnerInv
  <2>3. ASSUME NEW u \in Threads, NEW r \in Resources, m_mutex'[r] = u
        PROVE  \E e \in Slots : accessors'[u][e].m_lock = r
    <3>1. r # old /\ m_mutex[r] = u
      BY <1>3, <2>3, TSResourceAssumption DEF TSResourceAssumption
    <3>2. PICK e \in Slots : accessors[u][e].m_lock = r
      BY <3>1 DEF IInv, OwnerInv
    <3>3. CASE u = t /\ e = s
      BY <1>2, <3>2, <3>3
    <3>4. CASE u # t \/ e # s
      BY <1>2, <3>1, <3>2, <3>4
    <3> QED
      BY <3>3, <3>4
  <2> QED
    BY <2>1, <2>2, <2>3 DEF OwnerInv
<1>7. SlotInv'
  <2>1. ASSUME NEW u \in Threads, NEW e \in Slots, ~accessors'[u][e].made
        PROVE  accessors'[u][e] = Vacant
    BY <1>1, <1>2, <2>1, VacantFields DEF IInv, SlotInv
  <2>2. ASSUME NEW u \in Threads, pc'[u] = "lock"
        PROVE  /\ frame'[u].resource \in alive' /\ frame'[u].slot \in Slots
               /\ ~accessors'[u][frame'[u].slot].made
    BY <1>1, <1>2, <2>2 DEF IInv, SlotInv
  <2>3. \A u \in Threads : pc'[u] = "destroy" => frame'[u].resource \in alive'
    BY <1>1 DEF IInv, SlotInv
  <2> QED
    BY <2>1, <2>2, <2>3 DEF SlotInv
<1>8. ValidWhileLocked' /\ NoAccessorOutlives'
  BY <1>1, <1>2, VacantFields DEF IInv, ValidWhileLocked, NoAccessorOutlives
<1>9. DestroyInv'
  BY <1>1 DEF IInv, DestroyInv
<1> QED
  BY <1>6, <1>7, <1>8, <1>9 DEF Kept

LEMMA DestructKeeps ==
  ASSUME IInv, NEW t \in Threads, NEW s \in Slots, Destruct(t, s)
  PROVE  Kept'
<1> DEFINE old == accessors[t][s].m_lock
<1>1. /\ pc[t] = "idle" /\ alive' = alive
      /\ pc'[t] \in {"idle", "notify"}
      /\ \A u \in Threads : u # t => pc'[u] = pc[u] /\ frame'[u] = frame[u]
  BY DEF Destruct, Idle, IInv, Types
<1>2. /\ accessors'[t][s] = Vacant
      /\ \A u \in Threads, e \in Slots :
           u # t \/ e # s => accessors'[u][e] = accessors[u][e]
  BY DEF Destruct, Put, IInv, Types
<1>3. \A r \in Resources : m_mutex'[r] = IF r = old THEN None ELSE m_mutex[r]
  BY DEF Destruct, Release
<1>4. \A u \in Threads, e \in Slots : accessors[u][e].m_lock \in Resources \cup {None}
  BY DEF IInv, Types, Accessor
<1>5. \A u \in Threads, e \in Slots :
        accessors[u][e].m_lock = old /\ old # None => u = t /\ e = s
  BY <1>4 DEF IInv, OwnerInv
<1>6. OwnerInv'
  <2>1. ASSUME NEW u \in Threads, NEW e \in Slots, accessors'[u][e].m_lock # None
        PROVE  m_mutex'[accessors'[u][e].m_lock] = u
    <3>1. u # t \/ e # s
      BY <1>2, <2>1, VacantFields
    <3>2. accessors'[u][e] = accessors[u][e] /\ accessors[u][e].m_lock # old
      BY <1>2, <1>5, <2>1, <3>1
    <3> QED
      BY <1>3, <1>4, <2>1, <3>2 DEF IInv, OwnerInv
  <2>2. ASSUME NEW u \in Threads, NEW e \in Slots, NEW f \in Slots,
               accessors'[u][e].m_lock = accessors'[u][f].m_lock, accessors'[u][e].m_lock # None
        PROVE  e = f
    BY <1>2, <2>2, VacantFields DEF IInv, OwnerInv
  <2>3. ASSUME NEW u \in Threads, NEW r \in Resources, m_mutex'[r] = u
        PROVE  \E e \in Slots : accessors'[u][e].m_lock = r
    <3>1. r # old /\ m_mutex[r] = u
      BY <1>3, <2>3, TSResourceAssumption DEF TSResourceAssumption
    <3>2. PICK e \in Slots : accessors[u][e].m_lock = r
      BY <3>1 DEF IInv, OwnerInv
    <3>3. u # t \/ e # s
      BY <3>1, <3>2
    <3> QED
      BY <1>2, <3>2, <3>3
  <2> QED
    BY <2>1, <2>2, <2>3 DEF OwnerInv
<1>7. SlotInv'
  <2>1. ASSUME NEW u \in Threads, NEW e \in Slots, ~accessors'[u][e].made
        PROVE  accessors'[u][e] = Vacant
    BY <1>2, <2>1 DEF IInv, SlotInv
  <2>2. ASSUME NEW u \in Threads, pc'[u] = "lock"
        PROVE  /\ frame'[u].resource \in alive' /\ frame'[u].slot \in Slots
               /\ ~accessors'[u][frame'[u].slot].made
    BY <1>1, <1>2, <2>2 DEF IInv, SlotInv
  <2>3. \A u \in Threads : pc'[u] = "destroy" => frame'[u].resource \in alive'
    BY <1>1 DEF IInv, SlotInv
  <2> QED
    BY <2>1, <2>2, <2>3 DEF SlotInv
<1>8. ValidWhileLocked' /\ NoAccessorOutlives'
  BY <1>1, <1>2, VacantFields DEF IInv, ValidWhileLocked, NoAccessorOutlives
<1>9. DestroyInv'
  BY <1>1 DEF IInv, DestroyInv
<1> QED
  BY <1>6, <1>7, <1>8, <1>9 DEF Kept

(* A thread that does not hold r's mutex acquires it: lock() returns. *)
LEMMA AcquireKeeps ==
  ASSUME IInv, NEW t \in Threads, Acquire(t)
  PROVE  Kept'
<1> DEFINE r == frame[t].resource
           s == frame[t].slot
<1>1. r \in Resources /\ r \in alive /\ s \in Slots /\ pc[t] = "lock" /\ m_mutex[r] = None
  BY DEF IInv, Types, SlotInv, Acquire
<1>2. /\ accessors'[t][s] = Owning(r, frame[t].notify)
      /\ \A u \in Threads, d \in Slots : u # t \/ d # s => accessors'[u][d] = accessors[u][d]
  BY <1>1 DEF IInv, Types, Acquire, Put
<1>3. LET new == Owning(r, frame[t].notify)
      IN  new.made /\ new.m_lock = r /\ new.m_object = r
  BY DEF Owning
<1>4. m_mutex'[r] = t /\ \A q \in Resources : q # r => m_mutex'[q] = m_mutex[q]
  BY <1>1 DEF IInv, Types, Acquire
<1>5. \A u \in Threads, d \in Slots : accessors[u][d].m_lock # r
  BY <1>1, TSResourceAssumption DEF IInv, OwnerInv, TSResourceAssumption
<1>6. accessors[t][s].m_lock = None
  BY <1>1, VacantFields DEF IInv, SlotInv
<1>7. \A u \in Threads, d \in Slots : accessors[u][d].m_lock \in Resources \cup {None}
  BY DEF IInv, Types, Accessor
<1>8. /\ alive' = alive /\ pc'[t] = "idle"
      /\ \A u \in Threads : u # t => pc'[u] = pc[u] /\ frame'[u] = frame[u]
  BY DEF IInv, Types, Acquire
<1>9. OwnerInv'
  <2>1. ASSUME NEW u \in Threads, NEW d \in Slots, accessors'[u][d].m_lock # None
        PROVE  m_mutex'[accessors'[u][d].m_lock] = u
    BY <1>2, <1>3, <1>4, <1>5, <1>7, <2>1 DEF IInv, OwnerInv
  <2>2. ASSUME NEW u \in Threads, NEW d \in Slots, NEW e \in Slots,
               accessors'[u][d].m_lock = accessors'[u][e].m_lock, accessors'[u][d].m_lock # None
        PROVE  d = e
    BY <1>2, <1>3, <1>5, <2>2 DEF IInv, OwnerInv
  <2>3. ASSUME NEW u \in Threads, NEW q \in Resources, m_mutex'[q] = u
        PROVE  \E d \in Slots : accessors'[u][d].m_lock = q
    <3>1. CASE q = r
      BY <1>1, <1>2, <1>3, <1>4, <2>3, <3>1
    <3>2. CASE q # r
      <4>1. PICK d \in Slots : accessors[u][d].m_lock = q
        BY <1>4, <2>3, <3>2 DEF IInv, OwnerInv
      <4>2. u # t \/ d # s
        BY <1>6, <4>1, TSResourceAssumption DEF TSResourceAssumption
      <4> QED
        BY <1>2, <4>1, <4>2
    <3> QED
      BY <3>1, <3>2
  <2> QED
    BY <2>1, <2>2, <2>3 DEF OwnerInv
<1>10. SlotInv'
  <2>1. ASSUME NEW u \in Threads, NEW d \in Slots, ~accessors'[u][d].made
        PROVE  accessors'[u][d] = Vacant
    BY <1>2, <1>3, <2>1 DEF IInv, SlotInv
  <2>2. ASSUME NEW u \in Threads, pc'[u] \in {"lock", "destroy"}
        PROVE  u # t
    BY <1>8, <2>2
  <2> QED
    BY <1>2, <1>8, <2>1, <2>2 DEF IInv, SlotInv
<1>11. ValidWhileLocked' /\ NoAccessorOutlives'
  BY <1>1, <1>2, <1>3, <1>8 DEF IInv, ValidWhileLocked, NoAccessorOutlives
<1>12. DestroyInv'
  BY <1>8 DEF IInv, DestroyInv
<1> QED
  BY <1>9, <1>10, <1>11, <1>12 DEF Kept

(* The other steps leave the Accessors and the mutexes alone. *)
LEMMA UnlockedKeeps ==
  ASSUME IInv, NEW t \in Threads, Unlocked(t)
  PROVE  Kept'
<1>1. /\ UNCHANGED <<m_mutex, alive, accessors>> /\ pc'[t] = "idle"
      /\ \A u \in Threads : u # t => pc'[u] = pc[u] /\ frame'[u] = frame[u]
  BY DEF IInv, Types, Unlocked
<1>2. OwnerInv' /\ ValidWhileLocked' /\ NoAccessorOutlives'
  BY <1>1 DEF IInv, OwnerInv, ValidWhileLocked, NoAccessorOutlives
<1>3. SlotInv' /\ DestroyInv'
  BY <1>1 DEF IInv, SlotInv, DestroyInv
<1> QED
  BY <1>2, <1>3 DEF Kept

LEMMA CallDestroyKeeps ==
  ASSUME IInv, NEW t \in Threads, NEW r \in Resources, CallDestroy(t, r)
  PROVE  Kept'
<1>1. /\ UNCHANGED <<m_mutex, alive, accessors>>
      /\ pc[t] = "idle" /\ pc'[t] = "destroy" /\ frame'[t].resource = r
      /\ \A u \in Threads : u # t => pc'[u] = pc[u] /\ frame'[u] = frame[u]
  BY DEF IInv, Types, CallDestroy, Idle
<1>2. /\ r \in alive
      /\ \A u \in Threads : pc[u] \in {"lock", "destroy"} => frame[u].resource # r
  BY DEF CallDestroy, Usable
<1>3. OwnerInv' /\ ValidWhileLocked' /\ NoAccessorOutlives'
  BY <1>1 DEF IInv, OwnerInv, ValidWhileLocked, NoAccessorOutlives
<1>4. SlotInv'
  BY <1>1, <1>2 DEF IInv, SlotInv
<1>5. DestroyInv'
  BY <1>1, <1>2 DEF IInv, DestroyInv
<1> QED
  BY <1>3, <1>4, <1>5 DEF Kept

(* ~ThreadSafeResource returns: the mutex is free, so no Accessor has the
   object, and no other thread is in a call with the resource. *)
LEMMA DestroyKeeps ==
  ASSUME IInv, NEW t \in Threads, Destroy(t)
  PROVE  Kept'
<1> DEFINE r == frame[t].resource
<1>1. /\ UNCHANGED <<m_mutex, accessors>> /\ alive' = alive \ {r}
      /\ pc[t] = "destroy" /\ pc'[t] = "idle" /\ m_mutex[r] = None
      /\ \A u \in Threads : u # t => pc'[u] = pc[u] /\ frame'[u] = frame[u]
  BY DEF IInv, Types, Destroy
<1>2. r \in alive /\ r \in Resources
  BY <1>1 DEF IInv, Types, SlotInv
<1>3. OwnerInv' /\ ValidWhileLocked'
  BY <1>1 DEF IInv, OwnerInv, ValidWhileLocked
<1>4. NoAccessorOutlives'
  <2>1. \A u \in Threads, s \in Slots : accessors[u][s].m_lock # r
    BY <1>1, <1>2, TSResourceAssumption DEF IInv, OwnerInv, TSResourceAssumption
  <2> QED
    BY <1>1, <2>1 DEF IInv, ValidWhileLocked, NoAccessorOutlives
<1>5. SlotInv'
  <2>1. \A u \in Threads :
          u # t /\ pc[u] \in {"lock", "destroy"} => frame[u].resource # r
    BY <1>1 DEF IInv, DestroyInv
  <2> QED
    BY <1>1, <2>1 DEF IInv, SlotInv
<1>6. DestroyInv'
  BY <1>1 DEF IInv, DestroyInv
<1> QED
  BY <1>3, <1>4, <1>5, <1>6 DEF Kept

(* IInv is inductive. *)
LEMMA InvariantIInv == Spec => []IInv
<1>1. ASSUME IInv, Next PROVE Kept'
  <2>1. PICK t \in Threads :
          \/ \E s \in Slots : Use(t, s)
          \/ Acquire(t) \/ Unlocked(t) \/ Destroy(t)
          \/ \E r \in Resources : CallDestroy(t, r)
    BY <1>1 DEF Next
  <2>2. ASSUME NEW s \in Slots, Use(t, s) PROVE Kept'
    <3>1. ASSUME NEW r \in Resources,
                 \/ \E n \in Notifiers \cup {None} : CallLock(t, r, s, n)
                 \/ TryLockSucceeds(t, r, s) \/ TryLockFails(t, r, s)
          PROVE  Kept'
      BY <1>1, <3>1, LockKeeps, TryLockKeeps
    <3>2. CASE Default(t, s)
      BY <1>1, <3>2, InvalidKeeps DEF Default
    <3>3. ASSUME NEW d \in Slots, MoveConstruct(t, s, d) \/ MoveAssign(t, s, d)
          PROVE  Kept'
      BY <1>1, <3>3, MoveKeeps
    <3>4. CASE Destruct(t, s)
      BY <1>1, <3>4, DestructKeeps
    <3> QED
      BY <2>2, <3>1, <3>2, <3>3, <3>4 DEF Use
  <2> QED
    BY <1>1, <2>1, <2>2, AcquireKeeps, UnlockedKeeps, DestroyKeeps, CallDestroyKeeps
<1>2. ASSUME IInv, UNCHANGED vars PROVE Kept'
  BY <1>2 DEF vars, IInv, Kept, OwnerInv, SlotInv, ValidWhileLocked, DestroyInv,
              NoAccessorOutlives
<1>3. IInv /\ [Next]_vars => IInv'
  BY <1>1, <1>2, NextTypes DEF IInv, Kept
<1> QED
  BY InitIInv, <1>3, PTL DEF Spec

(* One owner at most for every resource, in the thread that holds the mutex,
   and an owner whenever the mutex is held (ts_resource.hpp:37). *)
THEOREM ExclusiveAccess == Spec => []Exclusive
<1>1. IInv => Exclusive
  <2> SUFFICES ASSUME IInv, NEW r \in Resources
               PROVE  /\ \A o, p \in Owners(r) : o = p
                      /\ \A t \in Threads :
                           m_mutex[r] = t <=> \E s \in Slots : <<t, s>> \in Owners(r)
    BY DEF Exclusive
  <2>1. r # None
    BY TSResourceAssumption DEF TSResourceAssumption
  <2>2. \A t \in Threads, s \in Slots : <<t, s>> \in Owners(r) <=> accessors[t][s].m_lock = r
    BY DEF Owners
  <2>3. \A t \in Threads, s \in Slots : <<t, s>> \in Owners(r) => m_mutex[r] = t
    BY <2>1, <2>2 DEF IInv, OwnerInv
  <2>4. ASSUME NEW t \in Threads, NEW s \in Slots, NEW u \in Threads, NEW d \in Slots,
               <<t, s>> \in Owners(r), <<u, d>> \in Owners(r)
        PROVE  <<t, s>> = <<u, d>>
    BY <2>1, <2>2, <2>3, <2>4 DEF IInv, OwnerInv
  <2>5. \A o, p \in Owners(r) : o = p
    <3>1. \A o \in Owners(r) : \E t \in Threads, s \in Slots : o = <<t, s>>
      BY DEF Owners
    <3> QED
      BY <2>4, <3>1
  <2>6. \A t \in Threads : m_mutex[r] = t => \E s \in Slots : <<t, s>> \in Owners(r)
    BY <2>2 DEF IInv, OwnerInv
  <2> QED
    BY <2>3, <2>5, <2>6
<1> QED
  BY InvariantIInv, <1>1, PTL

(* An Accessor reaches the object exactly while it owns the mutex
   (ts_resource.hpp:129). *)
THEOREM ValidExactlyWhileLocked == Spec => []ValidWhileLocked
<1>1. IInv => ValidWhileLocked
  BY DEF IInv
<1> QED
  BY InvariantIInv, <1>1, PTL

(* The destructor of a resource waits for its Accessor (ts_resource.hpp:156). *)
THEOREM DestructorWaits == Spec => []NoAccessorOutlives
<1>1. IInv => NoAccessorOutlives
  BY DEF IInv
<1> QED
  BY InvariantIInv, <1>1, PTL

-----------------------------------------------------------------------------
(* Notifications.  A step changes what is due in two places at most, so the
   number of debtors changes as owed does. *)

(* A thread in unlocked() has unlocked before. *)
LEMMA NotifierKeeps == IInv /\ NotifierMayLock /\ [Next]_vars => NotifierMayLock'
<1> SUFFICES ASSUME IInv, NotifierMayLock, [Next]_vars, NEW t \in Threads,
                    pc'[t] = "notify", frame'[t].resource # None
             PROVE  m_mutex'[frame'[t].resource] # t
  BY DEF NotifierMayLock
<1> USE TSResourceAssumption DEF TSResourceAssumption, IInv, Types, NotifierMayLock
<1>1. CASE UNCHANGED vars
  BY <1>1 DEF vars
<1>2. ASSUME NEW u \in Threads, NEW s \in Slots, NEW r \in Resources,
             NEW n \in Notifiers \cup {None},
             CallLock(u, r, s, n) \/ TryLockSucceeds(u, r, s) \/ TryLockFails(u, r, s)
      PROVE  m_mutex'[frame'[t].resource] # t
  <2>1. u # t
    BY <1>2 DEF CallLock, TryLockSucceeds, TryLockFails, Idle
  <2> QED
    BY <1>2, <2>1 DEF CallLock, TryLockSucceeds, TryLockFails, Frames
<1>3. ASSUME NEW u \in Threads, NEW s \in Slots, NEW d \in Slots,
             Default(u, s) \/ MoveConstruct(u, s, d) \/ MoveAssign(u, s, d)
      PROVE  m_mutex'[frame'[t].resource] # t
  <2>1. frame'[t].resource \in Resources /\ pc' = pc /\ frame' = frame
    BY <1>3 DEF Default, MoveConstruct, MoveAssign, Frames
  <2>2. m_mutex'[frame[t].resource] \in {m_mutex[frame[t].resource], None}
    BY <1>3, <2>1 DEF Default, MoveConstruct, MoveAssign, Release
  <2> QED
    BY <2>1, <2>2
<1>4. ASSUME NEW u \in Threads, NEW s \in Slots, Destruct(u, s)
      PROVE  m_mutex'[frame'[t].resource] # t
  <2>1. accessors[u][s].m_lock \in Resources \cup {None} /\ frame[t].resource \in Resources \cup {None}
    BY DEF Accessor, Frames
  <2>2. \A r \in Resources : m_mutex'[r] = IF r = accessors[u][s].m_lock THEN None ELSE m_mutex[r]
    BY <1>4 DEF Destruct, Release
  <2>3. CASE u = t
    <3>1. frame'[t].resource = accessors[u][s].m_lock
      BY <1>4, <2>3 DEF Destruct, Idle
    <3> QED
      BY <2>1, <2>2, <3>1
  <2>4. CASE u # t
    <3>1. pc'[t] = pc[t] /\ frame'[t] = frame[t]
      BY <1>4, <2>4 DEF Destruct
    <3> QED
      BY <2>1, <2>2, <3>1
  <2> QED
    BY <2>3, <2>4
<1>5. ASSUME NEW u \in Threads, Acquire(u) \/ Unlocked(u) \/ Destroy(u)
      PROVE  m_mutex'[frame'[t].resource] # t
  <2>1. u # t
    BY <1>5 DEF Acquire, Unlocked, Destroy
  <2>2. pc'[t] = pc[t] /\ frame'[t] = frame[t] /\ frame[t].resource \in Resources
    BY <1>5, <2>1 DEF Acquire, Unlocked, Destroy, Frames
  <2>3. \A r \in Resources : m_mutex'[r] \in {m_mutex[r], u}
    BY <1>5 DEF Acquire, Unlocked, Destroy
  <2> QED
    BY <2>1, <2>2, <2>3
<1>6. ASSUME NEW u \in Threads, NEW r \in Resources, CallDestroy(u, r)
      PROVE  m_mutex'[frame'[t].resource] # t
  <2>1. u # t
    BY <1>6 DEF CallDestroy
  <2> QED
    BY <1>6, <2>1 DEF CallDestroy
<1> QED
  BY <1>1, <1>2, <1>3, <1>4, <1>5, <1>6 DEF Next, Use

(* unlocked() is called when its thread does not hold the resource any more
   (ts_resource.hpp:85 to 89). *)
THEOREM NotifierUnlockedBefore == Spec => []NotifierMayLock
<1>1. Init => NotifierMayLock
  BY DEF Init, NotifierMayLock
<1> QED
  BY InvariantIInv, <1>1, NotifierKeeps, PTL DEF Spec

(* Where a notification may be due: at an Accessor, and in a thread. *)
Places == Threads \X (Slots \cup {None})

(* Who will be notified by what is at a place. *)
Due == [o \in Places |->
          IF o[2] # None THEN accessors[o[1]][o[2]].m_notify
          ELSE IF pc[o[1]] = "notify" THEN frame[o[1]].notify ELSE None]

(* The places where what is due according to f is due to n. *)
DueTo(f, n) == {o \in Places : f[o] = n}

(* As many calls of unlocked() are due as there are debtors; if Accessors that own
   a resource are overwritten, at least as many. *)
DebtInv ==
  /\ owed \in [Notifiers -> Nat]
  /\ \A n \in Notifiers : /\ Cardinality(DueTo(Due, n)) <= owed[n]
                          /\ Overwrites \/ Cardinality(DueTo(Due, n)) = owed[n]
  /\ \A t \in Threads, s \in Slots :
       accessors[t][s].m_lock = None => accessors[t][s].m_notify = None
  /\ \A t \in Threads : pc[t] = "notify" => frame[t].notify \in Notifiers

LEMMA DebtorsAreDue == \A n \in Notifiers : Debtors(n) = DueTo(Due, n)
<1> SUFFICES ASSUME NEW n \in Notifiers PROVE Debtors(n) = DueTo(Due, n)
  OBVIOUS
<1> USE TSResourceAssumption DEF TSResourceAssumption
<1>1. ASSUME NEW o \in Debtors(n) PROVE o \in DueTo(Due, n)
  <2>1. CASE o \in Threads \X Slots /\ accessors[o[1]][o[2]].m_notify = n
    BY <2>1 DEF DueTo, Due, Places
  <2>2. CASE \E t \in Threads : o = <<t, None>> /\ pc[t] = "notify" /\ frame[t].notify = n
    BY <2>2 DEF DueTo, Due, Places
  <2> QED
    BY <1>1, <2>1, <2>2 DEF Debtors
<1>2. ASSUME NEW o \in DueTo(Due, n) PROVE o \in Debtors(n)
  <2>1. PICK t \in Threads, s \in Slots \cup {None} : o = <<t, s>>
    BY <1>2 DEF DueTo, Places
  <2>2. Due[o] = n /\ n # None
    BY <1>2 DEF DueTo
  <2>3. CASE s = None
    BY <2>1, <2>2, <2>3 DEF Due, Places, Debtors
  <2>4. CASE s # None
    <3>1. o \in Threads \X Slots /\ accessors[o[1]][o[2]].m_notify = n
      BY <2>1, <2>2, <2>4 DEF Due, Places
    <3> QED
      BY <3>1 DEF Debtors
  <2> QED
    BY <2>3, <2>4
<1> QED
  BY <1>1, <1>2

LEMMA DueFinite ==
  ASSUME NEW f, NEW n
  PROVE  IsFiniteSet(DueTo(f, n)) /\ Cardinality(DueTo(f, n)) \in Nat
<1>1. IsFiniteSet(Slots \cup {None})
  BY TSResourceAssumption, FS_AddElement DEF TSResourceAssumption
<1>2. IsFiniteSet(Places)
  BY <1>1, TSResourceAssumption, FS_Product DEF TSResourceAssumption, Places
<1>3. IsFiniteSet(DueTo(f, n))
  BY <1>2, FS_Subset DEF DueTo
<1> QED
  BY <1>3, FS_CardinalityType

(* What is due at place o is taken to another one, q.  Nothing is lost unless
   something was due at q. *)
LEMMA DebtMoves ==
  ASSUME NEW f, NEW g, NEW o \in Places, NEW q \in Places, o # q,
         g[q] = f[o], g[o] = None,
         \A x \in Places : x # o /\ x # q => g[x] = f[x],
         NEW n \in Notifiers
  PROVE  /\ Cardinality(DueTo(g, n)) <= Cardinality(DueTo(f, n))
         /\ f[q] = None => Cardinality(DueTo(g, n)) = Cardinality(DueTo(f, n))
<1> USE TSResourceAssumption DEF TSResourceAssumption, DueTo
<1> DEFINE D == DueTo(f, n)
           rest == (D \ {o}) \ {q}
<1>1. n # None
  OBVIOUS
<1>2. /\ IsFiniteSet(D) /\ Cardinality(D) \in Nat
      /\ IsFiniteSet(D \ {o}) /\ IsFiniteSet(rest)
  <2>1. IsFiniteSet(D) /\ Cardinality(D) \in Nat
    BY DueFinite
  <2> QED
    BY <2>1, FS_RemoveElement
<1>3. /\ Cardinality(D \ {o}) = IF o \in D THEN Cardinality(D) - 1 ELSE Cardinality(D)
      /\ Cardinality(rest) = IF q \in D \ {o} THEN Cardinality(D \ {o}) - 1
                            ELSE Cardinality(D \ {o})
  BY <1>2, FS_RemoveElement
<1>4. DueTo(g, n) = IF o \in D THEN rest \cup {q} ELSE rest
  BY <1>1
<1>5. Cardinality(rest \cup {q}) = Cardinality(rest) + 1
  BY <1>2, FS_AddElement
<1>6. q \in D <=> f[q] = n
  OBVIOUS
<1> HIDE DEF D, rest, DueTo
<1>7. Cardinality(DueTo(g, n)) = IF o \in D THEN Cardinality(rest) + 1 ELSE Cardinality(rest)
  BY <1>4, <1>5
<1>8. q \in D \ {o} <=> q \in D
  OBVIOUS
<1>9. Cardinality(D) \in Nat
  BY <1>2
<1>10. f[q] = None => q \notin D
  BY <1>1, <1>6
<1>11. Cardinality(DueTo(f, n)) = Cardinality(D)
  BY DEF D
<1> QED
  BY <1>3, <1>7, <1>8, <1>9, <1>10, <1>11

(* Something becomes due at a place where nothing was. *)
LEMMA DebtMade ==
  ASSUME NEW f, NEW g, NEW q \in Places, f[q] = None,
         \A x \in Places : x # q => g[x] = f[x],
         NEW n \in Notifiers
  PROVE  Cardinality(DueTo(g, n)) =
           IF g[q] = n THEN Cardinality(DueTo(f, n)) + 1 ELSE Cardinality(DueTo(f, n))
<1>1. q \notin DueTo(f, n)
  BY TSResourceAssumption DEF TSResourceAssumption, DueTo
<1>2. DueTo(g, n) = IF g[q] = n THEN DueTo(f, n) \cup {q} ELSE DueTo(f, n)
  BY TSResourceAssumption DEF TSResourceAssumption, DueTo
<1> QED
  BY <1>1, <1>2, DueFinite, FS_AddElement

(* What was due at a place is settled. *)
LEMMA DebtSettled ==
  ASSUME NEW f, NEW g, NEW q \in Places, g[q] = None,
         \A x \in Places : x # q => g[x] = f[x],
         NEW n \in Notifiers
  PROVE  Cardinality(DueTo(g, n)) =
           IF f[q] = n THEN Cardinality(DueTo(f, n)) - 1 ELSE Cardinality(DueTo(f, n))
<1>1. DueTo(g, n) = DueTo(f, n) \ {q}
  BY TSResourceAssumption DEF TSResourceAssumption, DueTo
<1>2. q \in DueTo(f, n) <=> f[q] = n
  BY DEF DueTo
<1> QED
  BY <1>1, <1>2, DueFinite, FS_RemoveElement

(* Due, place by place. *)
LEMMA DueAt ==
  /\ \A t \in Threads, s \in Slots :
       <<t, s>> \in Places /\ Due[<<t, s>>] = accessors[t][s].m_notify
  /\ \A t \in Threads :
       <<t, None>> \in Places
         /\ Due[<<t, None>>] = IF pc[t] = "notify" THEN frame[t].notify ELSE None
<1>1. None \notin Slots
  BY TSResourceAssumption DEF TSResourceAssumption
<1>2. \A t \in Threads, s \in Slots \cup {None} :
        /\ <<t, s>> \in Places /\ <<t, s>>[1] = t /\ <<t, s>>[2] = s
  BY DEF Places
<1>3. \A t \in Threads, s \in Slots : Due[<<t, s>>] = accessors[t][s].m_notify
  BY <1>1, <1>2 DEF Due
<1>4. \A t \in Threads : Due[<<t, None>>] = IF pc[t] = "notify" THEN frame[t].notify ELSE None
  BY <1>2 DEF Due
<1> QED
  BY <1>2, <1>3, <1>4

(* A vacant slot and an Accessor that was moved from owe nothing. *)
LEMMA NothingOwed ==
  /\ Invalid.m_notify = None /\ Vacant.m_notify = None
  /\ \A r, n : Owning(r, n).m_lock = r /\ Owning(r, n).m_notify = n
BY DEF Invalid, Vacant, Owning

(* Steps that leave Accessors' notifications and the threads in unlocked() alone. *)
LEMMA DebtQuiet ==
  ASSUME DebtInv, owed' = owed,
         \A t \in Threads, s \in Slots :
           /\ accessors'[t][s].m_notify = accessors[t][s].m_notify
           /\ accessors'[t][s].m_lock = None => accessors'[t][s].m_notify = None,
         \A t \in Threads :
           /\ pc'[t] = "notify" <=> pc[t] = "notify"
           /\ pc[t] = "notify" => frame'[t] = frame[t]
  PROVE  DebtInv'
<1>1. Due' = Due
  BY DEF Due, Places
<1>2. \A n \in Notifiers : DueTo(Due, n)' = DueTo(Due, n)
  BY <1>1 DEF DueTo
<1> QED
  BY <1>2 DEF DebtInv

LEMMA MoveOwes ==
  ASSUME IInv, DebtInv, NEW t \in Threads, NEW s \in Slots, NEW d \in Slots,
         MoveConstruct(t, s, d) \/ MoveAssign(t, s, d)
  PROVE  DebtInv'
<1> USE TSResourceAssumption DEF TSResourceAssumption
<1>1. s # d /\ owed' = owed /\ pc' = pc /\ frame' = frame
  BY DEF MoveConstruct, MoveAssign
<1>2. /\ accessors'[t][d] = accessors[t][s] /\ accessors'[t][s] = Invalid
      /\ \A u \in Threads, e \in Slots :
           u # t \/ e \notin {s, d} => accessors'[u][e] = accessors[u][e]
  BY <1>1 DEF MoveConstruct, MoveAssign, IInv, Types
<1>3. Overwrites \/ accessors[t][d].m_notify = None
  <2>1. CASE MoveConstruct(t, s, d)
    BY <2>1, NothingOwed DEF MoveConstruct, IInv, SlotInv
  <2>2. CASE MoveAssign(t, s, d)
    BY <2>2 DEF MoveAssign, DebtInv
  <2> QED
    BY <2>1, <2>2
<1>4. /\ <<t, s>> \in Places /\ <<t, d>> \in Places /\ <<t, s>> # <<t, d>>
      /\ Due[<<t, s>>] = accessors[t][s].m_notify /\ Due[<<t, d>>] = accessors[t][d].m_notify
  BY <1>1, DueAt
<1>5. /\ Due'[<<t, d>>] = Due[<<t, s>>] /\ Due'[<<t, s>>] = None
      /\ \A x \in Places : x # <<t, s>> /\ x # <<t, d>> => Due'[x] = Due[x]
  BY <1>1, <1>2, <1>4, NothingOwed DEF Due, Places
<1>6. \A n \in Notifiers :
        /\ Cardinality(DueTo(Due', n)) <= Cardinality(DueTo(Due, n))
        /\ Due[<<t, d>>] = None => Cardinality(DueTo(Due', n)) = Cardinality(DueTo(Due, n))
  BY <1>4, <1>5, DebtMoves
<1>7. ASSUME NEW n \in Notifiers
      PROVE  /\ Cardinality(DueTo(Due', n)) <= owed[n]
             /\ Overwrites \/ Cardinality(DueTo(Due', n)) = owed[n]
  <2>1. Cardinality(DueTo(Due', n)) \in Nat /\ Cardinality(DueTo(Due, n)) \in Nat
    BY DueFinite
  <2> QED
    BY <1>3, <1>4, <1>6, <2>1 DEF DebtInv
<1>8. \A u \in Threads, e \in Slots :
        accessors'[u][e].m_lock = None => accessors'[u][e].m_notify = None
  BY <1>2, NothingOwed DEF DebtInv
<1> QED
  BY <1>1, <1>7, <1>8 DEF DebtInv, DueTo

(* The destructor takes the Accessor's notification over. *)
LEMMA DestructOwes ==
  ASSUME IInv, DebtInv, NEW t \in Threads, NEW s \in Slots, Destruct(t, s)
  PROVE  DebtInv'
<1> USE TSResourceAssumption DEF TSResourceAssumption
<1>1. /\ owed' = owed /\ pc[t] = "idle"
      /\ accessors'[t][s] = Vacant
      /\ \A u \in Threads, e \in Slots :
           u # t \/ e # s => accessors'[u][e] = accessors[u][e]
      /\ \A u \in Threads : u # t => pc'[u] = pc[u] /\ frame'[u] = frame[u]
  BY DEF Destruct, Put, Idle, IInv, Types
<1>2. IF accessors[t][s].m_notify = None THEN pc'[t] = "idle"
      ELSE pc'[t] = "notify" /\ frame'[t].notify = accessors[t][s].m_notify
  BY <1>1 DEF Destruct, IInv, Types
<1>3. /\ <<t, s>> \in Places /\ <<t, None>> \in Places /\ <<t, s>> # <<t, None>>
      /\ Due[<<t, s>>] = accessors[t][s].m_notify /\ Due[<<t, None>>] = None
  BY <1>1, DueAt
<1>4. Due'[<<t, None>>] = Due[<<t, s>>] /\ Due'[<<t, s>>] = None
  <2>1. Due'[<<t, s>>] = accessors'[t][s].m_notify
    BY <1>3 DEF Due
  <2>2. Due'[<<t, None>>] = IF pc'[t] = "notify" THEN frame'[t].notify ELSE None
    BY <1>3 DEF Due
  <2> QED
    BY <1>1, <1>2, <1>3, <2>1, <2>2, NothingOwed
<1>5. \A x \in Places : x # <<t, s>> /\ x # <<t, None>> => Due'[x] = Due[x]
  BY <1>1 DEF Due, Places
<1>6. \A n \in Notifiers : Cardinality(DueTo(Due', n)) = Cardinality(DueTo(Due, n))
  BY <1>3, <1>4, <1>5, DebtMoves
<1>7. \A u \in Threads, e \in Slots :
        accessors'[u][e].m_lock = None => accessors'[u][e].m_notify = None
  BY <1>1, NothingOwed DEF DebtInv
<1>8. accessors[t][s].m_notify \in Notifiers \cup {None}
  BY DEF IInv, Types, Accessor
<1>9. \A u \in Threads : pc'[u] = "notify" => frame'[u].notify \in Notifiers
  BY <1>1, <1>2, <1>8 DEF DebtInv
<1> QED
  BY <1>1, <1>6, <1>7, <1>9 DEF DebtInv, DueTo

(* lock() makes one Accessor more that will notify, if it was given an INotify. *)
LEMMA AcquireOwes ==
  ASSUME IInv, DebtInv, NEW t \in Threads, Acquire(t)
  PROVE  DebtInv'
<1> DEFINE s == frame[t].slot
           n == frame[t].notify
<1> USE TSResourceAssumption DEF TSResourceAssumption
<1>1. /\ s \in Slots /\ frame[t].resource \in Resources
      /\ pc[t] = "lock" /\ pc'[t] = "idle"
      /\ accessors[t][s] = Vacant
      /\ owed' = [m \in Notifiers |-> IF m = n THEN owed[m] + 1 ELSE owed[m]]
  BY DEF Acquire, IInv, Types, SlotInv
<1>2. /\ accessors'[t][s] = Owning(frame[t].resource, n)
      /\ \A u \in Threads, d \in Slots : u # t \/ d # s => accessors'[u][d] = accessors[u][d]
      /\ \A u \in Threads : u # t => pc'[u] = pc[u] /\ frame'[u] = frame[u]
  BY <1>1 DEF Acquire, Put, IInv, Types
<1>3. <<t, s>> \in Places /\ Due[<<t, s>>] = None
  BY <1>1, DueAt, NothingOwed
<1>4. Due'[<<t, s>>] = n
  BY <1>1, <1>2, <1>3, NothingOwed DEF Due
<1>5. \A x \in Places : x # <<t, s>> => Due'[x] = Due[x]
  BY <1>1, <1>2 DEF Due, Places
<1>6. \A m \in Notifiers :
        Cardinality(DueTo(Due', m)) =
          IF n = m THEN Cardinality(DueTo(Due, m)) + 1 ELSE Cardinality(DueTo(Due, m))
  BY <1>3, <1>4, <1>5, DebtMade
<1>7. \A m \in Notifiers : Cardinality(DueTo(Due, m)) \in Nat
  BY DueFinite
<1>8. owed' \in [Notifiers -> Nat]
  BY <1>1 DEF DebtInv
<1>9. \A m \in Notifiers : /\ Cardinality(DueTo(Due', m)) <= owed'[m]
                           /\ Overwrites \/ Cardinality(DueTo(Due', m)) = owed'[m]
  BY <1>1, <1>6, <1>7 DEF DebtInv
<1>10. \A u \in Threads, e \in Slots :
         accessors'[u][e].m_lock = None => accessors'[u][e].m_notify = None
  BY <1>1, <1>2, NothingOwed DEF DebtInv
<1>11. \A u \in Threads : pc'[u] = "notify" => frame'[u].notify \in Notifiers
  BY <1>1, <1>2 DEF DebtInv
<1> QED
  BY <1>8, <1>9, <1>10, <1>11 DEF DebtInv, DueTo

(* unlocked() settles what its thread owes. *)
LEMMA UnlockedOwes ==
  ASSUME IInv, DebtInv, NEW t \in Threads, Unlocked(t)
  PROVE  DebtInv'
<1> DEFINE n == frame[t].notify
<1> USE TSResourceAssumption DEF TSResourceAssumption
<1>1. /\ pc[t] = "notify" /\ pc'[t] = "idle" /\ accessors' = accessors
      /\ n \in Notifiers
      /\ \A u \in Threads : u # t => pc'[u] = pc[u] /\ frame'[u] = frame[u]
  BY DEF Unlocked, IInv, Types, DebtInv
<1>2. owed' = [owed EXCEPT ![n] = @ - 1]
  BY DEF Unlocked
<1>3. <<t, None>> \in Places /\ Due[<<t, None>>] = n
  BY <1>1, DueAt
<1>4. Due'[<<t, None>>] = None
  BY <1>1, <1>3 DEF Due
<1>5. \A x \in Places : x # <<t, None>> => Due'[x] = Due[x]
  BY <1>1 DEF Due, Places
<1>6. \A m \in Notifiers :
        Cardinality(DueTo(Due', m)) =
          IF n = m THEN Cardinality(DueTo(Due, m)) - 1 ELSE Cardinality(DueTo(Due, m))
  BY <1>3, <1>4, <1>5, DebtSettled
<1>7. \A m \in Notifiers : /\ Cardinality(DueTo(Due, m)) \in Nat
                            /\ Cardinality(DueTo(Due', m)) \in Nat
  BY DueFinite
<1>8. owed' \in [Notifiers -> Nat]
  <2>1. owed[n] - 1 \in Nat
    BY <1>1, <1>6, <1>7 DEF DebtInv
  <2> QED
    BY <1>2, <2>1 DEF DebtInv
<1>9. \A m \in Notifiers : owed'[m] = IF m = n THEN owed[m] - 1 ELSE owed[m]
  BY <1>2 DEF DebtInv
<1>10. \A m \in Notifiers : /\ Cardinality(DueTo(Due', m)) <= owed'[m]
                            /\ Overwrites \/ Cardinality(DueTo(Due', m)) = owed'[m]
  BY <1>6, <1>7, <1>9 DEF DebtInv
<1>11. \A u \in Threads : pc'[u] = "notify" => frame'[u].notify \in Notifiers
  BY <1>1 DEF DebtInv
<1> QED
  BY <1>1, <1>8, <1>10, <1>11 DEF DebtInv, DueTo

(* The steps that only make an Accessor without a notification, or none. *)
LEMMA OthersOwe ==
  ASSUME IInv, DebtInv, NEW t \in Threads, NEW s, NEW r, NEW n,
         \/ s \in Slots /\ CallLock(t, r, s, n)
         \/ s \in Slots /\ (TryLockSucceeds(t, r, s) \/ TryLockFails(t, r, s) \/ Default(t, s))
         \/ CallDestroy(t, r) \/ Destroy(t)
  PROVE  DebtInv'
<1>1. CASE CallLock(t, r, s, n) \/ CallDestroy(t, r) \/ Destroy(t)
  <2>1. /\ owed' = owed /\ accessors' = accessors
        /\ \A u \in Threads : /\ pc'[u] = "notify" <=> pc[u] = "notify"
                              /\ pc[u] = "notify" => frame'[u] = frame[u]
    BY <1>1 DEF CallLock, CallDestroy, Destroy, Idle, IInv, Types
  <2> QED
    BY <2>1, DebtQuiet DEF DebtInv
<1>2. CASE s \in Slots /\ (TryLockSucceeds(t, r, s) \/ TryLockFails(t, r, s) \/ Default(t, s))
  <2>1. /\ owed' = owed /\ pc' = pc /\ frame' = frame /\ accessors[t][s] = Vacant
        /\ Put(t, s, Invalid) \/ Put(t, s, Owning(r, None))
    BY <1>2 DEF TryLockSucceeds, TryLockFails, Default, IInv, SlotInv
  <2>2. /\ accessors'[t][s].m_notify = None
        /\ \A u \in Threads, e \in Slots :
             u # t \/ e # s => accessors'[u][e] = accessors[u][e]
    BY <1>2, <2>1, NothingOwed DEF Put, IInv, Types
  <2>3. \A u \in Threads, e \in Slots :
          /\ accessors'[u][e].m_notify = accessors[u][e].m_notify
          /\ accessors'[u][e].m_lock = None => accessors'[u][e].m_notify = None
    BY <2>1, <2>2, NothingOwed DEF DebtInv
  <2> QED
    BY <2>1, <2>3, DebtQuiet
<1> QED
  BY <1>1, <1>2

LEMMA InvariantDebtInv == Spec => []DebtInv
<1>1. Init => DebtInv
  <2> SUFFICES ASSUME Init PROVE DebtInv
    OBVIOUS
  <2>1. /\ owed = [n \in Notifiers |-> 0]
        /\ \A t \in Threads : pc[t] = "idle"
        /\ \A t \in Threads, s \in Slots : accessors[t][s].m_notify = None
    BY NothingOwed DEF Init
  <2>2. \A x \in Places : Due[x] = None
    BY <2>1 DEF Due, Places
  <2>3. \A n \in Notifiers : DueTo(Due, n) = {}
    BY <2>2, TSResourceAssumption DEF DueTo, TSResourceAssumption
  <2>4. \A n \in Notifiers : Cardinality(DueTo(Due, n)) = 0
    BY <2>3, FS_EmptySet
  <2> QED
    BY <2>1, <2>4 DEF DebtInv
<1>2. ASSUME IInv, DebtInv, Next PROVE DebtInv'
  <2>1. PICK t \in Threads :
          \/ \E s \in Slots : Use(t, s)
          \/ Acquire(t) \/ Unlocked(t) \/ Destroy(t)
          \/ \E r \in Resources : CallDestroy(t, r)
    BY <1>2 DEF Next
  <2>2. ASSUME NEW s \in Slots, Use(t, s) PROVE DebtInv'
    BY <1>2, <2>2, OthersOwe, MoveOwes, DestructOwes DEF Use
  <2> QED
    BY <1>2, <2>1, <2>2, OthersOwe, AcquireOwes, UnlockedOwes
<1>3. ASSUME DebtInv, UNCHANGED vars PROVE DebtInv'
  BY <1>3, DebtQuiet DEF vars, DebtInv
<1> QED
  BY <1>1, <1>2, <1>3, InvariantIInv, PTL DEF Spec

(* Every lock() with an INotify is followed by one call of unlocked()
   (ts_resource.hpp:81, 176), as long as no Accessor that owns a resource is
   assigned to. *)
THEOREM NotifiedOnce == ASSUME ~Overwrites PROVE Spec => []EveryUnlockNotified
<1>1. DebtInv => EveryUnlockNotified
  BY DebtorsAreDue DEF DebtInv, EveryUnlockNotified
<1> QED
  BY <1>1, InvariantDebtInv, PTL

(* Even if one is, there are never more notifications than there were locks. *)
THEOREM NeverNotifiedTwice ==
  Spec => [](\A n \in Notifiers : Cardinality(Debtors(n)) <= owed[n])
<1>1. DebtInv => \A n \in Notifiers : Cardinality(Debtors(n)) <= owed[n]
  BY DebtorsAreDue DEF DebtInv
<1> QED
  BY <1>1, InvariantDebtInv, PTL

(* Every variable stays in its set: unlocked() is never called more often than it
   is due. *)
THEOREM TypesCorrect == Spec => []TypeOK
<1>1. IInv /\ DebtInv => TypeOK
  BY DEF IInv, Types, DebtInv, TypeOK
<1> QED
  BY <1>1, InvariantIInv, InvariantDebtInv, PTL

=============================================================================
