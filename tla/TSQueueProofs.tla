--------------------------- MODULE TSQueueProofs ---------------------------
(***************************************************************************)
(* Theorems about TSQueue, for any number of threads, items and any size.  *)
(* Along the whole module the argument is the inductive invariant IInv:    *)
(* who holds the mutex, which operation can be where, and what a thread    *)
(* that holds the mutex knows about the queue.                             *)
(***************************************************************************)
EXTENDS TSQueue, FiniteSetTheorems, TLAPS

(* The labels at which a thread holds the mutex. *)
Critical == {"test", "park", "lastTest", "body"}

(* The mutex belongs to the one thread that is inside. *)
MutexInv == \A t \in Threads : pc[t] \in Critical <=> m_queue_mutex = t

(* The operations that can be at each label. *)
OpInv ==
  \A t \in Threads :
    /\ pc[t] = "entry" => op[t] \in Pushes \cup Closers
    /\ pc[t] = "announce" => op[t] \in Closers
    /\ pc[t] \in {"lock", "body"} => op[t] \in Operations \ {"stop"}
    /\ pc[t] \in {"test", "park", "asleep", "woken"} => op[t] \in Pushes \cup Readers
    /\ pc[t] \in {"expired", "lastTest"} => op[t] = "pop_for"
    /\ pc[t] # "idle" /\ op[t] \in Pushes => item[t] \in Items

(* What a thread has found out under the mutex is still true. *)
KnownInv ==
  \A t \in Threads :
    /\ pc[t] = "body" /\ op[t] \in Pushes \cup Readers => WaitPredicate(t)
    /\ pc[t] = "park" /\ op[t] \in Pushes => Len(m_queue) >= MaxSize
    /\ pc[t] = "park" /\ op[t] \in Readers => m_queue = <<>>

(* The inductive invariant. *)
IInv == TypeOK /\ MutexInv /\ OpInv /\ KnownInv

-----------------------------------------------------------------------------
LEMMA InitIInv == Init => IInv
<1> SUFFICES ASSUME Init PROVE IInv
  OBVIOUS
<1>1. TypeOK
  <2>1. <<"void">> \in Results
    BY DEF Results
  <2>2. <<>> \in Seq(Items)
    OBVIOUS
  <2>3. result \in [Threads -> Results]
    BY <2>1 DEF Init
  <2> QED
    BY <2>2, <2>3 DEF Init, TypeOK, Labels
<1>2. MutexInv
  BY TSQueueAssumption DEF Init, MutexInv, Critical, TSQueueAssumption
<1>3. OpInv /\ KnownInv
  BY DEF Init, OpInv, KnownInv
<1> QED
  BY <1>1, <1>2, <1>3 DEF IInv

(* Every variable keeps its type. *)
LEMMA NextTypeOK == IInv /\ [Next]_vars => TypeOK'
<1> SUFFICES ASSUME IInv, [Next]_vars PROVE TypeOK'
  OBVIOUS
<1> USE DEF IInv, TypeOK, Labels
<1>1. CASE UNCHANGED vars
  BY <1>1 DEF vars
<1> SUFFICES ASSUME NEW t \in Threads, Call(t) \/ Continue(t) \/ SpuriousWakeup(t)
             PROVE TypeOK'
  BY <1>1 DEF Next
<1>2. CASE Call(t)
  <2>1. PICK o \in Calls[t] :
          /\ op' = [op EXCEPT ![t] = o]
          /\ \/ \E i \in unsent : /\ item' = [item EXCEPT ![t] = i]
                                  /\ unsent' = unsent \ {i}
             \/ UNCHANGED <<item, unsent>>
          /\ pc' = [pc EXCEPT ![t] = IF o \in Pushes \cup Closers THEN "entry" ELSE "lock"]
    BY <1>2 DEF Call, Goto
  <2>2. o \in Operations
    BY TSQueueAssumption DEF TSQueueAssumption
  <2> QED
    BY <1>2, <2>1, <2>2 DEF Call
<1>3. CASE PushRefused(t)
  BY <1>3 DEF PushRefused, Goto, Results
<1>4. CASE PushAdmitted(t)
  BY <1>4 DEF PushAdmitted, Goto
<1>5. CASE StopStore(t)
  BY <1>5 DEF StopStore, Goto
<1>6. CASE StopNotifyAll(t)
  BY <1>6 DEF StopNotifyAll, Results
<1>7. CASE Lock(t)
  BY <1>7 DEF Lock, Goto
<1>8. CASE Relock(t)
  BY <1>8 DEF Relock, Goto
<1>9. CASE TestPasses(t)
  BY <1>9 DEF TestPasses, Goto
<1>10. CASE TestFails(t)
  BY <1>10 DEF TestFails, Goto
<1>11. CASE GiveUp(t)
  BY <1>11 DEF GiveUp, Goto, Return, Results
<1>12. CASE Park(t)
  BY <1>12 DEF Park, Goto
<1>13. CASE SpuriousWakeup(t)
  BY <1>13 DEF SpuriousWakeup, Goto
<1>14. CASE Expire(t)
  BY <1>14 DEF Expire, Goto
<1>15. CASE PushBody(t)
  <2>1. item[t] \in Items /\ m_queue' \in Seq(Items)
    BY <1>15 DEF PushBody, OpInv
  <2>2. pc' \in [Threads -> Labels]
    BY <1>15 DEF PushBody, NotifyOneAndLeave, Goto, Sleepers
  <2> QED
    BY <1>15, <2>1, <2>2 DEF PushBody, Return, Results
<1>16. CASE TakeBody(t)
  <2>1. Head(m_queue) \in Items /\ m_queue' \in Seq(Items)
    BY <1>16 DEF TakeBody
  <2>2. pc' \in [Threads -> Labels]
    BY <1>16 DEF TakeBody, NotifyOneAndLeave, Goto, Sleepers
  <2> QED
    BY <1>16, <2>1, <2>2 DEF TakeBody, Return, Results
<1>17. CASE TakeBodyEmpty(t)
  BY <1>17 DEF TakeBodyEmpty, Goto, Return, Results
<1>18. CASE WaitBody(t)
  BY <1>18 DEF WaitBody, Goto, Return, Results
<1>19. CASE SizeBody(t)
  BY <1>19 DEF SizeBody, Goto, Return, Results
<1>20. CASE EmptyBody(t)
  BY <1>20 DEF EmptyBody, Goto, Return, Results
<1>21. CASE ClearBody(t)
  BY <1>21 DEF ClearBody, Goto, Return, Results
<1>22. CASE DestroyBody(t)
  BY <1>22 DEF DestroyBody, Goto, Return, Results
<1> QED
  BY <1>2, <1>3, <1>4, <1>5, <1>6, <1>7, <1>8, <1>9, <1>10, <1>11, <1>12, <1>13,
     <1>14, <1>15, <1>16, <1>17, <1>18, <1>19, <1>20, <1>21, <1>22 DEF Continue

(* The mutex keeps belonging to the one thread that is inside. *)
LEMMA NextMutexInv == IInv /\ [Next]_vars => MutexInv'
<1> SUFFICES ASSUME IInv, [Next]_vars PROVE MutexInv'
  OBVIOUS
<1>1. CASE UNCHANGED vars
  BY <1>1 DEF vars, IInv, MutexInv
<1> SUFFICES ASSUME NEW t \in Threads, Call(t) \/ Continue(t) \/ SpuriousWakeup(t)
             PROVE MutexInv'
  BY <1>1 DEF Next
<1>2. None \notin Threads
  BY TSQueueAssumption DEF TSQueueAssumption
<1> USE <1>2 DEF IInv, TypeOK, MutexInv, Critical, Goto, Return
<1>3. CASE Call(t)
  <2>1. pc[t] = "idle" /\ pc' \in {[pc EXCEPT ![t] = "entry"], [pc EXCEPT ![t] = "lock"]}
    BY <1>3 DEF Call
  <2> QED
    BY <1>3, <2>1 DEF Call
<1>4. CASE PushRefused(t) \/ PushAdmitted(t) \/ StopStore(t) \/ SpuriousWakeup(t) \/ Expire(t)
  BY <1>4 DEF PushRefused, PushAdmitted, StopStore, SpuriousWakeup, Expire
<1>5. CASE StopNotifyAll(t)
  BY <1>5 DEF StopNotifyAll, Sleepers
<1>6. CASE Lock(t) \/ Relock(t)
  BY <1>6 DEF Lock, Relock
<1>7. CASE TestPasses(t) \/ TestFails(t)
  BY <1>7 DEF TestPasses, TestFails
<1>8. CASE GiveUp(t) \/ Park(t)
  BY <1>8 DEF GiveUp, Park
<1>9. CASE PushBody(t)
  <2>1. pc' = [pc EXCEPT ![t] = "idle"]
        \/ \E u \in Threads : pc[u] = "asleep" /\ pc' = [pc EXCEPT ![t] = "idle", ![u] = "woken"]
    BY <1>9 DEF PushBody, NotifyOneAndLeave, Sleepers
  <2> QED
    BY <1>9, <2>1 DEF PushBody
<1>10. CASE TakeBody(t)
  <2>1. pc' = [pc EXCEPT ![t] = "idle"]
        \/ \E u \in Threads : pc[u] = "asleep" /\ pc' = [pc EXCEPT ![t] = "idle", ![u] = "woken"]
    BY <1>10 DEF TakeBody, NotifyOneAndLeave, Sleepers
  <2> QED
    BY <1>10, <2>1 DEF TakeBody
<1>11. CASE TakeBodyEmpty(t) \/ WaitBody(t) \/ SizeBody(t) \/ EmptyBody(t) \/ ClearBody(t)
              \/ DestroyBody(t)
  BY <1>11 DEF TakeBodyEmpty, WaitBody, SizeBody, EmptyBody, ClearBody, DestroyBody
<1> QED
  BY <1>3, <1>4, <1>5, <1>6, <1>7, <1>8, <1>9, <1>10, <1>11 DEF Continue

(* Every thread keeps to the labels of its operation. *)
LEMMA NextOpInv == IInv /\ [Next]_vars => OpInv'
<1> SUFFICES ASSUME IInv, [Next]_vars PROVE OpInv'
  OBVIOUS
<1>1. CASE UNCHANGED vars
  BY <1>1 DEF vars, IInv, OpInv
<1> SUFFICES ASSUME NEW t \in Threads, Call(t) \/ Continue(t) \/ SpuriousWakeup(t)
             PROVE OpInv'
  BY <1>1 DEF Next
<1> USE DEF IInv, TypeOK, OpInv, Goto, Return
<1>2. CASE Call(t)
  <2>1. PICK o \in Calls[t] :
          /\ op' = [op EXCEPT ![t] = o]
          /\ \/ /\ o \in Pushes
                /\ \E i \in unsent : item' = [item EXCEPT ![t] = i]
             \/ o \notin Pushes /\ item' = item
          /\ pc' = [pc EXCEPT ![t] = IF o \in Pushes \cup Closers THEN "entry" ELSE "lock"]
    BY <1>2 DEF Call
  <2>2. o \in Operations
    BY TSQueueAssumption DEF TSQueueAssumption
  <2> QED
    BY <2>1, <2>2 DEF Operations, Pushes, Closers, Readers, Takes
<1>3. CASE PushRefused(t) \/ PushAdmitted(t) \/ StopStore(t) \/ SpuriousWakeup(t) \/ Expire(t)
  BY <1>3 DEF PushRefused, PushAdmitted, StopStore, SpuriousWakeup, Expire,
     Operations, Pushes, Closers, Readers, Takes
<1>4. CASE StopNotifyAll(t)
  BY <1>4 DEF StopNotifyAll, Sleepers, Operations, Pushes, Closers, Readers, Takes
<1>5. CASE Lock(t)
  BY <1>5 DEF Lock
<1>6. CASE Relock(t)
  BY <1>6 DEF Relock
<1>7. CASE TestPasses(t) \/ TestFails(t)
  BY <1>7 DEF TestPasses, TestFails, Operations, Pushes, Readers, Takes
<1>8. CASE GiveUp(t) \/ Park(t)
  BY <1>8 DEF GiveUp, Park
<1>9. CASE PushBody(t)
  BY <1>9 DEF PushBody, NotifyOneAndLeave, Sleepers
<1>10. CASE TakeBody(t)
  BY <1>10 DEF TakeBody, NotifyOneAndLeave, Sleepers
<1>11. CASE TakeBodyEmpty(t) \/ WaitBody(t) \/ SizeBody(t) \/ EmptyBody(t) \/ ClearBody(t)
              \/ DestroyBody(t)
  BY <1>11 DEF TakeBodyEmpty, WaitBody, SizeBody, EmptyBody, ClearBody, DestroyBody
<1> QED
  BY <1>2, <1>3, <1>4, <1>5, <1>6, <1>7, <1>8, <1>9, <1>10, <1>11 DEF Continue

(* While t holds the mutex nobody else changes the queue, and m_stopped is
   never reset: what t knows stays true. *)
LEMMA NextKnownInv == IInv /\ [Next]_vars => KnownInv'
<1> SUFFICES ASSUME IInv, [Next]_vars PROVE KnownInv'
  OBVIOUS
<1>1. CASE UNCHANGED vars
  BY <1>1 DEF vars, IInv, KnownInv, WaitPredicate
<1> SUFFICES ASSUME NEW t \in Threads, Call(t) \/ Continue(t) \/ SpuriousWakeup(t)
             PROVE KnownInv'
  BY <1>1 DEF Next
<1> USE DEF IInv, TypeOK, KnownInv, WaitPredicate, Goto, Return
<1>2. CASE Call(t)
  <2>1. /\ pc' \in {[pc EXCEPT ![t] = "entry"], [pc EXCEPT ![t] = "lock"]}
        /\ \E o \in Calls[t] : op' = [op EXCEPT ![t] = o]
    BY <1>2 DEF Call
  <2> QED
    BY <1>2, <2>1 DEF Call
<1>3. CASE PushRefused(t) \/ PushAdmitted(t) \/ SpuriousWakeup(t) \/ Expire(t)
  BY <1>3 DEF PushRefused, PushAdmitted, SpuriousWakeup, Expire
<1>4. CASE StopStore(t)
  BY <1>4 DEF StopStore
<1>5. CASE StopNotifyAll(t)
  BY <1>5 DEF StopNotifyAll
<1>6. CASE Lock(t)
  <2>1. pc'[t] = "body" => op[t] \notin Pushes \cup Readers
    BY <1>6 DEF Lock
  <2> QED
    BY <1>6, <2>1 DEF Lock
<1>7. CASE Relock(t)
  BY <1>7 DEF Relock
<1>8. CASE TestPasses(t)
  BY <1>8 DEF TestPasses
<1>9. CASE TestFails(t)
  <2>1. op[t] \in Pushes => Len(m_queue) >= MaxSize
    BY <1>9, TSQueueAssumption DEF TestFails, Pushes, TSQueueAssumption
  <2>2. op[t] \in Readers => m_queue = <<>>
    BY <1>9 DEF TestFails
  <2> QED
    BY <1>9, <2>1, <2>2 DEF TestFails
<1>10. CASE GiveUp(t) \/ Park(t)
  BY <1>10 DEF GiveUp, Park
(* The bodies: t holds the mutex and no other thread does. *)
<1>11. ASSUME pc[t] = "body", NEW u \in Threads, u # t
       PROVE  pc[u] \notin {"body", "park"}
  BY <1>11 DEF MutexInv, Critical
<1>12. CASE PushBody(t)
  <2>1. \A u \in Threads : pc'[u] \notin {"body", "park"}
    BY <1>12, <1>11 DEF PushBody, NotifyOneAndLeave, Sleepers
  <2> QED
    BY <2>1
<1>13. CASE TakeBody(t)
  <2>1. \A u \in Threads : pc'[u] \notin {"body", "park"}
    BY <1>13, <1>11 DEF TakeBody, NotifyOneAndLeave, Sleepers
  <2> QED
    BY <2>1
<1>14. CASE TakeBodyEmpty(t) \/ WaitBody(t) \/ SizeBody(t) \/ EmptyBody(t) \/ ClearBody(t)
              \/ DestroyBody(t)
  <2>1. \A u \in Threads : pc'[u] \notin {"body", "park"}
    BY <1>14, <1>11 DEF TakeBodyEmpty, WaitBody, SizeBody, EmptyBody, ClearBody, DestroyBody
  <2> QED
    BY <2>1
<1> QED
  BY <1>2, <1>3, <1>4, <1>5, <1>6, <1>7, <1>8, <1>9, <1>10, <1>12, <1>13, <1>14 DEF Continue

(* The inductive invariant holds in every behaviour. *)
THEOREM InvariantIInv == Spec => []IInv
<1>1. IInv /\ [Next]_vars => IInv'
  BY NextTypeOK, NextMutexInv, NextOpInv, NextKnownInv DEF IInv
<1> QED
  BY InitIInv, <1>1, PTL DEF Spec

(* Every variable stays in the set it is meant for, whatever is called. *)
THEOREM TypeCorrect == Spec => []TypeOK
<1>1. IInv => TypeOK
  BY DEF IInv
<1> QED
  BY InvariantIInv, <1>1, PTL

(* The mutex excludes: at most one thread is between lock and unlock. *)
THEOREM MutualExclusion ==
  Spec => [](\A t, u \in Threads : pc[t] \in Critical /\ pc[u] \in Critical => t = u)
<1>1. IInv => \A t, u \in Threads : pc[t] \in Critical /\ pc[u] \in Critical => t = u
  BY DEF IInv, MutexInv
<1> QED
  BY InvariantIInv, <1>1, PTL

-----------------------------------------------------------------------------
(* The queue with a limit never exceeds it, for any number of writers that
   are woken or arrive for the same free place. *)
THEOREM SizeIsBounded == Spec => []WithinMaxSize
<1>1. Init => WithinMaxSize
  BY TSQueueAssumption DEF Init, WithinMaxSize, TSQueueAssumption
<1>2. IInv /\ WithinMaxSize /\ [Next]_vars => WithinMaxSize'
  <2> SUFFICES ASSUME IInv, WithinMaxSize, [Next]_vars, MaxSize > 0
               PROVE  Len(m_queue') <= MaxSize
    BY DEF WithinMaxSize
  <2> USE TSQueueAssumption DEF IInv, TypeOK, WithinMaxSize, TSQueueAssumption
  <2>1. CASE UNCHANGED m_queue
    BY <2>1
  <2>2. CASE \E t \in Threads : PushBody(t)
    <3>1. PICK t \in Threads : PushBody(t)
      BY <2>2
    <3>2. Len(m_queue) < MaxSize
      BY <3>1 DEF PushBody, KnownInv, WaitPredicate, Readers, Takes, Pushes
    <3>3. item[t] \in Items
      BY <3>1 DEF PushBody, OpInv
    <3> QED
      BY <3>1, <3>2, <3>3 DEF PushBody
  <2>3. CASE \E t \in Threads : TakeBody(t)
    BY <2>3 DEF TakeBody
  <2>4. CASE \E t \in Threads : ClearBody(t)
    BY <2>4 DEF ClearBody
  <2> QED
    BY <2>1, <2>2, <2>3, <2>4 DEF vars, Next, Call, Continue, SpuriousWakeup, PushRefused,
       PushAdmitted, StopStore, StopNotifyAll, Lock, Relock, TestPasses, TestFails, GiveUp,
       Park, Expire, TakeBodyEmpty, WaitBody, SizeBody, EmptyBody, DestroyBody
<1> QED
  BY InvariantIInv, <1>1, <1>2, PTL DEF Spec

-----------------------------------------------------------------------------
(* No thread is in an operation that it may not call. *)
CallInv == \A t \in Threads : op[t] \in Calls[t] \cup {"none"}

LEMMA InvariantCallInv == Spec => []CallInv
<1>1. Init => CallInv
  BY DEF Init, CallInv
<1>2. IInv /\ CallInv /\ [Next]_vars => CallInv'
  <2> SUFFICES ASSUME IInv, CallInv, [Next]_vars PROVE CallInv'
    OBVIOUS
  <2>1. CASE UNCHANGED op
    BY <2>1 DEF CallInv
  <2>2. CASE \E t \in Threads : Call(t)
    <3>1. PICK t \in Threads : \E o \in Calls[t] : op' = [op EXCEPT ![t] = o]
      BY <2>2 DEF Call
    <3> QED
      BY <3>1 DEF CallInv, IInv, TypeOK
  <2> QED
    BY <2>1, <2>2 DEF vars, Next, Continue, SpuriousWakeup, PushRefused,
       PushAdmitted, StopStore, StopNotifyAll, Lock, Relock, TestPasses, TestFails, GiveUp,
       Park, Expire, PushBody, TakeBody, TakeBodyEmpty, WaitBody, SizeBody, EmptyBody,
       ClearBody, DestroyBody
<1> QED
  BY InvariantIInv, <1>1, <1>2, PTL DEF Spec

(* Counting awake threads is meaningful: there are finitely many. *)
LEMMA AwakeFinite ==
  ASSUME NEW ops PROVE /\ IsFiniteSet(Awake(ops))
                       /\ Cardinality(Awake(ops)) \in Nat
<1>1. Awake(ops) \subseteq Threads
  BY DEF Awake
<1> QED
  BY <1>1, TSQueueAssumption, FS_Subset, FS_CardinalityType DEF TSQueueAssumption

(* More threads awake, a larger count. *)
LEMMA CountMonotone ==
  ASSUME NEW A, NEW B, IsFiniteSet(B), A \subseteq B
  PROVE  Cardinality(A) <= Cardinality(B)
BY FS_Subset

(* One thread leaves, the count drops by one. *)
LEMMA CountWithout ==
  ASSUME NEW A, NEW B, NEW t, IsFiniteSet(A), IsFiniteSet(B), A \ {t} \subseteq B
  PROVE  Cardinality(A) - 1 <= Cardinality(B)
<1>1. /\ IsFiniteSet(A \ {t})
      /\ Cardinality(A \ {t}) = IF t \in A THEN Cardinality(A) - 1 ELSE Cardinality(A)
  BY FS_RemoveElement
<1>2. Cardinality(A \ {t}) <= Cardinality(B)
  BY CountMonotone
<1>3. Cardinality(A) \in Nat /\ Cardinality(B) \in Nat
  BY FS_CardinalityType
<1> QED
  BY <1>1, <1>2, <1>3

(* One thread joins, the count grows by one. *)
LEMMA CountWith ==
  ASSUME NEW A, NEW B, NEW u, IsFiniteSet(A), IsFiniteSet(B), u \notin A, A \cup {u} \subseteq B
  PROVE  Cardinality(A) + 1 <= Cardinality(B)
<1>1. Cardinality(A \cup {u}) = Cardinality(A) + 1
  BY FS_AddElement
<1>2. Cardinality(A \cup {u}) <= Cardinality(B)
  BY CountMonotone
<1> QED
  BY <1>1, <1>2

(* If nobody calls the public wait_for_data(), a reader never sleeps in front
   of more items than there are readers awake: the notify_one of every push
   is enough, for any number of readers and writers, with timeouts, spurious
   wakeups and stops. *)
THEOREM ReadersAreNotForgotten ==
  (\A t \in Threads : "wait_for_data" \notin Calls[t]) => (Spec => []NoSleepingReaderForgotten)
<1> SUFFICES ASSUME \A t \in Threads : "wait_for_data" \notin Calls[t]
             PROVE  Spec => []NoSleepingReaderForgotten
  OBVIOUS
<1>1. Init => NoSleepingReaderForgotten
  BY DEF Init, NoSleepingReaderForgotten, Sleepers
<1>2. IInv /\ CallInv /\ NoSleepingReaderForgotten /\ [Next]_vars => NoSleepingReaderForgotten'
  <2> SUFFICES ASSUME IInv, CallInv, NoSleepingReaderForgotten, [Next]_vars,
                      NEW s \in Threads, pc'[s] = "asleep", op'[s] \in Takes
               PROVE  Len(m_queue') <= Cardinality(Awake(Takes)')
    BY DEF NoSleepingReaderForgotten, Sleepers
  <2> DEFINE A == Awake(Takes)
             N == Len(m_queue)
  <2>1. /\ IsFiniteSet(A) /\ Cardinality(A) \in Nat
        /\ IsFiniteSet(A') /\ Cardinality(A') \in Nat
    <3>1. A' \subseteq Threads
      BY DEF Awake
    <3> QED
      BY <3>1, AwakeFinite, TSQueueAssumption, FS_Subset, FS_CardinalityType DEF TSQueueAssumption
  <2>2. CASE m_queue' = <<>>
    BY <2>1, <2>2
  (* A step that wakes threads at most, and lets none fall asleep. *)
  <2>3. ASSUME m_queue' = m_queue, A \subseteq A', pc[s] = "asleep", op[s] \in Takes
        PROVE  N' <= Cardinality(A')
    <3>1. N <= Cardinality(A)
      BY <2>3 DEF NoSleepingReaderForgotten, Sleepers
    <3>2. Cardinality(A) <= Cardinality(A')
      BY <2>1, <2>3, CountMonotone
    <3> QED
      BY <2>1, <2>3, <3>1, <3>2 DEF IInv, TypeOK
  <2>4. CASE UNCHANGED vars
    BY <2>3, <2>4 DEF vars, Awake
  <2> SUFFICES ASSUME NEW t \in Threads, Call(t) \/ Continue(t) \/ SpuriousWakeup(t)
               PROVE  N' <= Cardinality(A')
    BY <2>4 DEF Next
  <2> USE DEF IInv, TypeOK, Goto, Return
  <2>5. CASE Call(t)
    <3>1. pc[t] = "idle" /\ pc' \in {[pc EXCEPT ![t] = "entry"], [pc EXCEPT ![t] = "lock"]}
          /\ \E o \in Calls[t] : op' = [op EXCEPT ![t] = o]
      BY <2>5 DEF Call
    <3> QED
      BY <2>5, <3>1, <2>3 DEF Call, Awake
  <2>6. CASE PushRefused(t) \/ PushAdmitted(t) \/ StopStore(t)
    BY <2>6, <2>3 DEF PushRefused, PushAdmitted, StopStore, Awake
  <2>7. CASE StopNotifyAll(t)
    BY <2>7 DEF StopNotifyAll, Sleepers, Readers
  <2>8. CASE Lock(t)
    BY <2>8, <2>3 DEF Lock, Awake
  <2>9. CASE Relock(t) \/ TestPasses(t) \/ TestFails(t) \/ SpuriousWakeup(t) \/ Expire(t)
    BY <2>9, <2>3 DEF Relock, TestPasses, TestFails, SpuriousWakeup, Expire, Awake
  <2>10. CASE GiveUp(t)
    <3>1. op[t] = "pop_for"
      BY <2>10 DEF GiveUp, OpInv
    <3>2. m_queue = <<>>
      BY <2>10, <3>1 DEF GiveUp, WaitPredicate, Readers, Takes
    <3> QED
      BY <2>10, <3>2, <2>2 DEF GiveUp
  <2>11. CASE Park(t)
    <3>1. CASE op[t] \in Readers
      BY <2>11, <3>1, <2>2 DEF Park, KnownInv
    <3>2. CASE op[t] \notin Readers
      BY <2>11, <3>2, <2>3 DEF Park, Awake, Readers
    <3> QED
      BY <3>1, <3>2
  <2>12. CASE PushBody(t)
    (* s was asleep before the push, so somebody was there to be woken. *)
    <3>1. pc[s] = "asleep" /\ op[s] \in Takes /\ s \in Sleepers(Readers)
      BY <2>12 DEF PushBody, NotifyOneAndLeave, Sleepers, Readers
    <3>2. PICK u \in Threads : /\ pc[u] = "asleep" /\ op[u] \in Readers
                               /\ pc' = [pc EXCEPT ![t] = "idle", ![u] = "woken"]
      BY <2>12, <3>1 DEF PushBody, NotifyOneAndLeave, Sleepers
    <3>3. op[u] \in Takes
      BY <3>2 DEF CallInv, Readers, Takes
    <3>4. u \notin A /\ A \cup {u} \subseteq A'
      BY <2>12, <3>2, <3>3 DEF PushBody, Awake, Pushes, Takes
    <3>5. Cardinality(A) + 1 <= Cardinality(A')
      BY <2>1, <3>4, CountWith
    <3>6. N <= Cardinality(A)
      BY <3>1 DEF NoSleepingReaderForgotten, Sleepers
    <3>7. N' = N + 1
      BY <2>12 DEF PushBody, OpInv
    <3> QED
      BY <2>1, <3>5, <3>6, <3>7
  <2>13. CASE TakeBody(t)
    <3>1. pc[s] = "asleep" /\ op[s] \in Takes
      BY <2>13 DEF TakeBody, NotifyOneAndLeave, Sleepers
    <3>2. A \ {t} \subseteq A'
      BY <2>13 DEF TakeBody, NotifyOneAndLeave, Sleepers, Awake
    <3>3. Cardinality(A) - 1 <= Cardinality(A')
      BY <2>1, <3>2, CountWithout
    <3>4. N <= Cardinality(A)
      BY <3>1 DEF NoSleepingReaderForgotten, Sleepers
    <3>5. N' = N - 1
      BY <2>13 DEF TakeBody
    <3> QED
      BY <2>1, <3>3, <3>4, <3>5
  <2>14. CASE TakeBodyEmpty(t) \/ ClearBody(t)
    BY <2>14, <2>2 DEF TakeBodyEmpty, ClearBody
  <2>15. CASE WaitBody(t) \/ SizeBody(t) \/ EmptyBody(t) \/ DestroyBody(t)
    BY <2>15, <2>3 DEF WaitBody, SizeBody, EmptyBody, DestroyBody, Awake, Takes
  <2> QED
    BY <2>5, <2>6, <2>7, <2>8, <2>9, <2>10, <2>11, <2>12, <2>13, <2>14, <2>15 DEF Continue
<1> QED
  BY InvariantIInv, InvariantCallInv, <1>1, <1>2, PTL DEF Spec

(* If nobody calls clear(), a writer never sleeps in front of more free
   places than there are writers awake: the notify_one of every pop that
   takes an item is enough. *)
THEOREM WritersAreNotForgotten ==
  (\A t \in Threads : "clear" \notin Calls[t]) => (Spec => []NoSleepingWriterForgotten)
<1> SUFFICES ASSUME \A t \in Threads : "clear" \notin Calls[t]
             PROVE  Spec => []NoSleepingWriterForgotten
  OBVIOUS
<1>1. Init => NoSleepingWriterForgotten
  BY DEF Init, NoSleepingWriterForgotten, Sleepers
<1>2. IInv /\ CallInv /\ NoSleepingWriterForgotten /\ [Next]_vars => NoSleepingWriterForgotten'
  <2> SUFFICES ASSUME IInv, CallInv, NoSleepingWriterForgotten, [Next]_vars,
                      NEW s \in Threads, pc'[s] = "asleep", op'[s] \in Pushes
               PROVE  MaxSize - Len(m_queue') <= Cardinality(Awake(Pushes)')
    BY DEF NoSleepingWriterForgotten, Sleepers
  <2> DEFINE A == Awake(Pushes)
             Room == MaxSize - Len(m_queue)
  <2>1. /\ IsFiniteSet(A) /\ Cardinality(A) \in Nat
        /\ IsFiniteSet(A') /\ Cardinality(A') \in Nat
    <3>1. A' \subseteq Threads
      BY DEF Awake
    <3> QED
      BY <3>1, AwakeFinite, TSQueueAssumption, FS_Subset, FS_CardinalityType DEF TSQueueAssumption
  <2> USE TSQueueAssumption DEF TSQueueAssumption
  (* A step that wakes threads at most, and lets none fall asleep. *)
  <2>2. ASSUME m_queue' = m_queue, A \subseteq A', pc[s] = "asleep", op[s] \in Pushes
        PROVE  Room' <= Cardinality(A')
    <3>1. Room <= Cardinality(A)
      BY <2>2 DEF NoSleepingWriterForgotten, Sleepers
    <3>2. Cardinality(A) <= Cardinality(A')
      BY <2>1, <2>2, CountMonotone
    <3> QED
      BY <2>1, <2>2, <3>1, <3>2 DEF IInv, TypeOK
  <2>3. CASE UNCHANGED vars
    BY <2>2, <2>3 DEF vars, Awake
  <2> SUFFICES ASSUME NEW t \in Threads, Call(t) \/ Continue(t) \/ SpuriousWakeup(t)
               PROVE  Room' <= Cardinality(A')
    BY <2>3 DEF Next
  <2> USE DEF IInv, TypeOK, Goto, Return
  <2>4. CASE Call(t)
    <3>1. pc[t] = "idle" /\ pc' \in {[pc EXCEPT ![t] = "entry"], [pc EXCEPT ![t] = "lock"]}
          /\ \E o \in Calls[t] : op' = [op EXCEPT ![t] = o]
      BY <2>4 DEF Call
    <3> QED
      BY <2>4, <3>1, <2>2 DEF Call, Awake
  <2>5. CASE PushRefused(t) \/ PushAdmitted(t) \/ StopStore(t)
    BY <2>5, <2>2 DEF PushRefused, PushAdmitted, StopStore, Awake
  <2>6. CASE StopNotifyAll(t)
    <3>1. op[t] \notin Pushes
      BY <2>6 DEF StopNotifyAll, OpInv, Closers, Pushes
    <3> QED
      BY <2>6, <3>1, <2>2 DEF StopNotifyAll, Awake
  <2>7. CASE Lock(t)
    BY <2>7, <2>2 DEF Lock, Awake
  <2>8. CASE Relock(t) \/ TestPasses(t) \/ TestFails(t) \/ SpuriousWakeup(t) \/ Expire(t)
    BY <2>8, <2>2 DEF Relock, TestPasses, TestFails, SpuriousWakeup, Expire, Awake
  <2>9. CASE GiveUp(t)
    <3>1. op[t] \notin Pushes
      BY <2>9 DEF GiveUp, OpInv, Pushes
    <3> QED
      BY <2>9, <3>1, <2>2 DEF GiveUp, Awake
  <2>10. CASE Park(t)
    <3>1. CASE op[t] \in Pushes
      BY <2>1, <2>10, <3>1 DEF Park, KnownInv
    <3>2. CASE op[t] \notin Pushes
      BY <2>10, <3>2, <2>2 DEF Park, Awake
    <3> QED
      BY <3>1, <3>2
  <2>11. CASE PushBody(t)
    <3>1. pc[s] = "asleep" /\ op[s] \in Pushes
      BY <2>11 DEF PushBody, NotifyOneAndLeave, Sleepers
    <3>2. A \ {t} \subseteq A'
      BY <2>11 DEF PushBody, NotifyOneAndLeave, Sleepers, Awake
    <3>3. Cardinality(A) - 1 <= Cardinality(A')
      BY <2>1, <3>2, CountWithout
    <3>4. Room <= Cardinality(A)
      BY <3>1 DEF NoSleepingWriterForgotten, Sleepers
    <3>5. Room' = Room - 1
      BY <2>11 DEF PushBody, OpInv
    <3> QED
      BY <2>1, <3>3, <3>4, <3>5
  <2>12. CASE TakeBody(t)
    (* s was asleep before the pop, so somebody was there to be woken. *)
    <3>1. pc[s] = "asleep" /\ op[s] \in Pushes /\ s \in Sleepers(Pushes)
      BY <2>12 DEF TakeBody, NotifyOneAndLeave, Sleepers
    <3>2. PICK u \in Threads : /\ pc[u] = "asleep" /\ op[u] \in Pushes
                               /\ pc' = [pc EXCEPT ![t] = "idle", ![u] = "woken"]
      BY <2>12, <3>1 DEF TakeBody, NotifyOneAndLeave, Sleepers
    <3>3. u \notin A /\ A \cup {u} \subseteq A'
      BY <2>12, <3>2 DEF TakeBody, Awake, Pushes, Takes
    <3>4. Cardinality(A) + 1 <= Cardinality(A')
      BY <2>1, <3>3, CountWith
    <3>5. Room <= Cardinality(A)
      BY <3>1 DEF NoSleepingWriterForgotten, Sleepers
    <3>6. Room' = Room + 1
      BY <2>12 DEF TakeBody
    <3> QED
      BY <2>1, <3>4, <3>5, <3>6
  <2>13. CASE TakeBodyEmpty(t) \/ WaitBody(t) \/ SizeBody(t) \/ EmptyBody(t) \/ DestroyBody(t)
    BY <2>13, <2>2 DEF TakeBodyEmpty, WaitBody, SizeBody, EmptyBody, DestroyBody, Awake, Pushes,
       Takes
  <2>14. ~ClearBody(t)
    BY DEF ClearBody, CallInv
  <2> QED
    BY <2>4, <2>5, <2>6, <2>7, <2>8, <2>9, <2>10, <2>11, <2>12, <2>13, <2>14 DEF Continue
<1> QED
  BY InvariantIInv, InvariantCallInv, <1>1, <1>2, PTL DEF Spec

-----------------------------------------------------------------------------
(* Once the flag is set, what is in the queue and what admitted pushes will still
   append only shrinks, for any number of writers: no push is admitted any more,
   and each of those that were appends once. *)
THEOREM StoppedQueueOnlyDrains == Spec => StoppedQueueDrains
<1>1. IInv /\ IInv' /\ [Next]_vars
      => [m_stopped => Len(m_queue') + Cardinality(Admitted') <= Len(m_queue) + Cardinality(Admitted)]_vars
  <2> DEFINE Left == Len(m_queue) + Cardinality(Admitted)
  <2> SUFFICES ASSUME IInv, IInv', Next, m_stopped PROVE Left' <= Left
    BY DEF vars
  <2> USE DEF IInv, TypeOK, Goto, Return
  <2>1. /\ IsFiniteSet(Admitted) /\ Cardinality(Admitted) \in Nat
        /\ IsFiniteSet(Admitted') /\ Cardinality(Admitted') \in Nat
    <3>1. Admitted \subseteq Threads /\ Admitted' \subseteq Threads
      BY DEF Admitted
    <3> QED
      BY <3>1, TSQueueAssumption, FS_Subset, FS_CardinalityType DEF TSQueueAssumption
  <2>2. Len(m_queue) \in Nat /\ Len(m_queue') \in Nat
    OBVIOUS
  <2>3. ASSUME Len(m_queue') <= Len(m_queue), Admitted' \subseteq Admitted
        PROVE  Left' <= Left
    <3>1. Cardinality(Admitted') <= Cardinality(Admitted)
      BY <2>1, <2>3, CountMonotone
    <3> QED
      BY <2>1, <2>2, <2>3, <3>1
  <2> SUFFICES ASSUME NEW t \in Threads, Call(t) \/ Continue(t) \/ SpuriousWakeup(t)
               PROVE  Left' <= Left
    BY DEF Next
  <2>4. CASE Call(t)
    <3>1. /\ pc[t] = "idle" /\ m_queue' = m_queue
          /\ \E o \in Calls[t] :
               /\ op' = [op EXCEPT ![t] = o]
               /\ pc' = [pc EXCEPT ![t] = IF o \in Pushes \cup Closers THEN "entry" ELSE "lock"]
      BY <2>4 DEF Call
    <3> QED
      BY <3>1, <2>2, <2>3 DEF Admitted
  <2>5. CASE PushRefused(t) \/ PushAdmitted(t) \/ SpuriousWakeup(t) \/ Expire(t)
    <3>1. m_queue' = m_queue
      BY <2>5 DEF PushRefused, PushAdmitted, SpuriousWakeup, Expire
    <3>2. Admitted' \subseteq Admitted
      BY <2>5 DEF PushRefused, PushAdmitted, SpuriousWakeup, Expire, Admitted
    <3> QED
      BY <3>1, <3>2, <2>2, <2>3
  <2>12. CASE StopStore(t)
    <3>1. op[t] \notin Pushes
      BY <2>12 DEF StopStore, Pushes, Closers
    <3> QED
      BY <2>12, <3>1, <2>2, <2>3 DEF StopStore, Admitted
  <2>6. CASE StopNotifyAll(t)
    <3>1. op[t] \notin Pushes
      BY <2>6 DEF StopNotifyAll, OpInv, Pushes, Closers
    <3> QED
      BY <2>6, <3>1, <2>2, <2>3 DEF StopNotifyAll, Sleepers, Admitted
  <2>7. CASE Lock(t) \/ Relock(t) \/ TestPasses(t) \/ TestFails(t) \/ GiveUp(t) \/ Park(t)
    <3>1. m_queue' = m_queue
      BY <2>7 DEF Lock, Relock, TestPasses, TestFails, GiveUp, Park
    <3>2. Admitted' \subseteq Admitted
      BY <2>7 DEF Lock, Relock, TestPasses, TestFails, GiveUp, Park, Admitted
    <3> QED
      BY <3>1, <3>2, <2>2, <2>3
  <2>8. CASE PushBody(t)
    <3>1. t \in Admitted /\ t \notin Admitted' /\ Admitted' \cup {t} \subseteq Admitted
      BY <2>8 DEF PushBody, NotifyOneAndLeave, Sleepers, Admitted
    <3>2. Cardinality(Admitted') + 1 <= Cardinality(Admitted)
      BY <2>1, <3>1, CountWith
    <3>3. Len(m_queue') = Len(m_queue) + 1
      BY <2>8 DEF PushBody, OpInv
    <3> QED
      BY <2>1, <2>2, <3>2, <3>3
  <2>9. CASE TakeBody(t)
    <3>1. Len(m_queue') <= Len(m_queue)
      BY <2>9 DEF TakeBody
    <3>2. Admitted' \subseteq Admitted
      BY <2>9 DEF TakeBody, NotifyOneAndLeave, Sleepers, Admitted
    <3> QED
      BY <3>1, <3>2, <2>3
  <2>10. CASE TakeBodyEmpty(t) \/ WaitBody(t) \/ SizeBody(t) \/ EmptyBody(t) \/ DestroyBody(t)
    <3>1. m_queue' = m_queue
      BY <2>10 DEF TakeBodyEmpty, WaitBody, SizeBody, EmptyBody, DestroyBody
    <3>2. Admitted' \subseteq Admitted
      BY <2>10 DEF TakeBodyEmpty, WaitBody, SizeBody, EmptyBody, DestroyBody, Admitted
    <3> QED
      BY <3>1, <3>2, <2>2, <2>3
  <2>11. CASE ClearBody(t)
    BY <2>11, <2>2, <2>3 DEF ClearBody, Admitted
  <2> QED
    BY <2>4, <2>5, <2>6, <2>7, <2>8, <2>9, <2>10, <2>11, <2>12 DEF Continue
<1> QED
  BY InvariantIInv, <1>1, PTL DEF Spec, StoppedQueueDrains

-----------------------------------------------------------------------------
(* TSQueue implements Pipe: with any number of threads, every operation takes
   effect at one instant between its call and its return.  A step of TSQueue
   is the step of Pipe in which its thread's call takes effect or returns, or
   it is invisible. *)
THEOREM QueueIsLinearizable == Spec => Linearizable
<1> USE DEF P!Writes, P!Reads, P!Closes
<1>1. Init => P!Init
  BY DEF Init, P!Init, Status
<1>2. IInv /\ [Next]_vars => [P!Next]_(P!vars)
  <2> SUFFICES ASSUME IInv, [Next]_vars PROVE [P!Next]_(P!vars)
    OBVIOUS
  <2>1. CASE UNCHANGED vars
    BY <2>1 DEF vars, P!vars, Status
  <2> SUFFICES ASSUME alive, NEW t \in Threads, Call(t) \/ Continue(t) \/ SpuriousWakeup(t)
               PROVE  [P!Next]_(P!vars)
    BY <2>1 DEF Next
  <2> USE DEF IInv, TypeOK, Goto, Return
  (* How the status of t, and nobody else's, moves. *)
  <2>2. ASSUME NEW label, pc' = [pc EXCEPT ![t] = label], UNCHANGED op
        PROVE  Status' = [Status EXCEPT ![t] =
                            IF label = "idle" THEN "idle"
                            ELSE IF op[t] \in Closers /\ label # "entry" THEN "closing"
                            ELSE "pending"]
    BY <2>2 DEF Status
  <2>3. CASE Call(t)
    <3>1. PICK o \in Calls[t] :
            /\ op' = [op EXCEPT ![t] = o]
            /\ \/ /\ o \in Pushes
                  /\ \E i \in unsent : /\ item' = [item EXCEPT ![t] = i]
                                       /\ unsent' = unsent \ {i}
               \/ o \notin Pushes /\ UNCHANGED <<item, unsent>>
            /\ pc' = [pc EXCEPT ![t] = IF o \in Pushes \cup Closers THEN "entry" ELSE "lock"]
      BY <2>3 DEF Call
    <3>2. Status[t] = "idle" /\ Status' = [Status EXCEPT ![t] = "pending"]
      BY <2>3, <3>1 DEF Call, Status
    <3>3. P!Call(t)
      BY <2>3, <3>1, <3>2 DEF Call, P!Call, Pushes
    <3> QED
      BY <3>3 DEF P!Next
  <2>4. CASE PushRefused(t)
    <3>1. P!WriteRefused(t)
      BY <2>4, <2>2 DEF PushRefused, P!WriteRefused, P!Pending, P!Finish, Status, Pushes, Closers
    <3> QED
      BY <3>1 DEF P!Next
  <2>5. CASE StopStore(t)
    <3>1. P!Stop(t)
      BY <2>5, <2>2 DEF StopStore, P!Stop, P!Pending, Status, Closers
    <3> QED
      BY <3>1 DEF P!Next
  <2>6. CASE StopNotifyAll(t)
    <3>1. CASE op[t] = "stop"
      <4>1. Status' = [Status EXCEPT ![t] = "idle"]
        BY <2>6, <3>1 DEF StopNotifyAll, Status, Sleepers, Readers, Takes, Closers
      <4>2. P!StopReturns(t)
        BY <2>6, <3>1, <4>1 DEF StopNotifyAll, P!StopReturns, P!Finish, Status, Closers
      <4> QED
        BY <4>2 DEF P!Next
    <3>2. CASE op[t] # "stop"
      <4>1. Status' = Status
        BY <2>6, <3>2 DEF StopNotifyAll, Status, Sleepers, Readers, Takes, Closers
      <4> QED
        BY <2>6, <3>2, <4>1 DEF StopNotifyAll, P!vars
    <3> QED
      BY <3>1, <3>2
  <2>7. CASE PushAdmitted(t) \/ Lock(t) \/ Relock(t) \/ TestPasses(t) \/ TestFails(t)
             \/ Park(t) \/ SpuriousWakeup(t) \/ Expire(t)
    <3>1. Status' = Status
      BY <2>7 DEF PushAdmitted, Lock, Relock, TestPasses, TestFails, Park, SpuriousWakeup,
         Expire, Status, OpInv, Closers, Pushes, Readers, Takes
    <3> QED
      BY <2>7, <3>1 DEF PushAdmitted, Lock, Relock, TestPasses, TestFails, Park,
         SpuriousWakeup, Expire, P!vars
  <2>8. CASE GiveUp(t)
    <3>1. op[t] = "pop_for" /\ m_queue = <<>>
      BY <2>8 DEF GiveUp, OpInv, WaitPredicate, Readers, Takes
    <3>2. P!ReadNothing(t)
      BY <2>8, <2>2, <3>1 DEF GiveUp, P!ReadNothing, P!Pending, P!Finish, Status, Closers
    <3> QED
      BY <3>2 DEF P!Next
  (* The bodies: the status of a sleeper that is woken does not change. *)
  <2>9. ASSUME NEW sleepers, sleepers \subseteq {u \in Threads : pc[u] = "asleep"},
               pc[t] = "body", NotifyOneAndLeave(t, sleepers), UNCHANGED op
        PROVE  Status' = [Status EXCEPT ![t] = "idle"]
    BY <2>9 DEF NotifyOneAndLeave, Status, OpInv, Closers, Pushes, Readers, Takes
  <2>10. CASE PushBody(t)
    <3>1. Status' = [Status EXCEPT ![t] = "idle"]
      BY <2>10, <2>9 DEF PushBody, Sleepers
    <3>2. P!HasRoom
      BY <2>10 DEF PushBody, KnownInv, WaitPredicate, P!HasRoom, Pushes, Readers, Takes
    <3>3. P!Write(t)
      BY <2>10, <3>1, <3>2 DEF PushBody, P!Write, P!Pending, P!Finish, Status, Pushes, Closers
    <3> QED
      BY <3>3 DEF P!Next
  <2>11. CASE TakeBody(t)
    <3>1. Status' = [Status EXCEPT ![t] = "idle"]
      BY <2>11, <2>9 DEF TakeBody, Sleepers
    <3>2. P!Read(t)
      BY <2>11, <3>1 DEF TakeBody, P!Read, P!Pending, P!Finish, Status, Takes, Closers
    <3> QED
      BY <3>2 DEF P!Next
  <2>12. CASE TakeBodyEmpty(t)
    <3>1. m_stopped
      BY <2>12 DEF TakeBodyEmpty, KnownInv, WaitPredicate, Pushes, Readers, Takes
    <3>2. P!ReadNothing(t)
      BY <2>12, <2>2, <3>1 DEF TakeBodyEmpty, P!ReadNothing, P!Pending, P!Finish, Status, Takes,
         Closers
    <3> QED
      BY <3>2 DEF P!Next
  <2>13. CASE WaitBody(t)
    <3>1. m_stopped \/ m_queue # <<>>
      BY <2>13 DEF WaitBody, KnownInv, WaitPredicate, Pushes, Readers, Takes
    <3>2. P!WaitForData(t)
      BY <2>13, <2>2, <3>1 DEF WaitBody, P!WaitForData, P!Pending, P!Finish, Status, Closers
    <3> QED
      BY <3>2 DEF P!Next
  <2>14. CASE SizeBody(t) \/ EmptyBody(t)
    <3>1. P!Inspect(t)
      BY <2>14, <2>2 DEF SizeBody, EmptyBody, P!Inspect, P!Pending, P!Finish, Status, Closers
    <3> QED
      BY <3>1 DEF P!Next
  <2>15. CASE ClearBody(t)
    <3>1. P!Clear(t)
      BY <2>15, <2>2 DEF ClearBody, P!Clear, P!Pending, P!Finish, Status, Closers
    <3> QED
      BY <3>1 DEF P!Next
  <2>16. CASE DestroyBody(t)
    <3>1. P!Destroyed(t)
      BY <2>16, <2>2 DEF DestroyBody, P!Destroyed, P!Finish, Status, Closers
    <3> QED
      BY <3>1 DEF P!Next
  <2> QED
    BY <2>3, <2>4, <2>5, <2>6, <2>7, <2>8, <2>10, <2>11, <2>12, <2>13, <2>14, <2>15, <2>16
    DEF Continue
<1> QED
  BY InvariantIInv, <1>1, <1>2, PTL DEF Spec, Linearizable, P!Spec
=============================================================================
