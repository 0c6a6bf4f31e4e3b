------------------------------ MODULE TSQueue -------------------------------
(***************************************************************************)
(* ol::TS_Queue<T> of src/putils/ts_queue.hpp: a bounded queue guarded by  *)
(* one mutex, with the condition variables m_is_not_full (writers sleep on *)
(* it) and m_is_not_empty (readers sleep on it), and a stop flag that is   *)
(* an atomic read under the mutex and written without it.                  *)
(*                                                                         *)
(* Every thread that uses the queue is one process.  A step is a lock of   *)
(* the mutex, one evaluation of a wait predicate, the release-and-sleep of *)
(* a condition variable, or the body of an operation up to the release of  *)
(* the mutex.  Nothing but stop() changes what a body reads while another  *)
(* thread holds the mutex, and stop() has steps of its own.  The model is  *)
(* of the build with NDEBUG: what the asserts say are properties.          *)
(***************************************************************************)
EXTENDS Integers, Sequences, FiniteSets

CONSTANTS
  Threads,    (* the threads that use the queue                            *)
  Items,      (* the values pushed; each is handed to one push, which is   *)
              (* the bound on the number of pushes                         *)
  MaxSize,    (* m_max_size, 0 for a queue without limit                   *)
  Calls,      (* the operations each thread may call                       *)
  None        (* no thread, no item                                        *)

(* push(const T&) and push(T&&), whose wait predicates differ. *)
Pushes == {"push_copy", "push_move"}

(* The operations that may return an item. *)
Takes == {"pop", "pop_for"}

(* The operations that sleep on m_is_not_empty. *)
Readers == Takes \cup {"wait_for_data"}

(* The operations that begin with stop(). *)
Closers == {"stop", "destroy"}

Operations == Pushes \cup Readers \cup Closers \cup {"size", "empty", "clear"}

ASSUME TSQueueAssumption ==
  /\ IsFiniteSet(Threads)
  /\ MaxSize \in Nat
  /\ Calls \in [Threads -> SUBSET Operations]
  /\ \A t, u \in Threads : "destroy" \in Calls[t] \cap Calls[u] => t = u
  /\ None \notin Threads \cup Items

VARIABLES
  m_queue,        (* the deque                                             *)
  m_stopped,      (* the atomic flag of stop()                             *)
  m_queue_mutex,  (* the thread that holds the mutex, or None              *)
  alive,          (* FALSE once the destructor has returned                *)
  pc,             (* where each thread is                                  *)
  op,             (* the operation each thread is in, or was in last       *)
  item,           (* the argument of the thread's last push                *)
  result,         (* what the thread's last operation returned             *)
  unsent          (* the values no push was called with yet                *)

vars == <<m_queue, m_stopped, m_queue_mutex, alive, pc, op, item, result, unsent>>

(***************************************************************************)
(* The program counter.                                                    *)
(*   idle      outside the queue                                           *)
(*   entry     in push before the test of m_stopped, in stop before the    *)
(*             store to it                                                 *)
(*   announce  in stop between the store and notify_all                    *)
(*   lock      about to lock the mutex for the first time                  *)
(*   test      holds the mutex, about to evaluate the wait predicate       *)
(*   park      holds the mutex, has found the predicate false              *)
(*   asleep    in the wait set of its condition variable                   *)
(*   woken     out of the wait set, about to lock the mutex again          *)
(*   expired   the same, and the wait reports a timeout                    *)
(*   lastTest  holds the mutex, about to evaluate the predicate once more  *)
(*             because of the timeout                                      *)
(*   body      holds the mutex, about to do what the operation is for      *)
(***************************************************************************)
Labels == {"idle", "entry", "announce", "lock", "test", "park", "asleep",
           "woken", "expired", "lastTest", "body"}

Results == {<<"void">>, <<"refused">>, <<"nothing">>} \cup ({"item"} \X Items)
             \cup ({"size"} \X Nat) \cup ({"empty"} \X BOOLEAN)

Sleepers(ops) == {t \in Threads : pc[t] = "asleep" /\ op[t] \in ops}

Init ==
  /\ m_queue = <<>>
  /\ m_stopped = FALSE
  /\ m_queue_mutex = None
  /\ alive = TRUE
  /\ pc = [t \in Threads |-> "idle"]
  /\ op = [t \in Threads |-> "none"]
  /\ item = [t \in Threads |-> None]
  /\ result = [t \in Threads |-> <<"void">>]
  /\ unsent = Items

-----------------------------------------------------------------------------
(* Control steps that the actions below share. *)

Goto(t, label) == pc' = [pc EXCEPT ![t] = label]

(* The operation returns r, and the unique_lock it holds releases the mutex. *)
Return(t, r) ==
  /\ m_queue_mutex' = None
  /\ result' = [result EXCEPT ![t] = r]

(* notify_one on a condition variable, followed by the return of the caller:
   an arbitrary sleeper is woken, or nobody if there is none. *)
NotifyOneAndLeave(t, sleepers) ==
  \/ sleepers = {} /\ Goto(t, "idle")
  \/ \E u \in sleepers : pc' = [pc EXCEPT ![t] = "idle", ![u] = "woken"]

-----------------------------------------------------------------------------
(* The actions of a thread t. *)

Call(t) ==
  /\ pc[t] = "idle"
  /\ \E o \in Calls[t] :
       /\ op' = [op EXCEPT ![t] = o]
       /\ \/ /\ o \in Pushes
             /\ \E i \in unsent : /\ item' = [item EXCEPT ![t] = i]
                                  /\ unsent' = unsent \ {i}
          \/ o \notin Pushes /\ UNCHANGED <<item, unsent>>
       /\ Goto(t, IF o \in Pushes \cup Closers THEN "entry" ELSE "lock")
  /\ UNCHANGED <<m_queue, m_stopped, m_queue_mutex, alive, result>>

(* push on a stopped queue drops the item. *)
PushRefused(t) ==
  /\ pc[t] = "entry" /\ op[t] \in Pushes /\ m_stopped
  /\ Goto(t, "idle")
  /\ result' = [result EXCEPT ![t] = <<"refused">>]
  /\ UNCHANGED <<m_queue, m_stopped, m_queue_mutex, alive, op, item, unsent>>

(* Mutant: the flag is not looked at. *)
PushAdmittedAlways(t) ==
  /\ pc[t] = "entry" /\ op[t] \in Pushes
  /\ Goto(t, "lock")
  /\ UNCHANGED <<m_queue, m_stopped, m_queue_mutex, alive, op, item, result, unsent>>

PushAdmitted(t) ==
  /\ pc[t] = "entry" /\ op[t] \in Pushes /\ ~m_stopped
  /\ Goto(t, "lock")
  /\ UNCHANGED <<m_queue, m_stopped, m_queue_mutex, alive, op, item, result, unsent>>

StopStore(t) ==
  /\ pc[t] = "entry" /\ op[t] \in Closers
  /\ m_stopped' = TRUE
  /\ Goto(t, "announce")
  /\ UNCHANGED <<m_queue, m_queue_mutex, alive, op, item, result, unsent>>

(* notify_all on m_is_not_empty; the destructor goes on to lock the mutex. *)
StopNotifyAll(t) ==
  /\ pc[t] = "announce"
  /\ pc' = [u \in Threads |->
              IF u = t THEN (IF op[t] = "stop" THEN "idle" ELSE "lock")
              ELSE IF u \in Sleepers(Readers) THEN "woken" ELSE pc[u]]
  /\ result' = IF op[t] = "stop" THEN [result EXCEPT ![t] = <<"void">>] ELSE result
  /\ UNCHANGED <<m_queue, m_stopped, m_queue_mutex, alive, op, item, unsent>>

Lock(t) ==
  /\ pc[t] = "lock" /\ m_queue_mutex = None
  /\ m_queue_mutex' = t
  /\ Goto(t, IF op[t] \in Pushes \cup Readers THEN "test" ELSE "body")
  /\ UNCHANGED <<m_queue, m_stopped, alive, op, item, result, unsent>>

Relock(t) ==
  /\ pc[t] \in {"woken", "expired"} /\ m_queue_mutex = None
  /\ m_queue_mutex' = t
  /\ Goto(t, IF pc[t] = "woken" THEN "test" ELSE "lastTest")
  /\ UNCHANGED <<m_queue, m_stopped, alive, op, item, result, unsent>>

(* Mutant: push(T&&) waits until the size is at most the limit. *)
WaitPredicateOffByOne(t) ==
  \/ op[t] = "push_copy" /\ Len(m_queue) < MaxSize
  \/ op[t] = "push_move" /\ (MaxSize = 0 \/ Len(m_queue) <= MaxSize)
  \/ op[t] \in Readers /\ (m_stopped \/ m_queue # <<>>)

(* The predicate each operation waits for. *)
WaitPredicate(t) ==
  \/ op[t] = "push_copy" /\ Len(m_queue) < MaxSize
  \/ op[t] = "push_move" /\ (MaxSize = 0 \/ Len(m_queue) < MaxSize)
  \/ op[t] \in Readers /\ (m_stopped \/ m_queue # <<>>)

TestPasses(t) ==
  /\ pc[t] \in {"test", "lastTest"} /\ WaitPredicate(t)
  /\ Goto(t, "body")
  /\ UNCHANGED <<m_queue, m_stopped, m_queue_mutex, alive, op, item, result, unsent>>

TestFails(t) ==
  /\ pc[t] = "test" /\ ~WaitPredicate(t)
  /\ Goto(t, "park")
  /\ UNCHANGED <<m_queue, m_stopped, m_queue_mutex, alive, op, item, result, unsent>>

(* Mutant: a timeout counts even if data has come. *)
GiveUpUnchecked(t) ==
  /\ pc[t] = "lastTest"
  /\ Goto(t, "idle")
  /\ Return(t, <<"nothing">>)
  /\ UNCHANGED <<m_queue, m_stopped, alive, op, item, unsent>>

(* Mutant: pop_for returns its item without looking at the status. *)
GiveUpIgnoringStatus(t) ==
  /\ pc[t] = "lastTest" /\ ~WaitPredicate(t)
  /\ Goto(t, "idle")
  /\ Return(t, <<"item", None>>)
  /\ UNCHANGED <<m_queue, m_stopped, alive, op, item, unsent>>

(* Mutant: pop_for waits on until there is an item. *)
GiveUpRetrying(t) ==
  /\ pc[t] = "lastTest" /\ ~WaitPredicate(t)
  /\ Goto(t, "park")
  /\ UNCHANGED <<m_queue, m_stopped, m_queue_mutex, alive, op, item, result, unsent>>

(* wait_for timed out and its predicate is still false: pop_for returns
   an empty optional. *)
GiveUp(t) ==
  /\ pc[t] = "lastTest" /\ ~WaitPredicate(t)
  /\ Goto(t, "idle")
  /\ Return(t, <<"nothing">>)
  /\ UNCHANGED <<m_queue, m_stopped, alive, op, item, unsent>>

(* condition_variable::wait releases the mutex and sleeps in one step. *)
Park(t) ==
  /\ pc[t] = "park"
  /\ m_queue_mutex' = None
  /\ Goto(t, "asleep")
  /\ UNCHANGED <<m_queue, m_stopped, alive, op, item, result, unsent>>

SpuriousWakeup(t) ==
  /\ pc[t] = "asleep"
  /\ Goto(t, "woken")
  /\ UNCHANGED <<m_queue, m_stopped, m_queue_mutex, alive, op, item, result, unsent>>

(* The time of pop_for is over.  A wait that was notified reports a timeout
   too when the clock has passed the deadline by then. *)
Expire(t) ==
  /\ pc[t] \in {"asleep", "woken"} /\ op[t] = "pop_for"
  /\ Goto(t, "expired")
  /\ UNCHANGED <<m_queue, m_stopped, m_queue_mutex, alive, op, item, result, unsent>>

(* Mutant: only push(const T&) notifies. *)
PushBodyCopyNotifies(t) ==
  /\ pc[t] = "body" /\ op[t] \in Pushes
  /\ m_queue' = Append(m_queue, item[t])
  /\ NotifyOneAndLeave(t, IF op[t] = "push_copy" THEN Sleepers(Readers) ELSE {})
  /\ Return(t, <<"void">>)
  /\ UNCHANGED <<m_stopped, alive, op, item, unsent>>

PushBody(t) ==
  /\ pc[t] = "body" /\ op[t] \in Pushes
  /\ m_queue' = Append(m_queue, item[t])
  /\ NotifyOneAndLeave(t, Sleepers(Readers))
  /\ Return(t, <<"void">>)
  /\ UNCHANGED <<m_stopped, alive, op, item, unsent>>

(* Mutant: pop_for does not notify. *)
TakeBodyPopNotifies(t) ==
  /\ pc[t] = "body" /\ op[t] \in Takes /\ m_queue # <<>>
  /\ m_queue' = Tail(m_queue)
  /\ NotifyOneAndLeave(t, IF op[t] = "pop" THEN Sleepers(Pushes) ELSE {})
  /\ Return(t, <<"item", Head(m_queue)>>)
  /\ UNCHANGED <<m_stopped, alive, op, item, unsent>>

(* Mutant: a pop notifies the wrong condition variable. *)
TakeBodyNotifiesReaders(t) ==
  /\ pc[t] = "body" /\ op[t] \in Takes /\ m_queue # <<>>
  /\ m_queue' = Tail(m_queue)
  /\ NotifyOneAndLeave(t, Sleepers(Readers))
  /\ Return(t, <<"item", Head(m_queue)>>)
  /\ UNCHANGED <<m_stopped, alive, op, item, unsent>>

TakeBody(t) ==
  /\ pc[t] = "body" /\ op[t] \in Takes /\ m_queue # <<>>
  /\ m_queue' = Tail(m_queue)
  /\ NotifyOneAndLeave(t, Sleepers(Pushes))
  /\ Return(t, <<"item", Head(m_queue)>>)
  /\ UNCHANGED <<m_stopped, alive, op, item, unsent>>

(* The wait ended because the queue was stopped. *)
TakeBodyEmpty(t) ==
  /\ pc[t] = "body" /\ op[t] \in Takes /\ m_queue = <<>>
  /\ Goto(t, "idle")
  /\ Return(t, <<"nothing">>)
  /\ UNCHANGED <<m_queue, m_stopped, alive, op, item, unsent>>

WaitBody(t) ==
  /\ pc[t] = "body" /\ op[t] = "wait_for_data"
  /\ Goto(t, "idle")
  /\ Return(t, <<"void">>)
  /\ UNCHANGED <<m_queue, m_stopped, alive, op, item, unsent>>

SizeBody(t) ==
  /\ pc[t] = "body" /\ op[t] = "size"
  /\ Goto(t, "idle")
  /\ Return(t, <<"size", Len(m_queue)>>)
  /\ UNCHANGED <<m_queue, m_stopped, alive, op, item, unsent>>

EmptyBody(t) ==
  /\ pc[t] = "body" /\ op[t] = "empty"
  /\ Goto(t, "idle")
  /\ Return(t, <<"empty", m_queue = <<>>>>)
  /\ UNCHANGED <<m_queue, m_stopped, alive, op, item, unsent>>

(* clear() notifies nobody. *)
ClearBody(t) ==
  /\ pc[t] = "body" /\ op[t] = "clear"
  /\ m_queue' = <<>>
  /\ Goto(t, "idle")
  /\ Return(t, <<"void">>)
  /\ UNCHANGED <<m_stopped, alive, op, item, unsent>>

(* The rest of the destructor: the lock is released and the members go. *)
DestroyBody(t) ==
  /\ pc[t] = "body" /\ op[t] = "destroy"
  /\ alive' = FALSE
  /\ Goto(t, "idle")
  /\ Return(t, <<"void">>)
  /\ UNCHANGED <<m_queue, m_stopped, op, item, unsent>>

-----------------------------------------------------------------------------
(* What a thread does by itself once it has called an operation. *)
Continue(t) ==
  \/ PushRefused(t) \/ PushAdmitted(t) \/ StopStore(t) \/ StopNotifyAll(t)
  \/ Lock(t) \/ Relock(t) \/ TestPasses(t) \/ TestFails(t) \/ GiveUp(t)
  \/ Park(t) \/ Expire(t)
  \/ PushBody(t) \/ TakeBody(t) \/ TakeBodyEmpty(t) \/ WaitBody(t)
  \/ SizeBody(t) \/ EmptyBody(t) \/ ClearBody(t) \/ DestroyBody(t)

(* No step is taken on a queue that does not exist any more. *)
Next == alive /\ \E t \in Threads : Call(t) \/ Continue(t) \/ SpuriousWakeup(t)

Spec == Init /\ [][Next]_vars

(* A thread that is inside an operation is scheduled and gets the mutex when
   it stays free, and the time of pop_for passes.  Nobody has to call
   anything, and threads do not wake spuriously for ever. *)
FairSpec ==
  /\ Spec
  /\ \A t \in Threads : WF_vars(alive /\ Continue(t))
  /\ <>[][\A t \in Threads : ~SpuriousWakeup(t)]_vars

(* The mutex starves nobody: a thread that finds it free again and again gets
   it.  std::mutex does not promise this; without it, threads that never stop
   calling could keep one out for ever. *)
MutexStarvesNobody == \A t \in Threads : SF_vars(alive /\ (Lock(t) \/ Relock(t)))

-----------------------------------------------------------------------------
(* Every variable stays in the set it is meant for; the one type invariant of
   this module. *)
TypeOK ==
  /\ m_queue \in Seq(Items)
  /\ m_stopped \in BOOLEAN
  /\ m_queue_mutex \in Threads \cup {None}
  /\ alive \in BOOLEAN
  /\ pc \in [Threads -> Labels]
  /\ op \in [Threads -> Operations \cup {"none"}]
  /\ item \in [Threads -> Items \cup {None}]
  /\ result \in [Threads -> Results]
  /\ unsent \subseteq Items

(* The queue never exceeds the size it was constructed with, however many
   woken and newly arriving writers compete for the room one pop has made:
   ts_queue.hpp waits in a loop (lines 89 and 106). *)
WithinMaxSize == MaxSize > 0 => Len(m_queue) <= MaxSize

(* The threads that will look at the queue before they sleep again. *)
Awake(ops) ==
  {t \in Threads : op[t] \in ops /\ pc[t] \in {"lock", "test", "park", "woken",
                                               "expired", "lastTest", "body"}}

(* While a reader sleeps, there are at least as many awake readers as items:
   the one notify_one of each push (lines 91 and 108) is enough, with readers
   that time out, are woken spuriously or arrive in between. *)
NoSleepingReaderForgotten ==
  Sleepers(Takes) # {} => Len(m_queue) <= Cardinality(Awake(Takes))

(* The same for writers: while one sleeps, there are at least as many awake
   writers as free places, so the notify_one of pop and pop_for (lines 129
   and 153) leaves no writer asleep in front of a queue with room. *)
NoSleepingWriterForgotten ==
  Sleepers(Pushes) # {} => MaxSize - Len(m_queue) <= Cardinality(Awake(Pushes))

(* The pushes that have found the queue not stopped. *)
Admitted == {t \in Threads : op[t] \in Pushes /\ pc[t] \notin {"idle", "entry"}}

(* "No writes allowed since this moment" (ts_queue.hpp:184) holds but for the
   pushes that have looked at the flag before stop() set it (lines 85 and 98),
   some of which may sleep until the readers make room: once it is set, what the
   queue has and may still get only shrinks. *)
StoppedQueueDrains ==
  [][m_stopped => Len(m_queue') + Cardinality(Admitted') <= Len(m_queue) + Cardinality(Admitted)]_vars

(* A reader asleep in pop() while the queue holds data does not stay so: pop
   waits only "when there is no data in queue" (ts_queue.hpp:113). *)
ReaderWithDataMovesOn ==
  \A t \in Threads :
    (t \in Sleepers(Takes) /\ m_queue # <<>>) ~> (t \notin Sleepers(Takes) \/ m_queue = <<>>)

(* A writer asleep in push() although there is room does not stay so: push
   waits "if there is no place in queue" (ts_queue.hpp:89). *)
WriterWithRoomMovesOn ==
  \A t \in Threads :
    (t \in Sleepers(Pushes) /\ Len(m_queue) < MaxSize)
       ~> (t \notin Sleepers(Pushes) \/ Len(m_queue) >= MaxSize)

(* stop() is to "release all threads waiting in TS_Queue::pop()"
   (ts_queue.hpp:183). *)
StopReleasesReaders ==
  \A t \in Threads : (m_stopped /\ t \in Sleepers(Readers)) ~> (t \notin Sleepers(Readers))

(* Every pop_for returns, if the mutex lets it: its timeout ends even a sleep
   that no notification will end (ts_queue.hpp:147). *)
PopForReturns ==
  MutexStarvesNobody =>
    \A t \in Threads : (op[t] = "pop_for" /\ pc[t] # "idle") ~> (pc[t] = "idle")

-----------------------------------------------------------------------------
(* What the queue promises its users: module Pipe.  A call is pending until
   its body, where it takes effect and returns; stop() takes effect with the
   store to the flag and returns after notify_all. *)
Status == [t \in Threads |->
             IF pc[t] = "idle" THEN "idle"
             ELSE IF op[t] \in Closers /\ pc[t] # "entry" THEN "closing"
             ELSE "pending"]

P == INSTANCE Pipe WITH queue <- m_queue, stopped <- m_stopped, status <- Status

(* Every operation takes effect at one instant between its call and its
   return, as if the queue were used by one thread at a time. *)
Linearizable == P!Spec

=============================================================================
