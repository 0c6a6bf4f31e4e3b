-------------------------------- MODULE Pipe --------------------------------
(***************************************************************************)
(* What ol::TS_Queue promises, without mutex, condition variables or       *)
(* program counters: a pipe "where one or many threads can safely write    *)
(* and from where one or many threads can read" (src/putils/ts_queue.hpp,  *)
(* lines 36 to 48).  A call is pending until it takes effect, at once and  *)
(* for everybody.                                                          *)
(***************************************************************************)
EXTENDS Integers, Sequences

CONSTANTS Threads, Items, MaxSize, Calls, None

VARIABLES
  queue,    (* what was written and not read                               *)
  stopped,  (* no more writes are accepted                                 *)
  alive,    (* the pipe has not been destroyed                             *)
  status,   (* of each thread: idle, pending, or closing (a stop that has  *)
            (* taken effect and not returned)                              *)
  op, item, result, unsent    (* as in the users' calls                    *)

vars == <<queue, stopped, alive, status, op, item, result, unsent>>

Writes == {"push_copy", "push_move"}
Reads == {"pop", "pop_for"}
Closes == {"stop", "destroy"}

HasRoom == MaxSize = 0 \/ Len(queue) < MaxSize

Pending(t, ops) == status[t] = "pending" /\ op[t] \in ops

Finish(t, r) ==
  /\ status' = [status EXCEPT ![t] = "idle"]
  /\ result' = [result EXCEPT ![t] = r]
  /\ UNCHANGED <<op, item, unsent>>

Init ==
  /\ queue = <<>>
  /\ stopped = FALSE
  /\ alive = TRUE
  /\ status = [t \in Threads |-> "idle"]
  /\ op = [t \in Threads |-> "none"]
  /\ item = [t \in Threads |-> None]
  /\ result = [t \in Threads |-> <<"void">>]
  /\ unsent = Items

Call(t) ==
  /\ status[t] = "idle"
  /\ status' = [status EXCEPT ![t] = "pending"]
  /\ \E o \in Calls[t] :
       /\ op' = [op EXCEPT ![t] = o]
       /\ \/ /\ o \in Writes
             /\ \E i \in unsent : /\ item' = [item EXCEPT ![t] = i]
                                  /\ unsent' = unsent \ {i}
          \/ o \notin Writes /\ UNCHANGED <<item, unsent>>
  /\ UNCHANGED <<queue, stopped, alive, result>>

(* A write goes to the end of the pipe, and only if there is room. *)
Write(t) ==
  /\ Pending(t, Writes) /\ HasRoom
  /\ queue' = Append(queue, item[t])
  /\ Finish(t, <<"void">>)
  /\ UNCHANGED <<stopped, alive>>

WriteRefused(t) ==
  /\ Pending(t, Writes) /\ stopped
  /\ Finish(t, <<"refused">>)
  /\ UNCHANGED <<queue, stopped, alive>>

(* A read returns the oldest item. *)
Read(t) ==
  /\ Pending(t, Reads) /\ queue # <<>>
  /\ queue' = Tail(queue)
  /\ Finish(t, <<"item", Head(queue)>>)
  /\ UNCHANGED <<stopped, alive>>

(* A read returns nothing only if there is nothing, and then only because the
   pipe is stopped or because the reader did not want to wait any longer. *)
ReadNothing(t) ==
  /\ Pending(t, Reads) /\ queue = <<>>
  /\ stopped \/ op[t] = "pop_for"
  /\ Finish(t, <<"nothing">>)
  /\ UNCHANGED <<queue, stopped, alive>>

WaitForData(t) ==
  /\ Pending(t, {"wait_for_data"})
  /\ stopped \/ queue # <<>>
  /\ Finish(t, <<"void">>)
  /\ UNCHANGED <<queue, stopped, alive>>

Inspect(t) ==
  /\ \/ Pending(t, {"size"}) /\ Finish(t, <<"size", Len(queue)>>)
     \/ Pending(t, {"empty"}) /\ Finish(t, <<"empty", queue = <<>>>>)
  /\ UNCHANGED <<queue, stopped, alive>>

Clear(t) ==
  /\ Pending(t, {"clear"})
  /\ queue' = <<>>
  /\ Finish(t, <<"void">>)
  /\ UNCHANGED <<stopped, alive>>

Stop(t) ==
  /\ Pending(t, Closes)
  /\ stopped' = TRUE
  /\ status' = [status EXCEPT ![t] = "closing"]
  /\ UNCHANGED <<queue, alive, op, item, result, unsent>>

(* stop() returns. *)
StopReturns(t) ==
  /\ status[t] = "closing" /\ op[t] = "stop"
  /\ Finish(t, <<"void">>)
  /\ UNCHANGED <<queue, stopped, alive>>

(* The destructor returns. *)
Destroyed(t) ==
  /\ status[t] = "closing" /\ op[t] = "destroy"
  /\ alive' = FALSE
  /\ Finish(t, <<"void">>)
  /\ UNCHANGED <<queue, stopped>>

Next ==
  /\ alive
  /\ \E t \in Threads :
       \/ Call(t) \/ Write(t) \/ WriteRefused(t) \/ Read(t) \/ ReadNothing(t)
       \/ WaitForData(t) \/ Inspect(t) \/ Clear(t)
       \/ Stop(t) \/ StopReturns(t) \/ Destroyed(t)

Spec == Init /\ [][Next]_vars

=============================================================================
