----------------------------- MODULE MCTSQueue ------------------------------
(***************************************************************************)
(* Instances of TSQueue for TLC.  The threads are two writers, two readers *)
(* and one that controls the queue; each Calls... operator says what they  *)
(* may call.                                                               *)
(***************************************************************************)
EXTENDS TSQueue, TLC

CONSTANTS w1, w2, r1, r2, c

Writers == {w1, w2}
ReaderThreads == {r1, r2}

(* Given by thread: what writers, readers and the controller may call. *)
CallsOf(writes, reads, controls) ==
  [t \in Threads |-> IF t \in Writers THEN writes
                     ELSE IF t \in ReaderThreads THEN reads
                     ELSE controls]

(* Everything the class offers. *)
CallsAll == CallsOf({"push_copy", "push_move"}, {"pop", "pop_for", "wait_for_data"},
                    {"size", "empty", "clear", "stop", "destroy"})

(* Each kind of push and of pop in a thread of its own; the controller writes
   and stops the queue. *)
CallsPipe ==
  [t \in Threads |-> IF t \in Writers THEN {"push_copy"}
                     ELSE IF t = r1 THEN {"pop"}
                     ELSE IF t = r2 THEN {"pop_for"}
                     ELSE {"push_move", "stop"}]

(* Readers without a timeout, and a queue that is stopped at some time. *)
CallsStopped == CallsOf({"push_copy"}, {"pop"}, {"stop"})

Symm == Permutations(Writers) \cup Permutations(ReaderThreads) \cup Permutations(Items)
=============================================================================
