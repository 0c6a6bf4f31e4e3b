--------------------------- MODULE Configuration ----------------------------
(***************************************************************************)
(* Configuration of src/utils_qt/configuration.cpp: a map of entries in a  *)
(* ThreadSafeResource, watchers that are told about new values, and a      *)
(* storage (module JsonStorage) to which the entries are saved 500 ms      *)
(* after the last change, by a timer of the thread that owns the object.   *)
(*                                                                         *)
(* The lock of m_entries excludes (module TSResource), so one step takes   *)
(* it, works and releases it, unless client code runs in between: a        *)
(* watcher is called while setEntry holds the lock, and the storage writes *)
(* a file while saveData holds it.  Keys are the sequences of names that   *)
(* entry.split("::") yields.                                               *)
(***************************************************************************)
EXTENDS Integers, SequencesExt

CONSTANTS
  Threads,
  Owner,     (* the thread that made the object and runs its event loop    *)
  Uses,      (* the uses considered: which threads set entries, whether    *)
             (* operations on files may fail, and which keys are set       *)
  Names,     (* the names that keys are made of                            *)
  Keys, Values, Watchers,
  None,
  Object, Absent    (* of JsonStorage *)

ASSUME ConfigurationAssumption ==
  /\ Owner \in Threads
  /\ Uses \subseteq (SUBSET Threads) \X BOOLEAN \X (SUBSET Keys)
  /\ None \notin Threads \cup Keys \cup Values
  /\ Object \notin Values

(* split yields at least one name, and no file is not a document. *)
ASSUME StorageAssumption ==
  /\ Keys \subseteq Seq(Names) \ {<<>>}
  /\ IsFiniteSet(Keys)
  /\ \A paths \in SUBSET UNION {Prefixes(k) : k \in Keys} :
       Absent \notin [paths -> Values \cup {Object}]

VARIABLES
  phase,        (* up, closing (in the destructor), down or crashed        *)
  m_entries,    (* the entries                                             *)
  holder,       (* the thread with the Accessor of m_entries, or None      *)
  m_dumpTimer,  (* the timer                                               *)
  m_watchers,   (* of each key, its watchers in order                      *)
  file, temp,   (* the storage's file and its next version                 *)
  pc, arg,      (* where each thread is, with what key and value           *)
  todo,         (* the watchers the thread's setEntry has not called yet   *)
  heard,        (* of each key, what each watcher was told last            *)
  writers, fails, keys    (* the use of the object; never changes          *)

vars == <<phase, m_entries, holder, m_dumpTimer, m_watchers, file, temp, pc, arg, todo, heard,
          writers, fails, keys>>

Storage == INSTANCE JsonStorage

(* Maps with some of the keys in S. *)
Contents(S) == UNION {[K -> Values] : K \in SUBSET S}

Nothing == [key |-> None, value |-> None]

use == <<writers, fails, keys>>

(* idle; probe: in setDefaultValue; store: in setEntry, before the lock;
   notify: in setEntry, with the lock; save: in saveData, before the lock;
   commit: in saveData, with the lock. *)
Labels == {"idle", "probe", "store", "notify", "save", "commit"}

Init ==
  /\ \E u \in Uses : writers = u[1] /\ fails = u[2] /\ keys = u[3]
  /\ phase = "up"
  /\ \E entries \in Contents(keys) : file \in {Absent, Storage!Document(entries)}
  /\ temp = Absent
  /\ m_entries \in Storage!Loaded
  /\ holder = None
  /\ m_dumpTimer = "off"
  /\ m_watchers = [k \in Keys |-> <<>>]
  /\ pc = [t \in Threads |-> "idle"]
  /\ arg = [t \in Threads |-> Nothing]
  /\ todo = [t \in Threads |-> <<>>]
  /\ heard = [k \in Keys |-> [w \in Watchers |-> None]]

-----------------------------------------------------------------------------
Goto(t, label) == pc' = [pc EXCEPT ![t] = label]

Return(t) == Goto(t, "idle") /\ arg' = [arg EXCEPT ![t] = Nothing]

(* Nobody uses m_watchers, which has no lock. *)
WatchersUnused == \A t \in Threads : pc[t] \notin {"probe", "store", "notify"}

-----------------------------------------------------------------------------
(* Calls of a thread t. *)

CallSetEntry(t, k, v) ==
  /\ phase = "up" /\ pc[t] = "idle"
  /\ Goto(t, "store")
  /\ arg' = [arg EXCEPT ![t] = [key |-> k, value |-> v]]
  /\ UNCHANGED <<phase, m_entries, holder, m_dumpTimer, m_watchers, file, temp, todo, heard, use>>

CallSetDefaultValue(t, k, v) ==
  /\ phase = "up" /\ pc[t] = "idle"
  /\ Goto(t, "probe")
  /\ arg' = [arg EXCEPT ![t] = [key |-> k, value |-> v]]
  /\ UNCHANGED <<phase, m_entries, holder, m_dumpTimer, m_watchers, file, temp, todo, heard, use>>

(* Mutant: the value is moved from before it is used again. *)
ProbeMovingValue(t) ==
  /\ pc[t] = "probe" /\ holder = None
  /\ Goto(t, IF arg[t].key \in DOMAIN m_entries THEN "idle" ELSE "store")
  /\ arg' = [arg EXCEPT ![t].value = None]
  /\ UNCHANGED <<phase, m_entries, holder, m_dumpTimer, m_watchers, file, temp, todo, heard, use>>

(* setDefaultValue has looked, under the lock, and goes on without it. *)
Probe(t) ==
  /\ pc[t] = "probe" /\ holder = None
  /\ IF arg[t].key \in DOMAIN m_entries THEN Return(t)
     ELSE Goto(t, "store") /\ UNCHANGED arg
  /\ UNCHANGED <<phase, m_entries, holder, m_dumpTimer, m_watchers, file, temp, todo, heard, use>>

(* Mutant: setEntry does not keep the lock. *)
StoreAndUnlock(t) ==
  /\ pc[t] = "store" /\ holder = None
  /\ m_entries' = [k \in DOMAIN m_entries \cup {arg[t].key} |->
                     IF k = arg[t].key THEN arg[t].value ELSE m_entries[k]]
  /\ todo' = [todo EXCEPT ![t] = m_watchers[arg[t].key]]
  /\ Goto(t, "notify")
  /\ UNCHANGED <<phase, holder, m_dumpTimer, m_watchers, file, temp, arg, heard, use>>

(* setEntry up to the search for watchers. *)
Store(t) ==
  /\ pc[t] = "store" /\ holder = None
  /\ holder' = t
  /\ m_entries' = [k \in DOMAIN m_entries \cup {arg[t].key} |->
                     IF k = arg[t].key THEN arg[t].value ELSE m_entries[k]]
  /\ todo' = [todo EXCEPT ![t] = m_watchers[arg[t].key]]
  /\ Goto(t, "notify")
  /\ UNCHANGED <<phase, m_dumpTimer, m_watchers, file, temp, arg, heard, use>>

CallWatcher(t) ==
  /\ pc[t] = "notify" /\ todo[t] # <<>>
  /\ heard' = [heard EXCEPT ![arg[t].key][Head(todo[t])] = arg[t].value]
  /\ todo' = [todo EXCEPT ![t] = Tail(@)]
  /\ UNCHANGED <<phase, m_entries, holder, m_dumpTimer, m_watchers, file, temp, pc, arg, use>>

(* QTimer::start, which restarts a running timer.  In a thread that is not
   the timer's it stops the timer and starts none; whether the timer counts as
   active then depends on the version of Qt. *)
StartTimer(t) ==
  \/ t = Owner /\ m_dumpTimer' = "running"
  \/ t # Owner /\ m_dumpTimer' \in {"off", "stuck"}

(* Mutant: setEntry ends early when it has called a watcher. *)
MarkDataDirtyUnwatched(t) ==
  /\ pc[t] = "notify" /\ todo[t] = <<>>
  /\ \/ m_watchers[arg[t].key] = <<>> /\ StartTimer(t)
     \/ m_watchers[arg[t].key] # <<>> /\ UNCHANGED m_dumpTimer
  /\ holder' = None
  /\ Return(t)
  /\ UNCHANGED <<phase, m_entries, m_watchers, file, temp, todo, heard, use>>

(* markDataDirty, and the end of setEntry, which releases the lock. *)
MarkDataDirty(t) ==
  /\ pc[t] = "notify" /\ todo[t] = <<>>
  /\ StartTimer(t)
  /\ holder' = None
  /\ Return(t)
  /\ UNCHANGED <<phase, m_entries, m_watchers, file, temp, todo, heard, use>>

(* A client registers a watcher while no entry is being set. *)
WatchFor(t, k, w) ==
  /\ phase = "up" /\ pc[t] = "idle" /\ WatchersUnused
  /\ \A i \in 1..Len(m_watchers[k]) : m_watchers[k][i] # w
  /\ m_watchers' = [m_watchers EXCEPT ![k] = Append(@, w)]
  /\ heard' = [heard EXCEPT ![k][w] = None]
  /\ UNCHANGED <<phase, m_entries, holder, m_dumpTimer, file, temp, pc, arg, todo, use>>

-----------------------------------------------------------------------------
(* The event loop of the owner, the destructor, and the process. *)

(* The single shot timer goes off between two calls of the owner. *)
Timeout ==
  /\ phase = "up" /\ pc[Owner] = "idle" /\ m_dumpTimer = "running"
  /\ m_dumpTimer' = "off"
  /\ Goto(Owner, "save")
  /\ UNCHANGED <<phase, m_entries, holder, m_watchers, file, temp, arg, todo, heard, use>>

(* saveData locks the entries and the storage writes them. *)
SaveData ==
  /\ pc[Owner] = "save" /\ holder = None
  /\ holder' = Owner
  /\ Storage!Write(m_entries)
  /\ Goto(Owner, "commit")
  /\ UNCHANGED <<phase, m_entries, m_dumpTimer, m_watchers, arg, todo, heard, use>>

(* The storage replaces its file and saveData returns; the destructor ends
   with it. *)
SaveDataReturns ==
  /\ pc[Owner] = "commit"
  /\ Storage!Commit
  /\ holder' = None
  /\ Goto(Owner, "idle")
  /\ phase' = IF phase = "closing" THEN "down" ELSE phase
  /\ UNCHANGED <<m_entries, m_dumpTimer, m_watchers, arg, todo, heard, use>>

(* Mutant: the destructor stops the timer and does not save. *)
DestructWithoutSave ==
  /\ phase = "up" /\ \A t \in Threads : pc[t] = "idle"
  /\ m_dumpTimer' = "off"
  /\ phase' = "down"
  /\ UNCHANGED <<m_entries, holder, m_watchers, file, temp, pc, arg, todo, heard, use>>

(* The destructor, when nobody uses the object. *)
Destruct ==
  /\ phase = "up" /\ \A t \in Threads : pc[t] = "idle"
  /\ \/ /\ m_dumpTimer = "off"
        /\ phase' = "down"
        /\ UNCHANGED <<pc, m_dumpTimer>>
     \/ /\ m_dumpTimer # "off"
        /\ m_dumpTimer' = "off"
        /\ phase' = "closing"
        /\ Goto(Owner, "save")
  /\ UNCHANGED <<m_entries, holder, m_watchers, file, temp, arg, todo, heard, use>>

(* The process dies; only the file survives. *)
Crash ==
  /\ phase \in {"up", "closing"}
  /\ phase' = "crashed"
  /\ pc' = [t \in Threads |-> "idle"]
  /\ arg' = [t \in Threads |-> Nothing]
  /\ todo' = [t \in Threads |-> <<>>]
  /\ holder' = None
  /\ m_dumpTimer' = "off"
  /\ temp' = Absent
  /\ UNCHANGED <<m_entries, m_watchers, file, heard, use>>

(* The constructor, here or in the next process: loadData. *)
Construct ==
  /\ phase \in {"down", "crashed"}
  /\ phase' = "up"
  /\ m_entries' \in Storage!Loaded
  /\ m_watchers' = [k \in Keys |-> <<>>]
  /\ heard' = [k \in Keys |-> [w \in Watchers |-> None]]
  /\ UNCHANGED <<holder, m_dumpTimer, file, temp, pc, arg, todo, use>>

-----------------------------------------------------------------------------
(* What a thread does by itself once it has called something. *)
Continue(t) == Probe(t) \/ Store(t) \/ CallWatcher(t) \/ MarkDataDirty(t)

Next ==
  \/ \E t \in writers, k \in keys, v \in Values : CallSetEntry(t, k, v) \/ CallSetDefaultValue(t, k, v)
  \/ \E t \in Threads, k \in keys, w \in Watchers : WatchFor(t, k, w)
  \/ \E t \in Threads : Continue(t)
  \/ Timeout \/ SaveData \/ SaveDataReturns \/ Destruct \/ Crash \/ Construct

Spec == Init /\ [][Next]_vars

(* Calls come to an end, and the event loop handles the timer. *)
FairSpec ==
  /\ Spec
  /\ \A t \in Threads : WF_vars(Continue(t))
  /\ WF_vars(Timeout) /\ WF_vars(SaveData) /\ WF_vars(SaveDataReturns)

-----------------------------------------------------------------------------
(* Every variable stays in the set it is meant for; the one type invariant of
   this module. *)
TypeOK ==
  /\ phase \in {"up", "closing", "down", "crashed"}
  /\ m_entries \in Contents(keys)
  /\ {file, temp} \subseteq {Storage!Document(entries) : entries \in Contents(keys)} \cup {Absent}
  /\ holder \in Threads \cup {None}
  /\ m_dumpTimer \in {"off", "running", "stuck"}
  /\ m_watchers \in [Keys -> Seq(Watchers)]
  /\ pc \in [Threads -> Labels]
  /\ arg \in [Threads -> [key : Keys \cup {None}, value : Values \cup {None}]]
  /\ todo \in [Threads -> Seq(Watchers)]
  /\ heard \in [Keys -> [Watchers -> Values \cup {None}]]

(* Entries are set where the timer can be started, and files do not fail. *)
Careful == writers = {Owner} /\ ~fails

Map == INSTANCE PersistentMap
  WITH entries <- m_entries, copy <- Storage!Stored, careful <- Careful,
       phase <- IF phase = "up" \/ phase = "closing" THEN "open"
                ELSE IF phase = "down" THEN "closed" ELSE phase

(* Every change is kept, a shutdown leaves it in the file, the file is always
   what one save was given as a whole, whatever crashes or fails, and the next
   process begins with it (configuration.cpp:42 to 48, 126 to 143,
   configuration_json_storage.cpp:82 to 128). *)
ActsAsPersistentMap == Map!Spec

(* What the storage keeps of entries, whatever they are. *)
StorageKeeps ==
  \A entries \in Contents(Keys) :
    /\ Storage!Document(entries) # Absent
    /\ Storage!ReadNode(Storage!Document(entries)) = Map!Storable(entries)

(* The file has every entry that JSON can hold: an entry whose path goes on in
   another's cannot be stored beside it. *)
Saved == Storage!Stored = Map!Storable(m_entries)

(* A change that is not saved is never forgotten: unless it is being made or
   being saved, the timer that will save it is active (configuration.cpp:116,
   and :44 where the destructor relies on it). *)
NothingForgotten ==
  Careful /\ phase = "up" /\ holder = None /\ pc[Owner] # "save" /\ ~Saved => m_dumpTimer # "off"

(* What a watcher was told last is the value the entry has: setEntry keeps the
   lock while it calls the watchers (configuration.cpp:107 to 114), so two
   threads that set one entry cannot tell the watchers in the other order. *)
WatchersUpToDate ==
  phase = "up" /\ holder = None =>
    \A k \in Keys, w \in Watchers :
      heard[k][w] # None => k \in DOMAIN m_entries /\ heard[k][w] = m_entries[k]

(* Changes reach the file once the writers pause: each one restarts the timer,
   so that only a writer that never returns to the event loop for long enough
   can put the save off for ever (configuration.cpp:33 to 36 and 135). *)
EventuallySaved ==
  <>[](\A t \in writers : pc[t] \in {"idle", "save", "commit"})
    => []<>(Saved \/ phase = "crashed" \/ ~Careful)

=============================================================================
