# OpenLibrary in TLA+

A verification project for OpenLibrary, a C++ library of thread helpers (`src/putils`), a
persistent configuration (`src/utils_qt`), an A* router (`src/router`), smart pointers
(`src/utils`), an HTML parser (`src/htmlParser`), widgets (`src/QtExt`) and parallel sorting
(`deprecated/palgorithm`). The specifications are translated from the code; the comments and
tests of the repository serve as statements of what the code should do. Paths below are relative
to the repository.

    tlc -workers 2 -config tsqueue_linear.cfg MCTSQueue    # one run
    tlapm TSQueueProofs.tla                                # one set of proofs

## 1. The system

| Component | State | Operations | Used by |
|---|---|---|---|
| `TS_Queue` (`src/putils/ts_queue.hpp`) | deque, mutex, two condition variables, atomic stop flag, size limit | `push` (two), `pop`, `pop_for`, `wait_for_data`, `size`, `empty`, `clear`, `stop`, destructor | client threads |
| `ThreadSafeResource` (`src/putils/ts_resource.hpp`) | object, mutex; per `Accessor`: a `unique_lock`, a pointer to the object, an `INotify` | `lock` (two), `try_lock`, moves and destruction of Accessors, destructor | `Configuration` (its entries) |
| `Configuration` (`src/utils_qt/configuration.cpp`) | entries in a `ThreadSafeResource`, watchers, single shot timer | `getEntry`, `getSubEntries`, `setEntry`, `setDefaultValue`, `watchFor`, timeout, constructor, destructor | client threads; calls watchers and the storage under its lock |
| `ConfigJsonStorage` (`src/utils_qt/configuration_json_storage.cpp`) | a file | `save`, `load` | `Configuration` through `IConfigStorage` |
| A* router (`src/router/A_star`) | open and closed set, per point: origin, g and f score | `route` | client; calls the client's map |
| `data_ptr` (`src/utils/data_ptr.hpp`) | a pointer, a deleter, a copier | three constructors, two assignments, destructor, access | client; `HtmlTag` and `HtmlParser` keep their data in one |
| HTML parser (`src/htmlParser`) | tag list with levels, search list | `parse`, `findAll` | client; the grammars call the tag list and the search list |
| Strings and debug (`src/common`) | none | two string helpers, a logger | other parts |
| Widgets (`src/QtExt`) | progress bar: model, connections; file chooser: two child widgets | `setModel`, `reset`, progress signals | Qt event loop |
| `deprecated/palgorithm` | array being sorted, a buffer, OpenMP teams | `merge_sort`, `quick_sort`, `bubble_sort`, the generated networks of `fast_sort` | client threads |
| `deprecated/math`, `deprecated/utils` | none | wider multiplication, an empty CRC class, `cpuid` | nobody |

What is hard, and what makes each component correct:

* **TS_Queue.** Threads interleave between the evaluation of a wait predicate, the sleep and the
  wake-up; there are spurious wake-ups, timeouts, notifications that reach one of several
  threads, and a stop flag that is set without the mutex. Correct means: first in first out and
  each item once, as if every operation happened at one instant; never more items than the
  limit; nobody asleep who could work; stop and destruction release the readers.
* **ThreadSafeResource.** Accessors are moved between variables, two locks may replace each
  other, the notification comes after the unlock, and a destructor races with Accessors. Correct
  means: one owner, access exactly while it owns the mutex, one notification per unlock, no
  Accessor to a dead object.
* **Configuration and its storage.** Saves are delayed, the process may die between a change and
  the save or within the save, the destructor has to finish what the timer has not, watchers are
  called under the lock, and keys are paths that become nested objects. Correct means: no change
  is forgotten, a clean shutdown loses nothing, the file is never torn, watchers know the
  current value.
* **A\* router.** Points are reached by several routes and must be reconsidered, and are taken
  by age; correct means a connected path from start to end, a shortest one, and a search that
  ends.
* **data_ptr.** Chains of copies, moves and assignments with different deleters, and copies that
  throw. Correct means: each object has one owner, which deletes it by its own deleter; what is
  done to one data_ptr is not seen by another. Where the code breaks this, correct means that
  no other data_ptr is harmed.
* **HTML parser.** Void tags, tags closed by a slash and tags closed by the document come in any
  order, and the level of a tag decides what is inside it. Correct means: levels are the depths
  in the document, results satisfy all filters of the selector, and a search ends.
* **Widgets.** Signals of several models reach several views, in the order in which they were
  connected and reset. Correct means: a bar that was given another model does not follow the old
  one.
* **palgorithm.** Threads sort halves of two buffers that change roles with each level of the
  recursion, and the parts of one array on both sides of a pivot. Correct means: threads that
  run at the same time touch different memory, there are no more of them than processors, no
  element is lost, and what a call returns is sorted, in the buffer in which its caller looks
  for it.

`PROJECT.json` lists these parts as components and each single hazard at its line.

## 2. Modules

| Module | What it is |
|---|---|
| `TSQueue` | `TS_Queue`, one process per thread |
| `Pipe` | what `TS_Queue` promises: a pipe on which each operation is one step |
| `TSQueueProofs` | theorems about `TSQueue`, and that it implements `Pipe` |
| `MCTSQueue` | which operations which threads call, for TLC |
| `TSResource` | resources, Accessors, notifiers |
| `TSResourceProofs` | theorems about `TSResource` |
| `MCTSResource` | symmetry for TLC |
| `JsonStorage` | documents, save, load, and the file |
| `Configuration` | entries, watchers, timer, life cycle; instantiates `JsonStorage` |
| `PersistentMap` | what a Configuration and its storage promise: a map with a copy that survives the process |
| `ConfigurationProofs` | theorems about `Configuration`, and that it implements `PersistentMap` |
| `MCConfiguration` | uses and keys for TLC, and what is assumed of the storage |
| `AStar` | the router: sets, points at addresses, search, reconstruction |
| `AStarProofs` | theorems about `AStar` |
| `MCAStar` | ends of the ways for TLC |
| `DataPtr` | data_ptrs, objects, deleters and copiers |
| `ValueSemantics` | what `data_ptr` promises: a variable with a value of its own |
| `DataPtrProofs` | theorems about `DataPtr`, and that it implements `ValueSemantics` |
| `HtmlParser` | reading a document into the tag list, and searching it |
| `HtmlParserProofs` | theorems about `HtmlParser` |
| `MCHtmlParser` | attributes for TLC |
| `Sorting` | the parallel sorting algorithms, one process per recursive call |
| `BoseNelson` | the generator of their sorting networks |
| `SortingProofs` | theorems about `Sorting`: which call works where, and when |
| `SortingContentProofs` | theorems about `Sorting`: what becomes of the elements, and their order |
| `MCSorting` | arrays for TLC, that the networks sort, and stay in their range |
| `ProgressBar` | the progress bar's models and views |

Operators called `Mutant: ...` in their comment are faulty versions of the definition that
follows them. They are part of no specification; they show that each property can fail.

### TSQueue

The variables `m_queue`, `m_stopped` and `m_queue_mutex` are the members of the class; `pc`,
`op`, `item` and `result` are the threads' program counters, the calls they are in, arguments
and results. One step is a lock of the mutex, one evaluation of the predicate of a wait, the
release-and-sleep of the condition variable, or the body of an operation up to the unlock.
`Call` starts an operation; `PushRefused`/`PushAdmitted` are the test of the stop flag before
the lock; `Lock`, `TestPasses`, `TestFails`, `Park`, `Relock` and `GiveUp` are
`condition_variable::wait` and `wait_for` with a predicate; `SpuriousWakeup` and `Expire` come
from outside; the actions named `...Body` are what the operations do. A notification wakes any
one of the sleepers. `stop()` has two steps, the store and `notify_all`, because it holds no
mutex; every other operation reads and writes the queue under the mutex, so its body is one
step.

A thread that was notified and is late may find its time over (`Expire` on `woken`): `wait_for`
then looks at its predicate once more, and `pop_for` returns the item if there is one.

### Pipe and the refinement

`Pipe` has no mutex and no program counter: a call is pending, takes effect in one step, and
returns. In it a write needs room, a read takes the oldest item, and a read returns nothing only
if the pipe is empty and either stopped or the reader has a timeout. `Linearizable` in `TSQueue`
says that `TSQueue` implements it: `status` is `idle`, `pending` or, between the store of
`stop()` and its return, `closing`. The results of both levels are the same variable, so a wrong
result is a step `Pipe` cannot take.

`push(const T&)` on a queue without limit, which never writes, is a legal behaviour of `Pipe`,
as `Pipe` says nothing about progress.

### TSResource

`m_mutex` gives the owner of each resource's mutex, `accessors` the Accessors in each thread's
variables (slots), with `m_lock`, `m_object` and `m_notify`. An Accessor's destructor is two
steps, `Destruct` (unlock) and `Unlocked` (the call of `INotify::unlocked()`), with other
threads in between. `owed` counts, for each `INotify`, locks that have asked for it and calls it
has had. Clients are legal: no thread locks twice what it owns or starts to lock what is being
destroyed, and Accessors stay in their thread, because a `std::mutex` must be unlocked by the
thread that locked it. Self-assignment of an Accessor is left out. `Overwrites` says whether
clients assign to Accessors that own something.

### Configuration and JsonStorage

`setEntry` is `Store` (lock, write the entry, find the watchers), one `CallWatcher` per watcher,
and `MarkDataDirty` (restart the timer, unlock), so that other threads run between the calls of
the watchers. `setDefaultValue` is a `Probe` under the lock, then `setEntry`. The timer goes off
when the owner's event loop runs (`Timeout`), saves by `SaveData` (lock, write the temporary
file) and `SaveDataReturns` (commit, unlock). `Destruct` saves if the timer is active. `Crash`
may happen at any time; only the file remains, and `Construct` loads it. `QTimer::start` in a
foreign thread starts nothing and stops the timer of the owner; whether the timer then counts as
active is left open.

In `JsonStorage` a document maps the path of each member to its value, or to `Object`. `WriteTo`
is `writeTo` with the recursion unfolded: on the way to the path other values become objects,
and what is below the path goes. `Document` folds it over the entries in the order of the
`std::map`, in which a path comes before its extensions; that is all `InOrder` says of it.

How the object is used is chosen in the first state and kept in `writers` (the threads that set
entries), `fails` (whether open, write, commit and reading may fail: the code looks at none of
these results) and `keys`. So one run covers several uses, and properties can say for which they
hold: `Careful` means that the owner alone sets entries and files work.

### PersistentMap and the refinement

`PersistentMap` has no locks, timers, watchers or temporary files: a map, a copy of it, and a
life cycle. `Set` changes the map, `Save` replaces the copy as a whole, `Close` may leave it as
it is only if it is up to date already or the client is not careful, `Crash` loses the map, and
`Open` begins with the copy. An entry whose key goes on in the key of another one is not in the
copy (`Storable`), because JSON has one place for both. `ActsAsPersistentMap` says that
`Configuration` implements it: the copy is what `load()` would return (`Storage!Stored`), a
destructor that is still saving is `open`. So a file that is torn by a crash within a save, one
that mixes two saves, an entry lost in the conversion or by a clean shutdown, and a process that
begins with something else than the file, are all steps `PersistentMap` cannot take.

### AStar

Points are objects at addresses (`points`), because `ClosedSet` compares addresses and `OpenSet`
coordinates; `firstPoint` and `lastPoint` are the local variables of `route`. `m_points` and
`m_value` are the two containers of `OpenSet`, `p` is `currentPoint` during the search and the
running pointer of `reconstruct_path` after it. `CallRoute` is `route` as far as the end of
`init`, including the exchange of start and end for containers without `push_front`. `ReachEnd`
and `Expand` are the two ends of the first half of the loop of `findPath`; then each of the
eight neighbours is one step: `Discard`, `Improve` or `Add`. `Reconstruct` is one turn of the
loop of `reconstruct_path`. The router of the repository takes points by age, so `f_score`
influences nothing and is left out. Scores are exact, as pairs of straight and diagonal steps;
two ways of the same length may get scores that differ by rounding in the code, which changes
which of them is returned and not how long it is.

### DataPtr and ValueSemantics

`ptrs` has the data_ptr in each of the client's variables, `objects` the heap. An object knows
the kind of deleter that releases it. One action is one call of a constructor, assignment or
destructor; `copy()`, `del()` and the copier are inside it, in the order of the code: the
deleter of the other data_ptr is taken first, then the old object is deleted, then the copier
called. In `CopyAssignThrows` it throws, and `m_ptr` keeps the address of the deleted object.
Addresses are real: `new` may return that one again, to another data_ptr or to the client that
assigns it, and the destructor and the assignments call `del()` on whatever there is. If an
object is there, it is deleted, whosever it is; if none is, or one for another deleter, that is
undefined, as is reading or changing an object that is gone. Such a step is in the model and the
last one: `undefined` gets the address.

`spoiled` is a history variable, on which no step depends: the addresses with which `copy()` has
left a data_ptr after its copier threw, or with which it called the deleter of another one that
differs. `OneOwner`, `OnlySpoiledHurts` and `ActsAsVariables` say what holds of all other
addresses, and that harm begins at spoiled ones only. That no object is without a data_ptr holds
of all.

`ValueSemantics` has neither objects nor pointers: a variable is unmade, empty, broken, or has a
value. `ActsAsVariables` says that `DataPtr` implements it, where the value of a data_ptr is
that of its object, and broken if its address is spoiled. A copy that fails breaks the variable
it was for and sets `failed`; from then on a variable that is given something may come out
broken, which is one whose new object has a spoiled address. No other variable changes. The copy
of an empty data_ptr is not empty but `T()` (`data_ptr.hpp:20`).

### HtmlParser

`Parse` has one action for each reduction of `html.y` that changes something: the begin and the
end of an opening tag, of a closing tag, the slash before the end (whose closing tag comes to
the list *before* the opening one), and the closing tag that the grammar adds for void tags.
`htmlTag` is the tag being read, `open` the elements the document has not closed, `m_htmlTags`
the list in which `AddElement` gives each tag its level. `Find` has one action for each
reduction of `css.y`, and one for each turn of the loop of `findDescendant`: `ChildMatches`,
`OutsideElement`, or neither, when the loop goes on for ever. `query` records the selector;
`Means` says what it should select, in terms of positions and levels and not of the code's
lists: an opening tag for each filter, each in the one before or the same.

Documents may be anything the grammar accepts: `</id>` closes an element that is not the last
one open, void tags are closed by the document too, a tag has several slashes, or elements are
never closed. `nested` says whether the document is still well nested, which the parser does not
know and does not need to; documents that are not are shorter (`MaxWildTags`).

### Sorting and BoseNelson

A call of `merge_sort_internal`, `quick_sort_internal` or `bubble_sort` is named by the sections
that lead to it: `<<1, 2>>` is the second section of the first section of the client's call. Its
record in `calls` has the range, the processors, the label and the variables of its loops.
`Divide` and `PartitionEnds` fork: the sections are left to begin in `todo`, and `team` is the
number of threads that execute them, which the OpenMP runtime may choose smaller than the number
asked for. `BeginSection` needs a free thread of the team, `Join` is the barrier at its end.
`memory` has the array and the buffer of merge sort, whose first content is uninitialised
(`None`); level `p` works in `Work(p)`, as `getWork` of `MergeSortData` does. One step is one
turn of a loop. An element is named by the position it has in the input, so that equal keys
remain different elements, and a lost or doubled one is seen.

Arrays are indexed from 0. `BoseNelson` is the generator: `Pbracket` and `Pstar` yield the same
exchanges in the same order as the functions of these names, which print them. In the code the
table was generated for up to 128 items; the constant `MaxItems` is 3 in the run, so that short
arrays are divided several times. The networks are a fact about a function and no behaviour.
That a network for `n` items exchanges items below `n` and sorts zeros and ones, and therefore
all keys, is proved for every `n` (`NetworksAlwaysFit`, `NetworksAlwaysOrder`,
`ZeroOnePrinciple`, section 4). `MCSorting` has TLC evaluate both before the run:
`NetworksFitTheirRange` for all of the generator's sizes, 1 to 128, and `NetworksSort` for up to
12 items.

### ProgressBar

`data` are the members of each model, `bar` what each view shows, `model` the member `m_model`
of each view, and `connections` the pairs of a model and a view that are connected. Models and
views live in one thread, so a signal is delivered inside the call that emits it (`Emit`). The
slots of `QProgressBar` are external code. `disconnect(model)` in a view is the overload of
`QObject` that ends connections *from* the view *to* the model, and does nothing here.

## 3. Runs

Every run that passes explores its whole state space.

| Run | Instance | What it shows |
|---|---|---|
| `tsqueue_linear` | 1 writer, 1 reader, 1 thread for everything else; 3 items, limit 2 | with all operations of the class, spurious wake-ups and timeouts, every result is one the atomic pipe gives |
| `tsqueue_progress` | 2 writers, `pop`, `pop_for`, 2 items, limit 1, one writer also stops the queue | limit kept; no sleeper forgotten; a sleeper that could work moves on; every `pop_for` returns; a stopped queue gets only what was admitted before |
| `tsresource_safe` | 3 threads, 2 resources, 2 slots, 1 notifier | exclusive access, `is_valid()` equals ownership, one notification per unlock, the notifier may lock again, no Accessor to a destroyed object |
| `configuration_saved` | 2 threads, of which one or both set entries; sibling and nested keys, 2 values, 1 watcher, crashes, files that fail or do not (5 uses) | a persistent map; changes are not forgotten, saves happen when the writers pause; watchers are up to date |
| `astar_route` | from the origin to each point at a distance of at most 3, both kinds of containers | the path leads from start to end and is a shortest one; both containers of the open set agree; scores belong to the origins; the search ends |
| `dataptr_values` | 3 data_ptrs, 4 addresses, 2 kinds of deleters, 2 values, copies that throw, addresses used again | no leaks; one owner, its deleter and nothing shared but for addresses that `copy()` has spoiled |
| `html_document` | every well nested document of at most 6 tags, every other one of at most 4, and every selector of at most 3 filters | levels are depths; results satisfy the selector, in order and once each |
| `sorting_teams` | all arrays of at most 5 keys, and merge sorts of 13 and 16, quick sorts of 10; 1 to 4 processors, teams of any size | no race, no more threads than processors, nothing lost, results sorted, asserts hold, every sort ends |

Where the code does other than its comments say, a run ends with a counterexample:

| Run | Property | What happens |
|---|---|---|
| `tsqueue_bug_stop` | `StopReleasesReaders` | `stop()` notifies between a reader's test and its sleep: the reader sleeps for ever |
| `tsresource_bug_overwrite` | `EveryUnlockNotified` | move assignment to an owning Accessor unlocks it and tells nobody |
| `progressbar_bug_disconnect` | `OnlyItsModelIsShown` | `disconnect(model)` disconnects nothing: a view with a new model still follows the old one |
| `html_bug_endless` | `SearchReturns` | the first child of an element has another name: `findDescendant` looks at it for ever |

Others were seen while modelling. Assumptions of the theorems name two: `clear()` makes room and
notifies no writer (`ts_queue.hpp:180`), and a thread in the public `wait_for_data()` can
consume the only notification of a push meant for a thread in `pop()` (line 196). A push that
has tested the flag writes after `stop()` ("No writes allowed since this moment", line 184), the
destructor does not wait "until TS_Queue becomes empty" (line 68) and may return while a reader
it woke is still inside `pop()`, and `setDefaultValue` replaces a value set between its look and
its write (`configuration.cpp:183`). `push(const T&)` with limit 0 waits for a size below 0
(`ts_queue.hpp:89`). The closed set of the router compares addresses, so the start is processed
again after its neighbours (`std_types.hpp:199`); after `route` it holds the address of the
local `firstPoint`, which the next `clear()` deletes (`base.hpp:113`); and the point that
reached the end is never deleted (`base.hpp:157`). A data_ptr whose copier throws in an
assignment keeps the address of the object it has deleted (`data_ptr.hpp:168`): its destructor
deletes it again, and if `new` has returned the address in between, two data_ptrs point to one
object, although "instead of pointing to the same data a copy of data occurs" (line 31). Five
states of `DataPtr` show it: make `p` and `q`, let `p = q` throw, make `r` at the old address.
Assigning a data_ptr with another deleter deletes the old object by the wrong one (line 145),
although it is the "responsibility of deleter ... to delete owned pointer" (line 43). Both are
in the model, and its properties say how far the harm goes. The entry "test" is lost when
"test::1" is stored too (`configuration_json_storage.cpp:38`), although a `Configuration`
accepts both. A view resets its bar for a model that was *not* reset
(`qtext_progressbar.cpp:85`), and `reset()` of a model tells no view (line 55). Merge sort is
not stable, although a comment says so (`psort_private.hpp:220`), because the networks are not;
`pivotIdx` sorts two of its three candidates (line 96), which costs time and not correctness.
The text after a tag is set when a copy of the tag is in the list already (`html.y:47`).
`stripQuotas` throws for a string that is a single quote (`str_op.cpp:17`). The lexer reads
`<% ... %>` in the state of `<!` (`html.l:43`), so that it ends at the first `>` and the state
`PARAM2` is never entered.

**Bounds.** Each `Items` is handed to one push, which bounds the pushes. Two threads on each
side are the least with competition for one notification; a limit of 1 makes every push and pop
a change between empty and full, a limit of 2 in the other run makes the order of items visible.
Two slots per thread and two resources are enough for every kind of move between an owning, a
foreign and an empty Accessor; a third thread makes a mutex change hands while a notification is
due. Two values distinguish the old value of an entry from the new one, two keys an entry from
its neighbour. The ways of `AStar` start at the origin, because nothing in the code depends on
where they start; a distance of 3 brings points that are processed for the second time and
updates of points in the open set. Three data_ptrs are enough for a copy of a copy while another
one has the same kind, or for two that get the address a third one has kept, and four addresses
for an object the client makes before the old one is deleted. Six tags hold an element with two
children, one of which is void, or three that are nested, and three filters every pair in both
orders; four tags are enough for a void tag that is closed twice and followed by another one, or
a tag with two slashes. Networks of up to 3 items make merge sorts of 4 and 5 divide twice,
where the lower halves end on an odd level or an even one; 13 and 16 items reach five levels,
with both buffers in use at once on several of them. Two keys are enough to compare, reversed
and equal keys are the ends of `partition`. The theorems of section 4 do not depend on bounds.

**Deadlock.** `CHECK_DEADLOCK FALSE` is in the runs in which threads may rightly all be blocked:
readers of a queue nobody writes to any more, threads that wait for two resources in different
orders (the class promises nothing there), a destroyed object, a router that holds the address
of a variable that is gone, undefined behaviour of data_ptrs, a search that reads past the end
of the tag list, a sort that is done (that none stops before is `Terminates`).
`configuration_saved` checks for deadlock.

**Fairness.** `TSQueue!FairSpec`: a thread inside an operation is scheduled, the time of a
`pop_for` passes, and spurious wake-ups do not go on for ever; nobody is obliged to call
anything. Fairness of the mutex is not assumed, as `std::mutex` does not promise it, except by
`PopForReturns`, which states it as its premise. `Configuration!FairSpec`: calls end, and the
event loop of the owner handles the timer. `EventuallySaved` has the premise that writers pause,
because every change restarts the timer. `HtmlParser!FairSpec`: a search that has begun is
computed; nobody is obliged to parse or to search. `Sorting!FairSpec`: some thread goes on while
one can, the least OpenMP promises.

## 4. Proofs

`TSQueueProofs` assumes `TSQueueAssumption` only: finitely many threads, any limit including
none, any items, and any assignment of operations to threads in which one thread at most may
call the destructor.

* `TypeCorrect`, `MutualExclusion`, `SizeIsBounded`. The inductive invariant `IInv` adds to the
  types that the labels inside the critical section belong to the holder of the mutex
  (`MutexInv`), that each label goes with the operations that can be there (`OpInv`), and what a
  thread that has tested its predicate and still holds the mutex knows of the queue
  (`KnownInv`). The last part is what makes the limit inductive: a writer in its body has room,
  because nobody else can have written since its test.
* `ReadersAreNotForgotten`, `WritersAreNotForgotten`: while a reader (writer) sleeps there are
  at least as many awake ones as items (free places). They count: a push adds an item and wakes
  a sleeper, if there is one; a pop removes an item and the reader itself. A woken thread that
  was not needed goes back to sleep only after it has seen an empty (full) queue. They need that
  no thread may call `wait_for_data()` (`clear()`), for the reasons given above.
* `StoppedQueueOnlyDrains`: once the flag is set, the items in the queue and the pushes that
  have passed their look at the flag only become fewer, or change from the second to the first.
  One case per action, by the cardinality of the set `Admitted` before and after.
* `QueueIsLinearizable`: every step of `TSQueue` is a step of `Pipe` or leaves its variables
  unchanged, one case per action, from `IInv`.

`TSResourceProofs` assumes `TSResourceAssumption`, and clients as in the module. Its inductive
invariant is `OwnerInv` (an Accessor's lock belongs to its thread, two Accessors of a thread
have different locks, a held mutex has its Accessor), `SlotInv` (a call of `lock` or of the
destructor is on a live resource, and the slot it will fill is empty), `DestroyInv` (a resource
is destroyed once and nobody waits for it then) with `ValidWhileLocked` and
`NoAccessorOutlives`. From it follow `ExclusiveAccess`, `ValidExactlyWhileLocked` and
`DestructorWaits`, with or without assignments to owning Accessors, and, by a look at each
action, `NotifierUnlockedBefore`.

`NotifiedOnce` counts. A notification is due at each place that will bring one about: an
Accessor that owns a resource and has an `INotify`, or a thread between its `lock` and its
Accessor, or between the unlock in a destructor and the call of `unlocked()`. `Debtors` are the
places where one is due to a given `INotify`, and `DebtInv` says that `owed` is their number.
Every action but one moves a notification from a place to another one, adds one together with
the lock, or removes one together with the call; the lemmas for that are about the cardinality
of a set that loses, wins or exchanges an element. The exception is the assignment to an
Accessor that owns a resource, which takes one away and calls nobody. This is the finding of
`tsresource_bug_overwrite`, and the reason for the hypothesis `~Overwrites`. Without the
hypothesis `DebtInv` has an inequality, from which `NeverNotifiedTwice` and, because a number
that is at least a cardinality is not negative, `TypesCorrect` follow.

`DataPtrProofs` assumes `DataPtrAssumption` only. The inductive invariant takes `OneOwner`
apart: what is pointed to exists (`Exact`), what exists is pointed to (`Owned`), by one data_ptr
only (`Unique`). `Exact` and `Unique` leave spoiled addresses out, `Owned` does not.
`DeletersFit`, that a data_ptr has the deleter for its object, has to be in it, because a
deleter that does not fit would be undefined at an address that is not spoiled. Two lemmas,
`Replacing` and `Losing`, treat the heap after a data_ptr has got another object or lost its
own; they serve all defined steps but the move and the change of an object. `Deleting`,
`Reading` and `ReadingAfterDel` say that what a deleter or a copier may not be called with is
spoiled, or becomes so in the same step (`Hurting`, `Spoiling`). All of them give the values of
the data_ptrs too, so that one lemma for each operation and `Inductive` for all of them has the
step as one that keeps the invariant and as one of `ValueSemantics`. From it follow
`TypeCorrect`, `Ownership`, `Harm` and `Refinement`, without hypotheses on clients.

`ConfigurationProofs` assumes `ConfigurationAssumption` and `StorageAssumption`: keys are
finitely many paths of one name at least, and what stands for a missing file is no document. The
first part is about the storage alone. `StorageAlwaysKeeps`: whatever entries a map has, the
document of them exists, and reading it yields the map without the entries that have another one
below them. The document is a fold over the entries in an order that puts a path before its
extensions. Such an order exists, because a shortest path may come first (`ListingExists`, by
induction on the number of paths), and `InOrder` is one. Then no entry ever removes an earlier
one, so each step of the loop has written the entries it was given, with objects on the way to
them (`WriteNext`, `WrittenIsLoop`), and the loop is the only one (`DocumentIsWritten`). The
induction theorems of the library take an operator; these inductions use `SetInduction`, that a
set of numbers with 0 and the successors of its members has them all, which follows from
`WFMin`. TLC evaluates the same statement, for all maps of sibling and nested keys, in
`MCConfiguration`. The second part is about behaviours. The inductive invariant adds to the
types

* `LockInv`: only the holder of the lock is between `Store` and `MarkDataDirty`, or between the
  two steps of a save; only the owner saves;
* `WriteInv`: the temporary file has the entries as they are now, for the lock keeps everybody
  else out, or was not written;
* `SaveInv`: what is not in the file is being set, being saved, or the timer is active, which
  the destructor needs too.

`TypeCorrect` and `ChangesAreKept` follow. `WatchersAreUpToDate` adds `WatchInv`: a watcher that
was told something is registered, and was told the value of the entry unless the thread in
`setEntry` is about to call it. `ActsAsMap` is the refinement: `Store` is `Set`,
`SaveDataReturns` is `Save`, `Close` or nothing, `Destruct` with an inactive timer is `Close`,
which needs `SaveInv`, and all other steps of threads are invisible. It holds for any use: any
set of writers, files that fail, crashes at any step.

`AStarProofs` assumes `AStarAssumption`: the coordinates are integers, and `None`, which stands
for `nullptr`, is no number. The ends of the way are any points of the grid. The inductive
invariant is about addresses, since the sets of the code hold pointers: points that exist are
finitely many (so that the address of a new one, one more than the greatest, belongs to none),
both containers of the open set list the same points (`Lists`), the open and the closed set are
disjoint and hold points that exist (`SetsInv`), and the neighbours still to be looked at are in
neither of them and have the point being expanded as origin (`VisitInv`). The last part is what
makes `ScoresKeptMatching` inductive: an update changes the score and the origin of a point
together, from a neighbour that is deleted then, and no closed point refers to the neighbour.
That the greatest address exists is shown without induction, by a subset that would be the
smallest one without a greatest element (`WFMin`). From `IInv` follow `TypeCorrect`,
`OpenSetKeptConsistent` and `ScoresKeptMatching`; as in the module, they end where the address
of a variable of a `route` that has returned would be used.

`PathAlwaysShortest` and `SearchAlwaysBounded` rest on a second inductive invariant, `WayInv`,
about the order in which points are taken. The open set is taken by age, so the search goes
through the layers of points that are equally many steps from where it begins: the first `k`
points of the queue are of layer `L`, the others of the next one (`Layer`). Everything in layer
`L` was closed or is among those `k`, and for each closed point of layer `L` its neighbours in
the next layer are in the open set with a score as good as that by it, or the loop of `findPath`
has still to come to them (`Covered`: `Opened` or `Awaited`). Therefore the end is met in the
layer of its distance. No score is less than the one of a shortest way (`Attains`; that nothing
can be less is arithmetic, `NoneIsLess`), and a point of the layer in progress has exactly that
score (`OnShortest`), because every neighbour it has in the layer before has offered its own,
and `Improve` keeps the least. Points that are added again at coordinates that were closed are
in the same places of the queue; the invariant says nothing of their scores, for they are nearer
than `L` and no shortest way needs them. The bound counts: open points have different
coordinates, so that when a layer begins, the queue has no more points than the square around
the begin up to this layer, and the closed ones are at most the squares passed before
(`3 * (Cardinality(m_closedSet) + k) <= Cubes(L)`). `RouteInv` follows `reconstruct_path`: the
steps and diagonal steps of the path made so far and those of the score of the next point add up
to the distance.

`HtmlParserProofs` assumes `HtmlParserAssumption`: `None` is no name of a tag, void tags are
among the names, and attributes are lists of a name and a value. A level is the number of
opening tags before a tag minus that of the closing ones; `addElement` gives it by a look at the
last tag. So
`LevelsAreDepths` is inductive with the types, by lemmas on how the two counts change when a
tag is appended. `NestingIsKept` needs how far the list is ahead of the document at each label
(`Ahead`): a closing tag closes its element in the list before the document does, `<br/>` is
closed before it is opened, and a void element is closed after it.

`ResultsAlwaysSatisfyQuery` and `TypeCorrect` are about `findAll`. Their invariant, `SearchInv`,
says that each list is in the order of the document without repetitions (`Sorted`) and that each
of its elements ends a chain of opening tags that satisfy the filters so far (`AllChained`);
while `findDescendant` runs, that what it has found satisfies the last filter, what it has still
to look at all but that, and that none of the former comes after one of the latter, which is why
the list it makes is sorted. A filter makes a chain one longer (`ChainGrows`). That the tag
behind an element is an opening one and inside of it if it is one level below follows from
`LevelsAreDepths` (`ChildIsInside`): the code looks at levels only. `InOrderIsSorted` says what
the list of the members of a set is, by the least number up to which the set has `n` of them.

`SortingProofs` assumes `InputsAssumption`: an array of at least one item, at least one
processor, which are the asserts of `psort_private.hpp:108` and `:178`, and keys that are
integers. `NoRaces` says that calls that run at the same time use different parts of both
buffers. Its inductive invariant `IInv` is that the calls are a tree in which only those wait
that have sections (`Tree`), and that two calls are in ranges without a common position, or one
is in a section of the other (`Nested`). Two running calls cannot be the second, for a call with
a call below it waits. A new section keeps `Nested` because what is apart from the caller is
apart from the section, and two sections of a call are apart (`SectionsApart`); that needs what
`Bounds` says of the loops, such as that `partition` leaves its index in the range. `Shares`
says that as many sections of a call are in progress as its team has threads, each with
`cpus / team` processors. `ProcessorsSuffice` then follows in each state, for every subtree of
calls: at most `cpus` of them run. It is an induction over the tree, done as the choice of a
smallest set of calls for which it fails.

The last part of `SortingProofs` is about `BoseNelson` alone. A recursive definition is a choice
of a function that satisfies its equation, and it says something only where there is one.
`RecursionExists` gives one: if each value depends on those of smaller arguments only, there is
a solution for the arguments below each size (`SolutionExists`, by `SetInduction`), these agree
(`SolutionsAgree`), and together they are a solution for all. So `Pbracket` and `Pstar` satisfy
their equations (`BracketEquation`, `StarEquation`), also for arguments of which one range is
empty, where the generator would not end and the equation allows the empty list. The two halves
that a network merges differ by one item at most (`Balanced`), and so do the three pairs of
ranges that it divides them into (`BracketDivides`). This gives two inductions
(`BracketInduction`, `StarInduction`).

By these, exchanges stay in their ranges (`BracketFits`, `StarFits`), which `NetworksAlwaysFit`
states. `NetworksAlwaysOrder` needs both again: the values are zeros and ones, and a range is
described by how many zeros it begins with (`Zeros`). If two ranges have their
zeros in front, a merging network leaves both so, with as many zeros in all, and a zero in the
second range only if the first has zeros only (`BracketMerges`). For the three networks of the
division this is arithmetic of eight such numbers (`ZeroCounts`), from what `BracketDivides`
says of the lengths: the first half of the first range is not longer than that of the second,
and its second half not shorter.

`SortingContentProofs` goes on to the elements and their order. While a call runs, `IInv` says
that nobody else works in its range. What it does itself is one of two things:

* all loops but the one that merges permute the range of the call in the array (`Moves`, with
  the permutation as witness), so that a range that contains it keeps its elements
  (`MovesKeep`);
* a merging call copies an element of the other buffer to the next free place. `Merged` is what
  has been merged and what is left of the two halves, which a turn does not change
  (`MergeTurnHolds`).

The inductive invariant `CInv` adds for merge sort that a call that has not begun finds what the
client put there, that the sections of a call that waits have the two halves of its range, and
that what a call holds is what was in its range (`Holds`). The steps of a call leave `Holds` of
the others alone, because it is about their ranges (`OthersHold`) and those of sections that
have not begun (`PartsUntouched`). `ElementsKept` states `NothingLost`, and `TypeCorrect` states
`TypeOK`: uninitialised items of the buffer never get into the array, because `Work` alternates
and a merge reads what its sections hold.

`RangesStayOrdered` states `RangesOrdered`, by `OInv`: what is left and right of each call's
range is ordered against it (`Ordered`), and the loop of `partition` has smaller items before
`j` and others from there to `i`, which makes two parts with the pivot between them once the
pivot is at `j` (`Parted`). A call that runs moves no item across the end of any other range or
across the pivot of a caller (`OrderedKept`, `PartedKept`), so both survive the steps of other
threads; a new section is ordered against the rest because its caller is, and because it is
against the pivot (`SectionOrdered`).

`CallsReturnSorted` states `SortedWhenDone`, for the three algorithms at once. `NetworkRuns` are
the lists of the values after each exchange of a network: the invariant keeps such a trace for
each call in a network, and a turn of `fast_sort` adds one element to it (`NetworkTurn`). That a
network that sorts zeros and ones sorts all keys is a lemma (`ZeroOnePrinciple`): an exchange
commutes with replacing each key by whether it is below a bound (`SwappedLevel`), so two items
out of order would leave a trace of zeros and ones out of order. The inductive invariant `SInv`
has two parts. `Settled` says of each call what its loop has achieved: what is merged is sorted
and at most what is left (`MergeMono`); what lies behind the last exchange of bubble sort, and
what lies behind the previous one, is in its place (`BubbleMono`); the keys of a network are the
last of a trace; what a returned call leaves is sorted. `Kids` says that a section of a waiting
call has not begun, is in progress or returned with its part of the range, or has less than two
items. It is needed for the join: sorted halves begin a merge, and sorted parts with the pivot
between them (`Parted`, from `OInv`) are a sorted range (`JoinedSettled`). Nobody else touches
the range of a call that runs or has returned, so other threads leave `Settled` alone
(`SettledKept`).

Only model-checked:

* liveness, that is `ReaderWithDataMovesOn`, `WriterWithRoomMovesOn` and `PopForReturns` of
  `TSQueue`, `EventuallySaved` of `Configuration` and `Terminates` of `Sorting`: no backend of
  TLAPS treats fairness.

## 5. Not modelled

* Undefined behaviour of clients: locking a resource twice in a thread, passing an Accessor to
  another thread, using a queue after its destructor.
* `m_watchers` is not guarded; registering a watcher while entries are set is a data race.
  `WatchFor` therefore happens while no entry is being set.
* Watchers that read or set entries lock a mutex their thread owns. Nothing says they may; the
  watchers of the model do not.
* What becomes of changes whose save has failed: nothing looks at the results
  (`configuration_json_storage.cpp:112`), the timer is off, and the change is not saved until
  the next one. `NothingForgotten` and `EventuallySaved` are stated for files that work.
* Builds with asserts abort where the model goes on (`ts_queue.hpp:74`,
  `configuration_json_storage.cpp:33`, `base.hpp:226` for a way from a point to itself).
* A second `route` of a router, and its destructor, when the closed set holds `firstPoint` of
  the first: undefined behaviour. Maps other than the unlimited grid, for which clients override
  `get_neighbours`.
* What follows undefined behaviour of a data_ptr (section 2): a deleter that is called twice may
  end the process or corrupt the heap.
* Deleters that do something with `nullptr`, copiers that make something else of an empty
  data_ptr than `T()`, clients that hand a pointer to two data_ptrs and clients that use
  `nullptr`.
* What an `INotify` does in `unlocked()`. `NotifierMayLock` says that it may lock again;
  that the resource may be destroyed by then (`ts_resource.hpp:86`) is up to the notifier.
* Lexers, texts and the syntax of attributes. Two parsers in two threads: `htmlTag` is one
  global variable (`html.y:33`), which is a data race.
* `findDescendant` when the list ends with an opening tag: it reads past the end
  (`searchlist.cpp:67`), and the model stops. `E > F`, `[a~=b]` and `[a|=b]`, which are accepted
  and have no effect (`css.y:52`, 78 and 79).
* Destruction of models of progress bars, after which views would keep a dangling pointer, and
  the file chooser: the state it adds to that of Qt's widgets is one callback, which is called
  and never changed by itself.
* Not in the models because nothing in them has a state or an order of steps: `stripQuotas` and
  `stripBlanks`; the logger `ol::Debug`, whose constructor names `DebugLevel::Level`, which is
  declared nowhere (`debug.hpp:77`); the wider multiplication of `math.hpp`; `Crc32`, whose
  `calc` has no implementation; `cpuid`; the benchmark `psort.cpp`; and the program that writes
  the generated networks to a file.

## 6. Plan

Each invariant of the passing runs is stated by a theorem, and so are the action properties and
the three refinements that TLC checks. What is left:

1. Liveness. The steps that decrease a measure could be proved, the step from there to
   "sometime" could not; the properties of section 3 with fairness stay with TLC.
2. The hazards without a property (`PROJECT.json`): most are preconditions that no comment
   states, of which a model would only say that they are needed.
3. A second call of `route`, as soon as the sets of the router keep no address of a local
   variable.
