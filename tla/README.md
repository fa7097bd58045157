# RDFCacheK2 in TLA+

RDFCacheK2 is a server that answers triple-pattern and basic-graph-pattern
queries from compressed quad-trees (k2-trees), one tree per predicate.  This
directory holds TLA+ models of it, the TLC runs that check them and TLAPS
proofs about them.  Paths below are relative to the repository.

## The system

| part | state | operations | where |
|---|---|---|---|
| Cache replacement | `priority_set`, `space_map`, `size_used`, the strategy's counters, `in_use` | `hit_key`, `mark_using`, `mark_ready`, `is_using` | `core/replacement` |
| Replacement worker | a queue of lists of missed predicates | `add_task`, `process` | `network/server/replacement` |
| Predicate index | the index file; `predicates`, `dirty_predicates`, `new_predicates`, `metadata` in memory | `load_single_predicate`, `fetch_k2tree`, `discard_in_memory_predicate`, `load_all_predicates`, `sync_to_persistent`, `sync_logs_to_indexes`, `full_sync_logs_and_memory_with_persistent` | `core/manager/PredicatesIndexCacheMD.cpp` |
| Updates log | the log, offsets and metadata files; `offsets_map`, `total_updates`, an open writer or reader | `log`, `recover_predicate`, `recover_all`, `compact_logs`, `clean_append_log` | `core/updating` |
| Predicates cache manager | references to the two above | `merge_update`, `merge_add_tree`, `merge_delete_tree`, `remove_key`, `retrieve_key` | `core/manager` |
| Node ids | a sorted sequence, a map, a log of new ids | `get_id`, `get_id_or_create`, `restore` | `core/nodeids` |
| Server | a queue of connections, worker threads, maps of triple streams, BGP streams and update sessions | one handler for each message | `network/server` |
| Streamers | position in a scan or a sorted result | `get_next_response` | `network/streaming` |
| Query engine | a stack of join operators, a time limit | `next`, `tick`, `force_cancel` | `query_engine` |
| Fully indexed cache | expanded copies of small predicates, an LRU of its own | `init_streamer_predicates`, `get`, `resync_predicate` | `core/fic` |
| Memory manager | segments, pools with free lists | `request_memory`, `free_memory` | `memory` |
| External sort | a file, a part in memory, files of a level, a pool of threads | `split_file`, `parallel_sort`, `merge_pass` | `algorithms` |
| Index builder | a temporary file of trees, the index file | `build`, `build_orig`, `build_debug`, the scripts that prepare the triples | `core/builder`, `scripts` |
| K2-tree wrapper | nodes above `cut_depth`, trees of blocks below | `insert`, `has`, `write_to_ostream`, `read_from_istream` | `core/k2tree` |
| Path search | none that outlives a call | an offline tool | `core/algorithms` |

How they interact.  A connection is a task that one server worker runs to its
end.  A request that wants to stream triples locks its predicates: under the
replacement mutex the ones in memory are marked in `in_use` and the others are
queued.  The replacement worker hits the queued predicates, evicts others to
make room and loads them through the predicates cache manager.  The end of a
stream takes the marks back.  An update session collects triples and commits
them as a batch of records, which is appended to the log and merged into the
trees that are in memory; a predicate that is loaded later is read from the
index and the records of the log are merged over it.  A sync message writes all
trees to a new index, compacts the log, merges the predicates that are not in
memory and removes the log.

What is hard: the worker evicts while requests mark; the comparator of a
`std::set` reads mutable state; four files are replaced in several steps that a
crash can separate; the log is read, appended to, compacted and removed while
its offsets live in memory; update and sync run on different threads without a
common lock; a condition variable is notified without its mutex; a join
backtracks over operators under a time limit.

What makes each part correct:

* replacement: the budget is kept, marks balance, nothing in use is evicted,
  `hit_key` returns;
* index, log and manager: a query sees every logged update, nothing logged is
  lost, a sync finds every tree it writes, compaction keeps the meaning of the
  log;
* node ids: one id for a node and one node for an id, also after a restart;
* server: every queued connection is served, every acknowledged update
  survives, a finished stream holds nothing;
* streamers and query engine: every matching row is delivered once; a timeout
  or a cancellation only shortens the answer;
* fully indexed cache: its content is the tree's.

## Plan

Done: `CacheReplacement`, the store (`PredicatesStore`, `LogReplay`),
`NodeIds`, `BGPJoin` with its abstract specification `QueryAnswer`, `Server`,
`UpdateSession`, `Streams`, and the path from a text file to trees in memory
(`ParallelWorker`, `ExternalSort`, `K2TreeFile`, `IndexBuilder`,
`MemoryManager`, `IndexReader`).

Proved: the safety properties of `CacheReplacement`, of the store and its log,
of `NodeIds`, `BGPJoin`, `Server`, `UpdateSession` and `Streams`, and that
`BGPJoin` implements `QueryAnswer` (see "The proofs").

Left: the path from text to trees.  `ExternalSort`, `K2TreeFile` and what extends
them use RECURSIVE operators and stay with TLC.

## The modules

| module | models |
|---|---|
| `LRUReplacementStrategy`, `FrequencyReplacementStrategy` | the strategy classes, as operators on their state |
| `CacheReplacement` | `hit_key` with the worker's queue, and the request threads |
| `PredicateUpdates` | the records of the log and `merge_with` |
| `PredicatesMemory` | the trees in memory and what merging does to them |
| `LogReplay` | the loops of `recover_predicate` and `compact_predicate`, a record at a time |
| `PredicatesStore` | index, log and manager with their files, crashes and restarts |
| `NodeIds` | the sorted sequence, the map and the log of node ids, with workers and restarts |
| `QueryAnswer` | what a client may expect of the answer to a query |
| `BGPJoin` | one query: processor, operations, iterator, batches, time limit; it implements `QueryAnswer` |
| `Streams` | streams of triples, plain, sorted and from the fully indexed cache, while the data changes |
| `Server` | accepting thread, workers, locks and the maps of channels, sessions and queries |
| `UpdateSession` | batches, commits and the sync that runs beside them |
| `ParallelWorker` | the pool of threads and its condition variable |
| `ExternalSort` | splitting, sorting and merging; the owner of a `ParallelWorker` |
| `K2TreeFile` | how a tree is laid out, written, measured and read; no variables |
| `IndexBuilder` | the scripts before the sort and the three builders after it; extends `ExternalSort` and `K2TreeFile` |
| `MemoryManager` | segments, and the hooks that tell them from `new` |
| `IndexReader` | two threads that load, grow and discard the trees of the built index; extends `IndexBuilder` and `MemoryManager` |
| `CacheReplacement_proofs` | theorems: marks, evictions and loaded trees; the order of the set and the budget |
| `LogReplay_proofs`, `PredicatesStore_proofs` | theorems: the loops of the log; memory and files through updates, syncs and crashes |
| `BGPJoin_proofs` | theorems: the refinement of `QueryAnswer`, and what follows a timeout |
| `NodeIds_proofs`, `Server_proofs`, `UpdateSession_proofs`, `Streams_proofs` | theorems about these modules |
| `MC...` | instances for TLC |

A handler of `ServerTask` has two sides. `Server` has its locks and maps; what it
does to the data is in the module of the component it calls.

Definitions whose comment begins with "Mutant:" model plausible mistakes in the
code; they are used to show that a property would notice them.

### CacheReplacement

`strategy`, `priority_set`, `space_map`, `size_used` and `in_use` are the
members of the class; `loaded` is the set of keys of
`PredicatesIndexCacheMD::predicates`, `index` that of its metadata and `logged`
that of `offsets_map`; `tasks` is the queue of the `ReplacementTaskProcessor`,
`worker` the place of its thread in `process` and `hit_key` with the locals `key`,
`space`, `it`, `next_size` and `size_erased`; `chan[c]` is the list of loaded
predicates that stream `c` owns, as the number of times it names each.

`hit_key` is not one action.  Only `is_using` takes the mutex, so the steps are:
the early returns (`HitTooBig`, `HitCached`, `HitRefused`), the entry of the
loop (`HitAdmit`), one pass of it (`EvictReachedEnd`, `EvictSkip`, or
`EvictPick` followed by `EvictDrop`) and the end (`Retrieve`).  A request
thread is `LockPredicates`, the critical section of
`process_predicates_lock_for_triple_stream`, `DoneWithPredicates`, the
destructor of the stream, and `FetchK2Tree`, any load through a streamer or a
join, which the budget does not count.  `LogUpdate` is what a commit does here: a
predicate that the index lacks can be loaded from then on.  The size of a
predicate is any member of `Sizes` at each hit, since a sync changes it, and 0
for one that the index lacks.

A sync runs without the replacement mutex.  `SyncBegin` writes what is loaded and
lists the logged predicates; each of them is left out when it is loaded
(`SyncSkip`), or claimed and then fetched (`SyncClaim`, `SyncFetch`); what was
fetched is saved (`SyncSave`) and discarded predicate by predicate
(`SyncDiscard`), with `is_using` not asked and the cache not told; `SyncEnd`
empties the log.

Two windows are open to a stream that marks a predicate: between `EvictPick`
and `EvictDrop`, and between `SyncClaim` and `SyncDiscard`.  `raced` records who
marked what inside one.  `treeless` has the cached keys that may have no tree: the
index lacked them when they were admitted, or a sync discarded them.

### PredicatesStore

A tree is the set of its points.  `index`, `log`, `offsets` and `meta` are the
files, `Absent` a missing one; a missing index reads as an empty one because the
readers start from zero.  `commit_temp_writer` is two steps, the unlinking and
the renaming.  An offset is the place of a record in the file.  The writer is the
one of `utils/FileRWHandler.cpp`: reading the log closes it, and opening it again
truncates the file while `offsets_map` stays.  An old offset then leads to the
record that was written there since, which `merge_update` merges into the tree of
whatever predicate it names, or to nothing (`LoadGarbage`, `CompactThrows`,
after which the model goes no further).
`total_updates` starts as any member of `GarbageTotal`, since the constructor
leaves it uninitialised without a metadata file.  The bulk phase of a sync saves
and discards when the size of what it loaded reaches a threshold, which may
happen at any predicate; a loaded tree is taken to have a size greater than 0.

What a sequence of records does to a tree is stated in closed form
(`ApplyAll`: a point is there when the last record that mentions it adds it, or
when none mentions it and it was there), and so is the record that compaction
makes (`CompactRecords`).  The lemmas `ApplyAllAppend` and `CompactLoop` show
that these are the loops of the code.  `log` is `LogOpen`, then one `LogRecord`
for each record, the commit of the offsets in two steps and `LogMerge`;
`compact_logs` is one `CompactPredicate` for each predicate, in the order of the
map, then the commits of its three files.  `AbsentAssumption` says that the value
for a missing file is not the content of one.

`truth` is what the initial index and all logged batches make.  A batch counts
from the step in which its offsets are saved.  Three variables say where the code
does not keep it, and nothing else is excepted from the properties:

* `torn` is set by a crash in one of the `Windows`, where a file is missing or
  belongs to another log;
* `stale` has the predicates of the log whose offsets no longer lead to all that
  was logged for them, because the writer truncated the file or a compaction
  dropped a kind of update for a predicate that was not in memory; a sync that
  removes the log empties it;
* `lost` has the predicates that were read through stale offsets, found as a
  stray record by such a read, or loaded without their records by a restart with
  `NO_CACHING`.

### LogReplay

`MergeRecords` of `PredicatesMemory` states in one expression what a
sequence of records does to memory.  `LogReplay` reads the records one by one,
as the code does, and checks that both agree; it also runs the loop of
`compact_predicate` beside it.

### NodeIds

`plain`, `mapped`, `log` and `counter` are the files, `imap`, `rev_map`,
`last_assigned_id` and `logs_number` the members, `counter_buffer` what the
stream of the counter has not written (`seekp` writes the value before).
`get_id_or_create` takes no lock and any number of workers run it: it is `Found`,
or `Missing` and then five steps, one for each access to the members.
`last_assigned_id++` is two of them, since the member is not atomic: `ReadLast`
reads it into `seen` and `Assign` writes the next number.  `LogNewKv`, `Add` and
`Answer` read the member again, as the code does.  A thread's `pc` is "missing",
"read", "assigned", "logged" and "added" between them.  `raced` has the nodes
whose creation overlapped another creation; the properties are about all others,
also those that are created after a race.

`Restart` may come anywhere and runs the constructor: the last id
is found, the log is opened for appending, the counter is truncated, and then
`restore` reads as many pairs as the counter says.  Ids are numbers modulo
`IdSpace`, which stands for 2^64.

### BGPJoin

A query is chosen with its trees; `Execute` makes the operations, one for each
pattern, of the six kinds of `BGPOpsFactory`. The order of a scan is the one of
the k2tree library, so the next point is any that is left. `Ops` is one pass of
the loop of `ops_until_last`, `Last` one of the loop of `next_concrete`; the
constructor's first call and `next` differ in `caller`. A run of an operation
ticks one to three times; `Tick` and `TickFails` are these ticks together, which
is exact because `TicksUntilCheck` is at least 3. `Expire` is both the deadline
and `force_cancel`. `SendMessage` ends a batch, `AskMore` is the client's next
request.  `sent_first_batch` starts with either value, since the constructor of
`BGPStreamer` leaves it without one.

`WellFormed` says what the queries are: a list of patterns that is not empty,
whose terms are variables or constants, and the names of the variables, each once.
The code relies on it: without a pattern the iterator has no last operation, and
`get_permutation_vec` looks up the names one by one, so that a name which no
pattern has, or which comes twice, makes rows that are no bindings.
`JoinAssumption` also says that the points of a tree are nodes of which the real
id is known; `get_next_message` throws on others.

`QueryAnswer` has four variables. The mapping gives it the solutions of the
query, computed from the patterns without scans or backtracking, the rows sent,
whether one came twice, and "open", "complete" (`is_last` was sent) or "cut" (the
time is over).

### Streams

A part is stated in closed form: the j-th row of it is the row at which j
rows have been kept (`Part`), and it ends at the first row with which the values
sent exceed the threshold (`PartLength`).

`config` has the options of the server. A channel is created under the mutex that
a sync holds too (`CreateChannel`), goes through the fully indexed
cache for each of its predicates (`IndexSkip`, or `IndexScan` and then
`IndexPublish`: the copy is made outside the lock), and then starts streams. A
stream is a record with the rows left and the rows sent; its `points` are what
its source had when it started. A stream whose tree or copy is destroyed or
changed under it has undefined behaviour in the code: the model sets its status to
"undefined" and says nothing more of it.

`index` and `log` are what a load reads; `log` has the records that the offsets of
each predicate lead to. An update waits for nothing, a running sync included. It is
`UpdateLog`, which truncates the log when the writer was closed, `UpdateCheck`
(`has_predicate_active`), and for each of its operations `UpdateMerge`, which
asks again and may add to a new, empty tree, and `UpdateResync`. Loads and
evictions of the replacement and the steps of a sync (`SyncMemory`, `SyncFetch`,
`SyncDiscard`, which discards without `is_using`) come in between. `stale` has the
predicates whose records were truncated: reading them garbles their trees and those
of stray predicates (`FetchTrees`, `Garbled`); a compacted log may lack kinds, as
`CompactRecords` says.

`raced` has the copies that missed a change of the tree: those made while it
changed, and those of a tree that was loaded again without a change that was lost.
`unsaved` has the predicates with a change that no sync will write, because it
came after the sync had written the tree and before the log was removed, or left no
record.

### Server

The condition variable is modelled with the window between the predicate and
the wait: a worker in `window` does not see a notification, which `missed`
records. `acceptor` is between queueing a task and notifying. Handlers are split
where they take or release one of the two mutexes; those on the map of BGP
streams take none, and `raced` records that two of them overlapped. A request for a
query that is not in the map gets BAD_REQ (`FindQuery`). `ConnectionEnd` answers a
`CONNECTION_END` and goes on serving: only the departure of the client ends a
task.

### UpdateSession

What a session has gathered is one tree to add and one to delete for each
predicate, and a commit is the function that gives each predicate its record:
`log_updates` has at most one record of a predicate, so their order in the batch
does not matter.  A message may name several nodes without a cache id; they get
the next ids in some order.  `Recovered` is the replay of the log in closed form,
`Compacted` the record that `merge_with` leaves, which keeps the kind of the first.

A commit is `CommitLog`, which truncates the log when the writer was closed, and
then, predicate by predicate, `MergeSkip`, or `MergeCheck` (`has_predicate_active`)
and `MergeTree`, in which `merge_op_tree` asks again; between the two the tree may be
evicted. `merge_add_tree` and `merge_delete_tree` of one predicate are one step here
and two in `Streams`. A sync is `SyncMemory`, `SyncCompact`, `SyncLog`
and `SyncClean`; `SyncThrows` is `compact_predicate` that finds another predicate's
record and ends the process. All of it interleaves with the loading and eviction of
trees. Two commits at the same time are not modelled: `log` has no lock, and its
interleaved writes to one stream are undefined.

`truth` has the triples that the clients asked for, deletions as the clients meant
them, in real ids. The exceptions to the properties are kept apart by cause:
`misnamed` has the triples that take part in a wrong deletion (`delete_triple` takes
the object from the subject), `raced` the predicates for which a commit, or a load
of logged records, came in the middle of a sync, or whose tree was evicted between
check and merge, `stale` and `lost` are those of `PredicatesStore`.

### From text to trees

`raw` is the text, `input` the binary file; `nodes` is the sequence the third
script makes and the triples are replaced by places in it. In `ExternalSort` the
owner splits off a part, makes a pool, adds a task for each segment, stops and
joins the pool, merges the segments through a priority queue, and then merges
files level by level, refilling a block when it is empty. `IndexBuilder` takes
the output to trees with one of three functions; a stream is a sequence of words
with their size in bytes, so an offset that is wrong by a byte leads between two
words. What the C library puts into a block is abstracted to points: a block
keeps the first `MaxNodes` and hands the others to its frontier. `IndexReader`
loads with the measured size into a segment, and `MemoryManager` places
segments and objects below or above all addresses in use.

## The runs

| run | what it asks | distinct states |
|---|---|---|
| `cache_lru` | LRU, two streams, three predicates of which commits add one, sizes 1 and 2 and budget 2, a sync at any time | @cache_lru@ |
| `cache_frequency` | FREQUENCY, one stream, a size over the budget; the loop of `hit_key` ends | @cache_frequency@ |
| `store_nocaching` | every predicate loaded at the start, batches of all kinds, one crash at any step | @store_nocaching@ |
| `store_crash` | loads and evictions at any time, batches of all kinds, two crashes at any step | @store_crash@ |
| `store_truncates` | violated: an update after a load | |
| `log_replay` | all sequences of three records for two predicates | @log_replay@ |
| `node_ids` | two workers, three nodes, every sequence of at most two and every map, two restarts | @node_ids@ |
| `build` | every file of up to three triples, one of four and one of seven; two workers, two fetching threads | @build@ |
| `bgp_join` | nine queries that need each operation, over seventeen contents; a timeout at any step | @bgp_join@ |
| `streams` | two clients, two server configurations, three commits or channels, one sync | @streams@ |
| `server` | two workers, three connections | @server@ |
| `sessions` | two sessions, three batches, two commits, one sync | @sessions@ |

What holds.

* `SizeAccounting`: `size_used` is the charge of the cached keys plus what the
  running call has evicted, and never exceeds the budget, through the early
  return of the loop as well.
* `PrioritySetSorted`: the order of the set is the order of its comparator,
  although the costs change and the counters of LRU restart.
* `ResidentsLoaded`: a cached key has its tree, but for those of `treeless`.  Both
  exceptions are real: a key that is admitted with size 0 before a commit names
  it, and one that a sync discarded, stay cached, and a later hit loads nothing.
* `MarksMatchStreams`: a key is marked as often as open streams list it.
* `HeldStaysLoaded`: a held predicate stays loaded, except when the stream
  marked it inside one of the two windows, of the eviction or of a sync.  Both
  are reached: without either exception TLC reports the property.
* `HitReturnsEventually`: `hit_key` ends.
* `SyncFindsTrees`, `CleanMatchesDisk`: a sync finds every tree and copies
  from the file only trees that memory has not changed.
* `LoadedCurrent`: a tree in memory has all logged batches, unless it was read
  through stale offsets or the files are torn; also after its log was truncated.
* `LoggedIsDurable`: outside the windows the files have all logged batches, for
  every predicate that is neither stale nor lost, and a sync that has a stale one
  in memory repairs it.
* `NothingLost`: with everything in memory nothing becomes stale or lost before
  the first crash.
* `ReplayMatchesMerge`, `CompactionKeepsMeaning`, `ReplayChangesNothing`: the
  loops of the log.
* `IdsTranslateBack`, `NodesKeepIds`, `AnsweredInFiles`: with several workers and no
  lock, ids and nodes match, also with an empty sequence, whose last id wraps; a
  node keeps its id; what was returned is in a file.  Only the nodes whose creations
  overlapped are excepted: a race spoils no other node, before or after it.
* `NoTripleLost`, `FilesSorted`: at every step of the sort each triple is in one
  place as often as in the input; when the pool is joined each task has run once.
* `TasksRun`: every task runs, although a notification may be missed.
* `IndexHoldsInput`, `StructureKept`: the trees that are read have the points of
  the text and the structure that was written, with each of the builders.
* `SegmentsSuffice`, `MemoryOwned`: the measured size is enough, and memory is
  freed once and by the right owner.
* `AnswersQuery` (the refinement), `NothingNewAfterTimeout`, `QueryEnds`: a
  query sends its solutions once each and ends; when a timeout is noticed, only a
  row that was already computed is still sent.
* `FicCurrent`: a copy outside `raced` has the points of the tree in memory or, when
  there is none and no record waits, of the index from which it would be loaded.
* `AnswersComplete`, `StreamEnds`: a stream that reported its
  last part sent each match once; streams end, except
  sorted ones of more than one part.
* `NobodySleepsOnTasks`, `ConnectionsServed`: no queued connection waits while
  all workers sleep and every one is served, outside `missed`.
* `RequestsAnswered`: no two handlers wait for each other's mutex.
* `NumbersAreOwn`: the number of a channel, session or query leads to the
  client's own entry.
* `CommittedVisible`, `CommittedDurable`: trees in memory, and the files, have what
  the clients asked for, at every step of commits and syncs that interleave with
  loads and evictions, outside `misnamed`, `raced`, `lost` and what is `stale`.

The type invariants of the modules hold on the same instances; the one of
`CacheReplacement` is part of its run and proved, the one of `NodeIds` is part of
its inductive invariant.

Bounds.  Keys, points and predicates are two or three: every operation on trees
works point by point, and every operation on the cache compares keys pairwise.
Sizes around a budget of 2 give keys that never fit, that fit alone and
that fit together.  `MaxClock` lets the counters of a strategy pass several
evictions and a restart; `MaxTasks` lets a list wait while another is
worked on, and two streams can hold one predicate.  The commits of the cache runs name
the predicate that the index lacks, so that it is admitted before and after it is
logged, and claimed by a sync.  Three nodes with sequences of at most
two give the empty sequence and new nodes after both files; two workers can
create two nodes, or the same node twice, and a third afterwards.  Three or four
batches and two or three syncs cover update, load, update (which truncates), sync,
update, sync; a crash can fall at each of
their steps, and the second one on the way back from the first.  In `build` a part has
three triples and a segment two, so that a
part has a full and a short segment; blocks of one triple are refilled all the
time; seven triples take two levels of merges and give a tree whose frontier is
two levels deep.  In `bgp_join` batches of one and two rows end in the middle of
a scan, and five ticks between two looks at the clock let a timeout be noticed
late.  In `streams` three matches take two parts, and one commit
has additions and deletions, so that its second operation can meet an eviction or
a sync.  In `sessions` two commits give an addition and then a deletion of the same
predicate, with a load between them, and one batch has a deletion that goes wrong.  In
`server` three connections for two workers make one wait.  Deadlock is not
checked: the bounds stop the models.

Fairness.  `CacheReplacement` assumes weak fairness of `EvictStep`, the loop of
`hit_key`: it is a thread of its own that waits only for the replacement mutex,
whose critical sections are finite.  Nothing is assumed of the arrival or the
wake-up of tasks, nor of streams: they may stay open for ever.  `BGPJoin` assumes
it of the thread that computes (`Server`) and of a client that asks for more;
nothing makes time run out.  `Streams` assumes that a client asks for the
next part of a stream it started.  `Server` assumes it of the accepting thread,
of each worker and of the departure of a client, without which a client that
stays keeps its worker for ever and `ConnectionsServed` does not hold: the code has no
timeout on a connection.  `IndexReader` assumes it of the owner of the pool and of
each of its threads.

## Where the code departs from what is said of it

* `store_truncates`, the one run that is violated: loading a predicate closes the
  writer of the log; the next update opens the file without `std::ios::app` and
  truncates it.  The tests do not see it because their file handler
  (`test/mock_structures/FHMock.cpp`) appends.

Known, and modelled with an auxiliary variable that names what it reaches, or kept out
where it is said so:

* LRU: `remove_key` takes the next key of a map ordered by key for the next least
  recent one and restarts the counters when there is none, so a key that was hit
  last can be offered first.
* Log: `merge_with` drops the points of a record for which the first record of
  the predicate has no tree, so that an insertion and then a deletion for a
  predicate that is not in memory loses the deletion at a sync (`stale`); the
  hypothesis of `CompactionKeepsMeaning` says when this does not happen.
  `new_predicates` is never cleared, and a later sync lists the predicate twice.  The
  metadata file is opened in a mode that does not create it, so the number of batches
  is lost at a restart and, with `NO_CACHING`, `recover_all` may replay nothing: what
  the log has is not seen (`lost`).
* Sync: it discards what it fetched without `is_using` and without telling the
  cache.  A stream that marked the predicate meanwhile reads a destroyed tree, and
  a key that was admitted meanwhile stays cached without a tree (`raced` and `treeless`
  of `CacheReplacement`).  A commit during a sync may be merged into a tree that the
  sync has already written, and its record is removed with the log (`raced` of
  `UpdateSession`, `unsaved` of `Streams`).
* Updates: `merge_update` checks that a predicate is active and `merge_op_tree` checks
  again; when the tree is evicted in between, additions go to a new, empty tree
  which then stands for the predicate (`raced`).
* Node ids: the counter of the log is truncated before it is read, so no new id
  survives a restart, and its number is given to another node.  Keeping the
  counter alone does not help: the last id is found before the log is read.
  `last_assigned_id` is incremented and read again without a lock, so two workers
  may return one id for two nodes, or two ids for one (`raced`).
* Pool: `add_task` and the stop notify without the mutex.  A missed stop makes
  `wait_workers` hang, and the model then stops there.
* Sort: an empty input reads `current_filenames[0]` of an empty vector; with
  `max_files` 1 the levels never get fewer (excluded by `SortAssumption`).  The
  priority queue's comparator is not a strict weak order for equal predicates;
  the model takes any least triple.
* Builders: a feed that is not sorted gives an index with a predicate twice.
  `build_debug` with its exhaustive check refuses a file with a repeated triple,
  which the others accept.  The conversion script leaves numbers of a short line
  uninitialised; the inputs have three in every line.
* Index: two threads may find a predicate missing and load it one after the
  other, which leaks the first segment and destroys the first tree (`reloads`).
  `free_segment` takes no lock while `find_segment` does; concurrent access to its
  `std::map` is undefined, and the model takes each call as one step.  The copy assignment of a tree leaks its old root.
* Join: a predicate with the cache id 0 counts as one without a tree, and
  `?x p ?x` is answered without comparing the two (both excluded by
  `JoinAssumption`); an empty list of patterns is undefined.  A timeout at the
  first tick of `next_concrete` leaves `next_available` set, and the same row is
  sent again: `QueryAnswer` allows a repetition after a cut.  The scanners hold
  references to trees that no mark protects; in `BGPJoin` the trees do not change.
* Streams: a sorted stream never advances `current_sent`, so that one of more
  than one part sends the first for ever.  An exact match asks the tree with the
  untranslated ids of the request.  A sorted stream without rows reports an exact
  response, and one of a missing predicate dereferences null; a scanner over the
  cached copy dereferences the end for a node it does not have, and one over
  nothing throws when it is asked for its tree ("undefined" in the model).  A plain
  stream sends shortened rows for nodes without a real id.
* Fully indexed cache: a copy that is evicted or renewed is destroyed under the
  streams that read it, and one that was made while an update ran may stay
  behind the tree.
* Server: sockets are never closed; a client that leaves without its last message
  leaves its channel, session or query in the map; `CONNECTION_END` does not end
  the task; a cancellation may reach a stream that was just cleaned.
* Sessions: `delete_triple` takes the object from the subject of the triple.  A
  session is never erased, so that a second commit applies all of it again.
  Deletions with a node 0 are ignored, additions are not.

## The proofs

All theorems are for every value of the constants that satisfies the named
assumptions of the modules: keys and sizes are naturals, streams are finitely
many, bounds are naturals, no tree is `NoTree`, and so on.

*CacheReplacement_proofs.*  `TypeCorrect`, `MarksBalance`, `HeldPredicatesStay`
and `CachedAreLoaded` follow from one inductive invariant, `CacheInv`.
`HeldStaysLoaded` is not inductive: at `EvictDrop` one must know that the
streams that hold the picked key marked it after it was picked, which is
`PickedInv`; that in turn is established at `EvictPick` from
`MarksMatchStreams`, since a count of 0 means that no stream lists the key.
`ClaimedInv` is the same for the keys that a sync will discard, and is established at
`SyncClaim` from `HeldStaysLoaded` itself: the key is not loaded, so a stream that
holds it had lost it before.
`QueueInv` (no key twice in the set, every key charged) and `WorkerInv` (the key
that is being admitted is not in the set) are what the steps of the worker
need.  The lemmas before it say what erasing from and inserting into a sequence
without repetitions does to its set, and that a stream which lists a key n
times adds n marks.

In the same module, `PrioritySetStaysSorted` follows from `OrderInv`: the
costs of the strategy are natural numbers and the set is in their order.  The
argument is that `hit_key` and `remove_key` of both strategies move the costs of
the keys that stay in the set together, also when LRU restarts its counters, and
that a key is erased before its own cost changes.  `SizeAccountingHolds` follows
from `SizeInv`.  What the cached keys are charged (`Charged`) is the number of
pairs of a cached key and a unit of its space, so that the sum over the keys is
the cardinality of a finite set and one insertion or eviction is one disjoint
union or difference.

*LogReplay_proofs.*  The lemmas before the theorems are about one more record
(`ApplyAllAppend`) and about two merged ones (`MergeWithComposes`,
`MergeWithAbsorbed`).  `CompactionCorrect` and `CompactedReplayIdempotent`:
for each predicate and point, the merged record says of the point what the last
record that mentions it said, as far as its trees allow.  `ReplayIsMerge`: after
each record, the memory of `recover_predicate` is the one `MergeRecords` gives
for the records so far (`ReplayInv`).

*PredicatesStore_proofs.*  Its lemmas about records: `ApplyAllAppend` (one more
record), `ApplyAllTwice` (records that were applied change nothing when they are
applied again), `CompactLoop` (the closed form of the compacted record is what
`merge_with` makes step by step), `CompactMeans` (it does to any tree what its
records do, when they are of one kind) and `CompactAbsorbed` (it does nothing to
a tree that has them, of whatever kind).  They pick the last record that
mentions a point with the least-element theorem of well-founded orders, not by an
induction over the records.

`SyncSafe` and `CleanTreesAreStored` hold for all
constants.  Their invariant `StoreInv` adds to the two properties what the
`.tmp` index holds between its serialisation and its renaming, and that a tree in
memory is new or listed by the metadata (`TreesKnown`).

`LoadedIsCurrent` and `LoggedSurvives` hold for all constants too: the truncating
writer, batches of all kinds and any number of loads, evictions, syncs and crashes.
The invariant is `FilesInv`, and says, unless a crash fell in a window, of the
`Sound` predicates, which are neither stale nor lost:

* memory: a tree in memory is the true one, also of a stale predicate (`MemInv`);
* disk: the saved offsets lead to records of their predicates, which make the true
  tree of the one in the index (`Fits`), outside the windows (`DiskInv`), and where
  the logger's map is the one on disk (`SameInv`);
* the operation that runs: the records that `log` has written so far make the
  trees that these records stand for (`LogInv`); the `.tmp` index has what memory
  has and fits the same log (`TmpInv`); the `.tmp` log has, for each predicate that
  `compact_logs` is done with, a record that makes the true tree (`CompactInto`);
  what `sync_logs_to_indexes` is done with is in the index or held
  (`BulkSaved`); the index has everything when the log is removed (`CleanInv`);
* what is stale is in the log (`StaleInv`): the removal of the log, which empties
  `stale`, is then after the index got what memory has.

Each is needed: the true trees survive the replacement of the index because a
log that was applied may be applied again (`FitAgain`, from `ApplyAllTwice`), the
replacement of the log by `CompactMeans` or `CompactAbsorbed`, and an update
because offsets into a log that grows stay good (`FitGrows`).  A truncation makes
every predicate of the log stale, so nothing that is sound has an offset into the
file that is gone.  A load through stale offsets reaches other predicates than its
own only by a record that names them, and these become lost (`LoadOthers`,
`SoundMisread`).

`NothingIsLost` has a hypothesis, `Resident`: `NO_CACHING` and an index that has
every predicate.  Its invariant `ResidentInv` says that memory has all predicates
and the writer stays open between updates, until the first crash.

*NodeIds_proofs.*  `IdsMatchNodes`, `IdsAreKept` and `AnswersAreLogged` hold for
every set of nodes, of threads and number of restarts.  `IdsTranslateBack` alone is
not inductive.  Nodes of the map that did not race are `Settled`.  That a new id
collides with none of theirs is `IdsClear`: the next id is after all of them, not
only the one that follows `last_assigned_id` but also the one that an increment
which has only read will write, and so is an id that is assigned and not yet added.
A late write can therefore move `last_assigned_id` back, but not behind a settled
node, since a node settles only if its creation overlapped no other
(`SoloOrRaced`: of two threads that create, both have raced).  `MapsInvert` says
that the maps are inverse on settled nodes, `NewNodes` that the node
being added has no id yet, and `PairsInFiles` that its pair is in the log.  The
lemmas before it are about the wrap of unsigned numbers, `std::lower_bound` on
a sorted sequence and the last key of a map.

*BGPJoin_proofs.*  `JoinAnswersQuery` states that `BGPJoin` implements
`QueryAnswer`: until the time is over, a step sends nothing or one solution of the
query that was not sent before, and the answer ends as complete only when all were
sent; once the time is over the answer is cut, may hold a row twice and may lack
some, but every row in it is a solution.  None of this is inductive.  `JoinInv` follows the search:

* `Rows` are the vectors of cache ids that the iterator has to find: each pattern's
  point under them is in the pattern's tree; `Found` makes the rows of the client
  from them, and these are the solutions of `QueryAnswer`, one for one, since
  the headers are a bijection of the variables to the positions (`HeaderPos`), the
  client names each variable and real ids are unique (`Permuted` is injective).
* For each operation, `Left` is what it still gives.  `Todo` has the rows to which
  the operations before the current one still lead: they agree with what is in
  the vector up to some operation, and go on with a point that it still has.
* `TodoInv`: what was sent, the row that was found and not sent (`Pending`) and
  `Todo` are disjoint and together all the rows.  This makes the refinement: a
  send takes the pending row, and the end of the search means that `Todo` is empty.
* `SearchInv`: each operation below the current one has given the point of the
  row and will not give it again, and the ones above are new.  Without the first
  part, the row that was just completed could stay in `Todo`; without the second,
  an operation that is entered again after backtracking could miss rows.
* `ControlInv`, `IdleInv` and `RowInv` are about the flags of the iterator and of
  the clock, the state between requests and the vector.

For each of the six kinds of operation a lemma shows what its run does (`OutcomeOK`):
it gives one of the points left and removes it, or gives nothing and none is left.
From these, `Todo` changes as it should when the search goes forward, finds a
row, or backtracks.  `TodoInv` and `SearchInv` hold while the
time has not passed; after that only `RowInv` is needed.  `NothingNew` (for
`NothingNewAfterTimeout`) needs no invariant: once the time has passed no tick
succeeds, so no step sets `next_value`, and one that returns a row sends the one
in `result` or the one in `next_value`.

*Server_proofs.*  `NumbersAreOwnHolds` follows from `NumbersInv`: every number in
a map, held by a handler or told to a client is below the counter it came from,
and the counters only grow; the one of the queries, which takes no lock, is
excepted once two handlers raced.  `NobodySleepsOnTasksHolds`: a queued
connection with all workers asleep has a missed notification or an acceptor that
is about to notify.  `HolderRunsHolds` is not the property of a run: it is the
safety core of `RequestsAnswered`.  `LocksInv` ties the two mutexes to the places
of the handlers, which take them in one order.

*UpdateSession_proofs.*  `CommittedIsDurable` and `CommittedIsVisible` follow from
`UpdatesInv`.  Trees are compared apart from the points of misnamed triples (`Same`,
`Blurred`).  Its part `PlacesOK` says, for each predicate outside `raced` and `lost`,
where its triples are at each step (`PlacesOf`): the index with the log makes the
committed points unless the log is stale, a tree in memory has them too, or lacks
just the record that is being merged, and the index alone has those of the
predicates that a running sync has written.  The second needs that a record that
is still to be merged changes nothing in a tree that has it, for a tree that is
loaded between log and merge.  `SyncCompact` is the step with the most behind it:
the compacted record does what the records did when no kind is dropped
(`CompactedMeans`) and does nothing to a tree that has them (`CompactedAbsorbed`),
so a predicate that the index already has survives the loss of a kind.  `TruthOK`
and `IdsOK` translate between cache ids and real ids: ids are given once, so an older
tree keeps its meaning when a message creates new ones; `SessionsOK` says that the
trees of a session stand for what its client asked for, apart from misnamed triples;
`RacedOK` that a commit which meets a sync has raced.

*Streams_proofs.*  Two theorems.  `CopiesAreCurrent` (for `FicCurrent`) follows from
`FicInv`.  A copy must follow the tree when the tree is in memory, and the index when
it is not, so what happens when a tree leaves memory has to be known before: `TreeInv`
says that a tree without records, or one that the sync has written, is the one of
the index unless it is `unsaved`.  `IndexInv` is about
the copy that was made and not yet published; `SyncInv` is needed because
`SyncDiscard` empties the log that excuses a copy whose tree is not in memory.
Loads, garbled or not, are one lemma (`FetchLoads`): every tree that a read touches is
followed by a resync of its copy.

`StreamsAnswerAll` (for `AnswersComplete`) needs that points are finite sets at all
times (`PointsInv`): only then are the ranks of the rows exactly the positions
(`AscendingSorts`), rows being ordered lexicographically (`RowOrder`).  `StreamsInv`
has `AnswerOK` for every stream and carries it through the steps of all
others, which reach a stream's status and nothing else.  A
stream of a scan that is not finished has sent, for some number d, what is kept
of the first d rows, the full ones once (`SentUpTo`), and the others are what is
left (`RestAfter`); it is finished when d is all of them.  `PartSent` moves d by one
part.  A sorted stream is finished when its one part is the whole copy.  Two facts
connect this with the matches: a scan has a row for each match, and no two
matches give the same full row (`FullRowsDiffer`, since real ids are unique and
the other end is bound by the pattern).  That a part has each row once is a
counting argument (`RowsOfPart`): the numbers of rows kept up to the places that are
kept grow strictly and stay below the size of the part, so they are all its
positions.

Only model-checked.  Liveness (`HitReturnsEventually`, `QueryEnds`, `StreamEnds`,
`ConnectionsServed`, `RequestsAnswered`, `TasksRun`), which the prover does not
support.  The path from text to trees (`NoTripleLost`, `FilesSorted`,
`IndexHoldsInput`, `StructureKept`, `SegmentsSuffice`, `MemoryOwned`): its modules
use recursive operators, which the prover does not support either.

## Not modelled

* Path search (`core/algorithms/search_paths.cpp`): a tool that is run by hand
  over a cache, without state that outlives it; its answer depends on random
  choices.
* What the k2tree library does inside a block, and the order in which it
  enumerates points.
* The wire format and its helpers, hashing, command lines, benchmarks,
  experiments and one-off conversion scripts other than the ones `IndexBuilder`
  names.
* `MemoryPool`, which nothing includes; `insert_point`,
  `UpdatesLoggerImpl::recover`, and stopping or pausing a worker, which no code
  of the server calls; copies of trees, which only tests make.
* Concurrency between loads and updates is not in `PredicatesStore`, which runs
  one operation at a time; it is in `UpdateSession`, `Streams` and `IndexReader`.
