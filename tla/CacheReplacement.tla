-------------------------- MODULE CacheReplacement --------------------------
(***************************************************************************)
(* Which predicates stay in memory: CacheReplacement<CRStrategy>, the      *)
(* ReplacementTaskProcessor that drives it and the request threads that    *)
(* mark predicates as being used.                                          *)
(*                                                                         *)
(* Three kinds of threads meet here.  The single replacement worker takes  *)
(* the lists of missed predicates from a queue and calls hit_key for each; *)
(* priority_set, space_map, size_used and the strategy are its own.  A     *)
(* request thread locks predicates for a triple stream and later releases  *)
(* them: it holds the replacement mutex while it reads which predicates    *)
(* are loaded, marks them in in_use and queues the others.  Any request    *)
(* may load a predicate through fetch_k2tree, and a commit may log one.    *)
(* The worker takes the mutex only inside is_using, so that a predicate    *)
(* can be marked between that check and its eviction: EvictPick and        *)
(* EvictDrop are two steps.                                                *)
(*                                                                         *)
(* A sync (full_sync_logs_and_memory_with_persistent) runs beside them     *)
(* without the replacement mutex: it loads the logged predicates that it   *)
(* finds not loaded, saves them and discards them without asking is_using. *)
(***************************************************************************)
EXTENDS Integers, FiniteSets, Sequences, SequencesExt,
        LRUReplacementStrategy, FrequencyReplacementStrategy

CONSTANTS
  Keys,         \* predicate ids
  Indexed,      \* the predicates of the index file at the start
  Updated,      \* the predicates that commits name
  Sizes,        \* the sizes in memory that the index may report
  MaxSize,      \* max_size_allowed
  Strategy,     \* the template argument
  Channels,     \* the streams that may be open at a time
  NoChannel,    \* a stream that is not open
  MaxRequested, \* bound: length of the list of a lock request
  MaxTasks,     \* bound: length of the queue of missed predicates
  MaxClock      \* bound: the counters of the strategy

ASSUME KeysAssumption == Keys \subseteq Nat /\ Indexed \subseteq Keys /\ Updated \subseteq Keys
ASSUME SizesAssumption == Sizes \subseteq Nat /\ MaxSize \in Nat
ASSUME StrategyAssumption == Strategy \in {"LRU", "FREQUENCY"}
ASSUME ChannelsAssumption == NoChannel \notin [Keys -> Nat] /\ IsFiniteSet(Channels)
ASSUME BoundsAssumption == MaxRequested \in Nat /\ MaxTasks \in Nat /\ MaxClock \in Nat

VARIABLES
  strategy,     \* the state of the strategy object
  priority_set, \* the std::set of cached keys, in the order it stores them
  space_map,    \* the space charged to a key
  size_used,    \* the space charged to all of them
  in_use,       \* how often a key is marked; 0 is a key that is not in the map
  loaded,       \* the keys of PredicatesIndexCacheMD::predicates
  tasks,        \* the queue of the ReplacementTaskProcessor: sets of missed keys
  worker,       \* the replacement worker: its place in process and hit_key
  chan,         \* loaded_predicates of every open stream: how often it lists a key
  index,        \* the keys of the metadata of the index file
  logged,       \* the keys of offsets_map, the predicates that the updates log has
  sync,         \* the thread that syncs: what is left of it
  raced,        \* auxiliary: <<stream, key>> marked when key was already picked or claimed
  treeless      \* auxiliary: cached keys that the index lacked when they were
                \* retrieved, or whose tree a sync discarded

cacheVars  == <<strategy, priority_set, space_map, size_used>>
storeVars  == <<index, logged, sync>>
vars == <<strategy, priority_set, space_map, size_used, in_use, loaded, tasks,
          worker, chan, index, logged, sync, raced, treeless>>

-----------------------------------------------------------------------------
(* The strategy, chosen at compile time.                                   *)

StrategyInit == IF Strategy = "LRU" THEN LruInit ELSE FreqInit

StrategyHit(s, k) ==
  IF Strategy = "LRU" THEN LruHitKey(s, k) ELSE FreqHitKey(s, k)

StrategyRemove(s, k) ==
  IF Strategy = "LRU" THEN LruRemoveKey(s, k) ELSE FreqRemoveKey(s, k)

ShouldDiscardOthers(k) ==
  \/ Strategy = "LRU"
  \/ /\ Strategy = "FREQUENCY"
     /\ FreqShouldDiscardOthers(strategy, k, priority_set, space_map)

ShouldHitWithoutRetrieval == Strategy = "FREQUENCY"

\* Bound on the calls of hit_key: the strategy can count one more hit.
ClockBelowBound(k) ==
  IF Strategy = "LRU" THEN strategy.high < MaxClock
                      ELSE FreqCost(strategy, k) < MaxClock

(***************************************************************************)
(* StrategyWrapper::operator(), the order of the std::set: by cost, ties   *)
(* by key.                                                                 *)
(***************************************************************************)
CostLess(s, l, r) ==
  LET cost(k) == IF Strategy = "LRU" THEN LruCost(s, k) ELSE FreqCost(s, k)
  IN  cost(l) < cost(r) \/ (cost(l) = cost(r) /\ l < r)

\* std::set::insert under the costs of strategy state s.
SetInsert(queue, k, s) ==
  LET before == {i \in DOMAIN queue : CostLess(s, queue[i], k)}
  IN  InsertAt(queue, Cardinality(before) + 1, k)

\* std::set::erase of an element.
SetErase(queue, k) == RemoveAt(queue, CHOOSE i \in DOMAIN queue : queue[i] = k)

Without(f, k) == [j \in DOMAIN f \ {k} |-> f[j]]

With(f, k, v) == [j \in DOMAIN f \cup {k} |-> IF j = k THEN v ELSE f[j]]

-----------------------------------------------------------------------------
WorkerIdle == [pc |-> "idle", todo |-> {}, key |-> 0, space |-> 0,
               it |-> 1, next_size |-> 0, size_erased |-> 0]

SyncIdle == [pc |-> "idle", todo |-> {}, key |-> 0, claimed |-> {}]

Init ==
  /\ strategy = StrategyInit
  /\ priority_set = << >>
  /\ space_map = << >>
  /\ size_used = 0
  /\ in_use = [k \in Keys |-> 0]
  /\ loaded = {}
  /\ tasks = << >>
  /\ worker = WorkerIdle
  /\ chan = [c \in Channels |-> NoChannel]
  /\ index = Indexed
  /\ logged = {}
  /\ sync = SyncIdle
  /\ raced = {}
  /\ treeless = {}

(***************************************************************************)
(* The request threads.                                                    *)
(***************************************************************************)
\* The key the worker is about to evict: is_using has answered no for it.
Picked == IF worker.pc = "drop" THEN {priority_set[worker.it]} ELSE {}

\* The keys that a sync found not loaded and will discard.
Claimed == sync.claimed \cup (IF sync.pc = "fetch" THEN {sync.key} ELSE {})

\* extract_loaded_predicates_from_sequence keeps what is loaded, repetitions too.
ExtractLoaded(requested) ==
  [k \in Keys |-> IF k \in loaded THEN requested[k] ELSE 0]

\* mark_using, n times.
MarkedUsing(count, n) == count + n

(***************************************************************************)
(* ServerTask::process_predicates_lock_for_triple_stream, for a strategy   *)
(* other than NO_CACHING: one critical section of the replacement mutex.   *)
(* The stream that is then created owns the list of loaded predicates.     *)
(***************************************************************************)
LockPredicates(c, requested) ==
  LET listed == {k \in Keys : requested[k] > 0}
      missed == listed \ loaded
      ready  == ExtractLoaded(requested)
  IN  /\ chan[c] = NoChannel
      /\ missed # {} => Len(tasks) < MaxTasks
      /\ chan' = [chan EXCEPT ![c] = ready]
      /\ in_use' = [k \in Keys |-> MarkedUsing(in_use[k], ready[k])]
      /\ tasks' = IF missed # {} THEN Append(tasks, missed) ELSE tasks
      /\ raced' = raced \cup ({c} \X (listed \cap loaded \cap (Picked \cup Claimed)))
      /\ UNCHANGED <<cacheVars, loaded, worker, storeVars, treeless>>

\* Mutant: the count leaves the map at the first mark_ready.
MarkedReadyErases(count, n) == 0

\* Mutant: every release is counted twice.
MarkedReadyTwice(count, n) == count - 2 * n

\* mark_ready, n times: a count that reaches 0 leaves the map and stays there.
MarkedReady(count, n) == IF count > n THEN count - n ELSE 0

(***************************************************************************)
(* ServerTask::process_done_with_predicates_notify: the destructor of the  *)
(* stream marks every predicate of its list as ready, under the mutex.     *)
(***************************************************************************)
DoneWithPredicates(c) ==
  /\ chan[c] # NoChannel
  /\ in_use' = [k \in Keys |-> MarkedReady(in_use[k], chan[c][k])]
  /\ chan' = [chan EXCEPT ![c] = NoChannel]
  /\ raced' = {r \in raced : r[1] # c}
  /\ UNCHANGED <<cacheVars, loaded, tasks, worker, storeVars, treeless>>

\* PredicatesIndexCacheMD::fetch_k2tree, from a streamer or a BGP join: what the
\* index lacks and the log has gets a tree of its own.
FetchK2Tree(p) ==
  /\ p \in (index \cup logged) \ loaded
  /\ loaded' = loaded \cup {p}
  /\ UNCHANGED <<cacheVars, in_use, tasks, worker, chan, storeVars, raced, treeless>>

\* UpdatesLoggerImpl::log, from a commit: offsets_map gets the predicate.
LogUpdate(p) ==
  /\ logged' = logged \cup {p}
  /\ UNCHANGED <<cacheVars, in_use, loaded, tasks, worker, chan, index, sync, raced, treeless>>

(***************************************************************************)
(* The sync, which holds the mutex of CacheServerTaskProcessor and not the *)
(* replacement mutex.                                                      *)
(***************************************************************************)
\* sync_to_persistent writes what is in memory; compact_logs keeps the predicates
\* of the log, and get_predicates lists them.
SyncBegin ==
  /\ sync.pc = "idle"
  /\ index' = index \cup loaded
  /\ sync' = [sync EXCEPT !.pc = "check", !.todo = logged]
  /\ UNCHANGED <<cacheVars, in_use, loaded, tasks, worker, chan, logged, raced, treeless>>

\* has_predicate_active: a predicate that is loaded is left out.
SyncSkip(p) ==
  /\ sync.pc = "check" /\ p \in sync.todo \cap loaded
  /\ sync' = [sync EXCEPT !.todo = @ \ {p}]
  /\ UNCHANGED <<cacheVars, in_use, loaded, tasks, worker, chan, index, logged, raced, treeless>>

\* One that is not loaded is fetched next.
SyncClaim(p) ==
  /\ sync.pc = "check" /\ p \in sync.todo \ loaded
  /\ sync' = [sync EXCEPT !.pc = "fetch", !.todo = @ \ {p}, !.key = p]
  /\ UNCHANGED <<cacheVars, in_use, loaded, tasks, worker, chan, index, logged, raced, treeless>>

\* fetch_k2tree, and loaded_predicates.insert, whoever loaded it by now.
SyncFetch ==
  /\ sync.pc = "fetch"
  /\ loaded' = loaded \cup {sync.key}
  /\ sync' = [sync EXCEPT !.pc = "check", !.key = 0, !.claimed = @ \cup {sync.key}]
  /\ UNCHANGED <<cacheVars, in_use, tasks, worker, chan, index, logged, raced, treeless>>

\* clean_up_bulk_sync, at the end or once enough was fetched: the trees are saved ...
SyncSave ==
  /\ sync.pc = "check" /\ sync.claimed # {}
  /\ index' = index \cup loaded
  /\ sync' = [sync EXCEPT !.pc = "discard"]
  /\ UNCHANGED <<cacheVars, in_use, loaded, tasks, worker, chan, logged, raced, treeless>>

\* ... and discarded one by one, in use or not.
SyncDiscard(p) ==
  LET left == sync.claimed \ {p}
  IN  /\ sync.pc = "discard" /\ p \in sync.claimed
      /\ loaded' = loaded \ {p}
      /\ sync' = [sync EXCEPT !.pc = IF left = {} THEN "check" ELSE "discard", !.claimed = left]
      /\ treeless' = treeless \cup ({p} \cap ToSet(priority_set))
      /\ UNCHANGED <<cacheVars, in_use, tasks, worker, chan, index, logged, raced>>

\* clean_append_log
SyncEnd ==
  /\ sync.pc = "check" /\ sync.todo = {} /\ sync.claimed = {}
  /\ logged' = {}
  /\ sync' = SyncIdle
  /\ UNCHANGED <<cacheVars, in_use, loaded, tasks, worker, chan, index, raced, treeless>>

(***************************************************************************)
(* The replacement worker: ReplacementTask::process, which hits the missed *)
(* keys in the order of the std::set they were listed from.                *)
(***************************************************************************)
TakeTask ==
  /\ worker.pc = "idle" /\ worker.todo = {}
  /\ tasks # << >>
  /\ worker' = [worker EXCEPT !.todo = Head(tasks)]
  /\ tasks' = Tail(tasks)
  /\ UNCHANGED <<cacheVars, in_use, loaded, chan, storeVars, raced, treeless>>

\* The loop of process goes on to the next predicate.
HitReturns(k) == worker' = [WorkerIdle EXCEPT !.todo = worker.todo \ {k}]

Hitting(k) ==
  /\ worker.pc = "idle"
  /\ k \in worker.todo /\ \A j \in worker.todo : k <= j
  /\ ClockBelowBound(k)

Resident(k) == k \in ToSet(priority_set)

\* hit_key: a predicate that can never fit.
HitTooBig(k, space) ==
  /\ Hitting(k) /\ space > MaxSize
  /\ HitReturns(k)
  /\ UNCHANGED <<cacheVars, in_use, loaded, tasks, chan, storeVars, raced, treeless>>

\* Mutant: the costs change and the key keeps its place in the set.
HitCachedStays(k, space) ==
  /\ Hitting(k) /\ space <= MaxSize /\ Resident(k)
  /\ strategy' = StrategyHit(strategy, k)
  /\ HitReturns(k)
  /\ UNCHANGED <<priority_set, space_map, size_used, in_use, loaded, tasks, chan, storeVars, raced, treeless>>

\* hit_key: a cached predicate moves to its new place.
HitCached(k, space) ==
  /\ Hitting(k) /\ space <= MaxSize /\ Resident(k)
  /\ strategy' = StrategyHit(strategy, k)
  /\ priority_set' = SetInsert(SetErase(priority_set, k), k, strategy')
  /\ HitReturns(k)
  /\ UNCHANGED <<space_map, size_used, in_use, loaded, tasks, chan, storeVars, raced, treeless>>

(***************************************************************************)
(* The entry that the strategy leaves behind: it asks for the size of the  *)
(* key with space_map[key], which inserts 0 when the map lacks the key.    *)
(***************************************************************************)
SpaceMapAfterQuery(k) ==
  IF Strategy = "FREQUENCY" /\ priority_set # << >> /\ k \notin DOMAIN space_map
    THEN With(space_map, k, 0) ELSE space_map

\* hit_key: the strategy declines to evict anything for the key.
HitRefused(k, space) ==
  /\ Hitting(k) /\ space <= MaxSize /\ ~Resident(k)
  /\ space + size_used > MaxSize
  /\ ~ShouldDiscardOthers(k)
  /\ space_map' = SpaceMapAfterQuery(k)
  /\ strategy' = IF ShouldHitWithoutRetrieval THEN StrategyHit(strategy, k) ELSE strategy
  /\ HitReturns(k)
  /\ UNCHANGED <<priority_set, size_used, in_use, loaded, tasks, chan, storeVars, raced, treeless>>

\* hit_key: the key is worth a place; the eviction loop begins.
HitAdmit(k, space) ==
  /\ Hitting(k) /\ space <= MaxSize /\ ~Resident(k)
  /\ space + size_used > MaxSize => ShouldDiscardOthers(k)
  /\ space_map' = IF space + size_used > MaxSize
                    THEN SpaceMapAfterQuery(k) ELSE space_map
  /\ worker' = [worker EXCEPT !.pc = "evict", !.key = k, !.space = space, !.it = 1,
                              !.next_size = space + size_used, !.size_erased = 0]
  /\ UNCHANGED <<strategy, priority_set, size_used, in_use, loaded, tasks, chan, storeVars, raced, treeless>>

\* is_using, under the replacement mutex.
IsUsing(k) == in_use[k] > 0

Evicting == worker.pc = "evict" /\ worker.next_size > MaxSize

\* Mutant: the early return forgets what was evicted.
EvictReachedEndKeepsCharge ==
  /\ Evicting /\ worker.it > Len(priority_set)
  /\ HitReturns(worker.key)
  /\ UNCHANGED <<cacheVars, in_use, loaded, tasks, chan, storeVars, raced, treeless>>

\* The iterator is at the end: what was evicted is discounted.
EvictReachedEnd ==
  /\ Evicting /\ worker.it > Len(priority_set)
  /\ size_used' = size_used - worker.size_erased
  /\ HitReturns(worker.key)
  /\ UNCHANGED <<strategy, priority_set, space_map, in_use, loaded, tasks, chan, storeVars, raced, treeless>>

\* Mutant: continue without the increment of the iterator.
EvictSkipStays ==
  /\ Evicting /\ worker.it <= Len(priority_set)
  /\ IsUsing(priority_set[worker.it])
  /\ UNCHANGED vars

\* is_using answers yes.
EvictSkip ==
  /\ Evicting /\ worker.it <= Len(priority_set)
  /\ IsUsing(priority_set[worker.it])
  /\ worker' = [worker EXCEPT !.it = @ + 1]
  /\ UNCHANGED <<cacheVars, in_use, loaded, tasks, chan, storeVars, raced, treeless>>

\* Mutant: is_using is not asked.
EvictPickUnchecked ==
  /\ Evicting /\ worker.it <= Len(priority_set)
  /\ worker' = [worker EXCEPT !.pc = "drop"]
  /\ UNCHANGED <<cacheVars, in_use, loaded, tasks, chan, storeVars, raced, treeless>>

\* is_using answers no, and the mutex is free again.
EvictPick ==
  /\ Evicting /\ worker.it <= Len(priority_set)
  /\ ~IsUsing(priority_set[worker.it])
  /\ worker' = [worker EXCEPT !.pc = "drop"]
  /\ UNCHANGED <<cacheVars, in_use, loaded, tasks, chan, storeVars, raced, treeless>>

\* The key leaves the cache; data_manager->remove_key discards its tree.
EvictDrop ==
  LET k  == priority_set[worker.it]
      sz == space_map[k]
  IN  /\ worker.pc = "drop"
      /\ space_map' = Without(space_map, k)
      /\ priority_set' = RemoveAt(priority_set, worker.it)
      /\ strategy' = StrategyRemove(strategy, k)
      /\ loaded' = loaded \ {k}
      /\ worker' = [worker EXCEPT !.pc = "evict", !.size_erased = @ + sz,
                                  !.next_size = @ - sz]
      /\ treeless' = treeless \ {k}
      /\ UNCHANGED <<size_used, in_use, tasks, chan, storeVars, raced>>

\* Mutant: the key is charged and its tree is not loaded.
RetrievedTreesNone(k) == {{}}

\* load_single_predicate: the tree of the index, nothing when neither the index nor
\* the log has the key, and what the records make when only the log does, which is
\* nothing when they only delete.
RetrievedTrees(k) ==
  IF k \in index THEN {{k}} ELSE IF k \in logged THEN {{}, {k}} ELSE {{}}

\* The key fits and data_manager->retrieve_key loads it.
Retrieve ==
  /\ worker.pc = "evict" /\ worker.next_size <= MaxSize
  /\ size_used' = worker.next_size
  /\ space_map' = With(space_map, worker.key, worker.space)
  /\ \E trees \in RetrievedTrees(worker.key) : loaded' = loaded \cup trees
  /\ strategy' = StrategyHit(strategy, worker.key)
  /\ priority_set' = SetInsert(priority_set, worker.key, strategy')
  /\ treeless' = treeless \cup ({worker.key} \ index)
  /\ HitReturns(worker.key)
  /\ UNCHANGED <<in_use, tasks, chan, storeVars, raced>>

-----------------------------------------------------------------------------
\* A list of predicates, as the number of times it names each.
Requests ==
  {r \in [Keys -> 0..MaxRequested] : FoldFunction(+, 0, r) \in 1..MaxRequested}

\* The rest of hit_key, once the key is worth a place.
EvictStep ==
  \/ EvictReachedEnd
  \/ EvictSkip
  \/ EvictPick
  \/ EvictDrop
  \/ Retrieve

\* get_predicate_size, which ReplacementTask::process asks before hit_key.
PredicateSizes(k) == IF k \in index THEN Sizes ELSE {0}

WorkerStep ==
  \/ TakeTask
  \/ \E k \in Keys : \E space \in PredicateSizes(k) :
       \/ HitTooBig(k, space)
       \/ HitCached(k, space)
       \/ HitRefused(k, space)
       \/ HitAdmit(k, space)
  \/ EvictStep

RequestStep ==
  \/ \E c \in Channels, requested \in Requests : LockPredicates(c, requested)
  \/ \E c \in Channels : DoneWithPredicates(c)
  \/ \E p \in Keys : FetchK2Tree(p)
  \/ \E p \in Updated : LogUpdate(p)

SyncStep ==
  \/ SyncBegin
  \/ \E p \in Keys : SyncSkip(p) \/ SyncClaim(p) \/ SyncDiscard(p)
  \/ SyncFetch
  \/ SyncSave
  \/ SyncEnd

Next == WorkerStep \/ RequestStep \/ SyncStep

(***************************************************************************)
(* The replacement worker is a thread of its own, and inside the eviction  *)
(* loop it waits for nothing but the replacement mutex, which is held for  *)
(* finite times: it goes on.  Nothing is assumed of the condition variable *)
(* that wakes it for a task.                                               *)
(***************************************************************************)
Spec == Init /\ [][Next]_vars /\ WF_vars(EvictStep)

-----------------------------------------------------------------------------
(* Properties.                                                             *)

\* The types of the worker's locals.
WorkerType ==
  [pc : {"idle", "evict", "drop"}, todo : SUBSET Keys, key : Keys \cup {0},
   space : Int, it : Nat \ {0}, next_size : Int, size_erased : Int]

\* The types of the locals of a sync.
SyncType ==
  [pc : {"idle", "check", "fetch", "discard"}, todo : SUBSET Keys, key : Keys \cup {0},
   claimed : SUBSET Keys]

TypeOK ==
  /\ priority_set \in Seq(Keys)
  /\ DOMAIN space_map \subseteq Keys
  /\ \A k \in DOMAIN space_map : space_map[k] \in Int
  /\ size_used \in Int
  /\ in_use \in [Keys -> Nat]
  /\ loaded \subseteq Keys /\ index \subseteq Keys /\ logged \subseteq Keys
  /\ tasks \in Seq(SUBSET Keys)
  /\ worker \in WorkerType
  /\ chan \in [Channels -> [Keys -> 0..MaxRequested] \cup {NoChannel}]
  /\ sync \in SyncType
  /\ raced \subseteq Channels \X Keys
  /\ treeless \subseteq Keys

\* The units of space that key k is charged.
Units(k) == {k} \X (1..space_map[k])

\* The space that the keys of the priority set are charged together.
Charged == Cardinality(UNION {Units(k) : k \in ToSet(priority_set)})

(***************************************************************************)
(* The budget.  size_used is, at every step of hit_key, the space charged  *)
(* to the keys of the priority set plus what the running call has already  *)
(* evicted and not yet discounted, and it never exceeds max_size_allowed   *)
(* (CacheReplacement.cpp:39-92, with the early return of line 62).         *)
(***************************************************************************)
SizeAccounting ==
  /\ size_used = Charged + worker.size_erased
  /\ size_used <= MaxSize
  /\ worker.pc # "idle" => worker.next_size = Charged + worker.space

(***************************************************************************)
(* The std::set is ordered by a function of mutable state: its order stays *)
(* the order of its comparator because a key leaves the set before its     *)
(* cost changes (CacheReplacement.cpp:33-35, 86-87, 94-95).                *)
(***************************************************************************)
PrioritySetSorted ==
  \A i, j \in DOMAIN priority_set :
    i < j => CostLess(strategy, priority_set[i], priority_set[j])

(***************************************************************************)
(* Every key of the priority set has its tree in memory, so that a later   *)
(* hit, which loads nothing, is right to report success.  Excepted are a   *)
(* key that the index file lacked when it was admitted, whose size is 0    *)
(* and for which retrieve_key may have had nothing to load, and one whose  *)
(* tree a sync discarded: nothing tells the cache of either                *)
(* (CacheReplacement.cpp:32-37, 92-96, PredicatesIndexCacheMD.cpp:331).    *)
(***************************************************************************)
ResidentsLoaded == ToSet(priority_set) \subseteq loaded \cup treeless

\* The stream of channel c lists k.
Holds(c, k) == chan[c] # NoChannel /\ chan[c][k] > 0

\* The marks that open streams owe for k.
Marks(k) ==
  {m \in Channels \X (1..MaxRequested) : chan[m[1]] # NoChannel /\ m[2] <= chan[m[1]][k]}

(***************************************************************************)
(* A key is marked exactly as often as open streams hold it: mark_using    *)
(* and mark_ready balance whatever the interleaving, so no stream releases *)
(* the mark of another (CacheReplacement.cpp:99-118).                      *)
(***************************************************************************)
MarksMatchStreams == \A k \in Keys : in_use[k] = Cardinality(Marks(k))

(***************************************************************************)
(* A predicate that a stream holds stays in memory until the stream is     *)
(* done, with two exceptions: the worker had picked it for eviction, with  *)
(* is_using answered and the mutex released, before the stream marked it;  *)
(* or a sync had found it not loaded and will discard it, which asks       *)
(* nobody.  A predicate that was marked before either is safe from both    *)
(* (CacheReplacement.cpp:70-88, ServerTask.cpp:155-162,                    *)
(* PredicatesIndexCacheMD.cpp:311, 331).                                   *)
(***************************************************************************)
HeldStaysLoaded ==
  \A c \in Channels, k \in Keys : Holds(c, k) => k \in loaded \/ <<c, k>> \in raced

(***************************************************************************)
(* hit_key returns: the eviction loop ends although streams come and go    *)
(* between its checks (CacheReplacement.cpp:61-90).                        *)
(***************************************************************************)
HitReturnsEventually == worker.pc # "idle" ~> worker.pc = "idle"

=============================================================================
