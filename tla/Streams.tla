------------------------------ MODULE Streams -------------------------------
(***************************************************************************)
(* Streaming the triples of a pattern while the data changes: a client     *)
(* locks predicates and gets a channel (TripleMatchesPartStreamer); a      *)
(* pattern is answered in parts from the fully indexed cache (the copy of  *)
(* a tree in FullyIndexedPredicate), from a sorted copy of the matches     *)
(* (TPMSortedStreamer) or from the tree (TriplePatternMatchingStreamer).   *)
(* At the same time sessions log and merge updates, the replacement loads  *)
(* and evicts trees, a sync writes, fetches and discards trees, and the    *)
(* cache of indexed predicates evicts and renews its entries.  None of     *)
(* these waits for a stream that is open: one whose tree or copy is        *)
(* destroyed or changed under it is from then on "undefined".  An update   *)
(* does not wait for a sync either (log_updates takes no lock).            *)
(***************************************************************************)
EXTENDS Naturals, Sequences, FiniteSets, SequencesExt, PredicateUpdates

CONSTANTS
  Clients, Predicates,
  Configs,       \* server options: [no_caching, sort_results, has_fic]
  Initial,       \* the trees of the index file
  Requests,      \* sets of predicates that clients lock
  Patterns,      \* patterns [p, s, o] of cache ids, with NodeAny for a variable
  Commits,       \* updates [p, add, del] that sessions commit
  Garbled,       \* trees that records read at wrong offsets may leave
  RealId,        \* NodeIdsManager: the real id of the cache ids it knows
  NodeAny,           \* NODE_ANY
  Threshold,     \* threshold_part_size, in values of 8 bytes
  MaxToCache,    \* max_to_cache_sz
  MaxPatterns,   \* bound: pattern streams of a channel
  MaxWork,       \* bound: channels and updates, taken together
  MaxSyncs       \* bound: full syncs

None == "none"     \* no client
NoPredicate == 0

ASSUME StreamsAssumption ==
  /\ None \notin Clients /\ NoPredicate \notin Predicates
  /\ Points \subseteq Nat \X Nat
  /\ DOMAIN Initial \subseteq Predicates
  /\ \A p \in DOMAIN Initial : IsFiniteSet(Initial[p]) /\ Initial[p] \subseteq Points
  /\ Garbled # {} /\ \A t \in Garbled : IsFiniteSet(t) /\ t \subseteq Points
  /\ Commits \subseteq Updates(Predicates)
  /\ \A u \in Commits : /\ Kind(u) # "NO_UPDATE"
                         /\ IsFiniteSet(PointsOf(u.add)) /\ IsFiniteSet(PointsOf(u.del))
  /\ \A x \in DOMAIN RealId : RealId[x] \in Nat
  /\ \A x, y \in DOMAIN RealId : RealId[x] = RealId[y] => x = y
  /\ \A q \in Patterns : {q.s, q.o} \subseteq DOMAIN RealId \cup {NodeAny}
  /\ Threshold \in Nat \ {0}

VARIABLES
  config,
  index,      \* the trees of the index file
  log,        \* updates log: the records at the offsets of each predicate
  writer,     \* current_file_writer is open
  tree,       \* PredicatesIndexCacheMD::predicates
  fic,        \* cached_predicates_sources: the copy of each indexed predicate
  indexing,   \* init_streamer_predicates of the channel being created
  channel,    \* TripleMatchesPartStreamer of each client
  upd,        \* the update that a session is applying
  sync,       \* full_sync_logs_and_memory_with_persistent: "idle", "written"
              \* (memory) or "fetched" (log), and the predicates it fetched
  stale,      \* auxiliary: predicates whose records the log has lost
  raced,      \* auxiliary: copies that missed a change of the tree
  unsaved,    \* auxiliary: predicates with a change that no sync will write
  updates, syncs   \* counters: updates committed, full syncs

stored == <<index, log, writer, stale>>
data == <<stored, tree, unsaved>>
vars == <<config, data, fic, indexing, channel, upd, sync, raced, updates, syncs>>

With(f, k, v) == [j \in DOMAIN f \cup {k} |-> IF j = k THEN v ELSE f[j]]
Without(f, S) == [j \in DOMAIN f \ S |-> f[j]]
At(f, k) == IF k \in DOMAIN f THEN f[k] ELSE {}
-----------------------------------------------------------------------------
(* Trees and the log.                                                      *)

\* The predicates of offsets_map, and the records of p.
Pending == DOMAIN log
LogOf(l, p) == IF p \in DOMAIN l THEN l[p] ELSE << >>
Stored == DOMAIN index \cup Pending

\* load_single_predicate: the index, and the records of the log l on top of it.
Reloaded(l, p) == ApplyAll(At(index, p), LogOf(l, p), p)

(***************************************************************************)
(* Reading records of the predicates P.  Behind the offset of a stale one  *)
(* there may be a record of any predicate of the log, which is merged into *)
(* the tree of that predicate (UpdatesLoggerImpl::merge_update): the read  *)
(* garbles the stale predicates of P, and the strays.                      *)
(***************************************************************************)
Strays(P) == IF P \cap stale = {} THEN {{}} ELSE SUBSET (Pending \ P)

Fetched(P, l, garbled) ==
  [q \in DOMAIN tree \cup P \cup DOMAIN garbled |->
     IF q \in DOMAIN garbled THEN garbled[q]
     ELSE IF q \in DOMAIN tree THEN tree[q] ELSE Reloaded(l, q)]

\* The predicates that fetch_k2tree of p has to load.
Missing(p) == {p} \cap (Stored \ DOMAIN tree)

\* compact_logs: one record for each predicate.
CompactedLog == [p \in Pending |-> IF log[p] = << >> THEN << >> ELSE <<CompactRecords(log[p])>>]

\* merge_op_tree
Applied(points, op) == IF op.op = "add" THEN points \cup op.points ELSE points \ op.points

\* merge_update of a record: its additions, then its deletions.
OpsOf(u) ==
  (IF u.add # NoTree THEN <<[op |-> "add", points |-> u.add]>> ELSE << >>)
    \o (IF u.del # NoTree THEN <<[op |-> "del", points |-> u.del]>> ELSE << >>)
-----------------------------------------------------------------------------
(* Pattern streamers.                                                      *)

RowBefore(a, b) ==
  \E i \in DOMAIN a : a[i] < b[i] /\ \A j \in 1..(i - 1) : a[j] = b[j]

Ascending(S) ==
  [i \in 1..Cardinality(S) |-> CHOOSE x \in S : Cardinality({y \in S : RowBefore(y, x)}) = i - 1]

\* The scan of a tree or of a copy: full, or the band of the end that is bound.
Matches(points, q) == {x \in points : q.s \in {x[1], NodeAny} /\ q.o \in {x[2], NodeAny}}

Exact(q) == q.s # NodeAny /\ q.o # NodeAny
Width(q) == Cardinality({e \in {"s", "o"} : q[e] = NodeAny})

\* add_real_value, for the ends of the point that are variables.
Value(e) == IF e \in DOMAIN RealId THEN <<RealId[e]>> ELSE << >>
Values(x, q) == (IF q.s = NodeAny THEN Value(x[1]) ELSE << >>)
             \o (IF q.o = NodeAny THEN Value(x[2]) ELSE << >>)

\* A row with an unknown id: a plain streamer sends what is left of it, the
\* others drop the row.
Sends(kind, row, q) == kind = "plain" \/ Len(row) = Width(q)

\* The rows of a scan, in the order of the k2tree library, which is external.
Rows(points, q) ==
  LET scan == Ascending(Matches(points, q)) IN [i \in DOMAIN scan |-> Values(scan[i], q)]

\* The first n rows without the ones that the streamer drops: the j-th is the one
\* at which j rows have been kept.
Part(kind, rows, q, n) ==
  LET Count(i) == Cardinality({m \in 1..i : Sends(kind, rows[m], q)})
  IN  [j \in 1..Count(n) |->
         rows[CHOOSE i \in 1..n : Sends(kind, rows[i], q) /\ Count(i) = j]]

\* TPMSortedStreamer::get_all_data and sort_data
SortedRows(points, q) ==
  Ascending({row \in Range(Rows(points, q)) : Sends("sorted", row, q)})

\* acc_size after the first n rows that are left.
Size(kind, left, q, n) ==
  Cardinality({c \in (1..n) \X {1, 2} : c[2] <= Len(left[c[1]]) /\ Sends(kind, left[c[1]], q)})

\* The rows read for a part: up to the first that takes it over the threshold.
PartLength(kind, left, q) ==
  Min({n \in DOMAIN left : Size(kind, left, q, n) > Threshold} \cup {Len(left)})

\* TPMSortedStreamer counts before it adds a row, from current_sent on.
SortedPartLength(left, q) ==
  Min({n \in DOMAIN left : n * Width(q) >= Threshold} \cup {Len(left)})

\* has(subject_id, object_id) with the ids of the request, which are real ids.
HasReal(points, q) == <<RealId[q.s], RealId[q.o]>> \in points

\* get_next_response of an exact match; NullScanner has no tree to ask.
RespondExact(st) ==
  IF st.missing THEN [st EXCEPT !.status = "undefined"]
  ELSE [st EXCEPT !.status = "last", !.exact = HasReal(st.points, st.q)]

\* Mutant: the point that was read when the part was full is lost.
RespondScanSkips(st) ==
  LET n == PartLength(st.kind, st.left, st.q)
  IN  [st EXCEPT !.sent = @ \o Part(st.kind, st.left, st.q, n),
                 !.left = SubSeq(@, n + 2, Len(@)),
                 !.status = IF n + 1 >= Len(st.left) THEN "last" ELSE "open"]

\* Mutant: every part starts from the first row.
RespondScanRestarts(st) ==
  LET n == PartLength(st.kind, st.left, st.q)
  IN  [st EXCEPT !.sent = Part(st.kind, st.left, st.q, n),
                 !.status = IF n = Len(st.left) THEN "last" ELSE "open"]

\* get_next_response of StreamerFromCachedSource and TriplePatternMatchingStreamer.
RespondScan(st) ==
  LET n == PartLength(st.kind, st.left, st.q)
  IN  [st EXCEPT !.sent = @ \o Part(st.kind, st.left, st.q, n),
                 !.left = SubSeq(@, n + 1, Len(@)),
                 !.status = IF n = Len(st.left) THEN "last" ELSE "open"]

\* get_empty_response: claims an exact response, and needs a tree for it.
RespondEmpty(st) ==
  IF st.missing THEN [st EXCEPT !.status = "undefined"]
  ELSE [st EXCEPT !.status = "last", !.exact = Exact(st.q) /\ HasReal(st.points, st.q)]

\* get_next_response of TPMSortedStreamer; current_sent stays 0.
RespondSorted(st) ==
  IF st.left = << >> THEN RespondEmpty(st)
  ELSE LET n == SortedPartLength(st.left, st.q)
       IN  [st EXCEPT !.sent = SubSeq(st.left, 1, n),
                      !.status = IF n = Len(st.left) THEN "last" ELSE "open"]

Respond(st) ==
  CASE st.kind = "sorted" -> RespondSorted(st)
    [] st.kind # "sorted" /\ Exact(st.q) -> RespondExact(st)
    [] OTHER -> RespondScan(st)

\* start_streaming_matching_triples: which source answers.
KindFor(p) ==
  IF p \in DOMAIN fic THEN "cached" ELSE IF config.sort_results THEN "sorted" ELSE "plain"

\* It reads the copy, or the tree of t, which fetch_k2tree has loaded if it could.
NewStream(q, t) ==
  LET kind   == KindFor(q.p)
      points == IF kind = "cached" THEN fic[q.p] ELSE At(t, q.p)
  IN  [kind |-> kind, q |-> q, points |-> points,
       missing |-> kind # "cached" /\ q.p \notin DOMAIN t,
       left |-> CASE Exact(q) -> << >>
                  [] kind = "sorted" /\ ~Exact(q) -> SortedRows(points, q)
                  [] OTHER -> Rows(points, q),
       sent |-> << >>, exact |-> FALSE, status |-> "open"]

\* Open streams of these kinds on predicates of S lose what they read from.
Broken(ch, kind, S) ==
  [c \in Clients |->
     [ch[c] EXCEPT !.streams =
        [k \in DOMAIN @ |->
           IF @[k].kind = kind /\ @[k].q.p \in S /\ @[k].status = "open"
             THEN [@[k] EXCEPT !.status = "undefined"] ELSE @[k]]]]
-----------------------------------------------------------------------------
(* Loading trees.                                                          *)

\* Mutant: updates do not reach the copies.
ResyncedNever(S, t) == fic

\* The copies of S are made again from the trees t, if there are copies:
\* FullyIndexedCacheImpl::resync_predicate.
Resynced(S, t) == [p \in DOMAIN fic |-> IF p \in S THEN At(t, p) ELSE fic[p]]

\* recover_predicate closes the writer of the log.
ClosesWriter(P) == writer' = (writer /\ P \cap Pending = {})

\* Trees that differ from the index, though no record is left to tell or a sync
\* is about to clean the log.
NotSaved == {q \in DOMAIN tree' : tree'[q] # At(index, q) /\ (q \notin Pending \/ sync.pc # "idle")}

(***************************************************************************)
(* fetch_k2tree, or load_single_predicate, of the predicates P, which are  *)
(* not in memory, from the log l.  Each merge of a record ends with the    *)
(* resync of the copy; those of S are renewed in any case.                 *)
(***************************************************************************)
FetchTrees(P, l, S, ch) ==
  \E strays \in Strays(P) : \E garbled \in [(P \cap stale) \cup strays -> Garbled] :
    LET merged == (P \cap Pending) \cup strays \cup S
    IN  /\ tree' = Fetched(P, l, garbled)
        /\ fic' = Resynced(merged, tree')
        /\ channel' = Broken(Broken(ch, "cached", merged), "plain", strays)
        /\ raced' = (raced \ (merged \cap DOMAIN fic)) \cup (merged \cap {indexing.p})
                      \cup ((P \cap unsaved) \ merged)
-----------------------------------------------------------------------------
NoIndexing == [client |-> None, todo |-> {}, p |-> NoPredicate, points |-> {}]
NoUpdate == [pc |-> "idle", p |-> NoPredicate, ops |-> << >>]
NoSync == [pc |-> "idle", held |-> {}]

Init ==
  /\ config \in Configs
  /\ index = Initial /\ log = << >> /\ writer = FALSE
  /\ tree = IF config.no_caching THEN Initial ELSE << >>
  /\ fic = << >> /\ indexing = NoIndexing
  /\ channel = [c \in Clients |-> [state |-> "new", predicates |-> {}, streams |-> << >>]]
  /\ upd = NoUpdate /\ sync = NoSync
  /\ stale = {} /\ raced = {} /\ unsaved = {}
  /\ updates = 0 /\ syncs = 0

Work == updates + Cardinality({c \in Clients : channel[c].state # "new"})

\* process_predicates_lock_for_triple_stream: the predicates that are loaded are
\* marked as used ...
LockPredicates(c, ps) ==
  /\ channel[c].state = "new" /\ Work < MaxWork
  /\ channel' = [channel EXCEPT ![c].state = "locked",
                                ![c].predicates = IF config.no_caching THEN ps ELSE ps \cap DOMAIN tree]
  /\ UNCHANGED <<config, data, fic, indexing, upd, sync, raced, updates, syncs>>

\* ... and create_triples_streamer makes the channel under the mutex that a sync
\* holds, too.
CreateChannel(c) ==
  /\ channel[c].state = "locked" /\ indexing.client = None /\ sync.pc = "idle"
  /\ channel' = [channel EXCEPT ![c].state = "indexing"]
  /\ indexing' = [NoIndexing EXCEPT !.client = c,
                                    !.todo = IF config.has_fic THEN channel[c].predicates ELSE {}]
  /\ UNCHANGED <<config, data, fic, upd, sync, raced, updates, syncs>>

\* should_cache
ShouldCache(p) == p \in DOMAIN tree /\ Cardinality(tree[p]) < MaxToCache

\* init_streamer_predicates: nothing to index, or hit_key of a key that is there.
IndexSkip(p) ==
  /\ p \in indexing.todo /\ indexing.p = NoPredicate
  /\ ~ShouldCache(p) \/ p \in DOMAIN fic
  /\ indexing' = [indexing EXCEPT !.todo = @ \ {p}]
  /\ UNCHANGED <<config, data, fic, channel, upd, sync, raced, updates, syncs>>

\* hit_key of a new key evicts others (what its LRU picks is left open), whose
\* copies are destroyed, and retrieve_key reads the tree ...
IndexScan(p, gone) ==
  /\ p \in indexing.todo /\ indexing.p = NoPredicate
  /\ ShouldCache(p) /\ p \notin DOMAIN fic
  /\ fic' = Without(fic, gone)
  /\ channel' = Broken(channel, "cached", gone)
  /\ indexing' = [indexing EXCEPT !.p = p, !.points = tree[p]]
  /\ raced' = raced \ (gone \cup {p})
  /\ UNCHANGED <<config, data, upd, sync, updates, syncs>>

\* ... and puts the copy into the map.
IndexPublish ==
  /\ indexing.p # NoPredicate
  /\ fic' = With(fic, indexing.p, indexing.points)
  /\ indexing' = [indexing EXCEPT !.p = NoPredicate, !.points = {}, !.todo = @ \ {indexing.p}]
  /\ UNCHANGED <<config, data, channel, upd, sync, raced, updates, syncs>>

\* The channel is in the map and the client has its number.
ChannelCreated ==
  /\ indexing.client # None /\ indexing.todo = {}
  /\ channel' = [channel EXCEPT ![indexing.client].state = "open"]
  /\ indexing' = NoIndexing
  /\ UNCHANGED <<config, data, fic, upd, sync, raced, updates, syncs>>

\* process_stream_request_triple_pattern; a source that is no copy fetches the tree.
StartStream(c, q) ==
  /\ channel[c].state = "open" /\ Len(channel[c].streams) < MaxPatterns
  /\ q.p \in channel[c].predicates
  /\ LET P == IF KindFor(q.p) = "cached" THEN {} ELSE Missing(q.p)
     IN  /\ FetchTrees(P, log, {}, [channel EXCEPT ![c].streams = Append(@, Respond(NewStream(q, tree')))])
         /\ ClosesWriter(P)
  /\ unsaved' = unsaved \cup NotSaved
  /\ UNCHANGED <<config, index, log, stale, indexing, upd, sync, updates, syncs>>

\* process_stream_continue_triple_pattern
ContinueStream(c, k) ==
  /\ channel[c].state = "open" /\ k \in DOMAIN channel[c].streams
  /\ channel[c].streams[k].status = "open"
  /\ channel' = [channel EXCEPT ![c].streams[k] = Respond(@)]
  /\ UNCHANGED <<config, data, fic, indexing, upd, sync, raced, updates, syncs>>

\* process_done_with_predicates_notify
DoneWithPredicates(c) ==
  /\ channel[c].state = "open"
  /\ channel' = [channel EXCEPT ![c] = [state |-> "done", predicates |-> {}, streams |-> << >>]]
  /\ UNCHANGED <<config, data, fic, indexing, upd, sync, raced, updates, syncs>>
-----------------------------------------------------------------------------
(* The replacement worker.                                                 *)

WithAdditions == {p \in Pending : \E i \in DOMAIN log[p] : log[p][i].add # NoTree}

\* retrieve_key, which makes no tree of records that only delete.
LoadPredicate(p) ==
  /\ ~config.no_caching /\ p \in Missing(p)
  /\ FetchTrees({p} \cap (DOMAIN index \cup stale \cup WithAdditions), log, {}, channel)
  /\ ClosesWriter({p})
  /\ unsaved' = unsaved \cup NotSaved
  /\ UNCHANGED <<config, index, log, stale, indexing, upd, sync, updates, syncs>>

\* remove_key, of a predicate that no channel uses.
EvictPredicate(p) ==
  /\ ~config.no_caching /\ p \in DOMAIN tree
  /\ \A c \in Clients : p \notin channel[c].predicates
  /\ tree' = Without(tree, {p})
  /\ UNCHANGED <<config, stored, unsaved, fic, indexing, channel, upd, sync, raced, updates, syncs>>
-----------------------------------------------------------------------------
(* A session commits an update.                                            *)

\* UpdatesLoggerImpl::log opens the file if the writer is closed, which truncates
\* it, writes the record and registers its offset ...
UpdateLog(u) ==
  LET kept == IF writer THEN log ELSE [p \in Pending |-> << >>] IN
  /\ upd.pc = "idle" /\ Work < MaxWork
  /\ log' = With(kept, u.p, Append(LogOf(kept, u.p), u))
  /\ writer' = TRUE
  /\ stale' = IF writer THEN stale ELSE stale \cup Pending
  /\ upd' = [pc |-> "check", p |-> u.p, ops |-> OpsOf(u)]
  /\ updates' = updates + 1
  /\ UNCHANGED <<config, index, tree, unsaved, fic, indexing, channel, sync, raced, syncs>>

\* ... merge_update asks whether the predicate is active ...
UpdateCheck ==
  /\ upd.pc = "check"
  /\ upd' = IF upd.p \in DOMAIN tree THEN [upd EXCEPT !.pc = "merge"] ELSE NoUpdate
  /\ UNCHANGED <<config, data, fic, indexing, channel, sync, raced, updates, syncs>>

\* The next operation of the update.
AfterMerge ==
  IF Len(upd.ops) = 1 THEN NoUpdate ELSE [upd EXCEPT !.pc = "merge", !.ops = Tail(@)]

\* ... merge_op_tree asks again: it adds to a new, empty tree if the predicate was
\* evicted meanwhile, and deletes from a tree that is there only ...
UpdateMerge ==
  /\ upd.pc = "merge"
  /\ IF upd.p \in DOMAIN tree \/ Head(upd.ops).op = "add"
       THEN /\ tree' = With(tree, upd.p, Applied(At(tree, upd.p), Head(upd.ops)))
            /\ channel' = Broken(channel, "plain", {upd.p})
            /\ raced' = raced \cup ({upd.p} \cap {indexing.p})
            /\ unsaved' = unsaved \cup NotSaved
            /\ upd' = [upd EXCEPT !.pc = "resync"]
       ELSE upd' = AfterMerge /\ UNCHANGED <<tree, channel, raced, unsaved>>
  /\ UNCHANGED <<config, stored, fic, indexing, sync, updates, syncs>>

\* ... and resync_predicate replaces the copy, if there is one, for which it
\* fetches the tree.
UpdateResync ==
  /\ upd.pc = "resync"
  /\ IF upd.p \in DOMAIN fic
       THEN /\ FetchTrees(Missing(upd.p), log, {upd.p}, channel)
            /\ ClosesWriter(Missing(upd.p))
            /\ unsaved' = unsaved \cup NotSaved
       ELSE UNCHANGED <<tree, fic, channel, raced, writer, unsaved>>
  /\ upd' = AfterMerge
  /\ UNCHANGED <<config, index, log, stale, indexing, sync, updates, syncs>>
-----------------------------------------------------------------------------
(* full_sync_logs_and_memory_with_persistent.  If it throws, the process   *)
(* ends (UpdateSession).                                                   *)

\* sync_to_persistent writes the trees in memory, ...
SyncMemory ==
  /\ sync.pc = "idle" /\ indexing.client = None /\ syncs < MaxSyncs
  /\ index' = [p \in DOMAIN index \cup DOMAIN tree |-> IF p \in DOMAIN tree THEN tree[p] ELSE index[p]]
  /\ unsaved' = unsaved \ DOMAIN tree
  /\ sync' = [NoSync EXCEPT !.pc = "written"]
  /\ syncs' = syncs + 1
  /\ UNCHANGED <<config, log, writer, stale, tree, fic, indexing, channel, upd, raced, updates>>

\* ... sync_logs_to_indexes compacts the log and fetches its predicates that are not
\* in memory, which are written ...
SyncFetch ==
  LET held == Pending \ DOMAIN tree IN
  /\ sync.pc = "written"
  /\ log' = CompactedLog
  /\ FetchTrees(held, CompactedLog, {}, channel)
  /\ writer' = FALSE
  /\ index' = IF held = {} THEN index
              ELSE [p \in DOMAIN index \cup DOMAIN tree' |->
                      IF p \in DOMAIN tree' THEN tree'[p] ELSE index[p]]
  /\ unsaved' = IF held = {} THEN unsaved ELSE unsaved \ DOMAIN tree'
  /\ sync' = [pc |-> "fetched", held |-> held]
  /\ UNCHANGED <<config, stale, indexing, upd, updates, syncs>>

\* ... and discarded without asking is_using, and the log is cleaned.
SyncDiscard ==
  /\ sync.pc = "fetched"
  /\ tree' = Without(tree, sync.held)
  /\ channel' = Broken(channel, "plain", sync.held)
  /\ log' = << >> /\ writer' = FALSE /\ stale' = {}
  /\ sync' = NoSync
  /\ UNCHANGED <<config, index, unsaved, fic, indexing, upd, raced, updates, syncs>>
-----------------------------------------------------------------------------
Next ==
  \/ \E c \in Clients : \/ \E ps \in Requests : LockPredicates(c, ps)
                        \/ CreateChannel(c)
                        \/ \E q \in Patterns : StartStream(c, q)
                        \/ \E k \in 1..MaxPatterns : ContinueStream(c, k)
                        \/ DoneWithPredicates(c)
  \/ \E p \in Predicates : \/ IndexSkip(p) \/ LoadPredicate(p) \/ EvictPredicate(p)
                           \/ \E gone \in SUBSET DOMAIN fic : IndexScan(p, gone)
  \/ IndexPublish \/ ChannelCreated
  \/ \E u \in Commits : UpdateLog(u)
  \/ UpdateCheck \/ UpdateMerge \/ UpdateResync
  \/ SyncMemory \/ SyncFetch \/ SyncDiscard

\* A client that got a part without last_result asks for the next one.
Spec ==
  /\ Init /\ [][Next]_vars
  /\ \A c \in Clients : \A k \in 1..MaxPatterns : WF_vars(ContinueStream(c, k))
-----------------------------------------------------------------------------
TypeOK ==
  /\ config \in Configs
  /\ DOMAIN tree \cup DOMAIN fic \cup Stored \subseteq Predicates
  /\ \A c \in Clients :
       /\ channel[c].state \in {"new", "locked", "indexing", "open", "done"}
       /\ channel[c].predicates \subseteq Predicates
       /\ \A k \in DOMAIN channel[c].streams :
            channel[c].streams[k].status \in {"open", "last", "undefined"}
  /\ indexing.client \in Clients \cup {None} /\ indexing.p \in Predicates \cup {NoPredicate}
  /\ upd.pc \in {"idle", "check", "merge", "resync"}
  /\ sync.pc \in {"idle", "written", "fetched"} /\ sync.held \subseteq Predicates

\* A copy with these points follows the data of p: the tree in memory, or else the
\* index from which it would be loaded, when no record of the log comes with it.
Follows(p, points) ==
  /\ p \in DOMAIN tree => points = tree[p]
  /\ p \notin DOMAIN tree \cup Pending \cup unsaved => points = At(index, p)

(***************************************************************************)
(* The copy of an indexed predicate follows its data, through updates that *)
(* are merged, dropped or come while the tree is evicted, loads of records *)
(* at right or wrong offsets, and syncs (resync_predicate,                 *)
(* load_single_predicate, clean_up_bulk_sync).  Excepted are a merge whose *)
(* resync is to come, a copy that was made while its tree changed, and     *)
(* changes that came after a sync wrote the tree and were lost with it.    *)
(***************************************************************************)
FicCurrent ==
  \A p \in DOMAIN fic \ raced : ~(upd.pc = "resync" /\ upd.p = p) => Follows(p, fic[p])

StreamsOf(c) == {channel[c].streams[k] : k \in DOMAIN channel[c].streams}
AllStreams == UNION {StreamsOf(c) : c \in Clients}

\* The rows a client expects: every match whose ids are known.
Expected(st) ==
  {row \in {Values(x, st.q) : x \in Matches(st.points, st.q)} : Len(row) = Width(st.q)}

Times(rows, row) == Cardinality({i \in DOMAIN rows : rows[i] = row})

(***************************************************************************)
(* A stream that reported last_result, and kept its source, sent every     *)
(* match of the source it was started on exactly once, whatever the parts  *)
(* were, and nothing else but the truncated rows of unknown ids that a     *)
(* plain streamer sends.                                                   *)
(***************************************************************************)
AnswersComplete ==
  \A st \in AllStreams : st.status = "last" /\ ~Exact(st.q) =>
    /\ \A row \in Expected(st) : Times(st.sent, row) = 1
    /\ \A row \in Range(st.sent) :
         row \in Expected(st) \/ (st.kind = "plain" /\ Len(row) < Width(st.q))

(***************************************************************************)
(* A stream whose client keeps asking ends, unless it lost its source or   *)
(* is a sorted one with more than one part: get_next_pairs_response never  *)
(* advances current_sent.                                                  *)
(***************************************************************************)
OnePart(st) == SortedPartLength(st.left, st.q) = Len(st.left)

Waits(c, k) ==
  /\ k \in DOMAIN channel[c].streams
  /\ channel[c].streams[k].status = "open"
  /\ channel[c].streams[k].kind = "sorted" => OnePart(channel[c].streams[k])

StreamEnds == \A c \in Clients : \A k \in 1..MaxPatterns : Waits(c, k) ~> ~Waits(c, k)
=============================================================================
