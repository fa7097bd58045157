-------------------------- MODULE PredicatesStore ---------------------------
(***************************************************************************)
(* Where the triples live: PredicatesIndexCacheMD (the index file and the  *)
(* trees in memory), UpdatesLoggerImpl (the log of updates with its files  *)
(* of offsets and metadata) and PredicatesCacheManagerImpl (which merges   *)
(* updates into the trees in memory).                                      *)
(*                                                                         *)
(* One operation runs at a time and every write that survives the process  *)
(* is a step of its own, so that Crash can fall between any two.  The      *)
(* records of the log have one size: an offset is the place <<batch,       *)
(* record>> of a record in the file.                                       *)
(*                                                                         *)
(* The log can lose records: FileRWHandler opens it with std::ios::out,    *)
(* which truncates it whenever a load has closed the writer, and           *)
(* compaction drops the kind of update that a predicate's first record     *)
(* lacks.  The auxiliary variables stale and lost follow how far that goes. *)
(***************************************************************************)
EXTENDS Integers, FiniteSets, Sequences, SequencesExt, PredicatesMemory

CONSTANTS
  Preds,        \* predicate ids
  InitialIndex, \* the index file the server is first started with
  Batches,      \* the update batches that sessions commit
  NoCaching,    \* the replacement strategy is NO_CACHING
  GarbageTotal, \* values an uninitialised total_updates may have
  Absent,       \* a file that does not exist
  MaxLogs,      \* bound: batches committed
  MaxSyncs,     \* bound: full syncs begun
  MaxCrashes    \* bound: crashes

ASSUME PredsAssumption == Preds \subseteq Nat
ASSUME IndexAssumption ==
         /\ DOMAIN InitialIndex.trees \subseteq Preds /\ InitialIndex.twice = {}
         /\ \A p \in DOMAIN InitialIndex.trees : InitialIndex.trees[p] \in Trees
ASSUME BatchesAssumption ==
         Batches \subseteq Seq({u \in Updates(Preds) : Kind(u) # "NO_UPDATE"})
ASSUME ModesAssumption == NoCaching \in BOOLEAN
ASSUME AbsentAssumption ==
         /\ Absent \notin Seq(Seq(Updates(Preds)))
         /\ \A P \in SUBSET Preds : Absent \notin [P -> Seq(Nat \X Nat)]
ASSUME GarbageAssumption == GarbageTotal \subseteq Nat /\ GarbageTotal # {}
ASSUME LogBoundsAssumption == MaxLogs \in Nat /\ MaxSyncs \in Nat /\ MaxCrashes \in Nat

VARIABLES
  index,        \* file: the trees of the index, and the ids it lists twice
  log,          \* file: the batches of the updates log
  offsets,      \* file: the offsets of every predicate's records
  meta,         \* file: the number of batches
  mem,          \* predicates, dirty_predicates and new_predicates
  metadata,     \* the keys of PredicatesCacheMetadata's map
  offsets_map,  \* UpdatesLoggerImpl: offsets of the records of a predicate
  total_updates,
  writer,       \* current_file_writer is open
  meta_rw,      \* metadata_file_rw writes to the file meta
  pc,           \* the next step of the operation that runs
  tmp,          \* what the .tmp files of the running operation hold
  bulk,         \* sync_logs_to_indexes: predicates to do, predicates it loaded
  batch,        \* log: the batch being logged
  truth,        \* auxiliary: the trees that the index and all logged batches make
  torn,         \* auxiliary: a crash fell where the files do not fit together
  stale,        \* auxiliary: the predicates of the log whose offsets do not lead
                \* to all that was logged for them
  lost,         \* auxiliary: the predicates that were read through such offsets,
                \* or loaded without their records
  logs, syncs, crashes  \* counters for the bounds

files == <<index, log, offsets, meta>>
logger == <<offsets_map, total_updates, writer, meta_rw>>
damage == <<torn, stale, lost>>
bounds == <<logs, syncs, crashes>>
vars == <<index, log, offsets, meta, mem, metadata, offsets_map, total_updates,
          writer, meta_rw, pc, tmp, bulk, batch, truth, torn, stale, lost, logs, syncs,
          crashes>>

-----------------------------------------------------------------------------
(***************************************************************************)
(* The index file lists its predicates in ascending order, each with its   *)
(* tree.  A file that is not there reads as one that lists nothing.        *)
(***************************************************************************)
NoIndex == [trees |-> << >>, twice |-> {}]

IndexPreds(file) == DOMAIN file.trees

IndexTree(file, p) == IF p \in IndexPreds(file) THEN file.trees[p] ELSE {}

-----------------------------------------------------------------------------
(* The updates log: UpdatesLoggerImpl.                                     *)

NoOffsets == << >>

\* No .tmp file is being written.
NoTemp == [log |-> << >>, offsets |-> NoOffsets]

OffsetsOf(om, p) == IF p \in DOMAIN om THEN om[p] ELSE << >>

InFile(file, o) == file # Absent /\ o[1] \in DOMAIN file /\ o[2] \in DOMAIN file[o[1]]

RecordAt(file, o) == file[o[1]][o[2]]

\* recover_single_predicate_update at every offset of a predicate.
RecordsAt(file, os) == [i \in DOMAIN os |-> RecordAt(file, os[i])]

\* Every offset of p leads to a record in the file.
Readable(file, om, p) == \A i \in DOMAIN OffsetsOf(om, p) : InFile(file, om[p][i])

\* recover_predicate: nothing when there is no log file.
Recovered(m, p) ==
  IF log = Absent THEN m
  ELSE MergeRecords(m, RecordsAt(log, OffsetsOf(offsets_map, p)))

\* load_single_predicate
LoadedSingle(m, p) ==
  LET base == IF p \in metadata
                THEN [m EXCEPT !.trees = With(@, p, IndexTree(index, p))] ELSE m
  IN  IF p \in DOMAIN offsets_map THEN Recovered(base, p) ELSE base

(***************************************************************************)
(* fetch_k2tree: a predicate whose log only deletes is added empty, and    *)
(* its records are read once more.                                         *)
(***************************************************************************)
Fetched(m, p) ==
  LET one == IF p \in DOMAIN m.trees THEN m ELSE LoadedSingle(m, p)
  IN  IF ~Active(one, p) /\ p \in DOMAIN offsets_map
        THEN Recovered(AddPredicate(one, p), p) ELSE one

\* fetch_k2tree reads the log, which closes the writer.
ReadsLog(m, p) == p \notin DOMAIN m.trees /\ p \in DOMAIN offsets_map /\ log # Absent

-----------------------------------------------------------------------------
(* Starting the process.                                                   *)

\* load_all_predicates
LoadedAll(file) == [trees |-> file.trees, dirty |-> {}, new |-> {}]

(***************************************************************************)
(* load_all_predicates reads as many trees as the file lists ids, one      *)
(* after the other from the offset of the first id on.  The offset of an   *)
(* id that is listed twice is that of its second tree: when it is the      *)
(* first id, the last read is past the end of the file.                    *)
(***************************************************************************)
ReadsPastEnd(file) ==
  \E p \in file.twice : \A q \in IndexPreds(file) : p <= q

TruthOf(file) == [p \in Preds |-> IndexTree(file, p)]

Init ==
  /\ index = InitialIndex /\ log = Absent /\ offsets = Absent /\ meta = Absent
  /\ mem = IF NoCaching THEN LoadedAll(InitialIndex) ELSE EmptyMem
  /\ metadata = IndexPreds(InitialIndex)
  /\ offsets_map = NoOffsets
  /\ total_updates \in GarbageTotal
  /\ writer = FALSE /\ meta_rw = FALSE
  /\ pc = "idle" /\ tmp = NoTemp /\ batch = << >>
  /\ bulk = [first |-> TRUE, todo |-> {}, held |-> {}]
  /\ truth = TruthOf(InitialIndex) /\ torn = FALSE /\ stale = {} /\ lost = {}
  /\ logs = 0 /\ syncs = 0 /\ crashes = 0

-----------------------------------------------------------------------------
(* UpdatesLoggerImpl::log, of a batch that a session commits.              *)

\* The file that the writer appends to: get_writer truncates one that exists.
LogToAppend == IF writer /\ log # Absent THEN log ELSE << >>

\* The predicates whose offsets lead into a log that is truncated.
Truncated == IF writer \/ log = Absent THEN {} ELSE DOMAIN offsets_map

\* The writer is opened and the size of the batch written ...
LogOpen(us) ==
  /\ pc = "idle" /\ logs < MaxLogs
  /\ log' = Append(LogToAppend, << >>)
  /\ writer' = TRUE
  /\ batch' = us
  /\ pc' = "log_write"
  /\ logs' = logs + 1
  /\ stale' = stale \cup Truncated
  /\ UNCHANGED <<index, offsets, meta, mem, metadata, offsets_map, total_updates, meta_rw, tmp, bulk,
                 truth, torn, lost, syncs, crashes>>

\* ... then each record: register_update_offset, and the record is written.
LogRecord ==
  LET n == Len(log)
      i == Len(log[n]) + 1
  IN  /\ pc = "log_write" /\ i <= Len(batch)
      /\ log' = [log EXCEPT ![n] = Append(@, batch[i])]
      /\ offsets_map' = With(offsets_map, batch[i].p, Append(OffsetsOf(offsets_map, batch[i].p), <<n, i>>))
      /\ UNCHANGED <<index, offsets, meta, mem, metadata, total_updates, writer, meta_rw, pc, tmp, bulk,
                     batch, truth, damage, bounds>>

\* commit_temp_writer of the offsets: the file is first moved out of the way.
LogOffsetsUnlink ==
  /\ pc = "log_write" /\ Len(log[Len(log)]) = Len(batch)
  /\ offsets' = Absent
  /\ pc' = "log_rename"
  /\ UNCHANGED <<index, log, meta, mem, metadata, logger, tmp, bulk, batch, truth, damage, bounds>>

LogOffsetsRename ==
  /\ pc = "log_rename"
  /\ offsets' = offsets_map
  /\ pc' = "log_merge"
  /\ UNCHANGED <<index, log, meta, mem, metadata, logger, tmp, bulk, batch, truth, damage, bounds>>

\* The trees once the batch that is being logged counts.
TruthAfter(us) == [p \in Preds |-> ApplyAll(truth[p], us, p)]

\* Mutant: log closes the writer when it is done.
LogMergeCloses ==
  /\ pc = "log_merge"
  /\ mem' = MergeBatch(mem, batch)
  /\ total_updates' = total_updates + 1
  /\ meta' = IF meta_rw THEN total_updates + 1 ELSE meta
  /\ truth' = TruthAfter(batch)
  /\ batch' = << >>
  /\ writer' = FALSE
  /\ pc' = "idle"
  /\ UNCHANGED <<index, log, offsets, metadata, offsets_map, meta_rw, tmp, bulk, damage, bounds>>

\* The trees in memory follow, the count is committed and log returns.
LogMerge ==
  /\ pc = "log_merge"
  /\ mem' = MergeBatch(mem, batch)
  /\ total_updates' = total_updates + 1
  /\ meta' = IF meta_rw THEN total_updates + 1 ELSE meta
  /\ truth' = TruthAfter(batch)
  /\ batch' = << >>
  /\ pc' = "idle"
  /\ UNCHANGED <<index, log, offsets, metadata, offsets_map, writer, meta_rw, tmp, bulk, damage,
                 bounds>>

-----------------------------------------------------------------------------
(* Loading and discarding the tree of a predicate.                         *)

(***************************************************************************)
(* What a load of p spoils: another predicate whose record it finds, and p *)
(* itself when its offsets are stale.                                      *)
(***************************************************************************)
Misread(p) ==
  LET us == IF log = Absent THEN << >> ELSE RecordsAt(log, OffsetsOf(offsets_map, p))
  IN  ({us[i].p : i \in DOMAIN us} \ {p}) \cup (stale \cap {p})

FetchK2Tree(p) ==
  /\ pc = "idle"
  /\ p \notin DOMAIN mem.trees
  /\ p \in metadata \cup DOMAIN offsets_map
  /\ Readable(log, offsets_map, p) \/ ~ReadsLog(mem, p)
  /\ mem' = Fetched(mem, p)
  /\ writer' = (writer /\ ~ReadsLog(mem, p))
  /\ lost' = lost \cup Misread(p)
  /\ UNCHANGED <<files, metadata, offsets_map, total_updates, meta_rw, pc, tmp, bulk,
                 batch, truth, torn, stale, bounds>>

\* CacheReplacement loads a predicate, which may already be in memory.
RetrieveKey(p) ==
  /\ pc = "idle" /\ ~NoCaching
  /\ p \in metadata \cup DOMAIN offsets_map
  /\ log = Absent \/ Readable(log, offsets_map, p)
  /\ mem' = LoadedSingle(mem, p)
  /\ writer' = (writer /\ (p \notin DOMAIN offsets_map \/ log = Absent))
  /\ lost' = lost \cup Misread(p)
  /\ UNCHANGED <<files, metadata, offsets_map, total_updates, meta_rw, pc, tmp, bulk,
                 batch, truth, torn, stale, bounds>>

(***************************************************************************)
(* An offset that leads to no record: what the stream yields is not a      *)
(* record of the log, and the process goes no further in this model.       *)
(***************************************************************************)
LoadGarbage(p) ==
  /\ pc = "idle"
  /\ p \in DOMAIN offsets_map
  /\ log # Absent /\ ~Readable(log, offsets_map, p)
  /\ p \notin DOMAIN mem.trees \/ ~NoCaching
  /\ pc' = "failed"
  /\ UNCHANGED <<files, mem, metadata, logger, tmp, bulk, batch, truth, damage, bounds>>

\* CacheReplacement evicts a predicate.
DiscardKey(p) ==
  /\ pc = "idle" /\ ~NoCaching
  /\ p \in DOMAIN mem.trees
  /\ mem' = Discarded(mem, {p})
  /\ UNCHANGED <<files, metadata, logger, pc, tmp, bulk, batch, truth, damage, bounds>>

-----------------------------------------------------------------------------
(* full_sync_logs_and_memory_with_persistent.                              *)

\* Mutant: a dirty tree is copied from the file as well.
TreeToWriteFromFile(p) == IndexTree(index, p)

(***************************************************************************)
(* sync_to_stream writes the new predicates and those of the metadata, a   *)
(* predicate that is in both twice.  A dirty tree is taken from memory,    *)
(* any other from the file.                                                *)
(***************************************************************************)
TreeToWrite(p) == IF p \in mem.dirty THEN mem.trees[p] ELSE IndexTree(index, p)

Serialise ==
  /\ tmp' = [trees |-> [p \in mem.new \cup metadata |-> TreeToWrite(p)],
             twice |-> mem.new \cap metadata]
  /\ metadata' = mem.new \cup metadata
  /\ pc' = "sync_unlink"

FullSyncBegin ==
  /\ pc = "idle" /\ syncs < MaxSyncs
  /\ Serialise
  /\ bulk' = [first |-> TRUE, todo |-> {}, held |-> {}]
  /\ syncs' = syncs + 1
  /\ UNCHANGED <<files, mem, logger, batch, truth, damage, logs, crashes>>

\* commit_temp_writer of the index.
SyncUnlink ==
  /\ pc = "sync_unlink"
  /\ index' = NoIndex
  /\ pc' = "sync_rename"
  /\ UNCHANGED <<log, offsets, meta, mem, metadata, logger, tmp, bulk, batch, truth, damage, bounds>>

SyncRename ==
  /\ pc = "sync_rename"
  /\ index' = tmp
  /\ tmp' = NoTemp
  /\ pc' = IF bulk.first THEN "compact" ELSE "bulk_discard"
  /\ UNCHANGED <<log, offsets, meta, mem, metadata, logger, bulk, batch, truth, damage, bounds>>

\* The predicate that compact_logs is at, in the order of the map.
CompactNext(p) ==
  LET todo == DOMAIN offsets_map \ DOMAIN tmp.offsets
  IN  p \in todo /\ \A q \in todo : p <= q

\* compact_predicate finds at every offset a record of its predicate.
Compactable(p) ==
  /\ Readable(log, offsets_map, p)
  /\ \A i \in DOMAIN offsets_map[p] : RecordAt(log, offsets_map[p][i]).p = p

\* merge_with drops a tree that the first record has no counterpart of.
DropsTrees(us) ==
  \E i \in DOMAIN us : \/ us[1].add = NoTree /\ us[i].add # NoTree
                       \/ us[1].del = NoTree /\ us[i].del # NoTree

(***************************************************************************)
(* compact_logs: one batch of one record for each predicate.  The index    *)
(* has the updates of a predicate that is in memory; another one loses     *)
(* those that are dropped.                                                 *)
(***************************************************************************)
CompactPredicate(p) ==
  /\ pc = "compact" /\ CompactNext(p) /\ Compactable(p)
  /\ tmp' = [log |-> Append(tmp.log, <<CompactRecords(RecordsAt(log, offsets_map[p]))>>),
             offsets |-> With(tmp.offsets, p, <<<<Len(tmp.log) + 1, 1>>>>)]
  /\ writer' = FALSE
  /\ stale' = IF p \notin DOMAIN mem.trees /\ DropsTrees(RecordsAt(log, offsets_map[p]))
                THEN stale \cup {p} ELSE stale
  /\ UNCHANGED <<files, mem, metadata, offsets_map, total_updates, meta_rw, pc, bulk, batch,
                 truth, torn, lost, bounds>>

\* compact_predicate throws.
CompactThrows(p) ==
  /\ pc = "compact" /\ CompactNext(p) /\ ~Compactable(p)
  /\ pc' = "failed"
  /\ UNCHANGED <<files, mem, metadata, logger, tmp, bulk, batch, truth, damage, bounds>>

\* The three commits of compact_logs: offsets, metadata, log.
CompactOffsetsUnlink ==
  /\ pc = "compact" /\ DOMAIN tmp.offsets = DOMAIN offsets_map
  /\ offsets' = Absent
  /\ writer' = FALSE
  /\ pc' = "compact_offsets_rename"
  /\ UNCHANGED <<index, log, meta, mem, metadata, offsets_map, total_updates, meta_rw, tmp, bulk,
                 batch, truth, damage, bounds>>

CompactOffsetsRename ==
  /\ pc = "compact_offsets_rename"
  /\ offsets' = tmp.offsets
  /\ offsets_map' = tmp.offsets
  /\ pc' = "compact_meta_unlink"
  /\ UNCHANGED <<index, log, meta, mem, metadata, total_updates, writer, meta_rw, tmp, bulk,
                 batch, truth, damage, bounds>>

CompactMetaUnlink ==
  /\ pc = "compact_meta_unlink"
  /\ meta' = Absent
  /\ pc' = "compact_meta_rename"
  /\ UNCHANGED <<index, log, offsets, mem, metadata, logger, tmp, bulk, batch, truth, damage, bounds>>

\* metadata_file_rw still writes to the file that was replaced.
CompactMetaRename ==
  /\ pc = "compact_meta_rename"
  /\ meta' = Cardinality(DOMAIN offsets_map)
  /\ total_updates' = Cardinality(DOMAIN offsets_map)
  /\ meta_rw' = FALSE
  /\ pc' = "compact_log_unlink"
  /\ UNCHANGED <<index, log, offsets, mem, metadata, offsets_map, writer, tmp, bulk, batch,
                 truth, damage, bounds>>

CompactLogUnlink ==
  /\ pc = "compact_log_unlink"
  /\ log' = Absent
  /\ pc' = "compact_log_rename"
  /\ UNCHANGED <<index, offsets, meta, mem, metadata, logger, tmp, bulk, batch, truth, damage, bounds>>

CompactLogRename ==
  /\ pc = "compact_log_rename"
  /\ log' = tmp.log
  /\ tmp' = NoTemp
  /\ bulk' = [first |-> FALSE, todo |-> DOMAIN offsets_map, held |-> {}]
  /\ pc' = "bulk"
  /\ UNCHANGED <<index, offsets, meta, mem, metadata, logger, batch, truth, damage, bounds>>

(***************************************************************************)
(* sync_logs_to_indexes, after the compaction: the predicates of the log   *)
(* that are not in memory are fetched, saved and discarded again, when     *)
(* their size reaches the threshold (reached) and at the end.              *)
(***************************************************************************)
BulkNext(p) == p \in bulk.todo /\ \A q \in bulk.todo : p <= q

BulkSkip(p) ==
  /\ pc = "bulk" /\ BulkNext(p) /\ Active(mem, p)
  /\ bulk' = [bulk EXCEPT !.todo = @ \ {p}]
  /\ UNCHANGED <<files, mem, metadata, logger, pc, tmp, batch, truth, damage, bounds>>

BulkFetch(p, reached) ==
  /\ pc = "bulk" /\ BulkNext(p) /\ ~Active(mem, p)
  /\ mem' = Fetched(mem, p)
  /\ writer' = FALSE
  /\ bulk' = [bulk EXCEPT !.todo = @ \ {p}, !.held = @ \cup {p}]
  /\ pc' = IF reached THEN "bulk_serialise" ELSE "bulk"
  /\ lost' = lost \cup Misread(p)
  /\ UNCHANGED <<files, metadata, offsets_map, total_updates, meta_rw, tmp, batch, truth, torn,
                 stale, bounds>>

BulkEnd ==
  /\ pc = "bulk" /\ bulk.todo = {}
  /\ pc' = IF bulk.held = {} THEN "clean_log" ELSE "bulk_serialise"
  /\ UNCHANGED <<files, mem, metadata, logger, tmp, bulk, batch, truth, damage, bounds>>

\* clean_up_bulk_sync
BulkSerialise ==
  /\ pc = "bulk_serialise"
  /\ Serialise
  /\ UNCHANGED <<files, mem, logger, bulk, batch, truth, damage, bounds>>

BulkDiscard ==
  /\ pc = "bulk_discard"
  /\ mem' = Discarded(mem, bulk.held)
  /\ bulk' = [bulk EXCEPT !.held = {}]
  /\ pc' = "bulk"
  /\ UNCHANGED <<files, metadata, logger, tmp, batch, truth, damage, bounds>>

\* clean_append_log removes the three files.
CleanLog ==
  /\ pc = "clean_log"
  /\ log' = Absent
  /\ offsets_map' = NoOffsets
  /\ writer' = FALSE
  /\ stale' = {}
  /\ pc' = "clean_meta"
  /\ UNCHANGED <<index, offsets, meta, mem, metadata, total_updates, meta_rw, tmp, bulk, batch,
                 truth, torn, lost, bounds>>

CleanMeta ==
  /\ pc = "clean_meta"
  /\ meta' = Absent
  /\ meta_rw' = FALSE
  /\ pc' = "clean_offsets"
  /\ UNCHANGED <<index, log, offsets, mem, metadata, offsets_map, total_updates, writer, tmp,
                 bulk, batch, truth, damage, bounds>>

CleanOffsets ==
  /\ pc = "clean_offsets"
  /\ offsets' = Absent
  /\ total_updates' = 0
  /\ pc' = "idle"
  /\ UNCHANGED <<index, log, meta, mem, metadata, offsets_map, writer, meta_rw, tmp, bulk,
                 batch, truth, damage, bounds>>

-----------------------------------------------------------------------------
(* The process dies and is started again.                                  *)

(***************************************************************************)
(* Where a file has been moved away and its successor is not in place, or  *)
(* where the offsets belong to another log than the one on disk.           *)
(***************************************************************************)
Windows == {"log_rename", "sync_rename", "compact_offsets_rename", "compact_meta_unlink",
            "compact_meta_rename", "compact_log_unlink", "compact_log_rename",
            "clean_meta", "clean_offsets"}

Crash ==
  /\ pc # "down" /\ crashes < MaxCrashes
  /\ crashes' = crashes + 1
  /\ pc' = "down"
  /\ mem' = EmptyMem
  /\ writer' = FALSE /\ meta_rw' = FALSE
  /\ tmp' = NoTemp /\ batch' = << >>
  /\ truth' = IF pc = "log_merge" THEN TruthAfter(batch) ELSE truth
  /\ torn' = (torn \/ pc \in Windows)
  /\ UNCHANGED <<files, metadata, offsets_map, total_updates, bulk, stale, lost, logs, syncs>>

(***************************************************************************)
(* The constructor of PredicatesCacheManagerImpl replays total_updates     *)
(* batches before PCMFactory has given the PCMMergerWrapper its reference: *)
(* the first record it reads makes it throw.  With NO_CACHING a start that *)
(* replays nothing keeps the trees of the index: what the log has is not   *)
(* seen.                                                                   *)
(***************************************************************************)
ReplaysAtStart(n) ==
  log # Absent /\ \E i \in DOMAIN log : i <= n /\ log[i] # << >>

Restart ==
  /\ pc = "down"
  /\ metadata' = IndexPreds(index)
  /\ offsets_map' = IF offsets = Absent THEN NoOffsets ELSE offsets
  /\ meta_rw' = (meta # Absent)
  /\ total_updates' \in IF meta = Absent THEN GarbageTotal ELSE {meta}
  /\ IF ReplaysAtStart(total_updates') \/ (NoCaching /\ ReadsPastEnd(index))
       THEN pc' = "failed" /\ UNCHANGED mem
       ELSE pc' = "idle" /\ mem' = IF NoCaching THEN LoadedAll(index) ELSE EmptyMem
  /\ lost' = IF NoCaching THEN lost \cup DOMAIN offsets_map' ELSE lost
  /\ UNCHANGED <<files, writer, tmp, bulk, batch, truth, torn, stale, bounds>>

-----------------------------------------------------------------------------
LogStep ==
  \/ (\E us \in Batches : LogOpen(us)) \/ LogRecord
  \/ LogOffsetsUnlink \/ LogOffsetsRename \/ LogMerge

LoadStep ==
  \E p \in Preds : FetchK2Tree(p) \/ RetrieveKey(p) \/ LoadGarbage(p) \/ DiscardKey(p)

SyncStep ==
  \/ FullSyncBegin \/ SyncUnlink \/ SyncRename
  \/ \E p \in Preds : CompactPredicate(p) \/ CompactThrows(p)
  \/ CompactOffsetsUnlink \/ CompactOffsetsRename
  \/ CompactMetaUnlink \/ CompactMetaRename
  \/ CompactLogUnlink \/ CompactLogRename
  \/ \E p \in Preds : BulkSkip(p) \/ \E reached \in BOOLEAN : BulkFetch(p, reached)
  \/ BulkEnd \/ BulkSerialise \/ BulkDiscard
  \/ CleanLog \/ CleanMeta \/ CleanOffsets

Next == LogStep \/ LoadStep \/ SyncStep \/ Crash \/ Restart

Spec == Init /\ [][Next]_vars

-----------------------------------------------------------------------------
(* Properties.                                                             *)

Places == {"idle", "down", "failed", "log_write", "log_merge", "sync_unlink", "compact",
           "bulk", "bulk_serialise", "bulk_discard", "clean_log"}
            \cup Windows

TypeOK ==
  /\ IndexPreds(index) \subseteq Preds /\ index.twice \subseteq IndexPreds(index)
  /\ \A p \in IndexPreds(index) : index.trees[p] \in Trees
  /\ log = Absent \/ log \in Seq(Seq(Updates(Preds)))
  /\ offsets = Absent \/ DOMAIN offsets \subseteq Preds
  /\ meta \in Nat \cup {Absent}
  /\ DOMAIN mem.trees \subseteq Preds
  /\ \A p \in DOMAIN mem.trees : mem.trees[p] \in Trees
  /\ mem.dirty \subseteq Preds /\ mem.new \subseteq Preds
  /\ metadata \subseteq Preds
  /\ DOMAIN offsets_map \subseteq Preds
  /\ total_updates \in Nat
  /\ writer \in BOOLEAN /\ meta_rw \in BOOLEAN /\ torn \in BOOLEAN
  /\ pc \in Places
  /\ bulk \in [first : BOOLEAN, todo : SUBSET Preds, held : SUBSET Preds]
  /\ truth \in [Preds -> Trees]
  /\ stale \subseteq Preds /\ lost \subseteq Preds

(***************************************************************************)
(* sync_to_stream finds every tree it writes: one that is dirty is in      *)
(* memory (predicates[predicate_id] is dereferenced unchecked, line 180),  *)
(* one that is not is in the metadata (map::at, line 167) and in the file  *)
(* that the metadata describes.                                            *)
(***************************************************************************)
SyncFindsTrees ==
  pc \notin {"down", "failed"} =>
    /\ mem.dirty \subseteq DOMAIN mem.trees
    /\ mem.new \subseteq mem.dirty
    /\ DOMAIN mem.trees \ mem.dirty \subseteq metadata
    /\ pc \notin {"sync_unlink", "sync_rename"} => metadata = IndexPreds(index)

(***************************************************************************)
(* A tree in memory that is not dirty is the one of the index file: a sync *)
(* that copies it from the file loses nothing                              *)
(* (PredicatesIndexCacheMD.cpp:166-177).                                   *)
(***************************************************************************)
CleanMatchesDisk ==
  pc # "sync_rename" =>
    \A p \in DOMAIN mem.trees \ mem.dirty : mem.trees[p] = IndexTree(index, p)

(***************************************************************************)
(* A query sees what was logged: whatever mixture of updates, evictions,   *)
(* reloads, syncs and compactions came before, a tree in memory is the one *)
(* that all batches produce in their order.  A tree stays right when the   *)
(* log is truncated under it and a sync then saves it; only reading stale  *)
(* offsets spoils one, and a crash between the files' replacements         *)
(* (UpdatesLoggerImpl.cpp:56-83, 252-268, PredicatesIndexCacheMD.cpp:31-75, *)
(* 297-341).                                                               *)
(***************************************************************************)
LoadedCurrent ==
  ~torn => \A p \in Preds \ lost : p \in DOMAIN mem.trees => mem.trees[p] = truth[p]

\* What the three files on disk say of p.
DiskTree(p) ==
  IF log = Absent \/ offsets = Absent THEN IndexTree(index, p)
  ELSE ApplyAll(IndexTree(index, p), RecordsAt(log, OffsetsOf(offsets, p)), p)

(***************************************************************************)
(* What was logged is on disk: outside the replacement of a file, the      *)
(* index and the records at the saved offsets make the trees that the      *)
(* batches produce, before, during and after a sync.  Excepted are the     *)
(* predicates whose records a reopened writer truncated or a compaction    *)
(* dropped, until a sync that has them in memory saves them, and those     *)
(* that were read meanwhile (UpdatesLoggerImpl.cpp:56-83, 353-394,         *)
(* FileRWHandler.cpp:19, PredicatesIndexCacheMD.cpp:287-341).              *)
(***************************************************************************)
LoggedIsDurable ==
  ~torn /\ pc \notin Windows =>
    \A p \in Preds \ (stale \cup lost) :
      /\ log = Absent \/ offsets = Absent \/ Readable(log, offsets, p)
      /\ DiskTree(p) = IF pc = "log_merge" THEN TruthAfter(batch)[p] ELSE truth[p]

(***************************************************************************)
(* With everything in memory the log loses nothing until the first crash:  *)
(* the writer stays open from the first batch after a sync to the next     *)
(* sync, and what compaction drops is in the index                         *)
(* (UpdatesLoggerImpl.cpp:58, 308, 353-394).                               *)
(***************************************************************************)
NothingLost == crashes = 0 => stale = {} /\ lost = {}

(***************************************************************************)
(* What the test of an update, a load, a second update and a sync asserts: *)
(* the tree that is loaded in the end has the points of both updates,      *)
(* "ASSERT_TRUE(k2_after_sync.has(i + 1, i + 1))" for the points of both   *)
(* (src/test/update_log_test.cpp:388-390).                                 *)
(***************************************************************************)
LoadedHasEveryUpdate ==
  ~torn => \A p \in DOMAIN mem.trees : mem.trees[p] = truth[p]

=============================================================================
