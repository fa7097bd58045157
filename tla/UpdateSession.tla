--------------------------- MODULE UpdateSession ----------------------------
(***************************************************************************)
(* Update sessions: a client sends batches of triples to add and to delete *)
(* and commits; UpdaterSession gathers them in one tree to add and one to  *)
(* delete per predicate, log_updates makes a record of each predicate, and *)
(* UpdatesLoggerImpl::log appends the records and merges them into the     *)
(* trees in memory.  No lock keeps a commit from running while a sync      *)
(* writes the index and cleans the log (acquire_write_lock does nothing),  *)
(* while trees are loaded and evicted.  The log is reached through the     *)
(* offsets of each predicate's records; FileRWHandler truncates the file   *)
(* when log opens it again, and the offsets stay.                          *)
(***************************************************************************)
EXTENDS Naturals, Sequences, FiniteSets, SequencesExt

CONSTANTS
  Sessions,      \* update ids
  Batches,       \* messages [add, del] of triples of real ids
  InitialIds,    \* the real id of each cache id
  InitialIndex,  \* the trees of the index file, by cache id of the predicate
  Garbled,       \* trees that records read at wrong offsets may leave
  MaxBatches,    \* bound: messages of all sessions
  MaxCommits,    \* bound: commits
  MaxSyncs       \* bound: syncs

ASSUME SessionAssumption ==
  /\ InitialIds \in Seq(Nat \ {0})
  /\ \A i, j \in DOMAIN InitialIds : InitialIds[i] = InitialIds[j] => i = j
  /\ DOMAIN InitialIndex \subseteq DOMAIN InitialIds /\ Garbled # {}
  /\ \A p \in DOMAIN InitialIndex : InitialIndex[p] \subseteq (DOMAIN InitialIds) \X (DOMAIN InitialIds)
  /\ \A b \in Batches :
       /\ IsFiniteSet(b.add) /\ \A t \in b.add : t \in (Nat \ {0}) \X (Nat \ {0}) \X (Nat \ {0})
       /\ IsFiniteSet(b.del) /\ \A t \in b.del : t \in Nat \X Nat \X Nat

VARIABLES
  ids,          \* NodeIdsManager: the real id of each cache id
  session,      \* added_triples and removed_triples of each UpdaterSession
  index,        \* trees of the index file
  log,          \* updates log: the records at the offsets of each predicate
  writer,       \* current_file_writer is open
  mem,          \* trees in memory
  committing,   \* records that a session has logged and not yet merged
  merging,      \* the predicate that merge_update found active, or 0
  sync,         \* full sync: "idle", "written" (memory), "compacted",
                \* "fetched" (log), or "failed"
  sent,         \* auxiliary: what each client asked for, in real ids
  truth,        \* auxiliary: the triples that the commits ask for
  misnamed,     \* auxiliary: triples that delete_triple takes for one another
  raced,        \* auxiliary: predicates that met a sync or an eviction
  stale,        \* auxiliary: predicates whose records the log has lost
  lost,         \* auxiliary: predicates read at wrong offsets
  batches, commits, syncs   \* counters for the bounds

vars == <<ids, session, index, log, writer, mem, committing, merging, sync, sent, truth,
          misnamed, raced, stale, lost, batches, commits, syncs>>
asked == <<ids, session, sent, truth, misnamed>>
bounds == <<batches, commits, syncs>>

With(f, k, v) == [j \in DOMAIN f \cup {k} |-> IF j = k THEN v ELSE f[j]]
Without(f, S) == [j \in DOMAIN f \ S |-> f[j]]
At(f, k) == IF k \in DOMAIN f THEN f[k] ELSE {}
-----------------------------------------------------------------------------
(* Node ids.                                                               *)

\* get_id_or_create, for the real ids of a message; new ones get the next ids.
Created(known, xs) == known \o SetToSeq(xs \ Range(known))

\* get_id
CacheId(known, x) == CHOOSE i \in DOMAIN known : known[i] = x

\* The triples of real ids that a tree of predicate p stands for.
Triples(known, p, points) == {<<known[x[1]], known[p], known[x[2]]>> : x \in points}
-----------------------------------------------------------------------------
(* UpdaterSession.                                                         *)

NewSession == [added |-> << >>, removed |-> << >>]

\* delete_triple takes the object from the subject of the triple ...
Deleted(t) == <<t[1], t[2], t[1]>>

\* ... and ignores a triple with a 0.
Deletes(b) == {t \in {Deleted(d) : d \in b.del} : 0 \notin {t[1], t[2], t[3]}}

\* The real ids that add_triple and delete_triple look up or create.
Named(b) == UNION {{t[1], t[2], t[3]} : t \in b.add \cup Deletes(b)}

\* get_tree_bulk_op_id, and the insertion of the triples S into the trees of
\* their predicates, which are made when they are not there.
Inserted(known, trees, S) ==
  [p \in DOMAIN trees \cup {CacheId(known, t[2]) : t \in S} |->
     At(trees, p) \cup {<<CacheId(known, t[1]), CacheId(known, t[3])>> :
                         t \in {t \in S : CacheId(known, t[2]) = p}}]

\* process_update_triples_batch: the triples to add and those to delete.
Gathered(known, s, b) ==
  [added |-> Inserted(known, s.added, b.add), removed |-> Inserted(known, s.removed, Deletes(b))]

\* Triples that take part in a deletion of another triple than the one asked for.
Misnamed(b) == UNION {{d, Deleted(d)} : d \in {d \in b.del : d[1] # 0 /\ d[1] # d[3]}}

\* K2TreeUpdates::get_kind
Kind(s, p) ==
  CASE p \notin DOMAIN s.removed -> "INSERT_UPDATE"
    [] p \notin DOMAIN s.added -> "DELETE_UPDATE"
    [] OTHER -> "BOTH_UPDATE"

Record(s, p) == [kind |-> Kind(s, p), add |-> At(s.added, p), del |-> At(s.removed, p)]

\* Mutant: predicates that only have triples to delete are left out.
RecordsOfAdded(s) == [p \in DOMAIN s.added |-> Record(s, p)]

\* log_updates: one record per predicate, with what there is of the two trees.
Records(s) == [p \in DOMAIN s.added \cup DOMAIN s.removed |-> Record(s, p)]
-----------------------------------------------------------------------------
(* The log and the trees.                                                  *)

\* merge_add_tree, then merge_delete_tree.
Merged(points, r) == (points \cup r.add) \ r.del

\* recover_predicate merges the records rs in the order of the log.  What is
\* left of the points is what no record deletes, and what a record adds that
\* neither it nor a later one deletes.
Recovered(rs, points) ==
  {x \in points : \A i \in DOMAIN rs : x \notin rs[i].del}
    \cup UNION {{x \in rs[i].add : \A j \in DOMAIN rs : j >= i => x \notin rs[j].del} : i \in DOMAIN rs}

(***************************************************************************)
(* compact_predicate merges every record into the first (merge_with),      *)
(* which keeps its kind: an update of the other kind only takes points     *)
(* away.                                                                   *)
(***************************************************************************)
Compacted(rs) ==
  [kind |-> rs[1].kind,
   add |-> IF rs[1].kind = "DELETE_UPDATE" THEN {}
           ELSE UNION {{x \in rs[i].add : \A j \in DOMAIN rs : j >= i /\ j > 1 => x \notin rs[j].del} :
                        i \in DOMAIN rs},
   del |-> IF rs[1].kind = "INSERT_UPDATE" THEN {}
           ELSE UNION {{x \in rs[i].del : \A j \in DOMAIN rs : j > i => x \notin rs[j].add} :
                        i \in DOMAIN rs}]

\* merge_with drops updates that the kind of the first record has no tree for.
Drops(rs) == \E i \in DOMAIN rs : rs[1].kind # "BOTH_UPDATE" /\ rs[i].kind # rs[1].kind

\* The predicates of offsets_map, and the records of p.
InLog == DOMAIN log
LogOf(l, p) == IF p \in DOMAIN l THEN l[p] ELSE << >>
Stored == DOMAIN index \cup InLog

\* What a restart, or a load, makes of p.
Reloaded(p) == Recovered(LogOf(log, p), At(index, p))

\* What a request sees of p: the tree in memory, or the one it would load.
Tree(p) == IF p \in DOMAIN mem THEN mem[p] ELSE Reloaded(p)

(***************************************************************************)
(* Reading records of the predicates P.  Behind the offset of a stale one  *)
(* there may be a record of any predicate of the log, which is merged into *)
(* the tree of that predicate (UpdatesLoggerImpl::merge_update): the read  *)
(* garbles the stale predicates of P, and the strays S.                    *)
(***************************************************************************)
Strays(P) == IF P \cap stale = {} THEN {{}} ELSE SUBSET InLog

Fetched(P, S, garbled) ==
  [q \in DOMAIN mem \cup P \cup S |->
     IF q \in DOMAIN garbled THEN garbled[q] ELSE Tree(q)]
-----------------------------------------------------------------------------
Init ==
  /\ ids = InitialIds
  /\ session = [u \in Sessions |-> NewSession]
  /\ index = InitialIndex /\ log = << >> /\ writer = FALSE /\ mem = << >>
  /\ committing = << >> /\ merging = 0 /\ sync = "idle"
  /\ sent = [u \in Sessions |-> [add |-> {}, del |-> {}]]
  /\ truth = UNION {Triples(InitialIds, p, InitialIndex[p]) : p \in DOMAIN InitialIndex}
  /\ misnamed = {} /\ raced = {} /\ stale = {} /\ lost = {}
  /\ batches = 0 /\ commits = 0 /\ syncs = 0

\* process_update_triples_batch
UpdateBatch(u, b) ==
  /\ batches < MaxBatches
  /\ ids' = Created(ids, Named(b))
  /\ session' = [session EXCEPT ![u] = Gathered(ids', @, b)]
  /\ sent' = [sent EXCEPT ![u] = [add |-> @.add \cup b.add, del |-> @.del \cup b.del]]
  /\ misnamed' = misnamed \cup Misnamed(b)
  /\ batches' = batches + 1
  /\ UNCHANGED <<index, log, writer, mem, committing, merging, sync, truth, raced, stale, lost,
                 commits, syncs>>

(***************************************************************************)
(* commit_updates: log opens the file if the writer is closed, which       *)
(* truncates it, and writes the records ...                                *)
(***************************************************************************)
CommitLog(u) ==
  LET records == Records(session[u])
      kept == IF writer THEN log ELSE [p \in InLog |-> << >>]
  IN
  /\ DOMAIN committing = {} /\ DOMAIN records # {} /\ commits < MaxCommits
  /\ log' = [p \in InLog \cup DOMAIN records |->
               IF p \in DOMAIN records THEN Append(LogOf(kept, p), records[p]) ELSE kept[p]]
  /\ writer' = TRUE
  /\ stale' = IF writer THEN stale ELSE stale \cup InLog
  /\ committing' = records
  /\ truth' = (truth \cup sent[u].add) \ sent[u].del
  /\ raced' = raced \cup (IF sync = "idle" THEN {} ELSE DOMAIN records)
  /\ commits' = commits + 1
  /\ UNCHANGED <<ids, session, index, mem, merging, sync, sent, misnamed, lost, batches, syncs>>

\* ... and merge_update takes the predicates in turn: one that is not active is
\* left out ...
MergeSkip(p) ==
  /\ merging = 0 /\ p \in DOMAIN committing \ DOMAIN mem
  /\ committing' = Without(committing, {p})
  /\ UNCHANGED <<asked, index, log, writer, mem, merging, sync, raced, stale, lost, bounds>>

MergeCheck(p) ==
  /\ merging = 0 /\ p \in DOMAIN committing \cap DOMAIN mem
  /\ merging' = p
  /\ UNCHANGED <<asked, index, log, writer, mem, committing, sync, raced, stale, lost, bounds>>

(***************************************************************************)
(* ... and the record of one that is active is merged into its tree.  If   *)
(* the tree was evicted after the check, merge_op_tree merges a record     *)
(* with additions into a new, empty tree, and leaves out any other.  The   *)
(* session stays as it is.                                                 *)
(***************************************************************************)
MergeTree ==
  LET r == committing[merging]
      creates == merging \notin DOMAIN mem /\ r.kind # "DELETE_UPDATE"
  IN
  /\ merging # 0
  /\ mem' = IF merging \in DOMAIN mem \/ creates
              THEN With(mem, merging, Merged(At(mem, merging), r)) ELSE mem
  /\ raced' = IF creates THEN raced \cup {merging} ELSE raced
  /\ committing' = Without(committing, {merging})
  /\ merging' = 0
  /\ UNCHANGED <<asked, index, log, writer, sync, stale, lost, bounds>>

\* fetch_k2tree and load_single_predicate; recover_predicate closes the writer.
\* A load after SyncMemory hides the predicate's records from SyncLog.
Load(p) ==
  /\ p \in Stored \ DOMAIN mem
  /\ \E S \in Strays({p}) : \E garbled \in [({p} \cap stale) \cup S -> Garbled] :
       /\ mem' = Fetched({p}, S, garbled)
       /\ lost' = lost \cup DOMAIN garbled
  /\ writer' = (writer /\ p \notin InLog)
  /\ raced' = IF sync \in {"written", "compacted"} /\ p \in InLog THEN raced \cup {p} ELSE raced
  /\ UNCHANGED <<asked, index, log, committing, merging, sync, stale, bounds>>

\* discard_in_memory_predicate, of the replacement.
Evict(p) ==
  /\ p \in DOMAIN mem
  /\ mem' = Without(mem, {p})
  /\ UNCHANGED <<asked, index, log, writer, committing, merging, sync, raced, stale, lost, bounds>>

\* Mutant: trees of predicates that are new to the index are not written.
SyncMemoryOld ==
  /\ sync = "idle" /\ syncs < MaxSyncs
  /\ index' = [p \in DOMAIN index |-> IF p \in DOMAIN mem THEN mem[p] ELSE index[p]]
  /\ sync' = "written" /\ syncs' = syncs + 1
  /\ raced' = raced \cup DOMAIN committing
  /\ UNCHANGED <<asked, log, writer, mem, committing, merging, stale, lost, batches, commits>>

\* sync_to_persistent writes the trees in memory ...
SyncMemory ==
  /\ sync = "idle" /\ syncs < MaxSyncs
  /\ index' = [p \in DOMAIN index \cup DOMAIN mem |-> IF p \in DOMAIN mem THEN mem[p] ELSE index[p]]
  /\ sync' = "written" /\ syncs' = syncs + 1
  /\ raced' = raced \cup DOMAIN committing
  /\ UNCHANGED <<asked, log, writer, mem, committing, merging, stale, lost, batches, commits>>

\* ... compact_logs closes the writer and makes one record per predicate; a
\* predicate that is not in memory loses what is dropped ...
SyncCompact ==
  /\ sync = "written"
  /\ log' = [p \in InLog |-> IF log[p] = << >> THEN << >> ELSE <<Compacted(log[p])>>]
  /\ writer' = FALSE
  /\ stale' = stale \cup {p \in InLog \ DOMAIN mem : Drops(log[p])}
  /\ sync' = "compacted"
  /\ UNCHANGED <<asked, index, mem, committing, merging, raced, lost, bounds>>

\* ... unless it finds another predicate's record at an offset and throws ...
SyncThrows ==
  /\ sync = "written" /\ stale # {}
  /\ sync' = "failed"
  /\ UNCHANGED <<asked, index, log, writer, mem, committing, merging, raced, stale, lost, bounds>>

\* ... sync_logs_to_indexes fetches the other predicates of the log, writes and
\* discards them ...
SyncLog ==
  LET others == InLog \ DOMAIN mem IN
  /\ sync = "compacted"
  /\ \E S \in Strays(others) : \E garbled \in [(others \cap stale) \cup S -> Garbled] :
       LET all == Fetched(others, S, garbled) IN
       /\ index' = IF others = {} THEN index
                   ELSE [p \in DOMAIN index \cup DOMAIN all |->
                           IF p \in DOMAIN all THEN all[p] ELSE index[p]]
       /\ mem' = Without(all, others \ S)
       /\ lost' = lost \cup DOMAIN garbled
  /\ writer' = (writer /\ others = {})
  /\ sync' = "fetched"
  /\ UNCHANGED <<asked, log, committing, merging, raced, stale, bounds>>

\* ... and clean_append_log empties the log.
SyncClean ==
  /\ sync = "fetched"
  /\ log' = << >> /\ writer' = FALSE /\ stale' = {}
  /\ sync' = "idle"
  /\ UNCHANGED <<asked, index, mem, committing, merging, raced, lost, bounds>>

Next ==
  /\ sync # "failed"
  /\ \/ \E u \in Sessions : (\E b \in Batches : UpdateBatch(u, b)) \/ CommitLog(u)
     \/ \E p \in DOMAIN ids : MergeSkip(p) \/ MergeCheck(p) \/ Load(p) \/ Evict(p)
     \/ MergeTree
     \/ SyncMemory \/ SyncCompact \/ SyncThrows \/ SyncLog \/ SyncClean

Spec == Init /\ [][Next]_vars
-----------------------------------------------------------------------------
TypeOK ==
  /\ \A i, j \in DOMAIN ids : ids[i] = ids[j] => i = j
  /\ DOMAIN mem \cup DOMAIN index \cup InLog \subseteq DOMAIN ids
  /\ merging \in DOMAIN committing \cup {0}
  /\ sync \in {"idle", "written", "compacted", "fetched", "failed"}

(***************************************************************************)
(* Outside a commit, what a request sees of a predicate is what the        *)
(* committed sessions asked for, triple by triple in real ids, whether its *)
(* tree is in memory, in the index or still in the log (UpdaterSession,    *)
(* log_updates, full_sync_logs_and_memory_with_persistent).  Excepted are  *)
(* the triples that delete_triple takes for one another, the predicates    *)
(* that a commit, a sync or an eviction met half way, and those whose      *)
(* records the log lost, unless their tree stayed in memory.               *)
(***************************************************************************)
CommittedVisible ==
  \A p \in DOMAIN ids \ (raced \cup lost \cup DOMAIN committing) :
    p \in DOMAIN mem \/ p \notin stale =>
      Triples(ids, p, Tree(p)) \ misnamed = {t \in truth : t[2] = ids[p]} \ misnamed

(***************************************************************************)
(* At every moment, a commit and a sync in progress included, a restart    *)
(* that has only the index file and the log finds every committed triple   *)
(* of a predicate, and nothing else (log writes before merge_update; the   *)
(* index is written before clean_append_log), with the same exceptions; a  *)
(* sync that has the tree in memory makes up for records the log lost.     *)
(***************************************************************************)
CommittedDurable ==
  \A p \in DOMAIN ids \ (raced \cup lost \cup stale) :
    Triples(ids, p, Reloaded(p)) \ misnamed = {t \in truth : t[2] = ids[p]} \ misnamed
=============================================================================
