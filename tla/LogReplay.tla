----------------------------- MODULE LogReplay ------------------------------
(***************************************************************************)
(* The two loops of UpdatesLoggerImpl that read the records of the log one *)
(* after the other: recover_predicate merges each into the trees in memory *)
(* (the variable mem), compact_predicate merges all records of a predicate *)
(* into one (the variable merged).                                         *)
(***************************************************************************)
EXTENDS PredicatesMemory

CONSTANTS
  Preds,      \* predicate ids
  NoRecord,   \* no record of the predicate was read yet
  MaxRecords  \* bound: records read

Records == {u \in Updates(Preds) : Kind(u) # "NO_UPDATE"}

ASSUME NoRecordAssumption == \A u \in Records : u # NoRecord
ASSUME MaxRecordsAssumption == MaxRecords \in Nat

VARIABLES
  records,  \* the records read so far
  start,    \* the trees in memory before the first
  mem,      \* the trees in memory now
  merged,   \* the record that compact_predicate has made for a predicate
  base,     \* auxiliary: the tree of a predicate before its first record
  applied,  \* auxiliary: its tree after the records read so far
  kinds     \* auxiliary: the kinds of its records

vars == <<records, start, mem, merged, base, applied, kinds>>

\* PredicatesCacheManagerImpl::merge_add_tree
MergeAddTree(m, p, t) ==
  LET there == IF Active(m, p) THEN m ELSE AddPredicate(m, p)
  IN  [there EXCEPT !.trees[p] = @ \cup t, !.dirty = @ \cup {p}]

\* Mutant: deleting from a predicate that is not active creates it.
MergeDeleteTreeCreates(m, p, t) ==
  LET there == IF Active(m, p) THEN m ELSE AddPredicate(m, p)
  IN  [there EXCEPT !.trees[p] = @ \ t, !.dirty = @ \cup {p}]

\* PredicatesCacheManagerImpl::merge_delete_tree
MergeDeleteTree(m, p, t) ==
  IF ~Active(m, p) THEN m
  ELSE [m EXCEPT !.trees[p] = @ \ t, !.dirty = @ \cup {p}]

\* UpdatesLoggerImpl::merge_update
MergeUpdate(m, u) ==
  LET added == IF u.add = NoTree THEN m ELSE MergeAddTree(m, u.p, u.add)
  IN  IF u.del = NoTree THEN added ELSE MergeDeleteTree(added, u.p, u.del)

\* The body of the loop of compact_predicate.
MergedAfter(r, u) == IF r = NoRecord THEN u ELSE MergeWith(r, u)

\* What is in memory before: some predicates, of which some are dirty.
Memories ==
  {[trees |-> t, dirty |-> d, new |-> n] :
     t \in UNION {[P -> Trees] : P \in SUBSET Preds}, d \in SUBSET Preds, n \in SUBSET Preds}

Init ==
  /\ records = << >>
  /\ start \in {m \in Memories : m.new \subseteq m.dirty /\ m.dirty \subseteq DOMAIN m.trees}
  /\ mem = start
  /\ merged = [p \in Preds |-> NoRecord]
  /\ base \in [Preds -> Trees]
  /\ \A p \in Preds : base[p] = IF p \in DOMAIN start.trees THEN start.trees[p] ELSE {}
  /\ applied = base
  /\ kinds = [p \in Preds |-> {}]

ReadRecord(u) ==
  /\ Len(records) < MaxRecords
  /\ records' = Append(records, u)
  /\ mem' = MergeUpdate(mem, u)
  /\ merged' = [merged EXCEPT ![u.p] = MergedAfter(@, u)]
  /\ applied' = [applied EXCEPT ![u.p] = ApplyUpdate(@, u)]
  /\ kinds' = [kinds EXCEPT ![u.p] = @ \cup {Kind(u)}]
  /\ UNCHANGED <<start, base>>

Next == \E u \in Records : ReadRecord(u)

Spec == Init /\ [][Next]_vars

-----------------------------------------------------------------------------
(* Properties.                                                             *)

(***************************************************************************)
(* Merging the records one by one, creating a predicate at its first added *)
(* tree and dropping the deletions before it, ends where MergeRecords says *)
(* (PredicatesCacheManagerImpl.cpp:90-113, UpdatesLoggerImpl.cpp:262-267). *)
(***************************************************************************)
ReplayMatchesMerge == mem = MergeRecords(start, records)

(***************************************************************************)
(* Compaction keeps the meaning of a predicate's records when they are all *)
(* of one kind or when the first carries both trees: merge_with drops the  *)
(* points for which the first record has no tree                           *)
(* (UpdatesLoggerImpl.cpp:418-451).                                        *)
(***************************************************************************)
CompactionKeepsMeaning ==
  \A p \in Preds :
    merged[p] # NoRecord /\ (Kind(merged[p]) = "BOTH_UPDATE" \/ kinds[p] = {Kind(merged[p])})
      => ApplyUpdate(base[p], merged[p]) = applied[p]

(***************************************************************************)
(* A compacted record that is replayed over a tree that already holds all  *)
(* updates changes nothing, whatever their kinds: sync_to_persistent saves *)
(* the trees in memory before compact_logs runs, and until                 *)
(* clean_append_log the log is read over the saved index again             *)
(* (PredicatesIndexCacheMD.cpp:337-341).                                   *)
(***************************************************************************)
ReplayChangesNothing ==
  \A p \in Preds :
    merged[p] # NoRecord => ApplyUpdate(applied[p], merged[p]) = applied[p]

=============================================================================
