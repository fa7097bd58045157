--------------------------- MODULE ExternalSort ---------------------------
(***************************************************************************)
(* external_sort_triples (algorithms/triple_external_sort.hpp): a file of  *)
(* triples is split into parts that fit the memory budget, every part is   *)
(* sorted by predicate with a pool of threads, one segment per task, and   *)
(* the parts are merged level by level, at most MaxFiles at a time, until  *)
(* one file is left.  Sizes are counted in triples.                        *)
(***************************************************************************)
EXTENDS ParallelWorker, SequencesExt, FiniteSetsExt

CONSTANTS MemBudget,     \* mem_budget_bound: triples of one part
          SegmentSize,   \* triples of one task of parallel_sort
          BlockSize,     \* triples a merge reads from a file at a time
          MaxFiles,      \* files one merge pass opens
          Hold           \* the worker threads asked for, at least one

ASSUME SortAssumption ==
    /\ MemBudget \in Nat \ {0} /\ SegmentSize \in Nat \ {0} /\ BlockSize \in Nat \ {0}
    /\ MaxFiles \in Nat \ {0, 1}
    /\ Hold \in SUBSET Worker /\ Hold # {}

VARIABLES input,      \* the input file, a sequence of <<subject, predicate, object>>
          rest,       \* what split_file has not read yet
          data,       \* the part in memory
          offsets,    \* the segments of data: places where one begins, then Len(data)
          ran,        \* how often each task of the pool has run
          step,       \* where the owner is
          n,          \* the task or pass the owner is at
          heap,       \* the priority queue, entries <<triple, place>>
          result,     \* what has left the priority queue
          files,      \* the files of this level
          merged,     \* the files of the next level
          blocks,     \* triples read from the files of a pass, not yet merged
          unread,     \* triples of the files of a pass, not yet read
          output      \* the sorted file, <<>> until it exists

sortVars == <<input, rest, data, offsets, ran, step, n, heap, result, files,
              merged, blocks, unread, output>>

\* Comparator of scripts/triple_external_sort.cpp: the predicate only.
LessThan(a, b) == a[2] < b[2]
Sorted(s) == \A i, j \in DOMAIN s : i < j => ~LessThan(s[j], s[i])

\* std::sort (external): any permutation that is sorted.
Sort(s) == SortSeq(s, LAMBDA a, b : LessThan(a, b))

\* The entries that std::priority_queue may have at its top.
Tops == {e \in heap : \A f \in heap : ~LessThan(f[1], e[1])}

SortInit ==
    /\ PoolInit
    /\ input = <<>> /\ rest = <<>> /\ data = <<>> /\ offsets = <<>> /\ ran = <<>>
    /\ step = "convert" /\ n = 0 /\ heap = {} /\ result = <<>>
    /\ files = <<>> /\ merged = <<>> /\ blocks = <<>> /\ unread = <<>> /\ output = <<>>
---------------------------------------------------------------------------
(* split_file and parallel_sort. *)

\* external_sort_triples starts with a file.
SortBegins(file) ==
    /\ input' = file /\ rest' = file /\ step' = "split"
    /\ UNCHANGED <<poolVars, data, offsets, ran, n, heap, result, files, merged, blocks, unread, output>>

\* split_file: triples are read until the budget is reached.
ReadPart ==
    /\ step = "split" /\ rest # <<>>
    /\ data' = SubSeq(rest, 1, Min({MemBudget, Len(rest)}))
    /\ rest' = SubSeq(rest, Min({MemBudget, Len(rest)}) + 1, Len(rest))
    /\ step' = "sort"
    /\ UNCHANGED <<poolVars, input, offsets, ran, n, heap, result, files, merged, blocks, unread, output>>

\* Where segments begin: acc_size starts at one triple, so the first segment
\* is one triple shorter than the others.
SegmentOffsets(len) ==
    LET first == Max({1, SegmentSize - 1})
        cuts  == {i \in 1..(len - 1) : i >= first /\ (i - first) % SegmentSize = 0}
    IN  SetToSortSeq({0, len} \cup cuts, <)

Parts == Len(offsets) - 1
PoolOf(parts) == CHOOSE ws \in SUBSET Hold : Cardinality(ws) = Min({Cardinality(Hold), parts})

\* A part with one segment, or one thread: std::sort in the caller.
SortAlone ==
    /\ step = "sort"
    /\ Cardinality(PoolOf(Len(SegmentOffsets(Len(data))) - 1)) = 1
    /\ result' = Sort(data)
    /\ step' = "part"
    /\ UNCHANGED <<poolVars, input, rest, data, offsets, ran, n, heap, files, merged, blocks, unread, output>>

StartPool ==
    /\ step = "sort"
    /\ offsets' = SegmentOffsets(Len(data))
    /\ Cardinality(PoolOf(Len(offsets') - 1)) > 1
    /\ CreatePool(PoolOf(Len(offsets') - 1))
    /\ ran' = [t \in 1..(Len(offsets') - 1) |-> 0]
    /\ step' = "add" /\ n' = 1
    /\ UNCHANGED <<input, rest, data, heap, result, files, merged, blocks, unread, output>>

\* pool.add_task: push, then notify.
AddTask ==
    /\ step = "add"
    /\ PushTask(n)
    /\ step' = "notify"
    /\ UNCHANGED <<input, rest, data, offsets, ran, n, heap, result, files, merged, blocks, unread, output>>

NotifyTask ==
    /\ step = "notify"
    /\ NotifyAll
    /\ IF n < Parts THEN step' = "add" /\ n' = n + 1 ELSE step' = "stop" /\ n' = n
    /\ UNCHANGED <<input, rest, data, offsets, ran, heap, result, files, merged, blocks, unread, output>>

\* pool.stop_all_workers: one thread after the other, then notify.
StopOne(w) ==
    /\ step = "stop" /\ w \in PoolOf(Parts) /\ ~stopped[w]
    /\ StopWorker(w)
    /\ UNCHANGED sortVars

NotifyStop ==
    /\ step = "stop" /\ \A w \in PoolOf(Parts) : stopped[w]
    /\ NotifyAll
    /\ step' = "join"
    /\ UNCHANGED <<input, rest, data, offsets, ran, n, heap, result, files, merged, blocks, unread, output>>

\* pool.wait_workers; then the first triple of every segment enters the queue.
Join ==
    /\ step = "join" /\ Joined(PoolOf(Parts))
    /\ heap' = {<<data[offsets[k] + 1], offsets[k]>> : k \in 1..Parts}
    /\ result' = <<>>
    /\ step' = "segments"
    /\ UNCHANGED <<poolVars, input, rest, data, offsets, ran, n, files, merged, blocks, unread, output>>

\* A task sorts its own segment of the shared vector.
SortSegment(t) ==
    [i \in DOMAIN data |->
        IF i \in offsets[t] + 1 .. offsets[t + 1]
        THEN Sort(SubSeq(data, offsets[t] + 1, offsets[t + 1]))[i - offsets[t]]
        ELSE data[i]]

TaskRuns(w) ==
    /\ RunTask(w)
    /\ data' = SortSegment(task[w])
    /\ ran' = [ran EXCEPT ![task[w]] = @ + 1]
    /\ UNCHANGED <<input, rest, offsets, step, n, heap, result, files, merged, blocks, unread, output>>

MergeSegments ==
    /\ step = "segments" /\ heap # {}
    /\ \E e \in Tops :
          /\ result' = Append(result, e[1])
          /\ heap' = (heap \ {e}) \cup
                     (IF e[2] + 1 \in ToSet(offsets) THEN {}
                      ELSE {<<data[e[2] + 2], e[2] + 1>>})
    /\ UNCHANGED <<poolVars, input, rest, data, offsets, ran, step, n, files, merged, blocks, unread, output>>

SegmentsMerged ==
    /\ step = "segments" /\ heap = {}
    /\ step' = "part"
    /\ UNCHANGED <<poolVars, input, rest, data, offsets, ran, n, heap, result, files, merged, blocks, unread, output>>

\* create_file_part: the sorted part becomes a file, data is cleared.
WritePart ==
    /\ step = "part"
    /\ files' = Append(files, result)
    /\ data' = <<>> /\ result' = <<>> /\ offsets' = <<>> /\ ran' = <<>>
    /\ step' = "split" /\ n' = 0
    /\ UNCHANGED <<poolVars, input, rest, heap, merged, blocks, unread, output>>

SplitDone ==
    /\ step = "split" /\ rest = <<>>
    /\ step' = "level" /\ n' = 0
    /\ UNCHANGED <<poolVars, input, rest, data, offsets, ran, heap, result, files, merged, blocks, unread, output>>
---------------------------------------------------------------------------
(* merge_bottom_up and merge_pass. *)

Passes == (Len(files) \div MaxFiles) + (IF Len(files) % MaxFiles # 0 THEN 1 ELSE 0)
PassFiles == SubSeq(files, n * MaxFiles + 1, Min({(n + 1) * MaxFiles, Len(files)}))

\* fill_with_file: up to BlockSize triples of file k.
Filled(u) == SubSeq(u, 1, Min({BlockSize, Len(u)}))

\* Mutant: the position after a block is one triple too far.
LeftTooFar(u) == SubSeq(u, Min({BlockSize, Len(u)}) + 2, Len(u))

Left(u) == SubSeq(u, Min({BlockSize, Len(u)}) + 1, Len(u))

\* A pass opens its files, reads one block of each and queues their first triples.
StartPass ==
    /\ step = "level" /\ Len(files) > 1 /\ n < Passes
    /\ heap' = {<<Filled(PassFiles[k])[1], k>> : k \in {k \in DOMAIN PassFiles : PassFiles[k] # <<>>}}
    /\ blocks' = [k \in DOMAIN PassFiles |-> Tail(Filled(PassFiles[k]))]
    /\ unread' = [k \in DOMAIN PassFiles |-> Left(PassFiles[k])]
    /\ result' = <<>>
    /\ step' = "merge"
    /\ UNCHANGED <<poolVars, input, rest, data, offsets, ran, n, files, merged, output>>

\* The smallest triple is written and block_update queues the next one of its
\* file, after reading another block when the one in memory is used up.
MergeNext ==
    /\ step = "merge" /\ heap # {}
    /\ \E e \in Tops :
          LET k     == e[2]
              block == IF blocks[k] = <<>> THEN Filled(unread[k]) ELSE blocks[k]
          IN  /\ result' = Append(result, e[1])
              /\ unread' = [unread EXCEPT ![k] = IF blocks[k] = <<>> THEN Left(@) ELSE @]
              /\ IF block = <<>>
                 THEN heap' = heap \ {e} /\ UNCHANGED blocks
                 ELSE /\ heap' = (heap \ {e}) \cup {<<Head(block), k>>}
                      /\ blocks' = [blocks EXCEPT ![k] = Tail(block)]
    /\ UNCHANGED <<poolVars, input, rest, data, offsets, ran, step, n, files, merged, output>>

EndPass ==
    /\ step = "merge" /\ heap = {}
    /\ merged' = Append(merged, result)
    /\ result' = <<>> /\ blocks' = <<>> /\ unread' = <<>>
    /\ step' = "level" /\ n' = n + 1
    /\ UNCHANGED <<poolVars, input, rest, data, offsets, ran, heap, files, output>>

EndLevel ==
    /\ step = "level" /\ Len(files) > 1 /\ n = Passes
    /\ files' = merged /\ merged' = <<>>
    /\ n' = 0
    /\ UNCHANGED <<poolVars, input, rest, data, offsets, ran, step, heap, result, blocks, unread, output>>

\* fs::rename of the only file, and the program ends. A file with no triples
\* leaves none to rename: current_filenames[0] does not exist and what the
\* program does is undefined.
Rename ==
    /\ step = "level" /\ Len(files) = 1
    /\ output' = files[1] /\ files' = <<>>
    /\ step' = "sorted" /\ n' = 0
    /\ CreatePool({})
    /\ UNCHANGED <<input, rest, data, offsets, ran, heap, result, merged, blocks, unread>>

RenameNothing ==
    /\ step = "level" /\ files = <<>>
    /\ step' = "undefined"
    /\ UNCHANGED <<poolVars, input, rest, data, offsets, ran, n, heap, result, files, merged, blocks, unread, output>>
---------------------------------------------------------------------------
SortOwner ==
    \/ ReadPart \/ SortAlone \/ StartPool \/ AddTask \/ NotifyTask
    \/ (\E w \in Worker : StopOne(w)) \/ NotifyStop \/ Join
    \/ MergeSegments \/ SegmentsMerged \/ WritePart \/ SplitDone
    \/ StartPass \/ MergeNext \/ EndPass \/ EndLevel \/ Rename \/ RenameNothing

SortWorker(w) == (WorkerStep(w) /\ UNCHANGED sortVars) \/ TaskRuns(w)

SortSpurious(w) == SpuriousWakeup(w) /\ UNCHANGED sortVars
---------------------------------------------------------------------------
(* Properties. *)

\* Every triple of the input is, until the index is built, in exactly one place: still
\* unread, in memory, in the priority queue, in a part or a merged file, or in
\* the output; no step of split_file, parallel_sort or merge_pass drops or
\* doubles one.
Occurrences(x, s) == Cardinality({i \in DOMAIN s : s[i] = x})
InFiles(x, fs) ==
    Cardinality(UNION {{<<k, i>> : i \in {i \in DOMAIN fs[k] : fs[k][i] = x}} : k \in DOMAIN fs})
InHeap(x) == Cardinality({e \in heap : e[1] = x})

NoTripleLost == step # "built" =>
    \A x \in ToSet(input) \cup ToSet(output) :
        Occurrences(x, input) =
            Occurrences(x, rest) + Occurrences(x, output)
            + (CASE step = "merge" ->
                     InFiles(x, SubSeq(files, Min({(n + 1) * MaxFiles, Len(files)}) + 1, Len(files)))
                     + InFiles(x, merged) + Occurrences(x, result) + InHeap(x)
                     + InFiles(x, blocks) + InFiles(x, unread)
                 [] step = "level" ->
                     InFiles(x, SubSeq(files, Min({n * MaxFiles, Len(files)}) + 1, Len(files)))
                     + InFiles(x, merged)
                 [] step = "part" -> InFiles(x, files) + Occurrences(x, result)
                 [] OTHER -> InFiles(x, files) + Occurrences(x, data))

\* When wait_workers returns, every task has run exactly once, so that the
\* merge of the segments starts from sorted segments; every part, every merged
\* file and the output are sorted by predicate.
FilesSorted ==
    /\ step = "segments" => \A t \in DOMAIN ran : ran[t] = 1
    /\ Sorted(output)
    /\ \A k \in DOMAIN files : Sorted(files[k])
    /\ \A k \in DOMAIN merged : Sorted(merged[k])

\* Every task given to the pool eventually runs, although a notification may
\* be lost: the thread that missed it was the only one about to sleep, and the
\* pool never has just one thread.
TasksRun == \A t \in 1..MemBudget :
    (step = "notify" /\ n = t) ~> (t \in DOMAIN ran /\ ran[t] > 0)
===========================================================================
