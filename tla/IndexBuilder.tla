--------------------------- MODULE IndexBuilder ---------------------------
(***************************************************************************)
(* From a text file of triples to the predicates index: the scripts that   *)
(* make it binary, collect the sequence of its nodes and replace each node *)
(* by its place there; the external sort; and PredicatesIndexFileBuilder   *)
(* over the sorted file, in the three versions the repository has.  build  *)
(* takes one K2-tree per run of equal predicates from a feed; build_orig   *)
(* and build_debug, which the tests and build_k2tree_index_debug use, read *)
(* triple by triple.  All keep the trees in a temporary file and copy them *)
(* behind the metadata of the index.                                       *)
(***************************************************************************)
EXTENDS ExternalSort, K2TreeFile

CONSTANT Inputs   \* the text files: sequences of lines of three numbers

VARIABLES raw,      \* the lines of the text file
          nodes,    \* the nodes sequence file, ascending
          builder,  \* the function that builds the index
          fed,      \* triples taken from the feed, or filedata.current_triple
          carry,    \* carry_triple: <<>>, or the first triple of the next run
          counted,  \* triple_cnt: triples inserted in some tree
          current,  \* current_k2tree of build_orig and build_debug, <<>> for null
          tmp,      \* the temporary file, one entry per tree
          ids,      \* predicates_ids
          index     \* the index file: metadata by predicate, and the trees

buildVars == <<raw, nodes, builder, fed, carry, counted, current, tmp, ids, index>>

NoIndex == [metadata |-> <<>>, trees |-> <<>>]

BuildInit ==
    /\ SortInit
    /\ raw \in Inputs /\ nodes = <<>> /\ builder = "none"
    /\ fed = 0 /\ carry = <<>> /\ counted = 0 /\ current = <<>>
    /\ tmp = <<>> /\ ids = <<>> /\ index = NoIndex
---------------------------------------------------------------------------
(* The scripts that prepare the file of triples. *)

\* convert_triples_to_binary: the count of lines, then three numbers of each.
Converted == [k \in DOMAIN raw |-> <<raw[k][1], raw[k][2], raw[k][3]>>]

ConvertToBinary ==
    /\ step = "convert"
    /\ input' = Converted /\ rest' = Converted /\ step' = "nodes"
    /\ UNCHANGED <<poolVars, data, offsets, ran, n, heap, result, files, merged, blocks,
                   unread, output, buildVars>>

\* triples_to_sorted_node_ids: the three nodes of every triple, sorted without
\* repetitions by the external_sort library (external).
NodesOf(file) == SetToSortSeq(UNION {ToSet(file[k]) : k \in DOMAIN file}, <)

CollectNodes ==
    /\ step = "nodes"
    /\ nodes' = NodesOf(input) /\ step' = "translate"
    /\ UNCHANGED <<poolVars, input, rest, data, offsets, ran, n, heap, result, files, merged,
                   blocks, unread, output, raw, builder, fed, carry, counted, current, tmp, ids, index>>

\* NodesSequence::get_id, the place of a node from 0 on.
PlaceOf(x) == (CHOOSE k \in DOMAIN nodes : nodes[k] = x) - 1

\* translate_triples_to_nseq: the predicate is a node like the others.
TranslateTriples ==
    /\ step = "translate"
    /\ SortBegins([k \in DOMAIN input |->
                      <<PlaceOf(input[k][1]), PlaceOf(input[k][2]), PlaceOf(input[k][3])>>])
    /\ UNCHANGED buildVars

\* A builder is started on the sorted file.
StartBuilder(b) ==
    /\ step = "sorted" /\ builder = "none"
    /\ builder' = b
    /\ UNCHANGED <<poolVars, sortVars, raw, nodes, fed, carry, counted, current, tmp, ids, index>>
---------------------------------------------------------------------------
(* build: build_with_feed and build_with_k2tree_feed. *)

\* The triples of the next tree: the one carried over, and those that follow
\* in the feed while their predicate stays the same.
NextRun ==
    LET start == carry \o SubSeq(output, fed + 1, Len(output))
        same  == {k \in DOMAIN start : \A j \in 1..k : start[j][2] = start[1][2]}
    IN  SubSeq(start, 1, Max(same))

RECURSIVE TreeOf(_)
TreeOf(run) ==
    IF run = <<>> THEN EmptyTree
    ELSE LET x == run[Len(run)]
         IN  InsertPoint(TreeOf(SubSeq(run, 1, Len(run) - 1)), <<x[1], x[3]>>)

\* write_ktree_with_size: the size in memory, the size write_to_ostream reports,
\* a hash, the bytes.
\* md5calc (external) is taken to tell different contents apart.
TmpEntry(tree) ==
    LET root  == K2NodeOf(tree.points, 0)
        words == WriteToOstream(root, tree.points_count)
    IN  [total_bytes |-> MeasuredBytes(root, 0), size |-> BytesWritten(root),
         hash |-> <<"md5", words>>, words |-> words]

\* Mutant: the feed is at its end when no triple is left to read.
FeedHasNextUnread == fed < Len(output)

\* K2TreesFeedFromSortedTriplesFeed::has_next compares triple_cnt with the size.
FeedHasNext == counted < Len(output)

\* One turn of build_with_k2tree_feed: K2TreesFeedFromSortedTriplesFeed::get_next
\* and write_ktree_with_size.
NextTree ==
    /\ step = "sorted" /\ builder = "feed" /\ FeedHasNext
    /\ LET run  == NextRun
           took == Len(run) - Len(carry)
       IN  /\ counted' = counted + Len(run)
           /\ IF fed + took < Len(output)
              THEN carry' = <<output[fed + took + 1]>> /\ fed' = fed + took + 1
              ELSE fed' = fed + took /\ UNCHANGED carry
           /\ tmp' = Append(tmp, TmpEntry(TreeOf(run)))
           /\ ids' = Append(ids, run[1][2])
    /\ UNCHANGED <<poolVars, sortVars, raw, nodes, builder, current, index>>

\* The trees are copied behind the metadata, which is written twice: first
\* empty, to leave room, and again once the offsets are known.
RECURSIVE OffsetOf(_, _)
OffsetOf(entries, k) == IF k = 1 THEN 0 ELSE OffsetOf(entries, k - 1) + entries[k - 1].size

HashesMatch(entries) == \A k \in DOMAIN entries : entries[k].hash = <<"md5", entries[k].words>>

IndexOf(entries) ==
    LET place(p) == Max({k \in DOMAIN ids : ids[k] = p})
    IN  [metadata |-> [p \in ToSet(ids) |->
                          [tree_offset         |-> OffsetOf(entries, place(p)),
                           tree_size           |-> entries[place(p)].size,
                           tree_size_in_memory |-> entries[place(p)].total_bytes]],
         trees    |-> FlattenSeq([k \in DOMAIN entries |-> entries[k].words])]

\* A builder returns: the index is complete, its locals are gone, and nothing
\* reads the sorted file again.
Built(entries) ==
    /\ HashesMatch(entries)
    /\ index' = IndexOf(entries) /\ tmp' = entries
    /\ step' = "built" /\ builder' = "none" /\ output' = <<>>
    /\ fed' = 0 /\ carry' = <<>> /\ counted' = 0 /\ current' = <<>>
    /\ UNCHANGED <<poolVars, input, rest, data, offsets, ran, n, heap, result, files,
                   merged, blocks, unread, raw, nodes, ids>>

WriteIndex == step = "sorted" /\ builder = "feed" /\ ~FeedHasNext /\ Built(tmp)
---------------------------------------------------------------------------
(* build_orig and build_debug: the tree of the predicate at hand is kept   *)
(* while its triples come, and written when another predicate does.        *)

Flushed == IF current = <<>> THEN tmp ELSE Append(tmp, TmpEntry(current[1]))
Reading == step = "sorted" /\ fed < Len(output)
Triple == output[fed + 1]
NewPredicate == ~(ids # <<>> /\ Triple[2] = ids[Len(ids)])
Started == IF NewPredicate THEN EmptyTree ELSE current[1]
WithTriple == InsertPoint(Started, <<Triple[1], Triple[3]>>)

TakeTriple ==
    /\ fed' = fed + 1
    /\ current' = <<WithTriple>>
    /\ tmp' = IF NewPredicate THEN Flushed ELSE tmp
    /\ ids' = IF NewPredicate THEN Append(ids, Triple[2]) ELSE ids
    /\ UNCHANGED <<poolVars, sortVars, raw, nodes, builder, carry, index>>

OrigTriple == builder = "orig" /\ Reading /\ TakeTriple /\ UNCHANGED counted

OrigFinish == step = "sorted" /\ builder = "orig" /\ ~Reading /\ Built(Flushed)

\* current_counter, which starts again with every predicate.
InsertedSoFar == IF NewPredicate THEN 1 ELSE counted + 1

\* build_debug throws when a predicate comes back or, with slow_check, when the
\* tree does not have as many points as triples were inserted.
DebugRefuses ==
    \/ NewPredicate /\ Triple[2] \in ToSet(ids)
    \/ builder = "slow" /\ Cardinality(WithTriple.points) # InsertedSoFar

DebugTriple ==
    /\ builder \in {"debug", "slow"} /\ Reading /\ ~DebugRefuses
    /\ TakeTriple /\ counted' = InsertedSoFar

DebugThrows ==
    /\ builder \in {"debug", "slow"} /\ Reading /\ DebugRefuses
    /\ step' = "refused"
    /\ UNCHANGED <<poolVars, input, rest, data, offsets, ran, n, heap, result, files, merged,
                   blocks, unread, output, buildVars>>

DebugFinish ==
    step = "sorted" /\ builder \in {"debug", "slow"} /\ ~Reading /\ Built(Flushed)
---------------------------------------------------------------------------
Owner == SortOwner /\ UNCHANGED buildVars

Thread(w) == SortWorker(w) /\ UNCHANGED buildVars

Build ==
    \/ ConvertToBinary \/ CollectNodes \/ TranslateTriples \/ Owner
    \/ \E b \in {"feed", "orig", "debug", "slow"} : StartBuilder(b)
    \/ NextTree \/ WriteIndex
    \/ OrigTriple \/ OrigFinish
    \/ DebugTriple \/ DebugThrows \/ DebugFinish
    \/ \E w \in Worker : Thread(w)
    \/ \E w \in Worker : SortSpurious(w) /\ UNCHANGED buildVars
---------------------------------------------------------------------------
(* Properties. *)

===========================================================================
