---------------------------- MODULE IndexReader ----------------------------
(***************************************************************************)
(* The index that IndexBuilder wrote, read by PredicatesIndexCacheMD:      *)
(* threads that fetch a predicate test without a lock whether its tree is  *)
(* there and load it under retrieval_mutex; updates make the trees grow;   *)
(* the cache discards them.  Memory is the one of MemoryManager.           *)
(***************************************************************************)
EXTENDS IndexBuilder, MemoryManager

CONSTANTS Fetcher,    \* threads that fetch predicates
          NewPoints,  \* points that updates insert
          MaxLoads, MaxInserts   \* bounds

VARIABLES loaded,               \* predicates: the trees in memory and the addresses they use
          memory_segments_map,  \* the segment of each predicate
          fetching,             \* the predicate each thread found missing, <<>> if none
          reloads,              \* auxiliary: loads that replaced a tree
          out_of_memory,        \* a segment was too small for its tree
          loads, inserts        \* counters for the bounds

readerVars == <<loaded, memory_segments_map, fetching, reloads, out_of_memory, loads, inserts>>
vars == <<poolVars, sortVars, buildVars, memoryVars, readerVars>>

Init ==
    /\ BuildInit /\ MemoryInit
    /\ loaded = <<>> /\ memory_segments_map = <<>>
    /\ fetching = [t \in Fetcher |-> <<>>]
    /\ reloads = 0 /\ out_of_memory = FALSE /\ loads = 0 /\ inserts = 0

With(f, k, v) == [j \in DOMAIN f \cup {k} |-> IF j = k THEN v ELSE f[j]]
Without(f, k) == [j \in DOMAIN f \ {k} |-> f[j]]
---------------------------------------------------------------------------
\* fetch_k2tree looks for the tree before load_single_predicate takes the mutex.
FetchMissing(t, p) ==
    /\ step = "built" /\ p \in DOMAIN index.metadata \ DOMAIN loaded
    /\ fetching[t] = <<>>
    /\ fetching' = [fetching EXCEPT ![t] = <<p>>]
    /\ UNCHANGED <<poolVars, sortVars, buildVars, memoryVars, loaded, memory_segments_map,
                   reloads, out_of_memory, loads, inserts>>

\* A tree is destroyed: its addresses go through the free hooks.
Destroyed(segments, addresses) ==
    /\ live' = live \ Deleted(segments, addresses)
    /\ invalid' = (invalid \/ ~(Deleted(segments, addresses) \subseteq live))

\* read_from_istream at tree_offset, into a segment of tree_size_in_memory bytes.
TreeAt(p) == ReadFromIstream(SeekTo(index.trees, index.metadata[p].tree_offset))

\* load_single_predicate. When another thread loaded the tree meanwhile, that
\* tree is destroyed and its segment is no longer in the map.
LoadSinglePredicate(t) ==
    /\ fetching[t] # <<>> /\ loads < MaxLoads /\ ~out_of_memory
    /\ LET p        == fetching[t][1]
           tree     == TreeAt(p)
           size     == index.metadata[p].tree_size_in_memory
           required == RequiredByNode(tree.root, 0)
           old      == IF p \in DOMAIN loaded THEN loaded[p].addresses ELSE {}
       IN  \E a \in Places(size) :
              /\ Occupy(a, size)
              /\ memory_segments' = NewMemorySegment(a, size)
              /\ memory_segments_map' = With(memory_segments_map, p, a)
              /\ IF Total(required) > size
                 THEN out_of_memory' = TRUE /\ UNCHANGED <<loaded, live, invalid, reloads>>
                 ELSE /\ Destroyed(memory_segments', old)
                      /\ loaded' = With(loaded, p,
                             [points_count |-> tree.points_count, root |-> tree.root,
                              added |-> {}, addresses |-> Addresses(a, required)])
                      /\ reloads' = reloads + (IF p \in DOMAIN loaded THEN 1 ELSE 0)
                      /\ UNCHANGED out_of_memory
    /\ fetching' = [fetching EXCEPT ![t] = <<>>]
    /\ loads' = loads + 1
    /\ UNCHANGED <<poolVars, sortVars, buildVars, inserts>>

\* An update inserts a point: the library (external) frees an array of the tree
\* that became too small and makes a larger one with new.
InsertInto(p, x) ==
    /\ p \in DOMAIN loaded /\ inserts < MaxInserts
    /\ x \notin ScanPoints(loaded[p].root)
    /\ \E freed \in loaded[p].addresses, a \in Places(1) :
          /\ Occupy(a, 1)
          /\ live' = (live \ Deleted(memory_segments, {freed})) \cup {a}
          /\ invalid' = (invalid \/ ~(Deleted(memory_segments, {freed}) \subseteq live))
          /\ loaded' = [loaded EXCEPT ![p] =
                 [points_count |-> @.points_count + 1,
                  root         |-> K2NodeOf(ScanPoints(@.root) \cup {x}, 0),
                  added        |-> @.added \cup {x},
                  addresses    |-> (@.addresses \ {freed}) \cup {a}]]
    /\ inserts' = inserts + 1
    /\ UNCHANGED <<poolVars, sortVars, buildVars, memory_segments, memory_segments_map,
                   fetching, reloads, out_of_memory, loads>>

\* discard_in_memory_predicate: the tree first, then its segment.
DiscardInMemoryPredicate(p) ==
    /\ p \in DOMAIN loaded
    /\ Destroyed(memory_segments, loaded[p].addresses)
    /\ memory_segments' = FreeSegment(memory_segments, memory_segments_map[p])
    /\ loaded' = Without(loaded, p)
    /\ memory_segments_map' = Without(memory_segments_map, p)
    /\ UNCHANGED <<poolVars, sortVars, buildVars, lowest, highest, fetching, reloads,
                   out_of_memory, loads, inserts>>
---------------------------------------------------------------------------
Next ==
    \/ Build /\ UNCHANGED <<memoryVars, readerVars>>
    \/ \E t \in Fetcher : \/ \E p \in ToSet(ids) : FetchMissing(t, p)
                          \/ LoadSinglePredicate(t)
    \/ \E p \in ToSet(ids) : \/ \E x \in NewPoints : InsertInto(p, x)
                             \/ DiscardInMemoryPredicate(p)

\* The operating system runs the sort's owner and every thread that is not asleep.
Fairness == WF_vars(Owner /\ UNCHANGED <<memoryVars, readerVars>>)
            /\ \A w \in Worker : WF_vars(Thread(w) /\ UNCHANGED <<memoryVars, readerVars>>)

Spec == Init /\ [][Next]_vars /\ Fairness
---------------------------------------------------------------------------
(* Properties. *)

TypeOK ==
    /\ PoolTypeOK
    /\ step \in {"convert", "nodes", "translate", "split", "sort", "add", "notify", "stop", "join",
                 "segments", "part", "level", "merge", "sorted", "built", "refused", "undefined"}
    /\ fed \in 0..Len(output) /\ counted \in 0..Len(output)
    /\ DOMAIN loaded \subseteq DOMAIN memory_segments_map

\* The points that the text file has for a predicate, both as places of nodes.
RealPoints(p) ==
    {<<raw[k][1], raw[k][3]>> : k \in {k \in DOMAIN raw : raw[k][2] = nodes[p + 1]}}
RealOf(points) == {<<nodes[x[1] + 1], nodes[x[2] + 1]>> : x \in points}
PointsOf(p) == {<<input[k][1], input[k][3]>> : k \in {k \in DOMAIN input : input[k][2] = p}}

\* The index has one tree per predicate of the text file, and the tree read from
\* its offset holds exactly the points that the text file has for the predicate,
\* each node at its place in the sequence, counted once each: nothing is lost
\* between the translation, the sort, the feed's carried triple or the trees of
\* the other builders, the temporary file and the offsets.
IndexHoldsInput ==
    /\ step = "built" => /\ {nodes[p + 1] : p \in ToSet(ids)} = {raw[k][2] : k \in DOMAIN raw}
                         /\ Len(ids) = Cardinality(ToSet(ids))
    /\ \A p \in DOMAIN loaded :
          LET points == ScanPoints(loaded[p].root)
          IN  /\ loaded[p].added \subseteq points
              /\ RealOf(points \ loaded[p].added) = RealPoints(p)
              /\ loaded[p].points_count = Cardinality(points)

\* A tree that was written and read back has identical_structure_as the tree
\* that was written, whatever its neighbours in the file.
StructureKept ==
    \A p \in DOMAIN loaded : loaded[p].added = {} =>
        SameK2Node(loaded[p].root, K2NodeOf(PointsOf(p), 0), 0)

\* The segment that load_single_predicate asks for, with the size that was
\* measured when the tree was built, is large enough for the tree that is read.
SegmentsSuffice == ~out_of_memory

\* Whatever is loaded, grown and discarded in whatever order: only objects made
\* by new are deleted, each once; every address that a tree in memory uses is
\* valid; and nothing is left of a discarded tree, except the segment of a tree
\* that two fetches loaded at the same time.
MemoryOwned ==
    /\ ~invalid
    /\ \A p \in DOMAIN loaded : \A x \in loaded[p].addresses :
          x \in live \/ FindSegment(memory_segments, x)
    /\ live \subseteq UNION {loaded[p].addresses : p \in DOMAIN loaded}
    /\ Cardinality(DOMAIN memory_segments) = Cardinality(DOMAIN memory_segments_map) + reloads
=============================================================================
