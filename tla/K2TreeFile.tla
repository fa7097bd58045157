---------------------------- MODULE K2TreeFile ----------------------------
(***************************************************************************)
(* How a K2TreeMixed is laid out in memory, written to a stream and read   *)
(* back (core/k2tree/K2TreeMixed.cpp, core/k2tree/block_serialization.cpp, *)
(* utils/serialization_util.cpp, memory/MemorySegment.cpp).  The upper     *)
(* part of a tree is made of k2nodes with up to four children; from        *)
(* cut_depth on, each k2node holds a tree of blocks.  What the k2tree      *)
(* library (external) puts in a block is abstracted to its points.         *)
(* The module is pure: no variables, only what the functions compute.      *)
(***************************************************************************)
EXTENDS Naturals, Sequences, FiniteSets, SequencesExt

CONSTANTS TreeDepth,      \* K2TreeConfig::treedepth: coordinates have TreeDepth bits
          CutDepth,       \* K2TreeConfig::cut_depth: levels made of k2nodes
          MaxNodes,       \* K2TreeConfig::max_node_count: points one block holds
          ContainerBits,  \* bits of one container word (32 in the code)
          SizeofK2Node, SizeofBlock   \* bytes of struct k2node and struct block

ASSUME TreeAssumption ==
    /\ TreeDepth \in Nat \ {0}
    /\ CutDepth \in 0..TreeDepth
    /\ MaxNodes \in Nat \ {0}
    /\ ContainerBits \in {4 * k : k \in 1..8}
    /\ SizeofK2Node \in Nat \ {0} /\ SizeofBlock \in Nat \ {0}

---------------------------------------------------------------------------
(* The tree in memory. *)

\* The child, 0..3, that the path of point p takes at the given depth.
Quadrant(p, depth) ==
    LET bit(c) == (c \div 2^(TreeDepth - 1 - depth)) % 2
    IN  2 * bit(p[1]) + bit(p[2])

\* A block keeps MaxNodes points and hands the others to the blocks of its
\* frontier, one per quadrant; preorders names the frontier's places.
RECURSIVE BlockOf(_, _)
BlockOf(points, depth) ==
    LET all  == SetToSortSeq(points, LAMBDA a, b : a[1] < b[1] \/ (a[1] = b[1] /\ a[2] < b[2]))
        kept == IF depth = TreeDepth THEN all ELSE SubSeq(all, 1, MaxNodes)
        over == points \ ToSet(kept)
        below(q) == {p \in over : Quadrant(p, depth) = q}
        child(q) == IF below(q) = {} THEN <<>> ELSE <<BlockOf(below(q), depth + 1)>>
    IN  [nodes_count |-> Len(kept),
         preorders   |-> SetToSortSeq({Quadrant(p, depth) : p \in over}, <),
         container   |-> kept,
         children    |-> child(0) \o child(1) \o child(2) \o child(3)]

\* The k2nodes above the blocks: kids is children[4], <<>> for a null pointer,
\* and block is <<>> above cut_depth.
NoKids == <<<<>>, <<>>, <<>>, <<>>>>

RECURSIVE K2NodeOf(_, _)
K2NodeOf(points, depth) ==
    LET below(q) == {p \in points : Quadrant(p, depth) = q}
        kid(q)   == IF below(q) = {} THEN <<>> ELSE <<K2NodeOf(below(q), depth + 1)>>
    IN  IF depth < CutDepth
        THEN [kids |-> <<kid(0), kid(1), kid(2), kid(3)>>, block |-> <<>>]
        ELSE [kids |-> NoKids, block |-> <<BlockOf(points, depth)>>]

EmptyTree == [points |-> {}, points_count |-> 0]

\* K2TreeMixed::insert_was_inserted counts a point only the first time.
InsertPoint(tree, p) ==
    [points       |-> tree.points \cup {p},
     points_count |-> tree.points_count + (IF p \in tree.points THEN 0 ELSE 1)]

\* The points below a block and below a k2node, as a scan reports them.
RECURSIVE BlockPoints(_)
BlockPoints(b) ==
    ToSet(b.container) \cup UNION {BlockPoints(b.children[i]) : i \in DOMAIN b.children}

RECURSIVE ScanPoints(_)
ScanPoints(node) ==
    IF node.block # <<>> THEN BlockPoints(node.block[1])
    ELSE UNION {ScanPoints(node.kids[q][1]) : q \in {q \in 1..4 : node.kids[q] # <<>>}}
---------------------------------------------------------------------------
(* Words of a stream: a value and the number of bytes it takes. *)

U16(v) == [bytes |-> 2, value |-> v % 2^16]
U32(v) == [bytes |-> 4, value |-> v]
U64(v) == [bytes |-> 8, value |-> v]

\* seekg: the words of a stream from an offset in bytes on.
RECURSIVE SeekTo(_, _)
SeekTo(s, offset) == IF offset = 0 THEN s ELSE SeekTo(Tail(s), offset - Head(s).bytes)
---------------------------------------------------------------------------
(* Writing. *)

\* The children of the k2nodes above cut_depth, in preorder: what
\* serialize_to_vec_with_k2node_ptrs records, one entry per node location.
RECURSIVE Preorder(_, _)
Preorder(node, depth) ==
    IF depth >= CutDepth THEN <<>>
    ELSE LET below(q) == IF node.kids[q] = <<>> THEN <<>>
                         ELSE Preorder(node.kids[q][1], depth + 1)
         IN  <<{q - 1 : q \in {q \in 1..4 : node.kids[q] # <<>>}}>>
             \o below(1) \o below(2) \o below(3) \o below(4)

\* The place of child i of the node at a location: which container word and
\* which of its bits.
ContainerPos(loc) == (4 * loc) \div ContainerBits
BitLocation(loc, i) == ContainerBits - 1 - (((4 * loc) % ContainerBits) + i)

\* A container word is the set of its bits that are 1.
ContainersCount(nodes) ==
    ((nodes * 4) \div ContainerBits) + (IF (nodes * 4) % ContainerBits = 0 THEN 0 ELSE 1)

Containers(node) ==
    LET masks == Preorder(node, 0)
    IN  [c \in 1..ContainersCount(Len(masks)) |->
            UNION {{BitLocation(k - 1, i) : i \in masks[k]} :
                       k \in {k \in DOMAIN masks : ContainerPos(k - 1) = c - 1}}]

\* write_block_to_ostream: a header of three u16, the frontier, the container.
WriteBlock(b) ==
    <<U16(b.nodes_count), U16(Len(b.children)), U16(Len(b.container))>>
    \o [i \in DOMAIN b.preorders |-> U16(b.preorders[i])]
    \o [i \in DOMAIN b.container |-> U32(b.container[i])]

BlockBytes(b) == 2 * 3 + 2 * Len(b.preorders) + 4 * Len(b.container)

\* traverse_tree_write_to_ostream: the blocks of the frontier before their parent.
RECURSIVE Postorder(_)
RECURSIVE Frontier(_)
Frontier(children) ==
    IF children = <<>> THEN <<>> ELSE Postorder(Head(children)) \o Frontier(Tail(children))

Postorder(b) == Frontier(b.children) \o <<b>>

\* The blocks in a list one after the other, and the bytes that makes.
RECURSIVE WriteBlocks(_)
WriteBlocks(list) ==
    IF list = <<>> THEN <<>> ELSE WriteBlock(Head(list)) \o WriteBlocks(Tail(list))

RECURSIVE BlocksBytes(_)
BlocksBytes(list) ==
    IF list = <<>> THEN 0 ELSE BlockBytes(Head(list)) + BlocksBytes(Tail(list))

WriteTree(b) ==
    LET list == Postorder(b)
    IN  <<U16(MaxNodes), U16(TreeDepth), U32(Len(list))>> \o WriteBlocks(list)

TreeBytes(b) == 2 * 2 + 4 + BlocksBytes(Postorder(b))

\* write_blocks_from_k2nodes: the block trees from left to right, and the
\* bytes they take.
RECURSIVE WriteBlocksFromK2Nodes(_, _)
WriteBlocksFromK2Nodes(node, depth) ==
    LET below(q) == IF node.kids[q] = <<>> THEN <<>>
                    ELSE WriteBlocksFromK2Nodes(node.kids[q][1], depth + 1)
    IN  IF depth = CutDepth THEN WriteTree(node.block[1])
        ELSE below(1) \o below(2) \o below(3) \o below(4)

RECURSIVE K2NodesBytes(_, _)
K2NodesBytes(node, depth) ==
    LET below(q) == IF node.kids[q] = <<>> THEN 0
                    ELSE K2NodesBytes(node.kids[q][1], depth + 1)
    IN  IF depth = CutDepth THEN TreeBytes(node.block[1])
        ELSE below(1) + below(2) + below(3) + below(4)

\* K2TreeMixed::write_to_ostream, and the number of bytes it says it wrote.
WriteToOstream(root, points_count) ==
    LET containers == Containers(root)
    IN  <<U64(points_count), U32(TreeDepth), U32(CutDepth), U32(MaxNodes), U32(Len(containers))>>
        \o [c \in DOMAIN containers |-> U32(containers[c])]
        \o WriteBlocksFromK2Nodes(root, 0)

BytesWritten(root) == 4 * 4 + 8 + 4 * Len(Containers(root)) + K2NodesBytes(root, 0)
---------------------------------------------------------------------------
(* Reading. A reader's result carries the position after what it read. *)

\* read_block_from_istream: a block whose frontier is not filled in yet.
ReadBlock(s, pos) ==
    LET nodes_count == s[pos].value
        children    == s[pos + 1].value
        size        == s[pos + 2].value
    IN  [block |-> [nodes_count |-> nodes_count,
                    preorders   |-> [j \in 1..children |-> s[pos + 2 + j].value],
                    container   |-> [j \in 1..size |-> s[pos + 2 + children + j].value],
                    children    |-> [j \in 1..children |-> <<>>]],
         pos   |-> pos + 3 + children + size]

\* Mutant: the children are linked in the order of the stack.
AdjustBlocksReversed(list) ==
    LET last == list[Len(list)]
        n    == Len(last.children)
        from == Len(list) - 1 - n
    IN  Append(SubSeq(list, 1, from),
               [last EXCEPT !.children = [j \in 1..n |-> list[Len(list) - j]]])

\* adjust_blocks: the last block takes the ones before it as its frontier,
\* from the last child to the first, and they leave the list.
AdjustBlocks(list) ==
    LET last == list[Len(list)]
        n    == Len(last.children)
        from == Len(list) - 1 - n
    IN  Append(SubSeq(list, 1, from),
               [last EXCEPT !.children = [j \in 1..n |-> list[from + j]]])

RECURSIVE ReadBlocks(_, _, _, _)
ReadBlocks(s, pos, count, list) ==
    IF count = 0 THEN [block |-> list[Len(list)], pos |-> pos]
    ELSE LET r == ReadBlock(s, pos)
         IN  ReadBlocks(s, r.pos, count - 1, AdjustBlocks(Append(list, r.block)))

\* read_tree_from_istream: max_node_count, treedepth and the count of blocks first.
ReadTree(s, pos) == ReadBlocks(s, pos + 3, s[pos + 2].value, <<>>)

\* deserialize_k2node_tree: the containers say which children a k2node has,
\* and the blocks follow in the stream in the order of the descent.
RECURSIVE DeserializeK2Node(_, _, _, _, _)
RECURSIVE DeserializeKids(_, _, _, _, _, _)

DeserializeK2Node(s, pos, containers, depth, loc) ==
    IF depth < CutDepth
    THEN LET r == DeserializeKids(s, [pos |-> pos, loc |-> loc + 1, kids |-> NoKids],
                                  containers, depth, loc, 0)
         IN  [node |-> [kids |-> r.kids, block |-> <<>>], pos |-> r.pos, loc |-> r.loc]
    ELSE LET r == ReadTree(s, pos)
         IN  [node |-> [kids |-> NoKids, block |-> <<r.block>>], pos |-> r.pos, loc |-> loc]

DeserializeKids(s, sofar, containers, depth, loc, i) ==
    IF i = 4 THEN sofar
    ELSE IF BitLocation(loc, i) \notin containers[ContainerPos(loc) + 1]
         THEN DeserializeKids(s, sofar, containers, depth, loc, i + 1)
         ELSE LET r == DeserializeK2Node(s, sofar.pos, containers, depth + 1, sofar.loc)
              IN  DeserializeKids(s, [pos  |-> r.pos, loc |-> r.loc,
                                      kids |-> [sofar.kids EXCEPT ![i + 1] = <<r.node>>]],
                                  containers, depth, loc, i + 1)

\* K2TreeMixed::read_from_istream.
ReadFromIstream(s) ==
    LET n          == s[5].value
        containers == [c \in 1..n |-> s[5 + c].value]
    IN  [points_count |-> s[1].value,
         root         |-> DeserializeK2Node(s, 6 + n, containers, 0, 0).node]
---------------------------------------------------------------------------
(* The memory a tree takes. *)

\* k2node_measure_tree_size (external): every node, block and array once.
RECURSIVE BlockMeasure(_)
RECURSIVE BlocksMeasure(_)
BlocksMeasure(list) ==
    IF list = <<>> THEN 0 ELSE BlockMeasure(Head(list)) + BlocksMeasure(Tail(list))

BlockMeasure(b) ==
    SizeofBlock + 2 * Len(b.preorders) + 4 * Len(b.container) + BlocksMeasure(b.children)

RECURSIVE MeasuredBytes(_, _)
MeasuredBytes(node, depth) ==
    LET below(q) == IF node.kids[q] = <<>> THEN 0
                    ELSE MeasuredBytes(node.kids[q][1], depth + 1)
    IN  SizeofK2Node + (IF depth < CutDepth
                        THEN below(1) + below(2) + below(3) + below(4)
                        ELSE BlockMeasure(node.block[1]))

\* What the readers ask of a memory segment, in their order: preorders, children
\* and container of each block as it comes from the stream ...
RequiredByBlock(b) ==
    <<2 * Len(b.preorders), SizeofBlock * Len(b.children), 4 * Len(b.container)>>

RECURSIVE RequiredByBlocks(_)
RequiredByBlocks(list) ==
    IF list = <<>> THEN <<>> ELSE RequiredByBlock(Head(list)) \o RequiredByBlocks(Tail(list))

\* Mutant: a struct block is asked for every block, besides the arrays.
RequiredByTreeTwice(b) ==
    RequiredByBlocks(Postorder(b)) \o [k \in DOMAIN Postorder(b) |-> SizeofBlock]

RequiredByTree(b) == RequiredByBlocks(Postorder(b))

\* ... a k2node before its children, and the root block after its tree.
RECURSIVE RequiredByNode(_, _)
RequiredByNode(node, depth) ==
    LET below(q) == IF node.kids[q] = <<>> THEN <<>>
                    ELSE RequiredByNode(node.kids[q][1], depth + 1)
    IN  <<SizeofK2Node>> \o (IF depth < CutDepth
                             THEN below(1) \o below(2) \o below(3) \o below(4)
                             ELSE RequiredByTree(node.block[1]) \o <<SizeofBlock>>)
---------------------------------------------------------------------------
(* Comparing two trees. *)

RECURSIVE SameBlocks(_, _)
SameBlocks(l, r) ==
    /\ Len(l.children) = Len(r.children)
    /\ l.preorders = r.preorders
    /\ \A i \in DOMAIN l.children : SameBlocks(l.children[i], r.children[i])
    /\ l.nodes_count = r.nodes_count
    /\ l.container = r.container

RECURSIVE SameK2Node(_, _, _)
SameK2Node(l, r, depth) ==
    IF depth < CutDepth
    THEN \A q \in 1..4 :
            /\ Len(l.kids[q]) = Len(r.kids[q])
            /\ l.kids[q] # <<>> => SameK2Node(l.kids[q][1], r.kids[q][1], depth + 1)
    ELSE SameBlocks(l.block[1], r.block[1])
===========================================================================
