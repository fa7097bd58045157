--------------------------- MODULE MemoryManager ---------------------------
(***************************************************************************)
(* MemoryManager and MemorySegment (memory/): a tree that is read from the *)
(* index lives in one segment, and what the k2tree library allocates later *)
(* for it comes from new.  The library frees everything through the same   *)
(* hooks, which must tell the two apart by the address alone.              *)
(***************************************************************************)
EXTENDS Integers, Sequences, FiniteSetsExt

VARIABLES memory_segments,  \* size of each segment, by its first address
          live,             \* addresses of the objects made by new
          lowest, highest,  \* the addresses used so far
          invalid           \* some address was deleted that new never gave

memoryVars == <<memory_segments, live, lowest, highest, invalid>>

MemoryInit ==
    /\ memory_segments = <<>> /\ live = {}
    /\ lowest = 0 /\ highest = 0 /\ invalid = FALSE

\* malloc (external) gives a block of addresses below or above all others.
Places(size) == {lowest - size, highest}
Occupy(a, size) ==
    /\ lowest' = Min({lowest, a})
    /\ highest' = Max({highest, a + size})

\* new_memory_segment, a segment at address a.
NewMemorySegment(a, size) ==
    [b \in DOMAIN memory_segments \cup {a} |-> IF b = a THEN size ELSE memory_segments[b]]

\* MemorySegment::require_bytes for each of a list of sizes: the addresses that
\* it gives, none for a size of 0.
RECURSIVE Addresses(_, _)
Addresses(a, sizes) ==
    IF sizes = <<>> THEN {}
    ELSE (IF Head(sizes) = 0 THEN {} ELSE {a}) \cup Addresses(a + Head(sizes), Tail(sizes))

RECURSIVE Total(_)
Total(sizes) == IF sizes = <<>> THEN 0 ELSE Head(sizes) + Total(Tail(sizes))

\* Mutant: the map is ordered by <, so that lower_bound is the next segment up.
FindSegmentUp(segments, ptr) ==
    LET above == {b \in DOMAIN segments : b >= ptr}
    IN  above # {} /\ ptr >= Min(above) /\ ptr < Min(above) + segments[Min(above)]

\* find_segment: the map is ordered by >, so that lower_bound is the segment
\* that begins last at or below the address; it has the address or none does.
FindSegment(segments, ptr) ==
    LET below == {b \in DOMAIN segments : b <= ptr}
    IN  below # {} /\ ptr < Max(below) + segments[Max(below)]

\* The free hooks: nothing is done for an address of a segment.
Deleted(segments, addresses) == {x \in addresses : ~FindSegment(segments, x)}

\* free_segment
FreeSegment(segments, a) == [b \in DOMAIN segments \ {a} |-> segments[b]]
=============================================================================
