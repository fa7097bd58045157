-------------------- MODULE FrequencyReplacementStrategy --------------------
(***************************************************************************)
(* FrequencyReplacementStrategy (core/replacement).  The strategy object   *)
(* is its frequency_map, a function from the keys that were ever hit to    *)
(* the number of times they were.                                          *)
(***************************************************************************)
EXTENDS Integers, Sequences, SequencesExt

FreqInit == << >>

\* cost_function
FreqCost(freq, k) == IF k \in DOMAIN freq THEN freq[k] ELSE 0

\* hit_key
FreqHitKey(freq, k) ==
  [j \in DOMAIN freq \cup {k} |->
     IF j = k THEN FreqCost(freq, k) + 1 ELSE freq[j]]

\* remove_key: the count survives the eviction of the key.
FreqRemoveKey(freq, k) == freq

\* The space held by the first n keys of the priority queue.
FreqAccumulated(queue, space, n) ==
  FoldLeft(LAMBDA acc, k : acc + space[k], 0, SubSeq(queue, 1, n))

(***************************************************************************)
(* should_discard_others_for_key: the traversal stops with true at the     *)
(* first prefix of the queue that frees the required size, and with false  *)
(* at the first key that is hit more often than k.  The size required is   *)
(* read as space_map[key], which is 0 for a key that is not cached.        *)
(***************************************************************************)
FreqShouldDiscardOthers(freq, k, queue, space) ==
  LET required == IF k \in DOMAIN space THEN space[k] ELSE 0
  IN  \E n \in 1..Len(queue) :
        /\ \A j \in 1..n : FreqCost(freq, queue[j]) <= FreqCost(freq, k)
        /\ FreqAccumulated(queue, space, n) >= required

=============================================================================
