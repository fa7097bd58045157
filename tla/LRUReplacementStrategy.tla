----------------------- MODULE LRUReplacementStrategy -----------------------
(***************************************************************************)
(* LRUReplacementStrategy (core/replacement).  The strategy object is a    *)
(* record with the fields of the class: the counters low and high and the  *)
(* std::map key_mapping_to_lru_value, here lru_value, a function whose     *)
(* domain is the set of keys that the map holds.  A std::map is ordered by *)
(* key, so keys are natural numbers and std::next is the next larger key.  *)
(***************************************************************************)
EXTENDS Integers, FiniteSetsExt, Functions

\* LRUReplacementStrategy()
LruInit == [low |-> 0, high |-> 0, lru_value |-> << >>]

\* The keys the std::map holds after key k, in its order.
LruKeysAfter(s, k) == {j \in DOMAIN s.lru_value : j > k}

(***************************************************************************)
(* remove_key.  When the key holds the value low, low moves to the value   *)
(* of the next key OF THE MAP, and both counters restart from 0 when there *)
(* is none.                                                                *)
(***************************************************************************)
LruRemoveKey(s, k) ==
  LET after  == LruKeysAfter(s, k)
      lowest == s.lru_value[k] = s.low
  IN  IF k \notin DOMAIN s.lru_value
        THEN s
        ELSE [low  |-> IF ~lowest THEN s.low
                       ELSE IF after = {} THEN 0 ELSE s.lru_value[Min(after)],
              high |-> IF lowest /\ after = {} THEN 0 ELSE s.high,
              lru_value |-> Restrict(s.lru_value, DOMAIN s.lru_value \ {k})]

\* hit_key: the value is taken before remove_key may reset the counters.
LruHitKey(s, k) ==
  LET r == LruRemoveKey([s EXCEPT !.high = @ + 1], k)
  IN  [r EXCEPT !.lru_value =
         [j \in DOMAIN r.lru_value \cup {k} |->
            IF j = k THEN s.high ELSE r.lru_value[j]]]

\* cost_function
LruCost(s, k) ==
  (IF k \in DOMAIN s.lru_value THEN s.lru_value[k] ELSE s.high) - s.low

=============================================================================
