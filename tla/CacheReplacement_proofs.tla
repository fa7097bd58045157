----------------------- MODULE CacheReplacement_proofs ----------------------
(***************************************************************************)
(* The marks balance, a held predicate stays loaded, the std::set of the   *)
(* cached keys stays in the order of its comparator and the space it is    *)
(* charged stays within the budget, for every set of predicates and        *)
(* streams, both strategies and every budget.                              *)
(***************************************************************************)
EXTENDS CacheReplacement, FiniteSetTheorems, SequenceTheorems, WellFoundedInduction, TLAPS

-----------------------------------------------------------------------------
(* The std::set as a sequence without repetitions.                         *)

NoRepetition(s) == \A i, j \in DOMAIN s : s[i] = s[j] => i = j

\* Erasing the element at an iterator.
LEMMA RemoveAtElements ==
  ASSUME NEW S, NEW s \in Seq(S), NEW i \in DOMAIN s
  PROVE  /\ RemoveAt(s, i) \in Seq(S) /\ Len(RemoveAt(s, i)) = Len(s) - 1
         /\ \A j \in 1..(Len(s)-1) : RemoveAt(s, i)[j] = IF j < i THEN s[j] ELSE s[j+1]
<1> DEFINE r == RemoveAt(s, i)
<1>1. /\ i \in 1..Len(s) /\ Len(s) \in Nat
  BY LenProperties
<1> DEFINE front == SubSeq(s, 1, i-1)
           back == SubSeq(s, i+1, Len(s))
<1>2. front \in Seq(S) /\ Len(front) = i - 1 /\ \A j \in 1..(i-1) : front[j] = s[j]
  BY <1>1, SubSeqProperties
<1>3. back \in Seq(S) /\ Len(back) = Len(s) - i /\ \A j \in 1..(Len(s)-i) : back[j] = s[i+j]
  BY <1>1, SubSeqProperties
<1>3a. r = front \o back
  BY DEF RemoveAt
<1> HIDE DEF front, back, r
<1>4. /\ r \in Seq(S) /\ Len(r) = Len(s) - 1
      /\ \A j \in 1..(Len(s)-1) : r[j] = IF j < i THEN s[j] ELSE s[j+1]
  <2>1. /\ r \in Seq(S) /\ Len(r) = Len(front) + Len(back)
        /\ \A j \in 1..(Len(front) + Len(back)) :
             r[j] = IF j <= Len(front) THEN front[j] ELSE back[j - Len(front)]
    BY <1>2, <1>3, <1>3a, ConcatProperties
  <2>2. Len(r) = Len(s) - 1
    BY <1>1, <1>2, <1>3, <2>1
  <2>3. ASSUME NEW j \in 1..(Len(s)-1)
        PROVE  r[j] = IF j < i THEN s[j] ELSE s[j+1]
    <3>1. r[j] = IF j <= i-1 THEN front[j] ELSE back[j-(i-1)]
      <4>1. Len(front) = i-1 /\ j \in 1..(Len(front) + Len(back))
        BY <1>1, <1>2, <1>3
      <4>2. r[j] = IF j <= Len(front) THEN front[j] ELSE back[j - Len(front)]
        BY <2>1, <4>1
      <4> QED
        BY <4>1, <4>2
    <3>2. CASE j < i
      BY <1>1, <1>2, <3>1, <3>2
    <3>3. CASE j >= i
      <4>1. j-(i-1) \in 1..(Len(s)-i) /\ i + (j-(i-1)) = j+1
        BY <1>1, <3>3
      <4>2. back[j-(i-1)] = s[i + (j-(i-1))]
        BY <1>3, <4>1
      <4> QED
        BY <1>1, <3>1, <3>3, <4>1, <4>2
    <3> QED
      BY <1>1, <3>2, <3>3
  <2> QED
    BY <2>1, <2>2, <2>3
<1> QED
  BY <1>4 DEF r

\* The other elements stay.
LEMMA RemoveAtProperties ==
  ASSUME NEW S, NEW s \in Seq(S), NoRepetition(s), NEW i \in DOMAIN s
  PROVE  /\ RemoveAt(s, i) \in Seq(S)
         /\ NoRepetition(RemoveAt(s, i))
         /\ ToSet(RemoveAt(s, i)) = ToSet(s) \ {s[i]}
<1> DEFINE r == RemoveAt(s, i)
<1>1. /\ i \in 1..Len(s) /\ Len(s) \in Nat
  BY LenProperties
<1>4. /\ r \in Seq(S) /\ Len(r) = Len(s) - 1
      /\ \A j \in 1..(Len(s)-1) : r[j] = IF j < i THEN s[j] ELSE s[j+1]
  BY RemoveAtElements, Zenon
<1> HIDE DEF r
<1>5. DOMAIN r = 1..(Len(s)-1) /\ DOMAIN s = 1..Len(s)
  BY <1>4, LenProperties
<1>6. NoRepetition(r)
  <2> SUFFICES ASSUME NEW j \in DOMAIN r, NEW k \in DOMAIN r, r[j] = r[k] PROVE j = k
    BY DEF NoRepetition
  <2> DEFINE from(x) == IF x < i THEN x ELSE x+1
  <2>1. /\ from(j) \in DOMAIN s /\ from(k) \in DOMAIN s
        /\ r[j] = s[from(j)] /\ r[k] = s[from(k)]
    BY <1>1, <1>4, <1>5
  <2>2. from(j) = from(k)
    BY <2>1 DEF NoRepetition
  <2> QED
    BY <1>1, <1>5, <2>2
<1>7. ToSet(r) \subseteq ToSet(s) \ {s[i]}
  <2> SUFFICES ASSUME NEW j \in DOMAIN r PROVE r[j] \in ToSet(s) \ {s[i]}
    BY DEF ToSet
  <2>1. r[j] = IF j < i THEN s[j] ELSE s[j+1]
    BY <1>4, <1>5
  <2> QED
    BY <1>1, <1>5, <2>1 DEF ToSet, NoRepetition
<1>8. ToSet(s) \ {s[i]} \subseteq ToSet(r)
  <2> SUFFICES ASSUME NEW j \in DOMAIN s, s[j] # s[i] PROVE s[j] \in ToSet(r)
    BY DEF ToSet
  <2>1. CASE j < i
    <3>1. j \in DOMAIN r /\ r[j] = s[j]
      BY <1>1, <1>4, <1>5, <2>1
    <3> QED
      BY <3>1 DEF ToSet
  <2>2. CASE j > i
    <3>1. j-1 \in DOMAIN r /\ r[j-1] = s[j]
      BY <1>1, <1>4, <1>5, <2>2
    <3> QED
      BY <3>1 DEF ToSet
  <2> QED
    BY <1>1, <1>5, <2>1, <2>2
<1> QED
  BY <1>4, <1>6, <1>7, <1>8 DEF r

\* Inserting a new element before the element at a place.
LEMMA InsertAtElements ==
  ASSUME NEW S, NEW s \in Seq(S), NEW e \in S, NEW i \in 1..(Len(s)+1)
  PROVE  /\ InsertAt(s, i, e) \in Seq(S) /\ Len(InsertAt(s, i, e)) = Len(s) + 1
         /\ InsertAt(s, i, e)[i] = e
         /\ \A j \in 1..Len(s) : InsertAt(s, i, e)[IF j < i THEN j ELSE j+1] = s[j]
<1> DEFINE r == InsertAt(s, i, e)
<1>1. Len(s) \in Nat /\ DOMAIN s = 1..Len(s)
  BY LenProperties
<1>2. /\ SubSeq(s, 1, i-1) \in Seq(S) /\ Len(SubSeq(s, 1, i-1)) = i - 1
      /\ \A j \in 1..(i-1) : SubSeq(s, 1, i-1)[j] = s[j]
  BY <1>1, SubSeqProperties
<1>3. /\ SubSeq(s, i, Len(s)) \in Seq(S) /\ Len(SubSeq(s, i, Len(s))) = Len(s) - i + 1
      /\ \A j \in 1..(Len(s)-i+1) : SubSeq(s, i, Len(s))[j] = s[i+j-1]
  BY <1>1, SubSeqProperties
<1> DEFINE t == SubSeq(s, 1, i-1) \o <<e>>
<1>4. /\ t \in Seq(S) /\ Len(t) = i
      /\ \A j \in 1..i : t[j] = IF j < i THEN s[j] ELSE e
  <2> DEFINE front == SubSeq(s, 1, i-1)
             last == <<e>>
  <2>1. last \in Seq(S) /\ Len(last) = 1 /\ last[1] = e
    OBVIOUS
  <2>2. front \in Seq(S) /\ Len(front) = i - 1 /\ \A j \in 1..(i-1) : front[j] = s[j]
    BY <1>2
  <2> HIDE DEF front, last
  <2>3. /\ front \o last \in Seq(S) /\ Len(front \o last) = Len(front) + Len(last)
        /\ \A j \in 1..(Len(front) + Len(last)) :
             (front \o last)[j] = IF j <= Len(front) THEN front[j] ELSE last[j - Len(front)]
    BY <2>1, <2>2, ConcatProperties
  <2>4. /\ front \o last \in Seq(S) /\ Len(front \o last) = i
        /\ \A j \in 1..i : (front \o last)[j] = IF j < i THEN s[j] ELSE e
    BY <1>1, <2>1, <2>2, <2>3
  <2> QED
    BY <2>4 DEF front, last
<1> HIDE DEF t
<1>5. /\ r \in Seq(S) /\ Len(r) = Len(s) + 1
      /\ \A j \in 1..(Len(s)+1) :
           r[j] = IF j < i THEN s[j] ELSE IF j = i THEN e ELSE s[j-1]
  <2>1. r = t \o SubSeq(s, i, Len(s))
    BY DEF InsertAt, t
  <2> QED
    BY <1>1, <1>3, <1>4, <2>1, ConcatProperties
<1> QED
  BY <1>1, <1>5 DEF r

\* The element is new, and the others stay.
LEMMA InsertAtProperties ==
  ASSUME NEW S, NEW s \in Seq(S), NoRepetition(s), NEW e \in S, e \notin ToSet(s),
         NEW i \in 1..(Len(s)+1)
  PROVE  /\ InsertAt(s, i, e) \in Seq(S)
         /\ NoRepetition(InsertAt(s, i, e))
         /\ ToSet(InsertAt(s, i, e)) = ToSet(s) \cup {e}
<1> DEFINE r == InsertAt(s, i, e)
<1>1. Len(s) \in Nat /\ DOMAIN s = 1..Len(s)
  BY LenProperties
<1>4. /\ r \in Seq(S) /\ Len(r) = Len(s) + 1 /\ r[i] = e
      /\ \A j \in 1..Len(s) : r[IF j < i THEN j ELSE j+1] = s[j]
  BY InsertAtElements
<1> HIDE DEF r
<1>5. ASSUME NEW j \in 1..(Len(s)+1)
      PROVE  r[j] = IF j < i THEN s[j] ELSE IF j = i THEN e ELSE s[j-1]
  <2>1. CASE j < i
    BY <1>1, <1>4, <2>1
  <2>2. CASE j > i
    BY <1>1, <1>4, <2>2, j-1 \in 1..Len(s), ~(j-1 < i), j-1+1 = j
  <2> QED
    BY <1>4, <2>1, <2>2
<1>6. DOMAIN r = 1..(Len(s)+1)
  BY <1>4, LenProperties
<1> HIDE DEF r
<1>7. \A j \in 1..Len(s) : s[j] # e
  BY <1>1 DEF ToSet
<1>8. NoRepetition(r)
  <2> SUFFICES ASSUME NEW j \in 1..(Len(s)+1), NEW k \in 1..(Len(s)+1), r[j] = r[k]
               PROVE j = k
    BY <1>6 DEF NoRepetition
  <2> DEFINE from(x) == IF x < i THEN x ELSE x-1
  <2>1. \A x \in 1..(Len(s)+1) :
          IF x = i THEN r[x] = e ELSE from(x) \in DOMAIN s /\ r[x] = s[from(x)] /\ r[x] # e
    BY <1>1, <1>5, <1>7
  <2>2. CASE j = i \/ k = i
    BY <2>1, <2>2
  <2>3. CASE j # i /\ k # i
    <3>1. from(j) = from(k)
      BY <2>1, <2>3 DEF NoRepetition
    <3> QED
      BY <1>1, <2>3, <3>1
  <2> QED
    BY <2>2, <2>3
<1>9. ToSet(r) \subseteq ToSet(s) \cup {e}
  <2> SUFFICES ASSUME NEW j \in 1..(Len(s)+1) PROVE r[j] \in ToSet(s) \cup {e}
    BY <1>6 DEF ToSet
  <2>1. CASE j < i
    BY <1>1, <1>5, <2>1 DEF ToSet
  <2>2. CASE j = i
    BY <1>5, <2>2
  <2>3. CASE j > i
    <3>1. j-1 \in DOMAIN s /\ r[j] = s[j-1]
      BY <1>1, <1>5, <2>3
    <3> QED
      BY <3>1 DEF ToSet
  <2> QED
    BY <1>1, <2>1, <2>2, <2>3
<1>10. ToSet(s) \subseteq ToSet(r)
  <2> SUFFICES ASSUME NEW j \in 1..Len(s) PROVE s[j] \in ToSet(r)
    BY <1>1 DEF ToSet
  <2>1. CASE j < i
    <3>1. j \in DOMAIN r /\ r[j] = s[j]
      BY <1>1, <1>5, <1>6, <2>1
    <3> QED
      BY <3>1 DEF ToSet
  <2>2. CASE j >= i
    <3>1. j+1 \in DOMAIN r /\ r[j+1] = s[j]
      BY <1>1, <1>5, <1>6, <2>2
    <3> QED
      BY <3>1 DEF ToSet
  <2> QED
    BY <1>1, <2>1, <2>2
<1>11. e \in ToSet(r)
  <2>1. i \in DOMAIN r /\ r[i] = e
    BY <1>1, <1>5, <1>6
  <2> QED
    BY <2>1 DEF ToSet
<1> QED
  BY <1>4, <1>8, <1>9, <1>10, <1>11 DEF r

\* std::set::insert, whatever the costs are.
LEMMA SetInsertProperties ==
  ASSUME NEW q \in Seq(Keys), NoRepetition(q), NEW k \in Keys, k \notin ToSet(q), NEW st
  PROVE  /\ SetInsert(q, k, st) \in Seq(Keys)
         /\ NoRepetition(SetInsert(q, k, st))
         /\ ToSet(SetInsert(q, k, st)) = ToSet(q) \cup {k}
<1> DEFINE before == {i \in DOMAIN q : CostLess(st, q[i], k)}
<1>1. Len(q) \in Nat /\ DOMAIN q = 1..Len(q)
  BY LenProperties
<1>2. IsFiniteSet(1..Len(q)) /\ Cardinality(1..Len(q)) = Len(q)
  BY <1>1, FS_Interval
<1>3. before \in SUBSET (1..Len(q))
  BY <1>1
<1> HIDE DEF before
<1>4. Cardinality(before) \in Nat /\ Cardinality(before) <= Len(q)
  BY <1>2, <1>3, FS_Subset, FS_CardinalityType
<1>5. Cardinality(before) + 1 \in 1..(Len(q)+1)
  BY <1>1, <1>4
<1>6. SetInsert(q, k, st) = InsertAt(q, Cardinality(before) + 1, k)
  BY DEF SetInsert, before
<1> QED
  BY <1>5, <1>6, InsertAtProperties

\* std::set::erase of a key that it holds.
LEMMA SetEraseProperties ==
  ASSUME NEW q \in Seq(Keys), NoRepetition(q), NEW k \in ToSet(q)
  PROVE  /\ SetErase(q, k) \in Seq(Keys)
         /\ NoRepetition(SetErase(q, k))
         /\ ToSet(SetErase(q, k)) = ToSet(q) \ {k}
<1> DEFINE place == CHOOSE i \in DOMAIN q : q[i] = k
<1>1. place \in DOMAIN q /\ q[place] = k
  BY DEF ToSet
<1> HIDE DEF place
<1>2. SetErase(q, k) = RemoveAt(q, place)
  BY DEF SetErase, place
<1> QED
  BY <1>1, <1>2, RemoveAtProperties

-----------------------------------------------------------------------------
(* Counting the marks.                                                     *)

\* A stream that lists a key n times adds n marks to those of the others.
LEMMA MarksOfStream ==
  ASSUME NEW c \in Channels, NEW n \in 0..MaxRequested,
         NEW M \in SUBSET (Channels \X (1..MaxRequested)), \A m \in M : m[1] # c
  PROVE  /\ Cardinality(M) \in Nat
         /\ Cardinality(M \cup ({c} \X (1..n))) = Cardinality(M) + n
<1>1. MaxRequested \in Nat /\ n \in Nat
  BY BoundsAssumption
<1>2. IsFiniteSet(1..MaxRequested) /\ IsFiniteSet(1..n) /\ Cardinality(1..n) = n
  BY <1>1, FS_Interval
<1>3. IsFiniteSet(Channels \X (1..MaxRequested))
  BY <1>2, ChannelsAssumption, FS_Product
<1>4. IsFiniteSet(M) /\ Cardinality(M) \in Nat
  BY <1>3, FS_Subset, FS_CardinalityType
<1>5. IsFiniteSet({c}) /\ Cardinality({c}) = 1
  BY FS_Singleton
<1>6. /\ IsFiniteSet({c} \X (1..n))
      /\ Cardinality({c} \X (1..n)) = Cardinality({c}) * Cardinality(1..n)
  BY <1>2, <1>5, FS_Product
<1>7. Cardinality({c} \X (1..n)) = n
  BY <1>1, <1>2, <1>5, <1>6
<1>8. M \cap ({c} \X (1..n)) = {}
  OBVIOUS
<1>9. Cardinality(M \cap ({c} \X (1..n))) = 0
  BY <1>8, FS_EmptySet
<1> DEFINE T == {c} \X (1..n)
<1>10. IsFiniteSet(T) /\ Cardinality(T) = n /\ Cardinality(M \cap T) = 0
  BY <1>6, <1>7, <1>9
<1> HIDE DEF T
<1>11. Cardinality(M \cup T) = Cardinality(M) + Cardinality(T) - Cardinality(M \cap T)
  BY <1>4, <1>10, FS_Union
<1>12. Cardinality(M \cup T) = Cardinality(M) + n
  BY <1>1, <1>4, <1>10, <1>11
<1> QED
  BY <1>4, <1>12 DEF T

-----------------------------------------------------------------------------
(* The inductive invariant.                                                *)

\* The priority set lists a key once, and every key it lists is charged.
QueueInv ==
  /\ NoRepetition(priority_set)
  /\ ToSet(priority_set) \subseteq DOMAIN space_map

\* While hit_key makes room, its key is not cached; what it picked is.
WorkerInv ==
  /\ worker.pc # "idle" => worker.key \in Keys \ ToSet(priority_set)
  /\ worker.pc = "drop" => worker.it \in DOMAIN priority_set

(***************************************************************************)
(* is_using answered no for the key that is picked: a stream that holds it *)
(* marked it afterwards.  This is what HeldStaysLoaded needs at EvictDrop. *)
(***************************************************************************)
PickedInv ==
  \A c \in Channels, k \in Picked : Holds(c, k) => <<c, k>> \in raced

(***************************************************************************)
(* A sync claims a key that is not loaded: a stream that holds it marked   *)
(* it afterwards, or lost it before.  This is what HeldStaysLoaded needs   *)
(* at SyncDiscard.                                                         *)
(***************************************************************************)
ClaimedInv ==
  \A c \in Channels, k \in Claimed : Holds(c, k) => <<c, k>> \in raced

\* A sync that fetches has a predicate to fetch.
SyncInv == sync.pc = "fetch" => sync.key \in Keys

CacheInv ==
  /\ TypeOK
  /\ QueueInv
  /\ WorkerInv
  /\ SyncInv
  /\ ResidentsLoaded
  /\ MarksMatchStreams
  /\ PickedInv
  /\ ClaimedInv
  /\ HeldStaysLoaded

\* A stream that is open has a mark for every key it holds.
LEMMA HoldsMarked ==
  ASSUME TypeOK, MarksMatchStreams, NEW c \in Channels, NEW k \in Keys, in_use[k] = 0
  PROVE  ~Holds(c, k)
<1> SUFFICES ASSUME Holds(c, k) PROVE FALSE
  OBVIOUS
<1>1. MaxRequested \in Nat
  BY BoundsAssumption
<1>2. chan[c] \in [Keys -> 0..MaxRequested] /\ chan[c][k] > 0
  BY DEF TypeOK, Holds
<1>3. <<c, 1>> \in Marks(k)
  BY <1>1, <1>2 DEF Marks, Holds
<1>4. IsFiniteSet(Channels \X (1..MaxRequested))
  <2>1. IsFiniteSet(1..MaxRequested)
    BY <1>1, FS_Interval
  <2> QED
    BY <2>1, ChannelsAssumption, FS_Product
<1>5. IsFiniteSet(Marks(k))
  BY <1>4, FS_Subset DEF Marks
<1>6. Cardinality(Marks(k)) = 0
  BY DEF MarksMatchStreams
<1> QED
  BY <1>3, <1>5, <1>6, FS_EmptySet

LEMMA InitCache == Init => CacheInv
<1> SUFFICES ASSUME Init PROVE CacheInv
  OBVIOUS
<1>1. TypeOK
  BY ChannelsAssumption, KeysAssumption
     DEF Init, TypeOK, WorkerIdle, WorkerType, SyncIdle, SyncType
<1>2. QueueInv /\ ResidentsLoaded
  BY DEF Init, QueueInv, NoRepetition, ToSet, ResidentsLoaded
<1>3. WorkerInv /\ SyncInv /\ PickedInv /\ ClaimedInv /\ HeldStaysLoaded
  BY DEF Init, WorkerInv, WorkerIdle, SyncInv, SyncIdle, PickedInv, Picked, ClaimedInv, Claimed,
         HeldStaysLoaded, Holds
<1>4. MarksMatchStreams
  <2>1. \A k \in Keys : Marks(k) = {} /\ in_use[k] = 0
    BY DEF Init, Marks
  <2> QED
    BY <2>1, FS_EmptySet DEF MarksMatchStreams
<1> QED
  BY <1>1, <1>2, <1>3, <1>4 DEF CacheInv

-----------------------------------------------------------------------------
(* The request threads.                                                    *)

LEMMA LockStep ==
  ASSUME CacheInv, NEW c \in Channels, NEW requested \in Requests,
         LockPredicates(c, requested)
  PROVE  CacheInv'
<1> DEFINE listed == {k \in Keys : requested[k] > 0}
           missed == listed \ loaded
           ready  == [k \in Keys |-> IF k \in loaded THEN requested[k] ELSE 0]
<1>1. MaxRequested \in Nat /\ requested \in [Keys -> 0..MaxRequested]
  BY BoundsAssumption DEF Requests
<1>2. ready \in [Keys -> 0..MaxRequested]
  BY <1>1
<1>3. /\ chan[c] = NoChannel
      /\ chan' = [chan EXCEPT ![c] = ready]
      /\ in_use' = [k \in Keys |-> in_use[k] + ready[k]]
      /\ tasks' = IF missed # {} THEN Append(tasks, missed) ELSE tasks
      /\ raced' = raced \cup ({c} \X (listed \cap loaded \cap (Picked \cup Claimed)))
      /\ UNCHANGED <<cacheVars, loaded, worker, storeVars, treeless>>
  BY DEF LockPredicates, ExtractLoaded, MarkedUsing
<1>4. \A k \in Keys : ready[k] > 0 => k \in listed \cap loaded
  BY <1>1
<1>5. missed \in SUBSET Keys /\ listed \subseteq Keys
  OBVIOUS
<1>6. TypeOK
  BY DEF CacheInv
<1>7. chan' \in [Channels -> [Keys -> 0..MaxRequested] \cup {NoChannel}]
  BY <1>2, <1>3, <1>6 DEF TypeOK
<1>8. chan'[c] = ready /\ \A d \in Channels : d # c => chan'[d] = chan[d]
  BY <1>3, <1>6 DEF TypeOK
<1>9. ready # NoChannel
  BY <1>1, <1>2, ChannelsAssumption
<1> HIDE DEF ready, missed, listed
<1>10. TypeOK'
  <2>1. in_use' \in [Keys -> Nat]
    BY <1>1, <1>2, <1>3, <1>6 DEF TypeOK
  <2>2. tasks' \in Seq(SUBSET Keys)
    BY <1>3, <1>5, <1>6 DEF TypeOK
  <2>3. raced' \subseteq Channels \X Keys
    BY <1>3, <1>5, <1>6 DEF TypeOK
  <2> QED
    BY <1>3, <1>6, <1>7, <2>1, <2>2, <2>3 DEF TypeOK, cacheVars, storeVars
<1>11. QueueInv' /\ WorkerInv' /\ SyncInv' /\ ResidentsLoaded'
  BY <1>3 DEF CacheInv, QueueInv, WorkerInv, SyncInv, ResidentsLoaded, cacheVars, storeVars
<1>12. \A d \in Channels, k \in Keys :
         Holds(d, k)' => (d # c /\ Holds(d, k)) \/ (d = c /\ k \in listed \cap loaded)
  BY <1>4, <1>8 DEF Holds
<1>13. Picked' = Picked /\ Picked \subseteq Keys
  <2>1. Picked' = Picked
    BY <1>3 DEF Picked, cacheVars
  <2>2. worker.pc = "drop" => priority_set[worker.it] \in Keys
    BY <1>6 DEF CacheInv, WorkerInv, TypeOK
  <2> QED
    BY <2>1, <2>2 DEF Picked
<1>14. PickedInv'
  <2> SUFFICES ASSUME NEW d \in Channels, NEW k \in Picked, Holds(d, k)'
               PROVE  <<d, k>> \in raced'
    BY <1>13 DEF PickedInv
  <2>1. k \in Keys
    BY <1>13
  <2> QED
    BY <1>3, <1>12, <2>1 DEF CacheInv, PickedInv
<1>17. ClaimedInv'
  <2>1. Claimed' = Claimed /\ Claimed \subseteq Keys
    BY <1>3, <1>6 DEF Claimed, storeVars, CacheInv, SyncInv, TypeOK, SyncType
  <2> SUFFICES ASSUME NEW d \in Channels, NEW k \in Claimed, Holds(d, k)'
               PROVE  <<d, k>> \in raced'
    BY <2>1 DEF ClaimedInv
  <2>2. k \in Keys
    BY <2>1
  <2> QED
    BY <1>3, <1>12, <2>2 DEF CacheInv, ClaimedInv
<1>15. HeldStaysLoaded'
  BY <1>3, <1>12 DEF CacheInv, HeldStaysLoaded
<1>16. MarksMatchStreams'
  <2> SUFFICES ASSUME NEW k \in Keys PROVE in_use'[k] = Cardinality(Marks(k)')
    BY DEF MarksMatchStreams
  <2>1. Marks(k)' = Marks(k) \cup ({c} \X (1..ready[k]))
    <3>1. ready[k] \in 0..MaxRequested
      BY <1>2
    <3> QED
      BY <1>1, <1>3, <1>8, <1>9, <3>1 DEF Marks
  <2>2. /\ Marks(k) \in SUBSET (Channels \X (1..MaxRequested))
        /\ \A m \in Marks(k) : m[1] # c
    BY <1>3 DEF Marks
  <2>3. Cardinality(Marks(k) \cup ({c} \X (1..ready[k]))) = Cardinality(Marks(k)) + ready[k]
    BY <1>2, <2>2, MarksOfStream
  <2>4. in_use[k] = Cardinality(Marks(k))
    BY DEF CacheInv, MarksMatchStreams
  <2> QED
    BY <1>3, <2>1, <2>3, <2>4
<1> QED
  BY <1>10, <1>11, <1>14, <1>15, <1>16, <1>17 DEF CacheInv

LEMMA DoneStep ==
  ASSUME CacheInv, NEW c \in Channels, DoneWithPredicates(c)
  PROVE  CacheInv'
<1>1. /\ chan[c] # NoChannel
      /\ in_use' = [k \in Keys |-> MarkedReady(in_use[k], chan[c][k])]
      /\ chan' = [chan EXCEPT ![c] = NoChannel]
      /\ raced' = {r \in raced : r[1] # c}
      /\ UNCHANGED <<cacheVars, loaded, tasks, worker, storeVars, treeless>>
  BY DEF DoneWithPredicates
<1>2. TypeOK /\ MaxRequested \in Nat
  BY BoundsAssumption DEF CacheInv
<1>3. chan[c] \in [Keys -> 0..MaxRequested]
  BY <1>1, <1>2 DEF TypeOK
<1>4. chan'[c] = NoChannel /\ \A d \in Channels : d # c => chan'[d] = chan[d]
  BY <1>1, <1>2 DEF TypeOK
<1>5. TypeOK'
  <2>1. in_use' \in [Keys -> Nat]
    BY <1>1, <1>2, <1>3 DEF TypeOK, MarkedReady
  <2>2. chan' \in [Channels -> [Keys -> 0..MaxRequested] \cup {NoChannel}]
    BY <1>1, <1>2 DEF TypeOK
  <2>3. raced' \subseteq Channels \X Keys
    BY <1>1, <1>2 DEF TypeOK
  <2> QED
    BY <1>1, <1>2, <2>1, <2>2, <2>3 DEF TypeOK, cacheVars, storeVars
<1>6. QueueInv' /\ WorkerInv' /\ SyncInv' /\ ResidentsLoaded'
  BY <1>1 DEF CacheInv, QueueInv, WorkerInv, SyncInv, ResidentsLoaded, cacheVars, storeVars
<1>7. \A d \in Channels, k \in Keys : Holds(d, k)' => d # c /\ Holds(d, k)
  BY <1>4 DEF Holds
<1>8. HeldStaysLoaded'
  BY <1>1, <1>7 DEF CacheInv, HeldStaysLoaded
<1>9. Picked' = Picked /\ Picked \subseteq Keys
  <2>1. Picked' = Picked
    BY <1>1 DEF Picked, cacheVars
  <2>2. worker.pc = "drop" => priority_set[worker.it] \in Keys
    BY <1>2 DEF CacheInv, WorkerInv, TypeOK
  <2> QED
    BY <2>1, <2>2 DEF Picked
<1>10. PickedInv'
  <2> SUFFICES ASSUME NEW d \in Channels, NEW k \in Picked, Holds(d, k)'
               PROVE  <<d, k>> \in raced'
    BY <1>9 DEF PickedInv
  <2>1. k \in Keys
    BY <1>9
  <2> QED
    BY <1>1, <1>7, <2>1 DEF CacheInv, PickedInv
<1>12. ClaimedInv'
  <2>1. Claimed' = Claimed /\ Claimed \subseteq Keys
    BY <1>1, <1>2 DEF Claimed, storeVars, CacheInv, SyncInv, TypeOK, SyncType
  <2> SUFFICES ASSUME NEW d \in Channels, NEW k \in Claimed, Holds(d, k)'
               PROVE  <<d, k>> \in raced'
    BY <2>1 DEF ClaimedInv
  <2>2. k \in Keys
    BY <2>1
  <2> QED
    BY <1>1, <1>7, <2>2 DEF CacheInv, ClaimedInv
<1>11. MarksMatchStreams'
  <2> SUFFICES ASSUME NEW k \in Keys PROVE in_use'[k] = Cardinality(Marks(k)')
    BY DEF MarksMatchStreams
  <2>1. chan[c][k] \in 0..MaxRequested
    BY <1>3
  <2>2. Marks(k) = Marks(k)' \cup ({c} \X (1..chan[c][k]))
    BY <1>1, <1>2, <1>4, <2>1 DEF Marks
  <2>3. /\ Marks(k)' \in SUBSET (Channels \X (1..MaxRequested))
        /\ \A m \in Marks(k)' : m[1] # c
    BY <1>4 DEF Marks
  <2> DEFINE rest == Marks(k)'
  <2> HIDE DEF rest
  <2>4. /\ Cardinality(rest) \in Nat
        /\ Cardinality(rest \cup ({c} \X (1..chan[c][k]))) = Cardinality(rest) + chan[c][k]
    BY <2>1, <2>3, MarksOfStream DEF rest
  <2>5. in_use[k] = Cardinality(rest) + chan[c][k]
    BY <2>2, <2>4 DEF CacheInv, MarksMatchStreams, rest
  <2>6. in_use'[k] = MarkedReady(in_use[k], chan[c][k])
    BY <1>1
  <2>7. in_use'[k] = Cardinality(rest)
    BY <1>2, <2>1, <2>4, <2>5, <2>6 DEF MarkedReady
  <2> QED
    BY <2>7 DEF rest
<1> QED
  BY <1>5, <1>6, <1>8, <1>10, <1>11, <1>12 DEF CacheInv

LEMMA FetchStep ==
  ASSUME CacheInv, NEW p \in Keys, FetchK2Tree(p)
  PROVE  CacheInv'
BY DEF CacheInv, FetchK2Tree, cacheVars, storeVars, TypeOK, QueueInv, WorkerInv, SyncInv,
       ResidentsLoaded, MarksMatchStreams, Marks, PickedInv, Picked, ClaimedInv, Claimed, Holds,
       HeldStaysLoaded

LEMMA LogStep ==
  ASSUME CacheInv, NEW p \in Updated, LogUpdate(p)
  PROVE  CacheInv'
BY KeysAssumption
   DEF CacheInv, LogUpdate, cacheVars, TypeOK, QueueInv, WorkerInv, SyncInv, ResidentsLoaded,
       MarksMatchStreams, Marks, PickedInv, Picked, ClaimedInv, Claimed, Holds, HeldStaysLoaded

-----------------------------------------------------------------------------
(* The sync.                                                               *)

\* What no step of a sync changes.
SyncFrame == UNCHANGED <<cacheVars, in_use, tasks, worker, chan, raced>>

\* A step of a sync that discards nothing and claims nothing new.
LEMMA SyncMoves ==
  ASSUME CacheInv, SyncFrame, treeless' = treeless, loaded \subseteq loaded',
         loaded' \subseteq Keys, index' \subseteq Keys, logged' \subseteq Keys,
         sync' \in SyncType, SyncInv', Claimed' \subseteq Claimed
  PROVE  CacheInv'
<1> USE DEF SyncFrame
<1>1. TypeOK'
  BY DEF CacheInv, TypeOK, cacheVars
<1>2. QueueInv' /\ WorkerInv' /\ ResidentsLoaded'
  BY DEF CacheInv, QueueInv, WorkerInv, ResidentsLoaded, cacheVars
<1>3. MarksMatchStreams' /\ HeldStaysLoaded'
  BY DEF CacheInv, MarksMatchStreams, Marks, HeldStaysLoaded, Holds
<1>4. PickedInv' /\ ClaimedInv'
  BY DEF CacheInv, PickedInv, Picked, ClaimedInv, Holds, cacheVars
<1> QED
  BY <1>1, <1>2, <1>3, <1>4 DEF CacheInv

LEMMA SyncBeginStep == CacheInv /\ SyncBegin => CacheInv'
<1> SUFFICES ASSUME CacheInv, SyncBegin PROVE CacheInv'
  OBVIOUS
<1>1. TypeOK
  BY DEF CacheInv
<1>2. sync' \in SyncType /\ SyncInv' /\ Claimed' \subseteq Claimed
  BY <1>1 DEF SyncBegin, TypeOK, SyncType, SyncInv, Claimed
<1> QED
  BY <1>1, <1>2, SyncMoves DEF SyncBegin, SyncFrame, TypeOK

LEMMA SyncSkipStep ==
  ASSUME CacheInv, NEW p \in Keys, SyncSkip(p)
  PROVE  CacheInv'
<1>1. TypeOK
  BY DEF CacheInv
<1>2. sync' \in SyncType /\ SyncInv' /\ Claimed' \subseteq Claimed
  BY <1>1 DEF SyncSkip, TypeOK, SyncType, SyncInv, Claimed
<1> QED
  BY <1>1, <1>2, SyncMoves DEF SyncSkip, SyncFrame, TypeOK

LEMMA SyncFetchStep == CacheInv /\ SyncFetch => CacheInv'
<1> SUFFICES ASSUME CacheInv, SyncFetch PROVE CacheInv'
  OBVIOUS
<1>1. TypeOK /\ sync.key \in Keys
  BY DEF CacheInv, SyncInv, SyncFetch
<1>2. sync' \in SyncType /\ SyncInv' /\ Claimed' \subseteq Claimed
  BY <1>1 DEF SyncFetch, TypeOK, SyncType, SyncInv, Claimed
<1> QED
  BY <1>1, <1>2, SyncMoves DEF SyncFetch, SyncFrame, TypeOK

LEMMA SyncSaveStep == CacheInv /\ SyncSave => CacheInv'
<1> SUFFICES ASSUME CacheInv, SyncSave PROVE CacheInv'
  OBVIOUS
<1>1. TypeOK
  BY DEF CacheInv
<1>2. sync' \in SyncType /\ SyncInv' /\ Claimed' \subseteq Claimed
  BY <1>1 DEF SyncSave, TypeOK, SyncType, SyncInv, Claimed
<1> QED
  BY <1>1, <1>2, SyncMoves DEF SyncSave, SyncFrame, TypeOK

LEMMA SyncEndStep == CacheInv /\ SyncEnd => CacheInv'
<1> SUFFICES ASSUME CacheInv, SyncEnd PROVE CacheInv'
  OBVIOUS
<1>1. TypeOK
  BY DEF CacheInv
<1>2. sync' \in SyncType /\ SyncInv' /\ Claimed' \subseteq Claimed
  BY <1>1 DEF SyncEnd, SyncIdle, TypeOK, SyncType, SyncInv, Claimed
<1> QED
  BY <1>1, <1>2, SyncMoves DEF SyncEnd, SyncFrame, TypeOK

\* A key that is claimed is not loaded: a stream that holds it has lost it already.
LEMMA SyncClaimStep ==
  ASSUME CacheInv, NEW p \in Keys, SyncClaim(p)
  PROVE  CacheInv'
<1>1. TypeOK /\ p \notin loaded
  BY DEF CacheInv, SyncClaim
<1>2. SyncFrame /\ UNCHANGED <<loaded, index, logged, treeless>>
  BY DEF SyncClaim, SyncFrame
<1>3. sync' \in SyncType /\ SyncInv' /\ Claimed' = Claimed \cup {p}
  BY <1>1 DEF SyncClaim, TypeOK, SyncType, SyncInv, Claimed
<1>4. TypeOK'
  BY <1>1, <1>2, <1>3 DEF TypeOK, SyncFrame, cacheVars
<1>5. QueueInv' /\ WorkerInv' /\ ResidentsLoaded'
  BY <1>2 DEF CacheInv, QueueInv, WorkerInv, ResidentsLoaded, SyncFrame, cacheVars
<1>6. MarksMatchStreams' /\ HeldStaysLoaded' /\ PickedInv'
  BY <1>2 DEF CacheInv, MarksMatchStreams, Marks, HeldStaysLoaded, Holds, PickedInv, Picked,
              SyncFrame, cacheVars
<1>7. ClaimedInv'
  BY <1>1, <1>2, <1>3 DEF CacheInv, ClaimedInv, HeldStaysLoaded, Holds, SyncFrame
<1> QED
  BY <1>3, <1>4, <1>5, <1>6, <1>7 DEF CacheInv

LEMMA SyncDiscardStep ==
  ASSUME CacheInv, NEW p \in Keys, SyncDiscard(p)
  PROVE  CacheInv'
<1>1. TypeOK /\ p \in Claimed
  BY DEF CacheInv, SyncDiscard, Claimed
<1>2. /\ SyncFrame /\ UNCHANGED <<index, logged>>
      /\ loaded' = loaded \ {p}
      /\ treeless' = treeless \cup ({p} \cap ToSet(priority_set))
  BY DEF SyncDiscard, SyncFrame
<1>3. sync' \in SyncType /\ SyncInv' /\ Claimed' \subseteq Claimed
  BY <1>1 DEF SyncDiscard, TypeOK, SyncType, SyncInv, Claimed
<1>4. TypeOK'
  BY <1>1, <1>2, <1>3 DEF TypeOK, SyncFrame, cacheVars
<1>5. QueueInv' /\ WorkerInv' /\ ResidentsLoaded'
  <2>1. UNCHANGED <<priority_set, space_map, worker>>
    BY <1>2 DEF SyncFrame, cacheVars
  <2> QED
    BY <1>2, <2>1 DEF CacheInv, QueueInv, WorkerInv, ResidentsLoaded
<1>6. MarksMatchStreams' /\ PickedInv' /\ ClaimedInv'
  BY <1>2, <1>3 DEF CacheInv, MarksMatchStreams, Marks, Holds, PickedInv, Picked, ClaimedInv,
                    SyncFrame, cacheVars
<1>7. HeldStaysLoaded'
  <2> SUFFICES ASSUME NEW c \in Channels, NEW j \in Keys, Holds(c, j)'
               PROVE  (j \in loaded \/ <<c, j>> \in raced)'
    BY DEF HeldStaysLoaded
  <2>1. Holds(c, j) /\ raced' = raced
    BY <1>2 DEF Holds, SyncFrame
  <2>2. CASE j = p
    BY <1>1, <2>1, <2>2 DEF CacheInv, ClaimedInv
  <2>3. CASE j # p
    BY <1>2, <2>1, <2>3 DEF CacheInv, HeldStaysLoaded
  <2> QED
    BY <2>2, <2>3
<1> QED
  BY <1>3, <1>4, <1>5, <1>6, <1>7 DEF CacheInv

-----------------------------------------------------------------------------
(* The replacement worker.                                                 *)

\* Steps of the worker that touch neither the cache nor the trees.
LEMMA WorkerMoves ==
  ASSUME CacheInv, TypeOK', WorkerInv', worker'.pc # "drop",
         UNCHANGED <<priority_set, in_use, loaded, chan, storeVars, raced, treeless>>,
         DOMAIN space_map \subseteq DOMAIN space_map'
  PROVE  CacheInv'
<1>1. QueueInv' /\ ResidentsLoaded' /\ SyncInv'
  BY DEF CacheInv, QueueInv, ResidentsLoaded, SyncInv, storeVars
<1>2. MarksMatchStreams' /\ HeldStaysLoaded'
  BY DEF CacheInv, MarksMatchStreams, Marks, HeldStaysLoaded, Holds
<1>3. PickedInv' /\ ClaimedInv'
  BY DEF CacheInv, PickedInv, Picked, ClaimedInv, Claimed, Holds, storeVars
<1> QED
  BY <1>1, <1>2, <1>3 DEF CacheInv

\* A return from hit_key leaves the worker idle.
LEMMA HitReturnsIdle ==
  ASSUME TypeOK, NEW k, HitReturns(k)
  PROVE  /\ worker'.pc = "idle"
         /\ worker' \in WorkerType
BY DEF TypeOK, HitReturns, WorkerIdle, WorkerType

LEMMA TakeTaskStep == CacheInv /\ TakeTask => CacheInv'
<1> SUFFICES ASSUME CacheInv, TakeTask PROVE CacheInv'
  OBVIOUS
<1>1. TypeOK
  BY DEF CacheInv
<1>2. Head(tasks) \in SUBSET Keys /\ Tail(tasks) \in Seq(SUBSET Keys)
  BY <1>1 DEF TypeOK, TakeTask
<1>3. TypeOK'
  BY <1>1, <1>2 DEF TypeOK, WorkerType, TakeTask, cacheVars, storeVars
<1>4. WorkerInv' /\ worker'.pc # "drop"
  BY <1>1 DEF TypeOK, TakeTask, WorkerInv
<1> QED
  BY <1>3, <1>4, WorkerMoves DEF TakeTask, cacheVars

LEMMA HitTooBigStep ==
  ASSUME CacheInv, NEW k \in Keys, NEW space \in Nat, HitTooBig(k, space)
  PROVE  CacheInv'
<1>1. TypeOK
  BY DEF CacheInv
<1>2. TypeOK'
  BY <1>1, HitReturnsIdle DEF TypeOK, WorkerType, HitTooBig, cacheVars, storeVars
<1>3. WorkerInv' /\ worker'.pc # "drop"
  BY <1>1, HitReturnsIdle DEF HitTooBig, WorkerInv
<1> QED
  BY <1>2, <1>3, WorkerMoves DEF HitTooBig, cacheVars

LEMMA HitCachedStep ==
  ASSUME CacheInv, NEW k \in Keys, NEW space \in Nat, HitCached(k, space)
  PROVE  CacheInv'
<1> DEFINE erased == SetErase(priority_set, k)
<1>1. TypeOK /\ NoRepetition(priority_set) /\ k \in ToSet(priority_set)
  BY DEF CacheInv, QueueInv, HitCached, Resident
<1>2. priority_set \in Seq(Keys)
  BY <1>1 DEF TypeOK
<1>3. erased \in Seq(Keys) /\ NoRepetition(erased) /\ ToSet(erased) = ToSet(priority_set) \ {k}
  BY <1>1, <1>2, SetEraseProperties
<1> HIDE DEF erased
<1>4. priority_set' = SetInsert(erased, k, strategy')
  BY DEF HitCached, erased
<1>5. /\ priority_set' \in Seq(Keys)
      /\ NoRepetition(priority_set')
      /\ ToSet(priority_set') = ToSet(priority_set)
  <2>1. k \notin ToSet(erased)
    BY <1>3
  <2>2. ToSet(erased) \cup {k} = ToSet(priority_set)
    BY <1>1, <1>3
  <2> QED
    BY <1>3, <1>4, <2>1, <2>2, SetInsertProperties
<1>6. HitReturns(k) /\ UNCHANGED <<space_map, size_used, in_use, loaded, tasks, chan, storeVars, raced, treeless>>
  BY DEF HitCached
<1>7. TypeOK' /\ worker'.pc = "idle"
  BY <1>1, <1>5, <1>6, HitReturnsIdle DEF TypeOK, WorkerType, storeVars
<1>8. QueueInv' /\ WorkerInv' /\ SyncInv' /\ ResidentsLoaded'
  BY <1>5, <1>6, <1>7 DEF CacheInv, QueueInv, WorkerInv, SyncInv, ResidentsLoaded, storeVars
<1>9. MarksMatchStreams' /\ HeldStaysLoaded' /\ PickedInv' /\ ClaimedInv'
  BY <1>6, <1>7 DEF CacheInv, MarksMatchStreams, Marks, HeldStaysLoaded, Holds, PickedInv, Picked,
                    ClaimedInv, Claimed, storeVars
<1> QED
  BY <1>7, <1>8, <1>9 DEF CacheInv

\* The entry that the query of the strategy leaves behind only adds a key.
LEMMA SpaceMapQueried ==
  ASSUME TypeOK, NEW k \in Keys
  PROVE  /\ DOMAIN space_map \subseteq DOMAIN SpaceMapAfterQuery(k)
         /\ DOMAIN SpaceMapAfterQuery(k) \subseteq Keys
         /\ \A j \in DOMAIN SpaceMapAfterQuery(k) : SpaceMapAfterQuery(k)[j] \in Int
BY DEF TypeOK, SpaceMapAfterQuery, With

LEMMA HitRefusedStep ==
  ASSUME CacheInv, NEW k \in Keys, NEW space \in Nat, HitRefused(k, space)
  PROVE  CacheInv'
<1>1. TypeOK
  BY DEF CacheInv
<1>2. space_map' = SpaceMapAfterQuery(k) /\ HitReturns(k)
      /\ UNCHANGED <<priority_set, size_used, in_use, loaded, tasks, chan, storeVars, raced, treeless>>
  BY DEF HitRefused
<1>3. TypeOK' /\ worker'.pc = "idle"
  BY <1>1, <1>2, HitReturnsIdle, SpaceMapQueried DEF TypeOK, WorkerType, storeVars
<1>4. WorkerInv'
  BY <1>3 DEF WorkerInv
<1> QED
  BY <1>1, <1>2, <1>3, <1>4, SpaceMapQueried, WorkerMoves

LEMMA HitAdmitStep ==
  ASSUME CacheInv, NEW k \in Keys, NEW space \in Nat, HitAdmit(k, space)
  PROVE  CacheInv'
<1>1. TypeOK /\ space \in Nat
  BY DEF CacheInv
<1>2. /\ worker' = [worker EXCEPT !.pc = "evict", !.key = k, !.space = space, !.it = 1,
                                  !.next_size = space + size_used, !.size_erased = 0]
      /\ space_map' = space_map \/ space_map' = SpaceMapAfterQuery(k)
      /\ UNCHANGED <<strategy, priority_set, size_used, in_use, loaded, tasks, chan, storeVars, raced, treeless>>
      /\ k \notin ToSet(priority_set)
  BY DEF HitAdmit, Resident
<1>3. worker'.pc = "evict" /\ worker'.key = k
      /\ worker' \in WorkerType
  <2>1. space \in Int /\ space + size_used \in Int
    BY <1>1 DEF TypeOK
  <2>2. worker \in WorkerType
    BY <1>1 DEF TypeOK, WorkerType
  <2>3. worker' = [pc |-> "evict", todo |-> worker.todo, key |-> k, space |-> space,
                   it |-> 1, next_size |-> space + size_used, size_erased |-> 0]
    BY <1>2, <2>2 DEF WorkerType
  <2>4. worker.todo \in SUBSET Keys
    BY <2>2 DEF WorkerType
  <2> QED
    BY <2>1, <2>3, <2>4 DEF WorkerType
<1>4. /\ DOMAIN space_map \subseteq DOMAIN space_map'
      /\ DOMAIN space_map' \subseteq Keys
      /\ \A j \in DOMAIN space_map' : space_map'[j] \in Int
  BY <1>1, <1>2, SpaceMapQueried DEF TypeOK
<1>5. TypeOK'
  BY <1>1, <1>2, <1>3, <1>4 DEF TypeOK, WorkerType, storeVars
<1>6. WorkerInv'
  BY <1>2, <1>3 DEF WorkerInv
<1> QED
  BY <1>2, <1>3, <1>4, <1>5, <1>6, WorkerMoves

LEMMA EvictReachedEndStep == CacheInv /\ EvictReachedEnd => CacheInv'
<1> SUFFICES ASSUME CacheInv, EvictReachedEnd PROVE CacheInv'
  OBVIOUS
<1>1. TypeOK
  BY DEF CacheInv
<1>2. /\ size_used' = size_used - worker.size_erased /\ HitReturns(worker.key)
      /\ UNCHANGED <<strategy, priority_set, space_map, in_use, loaded, tasks, chan, storeVars, raced, treeless>>
  BY DEF EvictReachedEnd
<1>3. size_used' \in Int
  BY <1>1, <1>2 DEF TypeOK
<1>4. TypeOK' /\ worker'.pc = "idle"
  BY <1>1, <1>2, <1>3, HitReturnsIdle DEF TypeOK, WorkerType, storeVars
<1>5. WorkerInv'
  BY <1>4 DEF WorkerInv
<1> QED
  BY <1>2, <1>4, <1>5, WorkerMoves

LEMMA EvictSkipStep == CacheInv /\ EvictSkip => CacheInv'
<1> SUFFICES ASSUME CacheInv, EvictSkip PROVE CacheInv'
  OBVIOUS
<1>1. TypeOK
  BY DEF CacheInv
<1>2. TypeOK' /\ worker'.pc = "evict" /\ worker'.key = worker.key
  <2>1. worker \in WorkerType /\ worker.it + 1 \in Nat \ {0}
    BY <1>1 DEF TypeOK, WorkerType
  <2>2. worker' = [worker EXCEPT !.it = worker.it + 1] /\ worker.pc = "evict"
    BY DEF EvictSkip, Evicting
  <2>3. worker' \in WorkerType /\ worker'.pc = "evict" /\ worker'.key = worker.key
    BY <2>1, <2>2 DEF WorkerType
  <2> QED
    BY <1>1, <2>3 DEF TypeOK, EvictSkip, cacheVars, storeVars, WorkerType
<1>3. WorkerInv'
  BY <1>2 DEF CacheInv, WorkerInv, EvictSkip, Evicting, cacheVars
<1> QED
  BY <1>2, <1>3, WorkerMoves DEF EvictSkip, cacheVars

LEMMA EvictPickStep == CacheInv /\ EvictPick => CacheInv'
<1> SUFFICES ASSUME CacheInv, EvictPick PROVE CacheInv'
  OBVIOUS
<1>1. TypeOK /\ MarksMatchStreams
  BY DEF CacheInv
<1>2. /\ worker.pc = "evict" /\ worker.it <= Len(priority_set)
      /\ ~IsUsing(priority_set[worker.it])
      /\ worker' = [worker EXCEPT !.pc = "drop"]
      /\ UNCHANGED <<cacheVars, in_use, loaded, tasks, chan, storeVars, raced, treeless>>
  BY DEF EvictPick, Evicting
<1>3. TypeOK' /\ worker'.pc = "drop" /\ worker'.key = worker.key /\ worker'.it = worker.it
  BY <1>1, <1>2 DEF TypeOK, WorkerType, cacheVars, storeVars
<1>4. worker.it \in DOMAIN priority_set /\ priority_set[worker.it] \in Keys
  BY <1>1, <1>2 DEF TypeOK, WorkerType
<1>5. QueueInv' /\ WorkerInv' /\ SyncInv' /\ ResidentsLoaded'
  BY <1>2, <1>3, <1>4 DEF CacheInv, QueueInv, WorkerInv, SyncInv, ResidentsLoaded, cacheVars,
                          storeVars
<1>6. MarksMatchStreams' /\ HeldStaysLoaded' /\ ClaimedInv'
  BY <1>2 DEF CacheInv, MarksMatchStreams, Marks, HeldStaysLoaded, Holds, ClaimedInv, Claimed,
              storeVars
<1>7. PickedInv'
  <2>1. Picked' = {priority_set[worker.it]}
    BY <1>2, <1>3 DEF Picked, cacheVars
  <2>2. \A c \in Channels : ~Holds(c, priority_set[worker.it])
    <3>1. in_use[priority_set[worker.it]] = 0
      BY <1>1, <1>2, <1>4 DEF TypeOK, IsUsing
    <3> QED
      BY <1>1, <1>4, <3>1, HoldsMarked
  <2> QED
    BY <1>2, <2>1, <2>2 DEF PickedInv, Holds
<1> QED
  BY <1>3, <1>5, <1>6, <1>7 DEF CacheInv

LEMMA EvictDropStep == CacheInv /\ EvictDrop => CacheInv'
<1> SUFFICES ASSUME CacheInv, EvictDrop PROVE CacheInv'
  OBVIOUS
<1> DEFINE k == priority_set[worker.it]
<1>1. TypeOK /\ worker.pc = "drop" /\ NoRepetition(priority_set)
      /\ worker.it \in DOMAIN priority_set
  BY DEF CacheInv, QueueInv, WorkerInv, EvictDrop
<1>2. priority_set \in Seq(Keys) /\ k \in Keys /\ k \in ToSet(priority_set)
  BY <1>1 DEF TypeOK, ToSet
<1>3. k \in DOMAIN space_map /\ space_map[k] \in Int
  BY <1>1, <1>2 DEF CacheInv, QueueInv, TypeOK
<1>4. /\ space_map' = Without(space_map, k)
      /\ priority_set' = RemoveAt(priority_set, worker.it)
      /\ loaded' = loaded \ {k}
      /\ worker' = [worker EXCEPT !.pc = "evict", !.size_erased = @ + space_map[k],
                                  !.next_size = @ - space_map[k]]
      /\ treeless' = treeless \ {k}
      /\ UNCHANGED <<size_used, in_use, tasks, chan, storeVars, raced>>
  BY DEF EvictDrop
<1>5. Picked = {k}
  BY <1>1 DEF Picked
<1> HIDE DEF k
<1>6. /\ priority_set' \in Seq(Keys) /\ NoRepetition(priority_set')
      /\ ToSet(priority_set') = ToSet(priority_set) \ {k}
  BY <1>1, <1>2, <1>4, RemoveAtProperties DEF k
<1>7. TypeOK' /\ worker'.pc = "evict" /\ worker'.key = worker.key
  <2>1. /\ worker'.pc = "evict" /\ worker'.key = worker.key
        /\ worker' \in WorkerType
    <3>1. worker \in WorkerType
      BY <1>1 DEF TypeOK, WorkerType
    <3>2. /\ worker.size_erased + space_map[k] \in Int
          /\ worker.next_size - space_map[k] \in Int
      BY <1>3, <3>1 DEF WorkerType
    <3> QED
      BY <1>4, <3>1, <3>2 DEF WorkerType
  <2>2. /\ DOMAIN space_map' \subseteq Keys
        /\ \A j \in DOMAIN space_map' : space_map'[j] \in Int
    BY <1>1, <1>4 DEF TypeOK, Without
  <2> QED
    BY <1>1, <1>4, <1>6, <2>1, <2>2 DEF TypeOK, WorkerType, storeVars
<1>8. QueueInv'
  BY <1>4, <1>6 DEF CacheInv, QueueInv, Without
<1>9. WorkerInv' /\ SyncInv' /\ ResidentsLoaded'
  BY <1>1, <1>4, <1>6, <1>7 DEF CacheInv, WorkerInv, SyncInv, ResidentsLoaded, storeVars
<1>10. MarksMatchStreams' /\ PickedInv' /\ ClaimedInv'
  BY <1>4, <1>7 DEF CacheInv, MarksMatchStreams, Marks, PickedInv, Picked, ClaimedInv, Claimed,
                    Holds, storeVars
<1>11. HeldStaysLoaded'
  <2> SUFFICES ASSUME NEW c \in Channels, NEW j \in Keys, Holds(c, j)'
               PROVE  (j \in loaded \/ <<c, j>> \in raced)'
    BY DEF HeldStaysLoaded
  <2>1. Holds(c, j)
    BY <1>4 DEF Holds
  <2>2. CASE j = k
    BY <1>4, <1>5, <2>1, <2>2 DEF CacheInv, PickedInv
  <2>3. CASE j # k
    BY <1>4, <2>1, <2>3 DEF CacheInv, HeldStaysLoaded
  <2> QED
    BY <2>2, <2>3
<1> QED
  BY <1>7, <1>8, <1>9, <1>10, <1>11 DEF CacheInv

LEMMA RetrieveStep == CacheInv /\ Retrieve => CacheInv'
<1> SUFFICES ASSUME CacheInv, Retrieve PROVE CacheInv'
  OBVIOUS
<1> DEFINE k == worker.key
<1>1. TypeOK /\ NoRepetition(priority_set) /\ k \in Keys /\ k \notin ToSet(priority_set)
  BY DEF CacheInv, QueueInv, WorkerInv, Retrieve
<1>2. /\ size_used' = worker.next_size
      /\ space_map' = With(space_map, k, worker.space)
      /\ priority_set' = SetInsert(priority_set, k, strategy')
      /\ treeless' = treeless \cup ({k} \ index)
      /\ HitReturns(k)
      /\ UNCHANGED <<in_use, tasks, chan, storeVars, raced>>
  BY DEF Retrieve
<1>8. loaded \subseteq loaded' /\ loaded' \subseteq loaded \cup {k} /\ (k \in index => k \in loaded')
  BY DEF Retrieve, RetrievedTrees
<1> HIDE DEF k
<1>3. /\ priority_set' \in Seq(Keys) /\ NoRepetition(priority_set')
      /\ ToSet(priority_set') = ToSet(priority_set) \cup {k}
  <2>1. priority_set \in Seq(Keys)
    BY <1>1 DEF TypeOK
  <2> QED
    BY <1>1, <1>2, <2>1, SetInsertProperties
<1>4. TypeOK' /\ worker'.pc = "idle"
  <2>1. /\ DOMAIN space_map' = DOMAIN space_map \cup {k}
        /\ \A j \in DOMAIN space_map' : space_map'[j] \in Int
    BY <1>1, <1>2 DEF TypeOK, WorkerType, With
  <2>2. DOMAIN space_map' \subseteq Keys /\ loaded' \subseteq Keys /\ size_used' \in Int
    BY <1>1, <1>2, <1>8, <2>1 DEF TypeOK, WorkerType
  <2>3. treeless' \subseteq Keys
    BY <1>1, <1>2 DEF TypeOK
  <2> QED
    BY <1>1, <1>2, <1>3, <2>1, <2>2, <2>3, HitReturnsIdle DEF TypeOK, WorkerType, storeVars
<1>5. QueueInv'
  BY <1>2, <1>3 DEF CacheInv, QueueInv, With
<1>6. WorkerInv' /\ SyncInv' /\ PickedInv' /\ ClaimedInv'
  BY <1>2, <1>4 DEF CacheInv, WorkerInv, SyncInv, PickedInv, Picked, ClaimedInv, Claimed, Holds,
                    storeVars
<1>7. ResidentsLoaded' /\ HeldStaysLoaded' /\ MarksMatchStreams'
  BY <1>2, <1>3, <1>8 DEF CacheInv, ResidentsLoaded, HeldStaysLoaded, Holds, MarksMatchStreams,
                          Marks
<1> QED
  BY <1>4, <1>5, <1>6, <1>7 DEF CacheInv

-----------------------------------------------------------------------------
(* Every step of every thread preserves the invariant.                     *)

\* A size is a natural number, whether the index has the predicate or not.
LEMMA SizesAreNatural == \A k \in Keys : \A space \in PredicateSizes(k) : space \in Nat
BY SizesAssumption DEF PredicateSizes

LEMMA NextCache == CacheInv /\ [Next]_vars => CacheInv'
<1> SUFFICES ASSUME CacheInv, [Next]_vars PROVE CacheInv'
  OBVIOUS
<1>1. CASE WorkerStep
  BY <1>1, SizesAreNatural, TakeTaskStep, HitTooBigStep, HitCachedStep, HitRefusedStep, HitAdmitStep,
     EvictReachedEndStep, EvictSkipStep, EvictPickStep, EvictDropStep, RetrieveStep
     DEF WorkerStep, EvictStep
<1>2. CASE RequestStep
  BY <1>2, LockStep, DoneStep, FetchStep, LogStep DEF RequestStep
<1>3. CASE SyncStep
  BY <1>3, SyncBeginStep, SyncSkipStep, SyncClaimStep, SyncDiscardStep, SyncFetchStep,
     SyncSaveStep, SyncEndStep DEF SyncStep
<1>4. CASE UNCHANGED vars
  BY <1>4 DEF vars, CacheInv, TypeOK, QueueInv, WorkerInv, SyncInv, ResidentsLoaded,
              MarksMatchStreams, Marks, PickedInv, Picked, ClaimedInv, Claimed, Holds,
              HeldStaysLoaded
<1> QED
  BY <1>1, <1>2, <1>3, <1>4 DEF Next

LEMMA CacheInvariant == Spec => []CacheInv
<1>1. Init => CacheInv
  BY InitCache
<1>2. CacheInv /\ [Next]_vars => CacheInv'
  BY NextCache
<1> QED
  BY <1>1, <1>2, PTL DEF Spec

(***************************************************************************)
(* mark_using and mark_ready balance: a predicate is marked exactly as     *)
(* often as open streams list it, whatever the order in which the streams  *)
(* lock and release and wherever the worker is in hit_key                  *)
(* (CacheReplacement.cpp:99-118).                                          *)
(***************************************************************************)
THEOREM MarksBalance == Spec => []MarksMatchStreams
<1>1. CacheInv => MarksMatchStreams
  BY DEF CacheInv
<1> QED
  BY <1>1, CacheInvariant, PTL

(***************************************************************************)
(* A predicate that a stream holds leaves memory under it only in two      *)
(* windows: it was marked between is_using and its eviction, or while a    *)
(* sync that had found it not loaded was going to discard it               *)
(* (CacheReplacement.cpp:70-88, ServerTask.cpp:155-162,                    *)
(* PredicatesIndexCacheMD.cpp:311, 330).                                   *)
(***************************************************************************)
THEOREM HeldPredicatesStay == Spec => []HeldStaysLoaded
<1>1. CacheInv => HeldStaysLoaded
  BY DEF CacheInv
<1> QED
  BY <1>1, CacheInvariant, PTL

(***************************************************************************)
(* A cached predicate has its tree in memory, so the hit that loads        *)
(* nothing is right, but for a predicate that the index lacked when it was *)
(* admitted and one whose tree a sync discarded (CacheReplacement.cpp:     *)
(* 32-37, 92-96, PredicatesIndexCacheMD.cpp:330).                          *)
(***************************************************************************)
THEOREM CachedAreLoaded == Spec => []ResidentsLoaded
<1>1. CacheInv => ResidentsLoaded
  BY DEF CacheInv
<1> QED
  BY <1>1, CacheInvariant, PTL

(***************************************************************************)
(* The state keeps its types: in particular no count of in_use is ever     *)
(* taken below 0 (CacheReplacement.cpp:109-118).                           *)
(***************************************************************************)
THEOREM TypeCorrect == Spec => []TypeOK
<1>1. CacheInv => TypeOK
  BY DEF CacheInv
<1> QED
  BY <1>1, CacheInvariant, PTL

-----------------------------------------------------------------------------
(* Extreme elements.                                                       *)

\* A set of natural numbers that is not empty has a least element.
LEMMA LeastOf ==
  ASSUME NEW T, T \subseteq Nat, T # {}
  PROVE  \E x \in T : \A y \in T : x <= y
<1> DEFINE R == OpToRel(<, Nat)
<1>1. \E x \in T : \A y \in T : <<y, x>> \notin R
  BY NatLessThanWellFounded, WFMin, Zenon
<1>2. \A x, y \in Nat : y < x => <<y, x>> \in R
  BY DEF OpToRel
<1> HIDE DEF R
<1>3. PICK x \in T : \A y \in T : <<y, x>> \notin R
  BY <1>1
<1>4. ASSUME NEW y \in T PROVE x <= y
  <2>1. x \in Nat /\ y \in Nat
    OBVIOUS
  <2>2. ~ (y < x)
    BY <1>2, <1>3, <2>1, Zenon
  <2> QED
    BY <2>1, <2>2
<1> QED
  BY <1>4

\* A set of places that holds all the places before one of its own is a prefix.
LEMMA PrefixCardinality ==
  ASSUME NEW n \in Nat, NEW P \in SUBSET (1..n),
         \A i \in P : \A j \in 1..n : j < i => j \in P
  PROVE  Cardinality(P) \in 0..n /\ P = 1..Cardinality(P)
<1> DEFINE T == {i \in Nat : i + 1 \notin P}
<1>1. n \in T
  OBVIOUS
<1>2. PICK m \in T : \A i \in T : m <= i
  BY <1>1, LeastOf
<1>3. m \in Nat /\ m <= n
  BY <1>1, <1>2
<1>4. ASSUME NEW i \in 1..m PROVE i \in P
  <2>1. i - 1 \in Nat /\ ~ (m <= i - 1)
    BY <1>3
  <2>2. i - 1 \notin T
    BY <1>2, <2>1
  <2> QED
    BY <2>1, <2>2
<1>5. ASSUME NEW i \in P PROVE i \in 1..m
  <2>1. i <= m
    <3> SUFFICES ASSUME m + 1 <= i PROVE FALSE
      BY <1>3
    <3>1. m + 1 \in P
      BY <1>3, m + 1 \in 1..n
    <3> QED
      BY <1>2, <3>1
  <2> QED
    BY <1>3, <2>1
<1>6. P = 1..m
  BY <1>4, <1>5
<1>7. Cardinality(1..m) = m
  BY <1>3, FS_Interval
<1> QED
  BY <1>3, <1>6, <1>7
-----------------------------------------------------------------------------
(* The strategies.                                                         *)

\* The cost of a key, as StrategyWrapper reads it.
Cost(s, k) == IF Strategy = "LRU" THEN LruCost(s, k) ELSE FreqCost(s, k)

\* The strategy object keeps numbers.
StrategyOK(s) ==
  IF Strategy = "LRU"
    THEN /\ s \in [low : Int, high : Int, lru_value : {s.lru_value}]
         /\ DOMAIN s.lru_value \subseteq Keys
         /\ \A k \in DOMAIN s.lru_value : s.lru_value[k] \in Int
    ELSE \A k \in DOMAIN s : s[k] \in Int

\* The strategy has seen a key: with LRU a key that it has not seen costs as
\* much as the counter, which moves.
Known(s, k) == Strategy = "LRU" => k \in DOMAIN s.lru_value

LEMMA CostIsNumber ==
  ASSUME NEW s, StrategyOK(s), NEW k
  PROVE  Cost(s, k) \in Int
BY DEF StrategyOK, Cost, LruCost, FreqCost

\* The comparator is a strict total order on keys.
LEMMA CostLessOrder ==
  ASSUME NEW s, StrategyOK(s), NEW a \in Keys, NEW b \in Keys, NEW c \in Keys
  PROVE  /\ CostLess(s, a, b) /\ CostLess(s, b, c) => CostLess(s, a, c)
         /\ a # b => CostLess(s, a, b) \/ CostLess(s, b, a)
<1>1. Cost(s, a) \in Int /\ Cost(s, b) \in Int /\ Cost(s, c) \in Int
  BY CostIsNumber
<1>2. a \in Nat /\ b \in Nat /\ c \in Nat
  BY KeysAssumption
<1>3. \A l, r : CostLess(s, l, r) <=> Cost(s, l) < Cost(s, r) \/ (Cost(s, l) = Cost(s, r) /\ l < r)
  BY DEF CostLess, Cost
<1> QED
  BY <1>1, <1>2, <1>3

\* remove_key: low may move, and the other keys keep their values.
LEMMA LruRemoves ==
  ASSUME Strategy = "LRU", NEW s, StrategyOK(s), NEW k \in Keys
  PROVE  LET r == LruRemoveKey(s, k)
         IN  /\ StrategyOK(r)
             /\ DOMAIN r.lru_value = DOMAIN s.lru_value \ {k}
             /\ \A j \in DOMAIN r.lru_value : r.lru_value[j] = s.lru_value[j]
<1> DEFINE r == LruRemoveKey(s, k)
           after == LruKeysAfter(s, k)
<1>1. CASE k \notin DOMAIN s.lru_value
  BY <1>1 DEF LruRemoveKey, StrategyOK
<1>2. CASE k \in DOMAIN s.lru_value
  <2>1. after # {} => Min(after) \in DOMAIN s.lru_value
    <3>1. after \subseteq Nat
      BY KeysAssumption DEF LruKeysAfter, StrategyOK
    <3>2. after # {} => Min(after) \in after
      BY <3>1, LeastOf DEF Min
    <3> QED
      BY <3>2 DEF LruKeysAfter
  <2> DEFINE m == Min(after)
             low == IF s.lru_value[k] # s.low THEN s.low ELSE IF after = {} THEN 0 ELSE s.lru_value[m]
             high == IF s.lru_value[k] = s.low /\ after = {} THEN 0 ELSE s.high
             f == [j \in DOMAIN s.lru_value \ {k} |-> s.lru_value[j]]
  <2>2. r = [low |-> low, high |-> high, lru_value |-> f]
    BY <1>2 DEF LruRemoveKey, Restrict
  <2>3. low \in Int /\ high \in Int
    BY <2>1 DEF StrategyOK
  <2>4. DOMAIN f = DOMAIN s.lru_value \ {k} /\ \A j \in DOMAIN f : f[j] = s.lru_value[j]
    OBVIOUS
  <2> HIDE DEF low, high, f, m, after, r
  <2>5. r.low \in Int /\ r.high \in Int /\ r.lru_value = f /\ r = [low |-> r.low, high |-> r.high, lru_value |-> r.lru_value]
    BY <2>2, <2>3
  <2>6. StrategyOK(r)
    BY <2>4, <2>5 DEF StrategyOK
  <2> QED
    BY <2>4, <2>5, <2>6 DEF r
<1> QED
  BY <1>1, <1>2

\* hit_key and remove_key of the strategy leave the order of the other keys:
\* the costs of all of them move by the same amount.
SameOrder(s, r, k) ==
  \A a, b \in Keys \ {k} : Known(s, a) /\ Known(s, b) =>
    /\ Known(r, a) /\ Known(r, b)
    /\ CostLess(r, a, b) <=> CostLess(s, a, b)

\* Costs that differ by the same amount order the keys the same way.
LEMMA ShiftedOrder ==
  ASSUME NEW s, StrategyOK(s), NEW r, StrategyOK(r), NEW k, NEW d \in Int,
         \A j \in Keys \ {k} : Known(s, j) => Known(r, j) /\ Cost(r, j) = Cost(s, j) + d
  PROVE  SameOrder(s, r, k)
<1> SUFFICES ASSUME NEW a \in Keys \ {k}, NEW b \in Keys \ {k}, Known(s, a), Known(s, b)
             PROVE  Known(r, a) /\ Known(r, b) /\ (CostLess(r, a, b) <=> CostLess(s, a, b))
  BY DEF SameOrder
<1>1. Cost(s, a) \in Int /\ Cost(s, b) \in Int
  BY CostIsNumber
<1>2. Cost(r, a) = Cost(s, a) + d /\ Cost(r, b) = Cost(s, b) + d /\ Known(r, a) /\ Known(r, b)
  OBVIOUS
<1>3. \A t : CostLess(t, a, b) <=> Cost(t, a) < Cost(t, b) \/ (Cost(t, a) = Cost(t, b) /\ a < b)
  BY DEF CostLess, Cost
<1>4. Cost(r, a) < Cost(r, b) <=> Cost(s, a) < Cost(s, b)
  BY <1>1, <1>2
<1>5. Cost(r, a) = Cost(r, b) <=> Cost(s, a) = Cost(s, b)
  <2>1. \A x, y \in Int : (x + d = y + d) <=> (x = y)
    OBVIOUS
  <2> QED
    BY <1>1, <1>2, <2>1, ZenonT(60)
<1> QED
  BY <1>2, <1>3, <1>4, <1>5

\* remove_key, when a key is evicted.
LEMMA StrategyRemoves ==
  ASSUME NEW s, StrategyOK(s), NEW k \in Keys
  PROVE  StrategyOK(StrategyRemove(s, k)) /\ SameOrder(s, StrategyRemove(s, k), k)
<1> DEFINE r == StrategyRemove(s, k)
<1>1. CASE Strategy = "LRU"
  <2>1. r = LruRemoveKey(s, k)
    BY <1>1 DEF StrategyRemove
  <2> HIDE DEF r
  <2>2. /\ StrategyOK(r) /\ DOMAIN r.lru_value = DOMAIN s.lru_value \ {k}
        /\ \A j \in DOMAIN r.lru_value : r.lru_value[j] = s.lru_value[j]
    BY <1>1, <2>1, LruRemoves
  <2>3. s.low \in Int /\ r.low \in Int /\ s.low - r.low \in Int
    BY <1>1, <2>2 DEF StrategyOK
  <2>4. ASSUME NEW j \in Keys \ {k}, Known(s, j)
        PROVE  Known(r, j) /\ Cost(r, j) = Cost(s, j) + (s.low - r.low)
    <3>1. j \in DOMAIN s.lru_value /\ s.lru_value[j] \in Int
      BY <1>1, <2>4 DEF Known, StrategyOK
    <3> QED
      BY <1>1, <2>2, <2>3, <2>4, <3>1 DEF Known, Cost, LruCost
  <2>5. SameOrder(s, r, k)
    BY <2>2, <2>3, <2>4, ShiftedOrder
  <2> QED
    BY <2>2, <2>5 DEF r
<1>2. CASE Strategy # "LRU"
  BY <1>2 DEF StrategyRemove, FreqRemoveKey, SameOrder, Known
<1> QED
  BY <1>1, <1>2

\* hit_key, when a key is used.
LEMMA StrategyHits ==
  ASSUME NEW s, StrategyOK(s), NEW k \in Keys
  PROVE  /\ StrategyOK(StrategyHit(s, k)) /\ Known(StrategyHit(s, k), k)
         /\ SameOrder(s, StrategyHit(s, k), k)
<1> DEFINE r == StrategyHit(s, k)
<1>1. CASE Strategy = "LRU"
  <2> DEFINE t == [s EXCEPT !.high = s.high + 1]
             u == LruRemoveKey(t, k)
             f == [j \in DOMAIN u.lru_value \cup {k} |-> IF j = k THEN s.high ELSE u.lru_value[j]]
  <2>1. r = [u EXCEPT !.lru_value = f]
    BY <1>1 DEF StrategyHit, LruHitKey
  <2>2. StrategyOK(t) /\ t.lru_value = s.lru_value /\ s.high \in Int /\ s.low \in Int
    BY <1>1 DEF StrategyOK
  <2> HIDE DEF t, r
  <2>3. /\ StrategyOK(u) /\ DOMAIN u.lru_value = DOMAIN s.lru_value \ {k}
        /\ \A j \in DOMAIN u.lru_value : u.lru_value[j] = s.lru_value[j]
    BY <1>1, <2>2, LruRemoves
  <2> HIDE DEF u
  <2>4. /\ DOMAIN f = DOMAIN s.lru_value \cup {k} /\ f[k] = s.high
        /\ \A j \in DOMAIN f : j # k => f[j] = s.lru_value[j]
    BY <2>3
  <2> HIDE DEF f
  <2>5. r.low = u.low /\ r.high = u.high /\ r.lru_value = f /\ u.low \in Int /\ u.high \in Int
        /\ r = [low |-> r.low, high |-> r.high, lru_value |-> r.lru_value]
    BY <1>1, <2>1, <2>3 DEF StrategyOK
  <2>6. DOMAIN f \subseteq Keys /\ \A j \in DOMAIN f : f[j] \in Int
    BY <1>1, <2>2, <2>4 DEF StrategyOK
  <2>7. StrategyOK(r) /\ Known(r, k)
    BY <1>1, <2>4, <2>5, <2>6 DEF StrategyOK, Known
  <2>8. s.low - r.low \in Int /\ r.low \in Int
    BY <2>2, <2>5
  <2>9. ASSUME NEW j \in Keys \ {k}, Known(s, j)
        PROVE  Known(r, j) /\ Cost(r, j) = Cost(s, j) + (s.low - r.low)
    <3>1. j \in DOMAIN s.lru_value /\ s.lru_value[j] \in Int
      BY <1>1, <2>9 DEF Known, StrategyOK
    <3>2. j \in DOMAIN r.lru_value /\ r.lru_value[j] = s.lru_value[j]
      BY <2>4, <2>5, <2>9, <3>1
    <3> QED
      BY <1>1, <2>2, <2>8, <3>1, <3>2 DEF Known, Cost, LruCost
  <2>10. SameOrder(s, r, k)
    BY <2>7, <2>8, <2>9, ShiftedOrder
  <2> QED
    BY <2>7, <2>10 DEF r
<1>2. CASE Strategy # "LRU"
  <2>1. r = [j \in DOMAIN s \cup {k} |-> IF j = k THEN FreqCost(s, k) + 1 ELSE s[j]]
    BY <1>2 DEF StrategyHit, FreqHitKey
  <2>2. FreqCost(s, k) \in Int
    BY <1>2 DEF StrategyOK, FreqCost
  <2> HIDE DEF r
  <2>3. StrategyOK(r) /\ Known(r, k)
    BY <1>2, <2>1, <2>2 DEF StrategyOK, Known
  <2>4. \A j \in Keys \ {k} : Known(r, j) /\ Cost(r, j) = Cost(s, j)
    BY <1>2, <2>1 DEF Cost, FreqCost, Known
  <2>5. \A j \in Keys \ {k} : Cost(s, j) = Cost(s, j) + 0
    BY CostIsNumber
  <2>6. SameOrder(s, r, k)
    BY <2>3, <2>4, <2>5, ShiftedOrder
  <2> QED
    BY <2>3, <2>6 DEF r
<1> QED
  BY <1>1, <1>2
-----------------------------------------------------------------------------
(* The std::set.                                                           *)

\* The keys of a queue are in the order of the comparator, and known to it.
Ordered(q, s) ==
  /\ \A i, j \in DOMAIN q : i < j => CostLess(s, q[i], q[j])
  /\ \A i \in DOMAIN q : Known(s, q[i])

\* An order that changes elsewhere only.
LEMMA OrderedElsewhere ==
  ASSUME NEW q \in Seq(Keys), NEW k, k \notin ToSet(q), NEW s, NEW r, SameOrder(s, r, k), Ordered(q, s)
  PROVE  Ordered(q, r)
<1>1. \A i \in DOMAIN q : q[i] \in Keys \ {k}
  BY DEF ToSet
<1> QED
  BY <1>1 DEF Ordered, SameOrder

\* Erasing keeps the order.
LEMMA OrderedRemoveAt ==
  ASSUME NEW q \in Seq(Keys), NEW s, Ordered(q, s), NEW i \in DOMAIN q
  PROVE  Ordered(RemoveAt(q, i), s)
<1> DEFINE r == RemoveAt(q, i)
<1>1. /\ r \in Seq(Keys) /\ Len(r) = Len(q) - 1
      /\ \A j \in 1..(Len(q)-1) : r[j] = IF j < i THEN q[j] ELSE q[j+1]
  BY RemoveAtElements, Zenon
<1> HIDE DEF r
<1>2. Len(q) \in Nat /\ DOMAIN q = 1..Len(q) /\ DOMAIN r = 1..(Len(q)-1) /\ i \in 1..Len(q)
  BY <1>1, LenProperties
<1> DEFINE from(x) == IF x < i THEN x ELSE x+1
<1>3. \A x \in DOMAIN r : from(x) \in DOMAIN q /\ r[x] = q[from(x)]
  BY <1>1, <1>2
<1>4. \A x, y \in DOMAIN r : x < y => from(x) < from(y)
  BY <1>2
<1> HIDE DEF from
<1> QED
  BY <1>3, <1>4 DEF Ordered, r

\* std::set::insert puts the key at its place.
LEMMA OrderedSetInsert ==
  ASSUME NEW q \in Seq(Keys), NEW s, StrategyOK(s), Ordered(q, s), NEW k \in Keys, k \notin ToSet(q), Known(s, k)
  PROVE  Ordered(SetInsert(q, k, s), s)
<1> DEFINE before == {i \in DOMAIN q : CostLess(s, q[i], k)}
           n == Cardinality(before)
           r == SetInsert(q, k, s)
<1>1. Len(q) \in Nat /\ DOMAIN q = 1..Len(q) /\ \A i \in 1..Len(q) : q[i] \in Keys /\ q[i] # k
  BY LenProperties DEF ToSet
<1>2. n \in 0..Len(q) /\ before = 1..n
  <2>1. before \in SUBSET (1..Len(q))
    BY <1>1
  <2>2. ASSUME NEW i \in before, NEW j \in 1..Len(q), j < i PROVE j \in before
    <3>1. CostLess(s, q[j], q[i]) /\ CostLess(s, q[i], k)
      BY <1>1, <2>2 DEF Ordered
    <3> QED
      BY <1>1, <3>1, CostLessOrder
  <2> HIDE DEF before
  <2> QED
    BY <1>1, <2>1, <2>2, PrefixCardinality
<1>3. r = InsertAt(q, n + 1, k)
  BY DEF SetInsert
<1>4. \A i \in 1..Len(q) : IF i <= n THEN CostLess(s, q[i], k) ELSE CostLess(s, k, q[i])
  <2> SUFFICES ASSUME NEW i \in 1..Len(q)
               PROVE  IF i <= n THEN CostLess(s, q[i], k) ELSE CostLess(s, k, q[i])
    OBVIOUS
  <2>1. i \in before <=> i <= n
    BY <1>1, <1>2
  <2>2. i \in before <=> CostLess(s, q[i], k)
    BY <1>1
  <2>3. CostLess(s, q[i], k) \/ CostLess(s, k, q[i])
    BY <1>1, CostLessOrder
  <2> QED
    BY <2>1, <2>2, <2>3
<1> HIDE DEF before, n, r
<1>5. /\ r \in Seq(Keys) /\ Len(r) = Len(q) + 1 /\ r[n+1] = k
      /\ \A j \in 1..Len(q) : r[IF j < n+1 THEN j ELSE j+1] = q[j]
  <2>1. n + 1 \in 1..(Len(q)+1)
    BY <1>1, <1>2
  <2> QED
    BY <1>3, <2>1, InsertAtElements
<1>6. DOMAIN r = 1..(Len(q)+1)
  BY <1>5, LenProperties
<1> DEFINE from(x) == IF x < n+1 THEN x ELSE x-1
<1>7. ASSUME NEW x \in 1..(Len(q)+1), x # n+1
      PROVE  from(x) \in 1..Len(q) /\ r[x] = q[from(x)] /\ (from(x) <= n <=> x < n+1)
  <2>1. from(x) \in 1..Len(q) /\ (from(x) <= n <=> x < n+1)
    BY <1>1, <1>2, <1>7
  <2>2. (IF from(x) < n+1 THEN from(x) ELSE from(x)+1) = x
    BY <1>1, <1>2, <1>7
  <2> HIDE DEF from
  <2> QED
    BY <1>5, <2>1, <2>2
<1>8. \A x, y \in 1..(Len(q)+1) : x < y /\ x # n+1 /\ y # n+1 => from(x) < from(y)
  BY <1>1, <1>2
<1> HIDE DEF from
<1>9. ASSUME NEW x \in 1..(Len(q)+1), NEW y \in 1..(Len(q)+1), x < y
      PROVE  CostLess(s, r[x], r[y])
  <2>1. CASE x = n+1
    BY <1>1, <1>2, <1>4, <1>5, <1>7, <1>9, <2>1
  <2>2. CASE y = n+1
    BY <1>1, <1>2, <1>4, <1>5, <1>7, <1>9, <2>2
  <2>3. CASE x # n+1 /\ y # n+1
    <3>1. from(x) \in DOMAIN q /\ from(y) \in DOMAIN q /\ from(x) < from(y) /\ r[x] = q[from(x)] /\ r[y] = q[from(y)]
      BY <1>1, <1>7, <1>8, <1>9, <2>3
    <3> QED
      BY <3>1 DEF Ordered
  <2> QED
    BY <2>1, <2>2, <2>3
<1>10. ASSUME NEW x \in 1..(Len(q)+1) PROVE Known(s, r[x])
  BY <1>1, <1>5, <1>7, <1>10 DEF Ordered
<1> QED
  BY <1>6, <1>9, <1>10 DEF Ordered, r
-----------------------------------------------------------------------------
(* The theorem about the order.                                            *)

OrderInv == StrategyOK(strategy) /\ Ordered(priority_set, strategy)

\* std::set::erase of a key that is cached leaves the others in order.
LEMMA OrderedSetErase ==
  ASSUME NEW q \in Seq(Keys), NEW s, Ordered(q, s), NEW k \in ToSet(q)
  PROVE  Ordered(SetErase(q, k), s)
<1> DEFINE place == CHOOSE i \in DOMAIN q : q[i] = k
<1>1. place \in DOMAIN q
  BY DEF ToSet
<1> HIDE DEF place
<1>2. SetErase(q, k) = RemoveAt(q, place)
  BY DEF SetErase, place
<1> QED
  BY <1>1, <1>2, OrderedRemoveAt

\* The threads that serve requests and the sync leave the worker and the cache alone.
LEMMA OthersKeepCache ==
  ASSUME RequestStep \/ SyncStep
  PROVE  UNCHANGED <<cacheVars, worker>>
<1>1. CASE RequestStep
  BY <1>1 DEF RequestStep, LockPredicates, DoneWithPredicates, FetchK2Tree, LogUpdate
<1>2. CASE SyncStep
  BY <1>2 DEF SyncStep, SyncBegin, SyncSkip, SyncClaim, SyncDiscard, SyncFetch, SyncSave, SyncEnd
<1> QED
  BY <1>1, <1>2

LEMMA OrderStep == CacheInv /\ OrderInv /\ [Next]_vars => OrderInv'
<1> SUFFICES ASSUME CacheInv, OrderInv, [Next]_vars PROVE OrderInv'
  OBVIOUS
<1>1. priority_set \in Seq(Keys) /\ NoRepetition(priority_set)
  BY DEF CacheInv, TypeOK, QueueInv
<1>2. ASSUME NEW k \in Keys, NEW space \in Nat, HitCached(k, space) PROVE OrderInv'
  <2> DEFINE q == SetErase(priority_set, k)
  <2>1. k \in ToSet(priority_set) /\ strategy' = StrategyHit(strategy, k) /\ priority_set' = SetInsert(q, k, strategy')
    BY <1>2 DEF HitCached, Resident
  <2>2. q \in Seq(Keys) /\ k \notin ToSet(q) /\ Ordered(q, strategy)
    BY <1>1, <2>1, SetEraseProperties, OrderedSetErase DEF OrderInv
  <2> HIDE DEF q
  <2>3. StrategyOK(strategy') /\ Known(strategy', k) /\ SameOrder(strategy, strategy', k)
    BY <2>1, StrategyHits DEF OrderInv
  <2>4. Ordered(q, strategy')
    BY <2>2, <2>3, OrderedElsewhere
  <2> QED
    BY <2>1, <2>2, <2>3, <2>4, OrderedSetInsert DEF OrderInv
<1>3. ASSUME NEW k \in Keys, NEW space \in Nat, HitRefused(k, space) PROVE OrderInv'
  <2>1. Strategy = "FREQUENCY" /\ strategy' = StrategyHit(strategy, k) /\ k \notin ToSet(priority_set) /\ priority_set' = priority_set
    BY <1>3, StrategyAssumption DEF HitRefused, Resident, ShouldDiscardOthers, ShouldHitWithoutRetrieval
  <2>2. StrategyOK(strategy') /\ SameOrder(strategy, strategy', k)
    BY <2>1, StrategyHits DEF OrderInv
  <2> QED
    BY <1>1, <2>1, <2>2, OrderedElsewhere DEF OrderInv
<1>4. CASE EvictDrop
  <2> DEFINE k == priority_set[worker.it]
             q == RemoveAt(priority_set, worker.it)
  <2>1. worker.it \in DOMAIN priority_set /\ k \in Keys
    BY <1>1, <1>4 DEF EvictDrop, CacheInv, WorkerInv
  <2>2. strategy' = StrategyRemove(strategy, k) /\ priority_set' = q
    BY <1>4 DEF EvictDrop
  <2>3. q \in Seq(Keys) /\ k \notin ToSet(q) /\ Ordered(q, strategy)
    BY <1>1, <2>1, RemoveAtProperties, OrderedRemoveAt DEF OrderInv
  <2> HIDE DEF k, q
  <2>4. StrategyOK(strategy') /\ SameOrder(strategy, strategy', k)
    BY <2>1, <2>2, StrategyRemoves DEF OrderInv
  <2> QED
    BY <2>2, <2>3, <2>4, OrderedElsewhere DEF OrderInv
<1>5. CASE Retrieve
  <2> DEFINE k == worker.key
  <2>1. k \in Keys /\ k \notin ToSet(priority_set)
    BY <1>5 DEF Retrieve, CacheInv, WorkerInv
  <2>2. strategy' = StrategyHit(strategy, k) /\ priority_set' = SetInsert(priority_set, k, strategy')
    BY <1>5 DEF Retrieve
  <2> HIDE DEF k
  <2>3. StrategyOK(strategy') /\ Known(strategy', k) /\ SameOrder(strategy, strategy', k)
    BY <2>1, <2>2, StrategyHits DEF OrderInv
  <2>4. Ordered(priority_set, strategy')
    BY <1>1, <2>1, <2>3, OrderedElsewhere DEF OrderInv
  <2> QED
    BY <1>1, <2>1, <2>2, <2>3, <2>4, OrderedSetInsert DEF OrderInv
<1>6. CASE UNCHANGED <<strategy, priority_set>>
  BY <1>6 DEF OrderInv
<1>7. ASSUME NEW k \in Keys, NEW space \in Nat, HitTooBig(k, space) \/ HitAdmit(k, space)
      PROVE  UNCHANGED <<strategy, priority_set>>
  BY <1>7 DEF HitTooBig, HitAdmit, cacheVars
<1>8. CASE TakeTask \/ EvictReachedEnd \/ EvictSkip \/ EvictPick \/ UNCHANGED vars
  <2>1. UNCHANGED <<strategy, priority_set>>
    BY <1>8 DEF TakeTask, EvictReachedEnd, EvictSkip, EvictPick, cacheVars, vars
  <2> QED
    BY <1>6, <2>1
<1>9. CASE RequestStep \/ SyncStep
  BY <1>6, <1>9, OthersKeepCache DEF cacheVars
<1> QED
  BY <1>2, <1>3, <1>4, <1>5, <1>6, <1>7, <1>8, <1>9, SizesAreNatural
     DEF Next, WorkerStep, EvictStep

(***************************************************************************)
(* The std::set stays sorted under a comparator that reads mutable state,  *)
(* for both strategies: hit_key and remove_key move the costs of the other *)
(* keys together, and the key itself is outside the set meanwhile          *)
(* (CacheReplacement.cpp:33-35, 86-87, 94-95).                             *)
(***************************************************************************)
THEOREM PrioritySetStaysSorted == Spec => []PrioritySetSorted
<1>1. Init => OrderInv
  <2> SUFFICES ASSUME Init PROVE OrderInv
    OBVIOUS
  <2>1. StrategyOK(strategy)
    BY DEF Init, StrategyInit, LruInit, FreqInit, StrategyOK
  <2>2. Ordered(priority_set, strategy)
    BY DEF Init, Ordered
  <2> QED
    BY <2>1, <2>2 DEF OrderInv
<1>2. OrderInv => PrioritySetSorted
  BY DEF OrderInv, Ordered, PrioritySetSorted
<1> QED
  BY <1>1, <1>2, OrderStep, CacheInvariant, PTL DEF Spec

-----------------------------------------------------------------------------
(* The budget.                                                             *)

\* The units of a set of keys, under a map of spaces.
UnitsOf(S, f) == UNION {{k} \X (1..f[k]) : k \in S}

\* A key adds its own space.
LEMMA UnitsAdd ==
  ASSUME NEW S, NEW f, NEW k, k \notin S, f[k] \in Nat, IsFiniteSet(UnitsOf(S, f))
  PROVE  /\ IsFiniteSet(UnitsOf(S \cup {k}, f))
         /\ Cardinality(UnitsOf(S \cup {k}, f)) = Cardinality(UnitsOf(S, f)) + f[k]
         /\ Cardinality(UnitsOf(S, f)) \in Nat
<1> DEFINE U == UnitsOf(S, f)
           V == {k} \X (1..f[k])
<1>1. UnitsOf(S \cup {k}, f) = U \cup V
  BY DEF UnitsOf
<1>2. U \cap V = {}
  BY DEF UnitsOf
<1>3. IsFiniteSet(V) /\ Cardinality(V) = f[k]
  <2>1. IsFiniteSet(1..f[k]) /\ Cardinality(1..f[k]) = f[k]
    BY FS_Interval, SMTT(30)
  <2>2. IsFiniteSet({k}) /\ Cardinality({k}) = 1
    BY FS_Singleton
  <2>3. IsFiniteSet(V) /\ Cardinality(V) = Cardinality({k}) * Cardinality(1..f[k])
    BY <2>1, <2>2, FS_Product
  <2> QED
    BY <2>1, <2>2, <2>3
<1>4. Cardinality(U \cap V) = 0
  BY <1>2, FS_EmptySet
<1> HIDE DEF U, V
<1>5. IsFiniteSet(U) /\ Cardinality(U) \in Nat
  BY FS_CardinalityType DEF U
<1>6. /\ IsFiniteSet(U \cup V)
      /\ Cardinality(U \cup V) = Cardinality(U) + Cardinality(V) - Cardinality(U \cap V)
  BY <1>3, <1>5, FS_Union
<1>7. Cardinality(U \cup V) = Cardinality(U) + f[k]
  BY <1>3, <1>4, <1>5, <1>6
<1> QED
  BY <1>1, <1>5, <1>6, <1>7 DEF U

\* A key that leaves takes its space with it.
LEMMA UnitsRemove ==
  ASSUME NEW S, NEW f, NEW k \in S, f[k] \in Nat, IsFiniteSet(UnitsOf(S, f))
  PROVE  /\ IsFiniteSet(UnitsOf(S \ {k}, f))
         /\ Cardinality(UnitsOf(S, f)) = Cardinality(UnitsOf(S \ {k}, f)) + f[k]
         /\ Cardinality(UnitsOf(S \ {k}, f)) \in Nat
<1> DEFINE R == S \ {k}
<1>1. UnitsOf(R, f) \subseteq UnitsOf(S, f)
  BY DEF UnitsOf
<1>2. IsFiniteSet(UnitsOf(R, f))
  BY <1>1, FS_Subset
<1>3. R \cup {k} = S /\ k \notin R
  OBVIOUS
<1> HIDE DEF R
<1>4. /\ Cardinality(UnitsOf(R \cup {k}, f)) = Cardinality(UnitsOf(R, f)) + f[k]
      /\ Cardinality(UnitsOf(R, f)) \in Nat
  BY <1>2, <1>3, UnitsAdd
<1> QED
  BY <1>2, <1>3, <1>4 DEF R

\* Only the spaces of the keys of the set matter.
LEMMA UnitsSame ==
  ASSUME NEW S, NEW f, NEW g, \A k \in S : f[k] = g[k]
  PROVE  UnitsOf(S, f) = UnitsOf(S, g)
BY DEF UnitsOf

\* What SizeAccounting needs: spaces are not negative, and a call of hit_key
\* starts with nothing erased.
SizeInv ==
  /\ SizeAccounting
  /\ IsFiniteSet(UnitsOf(ToSet(priority_set), space_map))
  /\ \A k \in ToSet(priority_set) : space_map[k] \in Nat
  /\ worker.size_erased \in Nat
  /\ worker.pc = "idle" => worker.size_erased = 0
  /\ worker.pc # "idle" => worker.space \in Nat

LEMMA ChargedUnits == Charged = Cardinality(UnitsOf(ToSet(priority_set), space_map))
BY DEF Charged, Units, UnitsOf

\* Steps that leave the cached keys and what each of them is charged.
LEMMA ChargeKept ==
  ASSUME SizeInv, ToSet(priority_set') = ToSet(priority_set),
         \A k \in ToSet(priority_set) : space_map'[k] = space_map[k]
  PROVE  /\ Charged' = Charged
         /\ IsFiniteSet(UnitsOf(ToSet(priority_set'), space_map'))
         /\ \A k \in ToSet(priority_set') : space_map'[k] \in Nat
<1>1. UnitsOf(ToSet(priority_set'), space_map') = UnitsOf(ToSet(priority_set), space_map)
  BY UnitsSame
<1>2. Charged' = Cardinality(UnitsOf(ToSet(priority_set'), space_map'))
  BY DEF Charged, Units, UnitsOf
<1> QED
  BY <1>1, <1>2, ChargedUnits DEF SizeInv

\* hit_key returns with nothing left to discount.
LEMMA ReturnsClean ==
  ASSUME NEW k, HitReturns(k)
  PROVE  worker'.pc = "idle" /\ worker'.size_erased = 0
BY DEF HitReturns, WorkerIdle

\* The entry that the strategy leaves behind is not of a cached key.
LEMMA QueryKeepsCharge ==
  ASSUME QueueInv, NEW k
  PROVE  \A j \in ToSet(priority_set) : SpaceMapAfterQuery(k)[j] = space_map[j]
BY DEF QueueInv, SpaceMapAfterQuery, With

LEMMA SizeStep == CacheInv /\ SizeInv /\ [Next]_vars => SizeInv'
<1> SUFFICES ASSUME CacheInv, SizeInv, [Next]_vars PROVE SizeInv'
  OBVIOUS
<1>1. /\ TypeOK /\ QueueInv /\ WorkerInv /\ SizeAccounting /\ MaxSize \in Nat /\ Sizes \subseteq Nat
      /\ worker.size_erased \in Nat /\ size_used \in Int
  BY SizesAssumption DEF CacheInv, SizeInv, TypeOK
<1>2. Charged \in Nat
  BY ChargedUnits, FS_CardinalityType DEF SizeInv
\* Returns from hit_key that discount nothing.
<1>3. ASSUME NEW k \in Keys, NEW space \in Nat, HitTooBig(k, space) \/ HitCached(k, space) \/ HitRefused(k, space)
      PROVE  SizeInv'
  <2>1. HitReturns(k) /\ size_used' = size_used /\ worker.pc = "idle"
    BY <1>3 DEF HitTooBig, HitCached, HitRefused, Hitting, cacheVars
  <2>2. ToSet(priority_set') = ToSet(priority_set)
    <3>1. CASE HitCached(k, space)
      <4> DEFINE q == SetErase(priority_set, k)
      <4>1. priority_set \in Seq(Keys) /\ NoRepetition(priority_set) /\ k \in ToSet(priority_set)
        BY <1>1, <3>1 DEF TypeOK, QueueInv, HitCached, Resident
      <4>2. q \in Seq(Keys) /\ NoRepetition(q) /\ ToSet(q) = ToSet(priority_set) \ {k}
        BY <4>1, SetEraseProperties
      <4>3. priority_set' = SetInsert(q, k, strategy')
        BY <3>1 DEF HitCached
      <4> HIDE DEF q
      <4>4. ToSet(priority_set') = ToSet(q) \cup {k}
        BY <4>2, <4>3, SetInsertProperties
      <4> QED
        BY <4>1, <4>2, <4>4
    <3>2. CASE HitTooBig(k, space) \/ HitRefused(k, space)
      BY <3>2 DEF HitTooBig, HitRefused, cacheVars
    <3> QED
      BY <1>3, <3>1, <3>2
  <2>3. \A j \in ToSet(priority_set) : space_map'[j] = space_map[j]
    BY <1>1, <1>3, QueryKeepsCharge DEF HitTooBig, HitCached, HitRefused, cacheVars
  <2>4. /\ Charged' = Charged /\ IsFiniteSet(UnitsOf(ToSet(priority_set'), space_map'))
        /\ \A j \in ToSet(priority_set') : space_map'[j] \in Nat
    BY <2>2, <2>3, ChargeKept
  <2>5. worker'.pc = "idle" /\ worker'.size_erased = 0 /\ worker.size_erased = 0
    BY <2>1, ReturnsClean DEF SizeInv
  <2> QED
    BY <1>1, <2>1, <2>4, <2>5 DEF SizeInv, SizeAccounting
<1>4. ASSUME NEW k \in Keys, NEW space \in Nat, HitAdmit(k, space)
      PROVE  SizeInv'
  <2>1. /\ worker' = [worker EXCEPT !.pc = "evict", !.key = k, !.space = space, !.it = 1,
                                    !.next_size = space + size_used, !.size_erased = 0]
        /\ size_used' = size_used /\ priority_set' = priority_set /\ worker.pc = "idle"
    BY <1>4 DEF HitAdmit, Hitting
  <2>2. \A j \in ToSet(priority_set) : space_map'[j] = space_map[j]
    BY <1>1, <1>4, QueryKeepsCharge DEF HitAdmit
  <2>3. /\ Charged' = Charged /\ IsFiniteSet(UnitsOf(ToSet(priority_set'), space_map'))
        /\ \A j \in ToSet(priority_set') : space_map'[j] \in Nat
    BY <2>1, <2>2, ChargeKept
  <2>4. worker'.pc = "evict" /\ worker'.space = space /\ worker'.next_size = space + size_used /\ worker'.size_erased = 0
    BY <1>1, <2>1 DEF TypeOK, WorkerType
  <2>5. worker.size_erased = 0 /\ space \in Nat
    BY <1>1, <2>1 DEF SizeInv
  <2>6. size_used = Charged
    BY <1>1, <1>2, <2>5 DEF SizeAccounting
  <2> QED
    BY <1>1, <1>2, <2>1, <2>3, <2>4, <2>5, <2>6 DEF SizeInv, SizeAccounting
<1>5. CASE EvictReachedEnd
  <2>1. HitReturns(worker.key) /\ size_used' = size_used - worker.size_erased /\ UNCHANGED <<priority_set, space_map>>
    BY <1>5 DEF EvictReachedEnd
  <2>2. /\ Charged' = Charged /\ IsFiniteSet(UnitsOf(ToSet(priority_set'), space_map'))
        /\ \A j \in ToSet(priority_set') : space_map'[j] \in Nat
    BY <2>1, ChargeKept
  <2>3. worker'.pc = "idle" /\ worker'.size_erased = 0
    BY <2>1, ReturnsClean
  <2>4. size_used' = Charged /\ size_used' <= MaxSize
    BY <1>1, <1>2, <2>1 DEF SizeAccounting
  <2> QED
    BY <1>2, <2>2, <2>3, <2>4 DEF SizeInv, SizeAccounting
<1>6. CASE EvictSkip \/ EvictPick \/ TakeTask
  <2>1. /\ UNCHANGED <<priority_set, space_map, size_used>>
        /\ worker'.pc = "idle" <=> worker.pc = "idle"
        /\ UNCHANGED <<worker.size_erased, worker.space, worker.next_size>>
    BY <1>1, <1>6 DEF EvictSkip, EvictPick, TakeTask, Evicting, cacheVars, TypeOK, WorkerType
  <2>2. /\ Charged' = Charged /\ IsFiniteSet(UnitsOf(ToSet(priority_set'), space_map'))
        /\ \A j \in ToSet(priority_set') : space_map'[j] \in Nat
    BY <2>1, ChargeKept
  <2> QED
    BY <2>1, <2>2 DEF SizeInv, SizeAccounting
<1>7. CASE EvictDrop
  <2> DEFINE k == priority_set[worker.it]
             S == ToSet(priority_set)
             sz == space_map[k]
  <2>1. worker.it \in DOMAIN priority_set /\ worker.pc = "drop" /\ k \in S /\ sz \in Nat
    BY <1>1, <1>7 DEF EvictDrop, WorkerInv, SizeInv, ToSet
  <2>2. /\ space_map' = Without(space_map, k) /\ priority_set' = RemoveAt(priority_set, worker.it)
        /\ worker' = [worker EXCEPT !.pc = "evict", !.size_erased = @ + sz, !.next_size = @ - sz]
        /\ size_used' = size_used
    BY <1>7 DEF EvictDrop
  <2>3. ToSet(priority_set') = S \ {k}
    BY <1>1, <2>1, <2>2, RemoveAtProperties DEF TypeOK, QueueInv
  <2>4. \A j \in S \ {k} : space_map'[j] = space_map[j]
    BY <1>1, <2>2 DEF QueueInv, Without
  <2>5. UnitsOf(ToSet(priority_set'), space_map') = UnitsOf(S \ {k}, space_map)
    BY <2>3, <2>4, UnitsSame
  <2>6. Charged' = Cardinality(UnitsOf(ToSet(priority_set'), space_map'))
    BY DEF Charged, Units, UnitsOf
  <2>7. IsFiniteSet(UnitsOf(S, space_map)) /\ Charged = Cardinality(UnitsOf(S, space_map))
    BY ChargedUnits DEF SizeInv
  <2> HIDE DEF k, S, sz
  <2>8. /\ IsFiniteSet(UnitsOf(S \ {k}, space_map)) /\ Cardinality(UnitsOf(S \ {k}, space_map)) \in Nat
        /\ Cardinality(UnitsOf(S, space_map)) = Cardinality(UnitsOf(S \ {k}, space_map)) + space_map[k]
    BY <2>1, <2>7, UnitsRemove DEF sz
  <2>9. Charged' \in Nat /\ Charged = Charged' + sz
    BY <2>5, <2>6, <2>7, <2>8 DEF sz
  <2>10. /\ worker'.pc = "evict" /\ worker'.size_erased = worker.size_erased + sz
         /\ worker'.next_size = worker.next_size - sz /\ worker'.space = worker.space
    BY <1>1, <2>2 DEF TypeOK, WorkerType
  <2>11. worker.space \in Nat /\ worker.next_size = Charged + worker.space /\ size_used = Charged + worker.size_erased
    BY <1>1, <2>1 DEF SizeInv, SizeAccounting
  <2>12. size_used' = Charged' + worker'.size_erased /\ worker'.next_size = Charged' + worker'.space
         /\ worker'.size_erased \in Nat
    BY <1>1, <2>1, <2>2, <2>9, <2>10, <2>11
  <2>13. \A j \in ToSet(priority_set') : space_map'[j] \in Nat
    BY <2>3, <2>4 DEF SizeInv, S
  <2> QED
    BY <1>1, <2>2, <2>5, <2>8, <2>10, <2>11, <2>12, <2>13 DEF SizeInv, SizeAccounting
<1>8. CASE Retrieve
  <2> DEFINE k == worker.key
             S == ToSet(priority_set)
  <2>1. k \in Keys /\ k \notin S /\ worker.space \in Nat /\ priority_set \in Seq(Keys) /\ NoRepetition(priority_set)
    BY <1>1, <1>8 DEF Retrieve, WorkerInv, SizeInv, TypeOK, QueueInv
  <2>2. /\ space_map' = With(space_map, k, worker.space) /\ priority_set' = SetInsert(priority_set, k, strategy')
        /\ size_used' = worker.next_size /\ worker.next_size <= MaxSize /\ HitReturns(k) /\ worker.pc = "evict"
    BY <1>8 DEF Retrieve
  <2> HIDE DEF k
  <2>3. ToSet(priority_set') = S \cup {k}
    BY <2>1, <2>2, SetInsertProperties
  <2>4. space_map'[k] = worker.space /\ \A j \in S : space_map'[j] = space_map[j]
    BY <1>1, <2>1, <2>2 DEF QueueInv, With
  <2>5. UnitsOf(S, space_map') = UnitsOf(S, space_map)
    BY <2>4, UnitsSame
  <2>6. IsFiniteSet(UnitsOf(S, space_map)) /\ Charged = Cardinality(UnitsOf(S, space_map))
    BY ChargedUnits DEF SizeInv
  <2>7. Charged' = Cardinality(UnitsOf(ToSet(priority_set'), space_map'))
    BY DEF Charged, Units, UnitsOf
  <2>8. \A j \in S \cup {k} : space_map'[j] \in Nat
    BY <2>1, <2>4 DEF SizeInv
  <2> DEFINE f == space_map'
  <2> HIDE DEF S, f
  <2>9. /\ IsFiniteSet(UnitsOf(S \cup {k}, f))
        /\ Cardinality(UnitsOf(S \cup {k}, f)) = Cardinality(UnitsOf(S, f)) + f[k]
    BY <2>1, <2>5, <2>6, <2>8, UnitsAdd DEF f
  <2>10. Charged' = Charged + worker.space
    BY <2>3, <2>4, <2>5, <2>6, <2>7, <2>9 DEF f
  <2>11. size_used' = Charged' /\ size_used' <= MaxSize
    BY <1>1, <2>2, <2>10 DEF SizeAccounting
  <2>12. worker'.pc = "idle" /\ worker'.size_erased = 0
    BY <2>2, ReturnsClean
  <2>13. Charged' \in Nat
    BY <1>2, <2>1, <2>10
  <2>14. IsFiniteSet(UnitsOf(ToSet(priority_set'), space_map'))
    BY <2>3, <2>9 DEF f
  <2>15. size_used' = Charged' + worker'.size_erased
    <3>1. \A c \in Nat : c = c + 0
      OBVIOUS
    <3>2. size_used' = Charged' + 0
      BY <2>11, <2>13, <3>1
    <3> QED
      BY <2>12, <3>2
  <2>16. SizeAccounting'
    BY <2>11, <2>12, <2>15 DEF SizeAccounting
  <2> QED
    BY <2>3, <2>8, <2>12, <2>14, <2>16 DEF SizeInv
<1>9. CASE RequestStep \/ SyncStep \/ UNCHANGED vars
  <2>1. UNCHANGED <<priority_set, space_map, size_used, worker>>
    BY <1>9, OthersKeepCache DEF cacheVars, vars
  <2>2. /\ Charged' = Charged /\ IsFiniteSet(UnitsOf(ToSet(priority_set'), space_map'))
        /\ \A j \in ToSet(priority_set') : space_map'[j] \in Nat
    BY <2>1, ChargeKept
  <2> QED
    BY <2>1, <2>2 DEF SizeInv, SizeAccounting
<1> QED
  BY <1>3, <1>4, <1>5, <1>6, <1>7, <1>8, <1>9, SizesAreNatural DEF Next, WorkerStep, EvictStep

(***************************************************************************)
(* The cache is charged for what it holds, plus what the running call of   *)
(* hit_key evicted and did not discount yet, and never for more than       *)
(* max_size_allowed, for every budget and whatever sizes the predicates    *)
(* have (CacheReplacement.cpp:39-92).                                      *)
(***************************************************************************)
THEOREM SizeAccountingHolds == Spec => []SizeAccounting
<1>1. Init => SizeInv
  <2> SUFFICES ASSUME Init PROVE SizeInv
    OBVIOUS
  <2>1. ToSet(priority_set) = {} /\ worker.pc = "idle" /\ worker.size_erased = 0 /\ size_used = 0
    BY DEF Init, ToSet, WorkerIdle
  <2>2. UnitsOf(ToSet(priority_set), space_map) = {}
    BY <2>1 DEF UnitsOf
  <2>3. IsFiniteSet({}) /\ Cardinality({}) = 0
    BY FS_EmptySet
  <2>4. Charged = 0
    BY <2>2, <2>3, ChargedUnits
  <2> QED
    BY <2>1, <2>2, <2>3, <2>4, SizesAssumption DEF SizeInv, SizeAccounting
<1>2. SizeInv => SizeAccounting
  BY DEF SizeInv
<1> QED
  BY <1>1, <1>2, SizeStep, CacheInvariant, PTL DEF Spec
=============================================================================
