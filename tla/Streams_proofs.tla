--------------------------- MODULE Streams_proofs ---------------------------
(***************************************************************************)
(* The copies of the fully indexed cache follow the data, and streams send *)
(* every match once, for any number of clients, predicates, updates and    *)
(* syncs.                                                                  *)
(***************************************************************************)
EXTENDS Streams, FiniteSetTheorems, FunctionTheorems, WellFoundedInduction, TLAPS

-----------------------------------------------------------------------------
(* Updates.                                                                *)

PointSet(S) == IsFiniteSet(S) /\ S \subseteq Nat \X Nat

Ops == [op : {"add", "del"}, points : {S \in SUBSET (Nat \X Nat) : PointSet(S)}]

\* A commit has something to merge.
LEMMA OpsOfCommit ==
  ASSUME NEW u \in Commits
  PROVE  OpsOf(u) \in Seq(Ops) /\ OpsOf(u) # << >>
<1> DEFINE a == [op |-> "add", points |-> u.add]
           d == [op |-> "del", points |-> u.del]
<1>1. /\ u.add \in Trees \cup {NoTree} /\ u.del \in Trees \cup {NoTree}
      /\ IsFiniteSet(PointsOf(u.add)) /\ IsFiniteSet(PointsOf(u.del))
      /\ Points \subseteq Nat \X Nat
  BY StreamsAssumption DEF Updates
<1>2. u.add # NoTree => a \in Ops
  BY <1>1 DEF Trees, PointsOf, Ops, PointSet
<1>3. u.del # NoTree => d \in Ops
  BY <1>1 DEF Trees, PointsOf, Ops, PointSet
<1>4. u.add # NoTree \/ u.del # NoTree
  BY StreamsAssumption DEF Kind
<1> HIDE DEF a, d
<1>5. OpsOf(u) = (IF u.add # NoTree THEN <<a>> ELSE << >>) \o (IF u.del # NoTree THEN <<d>> ELSE << >>)
  BY DEF OpsOf, a, d
<1>6. CASE u.add # NoTree /\ u.del # NoTree
  <2>1. OpsOf(u) = <<a>> \o <<d>> /\ <<a>> \in Seq(Ops) /\ <<d>> \in Seq(Ops)
    BY <1>2, <1>3, <1>5, <1>6
  <2>2. <<a>> \o <<d>> \in Seq(Ops) /\ Len(<<a>> \o <<d>>) = 2
    BY <2>1
  <2> QED
    BY <2>1, <2>2
<1>7. CASE u.add # NoTree /\ u.del = NoTree
  <2>1. OpsOf(u) = <<a>> \o << >> /\ <<a>> \in Seq(Ops) /\ << >> \in Seq(Ops)
    BY <1>2, <1>5, <1>7
  <2>2. <<a>> \o << >> \in Seq(Ops) /\ Len(<<a>> \o << >>) = 1
    BY <2>1
  <2> QED
    BY <2>1, <2>2
<1>8. CASE u.add = NoTree /\ u.del # NoTree
  <2>1. OpsOf(u) = << >> \o <<d>> /\ <<d>> \in Seq(Ops) /\ << >> \in Seq(Ops)
    BY <1>3, <1>5, <1>8
  <2>2. << >> \o <<d>> \in Seq(Ops) /\ Len(<< >> \o <<d>>) = 1
    BY <2>1
  <2> QED
    BY <2>1, <2>2
<1> QED
  BY <1>4, <1>6, <1>7, <1>8

LEMMA TailOfOps ==
  ASSUME NEW S, NEW ops \in Seq(S), ops # << >>
  PROVE  /\ Tail(ops) \in Seq(S)
         /\ Len(ops) = 1 <=> Tail(ops) = << >>
<1>1. Len(ops) \in Nat /\ Len(ops) > 0
  OBVIOUS
<1>2. Tail(ops) \in Seq(S) /\ Len(Tail(ops)) = Len(ops) - 1
  OBVIOUS
<1>3. Tail(ops) = << >> <=> Len(Tail(ops)) = 0
  <2>1. \A s \in Seq(S) : s = << >> <=> Len(s) = 0
    OBVIOUS
  <2> QED
    BY <1>2, <2>1
<1> QED
  BY <1>1, <1>2, <1>3

\* Without records nothing changes.
LEMMA AppliedNone ==
  ASSUME NEW points, NEW p
  PROVE  ApplyAll(points, << >>, p) = points
BY DEF ApplyAll, Concerning

-----------------------------------------------------------------------------
(* The copies of the fully indexed cache.                                  *)

\* The update that a session applies.
SessionInv ==
  /\ upd = [pc |-> upd.pc, p |-> upd.p, ops |-> upd.ops]
  /\ upd.pc \in {"idle", "check", "merge", "resync"}
  /\ upd.pc # "idle" => upd.ops \in Seq(Ops) /\ upd.ops # << >>
  /\ stale \subseteq Pending

(***************************************************************************)
(* A tree without records in the log, or one that the sync has written, is *)
(* what the index has: when it leaves memory, or the log is cleaned, the   *)
(* index takes its place.                                                  *)
(***************************************************************************)
TreeInv ==
  \A p \in DOMAIN tree \ unsaved : p \notin Pending \/ sync.pc # "idle" => tree[p] = At(index, p)

\* Copies whose resync is to come.
Behind(p) == upd.pc = "resync" /\ upd.p = p

\* While the log is about to be cleaned, no copy waits for it.
SyncInv ==
  sync.pc = "fetched" =>
    \A p \in DOMAIN fic \ (raced \cup unsaved \cup DOMAIN tree) : ~Behind(p) => fic[p] = At(index, p)

\* A copy that is made and not yet published; a sync waits for the mutex.
IndexInv ==
  /\ indexing = [client |-> indexing.client, todo |-> indexing.todo, p |-> indexing.p, points |-> indexing.points]
  /\ indexing.client = None => indexing.p = NoPredicate /\ indexing.todo = {}
  /\ sync.pc # "idle" => indexing.client = None
  /\ indexing.p # NoPredicate =>
       /\ indexing.p \notin DOMAIN fic
       /\ indexing.p \notin raced => Follows(indexing.p, indexing.points)

FicInv == SessionInv /\ TreeInv /\ SyncInv /\ IndexInv /\ FicCurrent

(***************************************************************************)
(* What FetchTrees does: trees that were there and are not strays stay,    *)
(* one without records comes from the index, and the others are reloaded   *)
(* or garbled.                                                             *)
(***************************************************************************)
Loads(P, l, S, strays) ==
  /\ strays \subseteq Pending /\ (P \cap stale = {} => strays = {})
  /\ DOMAIN tree' = DOMAIN tree \cup P \cup strays
  /\ \A q \in DOMAIN tree \ strays : tree'[q] = tree[q]
  /\ \A q \in P \ (Pending \cup strays) : tree'[q] = At(index, q)
  /\ \A q \in P \cup strays : tree'[q] \in Garbled \/ tree'[q] = Reloaded(l, q)
  /\ fic' = Resynced((P \cap Pending) \cup strays \cup S, tree')
  /\ raced' = (raced \ (((P \cap Pending) \cup strays \cup S) \cap DOMAIN fic))
                \cup (((P \cap Pending) \cup strays \cup S) \cap {indexing.p})
                \cup ((P \cap unsaved) \ ((P \cap Pending) \cup strays \cup S))

LEMMA FetchLoads ==
  ASSUME SessionInv, NEW P, NEW l, NEW S, NEW ch, DOMAIN l = DOMAIN log,
         P \cap DOMAIN tree = {}, FetchTrees(P, l, S, ch)
  PROVE  \E strays :
           /\ Loads(P, l, S, strays)
           /\ channel' = Broken(Broken(ch, "cached", (P \cap Pending) \cup strays \cup S), "plain", strays)
<1>1. PICK strays \in Strays(P) : \E garbled \in [(P \cap stale) \cup strays -> Garbled] :
        /\ tree' = Fetched(P, l, garbled)
        /\ fic' = Resynced((P \cap Pending) \cup strays \cup S, tree')
        /\ channel' = Broken(Broken(ch, "cached", (P \cap Pending) \cup strays \cup S), "plain", strays)
        /\ raced' = (raced \ (((P \cap Pending) \cup strays \cup S) \cap DOMAIN fic))
                      \cup (((P \cap Pending) \cup strays \cup S) \cap {indexing.p})
                      \cup ((P \cap unsaved) \ ((P \cap Pending) \cup strays \cup S))
  BY DEF FetchTrees
<1>2. PICK garbled \in [(P \cap stale) \cup strays -> Garbled] :
        /\ tree' = Fetched(P, l, garbled)
        /\ fic' = Resynced((P \cap Pending) \cup strays \cup S, tree')
        /\ channel' = Broken(Broken(ch, "cached", (P \cap Pending) \cup strays \cup S), "plain", strays)
        /\ raced' = (raced \ (((P \cap Pending) \cup strays \cup S) \cap DOMAIN fic))
                      \cup (((P \cap Pending) \cup strays \cup S) \cap {indexing.p})
                      \cup ((P \cap unsaved) \ ((P \cap Pending) \cup strays \cup S))
  BY <1>1
<1>3. strays \subseteq Pending /\ stale \subseteq Pending /\ (P \cap stale = {} => strays = {})
  BY DEF Strays, SessionInv
<1>4. DOMAIN garbled = (P \cap stale) \cup strays /\ \A q \in DOMAIN garbled : garbled[q] \in Garbled
  OBVIOUS
<1>5. tree' = [q \in DOMAIN tree \cup P \cup DOMAIN garbled |->
                 IF q \in DOMAIN garbled THEN garbled[q] ELSE IF q \in DOMAIN tree THEN tree[q] ELSE Reloaded(l, q)]
  BY <1>2 DEF Fetched
<1>6. /\ DOMAIN tree' = DOMAIN tree \cup P \cup strays
      /\ \A q \in DOMAIN tree \ strays : tree'[q] = tree[q]
      /\ \A q \in P \cup strays : tree'[q] \in Garbled \/ tree'[q] = Reloaded(l, q)
  BY <1>4, <1>5
<1>7. ASSUME NEW q \in P \ (Pending \cup strays) PROVE tree'[q] = At(index, q)
  <2>1. tree'[q] = Reloaded(l, q)
    BY <1>3, <1>4, <1>5
  <2>2. Reloaded(l, q) = ApplyAll(At(index, q), << >>, q)
    BY DEF Reloaded, LogOf, Pending
  <2> QED
    BY <2>1, <2>2, AppliedNone
<1>8. Loads(P, l, S, strays)
  BY <1>2, <1>3, <1>6, <1>7 DEF Loads
<1> QED
  BY <1>2, <1>8

\* A copy that no record was merged into goes on following its data.
LEMMA FollowsOn ==
  ASSUME NEW P, NEW l, NEW S, NEW strays, Loads(P, l, S, strays), P \cap DOMAIN tree = {},
         NEW q, q \notin (P \cap Pending) \cup strays \cup S, q \notin raced',
         q \in DOMAIN tree' \/ At(index', q) = At(index, q),
         unsaved \ DOMAIN tree' \subseteq unsaved',
         NEW points, Follows(q, points)
  PROVE  /\ q \in DOMAIN tree' => points = tree'[q]
         /\ q \notin DOMAIN tree' \cup Pending \cup unsaved' => points = At(index', q)
<1>1. /\ DOMAIN tree' = DOMAIN tree \cup P \cup strays
      /\ \A r \in DOMAIN tree \ strays : tree'[r] = tree[r]
      /\ \A r \in P \ (Pending \cup strays) : tree'[r] = At(index, r)
  BY DEF Loads
<1>2. q \in P => q \notin unsaved
  BY DEF Loads
<1> QED
  BY <1>1, <1>2 DEF Follows

\* A load keeps the copies up to date.
LEMMA LoadFic ==
  ASSUME FicInv, NEW P, NEW S, NEW strays, Loads(P, log, S, strays),
         P \cap DOMAIN tree = {}, UNCHANGED <<index, log, indexing, sync>>,
         unsaved' = unsaved \cup NotSaved,
         \A p \in S : p \in DOMAIN fic /\ (p \in DOMAIN tree' \/ p \notin Stored),
         \A p : p \notin S /\ Behind(p) => upd'.pc = "resync" /\ upd'.p = p
  PROVE  TreeInv' /\ SyncInv' /\ IndexInv' /\ FicCurrent'
<1> DEFINE merged == (P \cap Pending) \cup strays \cup S
<1>1. /\ DOMAIN tree' = DOMAIN tree \cup P \cup strays
      /\ \A q \in DOMAIN tree \ strays : tree'[q] = tree[q]
      /\ \A q \in P \ (Pending \cup strays) : tree'[q] = At(index, q)
  BY DEF Loads
<1>2. /\ DOMAIN fic' = DOMAIN fic
      /\ \A q \in DOMAIN fic : fic'[q] = IF q \in merged THEN At(tree', q) ELSE fic[q]
      /\ raced' = (raced \ (merged \cap DOMAIN fic)) \cup (merged \cap {indexing.p}) \cup ((P \cap unsaved) \ merged)
      /\ strays \subseteq Pending
  BY DEF Loads, Resynced
<1>3. ASSUME NEW q \in DOMAIN tree' \ unsaved', q \notin Pending \/ sync.pc # "idle"
      PROVE  tree'[q] = At(index, q)
  BY <1>3 DEF NotSaved
<1>4. TreeInv'
  BY <1>3 DEF TreeInv, Pending
<1>5. ASSUME NEW q, NEW points, q \notin merged, q \notin raced', Follows(q, points)
      PROVE  /\ q \in DOMAIN tree' => points = tree'[q]
             /\ q \notin DOMAIN tree' \cup Pending \cup unsaved' => points = At(index, q)
  BY <1>5, FollowsOn DEF FicInv, Pending
<1> HIDE DEF merged
<1>6. ASSUME NEW q \in DOMAIN fic, q \in merged
      PROVE  /\ q \in DOMAIN tree' => fic'[q] = tree'[q]
             /\ q \notin DOMAIN tree' => fic'[q] = At(index, q) /\ q \notin Pending
  <2>1. CASE q \in DOMAIN tree'
    BY <1>2, <1>6, <2>1 DEF At
  <2>2. CASE q \notin DOMAIN tree'
    <3>1. q \in S /\ q \notin Stored
      BY <1>1, <1>6, <2>2 DEF merged
    <3> QED
      BY <1>2, <1>6, <2>2, <3>1 DEF At, Stored
  <2> QED
    BY <2>1, <2>2
<1>7. FicCurrent'
  <2> SUFFICES ASSUME NEW q \in DOMAIN fic' \ raced', ~(upd'.pc = "resync" /\ upd'.p = q)
               PROVE  /\ q \in DOMAIN tree' => fic'[q] = tree'[q]
                      /\ q \notin DOMAIN tree' \cup Pending \cup unsaved' => fic'[q] = At(index, q)
    BY DEF FicCurrent, Follows, Pending
  <2>1. CASE q \in merged
    BY <1>2, <1>6, <2>1
  <2>2. CASE q \notin merged
    <3>1. q \in DOMAIN fic \ raced /\ fic'[q] = fic[q] /\ ~Behind(q)
      BY <1>2, <2>2 DEF merged
    <3>2. Follows(q, fic[q])
      BY <3>1 DEF FicInv, FicCurrent, Behind
    <3> QED
      BY <1>5, <2>2, <3>1, <3>2
  <2> QED
    BY <2>1, <2>2
<1>8. SyncInv'
  <2> SUFFICES ASSUME sync.pc = "fetched", NEW q \in DOMAIN fic' \ (raced' \cup unsaved' \cup DOMAIN tree'),
                      ~(upd'.pc = "resync" /\ upd'.p = q)
               PROVE  fic'[q] = At(index, q)
    BY DEF SyncInv, Behind
  <2>1. CASE q \in merged
    BY <1>2, <1>6, <2>1
  <2>2. CASE q \notin merged
    <3>1. q \in DOMAIN fic \ (raced \cup unsaved \cup DOMAIN tree) /\ fic'[q] = fic[q] /\ ~Behind(q)
      BY <1>1, <1>2, <2>2 DEF merged
    <3> QED
      BY <3>1 DEF FicInv, SyncInv
  <2> QED
    BY <2>1, <2>2
<1>9. IndexInv'
  <2>1. ASSUME indexing.p # NoPredicate, indexing.p \notin raced'
        PROVE  /\ indexing.p \in DOMAIN tree' => indexing.points = tree'[indexing.p]
               /\ indexing.p \notin DOMAIN tree' \cup Pending \cup unsaved' => indexing.points = At(index, indexing.p)
    <3>1. indexing.p \notin merged /\ indexing.p \notin DOMAIN fic /\ indexing.p \notin raced
      BY <1>2, <2>1 DEF FicInv, IndexInv
    <3>2. Follows(indexing.p, indexing.points)
      BY <2>1, <3>1 DEF FicInv, IndexInv
    <3> QED
      BY <1>5, <2>1, <3>1, <3>2
  <2>2. indexing.p \notin raced' => (indexing.p # NoPredicate => Follows(indexing.p, indexing.points)')
    BY <2>1 DEF Follows, Pending
  <2> QED
    BY <1>2, <2>2 DEF FicInv, IndexInv
<1> QED
  BY <1>4, <1>7, <1>8, <1>9

LEMMA SessionKept ==
  ASSUME SessionInv, UNCHANGED <<upd, stale, log>>
  PROVE  SessionInv'
BY DEF SessionInv, Pending

\* Steps that change neither data nor copies.
LEMMA DataKept ==
  ASSUME FicInv, UNCHANGED <<data, fic, upd, sync, raced>>, IndexInv'
  PROVE  FicInv'
<1>1. SessionInv'
  BY SessionKept DEF FicInv, data, stored
<1>2. TreeInv' /\ SyncInv' /\ FicCurrent'
  BY DEF FicInv, TreeInv, SyncInv, FicCurrent, Follows, Behind, Pending, data, stored
<1> QED
  BY <1>1, <1>2 DEF FicInv

\* A load in the course of another step.
LEMMA LoadStep ==
  ASSUME FicInv, NEW P, NEW ch, FetchTrees(P, log, {}, ch), P \cap DOMAIN tree = {},
         UNCHANGED <<index, log, stale, indexing, upd, sync>>, unsaved' = unsaved \cup NotSaved
  PROVE  FicInv'
<1>1. SessionInv'
  BY SessionKept DEF FicInv
<1>2. PICK strays : Loads(P, log, {}, strays)
  BY FetchLoads DEF FicInv
<1>3. TreeInv' /\ SyncInv' /\ IndexInv' /\ FicCurrent'
  BY <1>2, LoadFic DEF Behind
<1> QED
  BY <1>1, <1>3 DEF FicInv

LEMMA ClientFic ==
  ASSUME FicInv, NEW c \in Clients,
         \/ \E ps \in Requests : LockPredicates(c, ps)
         \/ CreateChannel(c)
         \/ \E q \in Patterns : StartStream(c, q)
         \/ \E k \in 1..MaxPatterns : ContinueStream(c, k)
         \/ DoneWithPredicates(c)
  PROVE  FicInv'
<1>1. CASE (\E ps \in Requests : LockPredicates(c, ps)) \/ (\E k \in 1..MaxPatterns : ContinueStream(c, k))
             \/ DoneWithPredicates(c)
  <2>1. UNCHANGED <<data, fic, upd, sync, raced>> /\ indexing' = indexing
    BY <1>1 DEF LockPredicates, ContinueStream, DoneWithPredicates
  <2>2. IndexInv'
    BY <2>1 DEF FicInv, IndexInv, Follows, Pending, data, stored
  <2> QED
    BY <2>1, <2>2, DataKept
<1>2. CASE CreateChannel(c)
  <2>1. UNCHANGED <<data, fic, upd, sync, raced>> /\ sync.pc = "idle"
    BY <1>2 DEF CreateChannel
  <2>2. indexing' = [client |-> c, todo |-> indexing'.todo, p |-> NoPredicate, points |-> {}] /\ c # None
    BY <1>2, StreamsAssumption DEF CreateChannel, NoIndexing
  <2>3. IndexInv'
    BY <2>1, <2>2 DEF IndexInv
  <2> QED
    BY <2>1, <2>3, DataKept
<1>3. ASSUME NEW q \in Patterns, StartStream(c, q) PROVE FicInv'
  <2> DEFINE P == IF KindFor(q.p) = "cached" THEN {} ELSE Missing(q.p)
             ch == [channel EXCEPT ![c].streams = Append(@, Respond(NewStream(q, tree')))]
  <2>1. FetchTrees(P, log, {}, ch) /\ unsaved' = unsaved \cup NotSaved
        /\ UNCHANGED <<index, log, stale, indexing, upd, sync>>
    BY <1>3 DEF StartStream
  <2>2. P \cap DOMAIN tree = {}
    BY DEF Missing
  <2> HIDE DEF P, ch
  <2> QED
    BY <2>1, <2>2, LoadStep
<1> QED
  BY <1>1, <1>2, <1>3

LEMMA IndexFic ==
  ASSUME FicInv,
         \/ \E p \in Predicates : IndexSkip(p) \/ \E gone \in SUBSET DOMAIN fic : IndexScan(p, gone)
         \/ IndexPublish \/ ChannelCreated
  PROVE  FicInv'
<1>1. ASSUME NEW p \in Predicates, IndexSkip(p) PROVE FicInv'
  <2>1. /\ UNCHANGED <<data, fic, upd, sync, raced>>
        /\ indexing' = [indexing EXCEPT !.todo = @ \ {p}] /\ p \in indexing.todo
    BY <1>1 DEF IndexSkip
  <2>2. /\ indexing' = [client |-> indexing'.client, todo |-> indexing'.todo, p |-> indexing'.p, points |-> indexing'.points]
        /\ indexing'.client = indexing.client /\ indexing'.p = indexing.p /\ indexing'.points = indexing.points
        /\ indexing.client # None
    BY <2>1 DEF FicInv, IndexInv
  <2>3. IndexInv'
    BY <2>1, <2>2 DEF FicInv, IndexInv, Follows, Pending, data, stored
  <2> QED
    BY <2>1, <2>3, DataKept
<1>2. ASSUME NEW p \in Predicates, NEW gone \in SUBSET DOMAIN fic, IndexScan(p, gone) PROVE FicInv'
  <2>1. /\ p \in indexing.todo /\ p \in DOMAIN tree /\ p \notin DOMAIN fic /\ UNCHANGED <<data, upd, sync>>
        /\ DOMAIN fic' = DOMAIN fic \ gone /\ \A q \in DOMAIN fic' : fic'[q] = fic[q]
        /\ raced' = raced \ (gone \cup {p})
        /\ indexing' = [indexing EXCEPT !.p = p, !.points = tree[p]]
    BY <1>2 DEF IndexScan, ShouldCache, Without
  <2>2. indexing.client # None /\ sync.pc = "idle" /\ p # NoPredicate
    BY <2>1, StreamsAssumption DEF FicInv, IndexInv, NoPredicate
  <2>3. /\ indexing' = [client |-> indexing'.client, todo |-> indexing'.todo, p |-> indexing'.p, points |-> indexing'.points]
        /\ indexing'.client = indexing.client /\ indexing'.p = p /\ indexing'.points = tree[p]
    BY <2>1 DEF FicInv, IndexInv
  <2>4. IndexInv'
    BY <2>1, <2>2, <2>3 DEF IndexInv, Follows, data
  <2>5. FicCurrent'
    BY <2>1 DEF FicInv, FicCurrent, Follows, Pending, data, stored
  <2>6. TreeInv' /\ SyncInv'
    BY <2>1, <2>2 DEF FicInv, TreeInv, SyncInv, Pending, data, stored
  <2>7. SessionInv'
    BY <2>1, SessionKept DEF FicInv, data, stored
  <2> QED
    BY <2>4, <2>5, <2>6, <2>7 DEF FicInv
<1>3. CASE IndexPublish
  <2>1. /\ indexing.p # NoPredicate /\ UNCHANGED <<data, upd, sync, raced>>
        /\ DOMAIN fic' = DOMAIN fic \cup {indexing.p}
        /\ \A q \in DOMAIN fic' : fic'[q] = IF q = indexing.p THEN indexing.points ELSE fic[q]
        /\ indexing' = [indexing EXCEPT !.p = NoPredicate, !.points = {}, !.todo = @ \ {indexing.p}]
    BY <1>3 DEF IndexPublish, With
  <2>2. indexing.client # None /\ sync.pc = "idle"
    BY <2>1 DEF FicInv, IndexInv
  <2>3. /\ indexing' = [client |-> indexing'.client, todo |-> indexing'.todo, p |-> indexing'.p, points |-> indexing'.points]
        /\ indexing'.client = indexing.client /\ indexing'.p = NoPredicate
    BY <2>1 DEF FicInv, IndexInv
  <2>4. IndexInv'
    BY <2>1, <2>2, <2>3 DEF IndexInv
  <2>5. ASSUME NEW q \in DOMAIN fic' \ raced, ~(upd.pc = "resync" /\ upd.p = q) PROVE Follows(q, fic'[q])
    <3>1. CASE q = indexing.p
      BY <2>1, <2>5, <3>1 DEF FicInv, IndexInv
    <3>2. CASE q # indexing.p
      BY <2>1, <2>5, <3>2 DEF FicInv, FicCurrent
    <3> QED
      BY <3>1, <3>2
  <2>6. FicCurrent'
    BY <2>1, <2>5 DEF FicCurrent, Follows, Pending, data, stored
  <2>7. TreeInv' /\ SyncInv'
    BY <2>1, <2>2 DEF FicInv, TreeInv, SyncInv, Pending, data, stored
  <2>8. SessionInv'
    BY <2>1, SessionKept DEF FicInv, data, stored
  <2> QED
    BY <2>4, <2>6, <2>7, <2>8 DEF FicInv
<1>4. CASE ChannelCreated
  <2>1. UNCHANGED <<data, fic, upd, sync, raced>> /\ indexing' = NoIndexing
    BY <1>4 DEF ChannelCreated
  <2>2. IndexInv'
    BY <2>1 DEF IndexInv, NoIndexing
  <2> QED
    BY <2>1, <2>2, DataKept
<1> QED
  BY <1>1, <1>2, <1>3, <1>4

LEMMA ReplacementFic ==
  ASSUME FicInv, NEW p \in Predicates, LoadPredicate(p) \/ EvictPredicate(p)
  PROVE  FicInv'
<1>1. CASE LoadPredicate(p)
  <2> DEFINE P == {p} \cap (DOMAIN index \cup stale \cup WithAdditions)
  <2>1. FetchTrees(P, log, {}, channel) /\ unsaved' = unsaved \cup NotSaved
        /\ UNCHANGED <<index, log, stale, indexing, upd, sync>> /\ p \in Missing(p)
    BY <1>1 DEF LoadPredicate
  <2>2. P \cap DOMAIN tree = {}
    BY <2>1 DEF Missing
  <2> HIDE DEF P
  <2> QED
    BY <2>1, <2>2, LoadStep
<1>2. CASE EvictPredicate(p)
  <2>1. /\ UNCHANGED <<index, log, stale, unsaved, fic, indexing, upd, sync, raced>>
        /\ DOMAIN tree' = DOMAIN tree \ {p} /\ \A q \in DOMAIN tree' : tree'[q] = tree[q]
    BY <1>2 DEF EvictPredicate, Without, stored
  <2>2. SessionInv'
    BY <2>1, SessionKept DEF FicInv
  <2>3. TreeInv'
    BY <2>1 DEF FicInv, TreeInv, Pending
  <2>4. ASSUME NEW q, NEW points, Follows(q, points)
        PROVE  Follows(q, points)'
    BY <2>1, <2>4 DEF FicInv, TreeInv, Follows, Pending
  <2>5. FicCurrent' /\ IndexInv'
    BY <2>1, <2>4 DEF FicInv, FicCurrent, IndexInv
  <2>6. SyncInv'
    <3> SUFFICES ASSUME sync.pc = "fetched", NEW q \in DOMAIN fic \ (raced \cup unsaved \cup DOMAIN tree'), ~Behind(q)
                 PROVE  fic[q] = At(index, q)
      BY <2>1 DEF SyncInv, Behind
    <3>1. CASE q \in DOMAIN tree
      BY <2>1, <3>1 DEF FicInv, TreeInv, FicCurrent, Follows, Behind
    <3>2. CASE q \notin DOMAIN tree
      BY <3>2 DEF FicInv, SyncInv
    <3> QED
      BY <3>1, <3>2
  <2> QED
    BY <2>2, <2>3, <2>5, <2>6 DEF FicInv
<1> QED
  BY <1>1, <1>2

\* What a session goes on with.
LEMMA AfterMergeIs ==
  ASSUME SessionInv, upd.pc # "idle"
  PROVE  /\ AfterMerge = [pc |-> AfterMerge.pc, p |-> AfterMerge.p, ops |-> AfterMerge.ops]
         /\ AfterMerge.pc \in {"idle", "merge"}
         /\ AfterMerge.pc # "idle" => AfterMerge.ops = Tail(upd.ops) /\ Tail(upd.ops) \in Seq(Ops) /\ Tail(upd.ops) # << >>
<1>1. upd.ops \in Seq(Ops) /\ upd.ops # << >>
  BY DEF SessionInv
<1>2. Tail(upd.ops) \in Seq(Ops) /\ (Len(upd.ops) = 1 <=> Tail(upd.ops) = << >>)
  BY <1>1, TailOfOps
<1>3. CASE Len(upd.ops) = 1
  BY <1>3 DEF AfterMerge, NoUpdate
<1>4. CASE Len(upd.ops) # 1
  <2>1. AfterMerge = [upd EXCEPT !.pc = "merge", !.ops = Tail(upd.ops)]
    BY <1>4 DEF AfterMerge
  <2>2. upd = [pc |-> upd.pc, p |-> upd.p, ops |-> upd.ops]
    BY DEF SessionInv
  <2> DEFINE t == Tail(upd.ops)
  <2>3. t \in Seq(Ops) /\ t # << >>
    BY <1>2, <1>4
  <2>4. AfterMerge = [upd EXCEPT !.pc = "merge", !.ops = t]
    BY <2>1
  <2> HIDE DEF t
  <2>5. AfterMerge = [pc |-> "merge", p |-> upd.p, ops |-> t]
    BY <2>2, <2>4
  <2> QED
    BY <2>3, <2>5 DEF t
<1> QED
  BY <1>3, <1>4

LEMMA UpdateFic ==
  ASSUME FicInv, (\E u \in Commits : UpdateLog(u)) \/ UpdateCheck \/ UpdateMerge \/ UpdateResync
  PROVE  FicInv'
<1>1. ASSUME NEW u \in Commits, UpdateLog(u) PROVE FicInv'
  <2> DEFINE kept == IF writer THEN log ELSE [p \in Pending |-> << >>]
  <2>1. /\ upd.pc = "idle" /\ UNCHANGED <<index, tree, unsaved, fic, indexing, sync, raced>>
        /\ log' = With(kept, u.p, Append(LogOf(kept, u.p), u))
        /\ stale' = IF writer THEN stale ELSE stale \cup Pending
        /\ upd' = [pc |-> "check", p |-> u.p, ops |-> OpsOf(u)]
    BY <1>1 DEF UpdateLog
  <2>2. DOMAIN kept = Pending
    BY DEF Pending
  <2> HIDE DEF kept
  <2>3. Pending' = Pending \cup {u.p}
    BY <2>1, <2>2 DEF With, Pending
  <2>4. SessionInv'
    <3>1. OpsOf(u) \in Seq(Ops) /\ OpsOf(u) # << >>
      BY OpsOfCommit
    <3>2. stale' \subseteq Pending'
      BY <2>1, <2>3 DEF FicInv, SessionInv
    <3> QED
      BY <2>1, <3>1, <3>2 DEF SessionInv
  <2>5. ASSUME NEW q, NEW points, Follows(q, points) PROVE Follows(q, points)'
    BY <2>1, <2>3, <2>5 DEF Follows
  <2>6. TreeInv' /\ SyncInv'
    BY <2>1, <2>3 DEF FicInv, TreeInv, SyncInv, Behind
  <2>7. IndexInv' /\ FicCurrent'
    BY <2>1, <2>5 DEF FicInv, IndexInv, FicCurrent
  <2> QED
    BY <2>4, <2>6, <2>7 DEF FicInv
<1>2. CASE UpdateCheck
  <2>1. UNCHANGED <<data, fic, indexing, sync, raced>> /\ upd.pc = "check"
        /\ upd' = IF upd.p \in DOMAIN tree THEN [upd EXCEPT !.pc = "merge"] ELSE NoUpdate
    BY <1>2 DEF UpdateCheck
  <2>2. SessionInv' /\ upd'.pc # "resync"
    BY <2>1 DEF FicInv, SessionInv, NoUpdate, Pending, data, stored
  <2>3. TreeInv' /\ SyncInv' /\ IndexInv' /\ FicCurrent'
    BY <2>1, <2>2 DEF FicInv, TreeInv, SyncInv, IndexInv, FicCurrent, Follows, Behind, Pending, data, stored
  <2> QED
    BY <2>2, <2>3 DEF FicInv
<1>3. CASE UpdateMerge
  <2>1. /\ upd.pc = "merge" /\ UNCHANGED <<index, log, writer, stale, fic, indexing, sync>>
        /\ upd.ops \in Seq(Ops) /\ upd.ops # << >>
    BY <1>3 DEF UpdateMerge, FicInv, SessionInv, stored
  <2>2. CASE upd.p \in DOMAIN tree \/ Head(upd.ops).op = "add"
    <3>1. /\ tree' = With(tree, upd.p, Applied(At(tree, upd.p), Head(upd.ops)))
          /\ raced' = raced \cup ({upd.p} \cap {indexing.p})
          /\ unsaved' = unsaved \cup NotSaved
          /\ upd' = [upd EXCEPT !.pc = "resync"]
      BY <1>3, <2>2 DEF UpdateMerge
    <3>2. /\ DOMAIN tree' = DOMAIN tree \cup {upd.p}
          /\ \A q \in DOMAIN tree : q # upd.p => tree'[q] = tree[q]
      BY <3>1 DEF With
    <3>3. SessionInv' /\ upd'.pc = "resync" /\ upd'.p = upd.p
      BY <2>1, <3>1 DEF FicInv, SessionInv, Pending
    <3>4. TreeInv'
      BY <2>1, <3>1 DEF TreeInv, NotSaved, Pending
    <3>5. ASSUME NEW q, NEW points, q # upd.p, Follows(q, points) PROVE Follows(q, points)'
      BY <2>1, <3>1, <3>2, <3>5 DEF Follows, Pending
    <3>6. FicCurrent'
      BY <2>1, <3>1, <3>3, <3>5 DEF FicInv, FicCurrent
    <3>7. IndexInv'
      BY <2>1, <3>1, <3>5 DEF FicInv, IndexInv
    <3>8. SyncInv'
      BY <2>1, <3>1, <3>2, <3>3 DEF FicInv, SyncInv, Behind
    <3> QED
      BY <3>3, <3>4, <3>6, <3>7, <3>8 DEF FicInv
  <2>3. CASE ~(upd.p \in DOMAIN tree \/ Head(upd.ops).op = "add")
    <3>1. upd' = AfterMerge /\ UNCHANGED <<tree, raced, unsaved>>
      BY <1>3, <2>3 DEF UpdateMerge
    <3>2. /\ upd' = [pc |-> upd'.pc, p |-> upd'.p, ops |-> upd'.ops] /\ upd'.pc \in {"idle", "merge"}
          /\ upd'.pc # "idle" => upd'.ops \in Seq(Ops) /\ upd'.ops # << >>
      BY <2>1, <3>1, AfterMergeIs DEF FicInv
    <3>3. SessionInv'
      BY <2>1, <3>2 DEF FicInv, SessionInv, Pending
    <3>4. TreeInv' /\ SyncInv' /\ IndexInv' /\ FicCurrent'
      BY <2>1, <3>1, <3>2 DEF FicInv, TreeInv, SyncInv, IndexInv, FicCurrent, Follows, Behind, Pending
    <3> QED
      BY <3>3, <3>4 DEF FicInv
  <2> QED
    BY <2>2, <2>3
<1>4. CASE UpdateResync
  <2>1. upd.pc = "resync" /\ upd' = AfterMerge /\ UNCHANGED <<index, log, stale, indexing, sync>>
    BY <1>4 DEF UpdateResync
  <2>2. /\ upd' = [pc |-> upd'.pc, p |-> upd'.p, ops |-> upd'.ops] /\ upd'.pc \in {"idle", "merge"}
        /\ upd'.pc # "idle" => upd'.ops \in Seq(Ops) /\ upd'.ops # << >>
    BY <2>1, AfterMergeIs DEF FicInv
  <2>3. SessionInv'
    BY <2>1, <2>2 DEF FicInv, SessionInv, Pending
  <2>4. CASE upd.p \in DOMAIN fic
    <3> DEFINE P == Missing(upd.p)
               S == {upd.p}
    <3>1. FetchTrees(P, log, S, channel) /\ unsaved' = unsaved \cup NotSaved
      BY <1>4, <2>4 DEF UpdateResync
    <3>2. /\ P \cap DOMAIN tree = {}
          /\ upd.p \in DOMAIN tree \cup P \/ upd.p \notin Stored
          /\ \A p \in S : p = upd.p
          /\ \A p : Behind(p) => p \in S
      BY DEF Missing, Behind
    <3> HIDE DEF P, S
    <3>3. PICK strays : Loads(P, log, S, strays)
      BY <3>1, <3>2, FetchLoads DEF FicInv
    <3>4. DOMAIN tree' = DOMAIN tree \cup P \cup strays
      BY <3>3 DEF Loads
    <3>5. \A p \in S : p \in DOMAIN fic /\ (p \in DOMAIN tree' \/ p \notin Stored)
      BY <2>4, <3>2, <3>4
    <3>6. TreeInv' /\ SyncInv' /\ IndexInv' /\ FicCurrent'
      BY <2>1, <3>1, <3>2, <3>3, <3>5, LoadFic
    <3> QED
      BY <2>3, <3>6 DEF FicInv
  <2>5. CASE upd.p \notin DOMAIN fic
    <3>1. UNCHANGED <<tree, fic, raced, unsaved>>
      BY <1>4, <2>5 DEF UpdateResync
    <3>2. TreeInv' /\ SyncInv' /\ IndexInv' /\ FicCurrent'
      BY <2>1, <2>2, <2>5, <3>1 DEF FicInv, TreeInv, SyncInv, IndexInv, FicCurrent, Follows, Behind, Pending
    <3> QED
      BY <2>3, <3>2 DEF FicInv
  <2> QED
    BY <2>4, <2>5
<1> QED
  BY <1>1, <1>2, <1>3, <1>4

LEMMA SyncFic ==
  ASSUME FicInv, SyncMemory \/ SyncFetch \/ SyncDiscard
  PROVE  FicInv'
<1>1. CASE SyncMemory
  <2>1. /\ indexing.client = None /\ UNCHANGED <<log, stale, tree, fic, indexing, upd, raced>>
        /\ index' = [p \in DOMAIN index \cup DOMAIN tree |-> IF p \in DOMAIN tree THEN tree[p] ELSE index[p]]
        /\ unsaved' = unsaved \ DOMAIN tree /\ sync'.pc = "written"
    BY <1>1 DEF SyncMemory, NoSync
  <2>2. SessionInv'
    BY <2>1, SessionKept DEF FicInv
  <2>3. \A q : At(index', q) = IF q \in DOMAIN tree THEN tree[q] ELSE At(index, q)
    BY <2>1 DEF At
  <2>4. TreeInv' /\ SyncInv' /\ IndexInv'
    BY <2>1, <2>3 DEF FicInv, TreeInv, SyncInv, IndexInv
  <2>5. ASSUME NEW q, NEW points, Follows(q, points) PROVE Follows(q, points)'
    BY <2>1, <2>3, <2>5 DEF Follows, Pending
  <2>6. FicCurrent'
    BY <2>1, <2>5 DEF FicInv, FicCurrent
  <2> QED
    BY <2>2, <2>4, <2>6 DEF FicInv
<1>2. CASE SyncFetch
  <2> DEFINE held == Pending \ DOMAIN tree
             l == CompactedLog
  <2>1. /\ sync.pc = "written" /\ UNCHANGED <<stale, indexing, upd>> /\ log' = l
        /\ FetchTrees(held, l, {}, channel)
        /\ index' = IF held = {} THEN index
                    ELSE [p \in DOMAIN index \cup DOMAIN tree' |-> IF p \in DOMAIN tree' THEN tree'[p] ELSE index[p]]
        /\ unsaved' = IF held = {} THEN unsaved ELSE unsaved \ DOMAIN tree'
        /\ sync'.pc = "fetched"
    BY <1>2 DEF SyncFetch
  <2>2. DOMAIN l = DOMAIN log /\ held \cap DOMAIN tree = {} /\ held \subseteq Pending
        /\ Pending \subseteq DOMAIN tree \cup held
    BY DEF CompactedLog, Pending
  <2> HIDE DEF held, l
  <2>3. PICK strays : Loads(held, l, {}, strays)
    BY <2>1, <2>2, FetchLoads DEF FicInv
  <2> DEFINE merged == (held \cap Pending) \cup strays \cup {}
  <2>4. /\ strays \subseteq Pending /\ (held = {} => strays = {})
        /\ DOMAIN tree' = DOMAIN tree \cup held \cup strays
        /\ \A q \in DOMAIN tree \ strays : tree'[q] = tree[q]
        /\ fic' = Resynced(merged, tree')
        /\ raced' = (raced \ (merged \cap DOMAIN fic)) \cup (merged \cap {indexing.p}) \cup ((held \cap unsaved) \ merged)
    BY <2>3 DEF Loads
  <2>5. /\ DOMAIN fic' = DOMAIN fic
        /\ \A q \in DOMAIN fic : fic'[q] = IF q \in merged THEN At(tree', q) ELSE fic[q]
        /\ merged \subseteq DOMAIN tree' /\ Pending \subseteq DOMAIN tree'
    BY <2>2, <2>4 DEF Resynced
  <2>6. Pending' = Pending
    BY <2>1, <2>2 DEF Pending
  <2>7. SessionInv'
    BY <2>1, <2>6 DEF FicInv, SessionInv
  <2>8. \A q : q \notin DOMAIN tree' => At(index', q) = At(index, q)
    BY <2>1 DEF At
  <2>9. TreeInv'
    <3>1. CASE held = {}
      BY <2>1, <2>4, <3>1 DEF FicInv, TreeInv
    <3>2. CASE held # {}
      BY <2>1, <3>2 DEF TreeInv, At
    <3> QED
      BY <3>1, <3>2
  <2>10. unsaved \ DOMAIN tree' \subseteq unsaved'
    BY <2>1
  <2>11. ASSUME NEW q \in DOMAIN fic \ raced', ~Behind(q)
         PROVE  /\ q \in DOMAIN tree' => fic'[q] = tree'[q]
                /\ q \notin DOMAIN tree' \cup Pending \cup unsaved' => fic'[q] = At(index', q)
    <3>1. CASE q \in merged
      BY <2>5, <3>1 DEF At
    <3>2. CASE q \notin merged
      <4>1. q \notin raced /\ fic'[q] = fic[q]
        BY <2>4, <2>5, <2>11, <3>2
      <4>2. Follows(q, fic[q])
        BY <2>11, <4>1 DEF FicInv, FicCurrent, Behind
      <4> QED
        BY <2>2, <2>3, <2>8, <2>10, <2>11, <3>2, <4>1, <4>2, FollowsOn
    <3> QED
      BY <3>1, <3>2
  <2> HIDE DEF merged
  <2>12. FicCurrent'
    BY <2>1, <2>5, <2>6, <2>11 DEF FicCurrent, Follows, Behind
  <2>13. SyncInv'
    BY <2>1, <2>5, <2>11 DEF SyncInv, Behind
  <2>14. IndexInv'
    BY <2>1 DEF FicInv, IndexInv
  <2> QED
    BY <2>7, <2>9, <2>12, <2>13, <2>14 DEF FicInv
<1>3. CASE SyncDiscard
  <2>1. /\ sync.pc = "fetched" /\ UNCHANGED <<index, unsaved, fic, indexing, upd, raced>>
        /\ DOMAIN tree' = DOMAIN tree \ sync.held /\ \A q \in DOMAIN tree' : tree'[q] = tree[q]
        /\ log' = << >> /\ stale' = {} /\ sync'.pc = "idle"
    BY <1>3 DEF SyncDiscard, Without, NoSync
  <2>2. Pending' = {}
    BY <2>1 DEF Pending
  <2>3. SessionInv'
    BY <2>1, <2>2 DEF FicInv, SessionInv
  <2>4. TreeInv' /\ SyncInv' /\ IndexInv'
    BY <2>1 DEF FicInv, TreeInv, SyncInv, IndexInv
  <2>5. FicCurrent'
    <3> SUFFICES ASSUME NEW q \in DOMAIN fic \ raced, ~Behind(q)
                 PROVE  /\ q \in DOMAIN tree' => fic[q] = tree'[q]
                        /\ q \notin DOMAIN tree' \cup unsaved => fic[q] = At(index, q)
      BY <2>1, <2>2 DEF FicCurrent, Follows, Behind
    <3>1. CASE q \in DOMAIN tree
      BY <2>1, <3>1 DEF FicInv, FicCurrent, Follows, Behind, TreeInv
    <3>2. CASE q \notin DOMAIN tree
      BY <2>1, <3>2 DEF FicInv, SyncInv
    <3> QED
      BY <3>1, <3>2
  <2> QED
    BY <2>3, <2>4, <2>5 DEF FicInv
<1> QED
  BY <1>1, <1>2, <1>3

LEMMA InitFic == Init => FicInv
<1> SUFFICES ASSUME Init PROVE FicInv
  OBVIOUS
<1>1. DOMAIN fic = {} /\ Pending = {} /\ (tree = index \/ DOMAIN tree = {})
  BY DEF Init, Pending
<1>2. SessionInv /\ TreeInv /\ SyncInv /\ IndexInv
  BY <1>1 DEF Init, SessionInv, TreeInv, SyncInv, IndexInv, NoUpdate, NoSync, NoIndexing, At
<1>3. FicCurrent
  BY <1>1 DEF FicCurrent
<1> QED
  BY <1>2, <1>3 DEF FicInv

LEMMA NextFic == FicInv /\ [Next]_vars => FicInv'
<1> SUFFICES ASSUME FicInv, [Next]_vars PROVE FicInv'
  OBVIOUS
<1>1. CASE UNCHANGED vars
  <2>1. UNCHANGED <<data, fic, upd, sync, raced>> /\ indexing' = indexing
    BY <1>1 DEF vars
  <2>2. IndexInv'
    BY <2>1 DEF FicInv, IndexInv, Follows, Pending, data, stored
  <2> QED
    BY <2>1, <2>2, DataKept
<1>2. CASE Next
  BY <1>2, ClientFic, IndexFic, ReplacementFic, UpdateFic, SyncFic DEF Next
<1> QED
  BY <1>1, <1>2

(***************************************************************************)
(* The copy of an indexed predicate follows its tree, or the index when    *)
(* the tree is not in memory and the log has no record of it, for any      *)
(* clients, predicates and number of updates and syncs, updates during a   *)
(* sync and evictions between has_predicate_active and the merge included: *)
(* resync_predicate, load_single_predicate and the sync renew it.          *)
(* Excepted are copies made while the tree changed, and changes that no    *)
(* sync writes any more (FicCurrent).                                      *)
(***************************************************************************)
THEOREM CopiesAreCurrent == Spec => []FicCurrent
<1>1. FicInv => FicCurrent
  BY DEF FicInv
<1> QED
  BY InitFic, NextFic, <1>1, PTL DEF Spec

-----------------------------------------------------------------------------
(* Sorted rows.                                                            *)

\* sort_data compares rows of one width, of at most two real ids.
RowsOf(w) == {row \in Seq(Nat) : Len(row) = w}

LEMMA RowOrder ==
  ASSUME NEW w \in 0..2, NEW a \in RowsOf(w), NEW b \in RowsOf(w), NEW c \in RowsOf(w)
  PROVE  /\ ~RowBefore(a, a)
         /\ RowBefore(a, b) /\ RowBefore(b, c) => RowBefore(a, c)
         /\ a = b \/ RowBefore(a, b) \/ RowBefore(b, a)
<1> DEFINE Less(x, y) == \/ w >= 1 /\ x[1] < y[1]
                         \/ w = 2 /\ x[1] = y[1] /\ x[2] < y[2]
<1>1. ASSUME NEW x \in RowsOf(w), NEW y \in RowsOf(w)
      PROVE  RowBefore(x, y) <=> Less(x, y)
  <2>1. DOMAIN x = 1..w
    BY DEF RowsOf
  <2>2. CASE w = 0
    BY <2>1, <2>2 DEF RowBefore
  <2>3. CASE w = 1
    BY <2>1, <2>3 DEF RowBefore
  <2>4. CASE w = 2
    <3>1. 1..2 = {1, 2} /\ 1..(1 - 1) = {} /\ 1..(2 - 1) = {1}
      OBVIOUS
    <3>2. RowBefore(x, y) <=> \E i \in {1, 2} : x[i] < y[i] /\ \A j \in 1..(i - 1) : x[j] = y[j]
      BY <2>1, <2>4, <3>1 DEF RowBefore
    <3> QED
      BY <2>4, <3>1, <3>2
  <2> QED
    BY <2>2, <2>3, <2>4
<1>2. \A x \in RowsOf(w) : (w >= 1 => x[1] \in Nat) /\ (w = 2 => x[2] \in Nat)
  BY DEF RowsOf
<1>3. \A x, y \in RowsOf(w) : (w >= 1 => x[1] = y[1]) /\ (w = 2 => x[2] = y[2]) => x = y
  <2> TAKE x, y \in RowsOf(w)
  <2> HAVE (w >= 1 => x[1] = y[1]) /\ (w = 2 => x[2] = y[2])
  <2>1. x \in Seq(Nat) /\ y \in Seq(Nat) /\ Len(x) = w /\ Len(y) = w
    BY DEF RowsOf
  <2>2. \A i \in 1..w : x[i] = y[i]
    OBVIOUS
  <2> QED
    BY <2>1, <2>2
<1>4. ~Less(a, a)
  BY <1>2
<1>5. Less(a, b) /\ Less(b, c) => Less(a, c)
  BY <1>2
<1>6. a = b \/ Less(a, b) \/ Less(b, a)
  BY <1>2, <1>3
<1> HIDE DEF Less
<1> QED
  BY <1>1, <1>4, <1>5, <1>6

\* The ranks of a finite set of rows are all the positions, so sort_data puts
\* every row after the ones before it.
LEMMA AscendingSorts ==
  ASSUME NEW w \in 0..2, NEW S \in SUBSET RowsOf(w), IsFiniteSet(S)
  PROVE  /\ Cardinality(S) \in Nat
         /\ Ascending(S) \in [1..Cardinality(S) -> S]
         /\ \A i, j \in 1..Cardinality(S) : i < j => RowBefore(Ascending(S)[i], Ascending(S)[j])
         /\ \A x \in S : \E i \in 1..Cardinality(S) : Ascending(S)[i] = x
<1> DEFINE n == Cardinality(S)
           Below(x) == {y \in S : RowBefore(y, x)}
           rank == [x \in S |-> Cardinality(Below(x))]
<1>1. n \in Nat
  BY FS_CardinalityType
<1>2. \A x \in S : IsFiniteSet(Below(x)) /\ Cardinality(Below(x)) \in Nat
  <2> TAKE x \in S
  <2>1. Below(x) \in SUBSET S
    OBVIOUS
  <2> HIDE DEF Below
  <2> QED
    BY <2>1, FS_Subset, FS_CardinalityType
<1>3. \A x \in S : rank[x] \in 0..(n - 1)
  <2> TAKE x \in S
  <2>1. Below(x) \in SUBSET S /\ x \notin Below(x)
    BY RowOrder
  <2> DEFINE T == Below(x)
  <2>2. rank[x] = Cardinality(T) /\ Cardinality(T) \in Nat
    BY <1>2
  <2> HIDE DEF T
  <2>3. T \in SUBSET S /\ T # S
    BY <2>1 DEF T
  <2>4. Cardinality(T) <= n /\ Cardinality(T) # n
    BY <2>3, FS_Subset
  <2> HIDE DEF rank, n
  <2> QED
    BY <1>1, <2>2, <2>4
<1>4. ASSUME NEW x \in S, NEW y \in S, RowBefore(x, y)
      PROVE  rank[x] < rank[y]
  <2> DEFINE T == Below(x)
             U == Below(y)
  <2>1. T \in SUBSET U /\ x \in U /\ x \notin T
    BY <1>4, RowOrder
  <2>2. rank[x] = Cardinality(T) /\ rank[y] = Cardinality(U) /\ IsFiniteSet(U)
        /\ Cardinality(T) \in Nat /\ Cardinality(U) \in Nat
    BY <1>2
  <2> HIDE DEF T, U, rank
  <2>3. Cardinality(T) <= Cardinality(U) /\ Cardinality(U) # Cardinality(T)
    BY <2>1, <2>2, FS_Subset
  <2> QED
    BY <2>2, <2>3
<1> HIDE DEF Below
<1>0. \A x, y \in S : rank[x] = rank[y] => x = y
  <2> TAKE x, y \in S
  <2>1. rank[x] \in Int /\ rank[y] \in Int
    BY <1>1, <1>3
  <2>2. x = y \/ RowBefore(x, y) \/ RowBefore(y, x)
    BY RowOrder
  <2> HIDE DEF rank
  <2> QED
    BY <1>4, <2>1, <2>2
<1>5. rank \in Surjection(S, 0..(n - 1))
  <2>1. rank \in [S -> 0..(n - 1)]
    BY <1>3
  <2> HIDE DEF rank
  <2>3. rank \in Injection(S, 0..(n - 1))
    BY <1>0, <2>1 DEF Injection, IsInjective
  <2>4. IsFiniteSet(0..(n - 1)) /\ Cardinality(0..(n - 1)) = n
    <3> HIDE DEF n
    <3>1. n - 1 \in Int /\ (0 > n - 1 => n = 0) /\ (n - 1) - 0 + 1 = n
      BY <1>1
    <3> QED
      BY <3>1, FS_Interval
  <2> QED
    BY <2>3, <2>4, FS_Injection
<1>6. \A i \in 1..n : Ascending(S)[i] \in S /\ rank[Ascending(S)[i]] = i - 1
  <2> TAKE i \in 1..n
  <2>1. i - 1 \in 0..(n - 1)
    BY <1>1
  <2>2. \E x \in S : rank[x] = i - 1
    <3> HIDE DEF rank
    <3> QED
      BY <1>5, <2>1 DEF Surjection
  <2>3. \E x \in S : Cardinality({y \in S : RowBefore(y, x)}) = i - 1
    BY <2>2 DEF Below
  <2>4. Ascending(S)[i] = CHOOSE x \in S : Cardinality({y \in S : RowBefore(y, x)}) = i - 1
    BY DEF Ascending
  <2>5. Ascending(S)[i] \in S /\ Cardinality({y \in S : RowBefore(y, Ascending(S)[i])}) = i - 1
    BY <2>3, <2>4
  <2> QED
    BY <2>5 DEF Below
<1>7. Ascending(S) \in [1..n -> S]
  <2> DEFINE rows == Ascending(S)
             Ranked(i) == CHOOSE x \in S : Cardinality({y \in S : RowBefore(y, x)}) = i - 1
  <2>1. \A i \in 1..n : rows[i] \in S
    BY <1>6
  <2>2. rows = [i \in 1..n |-> Ranked(i)]
    BY DEF Ascending
  <2> HIDE DEF rows, n, Ranked
  <2> QED
    BY <2>1, <2>2 DEF rows
<1>8. ASSUME NEW i \in 1..n, NEW j \in 1..n, i < j
      PROVE  RowBefore(Ascending(S)[i], Ascending(S)[j])
  <2> DEFINE x == Ascending(S)[i]
             y == Ascending(S)[j]
  <2>1. x \in S /\ y \in S /\ rank[x] = i - 1 /\ rank[y] = j - 1
    BY <1>6
  <2> HIDE DEF x, y, rank
  <2>2. x # y /\ ~RowBefore(y, x)
    BY <1>1, <1>4, <1>8, <2>1
  <2>3. x = y \/ RowBefore(x, y) \/ RowBefore(y, x)
    BY <2>1, RowOrder
  <2> QED
    BY <2>2, <2>3 DEF x, y
<1>9. \A x \in S : \E i \in 1..n : Ascending(S)[i] = x
  <2> TAKE x \in S
  <2> DEFINE i == rank[x] + 1
  <2>1. i \in 1..n /\ rank[x] = i - 1
    BY <1>1, <1>3
  <2> HIDE DEF i, rank
  <2>2. Ascending(S)[i] \in S /\ rank[Ascending(S)[i]] = rank[x]
    BY <1>6, <2>1
  <2>3. Ascending(S)[i] = x
    BY <1>0, <2>2
  <2> QED
    BY <2>1, <2>3
<1> QED
  BY <1>1, <1>7, <1>8, <1>9

LEMMA ValuesAreRows ==
  ASSUME NEW x, NEW q
  PROVE  Values(x, q) \in Seq(Nat)
<1>1. ASSUME NEW e PROVE Value(e) \in Seq(Nat)
  BY StreamsAssumption DEF Value
<1> DEFINE a == IF q.s = NodeAny THEN Value(x[1]) ELSE << >>
           b == IF q.o = NodeAny THEN Value(x[2]) ELSE << >>
<1>2. a \in Seq(Nat) /\ b \in Seq(Nat)
  BY <1>1
<1>3. Values(x, q) = a \o b
  BY DEF Values
<1> HIDE DEF a, b
<1> QED
  BY <1>2, <1>3

LEMMA WidthOfPattern ==
  ASSUME NEW q
  PROVE  Width(q) \in 0..2
<1> DEFINE E == {e \in {"s", "o"} : q[e] = NodeAny}
<1>1. IsFiniteSet({"s", "o"}) /\ Cardinality({"s", "o"}) <= 2
  <2>1. IsFiniteSet({"s"}) /\ Cardinality({"s"}) = 1
    BY FS_Singleton
  <2>2. {"s", "o"} = {"s"} \cup {"o"}
    OBVIOUS
  <2> QED
    BY <2>1, <2>2, FS_AddElement
<1>2. E \in SUBSET {"s", "o"}
  OBVIOUS
<1> HIDE DEF E
<1>3. IsFiniteSet(E) /\ Cardinality(E) <= Cardinality({"s", "o"})
  BY <1>1, <1>2, FS_Subset
<1>4. Cardinality(E) \in Nat /\ Cardinality({"s", "o"}) \in Nat
  BY <1>1, <1>3, FS_CardinalityType
<1> QED
  BY <1>1, <1>3, <1>4 DEF E, Width

\* TPMSortedStreamer::get_all_data and sort_data leave a sequence of rows.
LEMMA SortedRowsType ==
  ASSUME NEW points, IsFiniteSet(points), NEW q
  PROVE  SortedRows(points, q) \in Seq(Seq(Nat))
<1> DEFINE M == Matches(points, q)
           rows == Rows(points, q)
           R == {row \in Range(rows) : Sends("sorted", row, q)}
           w == Width(q)
<1>1. w \in 0..2
  BY WidthOfPattern
<1>2. IsFiniteSet(M) /\ Cardinality(M) \in Nat
  <2>1. M \in SUBSET points
    BY DEF Matches
  <2> HIDE DEF M
  <2> QED
    BY <2>1, FS_Subset, FS_CardinalityType
<1>3. DOMAIN rows = 1..Cardinality(M) /\ \A i \in DOMAIN rows : rows[i] \in Seq(Nat)
  BY ValuesAreRows DEF Rows, Ascending
<1> HIDE DEF M, rows
<1>4. IsFiniteSet(Range(rows))
  <2>1. IsFiniteSet(DOMAIN rows)
    BY <1>2, <1>3, FS_Interval
  <2> DEFINE f == [i \in DOMAIN rows |-> rows[i]]
  <2>2. f \in Surjection(DOMAIN rows, Range(rows))
    BY DEF Surjection, Range
  <2> HIDE DEF f
  <2> QED
    BY <2>1, <2>2, FS_Surjection
<1>5. IsFiniteSet(R)
  <2>1. R \in SUBSET Range(rows)
    OBVIOUS
  <2> HIDE DEF R
  <2> QED
    BY <1>4, <2>1, FS_Subset
<1>6. R \in SUBSET RowsOf(w)
  BY <1>3 DEF Range, Sends, RowsOf
<1>7. SortedRows(points, q) = Ascending(R)
  BY DEF SortedRows, rows
<1> HIDE DEF R, w
<1> DEFINE n == Cardinality(R)
           a == Ascending(R)
<1>8. n \in Nat /\ a \in [1..n -> R]
  BY <1>1, <1>5, <1>6, AscendingSorts
<1> HIDE DEF n, a
<1>9. a \in Seq(Seq(Nat))
  <2>1. R \subseteq Seq(Nat)
    BY <1>6 DEF RowsOf
  <2> QED
    BY <1>8, <2>1
<1> QED
  BY <1>7, <1>9 DEF a

\* A part ends at the last row or before.
LEMMA MinOfPart ==
  ASSUME NEW l \in Nat, NEW L \in SUBSET (0..l), L # {}
  PROVE  Min(L) \in 0..l
<1>1. \E x \in L : \A y \in L : x <= y
  <2> DEFINE Less == OpToRel(<, Nat)
  <2>1. L \subseteq Nat
    OBVIOUS
  <2>2. \E x \in L : \A y \in L : <<y, x>> \notin Less
    BY <2>1, NatLessThanWellFounded, WFMin, Zenon
  <2>3. \A x, y \in Nat : y < x => <<y, x>> \in Less
    BY DEF OpToRel
  <2> HIDE DEF Less
  <2>4. PICK x \in L : \A y \in L : <<y, x>> \notin Less
    BY <2>2
  <2>5. \A y \in L : x <= y
    <3> TAKE y \in L
    <3>1. x \in Nat /\ y \in Nat
      BY <2>1
    <3>2. ~(y < x)
      BY <2>3, <2>4, <3>1, Zenon
    <3> QED
      BY <3>1, <3>2
  <2> QED
    BY <2>5
<1>2. Min(L) \in L
  BY <1>1 DEF Min
<1> QED
  BY <1>2

LEMMA SortedPartFits ==
  ASSUME NEW S, NEW left \in Seq(S), NEW q
  PROVE  SortedPartLength(left, q) \in 0..Len(left)
<1> DEFINE L == {m \in DOMAIN left : m * Width(q) >= Threshold} \cup {Len(left)}
<1>1. Len(left) \in Nat /\ L \in SUBSET (0..Len(left)) /\ L # {}
  OBVIOUS
<1> HIDE DEF L
<1>2. Min(L) \in 0..Len(left)
  BY <1>1, MinOfPart
<1> QED
  BY <1>2 DEF SortedPartLength, L

LEMMA PartFits ==
  ASSUME NEW S, NEW left \in Seq(S), NEW kind, NEW q
  PROVE  PartLength(kind, left, q) \in 0..Len(left)
<1> DEFINE L == {m \in DOMAIN left : Size(kind, left, q, m) > Threshold} \cup {Len(left)}
<1>1. Len(left) \in Nat /\ L \in SUBSET (0..Len(left)) /\ L # {}
  OBVIOUS
<1> HIDE DEF L
<1>2. Min(L) \in 0..Len(left)
  BY <1>1, MinOfPart
<1> QED
  BY <1>2 DEF PartLength, L

-----------------------------------------------------------------------------
(* Trees and copies have finitely many points.                             *)

Records == {u \in Updates(Predicates) : IsFiniteSet(PointsOf(u.add))}

PointsInv ==
  /\ \A p \in DOMAIN index : PointSet(index[p])
  /\ \A p \in DOMAIN log : log[p] \in Seq(Records)
  /\ \A p \in DOMAIN tree : PointSet(tree[p])
  /\ \A p \in DOMAIN fic : PointSet(fic[p])
  /\ PointSet(indexing.points)

LEMMA EmptyPoints == PointSet({})
BY FS_EmptySet DEF PointSet

LEMMA AppliedPoints ==
  ASSUME NEW points, PointSet(points), NEW op, PointSet(op.points)
  PROVE  PointSet(Applied(points, op))
<1>1. IsFiniteSet(points \cup op.points)
  BY FS_Union DEF PointSet
<1>2. Applied(points, op) \in SUBSET (points \cup op.points)
  BY DEF Applied
<1> HIDE DEF Applied
<1>3. IsFiniteSet(Applied(points, op))
  BY <1>1, <1>2, FS_Subset
<1> QED
  BY <1>2, <1>3 DEF PointSet

\* Records leave a set of points.
LEMMA ReplayedPoints ==
  ASSUME NEW points, PointSet(points), NEW rs \in Seq(Records), NEW p
  PROVE  PointSet(ApplyAll(points, rs, p))
<1> DEFINE P == {PointsOf(rs[i].add) : i \in DOMAIN rs}
           f == [i \in DOMAIN rs |-> PointsOf(rs[i].add)]
<1>1. IsFiniteSet(DOMAIN rs)
  <2>1. DOMAIN rs = 1..Len(rs) /\ Len(rs) \in Int
    OBVIOUS
  <2> QED
    BY <2>1, FS_Interval
<1>2. f \in Surjection(DOMAIN rs, P)
  BY DEF Surjection
<1>3. \A T \in P : IsFiniteSet(T) /\ T \subseteq Nat \X Nat
  <2>1. \A i \in DOMAIN rs : rs[i] \in Records
    OBVIOUS
  <2>2. \A u \in Records : IsFiniteSet(PointsOf(u.add)) /\ PointsOf(u.add) \subseteq Points
    BY DEF Records, Updates, Trees, PointsOf
  <2> QED
    BY <2>1, <2>2, StreamsAssumption
<1>4. \A x \in ApplyAll(points, rs, p) : x \in points \cup UNION P
  BY DEF ApplyAll, Concerning
<1> HIDE DEF P, f
<1>5. IsFiniteSet(UNION P)
  BY <1>1, <1>2, <1>3, FS_Surjection, FS_UNION
<1>6. IsFiniteSet(points \cup UNION P)
  BY <1>5, FS_Union DEF PointSet
<1> DEFINE A == ApplyAll(points, rs, p)
           B == points \cup UNION P
<1>7. A \in SUBSET B
  <2>1. \A x \in A : x \in B
    BY <1>4
  <2> HIDE DEF A, B
  <2> QED
    BY <2>1
<1>8. B \subseteq Nat \X Nat
  BY <1>3 DEF PointSet
<1> HIDE DEF A, B
<1>9. IsFiniteSet(A)
  BY <1>6, <1>7, FS_Subset DEF B
<1> QED
  BY <1>7, <1>8, <1>9 DEF PointSet, A

\* compact_predicate leaves a record.
LEMMA CompactedRecord ==
  ASSUME NEW rs \in Seq(Records), rs # << >>
  PROVE  CompactRecords(rs) \in Records
<1> DEFINE c == CompactRecords(rs)
           P == {PointsOf(rs[i].add) : i \in DOMAIN rs}
           f == [i \in DOMAIN rs |-> PointsOf(rs[i].add)]
<1>1. /\ IsFiniteSet(DOMAIN rs) /\ 1 \in DOMAIN rs
      /\ \A i \in DOMAIN rs : /\ rs[i] \in Updates(Predicates) /\ IsFiniteSet(PointsOf(rs[i].add))
                              /\ PointsOf(rs[i].add) \subseteq Points /\ PointsOf(rs[i].del) \subseteq Points
  <2>1. DOMAIN rs = 1..Len(rs) /\ Len(rs) \in Int /\ 1 \in DOMAIN rs
    OBVIOUS
  <2>2. \A i \in DOMAIN rs : rs[i] \in Records
    OBVIOUS
  <2>3. \A u \in Records : /\ u \in Updates(Predicates) /\ IsFiniteSet(PointsOf(u.add))
                           /\ PointsOf(u.add) \subseteq Points /\ PointsOf(u.del) \subseteq Points
    BY DEF Records, Updates, Trees, PointsOf
  <2> QED
    BY <2>1, <2>2, <2>3, FS_Interval
<1>2. /\ c = [p |-> rs[1].p, add |-> c.add, del |-> c.del]
      /\ c.add = NoTree \/ \A x \in c.add : \E i \in DOMAIN rs : x \in PointsOf(rs[i].add)
      /\ c.del = NoTree \/ \A x \in c.del : \E i \in DOMAIN rs : x \in PointsOf(rs[i].del)
  BY DEF CompactRecords
<1> HIDE DEF c
<1>3. c.add \in Trees \cup {NoTree} /\ c.del \in Trees \cup {NoTree} /\ rs[1].p \in Predicates
  BY <1>1, <1>2 DEF Trees, Updates
<1>4. c \in Updates(Predicates)
  BY <1>2, <1>3 DEF Updates
<1>5. IsFiniteSet(UNION P)
  <2>1. f \in Surjection(DOMAIN rs, P)
    BY DEF Surjection
  <2>2. \A T \in P : IsFiniteSet(T)
    BY <1>1
  <2> HIDE DEF P, f
  <2> QED
    BY <1>1, <2>1, <2>2, FS_Surjection, FS_UNION
<1>6. PointsOf(c.add) \in SUBSET (UNION P)
  BY <1>2 DEF PointsOf
<1> HIDE DEF P
<1>7. IsFiniteSet(PointsOf(c.add))
  BY <1>5, <1>6, FS_Subset
<1> QED
  BY <1>4, <1>7 DEF Records, c

LEMMA CompactedRecords ==
  ASSUME PointsInv
  PROVE  \A p \in DOMAIN CompactedLog : CompactedLog[p] \in Seq(Records)
<1> SUFFICES ASSUME NEW p \in Pending PROVE CompactedLog[p] \in Seq(Records)
  BY DEF CompactedLog
<1>1. log[p] \in Seq(Records)
  BY DEF PointsInv, Pending
<1>2. CASE log[p] = << >>
  BY <1>2 DEF CompactedLog
<1>3. CASE log[p] # << >>
  <2>1. CompactRecords(log[p]) \in Records
    BY <1>1, <1>3, CompactedRecord
  <2>2. CompactedLog[p] = <<CompactRecords(log[p])>>
    BY <1>3 DEF CompactedLog
  <2> QED
    BY <2>1, <2>2
<1> QED
  BY <1>2, <1>3

\* Trees that are loaded, and copies that are renewed, are sets of points.
LEMMA LoadedPoints ==
  ASSUME PointsInv, NEW P, NEW l, NEW S, NEW strays, Loads(P, l, S, strays),
         \A p \in DOMAIN l : l[p] \in Seq(Records)
  PROVE  /\ \A p \in DOMAIN tree' : PointSet(tree'[p])
         /\ \A p \in DOMAIN fic' : PointSet(fic'[p])
<1>1. ASSUME NEW p PROVE PointSet(Reloaded(l, p))
  <2>1. PointSet(At(index, p))
    BY EmptyPoints DEF PointsInv, At
  <2>2. LogOf(l, p) \in Seq(Records)
    BY DEF LogOf
  <2> QED
    BY <2>1, <2>2, ReplayedPoints DEF Reloaded
<1>2. \A t \in Garbled : PointSet(t)
  BY StreamsAssumption DEF PointSet
<1>3. \A p \in DOMAIN tree' : (p \in DOMAIN tree /\ tree'[p] = tree[p]) \/ tree'[p] \in Garbled \/ tree'[p] = Reloaded(l, p)
  BY DEF Loads
<1>4. \A p \in DOMAIN tree' : PointSet(tree'[p])
  BY <1>1, <1>2, <1>3 DEF PointsInv
<1>5. /\ DOMAIN fic' = DOMAIN fic
      /\ \A p \in DOMAIN fic : fic'[p] = fic[p] \/ fic'[p] = At(tree', p)
  BY DEF Loads, Resynced
<1>6. \A p : PointSet(At(tree', p))
  BY <1>4, EmptyPoints DEF At
<1> QED
  BY <1>4, <1>5, <1>6 DEF PointsInv

\* The same for a step that loads.
LEMMA FetchedPoints ==
  ASSUME FicInv, PointsInv, NEW P, NEW S, NEW ch, FetchTrees(P, log, S, ch), P \cap DOMAIN tree = {},
         UNCHANGED <<index, log, indexing>>
  PROVE  PointsInv'
<1>1. PICK strays : Loads(P, log, S, strays)
  BY FetchLoads DEF FicInv
<1>2. /\ \A p \in DOMAIN tree' : PointSet(tree'[p])
      /\ \A p \in DOMAIN fic' : PointSet(fic'[p])
  BY <1>1, LoadedPoints DEF PointsInv
<1> QED
  BY <1>2 DEF PointsInv

LEMMA PointsStep ==
  ASSUME FicInv, PointsInv, [Next]_vars
  PROVE  PointsInv'
<1> USE DEF data, stored
<1>1. ASSUME NEW c \in Clients,
             \/ \E ps \in Requests : LockPredicates(c, ps)
             \/ CreateChannel(c)
             \/ \E k \in 1..MaxPatterns : ContinueStream(c, k)
             \/ DoneWithPredicates(c)
      PROVE  PointsInv'
  <2>1. UNCHANGED <<index, log, tree, fic>> /\ (indexing' = indexing \/ indexing'.points = {})
    BY <1>1 DEF LockPredicates, CreateChannel, ContinueStream, DoneWithPredicates, NoIndexing
  <2> QED
    BY <2>1, EmptyPoints DEF PointsInv
<1>2. ASSUME NEW c \in Clients, NEW q \in Patterns, StartStream(c, q) PROVE PointsInv'
  <2> DEFINE P == IF KindFor(q.p) = "cached" THEN {} ELSE Missing(q.p)
             ch == [channel EXCEPT ![c].streams = Append(@, Respond(NewStream(q, tree')))]
             S == {}
  <2>1. FetchTrees(P, log, S, ch) /\ UNCHANGED <<index, log, indexing>>
    BY <1>2 DEF StartStream
  <2>2. P \cap DOMAIN tree = {}
    BY DEF Missing
  <2> HIDE DEF P, ch, S
  <2> QED
    BY <2>1, <2>2, FetchedPoints
<1>3. ASSUME NEW p \in Predicates, IndexSkip(p) PROVE PointsInv'
  <2>1. indexing'.points = indexing.points
    BY <1>3 DEF IndexSkip, FicInv, IndexInv
  <2> QED
    BY <1>3, <2>1 DEF IndexSkip, PointsInv
<1>4. ASSUME NEW p \in Predicates, LoadPredicate(p) PROVE PointsInv'
  <2> DEFINE P == {p} \cap (DOMAIN index \cup stale \cup WithAdditions)
             S == {}
  <2>1. FetchTrees(P, log, S, channel) /\ UNCHANGED <<index, log, indexing>> /\ p \in Missing(p)
    BY <1>4 DEF LoadPredicate
  <2>2. P \cap DOMAIN tree = {}
    BY <2>1 DEF Missing
  <2> HIDE DEF P, S
  <2> QED
    BY <2>1, <2>2, FetchedPoints
<1>5. ASSUME NEW p \in Predicates, EvictPredicate(p) PROVE PointsInv'
  BY <1>5 DEF EvictPredicate, Without, PointsInv
<1>6. ASSUME NEW p \in Predicates, NEW gone \in SUBSET DOMAIN fic, IndexScan(p, gone) PROVE PointsInv'
  <2>1. p \in DOMAIN tree /\ indexing'.points = tree[p]
    BY <1>6 DEF IndexScan, ShouldCache, FicInv, IndexInv
  <2>2. DOMAIN fic' \subseteq DOMAIN fic /\ \A q \in DOMAIN fic' : fic'[q] = fic[q]
    BY <1>6 DEF IndexScan, Without
  <2> QED
    BY <1>6, <2>1, <2>2 DEF IndexScan, PointsInv
<1>7. CASE IndexPublish
  <2>1. indexing'.points = {}
    BY <1>7 DEF IndexPublish, FicInv, IndexInv
  <2>2. \A q \in DOMAIN fic' : (q \in DOMAIN fic /\ fic'[q] = fic[q]) \/ fic'[q] = indexing.points
    BY <1>7 DEF IndexPublish, With
  <2> QED
    BY <1>7, <2>1, <2>2, EmptyPoints DEF IndexPublish, PointsInv
<1>8. CASE ChannelCreated
  BY <1>8, EmptyPoints DEF ChannelCreated, NoIndexing, PointsInv
<1>9. ASSUME NEW u \in Commits, UpdateLog(u) PROVE PointsInv'
  <2> DEFINE kept == IF writer THEN log ELSE [p \in Pending |-> << >>]
             rs == Append(LogOf(kept, u.p), u)
  <2>1. UNCHANGED <<index, tree, fic, indexing>> /\ log' = With(kept, u.p, rs)
    BY <1>9 DEF UpdateLog
  <2>2. \A p \in DOMAIN kept : kept[p] \in Seq(Records)
    BY DEF PointsInv, Pending
  <2>3. u \in Records
    BY StreamsAssumption DEF Records
  <2> HIDE DEF kept
  <2>4. LogOf(kept, u.p) \in Seq(Records)
    BY <2>2 DEF LogOf
  <2>5. rs \in Seq(Records)
    BY <2>3, <2>4
  <2> HIDE DEF rs
  <2>6. \A p \in DOMAIN log' : log'[p] \in Seq(Records)
    BY <2>1, <2>2, <2>5 DEF With
  <2> QED
    BY <2>1, <2>6 DEF PointsInv
<1>10. CASE UpdateCheck
  BY <1>10 DEF UpdateCheck, PointsInv
<1>11. CASE UpdateMerge
  <2>1. UNCHANGED <<index, log, fic, indexing>> /\ upd.ops \in Seq(Ops) /\ upd.ops # << >>
    BY <1>11 DEF UpdateMerge, FicInv, SessionInv
  <2>2. PointSet(Head(upd.ops).points)
    <3>1. Head(upd.ops) \in Ops
      BY <2>1
    <3> QED
      BY <3>1 DEF Ops
  <2>3. PointSet(At(tree, upd.p))
    BY EmptyPoints DEF PointsInv, At
  <2>4. PointSet(Applied(At(tree, upd.p), Head(upd.ops)))
    BY <2>2, <2>3, AppliedPoints
  <2>5. tree' = tree \/ tree' = With(tree, upd.p, Applied(At(tree, upd.p), Head(upd.ops)))
    BY <1>11 DEF UpdateMerge
  <2>6. \A p \in DOMAIN tree' : PointSet(tree'[p])
    BY <2>4, <2>5 DEF With, PointsInv
  <2> QED
    BY <2>1, <2>6 DEF PointsInv
<1>12. CASE UpdateResync
  <2>1. UNCHANGED <<index, log, indexing>>
    BY <1>12 DEF UpdateResync
  <2>2. CASE upd.p \in DOMAIN fic
    <3> DEFINE P == Missing(upd.p)
               S == {upd.p}
    <3>1. FetchTrees(P, log, S, channel) /\ P \cap DOMAIN tree = {}
      BY <1>12, <2>2 DEF UpdateResync, Missing
    <3> HIDE DEF P, S
    <3> QED
      BY <2>1, <3>1, FetchedPoints
  <2>3. CASE upd.p \notin DOMAIN fic
    BY <1>12, <2>1, <2>3 DEF UpdateResync, PointsInv
  <2> QED
    BY <2>2, <2>3
<1>13. CASE SyncMemory
  BY <1>13 DEF SyncMemory, PointsInv
<1>14. CASE SyncFetch
  <2> DEFINE held == Pending \ DOMAIN tree
             l == CompactedLog
             S == {}
  <2>1. /\ FetchTrees(held, l, S, channel) /\ log' = l /\ indexing' = indexing
        /\ DOMAIN l = DOMAIN log /\ held \cap DOMAIN tree = {}
        /\ index' = index \/ index' = [p \in DOMAIN index \cup DOMAIN tree' |->
                                         IF p \in DOMAIN tree' THEN tree'[p] ELSE index[p]]
    BY <1>14 DEF SyncFetch, CompactedLog, Pending
  <2>2. \A p \in DOMAIN l : l[p] \in Seq(Records)
    BY CompactedRecords
  <2> HIDE DEF held, l, S
  <2>3. PICK strays : Loads(held, l, S, strays)
    BY <2>1, FetchLoads DEF FicInv
  <2>4. /\ \A p \in DOMAIN tree' : PointSet(tree'[p])
        /\ \A p \in DOMAIN fic' : PointSet(fic'[p])
    BY <2>2, <2>3, LoadedPoints
  <2>5. \A p \in DOMAIN index' : PointSet(index'[p])
    BY <2>1, <2>4 DEF PointsInv
  <2> QED
    BY <2>1, <2>2, <2>4, <2>5 DEF PointsInv
<1>15. CASE SyncDiscard
  BY <1>15 DEF SyncDiscard, Without, PointsInv
<1>16. CASE UNCHANGED vars
  BY <1>16 DEF vars, PointsInv
<1> QED
  BY <1>1, <1>2, <1>3, <1>4, <1>5, <1>6, <1>7, <1>8, <1>9, <1>10, <1>11, <1>12, <1>13, <1>14, <1>15, <1>16 DEF Next

-----------------------------------------------------------------------------
(* The rows of a pattern.                                                  *)

LEMMA WidthIs ==
  ASSUME NEW q
  PROVE  Width(q) = (IF q.s = NodeAny THEN 1 ELSE 0) + (IF q.o = NodeAny THEN 1 ELSE 0)
<1> DEFINE E == {e \in {"s", "o"} : q[e] = NodeAny}
<1>1. Cardinality({}) = 0 /\ Cardinality({"s"}) = 1 /\ Cardinality({"o"}) = 1
  BY FS_EmptySet, FS_Singleton
<1>2. Cardinality({"s", "o"}) = 2
  <2>1. IsFiniteSet({"s"}) /\ {"s", "o"} = {"s"} \cup {"o"} /\ "o" \notin {"s"}
    BY FS_Singleton
  <2> QED
    BY <1>1, <2>1, FS_AddElement
<1>3. Width(q) = Cardinality(E)
  BY DEF Width
<1>4. CASE q.s = NodeAny /\ q.o = NodeAny
  <2>1. E = {"s", "o"}
    BY <1>4
  <2> HIDE DEF E
  <2> QED
    BY <1>2, <1>3, <1>4, <2>1
<1>5. CASE q.s = NodeAny /\ q.o # NodeAny
  <2>1. E = {"s"}
    BY <1>5
  <2> HIDE DEF E
  <2> QED
    BY <1>1, <1>3, <1>5, <2>1
<1>6. CASE q.s # NodeAny /\ q.o = NodeAny
  <2>1. E = {"o"}
    BY <1>6
  <2> HIDE DEF E
  <2> QED
    BY <1>1, <1>3, <1>6, <2>1
<1>7. CASE q.s # NodeAny /\ q.o # NodeAny
  <2>1. E = {}
    BY <1>7
  <2> HIDE DEF E
  <2> QED
    BY <1>1, <1>3, <1>7, <2>1
<1> QED
  BY <1>4, <1>5, <1>6, <1>7

\* A row has at most one value for each variable of the pattern.
LEMMA ValuesFit ==
  ASSUME NEW x, NEW q
  PROVE  Len(Values(x, q)) <= Width(q)
<1> DEFINE a == IF q.s = NodeAny THEN Value(x[1]) ELSE << >>
           b == IF q.o = NodeAny THEN Value(x[2]) ELSE << >>
<1>1. \A e : Value(e) \in Seq(Nat) /\ Len(Value(e)) <= 1
  BY StreamsAssumption DEF Value
<1>2. /\ a \in Seq(Nat) /\ Len(a) <= IF q.s = NodeAny THEN 1 ELSE 0
      /\ b \in Seq(Nat) /\ Len(b) <= IF q.o = NodeAny THEN 1 ELSE 0
  BY <1>1
<1>3. Values(x, q) = a \o b
  BY DEF Values
<1> HIDE DEF a, b
<1>4. Len(Values(x, q)) = Len(a) + Len(b) /\ Len(a) \in Nat /\ Len(b) \in Nat
  BY <1>2, <1>3
<1> QED
  BY <1>2, <1>4, WidthIs

LEMMA ValueShape ==
  ASSUME NEW e
  PROVE  /\ Value(e) \in Seq(Nat) /\ Len(Value(e)) \in 0..1
         /\ Len(Value(e)) = 1 => e \in DOMAIN RealId /\ Value(e)[1] = RealId[e]
<1>1. CASE e \in DOMAIN RealId
  <2>1. Value(e) = <<RealId[e]>> /\ RealId[e] \in Nat
    BY <1>1, StreamsAssumption DEF Value
  <2> QED
    BY <1>1, <2>1
<1>2. CASE e \notin DOMAIN RealId
  <2>1. Value(e) = << >>
    BY <1>2 DEF Value
  <2> QED
    BY <2>1
<1> QED
  BY <1>1, <1>2

LEMMA PartsOf ==
  ASSUME NEW a \in Seq(Nat), NEW b \in Seq(Nat)
  PROVE  /\ \A i \in 1..Len(a) : a[i] = (a \o b)[i]
         /\ \A i \in 1..Len(b) : b[i] = (a \o b)[Len(a) + i]
<1>1. \A i \in 1..Len(a) : a[i] = (a \o b)[i]
  OBVIOUS
<1>2. \A i \in 1..Len(b) : b[i] = (a \o b)[Len(a) + i]
  OBVIOUS
<1> QED
  BY <1>1, <1>2

LEMMA SameRows ==
  ASSUME NEW a \in Seq(Nat), NEW c \in Seq(Nat), Len(a) = Len(c), \A i \in 1..Len(a) : a[i] = c[i]
  PROVE  a = c
OBVIOUS

LEMMA SameParts ==
  ASSUME NEW a \in Seq(Nat), NEW b \in Seq(Nat), NEW c \in Seq(Nat), NEW d \in Seq(Nat),
         Len(a) = Len(c), Len(b) = Len(d), a \o b = c \o d
  PROVE  a = c /\ b = d
<1> DEFINE r == a \o b
<1>1. r = c \o d
  OBVIOUS
<1> HIDE DEF r
<1>2. \A i \in 1..Len(a) : a[i] = r[i] /\ c[i] = r[i]
  BY <1>1, PartsOf DEF r
<1>3. \A i \in 1..Len(b) : b[i] = r[Len(a) + i] /\ d[i] = r[Len(a) + i]
  <2>1. \A i \in 1..Len(b) : b[i] = (a \o b)[Len(a) + i]
    BY PartsOf, Zenon
  <2>2. \A i \in 1..Len(d) : d[i] = (c \o d)[Len(c) + i]
    BY PartsOf, Zenon
  <2> QED
    BY <1>1, <2>1, <2>2, Zenon DEF r
<1> QED
  BY <1>2, <1>3, SameRows

\* What is sent for the two ends of a point.
SentS(x, q) == IF q.s = NodeAny THEN Value(x[1]) ELSE << >>
SentO(x, q) == IF q.o = NodeAny THEN Value(x[2]) ELSE << >>

LEMMA FullValues ==
  ASSUME NEW x, NEW q
  PROVE  /\ Values(x, q) = SentS(x, q) \o SentO(x, q)
         /\ SentS(x, q) \in Seq(Nat) /\ SentO(x, q) \in Seq(Nat)
         /\ Len(Values(x, q)) = Width(q) => /\ Len(SentS(x, q)) = IF q.s = NodeAny THEN 1 ELSE 0
                                            /\ Len(SentO(x, q)) = IF q.o = NodeAny THEN 1 ELSE 0
<1> DEFINE a == SentS(x, q)
           b == SentO(x, q)
<1>1. a \in Seq(Nat) /\ Len(a) \in 0..1 /\ (q.s # NodeAny => Len(a) = 0)
  BY ValueShape DEF SentS
<1>2. b \in Seq(Nat) /\ Len(b) \in 0..1 /\ (q.o # NodeAny => Len(b) = 0)
  BY ValueShape DEF SentO
<1>3. Values(x, q) = a \o b
  BY DEF Values, SentS, SentO
<1> HIDE DEF a, b
<1>4. Len(Values(x, q)) = Len(a) + Len(b)
  BY <1>1, <1>2, <1>3
<1>5. Width(q) = (IF q.s = NodeAny THEN 1 ELSE 0) + (IF q.o = NodeAny THEN 1 ELSE 0)
  BY WidthIs
<1>6. Len(Values(x, q)) = Width(q) => /\ Len(a) = IF q.s = NodeAny THEN 1 ELSE 0
                                      /\ Len(b) = IF q.o = NodeAny THEN 1 ELSE 0
  <2> DEFINE la == Len(a)
             lb == Len(b)
             w == Width(q)
  <2>1. la \in 0..1 /\ lb \in 0..1 /\ Len(Values(x, q)) = la + lb
    BY <1>1, <1>2, <1>4
  <2>2. (q.s # NodeAny => la = 0) /\ (q.o # NodeAny => lb = 0)
    BY <1>1, <1>2
  <2> HIDE DEF la, lb, w
  <2>3. w = (IF q.s = NodeAny THEN 1 ELSE 0) + (IF q.o = NodeAny THEN 1 ELSE 0)
    BY <1>5 DEF w
  <2>4. la + lb = w => la = (IF q.s = NodeAny THEN 1 ELSE 0) /\ lb = (IF q.o = NodeAny THEN 1 ELSE 0)
    BY <2>1, <2>2, <2>3
  <2> QED
    BY <2>1, <2>4 DEF la, lb, w
<1> QED
  BY <1>1, <1>2, <1>3, <1>6 DEF a, b

\* A row with a value for each variable comes from one point only: real ids are
\* given once.
LEMMA FullRowsDiffer ==
  ASSUME NEW q, NEW points \in SUBSET (Nat \X Nat),
         NEW x \in Matches(points, q), NEW y \in Matches(points, q),
         Values(x, q) = Values(y, q), Len(Values(x, q)) = Width(q)
  PROVE  x = y
<1>1. /\ SentS(x, q) \o SentO(x, q) = SentS(y, q) \o SentO(y, q)
      /\ SentS(x, q) \in Seq(Nat) /\ SentO(x, q) \in Seq(Nat)
      /\ SentS(y, q) \in Seq(Nat) /\ SentO(y, q) \in Seq(Nat)
      /\ Len(SentS(x, q)) = Len(SentS(y, q)) /\ Len(SentO(x, q)) = Len(SentO(y, q))
  BY FullValues
<1>2. SentS(x, q) = SentS(y, q) /\ SentO(x, q) = SentO(y, q)
  BY <1>1, SameParts
<1>3. x[1] = y[1]
  <2>1. CASE q.s = NodeAny
    <3>1. Value(x[1]) = Value(y[1]) /\ Len(Value(x[1])) = 1
      BY <1>2, <2>1, FullValues DEF SentS
    <3>2. /\ x[1] \in DOMAIN RealId /\ y[1] \in DOMAIN RealId
          /\ Value(x[1])[1] = RealId[x[1]] /\ Value(y[1])[1] = RealId[y[1]]
      BY <3>1, ValueShape
    <3> QED
      BY <3>1, <3>2, StreamsAssumption
  <2>2. CASE q.s # NodeAny
    BY <2>2 DEF Matches
  <2> QED
    BY <2>1, <2>2
<1>4. x[2] = y[2]
  <2>1. CASE q.o = NodeAny
    <3>1. Value(x[2]) = Value(y[2]) /\ Len(Value(x[2])) = 1
      BY <1>2, <2>1, FullValues DEF SentO
    <3>2. /\ x[2] \in DOMAIN RealId /\ y[2] \in DOMAIN RealId
          /\ Value(x[2])[1] = RealId[x[2]] /\ Value(y[2])[1] = RealId[y[2]]
      BY <3>1, ValueShape
    <3> QED
      BY <3>1, <3>2, StreamsAssumption
  <2>2. CASE q.o # NodeAny
    BY <2>2 DEF Matches
  <2> QED
    BY <2>1, <2>2
<1>5. x \in Nat \X Nat /\ y \in Nat \X Nat
  BY DEF Matches
<1> QED
  BY <1>3, <1>4, <1>5

\* A scan reads a row for each match, and no two with all values are the same.
Distinct(rows, q) ==
  \A m, k \in DOMAIN rows : Len(rows[m]) = Width(q) /\ rows[m] = rows[k] => m = k

LEMMA RowsOfScan ==
  ASSUME NEW points, PointSet(points), NEW q
  PROVE  /\ Rows(points, q) \in Seq(Seq(Nat))
         /\ \A m \in DOMAIN Rows(points, q) : \E x \in Matches(points, q) : Rows(points, q)[m] = Values(x, q)
         /\ \A x \in Matches(points, q) : \E m \in DOMAIN Rows(points, q) : Rows(points, q)[m] = Values(x, q)
         /\ Distinct(Rows(points, q), q)
<1> DEFINE M == Matches(points, q)
           n == Cardinality(M)
           scan == Ascending(M)
           rows == Rows(points, q)
<1>1. IsFiniteSet(M) /\ M \in SUBSET RowsOf(2)
  <2>1. M \in SUBSET points /\ IsFiniteSet(points) /\ points \subseteq Nat \X Nat
    BY DEF Matches, PointSet
  <2>2. \A x \in Nat \X Nat : x \in RowsOf(2)
    <3> TAKE x \in Nat \X Nat
    <3>1. PICK a \in Nat, b \in Nat : x = <<a, b>>
      OBVIOUS
    <3>2. <<a, b>> \in Seq(Nat) /\ Len(<<a, b>>) = 2
      OBVIOUS
    <3> QED
      BY <3>1, <3>2 DEF RowsOf
  <2> HIDE DEF M
  <2> QED
    BY <2>1, <2>2, FS_Subset
<1>2. /\ n \in Nat /\ scan \in [1..n -> M]
      /\ \A i, j \in 1..n : i < j => RowBefore(scan[i], scan[j])
      /\ \A x \in M : \E i \in 1..n : scan[i] = x
  <2> HIDE DEF M
  <2>1. 2 \in 0..2
    OBVIOUS
  <2> QED
    BY <1>1, <2>1, AscendingSorts
<1>3. rows = [i \in 1..n |-> Values(scan[i], q)]
  <2>1. rows = [i \in DOMAIN scan |-> Values(scan[i], q)]
    BY DEF Rows
  <2> HIDE DEF scan, rows, n
  <2> QED
    BY <1>2, <2>1
<1>4. \A x \in M : ~RowBefore(x, x)
  <2> TAKE x \in M
  <2>1. x \in RowsOf(2) /\ 2 \in 0..2
    BY <1>1
  <2> QED
    BY <2>1, RowOrder
<1>5. \A i, j \in 1..n : scan[i] = scan[j] => i = j
  <2> TAKE i, j \in 1..n
  <2>1. i < j \/ j < i \/ i = j
    BY <1>2
  <2>2. scan[i] \in M /\ scan[j] \in M
    BY <1>2
  <2> HIDE DEF scan, n, M
  <2> QED
    BY <1>2, <1>4, <2>1, <2>2
<1> HIDE DEF scan, n, rows
<1>6. DOMAIN rows = 1..n /\ \A i \in 1..n : rows[i] = Values(scan[i], q)
  BY <1>3
<1>7. rows \in Seq(Seq(Nat))
  <2>1. \A i \in 1..n : rows[i] \in Seq(Nat)
    BY <1>6, ValuesAreRows
  <2> QED
    BY <1>2, <1>3, <2>1
<1>8. Distinct(rows, q)
  <2> SUFFICES ASSUME NEW m \in 1..n, NEW k \in 1..n, Len(rows[m]) = Width(q), rows[m] = rows[k]
               PROVE  m = k
    BY <1>6 DEF Distinct
  <2>1. scan[m] \in M /\ scan[k] \in M
    BY <1>2
  <2>2. points \in SUBSET (Nat \X Nat)
    BY DEF PointSet
  <2>3. Values(scan[m], q) = Values(scan[k], q) /\ Len(Values(scan[m], q)) = Width(q)
    BY <1>6
  <2>4. scan[m] = scan[k]
    BY <2>1, <2>2, <2>3, FullRowsDiffer
  <2> QED
    BY <1>5, <2>4
<1>9. \A m \in 1..n : scan[m] \in M
  BY <1>2
<1> HIDE DEF M
<1>10. \A m \in DOMAIN rows : \E x \in M : rows[m] = Values(x, q)
  BY <1>6, <1>9
<1>11. \A x \in M : \E m \in DOMAIN rows : rows[m] = Values(x, q)
  BY <1>2, <1>6
<1> QED
  BY <1>7, <1>8, <1>10, <1>11 DEF M, rows

\* A part has the rows that are kept, each once: the numbers of rows kept up to the
\* places of these are all the positions.
PartOf(part, rows, n, kind, q) ==
  /\ part \in Seq(Seq(Nat))
  /\ \A j \in DOMAIN part : \E i \in 1..n : part[j] = rows[i] /\ Sends(kind, rows[i], q)
  /\ \A i \in 1..n : Sends(kind, rows[i], q) => \E j \in DOMAIN part : part[j] = rows[i]
  /\ \A j, k \in DOMAIN part : j # k =>
       \E i, m \in 1..n : i # m /\ part[j] = rows[i] /\ part[k] = rows[m]

LEMMA RowsOfPart ==
  ASSUME NEW rows \in Seq(Seq(Nat)), NEW n \in 0..Len(rows), NEW kind, NEW q
  PROVE  PartOf(Part(kind, rows, q, n), rows, n, kind, q)
<1> DEFINE part == Part(kind, rows, q, n)
           Keep(i) == Sends(kind, rows[i], q)
           Up(i) == {m \in 1..i : Keep(m)}
           K == Up(n)
           N == Cardinality(K)
           Place(j) == CHOOSE i \in 1..n : Keep(i) /\ Cardinality(Up(i)) = j
           count == [i \in K |-> Cardinality(Up(i))]
<1>1. n \in Nat /\ n <= Len(rows)
  OBVIOUS
<1>2. part = [j \in 1..N |-> rows[Place(j)]]
  BY DEF Part
<1>3. K \subseteq 1..n /\ (\A i \in 1..n : i \in K <=> Keep(i))
  OBVIOUS
<1>4. \A i \in K : Up(i) \in SUBSET K /\ i \in Up(i) /\ \A m \in K : m > i => m \notin Up(i)
  BY <1>1
<1>5. \A i, m \in K : i < m => Up(i) \in SUBSET Up(m)
  BY <1>1
<1> HIDE DEF Keep
<1>6. IsFiniteSet(K) /\ N \in Nat
  <2>1. IsFiniteSet(1..n) /\ K \in SUBSET (1..n)
    BY <1>1, <1>3, FS_Interval
  <2> HIDE DEF K
  <2> QED
    BY <2>1, FS_Subset, FS_CardinalityType
<1> HIDE DEF Up, K
<1>7. \A i \in K : IsFiniteSet(Up(i)) /\ Cardinality(Up(i)) \in 1..N
  <2> TAKE i \in K
  <2>1. IsFiniteSet(Up(i)) /\ Cardinality(Up(i)) <= N
    BY <1>4, <1>6, FS_Subset
  <2>2. Cardinality(Up(i)) \in Nat /\ Cardinality(Up(i)) # 0
    BY <1>4, <2>1, FS_CardinalityType, FS_EmptySet
  <2> HIDE DEF N
  <2> QED
    BY <1>6, <2>1, <2>2
<1>8. ASSUME NEW i \in K, NEW m \in K, i < m
      PROVE  count[i] < count[m]
  <2> DEFINE T == Up(i)
             U == Up(m)
  <2>1. T \in SUBSET U /\ m \in U /\ m \notin T
    BY <1>3, <1>4, <1>5, <1>8
  <2>2. count[i] = Cardinality(T) /\ count[m] = Cardinality(U) /\ IsFiniteSet(U)
        /\ Cardinality(T) \in Nat /\ Cardinality(U) \in Nat
    BY <1>7
  <2> HIDE DEF T, U, count
  <2>3. Cardinality(T) <= Cardinality(U) /\ Cardinality(U) # Cardinality(T)
    BY <2>1, <2>2, FS_Subset
  <2> QED
    BY <2>2, <2>3
<1>9. \A i, m \in K : count[i] = count[m] => i = m
  <2> TAKE i, m \in K
  <2>1. i \in Int /\ m \in Int
    BY <1>3
  <2>2. count[i] \in Int /\ count[m] \in Int
    BY <1>7
  <2> HIDE DEF count
  <2> QED
    BY <1>8, <2>1, <2>2
<1>10. count \in Surjection(K, 1..N)
  <2>1. count \in [K -> 1..N]
    BY <1>7
  <2> HIDE DEF count
  <2>2. count \in Injection(K, 1..N)
    BY <1>9, <2>1 DEF Injection, IsInjective
  <2>3. IsFiniteSet(1..N) /\ Cardinality(1..N) = N
    <3> HIDE DEF N
    <3>1. N \in Int /\ (1 > N => N = 0) /\ N - 1 + 1 = N
      BY <1>6
    <3> QED
      BY <3>1, FS_Interval
  <2> QED
    BY <1>6, <2>2, <2>3, FS_Injection
<1>11. \A j \in 1..N : Place(j) \in K /\ count[Place(j)] = j
  <2> TAKE j \in 1..N
  <2>1. \E i \in K : count[i] = j
    <3> HIDE DEF count
    <3> QED
      BY <1>10 DEF Surjection
  <2>2. \E i \in 1..n : Keep(i) /\ Cardinality(Up(i)) = j
    BY <1>3, <2>1
  <2>3. Place(j) \in 1..n /\ Keep(Place(j)) /\ Cardinality(Up(Place(j))) = j
    BY <2>2
  <2> HIDE DEF Place
  <2> QED
    BY <1>3, <2>3
<1> HIDE DEF Place, N, part
<1>12. DOMAIN part = 1..N /\ \A j \in 1..N : part[j] = rows[Place(j)]
  BY <1>2
<1>13. \A j \in 1..N : Place(j) \in 1..n /\ Keep(Place(j)) /\ rows[Place(j)] \in Seq(Nat)
  <2> HIDE DEF count
  <2>1. \A i \in 1..n : rows[i] \in Seq(Nat)
    BY <1>1
  <2> TAKE j \in 1..N
  <2>2. Place(j) \in K
    BY <1>11
  <2>3. Place(j) \in 1..n /\ Keep(Place(j))
    BY <1>3, <2>2
  <2> QED
    BY <2>1, <2>3
<1>14. part \in Seq(Seq(Nat))
  BY <1>2, <1>6, <1>13
<1>15. \A j \in DOMAIN part : \E i \in 1..n : part[j] = rows[i] /\ Keep(i)
  BY <1>12, <1>13
<1>16. \A i \in 1..n : Keep(i) => \E j \in DOMAIN part : part[j] = rows[i]
  <2> SUFFICES ASSUME NEW i \in 1..n, Keep(i) PROVE \E j \in DOMAIN part : part[j] = rows[i]
    OBVIOUS
  <2>1. i \in K
    BY <1>3
  <2>2. count[i] \in 1..N
    BY <1>7, <2>1
  <2> HIDE DEF count
  <2>3. Place(count[i]) = i
    BY <1>9, <1>11, <2>1, <2>2
  <2> QED
    BY <1>12, <2>2, <2>3
<1>17. \A j, k \in DOMAIN part : j # k => \E i, m \in 1..n : i # m /\ part[j] = rows[i] /\ part[k] = rows[m]
  <2> HIDE DEF count
  <2> SUFFICES ASSUME NEW j \in DOMAIN part, NEW k \in DOMAIN part, j # k
               PROVE  \E i, m \in 1..n : i # m /\ part[j] = rows[i] /\ part[k] = rows[m]
    OBVIOUS
  <2>0. j \in 1..N /\ k \in 1..N
    BY <1>12
  <2>1. Place(j) # Place(k)
    BY <1>11, <2>0
  <2> QED
    BY <1>12, <1>13, <2>0, <2>1
<1> QED
  BY <1>14, <1>15, <1>16, <1>17 DEF PartOf, part, Keep

\* What was sent of the first d rows: all that are kept, the full ones once.
SentUpTo(sent, rows, d, kind, q) ==
  /\ sent \in Seq(Seq(Nat))
  /\ \A i \in DOMAIN sent : \E m \in 1..d : sent[i] = rows[m] /\ Sends(kind, rows[m], q)
  /\ \A m \in 1..d : Sends(kind, rows[m], q) => \E i \in DOMAIN sent : sent[i] = rows[m]
  /\ \A i, j \in DOMAIN sent : Len(sent[i]) = Width(q) /\ sent[i] = sent[j] => i = j

LEMMA SubSeqShape ==
  ASSUME NEW S, NEW rows \in Seq(S), NEW d \in 0..Len(rows)
  PROVE  /\ SubSeq(rows, d + 1, Len(rows)) \in Seq(S)
         /\ Len(SubSeq(rows, d + 1, Len(rows))) = Len(rows) - d
         /\ \A i \in 1..(Len(rows) - d) : SubSeq(rows, d + 1, Len(rows))[i] = rows[d + i]
<1>1. Len(rows) \in Nat /\ d \in Nat /\ d <= Len(rows)
  OBVIOUS
<1>2. SubSeq(rows, d + 1, Len(rows)) \in Seq(S)
  BY <1>1
<1>3. Len(SubSeq(rows, d + 1, Len(rows))) = Len(rows) - d
  BY <1>1
<1>4. \A i \in 1..(Len(rows) - d) : SubSeq(rows, d + 1, Len(rows))[i] = rows[d + i]
  BY <1>1
<1> QED
  BY <1>2, <1>3, <1>4

LEMMA ConcatShape ==
  ASSUME NEW S, NEW a \in Seq(S), NEW b \in Seq(S)
  PROVE  /\ a \o b \in Seq(S) /\ Len(a \o b) = Len(a) + Len(b) /\ Len(a) \in Nat /\ Len(b) \in Nat
         /\ \A i \in 1..Len(a) : (a \o b)[i] = a[i]
         /\ \A i \in 1..Len(b) : (a \o b)[Len(a) + i] = b[i]
         /\ \A i \in DOMAIN (a \o b) : i \in 1..Len(a) \/ \E j \in 1..Len(b) : i = Len(a) + j
<1>1. a \o b \in Seq(S) /\ Len(a \o b) = Len(a) + Len(b) /\ Len(a) \in Nat /\ Len(b) \in Nat
  OBVIOUS
<1>2. \A i \in 1..Len(a) : (a \o b)[i] = a[i]
  OBVIOUS
<1>3. \A i \in 1..Len(b) : (a \o b)[Len(a) + i] = b[i]
  OBVIOUS
<1>4. ASSUME NEW i \in DOMAIN (a \o b) PROVE i \in 1..Len(a) \/ \E j \in 1..Len(b) : i = Len(a) + j
  <2>1. i \in 1..(Len(a) + Len(b))
    BY <1>1
  <2>2. CASE i > Len(a)
    <3>1. i - Len(a) \in 1..Len(b) /\ i = Len(a) + (i - Len(a))
      BY <1>1, <2>1, <2>2
    <3> QED
      BY <3>1
  <2>3. CASE ~(i > Len(a))
    BY <1>1, <2>1, <2>3
  <2> QED
    BY <2>2, <2>3
<1> QED
  BY <1>1, <1>2, <1>3, <1>4

\* What is left after the first d rows.
RestAfter(left, rows, d) == left = SubSeq(rows, d + 1, Len(rows))

RestIs(left, rows, d) ==
  /\ d \in Nat /\ Len(rows) \in Nat /\ d <= Len(rows) /\ DOMAIN rows = 1..Len(rows)
  /\ left \in Seq(Seq(Nat)) /\ Len(left) = Len(rows) - d
  /\ \A i \in 1..(Len(rows) - d) : left[i] = rows[d + i]

LEMMA RestShape ==
  ASSUME NEW rows \in Seq(Seq(Nat)), NEW d \in 0..Len(rows), NEW left, RestAfter(left, rows, d)
  PROVE  RestIs(left, rows, d)
<1>1. d \in Nat /\ Len(rows) \in Nat /\ d <= Len(rows) /\ DOMAIN rows = 1..Len(rows)
  OBVIOUS
<1>2. /\ left \in Seq(Seq(Nat)) /\ Len(left) = Len(rows) - d
      /\ \A i \in 1..(Len(rows) - d) : left[i] = rows[d + i]
  BY SubSeqShape DEF RestAfter
<1> QED
  BY <1>1, <1>2 DEF RestIs

\* One more part.
LEMMA PartSent ==
  ASSUME NEW q, NEW kind, NEW rows \in Seq(Seq(Nat)), Distinct(rows, q), NEW d \in 0..Len(rows),
         NEW left, RestAfter(left, rows, d), NEW n \in 0..Len(left),
         NEW sent, SentUpTo(sent, rows, d, kind, q)
  PROVE  /\ d + n \in 0..Len(rows)
         /\ RestAfter(SubSeq(left, n + 1, Len(left)), rows, d + n)
         /\ n = Len(left) => d + n = Len(rows)
         /\ SentUpTo(sent \o Part(kind, left, q, n), rows, d + n, kind, q)
<1> DEFINE part == Part(kind, left, q, n)
           all == sent \o part
<1>0. RestIs(left, rows, d)
  BY RestShape
<1>19. n \in Nat
  <2>1. left \in Seq(Seq(Nat))
    BY <1>0 DEF RestIs
  <2> QED
    BY <2>1
<1>1. /\ d \in Nat /\ n \in Nat /\ Len(rows) \in Nat /\ d <= Len(rows) /\ DOMAIN rows = 1..Len(rows)
      /\ left \in Seq(Seq(Nat)) /\ Len(left) = Len(rows) - d
      /\ \A i \in 1..(Len(rows) - d) : left[i] = rows[d + i]
  BY <1>0, <1>19 DEF RestIs
<1> DEFINE l == Len(rows)
           h == Len(left)
<1>2. l \in Nat /\ h \in Nat /\ d \in Nat /\ n \in Nat /\ h = l - d /\ n <= h
  <2>1. n \in 0..h
    OBVIOUS
  <2>2. l \in Nat /\ d \in Nat /\ n \in Nat /\ h = l - d /\ h \in Nat
    BY <1>1
  <2> HIDE DEF l, h
  <2> QED
    BY <2>1, <2>2
<1>3. d + n \in 0..l /\ (n = h => d + n = l) /\ h - n = l - (d + n) /\ h - n \in Nat
  <2> HIDE DEF l, h
  <2> QED
    BY <1>2
<1>20. RestAfter(SubSeq(left, n + 1, Len(left)), rows, d + n)
  <2> DEFINE a == SubSeq(left, n + 1, h)
             b == SubSeq(rows, (d + n) + 1, l)
  <2>1. a \in Seq(Seq(Nat)) /\ Len(a) = h - n /\ \A i \in 1..(h - n) : a[i] = left[n + i]
    <3>1. left \in Seq(Seq(Nat)) /\ n \in 0..Len(left)
      BY <1>1
    <3> QED
      BY <3>1, SubSeqShape
  <2>2. /\ b \in Seq(Seq(Nat)) /\ Len(b) = l - (d + n)
        /\ \A i \in 1..(l - (d + n)) : b[i] = rows[(d + n) + i]
    BY <1>3, SubSeqShape
  <2>3. \A i \in 1..(h - n) : left[n + i] = rows[(d + n) + i]
    <3> TAKE i \in 1..(h - n)
    <3>1. n + i \in 1..(l - d) /\ d + (n + i) = (d + n) + i
      <4> HIDE DEF l, h
      <4> QED
        BY <1>2
    <3>2. left[n + i] = rows[d + (n + i)]
      BY <1>1, <3>1
    <3> HIDE DEF l, h
    <3> QED
      BY <3>1, <3>2
  <2> HIDE DEF a, b, l, h
  <2>4. Len(a) = Len(b) /\ \A i \in 1..Len(a) : a[i] = b[i]
    BY <1>3, <2>1, <2>2, <2>3
  <2>5. a = b
    <3>1. a = [i \in 1..Len(a) |-> a[i]] /\ b = [i \in 1..Len(b) |-> b[i]]
      BY <2>1, <2>2
    <3> QED
      BY <2>4, <3>1
  <2> QED
    BY <2>5 DEF RestAfter, a, b, l, h
<1>4. /\ part \in Seq(Seq(Nat))
      /\ \A j \in DOMAIN part : \E i \in 1..n : part[j] = left[i] /\ Sends(kind, left[i], q)
      /\ \A i \in 1..n : Sends(kind, left[i], q) => \E j \in DOMAIN part : part[j] = left[i]
      /\ \A j, k \in DOMAIN part : j # k => \E i, m \in 1..n : i # m /\ part[j] = left[i] /\ part[k] = left[m]
  <2>1. left \in Seq(Seq(Nat)) /\ n \in 0..Len(left)
    BY <1>1
  <2>2. PartOf(part, left, n, kind, q)
    BY <2>1, RowsOfPart
  <2> HIDE DEF part
  <2> QED
    BY <2>2 DEF PartOf
<1> HIDE DEF part
<1>5. \A i \in 1..n : d + i \in 1..(d + n) /\ d + i \in 1..Len(rows) /\ d + i > d /\ left[i] = rows[d + i]
  <2> TAKE i \in 1..n
  <2>1. d + i \in 1..(d + n) /\ d + i \in 1..l /\ d + i > d /\ i \in 1..(l - d)
    <3> HIDE DEF l, h
    <3> QED
      BY <1>2
  <2> QED
    BY <1>1, <2>1
<1>6. \A m \in 1..(d + n) : m \in 1..d \/ \E i \in 1..n : m = d + i
  <2> TAKE m \in 1..(d + n)
  <2>1. CASE m > d
    <3>1. m - d \in 1..n /\ m = d + (m - d)
      BY <1>1, <2>1
    <3> QED
      BY <3>1
  <2>2. CASE ~(m > d)
    BY <1>1, <2>2
  <2> QED
    BY <2>1, <2>2
<1>7. /\ all \in Seq(Seq(Nat)) /\ Len(all) = Len(sent) + Len(part) /\ Len(sent) \in Nat /\ Len(part) \in Nat
      /\ DOMAIN sent = 1..Len(sent) /\ DOMAIN part = 1..Len(part) /\ DOMAIN all = 1..(Len(sent) + Len(part))
      /\ \A i \in 1..Len(sent) : all[i] = sent[i]
      /\ \A i \in 1..Len(part) : all[Len(sent) + i] = part[i]
      /\ \A i \in DOMAIN all : i \in 1..Len(sent) \/ \E j \in 1..Len(part) : i = Len(sent) + j
  <2>1. sent \in Seq(Seq(Nat))
    BY DEF SentUpTo
  <2>2. /\ all \in Seq(Seq(Nat)) /\ Len(all) = Len(sent) + Len(part) /\ Len(sent) \in Nat /\ Len(part) \in Nat
        /\ \A i \in 1..Len(sent) : all[i] = sent[i]
        /\ \A i \in 1..Len(part) : all[Len(sent) + i] = part[i]
        /\ \A i \in DOMAIN all : i \in 1..Len(sent) \/ \E j \in 1..Len(part) : i = Len(sent) + j
    BY <1>4, <2>1, ConcatShape
  <2> HIDE DEF all
  <2> QED
    BY <1>4, <2>1, <2>2
<1>8. \A i \in 1..Len(part) : Len(sent) + i \in DOMAIN all
  BY <1>7
<1>9. \A i \in 1..Len(sent) : i \in DOMAIN all
  BY <1>7
<1> HIDE DEF all
<1> DEFINE Keep(m) == Sends(kind, rows[m], q)
           Full(row) == Len(row) = Width(q)
\* From which row a row came.
<1>10. \A i \in 1..Len(sent) : \E m \in 1..d : all[i] = rows[m] /\ Keep(m)
  <2> TAKE i \in 1..Len(sent)
  <2>1. i \in DOMAIN sent /\ all[i] = sent[i]
    BY <1>7
  <2>2. PICK m \in 1..d : sent[i] = rows[m] /\ Keep(m)
    BY <2>1 DEF SentUpTo
  <2> QED
    BY <2>1, <2>2
<1>11. \A j \in 1..Len(part) : \E i \in 1..n : all[Len(sent) + j] = rows[d + i] /\ Keep(d + i)
  <2> TAKE j \in 1..Len(part)
  <2>1. PICK i \in 1..n : part[j] = left[i] /\ Sends(kind, left[i], q)
    BY <1>4, <1>7
  <2> QED
    BY <1>5, <1>7, <2>1
<1>12. \A i \in DOMAIN all : \E m \in 1..(d + n) : all[i] = rows[m] /\ Keep(m)
  <2> TAKE i \in DOMAIN all
  <2>1. \A m \in 1..d : m \in 1..(d + n)
    BY <1>1
  <2>2. CASE i \in 1..Len(sent)
    BY <1>10, <2>1, <2>2
  <2>3. CASE \E j \in 1..Len(part) : i = Len(sent) + j
    BY <1>5, <1>11, <2>3
  <2> QED
    BY <1>7, <2>2, <2>3
<1>13. \A m \in 1..(d + n) : Keep(m) => \E i \in DOMAIN all : all[i] = rows[m]
  <2> SUFFICES ASSUME NEW m \in 1..(d + n), Keep(m) PROVE \E i \in DOMAIN all : all[i] = rows[m]
    OBVIOUS
  <2>1. CASE m \in 1..d
    <3>1. PICK i \in DOMAIN sent : sent[i] = rows[m]
      BY <2>1 DEF SentUpTo
    <3> QED
      BY <1>7, <1>9, <3>1
  <2>2. CASE \E i \in 1..n : m = d + i
    <3>1. PICK i \in 1..n : m = d + i
      BY <2>2
    <3>2. left[i] = rows[m]
      BY <1>5, <3>1
    <3>3. PICK j \in DOMAIN part : part[j] = left[i]
      BY <1>4, <3>2
    <3> QED
      BY <1>7, <1>8, <3>2, <3>3
  <2> QED
    BY <1>6, <2>1, <2>2
<1>14. \A m, k \in 1..Len(rows) : Full(rows[m]) /\ rows[m] = rows[k] => m = k
  BY <1>1 DEF Distinct
<1>15. \A m \in 1..d : \A i \in 1..n : m \in 1..Len(rows) /\ m # d + i
  <2>1. \A m \in 1..d : \A i \in 1..n : m \in 1..l /\ m # d + i
    <3> HIDE DEF l, h
    <3> QED
      BY <1>2
  <2> QED
    BY <2>1
<1>16. ASSUME NEW i \in DOMAIN all, NEW j \in DOMAIN all, Full(all[i]), all[i] = all[j]
       PROVE  i = j
  <2>1. CASE i \in 1..Len(sent) /\ j \in 1..Len(sent)
    BY <1>7, <1>16, <2>1 DEF SentUpTo
  <2>2. CASE i \in 1..Len(sent) /\ j \notin 1..Len(sent)
    <3>1. PICK b \in 1..Len(part) : j = Len(sent) + b
      BY <1>7, <2>2
    <3>2. PICK m \in 1..d : all[i] = rows[m]
      BY <1>10, <2>2
    <3>3. PICK k \in 1..n : all[j] = rows[d + k]
      BY <1>11, <3>1
    <3> QED
      BY <1>5, <1>14, <1>15, <1>16, <3>2, <3>3
  <2>3. CASE i \notin 1..Len(sent) /\ j \in 1..Len(sent)
    <3>1. PICK b \in 1..Len(part) : i = Len(sent) + b
      BY <1>7, <2>3
    <3>2. PICK m \in 1..d : all[j] = rows[m]
      BY <1>10, <2>3
    <3>3. PICK k \in 1..n : all[i] = rows[d + k]
      BY <1>11, <3>1
    <3> QED
      BY <1>5, <1>14, <1>15, <1>16, <3>2, <3>3
  <2>4. CASE i \notin 1..Len(sent) /\ j \notin 1..Len(sent)
    <3>1. PICK a \in 1..Len(part), b \in 1..Len(part) : i = Len(sent) + a /\ j = Len(sent) + b
      BY <1>7, <2>4
    <3>2. all[i] = part[a] /\ all[j] = part[b] /\ a \in DOMAIN part /\ b \in DOMAIN part
      BY <1>7, <3>1
    <3>3. ASSUME a # b PROVE FALSE
      <4>1. PICK k \in 1..n, m \in 1..n : k # m /\ part[a] = left[k] /\ part[b] = left[m]
        BY <1>4, <3>2, <3>3
      <4>2. all[i] = rows[d + k] /\ all[j] = rows[d + m] /\ d + k \in 1..Len(rows) /\ d + m \in 1..Len(rows)
        BY <1>5, <3>2, <4>1
      <4>3. d + k = d + m
        BY <1>14, <1>16, <4>2
      <4> QED
        BY <1>1, <4>1, <4>3
    <3> QED
      BY <3>1, <3>3
  <2> QED
    BY <2>1, <2>2, <2>3, <2>4
<1>17. SentUpTo(all, rows, d + n, kind, q)
  <2>1. all \in Seq(Seq(Nat))
    BY <1>7
  <2> QED
    BY <1>12, <1>13, <1>16, <2>1 DEF SentUpTo
<1> QED
  BY <1>3, <1>17, <1>20 DEF all, part

\* The sorted copy has every full row once.
LEMMA RowsOfSorted ==
  ASSUME NEW points, PointSet(points), NEW q
  PROVE  /\ \A i \in DOMAIN SortedRows(points, q) : \E x \in Matches(points, q) :
              SortedRows(points, q)[i] = Values(x, q) /\ Len(Values(x, q)) = Width(q)
         /\ \A x \in Matches(points, q) : Len(Values(x, q)) = Width(q) =>
              \E i \in DOMAIN SortedRows(points, q) : SortedRows(points, q)[i] = Values(x, q)
         /\ \A i, j \in DOMAIN SortedRows(points, q) :
              SortedRows(points, q)[i] = SortedRows(points, q)[j] => i = j
<1> DEFINE rows == Rows(points, q)
           R == {row \in Range(rows) : Sends("sorted", row, q)}
           w == Width(q)
           n == Cardinality(R)
           a == SortedRows(points, q)
           M == Matches(points, q)
<1>1. w \in 0..2
  BY WidthOfPattern
<1>2. /\ rows \in Seq(Seq(Nat))
      /\ \A m \in DOMAIN rows : \E x \in M : rows[m] = Values(x, q)
      /\ \A x \in M : \E m \in DOMAIN rows : rows[m] = Values(x, q)
  BY RowsOfScan
<1>3. \A row : row \in R <=> (\E m \in DOMAIN rows : row = rows[m]) /\ Len(row) = w
  BY DEF Range, Sends
<1>4. a = Ascending(R)
  BY DEF SortedRows
<1> HIDE DEF rows, R, w, a, M
<1>5. IsFiniteSet(R) /\ R \in SUBSET RowsOf(w)
  <2>1. Len(rows) \in Nat /\ DOMAIN rows = 1..Len(rows) /\ \A m \in DOMAIN rows : rows[m] \in Seq(Nat)
    BY <1>2
  <2>2. R \in SUBSET RowsOf(w)
    BY <1>3, <2>1 DEF RowsOf
  <2>3. IsFiniteSet(Range(rows))
    <3>1. IsFiniteSet(DOMAIN rows)
      BY <2>1, FS_Interval
    <3> DEFINE f == [i \in DOMAIN rows |-> rows[i]]
    <3>2. f \in Surjection(DOMAIN rows, Range(rows))
      BY DEF Surjection, Range
    <3> HIDE DEF f
    <3> QED
      BY <3>1, <3>2, FS_Surjection
  <2>4. R \in SUBSET Range(rows)
    BY DEF R
  <2> QED
    BY <2>2, <2>3, <2>4, FS_Subset
<1>6. /\ n \in Nat /\ a \in [1..n -> R]
      /\ \A i, j \in 1..n : i < j => RowBefore(a[i], a[j])
      /\ \A x \in R : \E i \in 1..n : a[i] = x
  BY <1>1, <1>4, <1>5, AscendingSorts
<1> HIDE DEF n
<1>7. DOMAIN a = 1..n /\ \A i \in 1..n : a[i] \in R
  BY <1>6
<1>8. \A row \in R : ~RowBefore(row, row)
  <2> TAKE row \in R
  <2>1. row \in RowsOf(w)
    BY <1>5
  <2> QED
    BY <1>1, <2>1, RowOrder
<1>9. \A i, j \in DOMAIN a : a[i] = a[j] => i = j
  <2> TAKE i, j \in DOMAIN a
  <2>1. i \in 1..n /\ j \in 1..n /\ (i < j \/ j < i \/ i = j)
    BY <1>6, <1>7
  <2> QED
    BY <1>6, <1>7, <1>8, <2>1
<1>10. \A i \in DOMAIN a : \E x \in M : a[i] = Values(x, q) /\ Len(Values(x, q)) = w
  <2> TAKE i \in DOMAIN a
  <2>1. a[i] \in R
    BY <1>7
  <2> QED
    BY <1>2, <1>3, <2>1
<1>11. \A x \in M : Len(Values(x, q)) = w => \E i \in DOMAIN a : a[i] = Values(x, q)
  <2> SUFFICES ASSUME NEW x \in M, Len(Values(x, q)) = w PROVE \E i \in DOMAIN a : a[i] = Values(x, q)
    OBVIOUS
  <2>1. Values(x, q) \in R
    BY <1>2, <1>3
  <2> QED
    BY <1>6, <1>7, <2>1
<1> QED
  BY <1>9, <1>10, <1>11 DEF a, M, w

-----------------------------------------------------------------------------
(* Streams that are open.                                                  *)

\* What a stream that is not for an exact match has sent: of a scan, the rows up to
\* the ones that are left; of a sorted copy, all of it when it says so.
AnswerOK(st) ==
  /\ PointSet(st.points)
  /\ ~Exact(st.q) /\ st.kind # "sorted" =>
       \E d \in 0..Len(Rows(st.points, st.q)) :
         /\ RestAfter(st.left, Rows(st.points, st.q), d)
         /\ SentUpTo(st.sent, Rows(st.points, st.q), d, st.kind, st.q)
         /\ st.status = "last" => d = Len(Rows(st.points, st.q))
  /\ ~Exact(st.q) /\ st.kind = "sorted" =>
       /\ st.left = SortedRows(st.points, st.q)
       /\ st.left = << >> => st.sent = << >>
       /\ st.status = "last" => st.sent = st.left

\* A stream keeps its sorted copy whole.
StreamOK(st) ==
  /\ st = [kind |-> st.kind, q |-> st.q, points |-> st.points, missing |-> st.missing,
           left |-> st.left, sent |-> st.sent, exact |-> st.exact, status |-> st.status]
  /\ st.kind = "sorted" => st.left \in Seq(Seq(Nat))
  /\ AnswerOK(st)

ChannelOK(ch) ==
  /\ ch = [state |-> ch.state, predicates |-> ch.predicates, streams |-> ch.streams]
  /\ ch.streams \in Seq(Range(ch.streams))
  /\ \A k \in DOMAIN ch.streams : StreamOK(ch.streams[k])

ChannelsOK(chs) ==
  /\ chs = [c \in Clients |-> chs[c]]
  /\ \A c \in Clients : ChannelOK(chs[c])

StreamsInv == ChannelsOK(channel)

LEMMA WholeSeq ==
  ASSUME NEW S, NEW rows \in Seq(S)
  PROVE  SubSeq(rows, 1, Len(rows)) = rows
<1> DEFINE a == SubSeq(rows, 1, Len(rows))
<1>1. a \in Seq(S) /\ Len(a) = Len(rows) /\ \A i \in 1..Len(rows) : a[i] = rows[i]
  OBVIOUS
<1> HIDE DEF a
<1>2. a = [i \in 1..Len(a) |-> a[i]] /\ rows = [i \in 1..Len(rows) |-> rows[i]]
  BY <1>1
<1>3. a = rows
  BY <1>1, <1>2
<1> QED
  BY <1>3 DEF a

LEMMA NothingSent ==
  ASSUME NEW rows \in Seq(Seq(Nat)), NEW kind, NEW q
  PROVE  0 \in 0..Len(rows) /\ RestAfter(rows, rows, 0) /\ SentUpTo(<< >>, rows, 0, kind, q)
<1>1. RestAfter(rows, rows, 0)
  <2>1. 0 + 1 = 1
    OBVIOUS
  <2> QED
    BY <2>1, WholeSeq DEF RestAfter
<1>2. SentUpTo(<< >>, rows, 0, kind, q)
  <2>1. << >> \in Seq(Seq(Nat)) /\ DOMAIN << >> = {} /\ 1..0 = {}
    OBVIOUS
  <2> QED
    BY <2>1 DEF SentUpTo
<1> QED
  BY <1>1, <1>2

\* The first part of AnswerOK, and the last.
LEMMA AnswerOfScan ==
  ASSUME NEW st, st.kind # "sorted", PointSet(st.points),
         NEW d \in 0..Len(Rows(st.points, st.q)),
         RestAfter(st.left, Rows(st.points, st.q), d),
         SentUpTo(st.sent, Rows(st.points, st.q), d, st.kind, st.q),
         st.status = "last" => d = Len(Rows(st.points, st.q))
  PROVE  AnswerOK(st)
BY DEF AnswerOK

LEMMA AnswerOfSorted ==
  ASSUME NEW st, st.kind = "sorted", PointSet(st.points),
         st.left = SortedRows(st.points, st.q), st.left = << >> => st.sent = << >>,
         st.status = "last" => st.sent = st.left
  PROVE  AnswerOK(st)
BY DEF AnswerOK

\* A stream that only changes its status keeps its answer.
LEMMA AnswerKept ==
  ASSUME NEW st, AnswerOK(st), NEW re, re.points = st.points, re.q = st.q, re.kind = st.kind,
         re.left = st.left, re.sent = st.sent, re.status # "last"
  PROVE  AnswerOK(re)
BY DEF AnswerOK

LEMMA NewAnswer ==
  ASSUME PointsInv, NEW q, NEW t, \A p \in DOMAIN t : PointSet(t[p])
  PROVE  AnswerOK(NewStream(q, t))
<1> DEFINE st == NewStream(q, t)
           points == IF KindFor(q.p) = "cached" THEN fic[q.p] ELSE At(t, q.p)
<1>1. PointSet(points)
  <2>1. KindFor(q.p) = "cached" => q.p \in DOMAIN fic
    BY DEF KindFor
  <2> QED
    BY <2>1, EmptyPoints DEF PointsInv, At
<1>2. /\ st.points = points /\ st.q = q /\ st.sent = << >> /\ st.status = "open"
      /\ ~Exact(q) /\ st.kind = "sorted" => st.left = SortedRows(points, q)
      /\ ~Exact(q) /\ st.kind # "sorted" => st.left = Rows(points, q)
  BY DEF NewStream
<1> HIDE DEF st, points
<1>3. CASE Exact(q)
  BY <1>1, <1>2, <1>3 DEF AnswerOK, st
<1>4. CASE ~Exact(q) /\ st.kind = "sorted"
  <2>1. AnswerOK(st)
    BY <1>1, <1>2, <1>4, AnswerOfSorted
  <2> QED
    BY <2>1 DEF st
<1>5. CASE ~Exact(q) /\ st.kind # "sorted"
  <2> DEFINE rows == Rows(points, q)
  <2>1. rows \in Seq(Seq(Nat))
    BY <1>1, RowsOfScan
  <2>2. 0 \in 0..Len(rows) /\ RestAfter(rows, rows, 0) /\ SentUpTo(<< >>, rows, 0, st.kind, q)
    BY <2>1, NothingSent
  <2>3. rows = Rows(st.points, st.q) /\ st.left = rows
    BY <1>2, <1>5
  <2> HIDE DEF rows
  <2>4. AnswerOK(st)
    BY <1>1, <1>2, <1>5, <2>2, <2>3, AnswerOfScan
  <2> QED
    BY <2>4 DEF st
<1> QED
  BY <1>3, <1>4, <1>5

\* get_next_response of a scan goes on where the last part ended.
LEMMA ScanAnswer ==
  ASSUME NEW st, AnswerOK(st), ~Exact(st.q), st.kind # "sorted", NEW re,
         re.points = st.points, re.q = st.q, re.kind = st.kind,
         re.left = SubSeq(st.left, PartLength(st.kind, st.left, st.q) + 1, Len(st.left)),
         re.sent = st.sent \o Part(st.kind, st.left, st.q, PartLength(st.kind, st.left, st.q)),
         re.status = "last" => PartLength(st.kind, st.left, st.q) = Len(st.left)
  PROVE  AnswerOK(re)
<1> DEFINE rows == Rows(st.points, st.q)
           n == PartLength(st.kind, st.left, st.q)
<1>1. PointSet(st.points)
  BY DEF AnswerOK
<1>2. rows \in Seq(Seq(Nat)) /\ Distinct(rows, st.q)
  BY <1>1, RowsOfScan
<1>3. PICK d \in 0..Len(rows) : RestAfter(st.left, rows, d) /\ SentUpTo(st.sent, rows, d, st.kind, st.q)
  BY DEF AnswerOK
<1>4. st.left \in Seq(Seq(Nat))
  <2> HIDE DEF rows
  <2> QED
    BY <1>2, <1>3, RestShape DEF RestIs
<1>5. n \in 0..Len(st.left)
  BY <1>4, PartFits
<1>6. rows = Rows(re.points, re.q)
  OBVIOUS
<1>7. /\ re.left = SubSeq(st.left, n + 1, Len(st.left)) /\ re.sent = st.sent \o Part(st.kind, st.left, st.q, n)
      /\ re.status = "last" => n = Len(st.left)
  OBVIOUS
<1> HIDE DEF rows, n
<1>8. /\ d + n \in 0..Len(rows)
      /\ RestAfter(SubSeq(st.left, n + 1, Len(st.left)), rows, d + n)
      /\ n = Len(st.left) => d + n = Len(rows)
      /\ SentUpTo(st.sent \o Part(st.kind, st.left, st.q, n), rows, d + n, st.kind, st.q)
  BY <1>2, <1>3, <1>5, PartSent
<1>9. /\ d + n \in 0..Len(rows) /\ RestAfter(re.left, rows, d + n)
      /\ SentUpTo(re.sent, rows, d + n, re.kind, re.q) /\ (re.status = "last" => d + n = Len(rows))
  BY <1>7, <1>8
<1> QED
  BY <1>1, <1>6, <1>9, AnswerOfScan

\* A sorted stream that says that it is done has sent its copy.
LEMMA SortedAnswer ==
  ASSUME NEW st, AnswerOK(st), ~Exact(st.q), st.kind = "sorted", st.left \in Seq(Seq(Nat)), NEW re,
         re.points = st.points, re.q = st.q, re.kind = st.kind, re.left = st.left,
         st.left # << >>,
         re.sent = SubSeq(st.left, 1, SortedPartLength(st.left, st.q)),
         re.status = "last" => SortedPartLength(st.left, st.q) = Len(st.left)
  PROVE  AnswerOK(re)
<1>1. PointSet(re.points) /\ re.left = SortedRows(re.points, re.q)
  BY DEF AnswerOK
<1>2. re.status = "last" => re.sent = re.left
  BY WholeSeq
<1> QED
  BY <1>1, <1>2, AnswerOfSorted

LEMMA NewStreamOK ==
  ASSUME PointsInv, NEW q, NEW t, \A p \in DOMAIN t : PointSet(t[p])
  PROVE  StreamOK(NewStream(q, t))
<1> DEFINE st == NewStream(q, t)
           points == IF KindFor(q.p) = "cached" THEN fic[q.p] ELSE At(t, q.p)
<1>1. PointSet(points)
  <2>1. KindFor(q.p) = "cached" => q.p \in DOMAIN fic
    BY DEF KindFor
  <2> QED
    BY <2>1, EmptyPoints DEF PointsInv, At
<1>2. /\ st = [kind |-> st.kind, q |-> st.q, points |-> st.points, missing |-> st.missing,
               left |-> st.left, sent |-> st.sent, exact |-> st.exact, status |-> st.status]
      /\ st.sent = << >>
      /\ st.kind = "sorted" => st.left = << >> \/ st.left = SortedRows(points, q)
  BY DEF NewStream
<1> HIDE DEF st, points
<1>3. st.kind = "sorted" => st.left \in Seq(Seq(Nat))
  <2>1. SortedRows(points, q) \in Seq(Seq(Nat))
    BY <1>1, SortedRowsType DEF PointSet
  <2>2. << >> \in Seq(Seq(Nat))
    OBVIOUS
  <2> QED
    BY <1>2, <2>1, <2>2
<1> QED
  BY <1>2, <1>3, NewAnswer DEF StreamOK, st

LEMMA RespondOK ==
  ASSUME NEW st, StreamOK(st)
  PROVE  StreamOK(Respond(st))
<1> DEFINE re == Respond(st)
           Shape(r) == r = [kind |-> r.kind, q |-> r.q, points |-> r.points, missing |-> r.missing,
                            left |-> r.left, sent |-> r.sent, exact |-> r.exact, status |-> r.status]
<1>1. Shape(st)
  BY DEF StreamOK
<1>2. CASE st.kind = "sorted"
  <2>1. re = RespondSorted(st)
    BY <1>2 DEF Respond
  <2>2. CASE st.left = << >>
    <3>1. /\ Shape(re) /\ re.kind = st.kind /\ re.left = st.left /\ re.sent = st.sent
          /\ re.points = st.points /\ re.q = st.q
      BY <1>1, <2>1, <2>2 DEF RespondSorted, RespondEmpty
    <3> HIDE DEF re
    <3>2. AnswerOK(re)
      BY <1>2, <2>2, <3>1 DEF StreamOK, AnswerOK
    <3> QED
      BY <1>2, <3>1, <3>2 DEF StreamOK, re
  <2>3. CASE st.left # << >>
    <3>1. /\ Shape(re) /\ re.kind = st.kind /\ re.left = st.left
          /\ re.sent = SubSeq(st.left, 1, SortedPartLength(st.left, st.q))
          /\ re.points = st.points /\ re.q = st.q
          /\ re.status = "last" => SortedPartLength(st.left, st.q) = Len(st.left)
      BY <1>1, <2>1, <2>3 DEF RespondSorted
    <3>2. st.left \in Seq(Seq(Nat))
      BY <1>2 DEF StreamOK
    <3> HIDE DEF re
    <3>3. AnswerOK(re)
      <4>1. CASE Exact(st.q)
        BY <3>1, <4>1 DEF StreamOK, AnswerOK
      <4>2. CASE ~Exact(st.q)
        BY <1>2, <2>3, <3>1, <3>2, <4>2, SortedAnswer DEF StreamOK
      <4> QED
        BY <4>1, <4>2
    <3> QED
      BY <3>1, <3>2, <3>3 DEF StreamOK, re
  <2> QED
    BY <2>2, <2>3
<1>3. CASE st.kind # "sorted"
  <2>1. re = RespondExact(st) \/ re = RespondScan(st)
    BY <1>3 DEF Respond
  <2>2. Shape(re) /\ re.kind = st.kind /\ re.points = st.points /\ re.q = st.q
    BY <1>1, <2>1 DEF RespondExact, RespondScan
  <2>3. AnswerOK(re)
    <3>1. CASE Exact(st.q)
      <4> HIDE DEF re
      <4> QED
        BY <2>2, <3>1 DEF StreamOK, AnswerOK
    <3>2. CASE ~Exact(st.q)
      <4>1. re = RespondScan(st)
        BY <1>3, <3>2 DEF Respond
      <4>2. /\ re.left = SubSeq(st.left, PartLength(st.kind, st.left, st.q) + 1, Len(st.left))
            /\ re.sent = st.sent \o Part(st.kind, st.left, st.q, PartLength(st.kind, st.left, st.q))
            /\ re.status = "last" => PartLength(st.kind, st.left, st.q) = Len(st.left)
        BY <1>1, <4>1 DEF RespondScan
      <4> HIDE DEF re
      <4> QED
        BY <1>3, <2>2, <3>2, <4>2, ScanAnswer DEF StreamOK
    <3> QED
      BY <3>1, <3>2
  <2> HIDE DEF re
  <2> QED
    BY <1>3, <2>2, <2>3 DEF StreamOK, re
<1> QED
  BY <1>2, <1>3

\* A stream that loses its source keeps what it sent.
LEMMA BrokenOK ==
  ASSUME NEW chs, ChannelsOK(chs), NEW kind, NEW S
  PROVE  ChannelsOK(Broken(chs, kind, S))
<1> DEFINE new == Broken(chs, kind, S)
<1>1. ASSUME NEW c \in Clients PROVE ChannelOK(new[c])
  <2> DEFINE s == chs[c].streams
             Now(k) == IF s[k].kind = kind /\ s[k].q.p \in S /\ s[k].status = "open"
                        THEN [s[k] EXCEPT !.status = "undefined"] ELSE s[k]
             t == [k \in DOMAIN s |-> Now(k)]
  <2>1. s \in Seq(Range(s)) /\ \A k \in DOMAIN s : StreamOK(s[k])
    BY DEF ChannelsOK, ChannelOK
  <2>2. /\ new[c] = [chs[c] EXCEPT !.streams = t]
        /\ chs[c] = [state |-> chs[c].state, predicates |-> chs[c].predicates, streams |-> s]
    BY DEF Broken, ChannelsOK, ChannelOK
  <2>3. \A k \in DOMAIN s : StreamOK(Now(k))
    <3> TAKE k \in DOMAIN s
    <3>1. StreamOK(s[k])
      BY <2>1
    <3> DEFINE st == s[k]
               re == [st EXCEPT !.status = "undefined"]
    <3>2. /\ re = [kind |-> st.kind, q |-> st.q, points |-> st.points, missing |-> st.missing,
                   left |-> st.left, sent |-> st.sent, exact |-> st.exact, status |-> "undefined"]
      BY <3>1 DEF StreamOK
    <3>3. Now(k) = st \/ Now(k) = re
      OBVIOUS
    <3> HIDE DEF st, re, Now
    <3>4. StreamOK(re)
      <4>1. StreamOK(st) /\ AnswerOK(st)
        BY <3>1 DEF StreamOK, st
      <4>2. AnswerOK(re)
        BY <3>2, <4>1, AnswerKept
      <4> QED
        BY <3>2, <4>1, <4>2 DEF StreamOK
    <3> QED
      BY <3>1, <3>3, <3>4 DEF st
  <2> HIDE DEF s, Now
  <2>4. DOMAIN t = DOMAIN s /\ \A k \in DOMAIN s : t[k] = Now(k)
    OBVIOUS
  <2>5. t \in Seq(Range(t))
    <3>1. Len(s) \in Nat /\ DOMAIN s = 1..Len(s)
      BY <2>1
    <3>2. \A k \in DOMAIN t : t[k] \in Range(t)
      BY DEF Range
    <3> QED
      BY <2>4, <3>1, <3>2
  <2> HIDE DEF t
  <2> HIDE DEF new
  <2>6. /\ new[c].streams = t
        /\ new[c] = [state |-> new[c].state, predicates |-> new[c].predicates, streams |-> new[c].streams]
    BY <2>2
  <2>7. \A k \in DOMAIN t : StreamOK(t[k])
    BY <2>3, <2>4
  <2> QED
    BY <2>5, <2>6, <2>7 DEF ChannelOK
<1>2. new = [c \in Clients |-> new[c]]
  BY DEF Broken
<1> HIDE DEF new
<1>3. ChannelsOK(new)
  BY <1>1, <1>2 DEF ChannelsOK
<1> QED
  BY <1>3 DEF new

\* One channel changes.
LEMMA ChannelStepOK ==
  ASSUME NEW chs, ChannelsOK(chs), NEW c \in Clients, NEW ch, ChannelOK(ch)
  PROVE  ChannelsOK([chs EXCEPT ![c] = ch])
<1> DEFINE new == [chs EXCEPT ![c] = ch]
<1>1. /\ DOMAIN chs = Clients /\ new[c] = ch
      /\ \A d \in Clients : d # c => new[d] = chs[d]
      /\ new = [d \in Clients |-> new[d]]
  BY DEF ChannelsOK
<1> HIDE DEF new
<1>2. ChannelsOK(new)
  BY <1>1 DEF ChannelsOK
<1> QED
  BY <1>2 DEF new

LEMMA LockedChannel ==
  ASSUME NEW ch, NEW a, NEW ps,
         ch = [state |-> ch.state, predicates |-> ch.predicates, streams |-> ch.streams]
  PROVE  [ch EXCEPT !.state = a, !.predicates = ps] = [state |-> a, predicates |-> ps, streams |-> ch.streams]
<1> DEFINE r == [ch EXCEPT !.state = a, !.predicates = ps]
<1>1. DOMAIN ch = {"state", "predicates", "streams"}
  OBVIOUS
<1>2. r = [f \in DOMAIN ch |-> IF f = "predicates" THEN ps ELSE IF f = "state" THEN a ELSE ch[f]]
  OBVIOUS
<1> HIDE DEF r
<1>3. r = [f \in {"state", "predicates", "streams"} |-> IF f = "predicates" THEN ps ELSE IF f = "state" THEN a ELSE ch[f]]
  BY <1>1, <1>2
<1>4. r.state = a /\ r.predicates = ps /\ r.streams = ch.streams
  BY <1>3
<1> QED
  BY <1>3, <1>4 DEF r

LEMMA StreamsStep ==
  ASSUME FicInv, PointsInv, PointsInv', StreamsInv, [Next]_vars
  PROVE  StreamsInv'
<1> USE DEF data
\* A load breaks streams only.
<1>0. ASSUME NEW P, NEW l, NEW S, NEW chs, FetchTrees(P, l, S, chs), ChannelsOK(chs)
      PROVE  StreamsInv'
  <2>1. PICK a, b : channel' = Broken(Broken(chs, "cached", a), "plain", b)
    BY <1>0 DEF FetchTrees
  <2>2. ChannelsOK(Broken(chs, "cached", a))
    BY <1>0, BrokenOK
  <2> DEFINE once == Broken(chs, "cached", a)
  <2>3. ChannelsOK(once) /\ channel' = Broken(once, "plain", b)
    BY <2>1, <2>2
  <2> HIDE DEF once
  <2> QED
    BY <2>3, BrokenOK DEF StreamsInv
<1>1. ASSUME NEW c \in Clients, NEW ps \in Requests, LockPredicates(c, ps) PROVE StreamsInv'
  <2> DEFINE loaded == IF config.no_caching THEN ps ELSE ps \cap DOMAIN tree
             ch == [channel[c] EXCEPT !.state = "locked", !.predicates = loaded]
  <2>1. channel' = [channel EXCEPT ![c] = ch]
    BY <1>1 DEF LockPredicates
  <2>2. ChannelOK(channel[c])
    BY DEF StreamsInv, ChannelsOK
  <2> HIDE DEF loaded
  <2>3. ch.streams = channel[c].streams /\ ch = [state |-> ch.state, predicates |-> ch.predicates, streams |-> ch.streams]
    <3>1. channel[c] = [state |-> channel[c].state, predicates |-> channel[c].predicates, streams |-> channel[c].streams]
      BY <2>2 DEF ChannelOK
    <3>2. ch = [state |-> "locked", predicates |-> loaded, streams |-> channel[c].streams]
      BY <3>1, LockedChannel
    <3> HIDE DEF ch
    <3> QED
      BY <3>2
  <2> HIDE DEF ch
  <2>4. ChannelOK(ch)
    BY <2>2, <2>3 DEF ChannelOK
  <2> QED
    BY <2>1, <2>4, ChannelStepOK DEF StreamsInv
<1>9. ASSUME NEW c \in Clients, CreateChannel(c) PROVE StreamsInv'
  <2> DEFINE ch == [channel[c] EXCEPT !.state = "indexing"]
  <2>1. channel' = [channel EXCEPT ![c] = ch]
    BY <1>9 DEF CreateChannel
  <2>2. ChannelOK(ch)
    BY DEF StreamsInv, ChannelsOK, ChannelOK
  <2> HIDE DEF ch
  <2> QED
    BY <2>1, <2>2, ChannelStepOK DEF StreamsInv
<1>2. ASSUME NEW c \in Clients, NEW q \in Patterns, StartStream(c, q) PROVE StreamsInv'
  <2> DEFINE P == IF KindFor(q.p) = "cached" THEN {} ELSE Missing(q.p)
             st == Respond(NewStream(q, tree'))
             s == channel[c].streams
             t == Append(s, st)
             ch == [channel[c] EXCEPT !.streams = t]
  <2>1. FetchTrees(P, log, {}, [channel EXCEPT ![c] = ch])
    BY <1>2 DEF StartStream
  <2>2. StreamOK(st)
    <3>1. \A p \in DOMAIN tree' : PointSet(tree'[p])
      BY DEF PointsInv
    <3> QED
      BY <3>1, NewStreamOK, RespondOK
  <2>3. s \in Seq(Range(s)) /\ \A k \in DOMAIN s : StreamOK(s[k])
    BY DEF StreamsInv, ChannelsOK, ChannelOK
  <2>4. channel[c] = [state |-> channel[c].state, predicates |-> channel[c].predicates, streams |-> s]
    BY DEF StreamsInv, ChannelsOK, ChannelOK
  <2> HIDE DEF P, st, s
  <2>5. /\ Len(s) \in Nat /\ Len(t) = Len(s) + 1 /\ DOMAIN t = 1..Len(t) /\ DOMAIN s = 1..Len(s)
        /\ t[Len(t)] = st /\ \A k \in DOMAIN s : t[k] = s[k]
        /\ t = [k \in 1..Len(t) |-> t[k]]
    <3> DEFINE T == Range(s) \cup {st}
    <3>1. s \in Seq(T) /\ st \in T
      <4>1. \A k \in 1..Len(s) : s[k] \in T
        BY <2>3
      <4> HIDE DEF T
      <4>2. s \in Seq(T)
        BY <2>3, <4>1
      <4> QED
        BY <4>2 DEF T
    <3> HIDE DEF T
    <3>2. Append(s, st) \in Seq(T) /\ Len(Append(s, st)) = Len(s) + 1
      BY <3>1
    <3>3. \A k \in 1..(Len(s) + 1) : Append(s, st)[k] = IF k = Len(s) + 1 THEN st ELSE s[k]
      BY <3>1
    <3>4. Len(s) \in Nat /\ DOMAIN s = 1..Len(s)
      BY <3>1
    <3> HIDE DEF t
    <3>5. t \in Seq(T) /\ Len(t) = Len(s) + 1
      BY <3>2 DEF t
    <3>6. t[Len(s) + 1] = st /\ \A k \in DOMAIN s : t[k] = s[k]
      BY <3>3, <3>4 DEF t
    <3>7. DOMAIN t = 1..Len(t) /\ t = [k \in 1..Len(t) |-> t[k]]
      BY <3>5
    <3> QED
      BY <3>4, <3>5, <3>6, <3>7
  <2> HIDE DEF t
  <2>6. \A k \in DOMAIN t : StreamOK(t[k])
    BY <2>2, <2>3, <2>5
  <2>7. t \in Seq(Range(t))
    <3>1. \A k \in DOMAIN t : t[k] \in Range(t)
      BY DEF Range
    <3> QED
      BY <2>5, <3>1
  <2>8. ch.streams = t /\ ch = [state |-> ch.state, predicates |-> ch.predicates, streams |-> ch.streams]
    BY <2>4
  <2> HIDE DEF ch
  <2>9. ChannelOK(ch)
    BY <2>6, <2>7, <2>8 DEF ChannelOK
  <2> DEFINE chs == [channel EXCEPT ![c] = ch]
  <2>10. ChannelsOK(chs)
    BY <2>9, ChannelStepOK DEF StreamsInv
  <2>11. FetchTrees(P, log, {}, chs)
    BY <2>1
  <2> HIDE DEF chs
  <2> QED
    BY <1>0, <2>10, <2>11
<1>3. ASSUME NEW c \in Clients, NEW k \in 1..MaxPatterns, ContinueStream(c, k) PROVE StreamsInv'
  <2> DEFINE s == channel[c].streams
             st == Respond(s[k])
             t == [s EXCEPT ![k] = st]
             ch == [channel[c] EXCEPT !.streams = t]
  <2>1. channel' = [channel EXCEPT ![c] = ch] /\ k \in DOMAIN s
    BY <1>3 DEF ContinueStream
  <2>2. s \in Seq(Range(s)) /\ \A i \in DOMAIN s : StreamOK(s[i])
    BY DEF StreamsInv, ChannelsOK, ChannelOK
  <2>3. channel[c] = [state |-> channel[c].state, predicates |-> channel[c].predicates, streams |-> s]
    BY DEF StreamsInv, ChannelsOK, ChannelOK
  <2> HIDE DEF s
  <2>4. StreamOK(st)
    BY <2>1, <2>2, RespondOK
  <2> HIDE DEF st
  <2>5. /\ Len(s) \in Nat /\ DOMAIN t = 1..Len(s) /\ DOMAIN s = 1..Len(s)
        /\ t[k] = st /\ \A i \in DOMAIN s : i # k => t[i] = s[i]
        /\ t = [i \in 1..Len(s) |-> t[i]]
    BY <2>1, <2>2
  <2> HIDE DEF t
  <2>6. \A i \in DOMAIN t : StreamOK(t[i])
    BY <2>2, <2>4, <2>5
  <2>7. t \in Seq(Range(t))
    <3>1. \A i \in DOMAIN t : t[i] \in Range(t)
      BY DEF Range
    <3> QED
      BY <2>5, <3>1
  <2>8. ch.streams = t /\ ch = [state |-> ch.state, predicates |-> ch.predicates, streams |-> ch.streams]
    BY <2>3
  <2> HIDE DEF ch
  <2>9. ChannelOK(ch)
    BY <2>6, <2>7, <2>8 DEF ChannelOK
  <2> QED
    BY <2>1, <2>9, ChannelStepOK DEF StreamsInv
<1>4. ASSUME NEW c \in Clients, DoneWithPredicates(c) PROVE StreamsInv'
  <2> DEFINE ch == [state |-> "done", predicates |-> {}, streams |-> << >>]
  <2>1. channel' = [channel EXCEPT ![c] = ch]
    BY <1>4 DEF DoneWithPredicates
  <2>2. ChannelOK(ch)
    BY DEF ChannelOK
  <2> HIDE DEF ch
  <2> QED
    BY <2>1, <2>2, ChannelStepOK DEF StreamsInv
<1>5. CASE ChannelCreated
  <2> DEFINE c == indexing.client
             ch == [channel[c] EXCEPT !.state = "open"]
  <2>1. channel' = [channel EXCEPT ![c] = ch]
    BY <1>5 DEF ChannelCreated
  <2>2. CASE c \in Clients
    <3>1. ChannelOK(ch)
      BY <2>2 DEF StreamsInv, ChannelsOK, ChannelOK
    <3> HIDE DEF ch, c
    <3> QED
      BY <2>1, <2>2, <3>1, ChannelStepOK DEF StreamsInv
  <2>3. CASE c \notin Clients
    BY <2>1, <2>3 DEF StreamsInv, ChannelsOK
  <2> QED
    BY <2>2, <2>3
<1>6. ASSUME NEW p \in Predicates,
             IndexSkip(p) \/ EvictPredicate(p) \/ \E gone \in SUBSET DOMAIN fic : IndexScan(p, gone)
      PROVE  StreamsInv'
  <2>1. channel' = channel \/ \E S : channel' = Broken(channel, "cached", S)
    BY <1>6 DEF IndexSkip, EvictPredicate, IndexScan
  <2> QED
    BY <2>1, BrokenOK DEF StreamsInv
<1>7. ASSUME IndexPublish \/ (\E u \in Commits : UpdateLog(u)) \/ UpdateCheck \/ SyncMemory \/ UNCHANGED vars
      PROVE  StreamsInv'
  <2>1. channel' = channel
    BY <1>7 DEF IndexPublish, UpdateLog, UpdateCheck, SyncMemory, vars
  <2> QED
    BY <2>1 DEF StreamsInv
<1>8. ASSUME UpdateMerge \/ SyncDiscard PROVE StreamsInv'
  <2>1. channel' = channel \/ \E S : channel' = Broken(channel, "plain", S)
    BY <1>8 DEF UpdateMerge, SyncDiscard
  <2> QED
    BY <2>1, BrokenOK DEF StreamsInv
<1>10. ASSUME (\E p \in Predicates : LoadPredicate(p)) \/ UpdateResync \/ SyncFetch PROVE StreamsInv'
  <2>1. channel' = channel \/ \E P, l, S : FetchTrees(P, l, S, channel)
    BY <1>10 DEF LoadPredicate, UpdateResync, SyncFetch
  <2> QED
    BY <1>0, <2>1 DEF StreamsInv
<1> QED
  BY <1>1, <1>2, <1>3, <1>4, <1>5, <1>6, <1>7, <1>8, <1>9, <1>10 DEF Next

LEMMA InitStreams == Init => PointsInv /\ StreamsInv
<1> SUFFICES ASSUME Init PROVE PointsInv /\ StreamsInv
  OBVIOUS
<1>1. PointsInv
  <2>1. \A p \in DOMAIN Initial : PointSet(Initial[p])
    BY StreamsAssumption DEF PointSet
  <2>2. \A p \in DOMAIN tree : PointSet(tree[p])
    BY <2>1 DEF Init
  <2> QED
    BY <2>1, <2>2, EmptyPoints DEF Init, NoIndexing, PointsInv
<1>2. StreamsInv
  <2> DEFINE ch == [state |-> "new", predicates |-> {}, streams |-> << >>]
  <2>1. channel = [c \in Clients |-> ch]
    BY DEF Init
  <2>2. ChannelOK(ch)
    BY DEF ChannelOK
  <2> HIDE DEF ch
  <2> QED
    BY <2>1, <2>2 DEF StreamsInv, ChannelsOK
<1> QED
  BY <1>1, <1>2

\* One position.
LEMMA SentOnce ==
  ASSUME NEW S, NEW sent \in Seq(S), NEW row, NEW i \in DOMAIN sent, sent[i] = row,
         \A j \in DOMAIN sent : sent[j] = row => j = i
  PROVE  Times(sent, row) = 1
<1>1. {j \in DOMAIN sent : sent[j] = row} = {i}
  OBVIOUS
<1> QED
  BY <1>1, FS_Singleton DEF Times

(***************************************************************************)
(* A stream that reported last_result, and kept its source, sent every     *)
(* match whose ids are known exactly once and nothing else but the         *)
(* truncated rows of a plain streamer, for any data, patterns, threshold   *)
(* and clients, and whatever updates, evictions and syncs do in between    *)
(* the parts (get_next_response of the three streamers).                   *)
(***************************************************************************)
THEOREM StreamsAnswerAll == Spec => []AnswersComplete
<1> DEFINE Inv == FicInv /\ PointsInv /\ StreamsInv
<1>1. Init => Inv
  BY InitFic, InitStreams
<1>2. Inv /\ [Next]_vars => Inv'
  BY NextFic, PointsStep, StreamsStep
<1>3. Inv => AnswersComplete
  <2> SUFFICES ASSUME StreamsInv, NEW st \in AllStreams, st.status = "last", ~Exact(st.q)
               PROVE  /\ \A row \in Expected(st) : Times(st.sent, row) = 1
                      /\ \A row \in Range(st.sent) :
                           row \in Expected(st) \/ (st.kind = "plain" /\ Len(row) < Width(st.q))
    BY Zenon DEF AnswersComplete
  <2> DEFINE M == Matches(st.points, st.q)
             w == Width(st.q)
  <2>1. StreamOK(st)
    <3>1. PICK c \in Clients : \E k \in DOMAIN channel[c].streams : st = channel[c].streams[k]
      BY DEF AllStreams, StreamsOf
    <3> QED
      BY <3>1 DEF StreamsInv, ChannelsOK, ChannelOK
  <2>2. AnswerOK(st) /\ PointSet(st.points)
    BY <2>1 DEF StreamOK, AnswerOK
  <2>3. \A row : row \in Expected(st) <=> \E x \in M : row = Values(x, st.q) /\ Len(row) = w
    BY DEF Expected
  <2>4. CASE st.kind = "sorted"
    <3> DEFINE rows == SortedRows(st.points, st.q)
    <3>1. rows = st.sent /\ rows \in Seq(Seq(Nat))
      BY <2>1, <2>2, <2>4 DEF StreamOK, AnswerOK
    <3>2. /\ \A i \in DOMAIN rows : \E x \in M : rows[i] = Values(x, st.q) /\ Len(Values(x, st.q)) = w
          /\ \A x \in M : Len(Values(x, st.q)) = w => \E i \in DOMAIN rows : rows[i] = Values(x, st.q)
          /\ \A i, j \in DOMAIN rows : rows[i] = rows[j] => i = j
      BY <2>2, RowsOfSorted
    <3> HIDE DEF rows, M, w
    <3>3. ASSUME NEW row \in Expected(st) PROVE Times(st.sent, row) = 1
      <4>1. PICK x \in M : row = Values(x, st.q) /\ Len(row) = w
        BY <2>3
      <4>2. PICK i \in DOMAIN rows : rows[i] = row
        BY <3>2, <4>1
      <4>3. \A j \in DOMAIN rows : rows[j] = row => j = i
        BY <3>2, <4>2
      <4>4. Times(rows, row) = 1
        BY <3>1, <4>2, <4>3, SentOnce
      <4> QED
        BY <3>1, <4>4
    <3>4. ASSUME NEW row \in Range(st.sent) PROVE row \in Expected(st)
      <4>1. PICK i \in DOMAIN rows : row = rows[i]
        BY <3>1 DEF Range
      <4> QED
        BY <2>3, <3>2, <4>1
    <3> QED
      BY <3>3, <3>4
  <2>5. CASE st.kind # "sorted"
    <3> DEFINE rows == Rows(st.points, st.q)
    <3>1. /\ rows \in Seq(Seq(Nat))
          /\ \A m \in DOMAIN rows : \E x \in M : rows[m] = Values(x, st.q)
          /\ \A x \in M : \E m \in DOMAIN rows : rows[m] = Values(x, st.q)
      BY <2>2, RowsOfScan
    <3>2. SentUpTo(st.sent, rows, Len(rows), st.kind, st.q)
      BY <2>2, <2>5 DEF AnswerOK
    <3>3. DOMAIN rows = 1..Len(rows)
      BY <3>1
    <3> HIDE DEF rows, M
    <3>4. /\ st.sent \in Seq(Seq(Nat))
          /\ \A i \in DOMAIN st.sent : \E m \in DOMAIN rows : st.sent[i] = rows[m] /\ Sends(st.kind, rows[m], st.q)
          /\ \A m \in DOMAIN rows : Sends(st.kind, rows[m], st.q) => \E i \in DOMAIN st.sent : st.sent[i] = rows[m]
          /\ \A i, j \in DOMAIN st.sent : Len(st.sent[i]) = w /\ st.sent[i] = st.sent[j] => i = j
      BY <3>2, <3>3 DEF SentUpTo
    <3>5. \A m \in DOMAIN rows : rows[m] \in Seq(Nat) /\ Len(rows[m]) <= w
      BY <3>1, ValuesFit, ValuesAreRows
    <3>6. w \in Nat
      BY WidthOfPattern
    <3>7. ASSUME NEW row \in Expected(st) PROVE Times(st.sent, row) = 1
      <4>1. PICK x \in M : row = Values(x, st.q) /\ Len(row) = w
        BY <2>3
      <4>2. PICK m \in DOMAIN rows : rows[m] = row
        BY <3>1, <4>1
      <4>3. Sends(st.kind, rows[m], st.q)
        BY <4>1, <4>2 DEF Sends
      <4>4. PICK i \in DOMAIN st.sent : st.sent[i] = row
        BY <3>4, <4>2, <4>3
      <4>5. \A j \in DOMAIN st.sent : st.sent[j] = row => j = i
        <5> HIDE DEF w
        <5> QED
          BY <3>4, <4>1, <4>4
      <4> QED
        BY <3>4, <4>4, <4>5, SentOnce
    <3>8. ASSUME NEW row \in Range(st.sent)
          PROVE  row \in Expected(st) \/ (st.kind = "plain" /\ Len(row) < w)
      <4>1. PICK i \in DOMAIN st.sent : row = st.sent[i]
        BY DEF Range
      <4>2. PICK m \in DOMAIN rows : row = rows[m] /\ Sends(st.kind, rows[m], st.q)
        BY <3>4, <4>1
      <4>3. PICK x \in M : row = Values(x, st.q)
        BY <3>1, <4>2
      <4>4. CASE Len(row) = w
        BY <2>3, <4>3, <4>4
      <4>5. CASE Len(row) # w
        <5>1. st.kind = "plain"
          BY <4>2, <4>5 DEF Sends
        <5>2. Len(row) \in Nat /\ Len(row) <= w
          BY <3>5, <4>2
        <5> HIDE DEF w
        <5> QED
          BY <3>6, <4>5, <5>1, <5>2
      <4> QED
        BY <4>4, <4>5
    <3> QED
      BY <3>7, <3>8
  <2> QED
    BY <2>4, <2>5
<1> HIDE DEF Inv
<1> QED
  BY <1>1, <1>2, <1>3, PTL DEF Spec
=============================================================================
