--------------------------- MODULE NodeIds_proofs ---------------------------
(***************************************************************************)
(* For every number of workers, nodes and restarts, ids and nodes match,   *)
(* but for the nodes whose creations overlapped.                           *)
(***************************************************************************)
EXTENDS NodeIds, WellFoundedInduction, TLAPS

-----------------------------------------------------------------------------
(* Unsigned numbers and extreme elements.                                  *)

\* An unsigned number wraps when it is incremented.
LEMMA Wraps ==
  ASSUME NEW x \in Ids
  PROVE  (x + 1) % IdSpace = IF x = NOT_FOUND_NODEID THEN 0 ELSE x + 1
BY IdSpaceAssumption DEF Ids, NOT_FOUND_NODEID

\* The last id of a sequence.
LEMMA LastPlaceWraps ==
  ASSUME NEW n \in 0 .. MaxPlain
  PROVE  (n - 1) % IdSpace = IF n = 0 THEN NOT_FOUND_NODEID ELSE n - 1
BY IdSpaceAssumption DEF NOT_FOUND_NODEID

\* A set of natural numbers that is not empty has a least element.
LEMMA LeastExists ==
  ASSUME NEW T, T \subseteq Nat, T # {}
  PROVE  \E x \in T : \A y \in T : x <= y
<1> DEFINE R == OpToRel(<, Nat)
<1>1. \E x \in T : \A y \in T : <<y, x>> \notin R
  BY NatLessThanWellFounded, WFMin, Zenon
<1>2. \A x, y \in Nat : y < x => <<y, x>> \in R
  BY DEF OpToRel
<1> HIDE DEF R
<1>3. PICK x \in T : \A y \in T : <<y, x>> \notin R
  BY <1>1
<1>4. ASSUME NEW y \in T PROVE x <= y
  <2>1. x \in Nat /\ y \in Nat
    OBVIOUS
  <2>2. ~ (y < x)
    BY <1>2, <1>3, <2>1, Zenon
  <2> QED
    BY <2>1, <2>2
<1> QED
  BY <1>4

\* A set of natural numbers below a bound has a greatest element.
LEMMA GreatestExists ==
  ASSUME NEW b \in Nat, NEW T, T \subseteq 0 .. b, T # {}
  PROVE  \E x \in T : \A y \in T : y <= x
<1> DEFINE D == {b - y : y \in T}
<1>1. D \subseteq Nat /\ D # {}
  <2>1. PICK x \in T : TRUE
    OBVIOUS
  <2>2. b - x \in D
    OBVIOUS
  <2>3. \A y \in T : b - y \in Nat
    OBVIOUS
  <2> QED
    BY <2>2, <2>3
<1>2. PICK d \in D : \A e \in D : d <= e
  BY <1>1, LeastExists, Zenon
<1>3. PICK x \in T : d = b - x
  BY <1>2
<1>4. ASSUME NEW y \in T PROVE y <= x
  BY <1>2, <1>3, b - y \in D
<1> QED
  BY <1>4

-----------------------------------------------------------------------------
(* The sequence and the maps.                                              *)

\* std::lower_bound finds a place.
LEMMA LowerBoundExists ==
  ASSUME NEW values \in PlainFiles, NEW v \in Nodes
  PROVE  /\ LowerBound(values, v) \in 0 .. Len(values)
         /\ \A j \in 1 .. LowerBound(values, v) : values[j] < v
         /\ LowerBound(values, v) < Len(values) => values[LowerBound(values, v) + 1] >= v
<1>1. values \in Seq(Nodes) /\ Len(values) \in Nat /\ DOMAIN values = 1 .. Len(values)
  BY DEF PlainFiles
<1> DEFINE T == {i \in 0 .. Len(values) : i < Len(values) => values[i + 1] >= v}
<1>2. Len(values) \in T /\ T \subseteq Nat
  BY <1>1
<1>3. PICK i \in T : \A k \in T : i <= k
  BY <1>2, LeastExists, Zenon
<1>4. ASSUME NEW j \in 1 .. i PROVE values[j] < v
  <2>1. j - 1 \in 0 .. Len(values) /\ j - 1 < Len(values) /\ ~ (i <= j - 1)
    BY <1>1
  <2>2. j - 1 \notin T
    BY <1>3, <2>1
  <2>3. values[j] \in Nodes
    BY <1>1, j \in 1 .. Len(values)
  <2>4. values[j] \in Nat /\ v \in Nat
    BY <2>3, NodesAssumption
  <2> QED
    BY <2>1, <2>2, <2>4
<1> QED
  BY <1>3, <1>4 DEF LowerBound

\* A node that the sequence finds is at its place.
LEMMA SequenceFinds ==
  ASSUME NEW values \in PlainFiles, NEW v \in Nodes,
         SequenceGetId(values, v) # NOT_FOUND_NODEID
  PROVE  /\ SequenceGetId(values, v) \in 0 .. Len(values) - 1
         /\ values[SequenceGetId(values, v) + 1] = v
BY LowerBoundExists DEF SequenceGetId, PlainFiles

\* A node of the sequence is found, at its place.
LEMMA SequenceFindsAll ==
  ASSUME NEW values \in PlainFiles, NEW i \in 0 .. Len(values) - 1
  PROVE  /\ values[i + 1] \in Nodes
         /\ SequenceGetId(values, values[i + 1]) = i
         /\ i # NOT_FOUND_NODEID
<1>1. values \in Seq(Nodes) /\ Len(values) \in 0 .. MaxPlain /\ DOMAIN values = 1 .. Len(values)
  BY DEF PlainFiles
<1>2. \A j, k \in 1 .. Len(values) : values[j] \in Nat /\ (j < k => values[j] < values[k])
  BY <1>1, NodesAssumption DEF PlainFiles, Sorted
<1>3. values[i + 1] \in Nodes
  BY <1>1
<1> DEFINE it == LowerBound(values, values[i + 1])
<1>4. /\ it \in 0 .. Len(values)
      /\ \A j \in 1 .. it : values[j] < values[i + 1]
      /\ it < Len(values) => values[it + 1] >= values[i + 1]
  BY <1>3, LowerBoundExists
<1> HIDE DEF it
<1>5. it = i
  <2>1. ~ (i + 1 <= it)
    BY <1>1, <1>2, <1>4
  <2>2. ~ (it + 1 < i + 1)
    BY <1>1, <1>2, <1>4
  <2> QED
    BY <1>1, <1>4, <2>1, <2>2
<1> QED
  BY <1>1, <1>3, <1>5, IdSpaceAssumption DEF it, SequenceGetId, NOT_FOUND_NODEID

\* The two maps of NodesMapImpl after its constructor.
LEMMA ReversedInverts ==
  ASSUME NEW values \in PlainFiles, NEW f \in MappedFiles(values)
  PROVE  /\ DOMAIN f \subseteq Nodes
         /\ \A k \in DOMAIN f :
              /\ f[k] \in Len(values) .. NOT_FOUND_NODEID - 1
              /\ f[k] \in DOMAIN Reversed(f)
              /\ Reversed(f)[f[k]] = k
         /\ \A i \in DOMAIN Reversed(f) :
              Reversed(f)[i] \in DOMAIN f /\ f[Reversed(f)[i]] = i
         /\ DOMAIN Reversed(f) \subseteq Len(values) .. NOT_FOUND_NODEID - 1
<1>1. /\ DOMAIN f \subseteq Nodes
      /\ \A k \in DOMAIN f : f[k] \in Len(values) .. NOT_FOUND_NODEID - 1
      /\ \A k, l \in DOMAIN f : f[k] = f[l] => k = l
  BY DEF MappedFiles
<1>2. DOMAIN Reversed(f) = {f[k] : k \in DOMAIN f}
  BY DEF Reversed
<1>3. ASSUME NEW k \in DOMAIN f PROVE Reversed(f)[f[k]] = k
  <2>1. \A j \in DOMAIN f : f[j] = f[k] => j <= k
    BY <1>1, NodesAssumption
  <2>2. \A l \in DOMAIN f :
          f[l] = f[k] /\ (\A j \in DOMAIN f : f[j] = f[k] => j <= l) => l = k
    BY <1>1
  <2> QED
    BY <1>2, <2>1, <2>2 DEF Reversed
<1> QED
  BY <1>1, <1>2, <1>3

\* find_last_assigned: the id that comes next is after those of both.
LEMMA LastAssigned ==
  ASSUME NEW values \in PlainFiles, NEW f \in MappedFiles(values)
  PROVE  LET last == FindLastAssigned(values, Reversed(f))
         IN  /\ last \in Ids
             /\ Len(values) <= (last + 1) % IdSpace
             /\ \A i \in DOMAIN Reversed(f) : i < (last + 1) % IdSpace
<1> DEFINE last == FindLastAssigned(values, Reversed(f))
<1>1. Len(values) \in 0 .. MaxPlain /\ NOT_FOUND_NODEID \in Nat
  BY IdSpaceAssumption DEF PlainFiles, NOT_FOUND_NODEID
<1>2. CASE DOMAIN Reversed(f) = {}
  <2>1. last = IF Len(values) = 0 THEN NOT_FOUND_NODEID ELSE Len(values) - 1
    BY <1>1, <1>2, LastPlaceWraps DEF FindLastAssigned, SequenceLastAssigned
  <2>2. last \in Ids
    BY <1>1, <2>1, IdSpaceAssumption DEF Ids, NOT_FOUND_NODEID
  <2>3. (last + 1) % IdSpace = Len(values)
    <3>1. (last + 1) % IdSpace = IF last = NOT_FOUND_NODEID THEN 0 ELSE last + 1
      BY <2>2, Wraps
    <3>2. CASE Len(values) = 0
      BY <2>1, <3>1, <3>2
    <3>3. CASE Len(values) # 0
      <4>1. last = Len(values) - 1
        BY <2>1, <3>3
      <4>2. last # NOT_FOUND_NODEID
        BY <1>1, <4>1, IdSpaceAssumption DEF NOT_FOUND_NODEID
      <4> HIDE DEF last
      <4> QED
        BY <1>1, <3>1, <4>1, <4>2
    <3> QED
      BY <3>2, <3>3
  <2> QED
    BY <1>1, <1>2, <2>2, <2>3
<1>3. CASE DOMAIN Reversed(f) # {}
  <2> DEFINE D == DOMAIN Reversed(f)
  <2>1. D \subseteq Len(values) .. NOT_FOUND_NODEID - 1 /\ D \subseteq 0 .. NOT_FOUND_NODEID
    BY <1>1, ReversedInverts
  <2>2. \E i \in D : \A j \in D : j <= i
    BY <1>1, <1>3, <2>1, GreatestExists
  <2>3. last \in D /\ \A j \in D : j <= last
    BY <1>3, <2>2 DEF FindLastAssigned, LastKey
  <2>4. last \in Ids /\ last # NOT_FOUND_NODEID
    BY <1>1, <2>1, <2>3 DEF Ids
  <2>5. (last + 1) % IdSpace = last + 1
    BY <2>4, Wraps
  <2> HIDE DEF last
  <2>6. \A j \in D : j < last + 1
    BY <1>1, <2>1, <2>3
  <2>7. Len(values) <= last + 1
    BY <1>1, <2>1, <2>3
  <2> QED
    BY <2>4, <2>5, <2>6, <2>7 DEF last
<1> QED
  BY <1>2, <1>3

-----------------------------------------------------------------------------
(***************************************************************************)
(* The invariant.  A node is settled when it is in the map and no other    *)
(* creation overlapped its own.  Two threads that create ids at the same   *)
(* time have raced; whatever last_assigned_id is, or is about to be after  *)
(* an increment that has only read it, the next id is after those of the   *)
(* settled nodes; on the settled nodes the two maps invert each other; the *)
(* node of a thread that has not raced has no id until the thread adds it. *)
(***************************************************************************)
Settled == DOMAIN imap \ raced

\* The number x is after the sequence and after the ids of the nodes that are settled.
Clear(x) == Len(plain) <= x /\ \A r \in Settled : imap[r] < x

SoloOrRaced ==
  \A t, u \in Threads :
    t # u /\ pc[t] # "idle" /\ pc[u] # "idle" => node[t] \in raced /\ node[u] \in raced

IdsClear ==
  /\ Clear((last_assigned_id + 1) % IdSpace)
  /\ \A t \in Threads : pc[t] = "read" => Clear((seen[t] + 1) % IdSpace)
  /\ \A t \in Threads : pc[t] \in {"assigned", "logged"} =>
       Clear(last_assigned_id) /\ last_assigned_id # NOT_FOUND_NODEID
  /\ \A i \in DOMAIN rev_map : Len(plain) <= i
  /\ \A r \in DOMAIN imap : Len(plain) <= imap[r] /\ imap[r] # NOT_FOUND_NODEID

MapsInvert ==
  /\ \A r \in Settled : imap[r] \in DOMAIN rev_map /\ rev_map[imap[r]] = r
  /\ \A i \in DOMAIN rev_map : rev_map[i] \notin raced =>
       rev_map[i] \in DOMAIN imap /\ imap[rev_map[i]] = i

NewNodes ==
  /\ \A r \in DOMAIN imap : SequenceGetId(plain, r) = NOT_FOUND_NODEID
  /\ \A t \in Threads : pc[t] # "idle" =>
       node[t] \in Nodes /\ SequenceGetId(plain, node[t]) = NOT_FOUND_NODEID
  /\ \A t \in Threads :
       pc[t] \in {"missing", "read", "assigned", "logged"} /\ node[t] \notin raced =>
         node[t] \notin DOMAIN imap
  /\ \A t \in Threads : pc[t] = "added" /\ node[t] \notin raced =>
       node[t] \in DOMAIN imap /\ imap[node[t]] = last_assigned_id

InLog(r, i) == \E j \in DOMAIN log : log[j] = <<r, i>>

PairsInFiles ==
  /\ \A r \in Settled : InLog(r, imap[r]) \/ (r \in DOMAIN mapped /\ imap[r] = mapped[r])
  /\ \A t \in Threads : pc[t] = "logged" /\ node[t] \notin raced => InLog(node[t], last_assigned_id)

IInv ==
  /\ TypeOK /\ SoloOrRaced /\ IdsClear /\ MapsInvert /\ NewNodes /\ PairsInFiles
  /\ AnsweredInFiles

-----------------------------------------------------------------------------
(* The first start and the steps.                                          *)

\* A node of the map is not in the sequence.
LEMMA MappedNotInSequence ==
  ASSUME NEW values \in PlainFiles, NEW f \in MappedFiles(values), NEW r \in DOMAIN f
  PROVE  SequenceGetId(values, r) = NOT_FOUND_NODEID
<1>1. r \in Nodes /\ \A i \in DOMAIN values : values[i] # r
  BY DEF MappedFiles
<1>2. Len(values) \in Nat /\ DOMAIN values = 1 .. Len(values)
  BY DEF PlainFiles
<1> QED
  BY <1>1, <1>2, SequenceFinds

\* The members of a process that has just been constructed.
Fresh ==
  /\ plain \in PlainFiles
  /\ mapped \in MappedFiles(plain)
  /\ imap = mapped
  /\ rev_map = Reversed(mapped)
  /\ last_assigned_id = FindLastAssigned(plain, Reversed(mapped))
  /\ pc = [t \in Threads |-> "idle"]
  /\ node = [t \in Threads |-> NoNode]
  /\ seen = [t \in Threads |-> 0]
  /\ raced = {}

\* What TypeOK says of the members and of the calls.
MembersOK ==
  /\ DOMAIN imap \subseteq Nodes /\ \A r \in DOMAIN imap : imap[r] \in Ids
  /\ DOMAIN rev_map \subseteq Ids /\ \A i \in DOMAIN rev_map : rev_map[i] \in Nodes
  /\ last_assigned_id \in Ids
  /\ pc \in [Threads -> {"idle", "missing", "read", "assigned", "logged", "added"}]
  /\ node \in [Threads -> Nodes \cup {NoNode}]
  /\ seen \in [Threads -> Ids]
  /\ raced \subseteq Nodes

\* They satisfy the invariant but for what it says of the log and the counters.
LEMMA FreshMembers ==
  Fresh => MembersOK /\ SoloOrRaced /\ IdsClear /\ MapsInvert /\ NewNodes /\ PairsInFiles
<1> SUFFICES ASSUME Fresh
             PROVE  MembersOK /\ SoloOrRaced /\ IdsClear /\ MapsInvert /\ NewNodes /\ PairsInFiles
  OBVIOUS
<1> USE DEF Fresh
<1>1. /\ DOMAIN imap \subseteq Nodes
      /\ DOMAIN rev_map \subseteq Len(plain) .. NOT_FOUND_NODEID - 1
      /\ \A k \in DOMAIN imap :
           /\ imap[k] \in Len(plain) .. NOT_FOUND_NODEID - 1
           /\ imap[k] \in DOMAIN rev_map /\ rev_map[imap[k]] = k
      /\ \A i \in DOMAIN rev_map : rev_map[i] \in DOMAIN imap /\ imap[rev_map[i]] = i
  BY ReversedInverts
<1>2. MapsInvert
  BY <1>1 DEF MapsInvert, Settled
<1>3. /\ last_assigned_id \in Ids
      /\ Len(plain) <= (last_assigned_id + 1) % IdSpace
      /\ \A i \in DOMAIN rev_map : i < (last_assigned_id + 1) % IdSpace
  BY LastAssigned
<1>4. Len(plain) \in Nat /\ NOT_FOUND_NODEID \in Nat
  BY IdSpaceAssumption DEF PlainFiles, NOT_FOUND_NODEID
<1>5. \A i \in Len(plain) .. NOT_FOUND_NODEID - 1 :
        i \in Ids /\ Len(plain) <= i /\ i # NOT_FOUND_NODEID
  BY <1>4 DEF Ids
<1>6. IdsClear
  BY <1>1, <1>3, <1>5 DEF IdsClear, Clear, Settled
<1>7. NewNodes
  BY MappedNotInSequence DEF NewNodes
<1>8. PairsInFiles /\ SoloOrRaced
  BY DEF PairsInFiles, SoloOrRaced, Settled
<1>9. 0 \in Ids
  BY <1>4 DEF Ids
<1>10. DOMAIN rev_map \subseteq Ids /\ \A r \in DOMAIN imap : imap[r] \in Ids
  BY <1>1, <1>5
<1> QED
  BY <1>1, <1>2, <1>3, <1>6, <1>7, <1>8, <1>9, <1>10 DEF MembersOK

LEMMA InitIInv == Init => IInv
<1> SUFFICES ASSUME Init PROVE IInv
  OBVIOUS
<1>1. Fresh
  BY DEF Init, Fresh
<1>2. TypeOK
  BY <1>1, FreshMembers, BoundsAssumption DEF TypeOK, MembersOK, Init
<1>3. AnsweredInFiles
  BY DEF Init, AnsweredInFiles
<1> QED
  BY <1>1, <1>2, <1>3, FreshMembers DEF IInv

\* The counter is empty when restore reads it, so that the map is that of its file.
LEMMA NothingRestored ==
  ASSUME NEW c, Constructed(log, c)
  PROVE  /\ log' = log /\ counter' = 0 /\ counter_buffer' = 0 /\ logs_number' = 0
         /\ imap' = PutAll(mapped, << >>, 1)
         /\ rev_map' = PutAll(Reversed(mapped), << >>, 2)
         /\ last_assigned_id' = FindLastAssigned(plain, Reversed(mapped))
<1>1. log' = log /\ counter' = 0
  BY DEF Constructed, LogOpened, CounterOpened
<1>2. ReadPairs(log, 0) = << >>
  BY DEF ReadPairs
<1> QED
  BY <1>1, <1>2 DEF Constructed

LEMMA PutNothing ==
  ASSUME NEW f, f = [x \in DOMAIN f |-> f[x]], NEW column
  PROVE  PutAll(f, << >>, column) = f
BY DEF PutAll, Places

LEMMA RestartIInv ==
  ASSUME IInv, NEW c \in {counter, counter_buffer}, Restart(c)
  PROVE  IInv'
<1> USE DEF IInv
<1>1. /\ plain' = plain /\ mapped' = mapped /\ answered' = answered
      /\ Constructed(log, c)
  BY DEF Restart
<1>2. plain \in PlainFiles /\ mapped \in MappedFiles(plain)
  BY DEF TypeOK
<1>3. /\ log' = log /\ counter' = 0 /\ counter_buffer' = 0 /\ logs_number' = 0
      /\ imap' = mapped
      /\ rev_map' = Reversed(mapped)
      /\ last_assigned_id' = FindLastAssigned(plain, Reversed(mapped))
  <2>1. mapped = [x \in DOMAIN mapped |-> mapped[x]]
    BY <1>2 DEF MappedFiles
  <2>2. Reversed(mapped) = [x \in DOMAIN Reversed(mapped) |-> Reversed(mapped)[x]]
    BY DEF Reversed
  <2> QED
    BY <1>1, <2>1, <2>2, NothingRestored, PutNothing
<1>4. Fresh'
  BY <1>1, <1>2, <1>3 DEF Fresh, Restart
<1>5. (MembersOK /\ SoloOrRaced /\ IdsClear /\ MapsInvert /\ NewNodes /\ PairsInFiles)'
  BY <1>4, FreshMembers, PTL
<1>6. TypeOK'
  <2>1. starts' \in 0 .. MaxStarts
    BY BoundsAssumption DEF Restart, TypeOK
  <2> QED
    BY <1>1, <1>2, <1>3, <1>5, <2>1 DEF TypeOK, MembersOK
<1>7. AnsweredInFiles'
  BY <1>1, <1>3 DEF AnsweredInFiles
<1> QED
  BY <1>5, <1>6, <1>7

\* What is recorded of an answer.
LEMMA ReturnedInFiles ==
  ASSUME AnsweredInFiles, NEW r, NEW i,
         r \notin raced =>
           \/ InLog(r, i)
           \/ r \in DOMAIN mapped /\ i = mapped[r]
           \/ i < Len(plain) /\ plain[i + 1] = r
  PROVE  \A p \in Returned(r, i) :
           \/ \E j \in DOMAIN log : log[j] = p
           \/ p[1] \in DOMAIN mapped /\ p[2] = mapped[p[1]]
           \/ p[2] < Len(plain) /\ plain[p[2] + 1] = p[1]
BY DEF AnsweredInFiles, Returned, InLog

\* The steps of get_id_or_create.
LEMMA FoundIInv ==
  ASSUME IInv, NEW t \in Threads, NEW r \in Nodes, Found(t, r)
  PROVE  IInv'
<1> USE DEF IInv
<1>1. /\ UNCHANGED <<plain, mapped, log, counter>>
      /\ UNCHANGED <<imap, rev_map, last_assigned_id, counter_buffer, logs_number>>
      /\ UNCHANGED <<pc, node, seen, starts, raced>>
      /\ answered' = Returned(r, GetId(r))
  BY DEF Found, files, members, calls
<1>2. plain \in PlainFiles /\ Len(plain) \in 0 .. MaxPlain
  BY DEF TypeOK, PlainFiles
<1>3. /\ GetId(r) \in Ids
      /\ r \notin raced =>
           \/ InLog(r, GetId(r))
           \/ r \in DOMAIN mapped /\ GetId(r) = mapped[r]
           \/ GetId(r) < Len(plain) /\ plain[GetId(r) + 1] = r
  <2>1. CASE SequenceGetId(plain, r) # NOT_FOUND_NODEID
    <3>1. GetId(r) = SequenceGetId(plain, r)
      BY <2>1 DEF GetId
    <3>2. GetId(r) \in 0 .. Len(plain) - 1 /\ plain[GetId(r) + 1] = r
      BY <1>2, <2>1, <3>1, SequenceFinds
    <3> QED
      BY <1>2, <3>2, IdSpaceAssumption DEF Ids, NOT_FOUND_NODEID
  <2>2. CASE SequenceGetId(plain, r) = NOT_FOUND_NODEID
    <3>1. r \in DOMAIN imap /\ GetId(r) = imap[r]
      BY <2>2 DEF GetId, Found
    <3> QED
      BY <3>1 DEF TypeOK, PairsInFiles, Settled
  <2> QED
    BY <2>1, <2>2
<1>4. AnsweredInFiles'
  <2>1. AnsweredInFiles
    OBVIOUS
  <2> QED
    BY <1>1, <1>3, <2>1, ReturnedInFiles DEF AnsweredInFiles
<1>5. TypeOK'
  BY <1>1, <1>3 DEF TypeOK, Returned
<1>6. (SoloOrRaced /\ IdsClear /\ MapsInvert /\ NewNodes /\ PairsInFiles)'
  BY <1>1 DEF SoloOrRaced, IdsClear, Clear, MapsInvert, NewNodes, PairsInFiles, InLog, Settled
<1> QED
  BY <1>4, <1>5, <1>6

LEMMA MissingIInv ==
  ASSUME IInv, NEW t \in Threads, NEW r \in Nodes, Missing(t, r)
  PROVE  IInv'
<1> USE DEF IInv
<1>1. /\ UNCHANGED <<plain, mapped, log, counter>>
      /\ UNCHANGED <<imap, rev_map, last_assigned_id, counter_buffer, logs_number>>
      /\ UNCHANGED <<seen, starts, answered>>
      /\ raced' = raced \cup Overlapping(r)
  BY DEF Missing, files, members
<1>2. /\ pc' = [pc EXCEPT ![t] = "missing"]
      /\ node' = [node EXCEPT ![t] = r]
      /\ pc[t] = "idle"
  BY DEF Missing, Goto
<1>3. /\ pc'[t] = "missing" /\ node'[t] = r
      /\ \A u \in Threads : u # t => pc'[u] = pc[u] /\ node'[u] = node[u]
  BY <1>2 DEF TypeOK
<1>4. SequenceGetId(plain, r) = NOT_FOUND_NODEID /\ r \notin DOMAIN imap
  BY DEF Missing, GetId, IdsClear
<1>5. TypeOK'
  <2>1. \A u \in Creating : node[u] \in Nodes
    BY DEF Creating, NewNodes
  <2>2. raced' \subseteq Nodes
    BY <1>1, <2>1 DEF Overlapping, TypeOK
  <2> QED
    BY <1>1, <1>2, <2>2 DEF TypeOK
<1>6. SoloOrRaced'
  <2>1. ASSUME NEW u \in Threads, u # t, pc[u] # "idle"
        PROVE  r \in raced' /\ node[u] \in raced'
    BY <1>1, <2>1 DEF Overlapping, Creating
  <2> QED
    BY <1>1, <1>3, <2>1 DEF SoloOrRaced
<1>7. Settled' \subseteq Settled
  BY <1>1 DEF Settled
<1>8. IdsClear' /\ MapsInvert' /\ PairsInFiles'
  BY <1>1, <1>3, <1>7 DEF IdsClear, Clear, MapsInvert, PairsInFiles, InLog, Settled
<1>9. NewNodes'
  BY <1>1, <1>3, <1>4 DEF NewNodes
<1>10. AnsweredInFiles'
  BY <1>1 DEF AnsweredInFiles
<1> QED
  BY <1>5, <1>6, <1>8, <1>9, <1>10

LEMMA ReadLastIInv ==
  ASSUME IInv, NEW t \in Threads, ReadLast(t)
  PROVE  IInv'
<1> USE DEF IInv
<1>1. /\ UNCHANGED <<plain, mapped, log, counter>>
      /\ UNCHANGED <<imap, rev_map, last_assigned_id, counter_buffer, logs_number>>
      /\ UNCHANGED <<node, starts, raced, answered>>
      /\ seen' = [seen EXCEPT ![t] = last_assigned_id]
      /\ pc' = [pc EXCEPT ![t] = "read"]
      /\ pc[t] = "missing"
  BY DEF ReadLast, Goto, files, members
<1>2. /\ pc'[t] = "read" /\ seen'[t] = last_assigned_id
      /\ \A u \in Threads : u # t => pc'[u] = pc[u] /\ seen'[u] = seen[u]
  BY <1>1 DEF TypeOK
<1>3. TypeOK'
  BY <1>1 DEF TypeOK
<1>4. IdsClear'
  BY <1>1, <1>2 DEF IdsClear, Clear, Settled
<1>5. SoloOrRaced' /\ NewNodes' /\ PairsInFiles'
  BY <1>1, <1>2 DEF SoloOrRaced, NewNodes, PairsInFiles, InLog, Settled
<1>6. MapsInvert' /\ AnsweredInFiles'
  BY <1>1 DEF MapsInvert, AnsweredInFiles, Settled
<1> QED
  BY <1>3, <1>4, <1>5, <1>6

\* A number that is after the settled ids and is not the last has such a successor.
LEMMA NextClear ==
  ASSUME TypeOK, NEW x \in Ids, x # NOT_FOUND_NODEID, Clear(x)
  PROVE  Clear((x + 1) % IdSpace)
<1>1. (x + 1) % IdSpace = x + 1 /\ x \in Nat
  BY Wraps, IdSpaceAssumption DEF Ids, NOT_FOUND_NODEID
<1>2. Len(plain) \in Nat /\ \A r \in Settled : imap[r] \in Nat
  BY IdSpaceAssumption DEF TypeOK, PlainFiles, Settled, Ids, NOT_FOUND_NODEID
<1> QED
  BY <1>1, <1>2 DEF Clear

LEMMA AssignIInv ==
  ASSUME IInv, NEW t \in Threads, Assign(t)
  PROVE  IInv'
<1> USE DEF IInv
<1> DEFINE id == last_assigned_id'
<1>1. /\ UNCHANGED <<plain, mapped, log, counter>>
      /\ UNCHANGED <<imap, rev_map, counter_buffer, logs_number, node, starts, raced, answered>>
      /\ id = (seen[t] + 1) % IdSpace
      /\ id # NOT_FOUND_NODEID
      /\ seen' = [seen EXCEPT ![t] = 0]
      /\ pc' = [pc EXCEPT ![t] = "assigned"]
      /\ pc[t] = "read"
  BY DEF Assign, Goto, files
<1>2. /\ pc'[t] = "assigned"
      /\ \A u \in Threads : u # t => pc'[u] = pc[u] /\ seen'[u] = seen[u]
  BY <1>1 DEF TypeOK
<1>3. id \in Ids
  <2>1. seen[t] \in Ids
    BY DEF TypeOK
  <2>2. id = IF seen[t] = NOT_FOUND_NODEID THEN 0 ELSE seen[t] + 1
    BY <1>1, <2>1, Wraps
  <2> QED
    BY <2>1, <2>2, IdSpaceAssumption DEF Ids, NOT_FOUND_NODEID
<1>4. 0 \in Ids
  BY IdSpaceAssumption DEF Ids, NOT_FOUND_NODEID
<1>5. TypeOK'
  BY <1>1, <1>3, <1>4 DEF TypeOK
<1>6. Clear(id) /\ Clear((id + 1) % IdSpace)
  <2>1. Clear(id)
    BY <1>1 DEF IdsClear
  <2> QED
    BY <1>1, <1>3, <2>1, NextClear
<1> HIDE DEF id
<1>7. IdsClear'
  BY <1>1, <1>2, <1>6 DEF IdsClear, Clear, Settled, id
<1>8. NewNodes'
  <2>1. \A u \in Threads : pc[u] = "added" /\ node[u] \notin raced => FALSE
    BY <1>1 DEF SoloOrRaced
  <2> QED
    BY <1>1, <1>2, <2>1 DEF NewNodes
<1>9. PairsInFiles'
  <2>1. \A u \in Threads : pc[u] = "logged" /\ node[u] \notin raced => FALSE
    BY <1>1 DEF SoloOrRaced
  <2> QED
    BY <1>1, <1>2, <2>1 DEF PairsInFiles, InLog, Settled
<1>10. SoloOrRaced' /\ MapsInvert' /\ AnsweredInFiles'
  BY <1>1, <1>2 DEF SoloOrRaced, MapsInvert, AnsweredInFiles, Settled
<1> QED
  BY <1>5, <1>7, <1>8, <1>9, <1>10

LEMMA LogNewKvIInv ==
  ASSUME IInv, NEW t \in Threads, LogNewKv(t)
  PROVE  IInv'
<1> USE DEF IInv
<1>1. /\ UNCHANGED <<plain, mapped, imap, rev_map, last_assigned_id, node, seen, starts, raced>>
      /\ answered' = answered
      /\ log' = Append(log, <<node[t], last_assigned_id>>)
      /\ pc' = [pc EXCEPT ![t] = "logged"]
      /\ pc[t] = "assigned"
  BY DEF LogNewKv, Goto
<1>2. pc'[t] = "logged" /\ \A u \in Threads : u # t => pc'[u] = pc[u]
  BY <1>1 DEF TypeOK
<1>3. <<node[t], last_assigned_id>> \in Nodes \X Ids
  BY <1>1 DEF NewNodes, TypeOK
<1>4. log' \in Seq(Nodes \X Ids)
  BY <1>1, <1>3 DEF TypeOK
<1>5. InLog(node[t], last_assigned_id)'
  <2>1. Len(log) + 1 \in DOMAIN log' /\ log'[Len(log) + 1] = <<node[t], last_assigned_id>>
    BY <1>1 DEF TypeOK
  <2> QED
    BY <1>1, <2>1 DEF InLog
<1>6. \A j \in DOMAIN log : j \in DOMAIN log' /\ log'[j] = log[j]
  BY <1>1 DEF TypeOK
<1>7. TypeOK'
  BY <1>1, <1>4 DEF TypeOK, LogNewKv
<1>8. IdsClear'
  BY <1>1, <1>2 DEF IdsClear, Clear, Settled
<1>9. SoloOrRaced' /\ MapsInvert' /\ NewNodes'
  BY <1>1, <1>2 DEF SoloOrRaced, MapsInvert, NewNodes, Settled
<1>10. PairsInFiles'
  <2>1. ASSUME NEW r, NEW i, InLog(r, i) PROVE \E j \in DOMAIN log' : log'[j] = <<r, i>>
    BY <1>6, <2>1 DEF InLog
  <2>2. Settled' = Settled
    BY <1>1 DEF Settled
  <2>3. \A k \in Settled : InLog(k, imap[k])' \/ (k \in DOMAIN mapped /\ imap[k] = mapped[k])
    BY <1>1, <2>1 DEF PairsInFiles, InLog
  <2>4. \A u \in Threads : pc'[u] = "logged" /\ node[u] \notin raced => InLog(node[u], last_assigned_id)'
    BY <1>1, <1>2, <1>5, <2>1 DEF PairsInFiles, InLog
  <2> QED
    BY <1>1, <2>2, <2>3, <2>4 DEF PairsInFiles, InLog
<1>11. AnsweredInFiles'
  BY <1>1, <1>6 DEF AnsweredInFiles
<1> QED
  BY <1>7, <1>8, <1>9, <1>10, <1>11

\* NodesMapImpl::add: an id that no settled node has.
LEMMA AddIInv ==
  ASSUME IInv, NEW t \in Threads, Add(t)
  PROVE  IInv'
<1> USE DEF IInv
<1> DEFINE r == node[t]
           id == last_assigned_id
<1>1. /\ UNCHANGED <<plain, mapped, log, counter>>
      /\ UNCHANGED <<last_assigned_id, counter_buffer, logs_number, node, seen, starts>>
      /\ UNCHANGED <<raced, answered>>
      /\ imap' = Put(imap, r, id)
      /\ rev_map' = Put(rev_map, id, r)
      /\ pc' = [pc EXCEPT ![t] = "added"]
      /\ pc[t] = "logged"
  BY DEF Add, Goto, files
<1>2. pc'[t] = "added" /\ \A u \in Threads : u # t => pc'[u] = pc[u]
  BY <1>1 DEF TypeOK
<1>3. r \in Nodes /\ SequenceGetId(plain, r) = NOT_FOUND_NODEID
  BY <1>1 DEF NewNodes
<1>4. id \in Ids /\ id # NOT_FOUND_NODEID /\ Clear(id) /\ Clear((id + 1) % IdSpace)
  BY <1>1 DEF IdsClear, TypeOK
<1>5. /\ DOMAIN imap' = DOMAIN imap \cup {r} /\ imap'[r] = id
      /\ \A k \in DOMAIN imap \ {r} : imap'[k] = imap[k]
      /\ DOMAIN rev_map' = DOMAIN rev_map \cup {id} /\ rev_map'[id] = r
      /\ \A i \in DOMAIN rev_map \ {id} : rev_map'[i] = rev_map[i]
  BY <1>1 DEF Put
<1>6. r \notin raced => r \notin DOMAIN imap /\ \A u \in Threads : u # t => pc[u] = "idle"
  BY <1>1 DEF NewNodes, SoloOrRaced
<1>7. /\ Settled' \subseteq Settled \cup {r}
      /\ r \in raced => Settled' \subseteq Settled /\ r \notin Settled'
      /\ \A k \in Settled : k \in Settled' /\ k # r /\ imap'[k] = imap[k]
  BY <1>1, <1>5, <1>6 DEF Settled
<1>8. TypeOK'
  BY <1>1, <1>3, <1>4, <1>5 DEF TypeOK
<1>9. IdsClear'
  <2>1. id < (id + 1) % IdSpace
    BY <1>4, Wraps DEF Ids
  <2>2. Clear((id + 1) % IdSpace)'
    BY <1>1, <1>4, <1>5, <1>7, <2>1 DEF Clear
  <2>3. ASSUME r \in raced, NEW x, Clear(x) PROVE Len(plain) <= x /\ \A k \in Settled' : imap'[k] < x
    BY <1>7, <2>3 DEF Clear
  <2>4. ASSUME NEW u \in Threads, pc'[u] = "read" PROVE Clear((seen[u] + 1) % IdSpace)'
    <3>1. u # t /\ r \in raced /\ pc[u] = "read"
      BY <1>2, <1>6, <2>4
    <3>2. Clear((seen[u] + 1) % IdSpace)
      BY <3>1 DEF IdsClear
    <3> QED
      BY <1>1, <2>3, <3>1, <3>2 DEF Clear
  <2>5. ASSUME NEW u \in Threads, pc'[u] \in {"assigned", "logged"} PROVE Clear(id)'
    <3>1. u # t /\ r \in raced
      BY <1>2, <1>6, <2>5
    <3> QED
      BY <1>1, <1>4, <2>3, <3>1 DEF Clear
  <2>6. Len(plain) <= id
    BY <1>4 DEF Clear
  <2>7. /\ \A i \in DOMAIN rev_map' : Len(plain) <= i
        /\ \A k \in DOMAIN imap' : Len(plain) <= imap'[k] /\ imap'[k] # NOT_FOUND_NODEID
    BY <1>4, <1>5, <2>6 DEF IdsClear
  <2> QED
    BY <1>1, <1>4, <2>2, <2>4, <2>5, <2>7 DEF IdsClear
<1>10. MapsInvert'
  <2>1. \A k \in Settled : imap[k] # id
    BY <1>4 DEF Clear, TypeOK, Ids, Settled
  <2>2. ASSUME NEW k \in Settled' PROVE imap'[k] \in DOMAIN rev_map' /\ rev_map'[imap'[k]] = k
    <3>1. CASE k = r
      BY <1>5, <3>1
    <3>2. CASE k # r
      BY <1>5, <1>7, <2>1, <3>2 DEF MapsInvert
    <3> QED
      BY <3>1, <3>2
  <2>3. ASSUME NEW i \in DOMAIN rev_map', rev_map'[i] \notin raced
        PROVE  rev_map'[i] \in DOMAIN imap' /\ imap'[rev_map'[i]] = i
    <3>1. CASE i = id
      BY <1>5, <3>1
    <3>2. CASE i # id
      <4>1. i \in DOMAIN rev_map /\ rev_map'[i] = rev_map[i]
        BY <1>5, <3>2
      <4>2. rev_map[i] \in DOMAIN imap /\ imap[rev_map[i]] = i
        BY <2>3, <4>1 DEF MapsInvert
      <4>3. rev_map[i] # r
        BY <1>6, <2>3, <4>1, <4>2
      <4> QED
        BY <1>5, <4>1, <4>2, <4>3
    <3> QED
      BY <3>1, <3>2
  <2> QED
    BY <1>1, <2>2, <2>3 DEF MapsInvert
<1>11. NewNodes'
  <2>1. ASSUME NEW u \in Threads, u # t, pc[u] # "idle" PROVE node[u] \in raced
    BY <1>1, <2>1 DEF SoloOrRaced
  <2> QED
    BY <1>1, <1>2, <1>3, <1>5, <2>1 DEF NewNodes
<1>12. PairsInFiles'
  <2>1. r \notin raced => InLog(r, id)
    BY <1>1 DEF PairsInFiles
  <2>2. \A k \in Settled' :
          InLog(k, imap'[k]) \/ (k \in DOMAIN mapped /\ imap'[k] = mapped[k])
    BY <1>5, <1>7, <2>1 DEF PairsInFiles
  <2> QED
    BY <1>1, <1>2, <2>2 DEF PairsInFiles, InLog
<1>13. AnsweredInFiles' /\ SoloOrRaced'
  BY <1>1, <1>2 DEF AnsweredInFiles, SoloOrRaced
<1> QED
  BY <1>8, <1>9, <1>10, <1>11, <1>12, <1>13

LEMMA AnswerIInv ==
  ASSUME IInv, NEW t \in Threads, Answer(t)
  PROVE  IInv'
<1> USE DEF IInv
<1>1. /\ UNCHANGED <<plain, mapped, log, counter>>
      /\ UNCHANGED <<imap, rev_map, last_assigned_id, counter_buffer, logs_number>>
      /\ UNCHANGED <<seen, starts, raced>>
      /\ answered' = Returned(node[t], last_assigned_id)
      /\ pc' = [pc EXCEPT ![t] = "idle"]
      /\ node' = [node EXCEPT ![t] = NoNode]
      /\ pc[t] = "added"
  BY DEF Answer, Goto, files, members
<1>2. pc'[t] = "idle" /\ \A u \in Threads : u # t => pc'[u] = pc[u] /\ node'[u] = node[u]
  BY <1>1 DEF TypeOK
<1>3. /\ node[t] \in Nodes
      /\ node[t] \notin raced =>
           \/ InLog(node[t], last_assigned_id)
           \/ node[t] \in DOMAIN mapped /\ last_assigned_id = mapped[node[t]]
           \/ last_assigned_id < Len(plain) /\ plain[last_assigned_id + 1] = node[t]
  BY <1>1 DEF NewNodes, PairsInFiles, Settled
<1>4. TypeOK'
  BY <1>1, <1>3 DEF TypeOK, Returned
<1>5. IdsClear' /\ MapsInvert'
  BY <1>1, <1>2 DEF IdsClear, Clear, MapsInvert, Settled
<1>6. SoloOrRaced' /\ NewNodes' /\ PairsInFiles'
  BY <1>1, <1>2 DEF SoloOrRaced, NewNodes, PairsInFiles, InLog, Settled
<1>7. AnsweredInFiles'
  <2>1. AnsweredInFiles
    OBVIOUS
  <2> QED
    BY <1>1, <1>3, <2>1, ReturnedInFiles DEF AnsweredInFiles
<1> QED
  BY <1>4, <1>5, <1>6, <1>7

LEMMA NextIInv == IInv /\ [Next]_vars => IInv'
<1> SUFFICES ASSUME IInv, [Next]_vars PROVE IInv'
  OBVIOUS
<1>1. CASE UNCHANGED vars
  BY <1>1 DEF vars, files, members, calls, IInv, TypeOK, SoloOrRaced, IdsClear, Clear, MapsInvert,
     NewNodes, PairsInFiles, InLog, Settled, AnsweredInFiles
<1>2. CASE Next
  BY <1>2, FoundIInv, MissingIInv, ReadLastIInv, AssignIInv, LogNewKvIInv, AddIInv, AnswerIInv,
     RestartIInv
  DEF Next
<1> QED
  BY <1>1, <1>2

LEMMA IInvMatches == IInv => IdsTranslateBack
<1> SUFFICES ASSUME IInv PROVE IdsTranslateBack
  OBVIOUS
<1> USE DEF IInv
<1>1. plain \in PlainFiles /\ Len(plain) \in Nat
  BY DEF TypeOK, PlainFiles
<1>2. ASSUME NEW r \in Nodes \ raced, GetId(r) # NOT_FOUND_NODEID PROVE GetRealId(GetId(r)) = r
  <2>1. CASE SequenceGetId(plain, r) # NOT_FOUND_NODEID
    <3>1. /\ GetId(r) = SequenceGetId(plain, r)
          /\ GetId(r) \in 0 .. Len(plain) - 1
          /\ plain[GetId(r) + 1] = r
      BY <1>1, <2>1, SequenceFinds DEF GetId
    <3>2. GetId(r) < Len(plain)
      BY <1>1, <3>1
    <3> QED
      BY <3>1, <3>2 DEF GetRealId
  <2>2. CASE SequenceGetId(plain, r) = NOT_FOUND_NODEID
    <3>1. r \in Settled /\ GetId(r) = imap[r]
      BY <1>2, <2>2 DEF GetId, Settled
    <3>2. imap[r] \in DOMAIN rev_map /\ rev_map[imap[r]] = r
      BY <3>1 DEF MapsInvert
    <3>3. ~ (imap[r] < Len(plain))
      BY <1>1, <3>2 DEF IdsClear, TypeOK, Ids
    <3> QED
      BY <3>1, <3>2, <3>3 DEF GetRealId
  <2> QED
    BY <2>1, <2>2
<1>3. ASSUME NEW i \in 0 .. Len(plain) - 1 PROVE GetId(GetRealId(i)) = i
  <2>1. GetRealId(i) = plain[i + 1]
    BY <1>1 DEF GetRealId
  <2> QED
    BY <1>1, <2>1, SequenceFindsAll DEF GetId
<1>4. ASSUME NEW i \in DOMAIN rev_map, GetRealId(i) \notin raced PROVE GetId(GetRealId(i)) = i
  <2>1. ~ (i < Len(plain))
    BY <1>1 DEF IdsClear, TypeOK, Ids
  <2>2. GetRealId(i) = rev_map[i]
    BY <2>1 DEF GetRealId
  <2>3. rev_map[i] \in DOMAIN imap /\ imap[rev_map[i]] = i
    BY <1>4, <2>2 DEF MapsInvert
  <2> QED
    BY <2>2, <2>3 DEF GetId, NewNodes
<1> QED
  BY <1>2, <1>3, <1>4 DEF IdsTranslateBack

\* A step within a run of the process.
LEMMA StepKeepsIds ==
  ASSUME IInv, Next, starts' = starts,
         NEW r \in Nodes \ raced', GetId(r) # NOT_FOUND_NODEID
  PROVE  GetId(r)' = GetId(r)
<1>1. CASE \E t \in Threads : Add(t)
  <2>1. PICK t \in Threads : Add(t)
    BY <1>1
  <2>2. plain' = plain /\ raced' = raced /\ imap' = Put(imap, node[t], last_assigned_id)
    BY <2>1 DEF Add, files
  <2>3. node[t] # r
    BY <2>1, <2>2 DEF IInv, NewNodes, Add, GetId
  <2>4. /\ r \in DOMAIN imap' <=> r \in DOMAIN imap
        /\ r \in DOMAIN imap => imap'[r] = imap[r]
    BY <2>2, <2>3 DEF Put
  <2> QED
    BY <2>2, <2>4 DEF GetId
<1>2. CASE ~ \E t \in Threads : Add(t)
  <2>1. \A c : ~ Restart(c)
    BY DEF Restart, IInv, TypeOK
  <2>2. plain' = plain /\ imap' = imap
    BY <1>2, <2>1 DEF Next, Found, Missing, ReadLast, Assign, LogNewKv, Answer, files, members
  <2> QED
    BY <2>2 DEF GetId
<1> QED
  BY <1>1, <1>2

LEMMA AlwaysIInv == Spec => []IInv
BY InitIInv, NextIInv, PTL DEF Spec

-----------------------------------------------------------------------------
(***************************************************************************)
(* For any number of workers, get_id and get_real_id invert each other in  *)
(* every state, but for nodes whose creations overlapped                   *)
(* (NodeIdsManagerImpl.cpp:38-64).                                         *)
(***************************************************************************)
THEOREM IdsMatchNodes == Spec => []IdsTranslateBack
BY AlwaysIInv, IInvMatches, PTL

(***************************************************************************)
(* For any number of workers, a node whose creation overlapped no other    *)
(* keeps its id until the process ends (NodeIdsManagerImpl.cpp:56-64).     *)
(***************************************************************************)
THEOREM IdsAreKept == Spec => NodesKeepIds
<1>1. IInv /\ [Next]_vars
        => [starts' = starts =>
              \A r \in Nodes \ raced' : GetId(r) # NOT_FOUND_NODEID => GetId(r)' = GetId(r)]_vars
  BY StepKeepsIds
<1> QED
  BY <1>1, AlwaysIInv, PTL DEF Spec, NodesKeepIds

(***************************************************************************)
(* For any number of workers, every id that was returned for a node whose  *)
(* creation overlapped no other is in one of the files, wherever the       *)
(* process was stopped (NodeIdsManagerImpl.cpp:28, 60-74).                 *)
(***************************************************************************)
THEOREM AnswersAreLogged == Spec => []AnsweredInFiles
<1>1. IInv => AnsweredInFiles
  BY DEF IInv
<1> QED
  BY <1>1, AlwaysIInv, PTL
=============================================================================
