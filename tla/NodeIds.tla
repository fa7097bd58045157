------------------------------ MODULE NodeIds -------------------------------
(***************************************************************************)
(* NodeIdsManagerImpl: the ids of nodes.  A node has the id that is its    *)
(* place in a sorted sequence (NodesSequence), or one of a map             *)
(* (NodesMapImpl) that grows when an update session meets a new node.  A   *)
(* new pair goes to a log, and the number of pairs to a counter file; the  *)
(* constructor reads both.  get_id_or_create takes no lock, so that its    *)
(* accesses to the members are actions of their own, and the calls of      *)
(* several workers interleave between them.                                *)
(***************************************************************************)
EXTENDS Integers, Sequences, FiniteSets

CONSTANTS
  Nodes,      \* the real ids that clients name
  Threads,    \* the workers that run update sessions
  NoNode,     \* a thread that is not in get_id_or_create
  IdSpace,    \* 2^64: ids are unsigned numbers below it
  MaxPlain,   \* bound: length of the sorted sequence
  MaxStarts,  \* bound: restarts
  MaxPairs    \* bound: ids created over all runs

ASSUME NodesAssumption == Nodes \subseteq Nat /\ NoNode \notin Nodes
ASSUME IdSpaceAssumption == IdSpace \in Nat /\ MaxPlain \in Nat /\ MaxPlain + 1 < IdSpace
ASSUME BoundsAssumption == MaxStarts \in Nat /\ MaxPairs \in Nat

NOT_FOUND_NODEID == IdSpace - 1

Ids == 0 .. NOT_FOUND_NODEID

VARIABLES
  plain,             \* the file of the sorted sequence, and nodes_sequence
  mapped,            \* the file of the map
  log,               \* the file of the new pairs, a sequence of <<real_id, mapped_id>>
  counter,           \* what the counter file holds
  imap, rev_map,     \* the members of nodes_map
  last_assigned_id,
  counter_buffer,    \* what counter_writer has not written yet
  logs_number,
  pc, node,          \* where a thread is in get_id_or_create, and its real_id
  seen,              \* the value that last_assigned_id++ of a thread has read
  starts,            \* restarts so far
  raced,             \* auxiliary: the nodes of this run whose creation met another one
  answered           \* auxiliary: the pairs returned for nodes that are not in raced

files == <<plain, mapped, log, counter>>
members == <<imap, rev_map, last_assigned_id, counter_buffer, logs_number>>
calls == <<pc, node, seen>>
vars == <<files, members, calls, starts, raced, answered>>

-----------------------------------------------------------------------------
(* The sequence and the map.                                               *)

\* std::lower_bound: how many values come before the first that is not less.
LowerBound(values, v) ==
  CHOOSE i \in 0 .. Len(values) :
    /\ \A j \in 1 .. i : values[j] < v
    /\ i < Len(values) => values[i + 1] >= v

\* NodesSequence::get_id
SequenceGetId(values, v) ==
  LET it == LowerBound(values, v)
  IN  IF it < Len(values) /\ values[it + 1] = v THEN it ELSE NOT_FOUND_NODEID

\* NodesSequence::get_last_assigned, which wraps for an empty sequence.
SequenceLastAssigned(values) == (Len(values) - 1) % IdSpace

\* std::map::operator[] with an assignment.
Put(f, k, v) == [x \in DOMAIN f \cup {k} |-> IF x = k THEN v ELSE f[x]]

\* NodesMapImpl::NodesMapImpl: the greatest key of an id is written last.
Reversed(f) ==
  [i \in {f[k] : k \in DOMAIN f} |->
     CHOOSE k \in DOMAIN f : f[k] = i /\ \A j \in DOMAIN f : f[j] = i => j <= k]

\* The last key of a std::map.
LastKey(f) == CHOOSE i \in DOMAIN f : \A j \in DOMAIN f : j <= i

\* NodeIdsManagerImpl::find_last_assigned, with NodesMapImpl::get_last_assigned.
FindLastAssigned(values, reverse) ==
  IF DOMAIN reverse = {} THEN SequenceLastAssigned(values) ELSE LastKey(reverse)

\* NodeIdsManagerImpl::get_id
GetId(r) ==
  LET plain_id == SequenceGetId(plain, r)
  IN  IF plain_id # NOT_FOUND_NODEID THEN plain_id
      ELSE IF r \in DOMAIN imap THEN imap[r] ELSE NOT_FOUND_NODEID

\* NodeIdsManagerImpl::get_real_id; an unknown id gives -1, which is NOT_FOUND_NODEID.
GetRealId(i) ==
  IF i < Len(plain) THEN plain[i + 1]
  ELSE IF i \in DOMAIN rev_map THEN rev_map[i] ELSE NOT_FOUND_NODEID

-----------------------------------------------------------------------------
(* The constructor.                                                        *)

\* The pairs that NodesMapImpl::restore reads; past the end of the file they are 0.
ReadPairs(l, n) == [i \in 1 .. n |-> IF i <= Len(l) THEN l[i] ELSE <<0, 0>>]

\* The places of a sequence of pairs that name x in one column.
Places(pairs, column, x) == {i \in DOMAIN pairs : pairs[i][column] = x}

\* NodesMapImpl::restore on the map whose keys are in that column.
PutAll(f, pairs, column) ==
  [x \in DOMAIN f \cup {pairs[i][column] : i \in DOMAIN pairs} |->
     IF Places(pairs, column, x) = {} THEN f[x]
     ELSE pairs[LastKey([i \in Places(pairs, column, x) |-> i])][3 - column]]

\* Mutant: the counter file is opened without truncating it.
CounterKept(c) == c

\* get_writer(std::ios::binary) truncates the counter, and an empty file reads as 0.
CounterOpened(c) == 0

\* Mutant: the log is opened without std::ios::app.
LogTruncated(l) == << >>

\* get_writer(std::ios::binary | std::ios::app) keeps the log.
LogOpened(l) == l

\* The members after NodeIdsManagerImpl::NodeIdsManagerImpl: last_assigned_id is
\* found before the writers are opened and before restore reads the log.
Constructed(l, c) ==
  /\ log' = LogOpened(l)
  /\ counter' = CounterOpened(c)
  /\ imap' = PutAll(mapped, ReadPairs(log', counter'), 1)
  /\ rev_map' = PutAll(Reversed(mapped), ReadPairs(log', counter'), 2)
  /\ last_assigned_id' = FindLastAssigned(plain, Reversed(mapped))
  /\ counter_buffer' = counter'
  /\ logs_number' = counter'

-----------------------------------------------------------------------------

Sorted(s) == \A i, j \in DOMAIN s : i < j => s[i] < s[j]

\* The sequence as triples_to_sorted_node_ids leaves it: sorted, each node once.
PlainFiles == {s \in UNION {[1 .. n -> Nodes] : n \in 0 .. MaxPlain} : Sorted(s)}

\* A map that continues the sequence: other nodes, later ids, each once.
MappedFiles(values) ==
  {f \in UNION {[N -> Len(values) .. NOT_FOUND_NODEID - 1] : N \in SUBSET Nodes} :
     /\ \A k \in DOMAIN f : \A i \in DOMAIN values : values[i] # k
     /\ \A k, l \in DOMAIN f : f[k] = f[l] => k = l}

\* The first start, without a log.
Init ==
  /\ plain \in PlainFiles
  /\ mapped \in MappedFiles(plain)
  /\ log = << >>
  /\ counter = 0
  /\ imap = mapped
  /\ rev_map = Reversed(mapped)
  /\ last_assigned_id = FindLastAssigned(plain, Reversed(mapped))
  /\ counter_buffer = 0
  /\ logs_number = 0
  /\ pc = [t \in Threads |-> "idle"]
  /\ node = [t \in Threads |-> NoNode]
  /\ seen = [t \in Threads |-> 0]
  /\ starts = 0
  /\ raced = {}
  /\ answered = {}

Goto(t, label) == pc' = [pc EXCEPT ![t] = label]

\* The threads that are creating an id.
Creating == {t \in Threads : pc[t] # "idle"}

\* A call that starts to create an id of r while others do, and those others.
Overlapping(r) == IF Creating = {} THEN {} ELSE {r} \cup {node[t] : t \in Creating}

\* What get_id_or_create returns is recorded unless the node was raced.
Returned(r, i) == answered \cup {p \in {<<r, i>>} : r \notin raced}

\* get_id_or_create finds the id and returns it.
Found(t, r) ==
  /\ pc[t] = "idle"
  /\ GetId(r) # NOT_FOUND_NODEID
  /\ answered' = Returned(r, GetId(r))
  /\ UNCHANGED <<files, members, calls, starts, raced>>

\* Mutant: get_id_or_create asks the sequence only.
MissingInSequence(t, r) ==
  /\ pc[t] = "idle"
  /\ SequenceGetId(plain, r) = NOT_FOUND_NODEID
  /\ Len(log) + Cardinality(Creating) < MaxPairs
  /\ raced' = raced \cup Overlapping(r)
  /\ node' = [node EXCEPT ![t] = r]
  /\ Goto(t, "missing")
  /\ UNCHANGED <<files, members, seen, starts, answered>>

\* get_id_or_create does not find it.
Missing(t, r) ==
  /\ pc[t] = "idle"
  /\ GetId(r) = NOT_FOUND_NODEID
  /\ Len(log) + Cardinality(Creating) < MaxPairs
  /\ raced' = raced \cup Overlapping(r)
  /\ node' = [node EXCEPT ![t] = r]
  /\ Goto(t, "missing")
  /\ UNCHANGED <<files, members, seen, starts, answered>>

\* last_assigned_id++ reads the member ...
ReadLast(t) ==
  /\ pc[t] = "missing"
  /\ seen' = [seen EXCEPT ![t] = last_assigned_id]
  /\ Goto(t, "read")
  /\ UNCHANGED <<files, members, node, starts, raced, answered>>

\* ... and writes the next number; that it reaches 2^64 - 1 is out of bounds.
Assign(t) ==
  /\ pc[t] = "read"
  /\ last_assigned_id' = (seen[t] + 1) % IdSpace
  /\ last_assigned_id' # NOT_FOUND_NODEID
  /\ seen' = [seen EXCEPT ![t] = 0]
  /\ Goto(t, "assigned")
  /\ UNCHANGED <<files, imap, rev_map, counter_buffer, logs_number, node, starts, raced, answered>>

\* log_new_kv: the pair is flushed; seekp writes the number before, and the new
\* one stays in the buffer.
LogNewKv(t) ==
  /\ pc[t] = "assigned"
  /\ log' = Append(log, <<node[t], last_assigned_id>>)
  /\ counter' = counter_buffer
  /\ counter_buffer' = logs_number + 1
  /\ logs_number' = logs_number + 1
  /\ Goto(t, "logged")
  /\ UNCHANGED <<plain, mapped, imap, rev_map, last_assigned_id, node, seen, starts, raced, answered>>

\* NodesMapImpl::add
Add(t) ==
  /\ pc[t] = "logged"
  /\ imap' = Put(imap, node[t], last_assigned_id)
  /\ rev_map' = Put(rev_map, last_assigned_id, node[t])
  /\ Goto(t, "added")
  /\ UNCHANGED <<files, last_assigned_id, counter_buffer, logs_number, node, seen, starts, raced, answered>>

\* return last_assigned_id
Answer(t) ==
  /\ pc[t] = "added"
  /\ answered' = Returned(node[t], last_assigned_id)
  /\ node' = [node EXCEPT ![t] = NoNode]
  /\ Goto(t, "idle")
  /\ UNCHANGED <<files, members, seen, starts, raced>>

\* The process ends anywhere, with or without the destructor that writes the
\* buffer of the counter, and is started again.
Restart(c) ==
  /\ starts < MaxStarts
  /\ starts' = starts + 1
  /\ Constructed(log, c)
  /\ pc' = [t \in Threads |-> "idle"]
  /\ node' = [t \in Threads |-> NoNode]
  /\ seen' = [t \in Threads |-> 0]
  /\ raced' = {}
  /\ UNCHANGED <<plain, mapped, answered>>

Next ==
  \/ \E t \in Threads :
       \/ \E r \in Nodes : Found(t, r) \/ Missing(t, r)
       \/ ReadLast(t) \/ Assign(t) \/ LogNewKv(t) \/ Add(t) \/ Answer(t)
  \/ \E c \in {counter, counter_buffer} : Restart(c)

Spec == Init /\ [][Next]_vars

-----------------------------------------------------------------------------
(* Properties.                                                             *)

TypeOK ==
  /\ plain \in PlainFiles
  /\ mapped \in MappedFiles(plain)
  /\ log \in Seq(Nodes \X Ids)
  /\ DOMAIN imap \subseteq Nodes /\ \A r \in DOMAIN imap : imap[r] \in Ids
  /\ DOMAIN rev_map \subseteq Ids /\ \A i \in DOMAIN rev_map : rev_map[i] \in Nodes
  /\ last_assigned_id \in Ids
  /\ counter \in Nat /\ counter_buffer \in Nat /\ logs_number \in Nat
  /\ pc \in [Threads -> {"idle", "missing", "read", "assigned", "logged", "added"}]
  /\ node \in [Threads -> Nodes \cup {NoNode}]
  /\ seen \in [Threads -> Ids]
  /\ starts \in 0 .. MaxStarts
  /\ raced \subseteq Nodes
  /\ answered \subseteq Nodes \X Ids

(***************************************************************************)
(* Ids and nodes match, however the calls of several workers interleave: a *)
(* node that has an id is the node that its id is translated back to, and  *)
(* an id that is known is the id of its node, wherever the pair comes      *)
(* from: the sequence, the file of the map or a new pair, and with an      *)
(* empty sequence too, whose last id wraps.  A node whose creation         *)
(* overlapped that of another is excepted, and only such a node: what a    *)
(* race leaves in last_assigned_id and in the maps does not touch the      *)
(* nodes before and after it (NodeIdsManagerImpl.cpp:38-64).               *)
(***************************************************************************)
IdsTranslateBack ==
  /\ \A r \in Nodes \ raced : GetId(r) # NOT_FOUND_NODEID => GetRealId(GetId(r)) = r
  /\ \A i \in (0 .. Len(plain) - 1) \cup DOMAIN rev_map :
       GetRealId(i) \notin raced => GetId(GetRealId(i)) = i

(***************************************************************************)
(* A node keeps its id while the process runs: the points of the trees in  *)
(* memory are made of ids.  get_id_or_create looks the node up and adds it *)
(* without a lock, so that only a node that two calls create at the same   *)
(* time may be given a second id (NodeIdsManagerImpl.cpp:56-64).           *)
(***************************************************************************)
NodesKeepIds ==
  [][starts' = starts =>
       \A r \in Nodes \ raced' : GetId(r) # NOT_FOUND_NODEID => GetId(r)' = GetId(r)]_vars

(***************************************************************************)
(* An id that was returned for a node that was not raced is in a file,     *)
(* whenever the process ends: log_new_kv flushes the pair before the map   *)
(* has it, and the log is opened for appending                             *)
(* (NodeIdsManagerImpl.cpp:28, 60-63, 70-74).                              *)
(***************************************************************************)
AnsweredInFiles ==
  \A p \in answered :
    \/ \E i \in DOMAIN log : log[i] = p
    \/ p[1] \in DOMAIN mapped /\ p[2] = mapped[p[1]]
    \/ p[2] < Len(plain) /\ plain[p[2] + 1] = p[1]

=============================================================================
