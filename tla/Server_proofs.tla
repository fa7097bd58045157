---------------------------- MODULE Server_proofs ----------------------------
(***************************************************************************)
(* For any number of workers and clients: the numbers that clients are     *)
(* told are their own, a queued connection is not slept on, and no handler *)
(* waits for a mutex whose holder waits for it.                            *)
(***************************************************************************)
EXTENDS Server, TLAPS

-----------------------------------------------------------------------------
(* The inductive invariant.                                                *)

Serving == Handling \cup {"serve"}

Places == Serving \cup {"check", "window", "wait", "take"}

WorkerOK == worker \in [Workers -> [pc : Places, conn : Clients \cup {None}, number : Nat]]

ClientOK == client \in [Clients -> [channel : Nat, session : Nat, query : Nat, requests : Nat]]

\* A connection is queued once, or has one worker.
ConnectionsOK ==
  /\ conn \in [Clients -> {"none", "queued", "served", "closed"}]
  /\ server_tasks \in Seq(Clients)
  /\ \A i \in 1..Len(server_tasks) : conn[server_tasks[i]] = "queued"
  /\ \A i, j \in 1..Len(server_tasks) : server_tasks[i] = server_tasks[j] => i = j
  /\ \A w \in Workers : worker[w].pc \in Serving => Who(w) \in Clients /\ conn[Who(w)] = "served"
  /\ \A v, w \in Workers : worker[v].pc \in Serving /\ worker[w].pc \in Serving /\ Who(v) = Who(w) => v = w

\* The next number is above those given.
CountersOK ==
  /\ next_channel \in Nat /\ next_channel # 0
  /\ next_session \in Nat /\ next_session # 0
  /\ next_query \in Nat
  /\ \A n \in DOMAIN channels : n \in Nat /\ 0 < n /\ n < next_channel
  /\ \A n \in DOMAIN sessions : n \in Nat /\ 0 < n /\ n < next_session
  /\ \A n \in DOMAIN queries : n \in Nat /\ 0 < n /\ n <= next_query
  /\ \A w \in Workers : At(w, "query") => next_query # 0

ChannelsOwn ==
  \A c \in Clients : client[c].channel # 0 =>
    client[c].channel \in DOMAIN channels /\ channels[client[c].channel] = c

SessionsOwn ==
  \A c \in Clients : client[c].session # 0 =>
    client[c].session \in DOMAIN sessions /\ sessions[client[c].session] = c

\* What the numbers of the BGP streams need, as long as get_bgp_streamer and
\* clean_bgp_streamer ran one at a time.
QueriesOwn ==
  /\ \A c \in Clients : client[c].query # 0 =>
       client[c].query \in DOMAIN queries /\ queries[client[c].query] = c
  /\ \A w \in Workers : worker[w].pc \in {"run", "clean"} =>
       worker[w].number \in DOMAIN queries /\ queries[worker[w].number] = Who(w)
  /\ \A w \in Workers : At(w, "clean") => client[Who(w)].query = 0
  /\ \A w \in Workers : At(w, "query") => next_query \notin DOMAIN queries
  /\ \A v, w \in Workers : At(v, "query") /\ At(w, "query") => v = w

NumbersInv ==
  /\ WorkerOK /\ ClientOK /\ ConnectionsOK /\ CountersOK /\ ChannelsOwn /\ SessionsOwn
  /\ raced \in BOOLEAN /\ (~raced => QueriesOwn)
-----------------------------------------------------------------------------
(* What the steps of a worker have in common.                              *)

\* The step of a worker that keeps its connection, and goes on serving.
Serves(w) ==
  /\ worker[w].pc \in Serving /\ worker'[w].pc \in Serving
  /\ worker'[w].conn = worker[w].conn
  /\ \A v \in Workers \ {w} : worker'[v] = worker[v]

\* It changes its place ...
LEMMA Moves ==
  ASSUME WorkerOK, NEW w \in Workers, NEW pc \in Places, Go(w, pc)
  PROVE  /\ WorkerOK'
         /\ worker'[w].pc = pc /\ worker'[w].conn = Who(w) /\ worker'[w].number = worker[w].number
         /\ \A v \in Workers \ {w} : worker'[v] = worker[v]
BY DEF WorkerOK, Go, Who

\* ... and the number of a BGP stream.
LEMMA MovesWithNumber ==
  ASSUME WorkerOK, NEW w \in Workers, NEW pc \in Places, NEW n \in Nat,
         worker' = [worker EXCEPT ![w].pc = pc, ![w].number = n]
  PROVE  /\ WorkerOK'
         /\ worker'[w].pc = pc /\ worker'[w].conn = Who(w) /\ worker'[w].number = n
         /\ \A v \in Workers \ {w} : worker'[v] = worker[v]
BY DEF WorkerOK, Who

\* Every handler does.
LEMMA HandleServes ==
  ASSUME WorkerOK, ClientOK, ConnectionsOK, next_query \in Nat, NEW w \in Workers, Handle(w)
  PROVE  Serves(w) /\ WorkerOK' /\ UNCHANGED pool
<1> DEFINE Moved == Serves(w) /\ WorkerOK'
<1>1. worker[w].pc \in Serving
  BY DEF Handle, LockAcquire, LockMark, CreateAcquire, CreateTriplesStreamer, GetTripleStreamer,
     DoneAcquire, CleanTripleStreamer, BeginUpdateSession, GetUpdater, ConnectionEnd, SyncAcquire, SyncRelease,
     CountQuery, InsertQuery, FindQuery, CleanQuery, NextMessage, CancelFind, CancelQuery, At,
     Serving, Handling
<1>2. ASSUME NEW pc \in Serving, Go(w, pc)
      PROVE  Moved
  BY <1>1, <1>2, Moves DEF Serves, Places, Who
<1>3. ASSUME NEW pc \in Serving, NEW n \in Nat,
             worker' = [worker EXCEPT ![w].pc = pc, ![w].number = n]
      PROVE  Moved
  BY <1>1, <1>3, MovesWithNumber, ZenonT(60) DEF Serves, Places, Who
<1> HIDE DEF Moved
<1>4. client[Who(w)].query \in Nat
  BY <1>1 DEF ClientOK, ConnectionsOK
<1>5. UNCHANGED pool
  BY DEF Handle, LockAcquire, LockMark, CreateAcquire, CreateTriplesStreamer, GetTripleStreamer,
     DoneAcquire, CleanTripleStreamer, BeginUpdateSession, GetUpdater, ConnectionEnd, SyncAcquire, SyncRelease,
     CountQuery, InsertQuery, FindQuery, CleanQuery, NextMessage, CancelFind, CancelQuery, pool
<1> SUFFICES Moved
  BY <1>5 DEF Moved
<1>6. CASE InsertQuery(w) \/ FindQuery(w) \/ CleanQuery(w) \/ CancelQuery(w)
  BY <1>2, <1>3, <1>4, <1>6 DEF InsertQuery, FindQuery, CleanQuery, CancelQuery, Serving, Handling
<1>7. CASE \E n \in 1..(next_query + 1) : CancelFind(w, n)
  BY <1>2, <1>3, <1>7 DEF CancelFind, Serving, Handling
<1>8. CASE \E is_last \in BOOLEAN : NextMessage(w, is_last)
  BY <1>2, <1>8 DEF NextMessage, Serving, Handling
<1>9. CASE ~ (<1>6!1 \/ <1>7!1 \/ <1>8!1)
  BY <1>2, <1>9 DEF Handle, LockAcquire, LockMark, CreateAcquire, CreateTriplesStreamer,
     GetTripleStreamer, DoneAcquire, CleanTripleStreamer, BeginUpdateSession, GetUpdater, ConnectionEnd,
     SyncAcquire, SyncRelease, CountQuery, Serving, Handling
<1> QED
  BY <1>6, <1>7, <1>8, <1>9

\* So does one that reads a request.
LEMMA ReadServes ==
  ASSUME WorkerOK, NEW w \in Workers, NEW request \in Requests, ReadRequest(w, request)
  PROVE  Serves(w) /\ WorkerOK' /\ UNCHANGED pool
<1>1. request \in Serving /\ worker[w].pc \in Serving
  BY DEF Requests, Serving, Handling, ReadRequest, At
<1> QED
  BY <1>1, Moves DEF ReadRequest, Serves, Places, Who

\* What worker w does in its loop, outside a task.
LEMMA LoopMoves ==
  ASSUME WorkerOK, NEW w \in Workers,
         CheckTasks(w) \/ Sleep(w) \/ SpuriousWake(w) \/ (GetServerTask(w) /\ server_tasks = << >>)
  PROVE  /\ WorkerOK' /\ worker[w].pc \notin Serving /\ worker'[w].pc \notin Serving
         /\ \A v \in Workers \ {w} : worker'[v] = worker[v]
         /\ UNCHANGED <<acceptor, server_tasks, conn, client, missed, maps, bgp>>
<1>1. PICK pc \in {"check", "window", "wait", "take"} : Go(w, pc)
  BY DEF CheckTasks, Sleep, SpuriousWake, GetServerTask
<1>2. worker[w].pc \notin Serving /\ pc \notin Serving
  BY DEF CheckTasks, Sleep, SpuriousWake, GetServerTask, At, Serving, Handling
<1>3. UNCHANGED <<acceptor, server_tasks, conn, client, missed, maps, bgp>>
  BY DEF CheckTasks, Sleep, SpuriousWake, GetServerTask, pool
<1> QED
  BY <1>1, <1>2, <1>3, Moves DEF Places

\* A worker that finds a task takes the first connection of the queue.
LEMMA TakesTask ==
  ASSUME WorkerOK, ConnectionsOK, NEW w \in Workers, GetServerTask(w), server_tasks # << >>
  PROVE  \E c \in Clients :
           /\ c = server_tasks[1] /\ conn[c] = "queued"
           /\ Len(server_tasks) # 0 /\ server_tasks' \in Seq(Clients)
           /\ Len(server_tasks') = Len(server_tasks) - 1
           /\ \A i \in 1..Len(server_tasks') : server_tasks'[i] = server_tasks[i + 1]
           /\ conn' = [conn EXCEPT ![c] = "served"]
           /\ At(w, "take") /\ WorkerOK' /\ worker'[w].pc = "serve" /\ worker'[w].conn = c
           /\ \A v \in Workers \ {w} : worker'[v] = worker[v]
           /\ UNCHANGED <<acceptor, client, missed, maps, bgp>>
<1>1. /\ Head(server_tasks) \in Clients /\ Head(server_tasks) = server_tasks[1]
      /\ Len(server_tasks) # 0 /\ 1 \in 1..Len(server_tasks)
      /\ Tail(server_tasks) \in Seq(Clients) /\ Len(Tail(server_tasks)) = Len(server_tasks) - 1
      /\ \A i \in 1..Len(Tail(server_tasks)) : Tail(server_tasks)[i] = server_tasks[i + 1]
  BY DEF ConnectionsOK
<1>2. PICK c \in Clients : c = Head(server_tasks)
  BY <1>1
<1>3. /\ worker' = [worker EXCEPT ![w].pc = "serve", ![w].conn = c]
      /\ conn' = [conn EXCEPT ![c] = "served"]
      /\ server_tasks' = Tail(server_tasks)
      /\ At(w, "take") /\ UNCHANGED <<acceptor, client, missed, maps, bgp>>
  BY <1>2 DEF GetServerTask
<1>4. /\ WorkerOK' /\ worker'[w].pc = "serve" /\ worker'[w].conn = c
      /\ \A v \in Workers \ {w} : worker'[v] = worker[v]
  BY <1>3 DEF WorkerOK, Places, Serving
<1>5. conn[c] = "queued"
  BY <1>1, <1>2 DEF ConnectionsOK
<1> QED
  BY <1>1, <1>2, <1>3, <1>4, <1>5
-----------------------------------------------------------------------------
(* Each part of the invariant is kept.                                     *)

\* Workers and clients keep their types.
LEMMA TypesStep ==
  ASSUME NumbersInv, [Next]_vars
  PROVE  WorkerOK' /\ ClientOK'
<1> USE DEF NumbersInv
<1>1. CASE \E c \in Clients : Accept(c)
  BY <1>1 DEF Accept, WorkerOK, ClientOK
<1>2. CASE NotifyWorkers
  BY <1>2 DEF NotifyWorkers, WorkerOK, ClientOK, Places
<1>3. ASSUME NEW w \in Workers, CheckTasks(w) \/ Sleep(w) \/ SpuriousWake(w) \/ (GetServerTask(w) /\ server_tasks = << >>)
      PROVE  WorkerOK' /\ ClientOK'
  BY <1>3, LoopMoves DEF ClientOK
<1>4. ASSUME NEW w \in Workers, GetServerTask(w), server_tasks # << >>
      PROVE  WorkerOK' /\ ClientOK'
  BY <1>4, TakesTask DEF ClientOK
<1>5. ASSUME NEW w \in Workers, Disconnect(w)
      PROVE  WorkerOK' /\ ClientOK'
  BY <1>5 DEF Disconnect, WorkerOK, ClientOK, Places, Idle, NewClient
<1>6. ASSUME NEW w \in Workers, NEW request \in Requests, ReadRequest(w, request)
      PROVE  WorkerOK' /\ ClientOK'
  <2>1. WorkerOK'
    BY <1>6, ReadServes
  <2>2. ClientOK'
    <3>1. Who(w) \in Clients
      BY <1>6, ReadServes DEF Serves, ConnectionsOK
    <3> QED
      BY <1>6, <3>1 DEF ReadRequest, ClientOK
  <2> QED
    BY <2>1, <2>2
<1>7. ASSUME NEW w \in Workers, Handle(w)
      PROVE  WorkerOK' /\ ClientOK'
  <2>1. WorkerOK' /\ worker[w].number \in Nat
    BY <1>7, HandleServes DEF CountersOK, WorkerOK
  <2>2. ClientOK'
    BY <1>7, <2>1 DEF ClientOK, CountersOK, Handle, LockAcquire, LockMark, CreateAcquire,
       CreateTriplesStreamer, GetTripleStreamer, DoneAcquire, CleanTripleStreamer,
       BeginUpdateSession, GetUpdater, ConnectionEnd, SyncAcquire, SyncRelease, CountQuery, InsertQuery,
       FindQuery, CleanQuery, NextMessage, CancelFind, CancelQuery
  <2> QED
    BY <2>1, <2>2
<1>8. CASE UNCHANGED vars
  BY <1>8 DEF vars, WorkerOK, ClientOK
<1> QED
  BY <1>1, <1>2, <1>3, <1>4, <1>5, <1>6, <1>7, <1>8 DEF Next, Loop

\* A connection stays queued once, or with one worker.
LEMMA ConnectionsStep ==
  ASSUME NumbersInv, [Next]_vars
  PROVE  ConnectionsOK'
<1> USE DEF NumbersInv
<1>1. ASSUME NEW c \in Clients, Accept(c)
      PROVE  ConnectionsOK'
  BY <1>1 DEF Accept, ConnectionsOK, Who
<1>2. CASE NotifyWorkers
  <2>1. \A w \in Workers : worker'[w].conn = worker[w].conn /\ (worker'[w].pc \in Serving => worker[w].pc \in Serving)
    BY <1>2 DEF NotifyWorkers, WorkerOK, At, Serving, Handling
  <2> QED
    BY <1>2, <2>1 DEF NotifyWorkers, ConnectionsOK, Who
<1>3. ASSUME NEW w \in Workers, CheckTasks(w) \/ Sleep(w) \/ SpuriousWake(w) \/ (GetServerTask(w) /\ server_tasks = << >>)
      PROVE  ConnectionsOK'
  BY <1>3, LoopMoves DEF ConnectionsOK, Who
<1>4. ASSUME NEW w \in Workers, GetServerTask(w), server_tasks # << >>
      PROVE  ConnectionsOK'
  <2>1. PICK c \in Clients :
           /\ c = server_tasks[1] /\ conn[c] = "queued"
           /\ Len(server_tasks) # 0 /\ server_tasks' \in Seq(Clients)
           /\ Len(server_tasks') = Len(server_tasks) - 1
           /\ \A i \in 1..Len(server_tasks') : server_tasks'[i] = server_tasks[i + 1]
           /\ conn' = [conn EXCEPT ![c] = "served"]
           /\ At(w, "take") /\ worker'[w].conn = c
           /\ \A v \in Workers \ {w} : worker'[v] = worker[v]
    BY <1>4, TakesTask
  <2>2. /\ \A i \in 1..Len(server_tasks') : i \in Nat /\ i + 1 \in 1..Len(server_tasks) /\ i + 1 # 1
        /\ 1 \in 1..Len(server_tasks)
    BY <2>1 DEF ConnectionsOK
  <2>3. /\ \A i \in 1..Len(server_tasks') : server_tasks'[i] # c
        /\ \A i, j \in 1..Len(server_tasks') : server_tasks'[i] = server_tasks'[j] => i = j
        /\ \A i \in 1..Len(server_tasks') : server_tasks'[i] \in Clients /\ conn[server_tasks'[i]] = "queued"
    <3> DEFINE q == server_tasks
               q1 == server_tasks'
    <3>1. /\ \A i, j \in 1..Len(q) : q[i] = q[j] => i = j
          /\ \A i \in 1..Len(q) : q[i] \in Clients /\ conn[q[i]] = "queued"
      BY DEF ConnectionsOK
    <3>2. c = q[1] /\ \A i \in 1..Len(q1) : q1[i] = q[i + 1]
      BY <2>1
    <3> HIDE DEF q1
    <3>3. ASSUME NEW i \in 1..Len(q1) PROVE q1[i] # c /\ q1[i] \in Clients /\ conn[q1[i]] = "queued"
      BY <2>2, <3>1, <3>2 DEF q1
    <3>4. ASSUME NEW i \in 1..Len(q1), NEW j \in 1..Len(q1), q1[i] = q1[j] PROVE i = j
      <4>1. i + 1 \in 1..Len(q) /\ j + 1 \in 1..Len(q) /\ q[i + 1] = q[j + 1] /\ i \in Nat /\ j \in Nat
        BY <2>2, <3>2, <3>4 DEF q1
      <4>2. i + 1 = j + 1
        BY <3>1, <4>1
      <4> QED
        BY <4>1, <4>2
    <3> QED
      BY <3>3, <3>4 DEF q1
  <2>4. \A v \in Workers : worker[v].pc \in Serving => Who(v) # c
    BY <2>1 DEF ConnectionsOK
  <2>5. /\ conn' \in [Clients -> {"none", "queued", "served", "closed"}]
        /\ conn'[c] = "served" /\ \A d \in Clients : d # c => conn'[d] = conn[d]
    BY <2>1 DEF ConnectionsOK
  <2>6. \A i \in 1..Len(server_tasks') : conn'[server_tasks'[i]] = "queued"
    BY <2>3, <2>5
  <2>7. /\ Who(w)' = c
        /\ \A v \in Workers : v # w => worker'[v].pc = worker[v].pc /\ Who(v)' = Who(v)
    BY <2>1 DEF Who
  <2>8. \A v \in Workers : worker'[v].pc \in Serving => Who(v)' \in Clients /\ conn'[Who(v)'] = "served"
    <3> SUFFICES ASSUME NEW v \in Workers, v # w, worker[v].pc \in Serving
                 PROVE  Who(v) \in Clients /\ conn'[Who(v)] = "served"
      BY <2>5, <2>7
    <3> QED
      BY <2>4, <2>5 DEF ConnectionsOK
  <2>9. \A u, v \in Workers : worker'[u].pc \in Serving /\ worker'[v].pc \in Serving /\ Who(u)' = Who(v)' => u = v
    BY <2>4, <2>7 DEF ConnectionsOK
  <2> QED
    BY <2>1, <2>3, <2>5, <2>6, <2>8, <2>9 DEF ConnectionsOK
<1>5. ASSUME NEW w \in Workers, Disconnect(w)
      PROVE  ConnectionsOK'
  BY <1>5 DEF Disconnect, ConnectionsOK, Who, Idle, Serving, Handling, At, WorkerOK
<1>6. ASSUME NEW w \in Workers, Serves(w), UNCHANGED pool
      PROVE  ConnectionsOK'
  BY <1>6 DEF Serves, pool, ConnectionsOK, Who
<1>7. CASE UNCHANGED vars
  BY <1>7 DEF vars, ConnectionsOK, Who
<1> QED
  BY <1>1, <1>2, <1>3, <1>4, <1>5, <1>6, <1>7, HandleServes, ReadServes DEF Next, Loop, CountersOK

\* Only CountQuery takes a worker to the place before the insertion of a stream.
LEMMA QueryPlace ==
  ASSUME NumbersInv, NEW w \in Workers, [Next]_vars, ~ At(w, "query"), At(w, "query")'
  PROVE  CountQuery(w)
<1>1. ASSUME NEW v \in Workers, worker'[w].pc = "query", v # w \/ ~ CountQuery(w),
             Handle(v) \/ Loop(v) \/ SpuriousWake(v) \/ Disconnect(v)
             \/ \E request \in Requests : ReadRequest(v, request)
      PROVE  worker[w].pc = "query"
  BY <1>1 DEF NumbersInv, WorkerOK, Loop, CheckTasks, Sleep, GetServerTask, SpuriousWake, Disconnect, Idle,
     Requests, ReadRequest, Go,
     Handle, LockAcquire, LockMark, CreateAcquire,
     CreateTriplesStreamer, GetTripleStreamer, DoneAcquire, CleanTripleStreamer,
     BeginUpdateSession, GetUpdater, ConnectionEnd, SyncAcquire, SyncRelease, CountQuery, InsertQuery,
     FindQuery, CleanQuery, NextMessage, CancelFind, CancelQuery
<1>2. CASE NotifyWorkers
  BY <1>2 DEF NotifyWorkers, NumbersInv, WorkerOK, At
<1> QED
  BY <1>1, <1>2 DEF Next, Accept, vars, At

\* Which steps change the maps.
LEMMA MapsChange ==
  ASSUME [Next]_vars
  PROVE  \/ UNCHANGED <<next_channel, channels, next_session, sessions, next_query, queries>>
         \/ \E w \in Workers : \/ CreateTriplesStreamer(w) \/ CleanTripleStreamer(w)
                               \/ BeginUpdateSession(w)
                               \/ CountQuery(w) \/ InsertQuery(w) \/ CleanQuery(w)
<1> DEFINE Same == UNCHANGED <<next_channel, channels, next_session, sessions, next_query, queries>>
<1>1. UNCHANGED <<maps, bgp>> \/ UNCHANGED <<maps, next_query, queries>> => Same
  BY DEF maps, bgp
<1> HIDE DEF Same
<1>2. ASSUME NEW w \in Workers, Handle(w), ~ Same
      PROVE  \/ CreateTriplesStreamer(w) \/ CleanTripleStreamer(w) \/ BeginUpdateSession(w)
             \/ CountQuery(w) \/ InsertQuery(w) \/ CleanQuery(w)
  BY <1>1, <1>2 DEF Handle, LockAcquire, LockMark, CreateAcquire, GetTripleStreamer,
     DoneAcquire, GetUpdater, ConnectionEnd, SyncAcquire, SyncRelease, FindQuery, NextMessage, CancelFind,
     CancelQuery
<1>3. ASSUME NEW w \in Workers, Loop(w) \/ SpuriousWake(w) \/ Disconnect(w) \/ \E request \in Requests : ReadRequest(w, request)
      PROVE  Same
  BY <1>1, <1>3 DEF Loop, CheckTasks, Sleep, GetServerTask, SpuriousWake, Disconnect, ReadRequest
<1>4. CASE NotifyWorkers \/ \E c \in Clients : Accept(c)
  BY <1>1, <1>4 DEF NotifyWorkers, Accept, Same
<1>5. CASE UNCHANGED vars
  BY <1>5 DEF vars, Same
<1> QED
  BY <1>2, <1>3, <1>4, <1>5 DEF Next, Same

\* Numbers grow, and what is erased is not given again.
LEMMA CountersStep ==
  ASSUME NumbersInv, [Next]_vars
  PROVE  CountersOK'
<1> DEFINE Queried == \A w \in Workers : At(w, "query")' => next_query' # 0
<1>1. CountersOK
  BY DEF NumbersInv
<1>2. Queried
  <2>1. next_query' = next_query \/ next_query' = next_query + 1
    BY MapsChange DEF CreateTriplesStreamer, CleanTripleStreamer, BeginUpdateSession, CountQuery,
       InsertQuery, CleanQuery, bgp
  <2>2. ASSUME NEW w \in Workers, At(w, "query")' PROVE next_query' # 0
    <3>1. CASE At(w, "query")
      BY <1>1, <2>1, <3>1 DEF CountersOK
    <3>2. CASE CountQuery(w)
      BY <1>1, <3>2 DEF CountersOK, CountQuery
    <3> QED
      BY <2>2, <3>1, <3>2, QueryPlace
  <2> QED
    BY <2>2
<1> HIDE DEF Queried
<1>3. ASSUME NEW w \in Workers, CreateTriplesStreamer(w) PROVE CountersOK'
  <2>1. DOMAIN channels' = DOMAIN channels \cup {next_channel}
    BY <1>3 DEF CreateTriplesStreamer, With
  <2> QED
    BY <1>1, <1>2, <1>3, <2>1 DEF Queried, CountersOK, CreateTriplesStreamer, bgp
<1>4. ASSUME NEW w \in Workers, CleanTripleStreamer(w) PROVE CountersOK'
  <2>1. DOMAIN channels' = DOMAIN channels \ {client[Who(w)].channel}
    BY <1>4 DEF CleanTripleStreamer, Without
  <2> QED
    BY <1>1, <1>2, <1>4, <2>1 DEF Queried, CountersOK, CleanTripleStreamer, bgp
<1>5. ASSUME NEW w \in Workers, BeginUpdateSession(w) PROVE CountersOK'
  <2>1. DOMAIN sessions' = DOMAIN sessions \cup {next_session}
    BY <1>5 DEF BeginUpdateSession, With
  <2> QED
    BY <1>1, <1>2, <1>5, <2>1 DEF Queried, CountersOK, BeginUpdateSession, bgp
<1>6. ASSUME NEW w \in Workers, CountQuery(w) PROVE CountersOK'
  BY <1>1, <1>2, <1>6 DEF Queried, CountersOK, CountQuery, maps
<1>7. ASSUME NEW w \in Workers, InsertQuery(w) PROVE CountersOK'
  <2>1. DOMAIN queries' = DOMAIN queries \cup {next_query} /\ next_query # 0
    BY <1>1, <1>7 DEF InsertQuery, CountersOK, With
  <2> QED
    BY <1>1, <1>2, <1>7, <2>1 DEF Queried, CountersOK, InsertQuery, maps
<1>8. ASSUME NEW w \in Workers, CleanQuery(w) PROVE CountersOK'
  <2>1. DOMAIN queries' = DOMAIN queries \ {worker[w].number}
    BY <1>8 DEF CleanQuery, Without
  <2> QED
    BY <1>1, <1>2, <1>8, <2>1 DEF Queried, CountersOK, CleanQuery, maps
<1>9. CASE UNCHANGED <<next_channel, channels, next_session, sessions, next_query, queries>>
  BY <1>1, <1>2, <1>9 DEF Queried, CountersOK
<1> QED
  BY <1>3, <1>4, <1>5, <1>6, <1>7, <1>8, <1>9, MapsChange

\* What a step does to the numbers that clients were told.
LEMMA ClientsTold ==
  ASSUME NumbersInv, [Next]_vars, NEW c \in Clients
  PROVE  /\ \/ client'[c].channel \in {0, client[c].channel}
            \/ \E w \in Workers : CreateTriplesStreamer(w) /\ Who(w) = c /\ client'[c].channel = next_channel
         /\ \/ client'[c].session \in {0, client[c].session}
            \/ \E w \in Workers : BeginUpdateSession(w) /\ Who(w) = c /\ client'[c].session = next_session
         /\ \/ client'[c].query \in {0, client[c].query}
            \/ \E w \in Workers : At(w, "run") /\ Who(w) = c /\ client'[c].query = worker[w].number
                                  /\ UNCHANGED queries
<1>1. CASE client' = client
  BY <1>1
<1>2. ASSUME NEW w \in Workers, CreateTriplesStreamer(w) \/ CleanTripleStreamer(w) \/ BeginUpdateSession(w)
      PROVE  /\ client'[c].query = client[c].query
             /\ \/ client'[c].channel \in {0, client[c].channel}
                \/ CreateTriplesStreamer(w) /\ Who(w) = c /\ client'[c].channel = next_channel
             /\ \/ client'[c].session = client[c].session
                \/ BeginUpdateSession(w) /\ Who(w) = c /\ client'[c].session = next_session
  BY <1>2 DEF NumbersInv, ClientOK, CreateTriplesStreamer, CleanTripleStreamer, BeginUpdateSession
<1>3. ASSUME NEW w \in Workers, NEW is_last \in BOOLEAN, NextMessage(w, is_last)
      PROVE  /\ client'[c].channel = client[c].channel /\ client'[c].session = client[c].session
             /\ \/ client'[c].query \in {0, client[c].query}
                \/ At(w, "run") /\ Who(w) = c /\ client'[c].query = worker[w].number /\ UNCHANGED queries
  BY <1>3 DEF NumbersInv, ClientOK, NextMessage, bgp
<1>4. ASSUME NEW w \in Workers, Disconnect(w) \/ \E request \in Requests : ReadRequest(w, request)
      PROVE  /\ client'[c].channel \in {0, client[c].channel}
             /\ client'[c].session \in {0, client[c].session}
             /\ client'[c].query \in {0, client[c].query}
  BY <1>4 DEF NumbersInv, ClientOK, Disconnect, NewClient, ReadRequest
<1>5. ASSUME NEW w \in Workers, Handle(w), client' # client
      PROVE  \/ CreateTriplesStreamer(w) \/ CleanTripleStreamer(w) \/ BeginUpdateSession(w)
             \/ \E is_last \in BOOLEAN : NextMessage(w, is_last)
  BY <1>5 DEF Handle, LockAcquire, LockMark, CreateAcquire, GetTripleStreamer, DoneAcquire,
     GetUpdater, ConnectionEnd, SyncAcquire, SyncRelease, CountQuery, InsertQuery, FindQuery, CleanQuery,
     CancelFind, CancelQuery
<1>6. ASSUME NEW w \in Workers, Loop(w) \/ SpuriousWake(w)
      PROVE  client' = client
  BY <1>6 DEF Loop, CheckTasks, Sleep, GetServerTask, SpuriousWake
<1> QED
  BY <1>1, <1>2, <1>3, <1>4, <1>5, <1>6 DEF Next, Accept, NotifyWorkers, vars

\* The client of a worker at work.
LEMMA WorkersClient ==
  ASSUME ConnectionsOK, NEW w \in Workers, worker[w].pc \in Serving
  PROVE  Who(w) \in Clients /\ \A v \in Workers : worker[v].pc \in Serving /\ Who(v) = Who(w) => v = w
BY DEF ConnectionsOK

\* A channel belongs to the client that was told its number.
LEMMA ChannelsStep ==
  ASSUME NumbersInv, [Next]_vars
  PROVE  ChannelsOwn'
<1> SUFFICES ASSUME NEW c \in Clients, client'[c].channel # 0
             PROVE  client'[c].channel \in DOMAIN channels' /\ channels'[client'[c].channel] = c
  BY DEF ChannelsOwn
<1>1. ASSUME NEW w \in Workers, CreateTriplesStreamer(w), Who(w) = c, client'[c].channel = next_channel
      PROVE  client'[c].channel \in DOMAIN channels' /\ channels'[client'[c].channel] = c
  <2>1. channels' = With(channels, next_channel, c)
    BY <1>1 DEF CreateTriplesStreamer
  <2> QED
    BY <1>1, <2>1 DEF With
<1>2. ASSUME client'[c].channel = client[c].channel
      PROVE  client'[c].channel \in DOMAIN channels' /\ channels'[client'[c].channel] = c
  <2> DEFINE n == client[c].channel
  <2>1. n \in DOMAIN channels /\ channels[n] = c /\ n # next_channel
    BY <1>2 DEF NumbersInv, ChannelsOwn, CountersOK
  <2> HIDE DEF n
  <2>2. ASSUME NEW w \in Workers, CreateTriplesStreamer(w)
        PROVE  n \in DOMAIN channels' /\ channels'[n] = c
    <3>1. channels' = With(channels, next_channel, Who(w))
      BY <2>2 DEF CreateTriplesStreamer
    <3> QED
      BY <2>1, <3>1 DEF With
  <2>3. ASSUME NEW w \in Workers, CleanTripleStreamer(w)
        PROVE  n \in DOMAIN channels' /\ channels'[n] = c
    <3>1. Who(w) \in Clients
      BY <2>3, WorkersClient DEF NumbersInv, CleanTripleStreamer, At, Serving, Handling
    <3>2. Who(w) # c
      BY <1>2, <2>3 DEF CleanTripleStreamer, NumbersInv, ClientOK
    <3>3. client[Who(w)].channel # n
      BY <1>2, <2>1, <3>1, <3>2 DEF NumbersInv, ChannelsOwn, n
    <3>4. channels' = Without(channels, client[Who(w)].channel)
      BY <2>3 DEF CleanTripleStreamer
    <3> QED
      BY <2>1, <3>3, <3>4 DEF Without
  <2>4. ASSUME channels' # channels
        PROVE  \E w \in Workers : CreateTriplesStreamer(w) \/ CleanTripleStreamer(w)
    BY <2>4, MapsChange DEF BeginUpdateSession, CountQuery, InsertQuery, CleanQuery, maps
  <2> QED
    BY <1>2, <2>1, <2>2, <2>3, <2>4 DEF n
<1> QED
  BY <1>1, <1>2, ClientsTold

\* So does an update session.
LEMMA SessionsStep ==
  ASSUME NumbersInv, [Next]_vars
  PROVE  SessionsOwn'
<1> SUFFICES ASSUME NEW c \in Clients, client'[c].session # 0
             PROVE  client'[c].session \in DOMAIN sessions' /\ sessions'[client'[c].session] = c
  BY DEF SessionsOwn
<1>1. ASSUME NEW w \in Workers, BeginUpdateSession(w), Who(w) = c, client'[c].session = next_session
      PROVE  client'[c].session \in DOMAIN sessions' /\ sessions'[client'[c].session] = c
  <2>1. sessions' = With(sessions, next_session, c)
    BY <1>1 DEF BeginUpdateSession
  <2> QED
    BY <1>1, <2>1 DEF With
<1>2. ASSUME client'[c].session = client[c].session
      PROVE  client'[c].session \in DOMAIN sessions' /\ sessions'[client'[c].session] = c
  <2> DEFINE n == client[c].session
  <2>1. n \in DOMAIN sessions /\ sessions[n] = c /\ n # next_session
    BY <1>2 DEF NumbersInv, SessionsOwn, CountersOK
  <2> HIDE DEF n
  <2>2. ASSUME NEW w \in Workers, BeginUpdateSession(w)
        PROVE  n \in DOMAIN sessions' /\ sessions'[n] = c
    <3>1. sessions' = With(sessions, next_session, Who(w))
      BY <2>2 DEF BeginUpdateSession
    <3> QED
      BY <2>1, <3>1 DEF With
  <2>3. ASSUME sessions' # sessions
        PROVE  \E w \in Workers : BeginUpdateSession(w)
    BY <2>3, MapsChange DEF CreateTriplesStreamer, CleanTripleStreamer, CountQuery, InsertQuery, CleanQuery, maps
  <2> QED
    BY <1>2, <2>1, <2>2, <2>3 DEF n
<1> QED
  BY <1>1, <1>2, ClientsTold

\* A worker that serves a client is left alone, and its client too, by what
\* the other threads do.
LEMMA OthersLeaveAlone ==
  ASSUME NumbersInv, [Next]_vars, NEW w \in Workers, worker[w].pc \in Serving,
         ~ Handle(w), ~ Disconnect(w), \A request \in Requests : ~ ReadRequest(w, request)
  PROVE  worker'[w] = worker[w] /\ client'[Who(w)] = client[Who(w)]
<1>0. Who(w) \in Clients
  BY WorkersClient DEF NumbersInv
<1>1. CASE NotifyWorkers
  BY <1>1 DEF NotifyWorkers, At, Serving, Handling
<1>2. CASE UNCHANGED vars \/ \E c \in Clients : Accept(c)
  BY <1>2 DEF vars, Accept
<1>3. ASSUME NEW v \in Workers, CheckTasks(v) \/ Sleep(v) \/ SpuriousWake(v) \/ (GetServerTask(v) /\ server_tasks = << >>)
      PROVE  worker'[w] = worker[w] /\ client'[Who(w)] = client[Who(w)]
  BY <1>3, LoopMoves DEF NumbersInv
<1>4. ASSUME NEW v \in Workers, GetServerTask(v), server_tasks # << >>
      PROVE  worker'[w] = worker[w] /\ client'[Who(w)] = client[Who(w)]
  <2>1. v # w
    BY <1>4 DEF GetServerTask, At, Serving, Handling
  <2> QED
    BY <1>4, <2>1, TakesTask DEF NumbersInv
<1>5. ASSUME NEW v \in Workers, v # w, Disconnect(v)
      PROVE  worker'[w] = worker[w] /\ client'[Who(w)] = client[Who(w)]
  <2>1. Who(v) # Who(w)
    BY <1>5, WorkersClient DEF NumbersInv, Disconnect, At, Serving
  <2> QED
    BY <1>0, <1>5, <2>1 DEF Disconnect, NumbersInv, WorkerOK, ClientOK
<1>6. ASSUME NEW v \in Workers, v # w, NEW request \in Requests, ReadRequest(v, request)
      PROVE  worker'[w] = worker[w] /\ client'[Who(w)] = client[Who(w)]
  <2>1. Who(v) # Who(w) /\ worker'[w] = worker[w]
    BY <1>6, WorkersClient, ReadServes DEF NumbersInv, Serves
  <2> QED
    BY <1>0, <1>6, <2>1 DEF ReadRequest, NumbersInv, ClientOK
<1>7. ASSUME NEW v \in Workers, v # w, Handle(v)
      PROVE  worker'[w] = worker[w] /\ client'[Who(w)] = client[Who(w)]
  <2>1. Who(v) # Who(w) /\ worker'[w] = worker[w]
    BY <1>7, WorkersClient, HandleServes DEF NumbersInv, Serves, CountersOK
  <2> QED
    BY <1>0, <1>7, <2>1 DEF NumbersInv, ClientOK, Handle, LockAcquire, LockMark, CreateAcquire,
       CreateTriplesStreamer, GetTripleStreamer, DoneAcquire, CleanTripleStreamer,
       BeginUpdateSession, GetUpdater, ConnectionEnd, SyncAcquire, SyncRelease, CountQuery, InsertQuery,
       FindQuery, CleanQuery, NextMessage, CancelFind, CancelQuery
<1> QED
  BY <1>1, <1>2, <1>3, <1>4, <1>5, <1>6, <1>7 DEF Next, Loop

\* How a worker gets to the places that have to do with BGP streams.
LEMMA StreamPlaces ==
  ASSUME NumbersInv, [Next]_vars, NEW w \in Workers, worker'[w].pc \in {"more", "query", "run", "clean"}
  PROVE  \/ worker'[w] = worker[w] /\ client'[Who(w)] = client[Who(w)]
         \/ worker'[w].pc = "more" /\ ReadRequest(w, "more")
         \/ worker'[w].pc = "query" /\ CountQuery(w)
         \/ worker'[w].pc = "run" /\ (InsertQuery(w) \/ FindQuery(w))
         \/ worker'[w].pc = "clean" /\ NextMessage(w, TRUE)
<1>1. worker[w].pc \in Serving
  <2>1. ASSUME worker[w].pc \notin Serving
        PROVE  worker'[w].pc \notin {"more", "query", "run", "clean"}
    <3>1. CASE NotifyWorkers
      BY <2>1, <3>1 DEF NotifyWorkers, Serving, Handling
    <3>2. CASE UNCHANGED vars \/ \E c \in Clients : Accept(c)
      BY <2>1, <3>2 DEF vars, Accept, Serving, Handling
    <3>3. ASSUME NEW v \in Workers, CheckTasks(v) \/ Sleep(v) \/ SpuriousWake(v) \/ (GetServerTask(v) /\ server_tasks = << >>)
          PROVE  worker'[w].pc \notin Serving
      BY <2>1, <3>3, LoopMoves DEF NumbersInv
    <3>4. ASSUME NEW v \in Workers, GetServerTask(v), server_tasks # << >>
          PROVE  worker'[w].pc \notin Serving \/ worker'[w].pc = "serve"
      BY <2>1, <3>4, TakesTask DEF NumbersInv
    <3>5. ASSUME NEW v \in Workers, Disconnect(v)
          PROVE  worker'[w].pc \notin Serving
      BY <2>1, <3>5 DEF Disconnect, Idle, Serving, Handling, NumbersInv, WorkerOK
    <3>6. ASSUME NEW v \in Workers, Handle(v) \/ \E request \in Requests : ReadRequest(v, request)
          PROVE  worker'[w].pc \notin Serving
      BY <2>1, <3>6, HandleServes, ReadServes DEF NumbersInv, Serves, CountersOK
    <3> QED
      BY <3>1, <3>2, <3>3, <3>4, <3>5, <3>6 DEF Next, Loop, Serving, Handling
  <2> QED
    BY <2>1
<1>2. CASE Disconnect(w)
  BY <1>2 DEF Disconnect, Idle, NumbersInv, WorkerOK
<1>3. CASE \E request \in Requests : ReadRequest(w, request)
  <2>1. PICK request \in Requests : ReadRequest(w, request) /\ worker'[w].pc = request
    BY <1>3, Moves DEF ReadRequest, NumbersInv, Requests, Places, Serving, Handling
  <2> QED
    BY <2>1 DEF Requests
<1>4. CASE Handle(w)
  BY <1>4 DEF NumbersInv, WorkerOK, Go, Handle, LockAcquire, LockMark, CreateAcquire,
     CreateTriplesStreamer, GetTripleStreamer, DoneAcquire, CleanTripleStreamer,
     BeginUpdateSession, GetUpdater, ConnectionEnd, SyncAcquire, SyncRelease, CountQuery, InsertQuery,
     FindQuery, CleanQuery, NextMessage, CancelFind, CancelQuery
<1> QED
  BY <1>1, <1>2, <1>3, <1>4, OthersLeaveAlone

\* Overlapping accesses are remembered.
LEMMA RacedStays ==
  ASSUME NumbersInv, [Next]_vars
  PROVE  raced' \in BOOLEAN /\ (raced => raced')
<1>1. ASSUME NEW w \in Workers, CountQuery(w) \/ CleanQuery(w)
      PROVE  raced' \in BOOLEAN /\ (raced => raced')
  BY <1>1, Zenon DEF CountQuery, CleanQuery, NumbersInv
<1>2. ASSUME NEW w \in Workers, Handle(w), ~ CountQuery(w), ~ CleanQuery(w)
      PROVE  raced' = raced
  BY <1>2 DEF Handle, LockAcquire, LockMark, CreateAcquire,
     CreateTriplesStreamer, GetTripleStreamer, DoneAcquire, CleanTripleStreamer,
     BeginUpdateSession, GetUpdater, ConnectionEnd, SyncAcquire, SyncRelease, InsertQuery,
     FindQuery, NextMessage, CancelFind, CancelQuery, bgp
<1>3. ASSUME NEW w \in Workers, Loop(w) \/ SpuriousWake(w) \/ Disconnect(w) \/ \E request \in Requests : ReadRequest(w, request)
      PROVE  raced' = raced
  BY <1>3 DEF Loop, CheckTasks, Sleep, GetServerTask, SpuriousWake, Disconnect, ReadRequest, bgp
<1>4. CASE NotifyWorkers \/ (\E c \in Clients : Accept(c)) \/ UNCHANGED vars
  BY <1>4 DEF NotifyWorkers, Accept, bgp, vars, NumbersInv
<1> QED
  BY <1>1, <1>2, <1>3, <1>4 DEF Next, NumbersInv

\* A stream is erased by the worker that serves its client, at the end of the
\* query, and by nobody else.
LEMMA StreamStays ==
  ASSUME NumbersInv, QueriesOwn, [Next]_vars, NEW n \in DOMAIN queries,
         \A w \in Workers : ~ (CleanQuery(w) /\ worker[w].number = n)
  PROVE  n \in DOMAIN queries' /\ queries'[n] = queries[n]
<1>1. ASSUME NEW w \in Workers, InsertQuery(w)
      PROVE  n \in DOMAIN queries' /\ queries'[n] = queries[n]
  <2>1. queries' = With(queries, next_query, Who(w)) /\ n # next_query
    BY <1>1 DEF InsertQuery, QueriesOwn
  <2> QED
    BY <2>1 DEF With
<1>2. ASSUME NEW w \in Workers, CleanQuery(w)
      PROVE  n \in DOMAIN queries' /\ queries'[n] = queries[n]
  <2>1. queries' = Without(queries, worker[w].number) /\ n # worker[w].number
    BY <1>2 DEF CleanQuery
  <2> QED
    BY <2>1 DEF Without
<1>3. ASSUME queries' # queries
      PROVE  \E w \in Workers : InsertQuery(w) \/ CleanQuery(w)
  BY <1>3, MapsChange DEF CreateTriplesStreamer, CleanTripleStreamer, BeginUpdateSession, CountQuery, bgp
<1> QED
  BY <1>1, <1>2, <1>3

\* So does a BGP stream, as long as no two threads were in get_bgp_streamer.
LEMMA QueriesStep ==
  ASSUME NumbersInv, [Next]_vars, ~ raced'
  PROVE  QueriesOwn'
<1>0. ~ raced /\ QueriesOwn
  BY RacedStays DEF NumbersInv
<1> DEFINE Owns(n, c) == n \in DOMAIN queries /\ queries[n] = c
           OwnsNext(n, c) == n \in DOMAIN queries' /\ queries'[n] = c
<1>1. ASSUME NEW n, NEW c, Owns(n, c), \A w \in Workers : CleanQuery(w) => Who(w) # c
      PROVE  OwnsNext(n, c)
  <2>1. \A w \in Workers : ~ (CleanQuery(w) /\ worker[w].number = n)
    BY <1>0, <1>1 DEF QueriesOwn, CleanQuery, At
  <2> QED
    BY <1>0, <1>1, <2>1, StreamStays
<1>2. ASSUME NEW c \in Clients, client'[c].query # 0
      PROVE  OwnsNext(client'[c].query, c)
  <2>1. ASSUME client'[c].query = client[c].query
        PROVE  OwnsNext(client'[c].query, c)
    <3>1. Owns(client[c].query, c)
      BY <1>0, <1>2, <2>1 DEF QueriesOwn
    <3>2. \A w \in Workers : CleanQuery(w) => Who(w) # c
      BY <1>0, <1>2, <2>1 DEF QueriesOwn, CleanQuery
    <3> QED
      BY <1>1, <2>1, <3>1, <3>2
  <2>2. ASSUME NEW w \in Workers, At(w, "run"), Who(w) = c, client'[c].query = worker[w].number, UNCHANGED queries
        PROVE  OwnsNext(client'[c].query, c)
    BY <1>0, <2>2 DEF QueriesOwn, At
  <2> QED
    BY <1>2, <2>1, <2>2, ClientsTold
<1>3. ASSUME NEW w \in Workers, worker'[w].pc \in {"run", "clean"}
      PROVE  OwnsNext(worker'[w].number, worker'[w].conn)
  <2>1. CASE worker'[w] = worker[w]
    <3>1. Owns(worker[w].number, Who(w))
      BY <1>0, <1>3, <2>1 DEF QueriesOwn
    <3>2. ASSUME NEW v \in Workers, CleanQuery(v) PROVE Who(v) # Who(w)
      <4>1. v # w
        BY <1>3, <2>1, <3>2 DEF CleanQuery, NumbersInv, WorkerOK
      <4> QED
        BY <1>3, <2>1, <3>2, <4>1, WorkersClient DEF NumbersInv, CleanQuery, At, Serving, Handling
    <3> QED
      BY <1>1, <2>1, <3>1, <3>2 DEF Who
  <2>2. CASE InsertQuery(w)
    <3>1. queries' = With(queries, next_query, Who(w)) /\ worker'[w].number = next_query /\ worker'[w].conn = Who(w)
      BY <2>2 DEF InsertQuery, NumbersInv, WorkerOK, Who
    <3> QED
      BY <3>1 DEF With
  <2>3. CASE FindQuery(w)
    <3>1. Who(w) \in Clients /\ queries' = queries
      BY <2>3, WorkersClient DEF FindQuery, NumbersInv, bgp, At, Serving, Handling
    <3>2. CASE client[Who(w)].query \in DOMAIN queries
      <4>1. worker'[w].number = client[Who(w)].query /\ worker'[w].conn = Who(w)
        BY <2>3, <3>2 DEF FindQuery, NumbersInv, WorkerOK, Who
      <4>2. client[Who(w)].query # 0
        BY <3>2 DEF NumbersInv, CountersOK
      <4> QED
        BY <1>0, <3>1, <4>1, <4>2 DEF QueriesOwn
    <3>3. CASE client[Who(w)].query \notin DOMAIN queries
      <4>1. worker'[w].pc = "serve"
        BY <2>3, <3>3 DEF FindQuery, Go, NumbersInv, WorkerOK
      <4> QED
        BY <1>3, <4>1
    <3> QED
      BY <3>2, <3>3
  <2>4. CASE NextMessage(w, TRUE)
    <3>1. queries' = queries /\ worker'[w].number = worker[w].number /\ worker'[w].conn = Who(w) /\ At(w, "run")
      BY <2>4 DEF NextMessage, NumbersInv, WorkerOK, Who, bgp, Go
    <3> QED
      BY <1>0, <3>1 DEF QueriesOwn, At
  <2> QED
    BY <1>3, <2>1, <2>2, <2>3, <2>4, StreamPlaces
<1>5. ASSUME NEW w \in Workers, worker'[w].pc = "clean"
      PROVE  client'[worker'[w].conn].query = 0
  <2>1. CASE worker'[w] = worker[w] /\ client'[Who(w)] = client[Who(w)]
    BY <1>0, <1>5, <2>1 DEF QueriesOwn, At, Who
  <2>2. CASE NextMessage(w, TRUE)
    <3>1. worker'[w].conn = Who(w) /\ Who(w) \in Clients
      BY <2>2, WorkersClient DEF NextMessage, NumbersInv, WorkerOK, Who, Go, At, Serving, Handling
    <3> QED
      BY <2>2, <3>1 DEF NextMessage, NumbersInv, ClientOK
  <2> QED
    BY <1>5, <2>1, <2>2, StreamPlaces
<1>6. ASSUME NEW w \in Workers, worker'[w].pc = "query"
      PROVE  /\ next_query' \notin DOMAIN queries'
             /\ \A v \in Workers : worker'[v].pc = "query" => v = w
  <2>1. CASE CountQuery(w)
    <3>1. next_query' = next_query + 1 /\ queries' = queries
      BY <2>1 DEF CountQuery
    <3>2. next_query' \notin DOMAIN queries'
      BY <3>1 DEF NumbersInv, CountersOK
    <3>3. \A v \in Workers : ~ At(v, "query")
      BY <2>1 DEF CountQuery
    <3>4. \A v \in Workers \ {w} : worker'[v] = worker[v]
      BY <2>1, Moves DEF CountQuery, NumbersInv, Places, Serving, Handling
    <3> QED
      BY <3>2, <3>3, <3>4 DEF At
  <2>2. CASE worker'[w] = worker[w]
    <3>1. At(w, "query") /\ next_query \notin DOMAIN queries /\ \A v \in Workers : At(v, "query") => v = w
      BY <1>0, <1>6, <2>2 DEF QueriesOwn, At
    <3>2. \A v \in Workers : ~ CountQuery(v) /\ ~ InsertQuery(v)
      <4>1. ASSUME NEW v \in Workers PROVE ~ CountQuery(v)
        BY <3>1 DEF CountQuery
      <4>2. ASSUME NEW v \in Workers PROVE ~ InsertQuery(v)
        BY <1>6, <3>1 DEF InsertQuery, NumbersInv, WorkerOK
      <4> QED
        BY <4>1, <4>2
    <3>3. next_query' = next_query /\ (queries' = queries \/ \E v \in Workers : CleanQuery(v))
      BY <3>2, MapsChange DEF CreateTriplesStreamer, CleanTripleStreamer, BeginUpdateSession, CleanQuery, bgp
    <3>4. next_query' \notin DOMAIN queries'
      BY <3>1, <3>3 DEF CleanQuery, Without
    <3>5. ASSUME NEW v \in Workers, worker'[v].pc = "query" PROVE v = w
      BY <3>1, <3>2, <3>5, StreamPlaces DEF At
    <3> QED
      BY <3>4, <3>5
  <2> QED
    BY <1>6, <2>1, <2>2, StreamPlaces
<1> QED
  BY <1>2, <1>3, <1>5, <1>6 DEF QueriesOwn, At, Who
-----------------------------------------------------------------------------
(* The theorems.                                                           *)

\* Whatever the threads do, the parts of the invariant hold.
LEMMA NumbersInvHolds == Spec => []NumbersInv
<1>1. Init => NumbersInv
  <2> SUFFICES ASSUME Init PROVE NumbersInv
    OBVIOUS
  <2>1. WorkerOK /\ ClientOK
    BY DEF Init, WorkerOK, ClientOK, Idle, NewClient, Places
  <2>2. \A w \in Workers : worker[w].pc = "check"
    BY DEF Init, Idle
  <2>3. ConnectionsOK
    BY <2>2 DEF Init, ConnectionsOK, Serving, Handling
  <2>4. CountersOK
    BY <2>2 DEF Init, CountersOK, At
  <2>5. ChannelsOwn /\ SessionsOwn /\ QueriesOwn
    BY <2>2 DEF Init, ChannelsOwn, SessionsOwn, QueriesOwn, At, NewClient
  <2> QED
    BY <2>1, <2>3, <2>4, <2>5 DEF NumbersInv, Init
<1>2. NumbersInv /\ [Next]_vars => NumbersInv'
  BY TypesStep, ConnectionsStep, CountersStep, ChannelsStep, SessionsStep, RacedStays, QueriesStep DEF NumbersInv
<1> QED
  BY <1>1, <1>2, PTL DEF Spec

\* The channel, the session and the BGP stream of a client are its own, for
\* any number of workers and clients: create_triples_streamer,
\* begin_update_session (under the mutex) and, unless two threads are in
\* get_bgp_streamer at the same time, get_bgp_streamer give no number twice.
THEOREM NumbersAreOwnHolds == Spec => []NumbersAreOwn
<1>1. NumbersInv => NumbersAreOwn
  BY DEF NumbersInv, NumbersAreOwn, ChannelsOwn, SessionsOwn, QueriesOwn
<1> QED
  BY <1>1, NumbersInvHolds, PTL

\* A queued connection is not slept on by all workers, for any number of them:
\* only the window of ServerWorker::notify, which missed records, can make it wait.
THEOREM NobodySleepsOnTasksHolds == Spec => []NobodySleepsOnTasks
<1> DEFINE Awake(w) == ~ At(w, "wait") /\ ~ At(w, "window")
<1>1. Init => NobodySleepsOnTasks
  BY DEF Init, NobodySleepsOnTasks
<1>2. NumbersInv /\ NobodySleepsOnTasks /\ [Next]_vars => NobodySleepsOnTasks'
  <2> SUFFICES ASSUME NumbersInv, NobodySleepsOnTasks, [Next]_vars PROVE NobodySleepsOnTasks'
    OBVIOUS
  <2>1. CASE \E c \in Clients : Accept(c)
    BY <2>1 DEF Accept, NobodySleepsOnTasks
  <2>2. CASE NotifyWorkers
    <3>1. ASSUME ~ missed', NEW w \in Workers PROVE Awake(w)'
      BY <2>2, <3>1 DEF NotifyWorkers, NumbersInv, WorkerOK, At
    <3> QED
      BY <3>1, ServerAssumption DEF NobodySleepsOnTasks
  <2>3. ASSUME NEW w \in Workers, Awake(w)' PROVE NobodySleepsOnTasks'
    BY <2>3 DEF NobodySleepsOnTasks
  <2>4. ASSUME NEW w \in Workers, Handle(w) \/ \E request \in Requests : ReadRequest(w, request)
        PROVE  Awake(w)'
    BY <2>4, HandleServes, ReadServes DEF NumbersInv, CountersOK, Serves, Serving, Handling, At
  <2>5. ASSUME NEW w \in Workers, Disconnect(w) \/ GetServerTask(w) \/ SpuriousWake(w)
        PROVE  Awake(w)'
    BY <2>5 DEF NumbersInv, WorkerOK, Disconnect, Idle, GetServerTask, SpuriousWake, Go, At
  <2>6. ASSUME NEW w \in Workers, CheckTasks(w) PROVE NobodySleepsOnTasks'
    BY <2>3, <2>6 DEF NumbersInv, WorkerOK, CheckTasks, Go, At, pool, NobodySleepsOnTasks
  <2>7. ASSUME NEW w \in Workers, Sleep(w) PROVE NobodySleepsOnTasks'
    <3>1. \A v \in Workers : Awake(v) => Awake(v)'
      BY <2>7 DEF NumbersInv, WorkerOK, Sleep, Go, At
    <3> QED
      BY <2>7, <3>1 DEF NobodySleepsOnTasks, Sleep, pool
  <2>8. CASE UNCHANGED vars
    BY <2>8 DEF vars, NobodySleepsOnTasks, At
  <2> QED
    BY <2>1, <2>2, <2>3, <2>4, <2>5, <2>6, <2>7, <2>8 DEF Next, Loop
<1> QED
  BY <1>1, <1>2, NumbersInvHolds, PTL DEF Spec
-----------------------------------------------------------------------------
(* The mutexes.                                                            *)

\* A mutex is held by the worker that is between its lock and its unlock.
LocksInv ==
  /\ mutex \in Workers \cup {None} /\ replacement_mutex \in Workers \cup {None}
  /\ \A w \in Workers : mutex = w <=> worker[w].pc \in {"insert", "ready", "syncing"}
  /\ \A w \in Workers : replacement_mutex = w <=> worker[w].pc = "mark"

\* Worker w cannot go on before another releases a mutex.
Blocked(w) ==
  \/ mutex # None /\ worker[w].pc \in {"check", "take", "create", "stream", "done", "begin", "update", "sync"}
  \/ replacement_mutex # None /\ worker[w].pc \in {"lock", "ready"}

\* When a mutex is held, one of the holders does not wait: the mutex is taken
\* before the replacement mutex (clean_triple_streamer), never after it
\* (process_predicates_lock_for_triple_stream releases it first).
HolderRuns ==
  mutex # None \/ replacement_mutex # None =>
    \E w \in Workers : w \in {mutex, replacement_mutex} /\ ~ Blocked(w)

\* A step of worker w that leaves the mutexes and does not enter or leave the
\* places where they are held.
LEMMA LocksKept ==
  ASSUME WorkerOK, LocksInv, UNCHANGED locks,
         \A w \in Workers : \/ worker'[w].pc = worker[w].pc
                            \/ /\ worker[w].pc \notin {"insert", "ready", "syncing", "mark"}
                               /\ worker'[w].pc \notin {"insert", "ready", "syncing", "mark"}
  PROVE  LocksInv'
BY DEF LocksInv, locks

\* The handlers of process_next never wait for each other: of the threads that
\* hold the mutex or the replacement mutex, one can always go on.
THEOREM HolderRunsHolds == Spec => []HolderRuns
<1>1. Init => LocksInv
  BY ServerAssumption DEF Init, LocksInv, Idle
<1>2. NumbersInv /\ LocksInv /\ [Next]_vars => LocksInv'
  <2> SUFFICES ASSUME NumbersInv, LocksInv, [Next]_vars PROVE LocksInv'
    OBVIOUS
  <2> DEFINE Outside(pc) == pc \notin {"insert", "ready", "syncing", "mark"}
  <2>1. WorkerOK
    BY DEF NumbersInv
  <2>2. CASE NotifyWorkers
    <3>1. \A w \in Workers : \/ worker'[w].pc = worker[w].pc
                             \/ Outside(worker[w].pc) /\ Outside(worker'[w].pc)
      BY <2>1, <2>2 DEF NotifyWorkers, WorkerOK, At
    <3>2. UNCHANGED locks
      BY <2>2 DEF NotifyWorkers
    <3> QED
      BY <2>1, <3>1, <3>2, LocksKept
  <2>3. CASE UNCHANGED vars \/ \E c \in Clients : Accept(c)
    BY <2>1, <2>3, LocksKept DEF vars, Accept, locks
  <2>4. ASSUME NEW w \in Workers, Disconnect(w) \/ Loop(w) \/ SpuriousWake(w)
        PROVE  LocksInv'
    <3>1. UNCHANGED locks /\ Outside(worker[w].pc) /\ Outside(worker'[w].pc)
      BY <2>1, <2>4 DEF Disconnect, Idle, Loop, CheckTasks, Sleep, GetServerTask, SpuriousWake, At, Go, WorkerOK
    <3>2. \A v \in Workers : v # w => worker'[v].pc = worker[v].pc
      BY <2>1, <2>4 DEF Disconnect, Loop, CheckTasks, Sleep, GetServerTask, SpuriousWake, Go, WorkerOK
    <3> QED
      BY <2>1, <3>1, <3>2, LocksKept
  <2>5. ASSUME NEW w \in Workers, NEW request \in Requests, ReadRequest(w, request)
        PROVE  LocksInv'
    <3>1. UNCHANGED locks /\ Outside(worker[w].pc) /\ Outside(worker'[w].pc)
      BY <2>1, <2>5 DEF ReadRequest, Requests, At, Go, WorkerOK
    <3>2. \A v \in Workers : v # w => worker'[v].pc = worker[v].pc
      BY <2>1, <2>5 DEF ReadRequest, Go, WorkerOK
    <3> QED
      BY <2>1, <3>1, <3>2, LocksKept
  <2>6. ASSUME NEW w \in Workers, Handle(w)
        PROVE  LocksInv'
    <3>1. \A v \in Workers : v # w => worker'[v].pc = worker[v].pc
      BY <2>6, HandleServes DEF NumbersInv, CountersOK, Serves
    <3>2. CASE LockAcquire(w) \/ LockMark(w)
      BY <2>1, <3>1, <3>2, ServerAssumption DEF LockAcquire, LockMark, LocksInv, WorkerOK, Go, At
    <3>3. CASE CreateAcquire(w) \/ DoneAcquire(w) \/ SyncAcquire(w)
      BY <2>1, <3>1, <3>3, ServerAssumption DEF CreateAcquire, DoneAcquire, SyncAcquire, LocksInv, WorkerOK, Go, At
    <3>4. CASE CreateTriplesStreamer(w) \/ CleanTripleStreamer(w) \/ SyncRelease(w)
      BY <2>1, <3>1, <3>4, ServerAssumption DEF CreateTriplesStreamer, CleanTripleStreamer, SyncRelease, LocksInv, WorkerOK, Go, At
    <3>5. CASE ~ (<3>2!1 \/ <3>3!1 \/ <3>4!1)
      <4>1. UNCHANGED locks /\ Outside(worker[w].pc) /\ Outside(worker'[w].pc)
        BY <2>1, <2>6, <3>5 DEF Handle, GetTripleStreamer, BeginUpdateSession, GetUpdater, ConnectionEnd, CountQuery, InsertQuery,
           FindQuery, CleanQuery, NextMessage, CancelFind, CancelQuery, At, Go, WorkerOK
      <4> QED
        BY <2>1, <3>1, <4>1, LocksKept
    <3> QED
      BY <3>2, <3>3, <3>4, <3>5
  <2> QED
    BY <2>2, <2>3, <2>4, <2>5, <2>6 DEF Next
<1>3. LocksInv => HolderRuns
  <2> SUFFICES ASSUME LocksInv, mutex # None \/ replacement_mutex # None PROVE HolderRuns
    BY DEF HolderRuns
  <2>1. CASE replacement_mutex # None
    BY <2>1 DEF LocksInv, HolderRuns, Blocked
  <2>2. CASE replacement_mutex = None
    BY <2>2 DEF LocksInv, HolderRuns, Blocked
  <2> QED
    BY <2>1, <2>2
<1> QED
  BY <1>1, <1>2, <1>3, NumbersInvHolds, PTL DEF Spec
=============================================================================
