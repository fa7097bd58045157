------------------------------- MODULE Server -------------------------------
(***************************************************************************)
(* The threads of the server: the thread that accepts connections and      *)
(* queues a ServerTask for each, and the workers that take a task and      *)
(* serve its connection until the client leaves.  The module has the       *)
(* queue, the condition variable, the two mutexes that request handlers    *)
(* hold (mutex of CacheServerTaskProcessor and the replacement mutex) and  *)
(* the maps of channels, update sessions and BGP streams, by number.  What *)
(* the handlers do to the data is in CacheReplacement, Streams,            *)
(* UpdateSession, PredicatesStore and BGPJoin.                             *)
(***************************************************************************)
EXTENDS Naturals, Sequences, FiniteSets

CONSTANTS
  Workers, Clients,
  MaxRequests,   \* bound: messages of each connection
  None           \* no client, no thread, no number

ASSUME ServerAssumption ==
  /\ Workers # {} /\ None \notin Workers \cup Clients
  /\ MaxRequests \in [Clients -> Nat]

VARIABLES
  acceptor,      \* "accept", or "notify" between process_request and notify_workers
  server_tasks,  \* queue of connections
  conn,          \* what became of each connection
  worker,        \* place and connection of each worker
  mutex, replacement_mutex,     \* holder
  next_channel, channels,       \* current_triples_streamers_channel_id, the map
  next_session, sessions,       \* current_update_session_id, the map
  next_query, queries,          \* current_bgp_streamers_channel_id, the map
  client,        \* the numbers each client got, and its messages so far
  missed,        \* auxiliary: the last notify found a worker about to sleep
  raced          \* auxiliary: unlocked accesses to the BGP streams overlapped

locks == <<mutex, replacement_mutex>>
pool == <<acceptor, server_tasks, conn, missed>>
maps == <<next_channel, channels, next_session, sessions>>
bgp == <<next_query, queries, raced>>
vars == <<acceptor, server_tasks, conn, worker, mutex, replacement_mutex, next_channel, channels,
          next_session, sessions, next_query, queries, client, missed, raced>>

With(f, k, v) == [j \in DOMAIN f \cup {k} |-> IF j = k THEN v ELSE f[j]]
Without(f, k) == [j \in DOMAIN f \ {k} |-> f[j]]

Idle == [pc |-> "check", conn |-> None, number |-> 0]
NewClient == [channel |-> 0, session |-> 0, query |-> 0, requests |-> 0]

\* Numbers start at 1 here and 0 is none; the BGP streams do so in the code too.
Init ==
  /\ acceptor = "accept" /\ server_tasks = << >>
  /\ conn = [c \in Clients |-> "none"]
  /\ worker = [w \in Workers |-> Idle]
  /\ mutex = None /\ replacement_mutex = None
  /\ next_channel = 1 /\ channels = << >>
  /\ next_session = 1 /\ sessions = << >>
  /\ next_query = 0 /\ queries = << >>
  /\ client = [c \in Clients |-> NewClient]
  /\ missed = FALSE /\ raced = FALSE

Go(w, pc) == worker' = [worker EXCEPT ![w].pc = pc]
At(w, pc) == worker[w].pc = pc
Who(w) == worker[w].conn
-----------------------------------------------------------------------------
(* TCPServerConnection::start.                                             *)

\* accept, and process_request
Accept(c) ==
  /\ acceptor = "accept" /\ conn[c] = "none" /\ mutex = None
  /\ server_tasks' = Append(server_tasks, c)
  /\ conn' = [conn EXCEPT ![c] = "queued"]
  /\ acceptor' = "notify"
  /\ UNCHANGED <<worker, locks, maps, bgp, client, missed>>

\* Mutant: nobody is woken up.
NotifyNobody ==
  /\ acceptor = "notify" /\ mutex = None
  /\ acceptor' = "accept" /\ missed' = FALSE
  /\ UNCHANGED <<server_tasks, conn, worker, locks, maps, bgp, client>>

\* notify_workers: notify takes no lock of the worker, so that one between the
\* predicate and the wait does not hear it.
NotifyWorkers ==
  /\ acceptor = "notify" /\ mutex = None
  /\ worker' = [w \in Workers |-> IF At(w, "wait") THEN [worker[w] EXCEPT !.pc = "check"]
                                                  ELSE worker[w]]
  /\ missed' = (\E w \in Workers : At(w, "window"))
  /\ acceptor' = "accept"
  /\ UNCHANGED <<server_tasks, conn, locks, maps, bgp, client>>
-----------------------------------------------------------------------------
(* ServerWorker::main_loop.                                                *)

\* The predicate of wait: tasks_available.
CheckTasks(w) ==
  /\ At(w, "check") /\ mutex = None
  /\ Go(w, IF server_tasks # << >> THEN "take" ELSE "window")
  /\ UNCHANGED <<pool, locks, maps, bgp, client>>

\* wait releases the lock of the worker; it may also wake up by itself.
Sleep(w) ==
  /\ At(w, "window") /\ Go(w, "wait")
  /\ UNCHANGED <<pool, locks, maps, bgp, client>>

SpuriousWake(w) ==
  /\ At(w, "wait") /\ Go(w, "check")
  /\ UNCHANGED <<pool, locks, maps, bgp, client>>

\* get_server_task; another worker may have been faster.
GetServerTask(w) ==
  /\ At(w, "take") /\ mutex = None
  /\ IF server_tasks = << >>
       THEN Go(w, "check") /\ UNCHANGED <<server_tasks, conn>>
       ELSE /\ worker' = [worker EXCEPT ![w].pc = "serve", ![w].conn = Head(server_tasks)]
            /\ conn' = [conn EXCEPT ![Head(server_tasks)] = "served"]
            /\ server_tasks' = Tail(server_tasks)
  /\ UNCHANGED <<acceptor, locks, maps, bgp, client, missed>>
-----------------------------------------------------------------------------
(* ServerTask::process_next.                                               *)

\* What the client may ask: it streams on the channel it has, and so on.
MayAsk(c, request) ==
  CASE request = "lock" -> client[c].channel = 0
    [] request \in {"stream", "done"} -> client[c].channel # 0
    [] request = "begin" -> client[c].session = 0
    [] request = "update" -> client[c].session # 0
    [] request = "bgp" -> client[c].query = 0
    [] request \in {"more", "cancel", "sync", "end"} -> TRUE

Requests == {"lock", "stream", "done", "begin", "update", "bgp", "more", "cancel", "sync", "end"}

ReadRequest(w, request) ==
  LET c == Who(w) IN
  /\ At(w, "serve") /\ MayAsk(c, request) /\ client[c].requests < MaxRequests[c]
  /\ client' = [client EXCEPT ![c].requests = @ + 1]
  /\ Go(w, request)
  /\ UNCHANGED <<pool, locks, maps, bgp>>

\* Mutant: the task goes on with a connection that is gone.
DisconnectIgnored(w) == At(w, "serve") /\ UNCHANGED vars

\* A null message ends the task; nothing that the client holds is released.
Disconnect(w) ==
  /\ At(w, "serve")
  /\ worker' = [worker EXCEPT ![w] = Idle]
  /\ conn' = [conn EXCEPT ![Who(w)] = "closed"]
  /\ client' = [client EXCEPT ![Who(w)] = NewClient]
  /\ UNCHANGED <<acceptor, server_tasks, locks, maps, bgp, missed>>

\* process_connection_end answers, and the task goes on until the client leaves.
ConnectionEnd(w) ==
  /\ At(w, "end")
  /\ Go(w, "serve")
  /\ UNCHANGED <<pool, locks, maps, bgp, client>>

\* process_predicates_lock_for_triple_stream, for a strategy other than
\* NO_CACHING: extract, mark and queue what is missed under the replacement mutex ...
LockAcquire(w) ==
  /\ At(w, "lock") /\ replacement_mutex = None
  /\ replacement_mutex' = w
  /\ Go(w, "mark")
  /\ UNCHANGED <<pool, mutex, maps, bgp, client>>

\* Mutant: the streamer is created before the replacement mutex is released.
LockMarkCreates(w) ==
  /\ At(w, "mark") /\ mutex = None
  /\ replacement_mutex' = None
  /\ channels' = With(channels, next_channel, Who(w))
  /\ next_channel' = next_channel + 1
  /\ client' = [client EXCEPT ![Who(w)].channel = next_channel]
  /\ Go(w, "serve")
  /\ UNCHANGED <<pool, mutex, next_session, sessions, bgp>>

LockMark(w) ==
  /\ At(w, "mark")
  /\ replacement_mutex' = None
  /\ Go(w, "create")
  /\ UNCHANGED <<pool, mutex, maps, bgp, client>>

\* ... then create_triples_streamer under the mutex.
CreateAcquire(w) ==
  /\ At(w, "create") /\ mutex = None
  /\ mutex' = w
  /\ Go(w, "insert")
  /\ UNCHANGED <<pool, replacement_mutex, maps, bgp, client>>

CreateTriplesStreamer(w) ==
  /\ At(w, "insert")
  /\ channels' = With(channels, next_channel, Who(w))
  /\ next_channel' = next_channel + 1
  /\ client' = [client EXCEPT ![Who(w)].channel = next_channel]
  /\ mutex' = None
  /\ Go(w, "serve")
  /\ UNCHANGED <<pool, replacement_mutex, next_session, sessions, bgp>>

\* get_triple_streamer, for a new or a continued pattern.
GetTripleStreamer(w) ==
  /\ At(w, "stream") /\ mutex = None
  /\ Go(w, "serve")
  /\ UNCHANGED <<pool, locks, maps, bgp, client>>

\* clean_triple_streamer destroys the streamer under the mutex, and its
\* destructor takes the replacement mutex for mark_ready.
DoneAcquire(w) ==
  /\ At(w, "done") /\ mutex = None
  /\ mutex' = w
  /\ Go(w, "ready")
  /\ UNCHANGED <<pool, replacement_mutex, maps, bgp, client>>

CleanTripleStreamer(w) ==
  /\ At(w, "ready") /\ replacement_mutex = None
  /\ channels' = Without(channels, client[Who(w)].channel)
  /\ client' = [client EXCEPT ![Who(w)].channel = 0]
  /\ mutex' = None
  /\ Go(w, "serve")
  /\ UNCHANGED <<pool, replacement_mutex, next_channel, next_session, sessions, bgp>>

\* begin_update_session
BeginUpdateSession(w) ==
  /\ At(w, "begin") /\ mutex = None
  /\ sessions' = With(sessions, next_session, Who(w))
  /\ next_session' = next_session + 1
  /\ client' = [client EXCEPT ![Who(w)].session = next_session]
  /\ Go(w, "serve")
  /\ UNCHANGED <<pool, locks, next_channel, channels, bgp>>

\* get_updater, of process_update_triples_batch and process_done_update_triples;
\* acquire_write_lock and log_updates lock nothing.
GetUpdater(w) ==
  /\ At(w, "update") /\ mutex = None
  /\ Go(w, "serve")
  /\ UNCHANGED <<pool, locks, maps, bgp, client>>

\* sync_to_persistent holds the mutex all along.
SyncAcquire(w) ==
  /\ At(w, "sync") /\ mutex = None
  /\ mutex' = w
  /\ Go(w, "syncing")
  /\ UNCHANGED <<pool, replacement_mutex, maps, bgp, client>>

SyncRelease(w) ==
  /\ At(w, "syncing")
  /\ mutex' = None
  /\ Go(w, "serve")
  /\ UNCHANGED <<pool, replacement_mutex, maps, bgp, client>>
-----------------------------------------------------------------------------
(* The BGP streams, without a lock.                                        *)

\* get_bgp_streamer counts ...
CountQuery(w) ==
  /\ At(w, "bgp")
  /\ next_query' = next_query + 1
  /\ raced' = (raced \/ \E v \in Workers : At(v, "query"))
  /\ Go(w, "query")
  /\ UNCHANGED <<pool, locks, maps, queries, client>>

\* ... reads the number again and inserts the stream.
InsertQuery(w) ==
  /\ At(w, "query")
  /\ queries' = With(queries, next_query, Who(w))
  /\ worker' = [worker EXCEPT ![w].pc = "run", ![w].number = next_query]
  /\ UNCHANGED <<pool, locks, maps, next_query, raced, client>>

\* get_existing_bgp_streamer of a client that asks for more; one whose query has
\* ended, or that has none, is told BAD_REQ.
FindQuery(w) ==
  /\ At(w, "more")
  /\ IF client[Who(w)].query \in DOMAIN queries
       THEN worker' = [worker EXCEPT ![w].pc = "run", ![w].number = client[Who(w)].query]
       ELSE Go(w, "serve")
  /\ UNCHANGED <<pool, locks, maps, bgp, client>>

\* get_next_message answers with or without is_last.
NextMessage(w, is_last) ==
  /\ At(w, "run")
  /\ client' = [client EXCEPT ![Who(w)].query = IF is_last THEN 0 ELSE worker[w].number]
  /\ Go(w, IF is_last THEN "clean" ELSE "serve")
  /\ UNCHANGED <<pool, locks, maps, bgp>>

\* Mutant: the stream that was counted last is erased.
CleanLastQuery(w) ==
  /\ At(w, "clean")
  /\ queries' = Without(queries, next_query)
  /\ worker' = [worker EXCEPT ![w].pc = "serve", ![w].number = 0]
  /\ UNCHANGED <<pool, locks, maps, next_query, raced, client>>

\* clean_bgp_streamer
CleanQuery(w) ==
  /\ At(w, "clean")
  /\ queries' = Without(queries, worker[w].number)
  /\ raced' = (raced \/ \E v \in Workers : At(v, "cancelling") /\ worker[v].number = worker[w].number)
  /\ worker' = [worker EXCEPT ![w].pc = "serve", ![w].number = 0]
  /\ UNCHANGED <<pool, locks, maps, next_query, client>>

\* process_request_cancel_query finds any stream, by its number ...
CancelFind(w, n) ==
  /\ At(w, "cancel")
  /\ IF n \in DOMAIN queries
       THEN worker' = [worker EXCEPT ![w].pc = "cancelling", ![w].number = n]
       ELSE Go(w, "serve")
  /\ UNCHANGED <<pool, locks, maps, bgp, client>>

\* ... and cancels it (BGPJoin has what that does).
CancelQuery(w) ==
  /\ At(w, "cancelling")
  /\ worker' = [worker EXCEPT ![w].pc = "serve", ![w].number = 0]
  /\ UNCHANGED <<pool, locks, maps, bgp, client>>
-----------------------------------------------------------------------------
Loop(w) == CheckTasks(w) \/ Sleep(w) \/ GetServerTask(w)

Handle(w) ==
  \/ ConnectionEnd(w)
  \/ LockAcquire(w) \/ LockMark(w) \/ CreateAcquire(w) \/ CreateTriplesStreamer(w)
  \/ GetTripleStreamer(w) \/ DoneAcquire(w) \/ CleanTripleStreamer(w)
  \/ BeginUpdateSession(w) \/ GetUpdater(w) \/ SyncAcquire(w) \/ SyncRelease(w)
  \/ CountQuery(w) \/ InsertQuery(w) \/ FindQuery(w) \/ CleanQuery(w)
  \/ \E is_last \in BOOLEAN : NextMessage(w, is_last)
  \/ \E n \in 1..(next_query + 1) : CancelFind(w, n)
  \/ CancelQuery(w)

Next ==
  \/ \E c \in Clients : Accept(c)
  \/ NotifyWorkers
  \/ \E w \in Workers : \/ Loop(w) \/ Handle(w) \/ SpuriousWake(w) \/ Disconnect(w)
                        \/ \E request \in Requests : ReadRequest(w, request)

\* Threads run, and clients leave in the end: a connection has a worker for
\* as long as it lasts.
Spec ==
  /\ Init /\ [][Next]_vars
  /\ WF_vars(NotifyWorkers)
  /\ \A w \in Workers : WF_vars(Loop(w)) /\ WF_vars(Handle(w)) /\ WF_vars(Disconnect(w))
-----------------------------------------------------------------------------
Handling == {"lock", "mark", "create", "insert", "stream", "done", "ready", "begin", "update",
             "sync", "syncing", "bgp", "query", "run", "more", "clean", "cancel",
             "cancelling", "end"}

TypeOK ==
  /\ acceptor \in {"accept", "notify"} /\ missed \in BOOLEAN /\ raced \in BOOLEAN
  /\ \A c \in Clients : conn[c] \in {"none", "queued", "served", "closed"}
  /\ \A w \in Workers : worker[w].pc \in Handling \cup {"check", "window", "wait", "take", "serve"}
  /\ {mutex, replacement_mutex} \subseteq Workers \cup {None}
  /\ DOMAIN channels \subseteq 1..(next_channel - 1)
  /\ DOMAIN sessions = 1..(next_session - 1)

(***************************************************************************)
(* A queued connection never waits while all workers sleep, unless the     *)
(* notification fell between the predicate and the wait of one of them     *)
(* (ServerWorker::notify takes no lock).                                   *)
(***************************************************************************)
NobodySleepsOnTasks ==
  server_tasks # << >> /\ acceptor = "accept" /\ ~missed =>
    \E w \in Workers : ~At(w, "wait") /\ ~At(w, "window")

(***************************************************************************)
(* A channel, a session and a BGP stream belong to one client: the number  *)
(* it was told names its own entry of the map for as long as it uses it    *)
(* (create_triples_streamer, begin_update_session; get_bgp_streamer only   *)
(* when no two threads were in it).                                        *)
(***************************************************************************)
NumbersAreOwn ==
  \A c \in Clients :
    /\ client[c].channel # 0 => client[c].channel \in DOMAIN channels /\ channels[client[c].channel] = c
    /\ client[c].session # 0 => client[c].session \in DOMAIN sessions /\ sessions[client[c].session] = c
    /\ client[c].query # 0 /\ ~raced =>
         client[c].query \in DOMAIN queries /\ queries[client[c].query] = c

(***************************************************************************)
(* A request that was read is answered: whatever order the handlers take   *)
(* the mutex and the replacement mutex in, they do not wait for each other *)
(* (clean_triple_streamer holds both).                                     *)
(***************************************************************************)
RequestsAnswered == \A w \in Workers : worker[w].pc \in Handling ~> At(w, "serve")

(***************************************************************************)
(* A queued connection is served in the end, or the notification was       *)
(* missed.                                                                 *)
(***************************************************************************)
ConnectionsServed == \A c \in Clients : conn[c] = "queued" ~> (conn[c] # "queued" \/ missed)
=============================================================================
