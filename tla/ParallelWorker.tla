-------------------------- MODULE ParallelWorker --------------------------
(***************************************************************************)
(* The pool of algorithms/ParallelWorker.hpp: worker threads that take     *)
(* tasks from a shared queue and sleep on a condition variable.  The       *)
(* owner's side (add_task, stop_all_workers, wait_workers) never takes the *)
(* mutex the condition variable waits with, so a notification can fall     *)
(* between a worker's test of its predicate and the moment it sleeps.      *)
(* What a task does belongs to the module that owns the pool.              *)
(***************************************************************************)
EXTENDS Naturals, Sequences, FiniteSets

CONSTANT Worker   \* the threads a pool may have

VARIABLES queue,    \* ParallelWorkerQueue::q, the tasks by number
          stopped,  \* ParallelWorker::_stopped of each thread
          mutex,    \* the holder of shared_mutex, {} when free
          wpc,      \* where each thread is in ParallelWorker::run
          task      \* the task each thread took last

poolVars == <<queue, stopped, mutex, wpc, task>>

PoolTypeOK ==
    /\ queue \in Seq(Nat)
    /\ stopped \in [Worker -> BOOLEAN]
    /\ mutex \in {{}} \cup {{w} : w \in Worker}
    /\ wpc \in [Worker -> {"absent", "loop", "lock", "window", "asleep",
                           "popped", "task", "exit", "done"}]
    /\ task \in [Worker -> Nat]

PoolInit ==
    /\ queue = <<>>
    /\ stopped = [w \in Worker |-> FALSE]
    /\ mutex = {}
    /\ wpc = [w \in Worker |-> "absent"]
    /\ task = [w \in Worker |-> 0]

\* Every sleeping thread goes back to take the mutex and test its predicate.
Awakened == [v \in Worker |-> IF wpc[v] = "asleep" THEN "lock" ELSE wpc[v]]
---------------------------------------------------------------------------
(* The owner. *)

\* The constructor of ParallelWorkerPool with the threads ws.
CreatePool(ws) ==
    /\ queue' = <<>>
    /\ stopped' = [w \in Worker |-> FALSE]
    /\ wpc' = [w \in Worker |-> IF w \in ws THEN "loop" ELSE "absent"]
    /\ task' = [w \in Worker |-> 0]
    /\ UNCHANGED mutex

PushTask(t) == queue' = Append(queue, t) /\ UNCHANGED <<stopped, mutex, wpc, task>>

StopWorker(w) == stopped' = [stopped EXCEPT ![w] = TRUE] /\ UNCHANGED <<queue, mutex, wpc, task>>

\* Mutant: the notification is forgotten.
NotifyNobody == UNCHANGED poolVars

NotifyAll == wpc' = Awakened /\ UNCHANGED <<queue, stopped, mutex, task>>

Joined(ws) == \A w \in ws : wpc[w] = "done"
---------------------------------------------------------------------------
(* A worker, ParallelWorker::run. *)

\* Mutant: the loop ends when stopped, whatever is in the queue.
LoopUntilStopped(w) ==
    /\ wpc[w] = "loop"
    /\ wpc' = [wpc EXCEPT ![w] = IF stopped[w] THEN "exit" ELSE "lock"]
    /\ UNCHANGED <<queue, stopped, mutex, task>>

\* while (!stopped() || !queue.empty())
Loop(w) ==
    /\ wpc[w] = "loop"
    /\ wpc' = [wpc EXCEPT ![w] = IF stopped[w] /\ queue = <<>> THEN "exit" ELSE "lock"]
    /\ UNCHANGED <<queue, stopped, mutex, task>>

Ready(w) == stopped[w] \/ queue # <<>>

\* The predicate is false under the mutex: the thread is about to sleep.
TestFails(w) ==
    /\ wpc[w] = "lock" /\ mutex = {} /\ ~Ready(w)
    /\ mutex' = {w}
    /\ wpc' = [wpc EXCEPT ![w] = "window"]
    /\ UNCHANGED <<queue, stopped, task>>

\* The wait releases the mutex and sleeps; a notification given before is lost.
Sleep(w) ==
    /\ wpc[w] = "window"
    /\ mutex' = {}
    /\ wpc' = [wpc EXCEPT ![w] = "asleep"]
    /\ UNCHANGED <<queue, stopped, task>>

\* A condition variable may return on its own.
SpuriousWakeup(w) ==
    /\ wpc[w] = "asleep"
    /\ wpc' = [wpc EXCEPT ![w] = "lock"]
    /\ UNCHANGED <<queue, stopped, mutex, task>>

\* The predicate is true and there is no task left: break.
Leave(w) ==
    /\ wpc[w] = "lock" /\ mutex = {} /\ Ready(w)
    /\ stopped[w] /\ queue = <<>>
    /\ wpc' = [wpc EXCEPT ![w] = "exit"]
    /\ UNCHANGED <<queue, stopped, mutex, task>>

\* The predicate is true: pop a task and release the mutex.
Pop(w) ==
    /\ wpc[w] = "lock" /\ mutex = {} /\ Ready(w)
    /\ queue # <<>>
    /\ task' = [task EXCEPT ![w] = Head(queue)]
    /\ queue' = Tail(queue)
    /\ wpc' = [wpc EXCEPT ![w] = "popped"]
    /\ UNCHANGED <<stopped, mutex>>

NotifyAfterPop(w) ==
    /\ wpc[w] = "popped"
    /\ wpc' = [Awakened EXCEPT ![w] = "task"]
    /\ UNCHANGED <<queue, stopped, mutex, task>>

\* The task runs; what it does is the owner's business.
RunTask(w) ==
    /\ wpc[w] = "task"
    /\ wpc' = [wpc EXCEPT ![w] = "loop"]
    /\ UNCHANGED <<queue, stopped, mutex, task>>

Exit(w) ==
    /\ wpc[w] = "exit"
    /\ wpc' = [Awakened EXCEPT ![w] = "done"]
    /\ UNCHANGED <<queue, stopped, mutex, task>>

\* Every step of a thread but the run of its task and a spurious wake-up.
WorkerStep(w) ==
    \/ Loop(w) \/ TestFails(w) \/ Sleep(w) \/ Leave(w)
    \/ Pop(w) \/ NotifyAfterPop(w) \/ Exit(w)
===========================================================================
