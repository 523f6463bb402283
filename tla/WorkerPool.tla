----------------------------- MODULE WorkerPool -----------------------------
(***************************************************************************)
(* OcrWorkerPool of shmtu-cas-ocr-server (server_worker_pool.cpp): a FIFO  *)
(* of tasks under a mutex, a counting semaphore that carries one permit    *)
(* per queued task, worker threads that poll the semaphore with a 100 ms   *)
(* timeout, and stop_all(), which closes the pool from another thread.     *)
(*                                                                         *)
(* A step is what one thread does between two points at which another      *)
(* thread can intervene.  The mutex is a variable because stop_all()       *)
(* clears `accepting' without taking it.                                   *)
(***************************************************************************)
EXTENDS Integers, Sequences, FiniteSets

CONSTANTS
  Submitters,   \* threads that call submit(): HTTP threads, the TCP loop
  Workers,      \* worker threads, one per entry of `workers'
  Tasks,        \* the closures handed to submit(); each is handed over once
  MaxQueue,     \* the max_queue argument, config.queue_capacity
  None          \* no task, no mutex owner

ASSUME WorkersAssumption    == IsFiniteSet(Workers)
ASSUME SubmittersAssumption == IsFiniteSet(Submitters)
ASSUME CapacityAssumption   == MaxQueue \in Nat
ASSUME NoneAssumption       == None \notin Tasks /\ None \notin Submitters

VARIABLES
  accepting,       \* atomic<bool> accepting
  task_queue,      \* queue<function> task_queue, oldest first
  queue_mutex,     \* the submitter inside its critical section, or None
  semaphore,       \* the counter of counting_semaphore<> semaphore
  pending_tasks,   \* atomic<int> pending_tasks
  active_workers,  \* atomic<int> active_workers
  stop_requested,  \* workers whose jthread was asked to stop
  worker,          \* where each worker thread is in its loop
  task,            \* the task each worker popped, or None
  submitter,       \* where each submitter is in submit()
  offered,         \* the task a submitter is about to push, or None
  stopper,         \* where the thread that runs stop_all() is
  finished,        \* history: tasks whose execution ended
  refused          \* history: tasks for which submit() returned false

submitVars == <<submitter, offered, refused>>
workerVars == <<worker, task, active_workers, finished>>
stopVars   == <<accepting, stop_requested, stopper>>
queueVars  == <<task_queue, pending_tasks>>
vars == <<queueVars, queue_mutex, semaphore, submitVars, workerVars, stopVars>>

Elements(s) == {s[i] : i \in 1..Len(s)}

(* Tasks held by a worker, and tasks held by a submitter under the mutex. *)
Held == {task[w] : w \in {v \in Workers : task[v] # None}}
InHand == {offered[s] : s \in {r \in Submitters : offered[r] # None}}

(* Tasks submit() was called with. *)
Known == Elements(task_queue) \cup Held \cup InHand \cup finished \cup refused

(* The state start() leaves behind: threads spawned, nothing submitted. *)
Init ==
  /\ accepting = TRUE
  /\ task_queue = <<>>
  /\ queue_mutex = None
  /\ semaphore = 0
  /\ pending_tasks = 0
  /\ active_workers = 0
  /\ stop_requested = {}
  /\ worker = [w \in Workers |-> "check"]
  /\ task = [w \in Workers |-> None]
  /\ submitter = [s \in Submitters |-> "idle"]
  /\ offered = [s \in Submitters |-> None]
  /\ stopper = "idle"
  /\ finished = {}
  /\ refused = {}

-----------------------------------------------------------------------------
(* submit() *)

(* The early returns: under the mutex, not accepting or queue full. *)
SubmitRefused(s, t) ==
  /\ submitter[s] = "idle"
  /\ t \in Tasks \ Known
  /\ queue_mutex = None
  /\ ~accepting \/ Len(task_queue) >= MaxQueue
  /\ refused' = refused \cup {t}
  /\ UNCHANGED <<submitter, offered, queue_mutex, semaphore, queueVars,
                 workerVars, stopVars>>

(* Mutant: the checks are made without holding the mutex up to the push. *)
SubmitUnlocked(s, t) ==
  /\ submitter[s] = "idle"
  /\ t \in Tasks \ Known
  /\ accepting /\ Len(task_queue) < MaxQueue
  /\ submitter' = [submitter EXCEPT ![s] = "push"]
  /\ offered' = [offered EXCEPT ![s] = t]
  /\ UNCHANGED <<refused, queue_mutex, semaphore, queueVars, workerVars,
                 stopVars>>

(* Both checks passed; the mutex is held until the push. *)
SubmitChecked(s, t) ==
  /\ submitter[s] = "idle"
  /\ t \in Tasks \ Known
  /\ queue_mutex = None
  /\ accepting
  /\ Len(task_queue) < MaxQueue
  /\ queue_mutex' = s
  /\ submitter' = [submitter EXCEPT ![s] = "push"]
  /\ offered' = [offered EXCEPT ![s] = t]
  /\ UNCHANGED <<refused, semaphore, queueVars, workerVars, stopVars>>

(* Push, count, leave the critical section. *)
SubmitPush(s) ==
  /\ submitter[s] = "push"
  /\ task_queue' = Append(task_queue, offered[s])
  /\ pending_tasks' = pending_tasks + 1
  /\ queue_mutex' = None
  /\ submitter' = [submitter EXCEPT ![s] = "release"]
  /\ offered' = [offered EXCEPT ![s] = None]
  /\ UNCHANGED <<refused, semaphore, workerVars, stopVars>>

(* Mutant: submit() returns true without releasing the semaphore. *)
SubmitSilent(s) ==
  /\ submitter[s] = "release"
  /\ submitter' = [submitter EXCEPT ![s] = "idle"]
  /\ UNCHANGED <<offered, refused, semaphore, queue_mutex, queueVars,
                 workerVars, stopVars>>

(* semaphore.release(), after the mutex was dropped; submit() returns true. *)
SubmitRelease(s) ==
  /\ submitter[s] = "release"
  /\ semaphore' = semaphore + 1
  /\ submitter' = [submitter EXCEPT ![s] = "idle"]
  /\ UNCHANGED <<offered, refused, queue_mutex, queueVars, workerVars,
                 stopVars>>

-----------------------------------------------------------------------------
(* The loop of a worker thread *)

Goto(w, from, to) ==
  /\ worker[w] = from
  /\ worker' = [worker EXCEPT ![w] = to]

(* Mutant: while (true). *)
CheckNothing(w) ==
  /\ Goto(w, "check", "wait")
  /\ UNCHANGED <<task, active_workers, finished, semaphore, queue_mutex,
                 queueVars, submitVars, stopVars>>

(* while (!stop_requested()) *)
CheckStop(w) ==
  /\ IF w \in stop_requested
     THEN Goto(w, "check", "exited")
     ELSE Goto(w, "check", "wait")
  /\ UNCHANGED <<task, active_workers, finished, semaphore, queue_mutex,
                 queueVars, submitVars, stopVars>>

(* try_acquire_for(100ms) returns false.  It may do so even though a permit
   arrived in the meantime. *)
Timeout(w) ==
  /\ Goto(w, "wait", "check")
  /\ UNCHANGED <<task, active_workers, finished, semaphore, queue_mutex,
                 queueVars, submitVars, stopVars>>

Acquire(w) ==
  /\ Goto(w, "wait", "acquired")
  /\ semaphore > 0
  /\ semaphore' = semaphore - 1
  /\ UNCHANGED <<task, active_workers, finished, queue_mutex, queueVars,
                 submitVars, stopVars>>

(* The permit did not stand for a task: it is spent and the loop goes on. *)
PopEmpty(w) ==
  /\ Goto(w, "acquired", "check")
  /\ queue_mutex = None
  /\ task_queue = <<>>
  /\ UNCHANGED <<task, active_workers, finished, semaphore, queue_mutex,
                 queueVars, submitVars, stopVars>>

(* Mutant: front() without pop(). *)
PopKeepsTask(w) ==
  /\ Goto(w, "acquired", "popped")
  /\ queue_mutex = None /\ task_queue # <<>>
  /\ task' = [task EXCEPT ![w] = Head(task_queue)]
  /\ UNCHANGED <<queueVars, active_workers, finished, semaphore, queue_mutex,
                 submitVars, stopVars>>

Pop(w) ==
  /\ Goto(w, "acquired", "popped")
  /\ queue_mutex = None
  /\ task_queue # <<>>
  /\ task' = [task EXCEPT ![w] = Head(task_queue)]
  /\ task_queue' = Tail(task_queue)
  /\ pending_tasks' = pending_tasks - 1
  /\ UNCHANGED <<active_workers, finished, semaphore, queue_mutex,
                 submitVars, stopVars>>

BeginTask(w) ==
  /\ Goto(w, "popped", "running")
  /\ active_workers' = active_workers + 1
  /\ UNCHANGED <<task, finished, semaphore, queue_mutex, queueVars,
                 submitVars, stopVars>>

(* The task returned, or threw and catch (...) swallowed it: same effect. *)
EndTask(w) ==
  /\ Goto(w, "running", "check")
  /\ active_workers' = active_workers - 1
  /\ finished' = finished \cup {task[w]}
  /\ task' = [task EXCEPT ![w] = None]
  /\ UNCHANGED <<semaphore, queue_mutex, queueVars, submitVars, stopVars>>

-----------------------------------------------------------------------------
(* stop_all(), run once by one thread (OcrServer::stop() guards it) *)

StopAccepting ==
  /\ stopper = "idle"
  /\ accepting' = FALSE
  /\ stopper' = "request"
  /\ UNCHANGED <<stop_requested, semaphore, queue_mutex, queueVars,
                 submitVars, workerVars>>

(* The loop over threads: one request_stop() at a time. *)
RequestStop(w) ==
  /\ stopper = "request"
  /\ w \notin stop_requested
  /\ stop_requested' = stop_requested \cup {w}
  /\ UNCHANGED <<accepting, stopper, semaphore, queue_mutex, queueVars,
                 submitVars, workerVars>>

(* semaphore.release(workers.size()) wakes whoever waits. *)
ReleaseAll ==
  /\ stopper = "request"
  /\ stop_requested = Workers
  /\ semaphore' = semaphore + Cardinality(Workers)
  /\ stopper' = "join"
  /\ UNCHANGED <<accepting, stop_requested, queue_mutex, queueVars,
                 submitVars, workerVars>>

(* Mutant: the threads are detached instead of joined. *)
DetachAll ==
  /\ stopper = "join"
  /\ stopper' = "stopped"
  /\ UNCHANGED <<accepting, stop_requested, semaphore, queue_mutex,
                 queueVars, submitVars, workerVars>>

JoinAll ==
  /\ stopper = "join"
  /\ \A w \in Workers : worker[w] = "exited"
  /\ stopper' = "stopped"
  /\ UNCHANGED <<accepting, stop_requested, semaphore, queue_mutex,
                 queueVars, submitVars, workerVars>>

-----------------------------------------------------------------------------
SubmitStep(s) ==
  \/ \E t \in Tasks : SubmitRefused(s, t) \/ SubmitChecked(s, t)
  \/ SubmitPush(s)
  \/ SubmitRelease(s)

(* What a worker does with a permit it got. *)
ServeStep(w) ==
  \/ PopEmpty(w)
  \/ Pop(w)
  \/ BeginTask(w)
  \/ EndTask(w)

WorkerStep(w) ==
  \/ CheckStop(w)
  \/ Timeout(w)
  \/ Acquire(w)
  \/ ServeStep(w)

StopStep ==
  \/ StopAccepting
  \/ \E w \in Workers : RequestStop(w)
  \/ ReleaseAll
  \/ JoinAll

Next ==
  \/ \E s \in Submitters : SubmitStep(s)
  \/ \E w \in Workers : WorkerStep(w)
  \/ StopStep

Spec == Init /\ [][Next]_vars

(* A started thread keeps running; inference and its completion callback
   terminate; try_acquire_for, retried by the pool, does not miss a permit
   that stays available forever.  Nobody is obliged to submit or to stop. *)
Fairness ==
  /\ \A s \in Submitters : WF_vars(SubmitPush(s) \/ SubmitRelease(s))
  /\ \A w \in Workers : WF_vars(CheckStop(w))
  /\ \A w \in Workers : WF_vars(Timeout(w))
  /\ \A w \in Workers : WF_vars(ServeStep(w))
  /\ SF_vars(\E w \in Workers : Acquire(w))
  /\ \A w \in Workers : WF_vars(RequestStop(w))
  /\ WF_vars(ReleaseAll \/ JoinAll)

FairSpec == Spec /\ Fairness

-----------------------------------------------------------------------------
(* Types of the variables of OcrWorkerPool and of the threads around it. *)
TypeOK ==
  /\ accepting \in BOOLEAN
  /\ task_queue \in Seq(Tasks)
  /\ queue_mutex \in Submitters \cup {None}
  /\ semaphore \in Nat
  /\ pending_tasks \in Int
  /\ active_workers \in Int
  /\ stop_requested \subseteq Workers
  /\ worker \in [Workers -> {"check", "wait", "acquired", "popped",
                             "running", "exited"}]
  /\ task \in [Workers -> Tasks \cup {None}]
  /\ submitter \in [Submitters -> {"idle", "push", "release"}]
  /\ offered \in [Submitters -> Tasks \cup {None}]
  /\ stopper \in {"idle", "request", "join", "stopped"}
  /\ finished \subseteq Tasks
  /\ refused \subseteq Tasks

(* Permits taken and not yet turned into a pop; permits about to be given. *)
At(loc)       == {w \in Workers : worker[w] = loc}
PermitHolders == At("acquired")
Releasers     == {s \in Submitters : submitter[s] = "release"}
Wakeups == semaphore + Cardinality(PermitHolders) + Cardinality(Releasers)

(* submit() drops queue_mutex before it releases the semaphore, so a task can
   be queued, and even popped with another task's permit, while its own permit
   is still to come.  At no time are there more queued tasks than permits
   available, held, or about to be released: no task waits for a wakeup that
   will never come, not even when stop_all() intervenes. *)
NoLostWakeup == Len(task_queue) <= Wakeups

(* Until stop_all() releases its extra permits the two numbers are equal, so a
   worker that got a permit finds a task: the `task_queue.empty()' branch is
   taken only during shutdown. *)
PermitsMatchTasks ==
  stopper \in {"idle", "request"} =>
    /\ Len(task_queue) = Wakeups
    /\ PermitHolders # {} => task_queue # <<>>

(* Concurrent submitters never push past max_queue, although every one of them
   checks the size in one step and pushes in another: pending_tasks, which
   health() and stats() read without the mutex, stays within the capacity. *)
QueueBounded ==
  /\ Len(task_queue) <= MaxQueue
  /\ pending_tasks = Len(task_queue)

(* Every task submit() accepted is in exactly one place: queued once, held by
   one worker, or executed; and a refused task is in none of them. *)
ExactlyOnce ==
  /\ \A i, j \in 1..Len(task_queue) : task_queue[i] = task_queue[j] => i = j
  /\ \A v, w \in Workers : task[v] = task[w] /\ task[v] # None => v = w
  /\ Elements(task_queue) \cap Held = {}
  /\ Elements(task_queue) \cap finished = {}
  /\ Held \cap finished = {}
  /\ refused \cap (Elements(task_queue) \cup Held \cup finished) = {}

(* The busy count shown by /api/status is the number of workers inside a task,
   and stop_all() returns only when no worker can touch a task any more. *)
Quiescence ==
  /\ active_workers = Cardinality(At("running"))
  /\ stopper = "stopped" => \A w \in Workers :
                              worker[w] = "exited" /\ task[w] = None

(* A task that submit() accepted is executed, unless shutdown begins first. *)
AcceptedIsExecuted ==
  \A t \in Tasks :
    t \in Elements(task_queue) ~> (t \in finished \/ stopper # "idle")

(* Once begun, stop_all() returns: no worker sleeps through its request. *)
StopAllReturns == stopper = "request" ~> stopper = "stopped"

(* The pool implements its abstract specification.  The linearization point of
   submit() is the moment its checks pass under the mutex: the task in the
   hand of the mutex owner already counts as queued. *)
Linearized ==
  IF queue_mutex = None THEN task_queue
                        ELSE Append(task_queue, offered[queue_mutex])

Abstract == INSTANCE TaskPool WITH
  NumWorkers <- Cardinality(Workers),
  open       <- accepting,
  queue      <- Linearized,
  running    <- Held,
  halted     <- stopper = "stopped"

ImplementsTaskPool == Abstract!Spec

=============================================================================
