------------------------------ MODULE TaskPool ------------------------------
(***************************************************************************)
(* What OcrWorkerPool promises its callers, with threads, locks and        *)
(* permits left out: a bounded FIFO queue served by at most NumWorkers     *)
(* concurrent executions, a door that closes once, and a halt after which  *)
(* nothing runs.  Tasks still queued at the halt are abandoned: the pool   *)
(* makes no promise about them.  WorkerPool implements this module and     *)
(* OcrService is built over it.                                            *)
(***************************************************************************)
EXTENDS Integers, Sequences, FiniteSets

CONSTANTS
  Tasks,        \* the closures handed to submit(); each is handed over once
  MaxQueue,     \* the max_queue argument, config.queue_capacity
  NumWorkers    \* workers.size()

VARIABLES
  open,         \* submissions are still admitted
  queue,        \* accepted and not started, oldest first
  running,      \* being executed by some worker
  finished,     \* executed: returned, or threw and was caught
  refused,      \* submit() returned false
  halted        \* stop_all() has returned

poolVars == <<open, queue, running, finished, refused, halted>>

Elements(s) == {s[i] : i \in 1..Len(s)}

(* Tasks the pool has decided about. *)
Known == Elements(queue) \cup running \cup finished \cup refused

Init ==
  /\ open = TRUE
  /\ queue = <<>>
  /\ running = {}
  /\ finished = {}
  /\ refused = {}
  /\ halted = FALSE

(* submit() returns true: there was room and the pool was accepting. *)
Accept(t) ==
  /\ t \in Tasks \ Known
  /\ open
  /\ Len(queue) < MaxQueue
  /\ queue' = Append(queue, t)
  /\ UNCHANGED <<open, running, finished, refused, halted>>

(* submit() returns false, for one of its two reasons. *)
Refuse(t) ==
  /\ t \in Tasks \ Known
  /\ ~open \/ Len(queue) >= MaxQueue
  /\ refused' = refused \cup {t}
  /\ UNCHANGED <<open, queue, running, finished, halted>>

(* A free worker takes the oldest task. *)
Start ==
  /\ ~halted
  /\ queue # <<>>
  /\ Cardinality(running) < NumWorkers
  /\ running' = running \cup {Head(queue)}
  /\ queue' = Tail(queue)
  /\ UNCHANGED <<open, finished, refused, halted>>

Finish(t) ==
  /\ t \in running
  /\ running' = running \ {t}
  /\ finished' = finished \cup {t}
  /\ UNCHANGED <<open, queue, refused, halted>>

Close ==
  /\ open
  /\ open' = FALSE
  /\ UNCHANGED <<queue, running, finished, refused, halted>>

(* stop_all() returns: every worker thread was joined. *)
Halt ==
  /\ ~open
  /\ ~halted
  /\ running = {}
  /\ halted' = TRUE
  /\ UNCHANGED <<open, queue, running, finished, refused>>

Next ==
  \/ \E t \in Tasks : Accept(t) \/ Refuse(t) \/ Finish(t)
  \/ Start
  \/ Close
  \/ Halt

Spec == Init /\ [][Next]_poolVars

=============================================================================
