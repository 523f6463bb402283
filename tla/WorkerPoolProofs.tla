-------------------------- MODULE WorkerPoolProofs --------------------------
(***************************************************************************)
(* Proofs about WorkerPool for every number of submitters, workers and     *)
(* tasks and every queue capacity.                                         *)
(***************************************************************************)
EXTENDS WorkerPool, FiniteSetTheorems, SequenceTheorems, TLAPS

(***************************************************************************)
(* Sequences: what Append and Tail do to the length and to the elements.   *)
(***************************************************************************)

(* push() on task_queue: one more place, at the end. *)
LEMMA AppendFacts ==
  ASSUME NEW S, NEW q \in Seq(S), NEW e \in S
  PROVE  /\ Append(q, e) \in Seq(S)
         /\ Len(Append(q, e)) = Len(q) + 1
         /\ \A i \in 1..Len(q) : Append(q, e)[i] = q[i]
         /\ Append(q, e)[Len(q) + 1] = e
         /\ Elements(Append(q, e)) = Elements(q) \cup {e}
  <1>1. /\ Append(q, e) \in Seq(S)
        /\ Len(Append(q, e)) = Len(q) + 1
        /\ \A i \in 1..Len(q) : Append(q, e)[i] = q[i]
        /\ Append(q, e)[Len(q) + 1] = e
    OBVIOUS
  <1>2. Len(q) \in Nat
    OBVIOUS
  <1>3. 1..(Len(q) + 1) = 1..Len(q) \cup {Len(q) + 1}
    BY <1>2
  <1>4. Elements(Append(q, e)) = {Append(q, e)[i] : i \in 1..(Len(q) + 1)}
    BY <1>1 DEF Elements
  <1>5. \A x : x \in Elements(Append(q, e)) <=> x \in Elements(q) \cup {e}
    <2>1. ASSUME NEW x, x \in Elements(Append(q, e))
          PROVE  x \in Elements(q) \cup {e}
      <3>1. PICK i \in 1..Len(q) \cup {Len(q) + 1} : x = Append(q, e)[i]
        BY <2>1, <1>3, <1>4
      <3>2. QED
        BY <3>1, <1>1 DEF Elements
    <2>2. ASSUME NEW x, x \in Elements(q) \cup {e}
          PROVE  x \in Elements(Append(q, e))
      <3>1. CASE x = e
        BY <3>1, <1>1, <1>2, <1>4
      <3>2. CASE x \in Elements(q)
        <4>1. PICK i \in 1..Len(q) : x = q[i]
          BY <3>2 DEF Elements
        <4>2. i \in 1..(Len(q) + 1) /\ x = Append(q, e)[i]
          BY <4>1, <1>1, <1>2
        <4>3. QED
          BY <4>2, <1>4
      <3>3. QED
        BY <2>2, <3>1, <3>2
    <2>3. QED
      BY <2>1, <2>2
  <1>6. QED
    BY <1>1, <1>5

(* front() and pop(): the oldest element leaves, the others move up by one. *)
LEMMA TailFacts ==
  ASSUME NEW S, NEW q \in Seq(S), q # <<>>
  PROVE  /\ Head(q) \in S
         /\ Head(q) = q[1]
         /\ Tail(q) \in Seq(S)
         /\ Len(q) \in Nat \ {0}
         /\ Len(Tail(q)) = Len(q) - 1
         /\ \A i \in 1..(Len(q) - 1) : Tail(q)[i] = q[i + 1]
         /\ Elements(q) = Elements(Tail(q)) \cup {Head(q)}
  <1>1. /\ Head(q) \in S
        /\ Head(q) = q[1]
        /\ Tail(q) \in Seq(S)
        /\ Len(q) \in Nat \ {0}
        /\ Len(Tail(q)) = Len(q) - 1
        /\ \A i \in 1..(Len(q) - 1) : Tail(q)[i] = q[i + 1]
    BY HeadTailProperties, EmptySeq
  <1>2. \A x : x \in Elements(q) <=> x \in Elements(Tail(q)) \cup {Head(q)}
    <2>1. ASSUME NEW x, x \in Elements(q)
          PROVE  x \in Elements(Tail(q)) \cup {Head(q)}
      <3>1. PICK i \in 1..Len(q) : x = q[i]
        BY <2>1 DEF Elements
      <3>2. CASE i = 1
        BY <3>1, <3>2, <1>1
      <3>3. CASE i # 1
        <4>1. i - 1 \in 1..Len(Tail(q)) /\ x = Tail(q)[i - 1]
          BY <3>1, <3>3, <1>1
        <4>2. QED
          BY <4>1 DEF Elements
      <3>4. QED
        BY <3>2, <3>3
    <2>2. ASSUME NEW x, x \in Elements(Tail(q)) \cup {Head(q)}
          PROVE  x \in Elements(q)
      <3>1. CASE x = Head(q)
        BY <3>1, <1>1 DEF Elements
      <3>2. CASE x \in Elements(Tail(q))
        <4>1. PICK i \in 1..Len(Tail(q)) : x = Tail(q)[i]
          BY <3>2 DEF Elements
        <4>2. i + 1 \in 1..Len(q) /\ x = q[i + 1]
          BY <4>1, <1>1
        <4>3. QED
          BY <4>2 DEF Elements
      <3>3. QED
        BY <2>2, <3>1, <3>2
    <2>3. QED
      BY <2>1, <2>2
  <1>3. QED
    BY <1>1, <1>2

-----------------------------------------------------------------------------
(***************************************************************************)
(* Types and control: who is where, who owns the mutex, what the stop      *)
(* phases imply.  Types alone are not inductive: SubmitPush appends        *)
(* offered[s], which is a task only because the submitter owns the mutex.  *)
(***************************************************************************)
Control ==
  /\ \A s \in Submitters : submitter[s] = "push" <=> queue_mutex = s
  /\ \A s \in Submitters : submitter[s] = "push" <=> offered[s] # None
  /\ \A w \in Workers : worker[w] \in {"popped", "running"} <=> task[w] # None
  /\ queue_mutex # None => Len(task_queue) < MaxQueue
  /\ accepting <=> stopper = "idle"
  /\ stopper \in {"join", "stopped"} => stop_requested = Workers
  /\ stopper = "stopped" => \A w \in Workers : worker[w] = "exited"

TypedControl == TypeOK /\ Control /\ QueueBounded

(* The start state is well typed and its control predicates hold. *)
LEMMA TypedControlInit == Init => TypedControl
  BY NoneAssumption, CapacityAssumption
     DEF Init, TypedControl, TypeOK, Control, QueueBounded

(* A step of submit() keeps types, control and the capacity bound. *)
LEMMA TypedControlSubmit ==
  ASSUME TypedControl, NEW s \in Submitters, SubmitStep(s)
  PROVE  TypedControl'
  <1> USE NoneAssumption, CapacityAssumption
      DEF TypedControl, TypeOK, Control, QueueBounded,
          queueVars, submitVars, workerVars, stopVars
  <1>1. ASSUME NEW t \in Tasks, SubmitRefused(s, t)
        PROVE  TypedControl'
    BY <1>1 DEF SubmitRefused
  <1>2. ASSUME NEW t \in Tasks, SubmitChecked(s, t)
        PROVE  TypedControl'
    <2>1. TypeOK'
      BY <1>2 DEF SubmitChecked
    <2>2. Control'
      BY <1>2 DEF SubmitChecked
    <2>3. QueueBounded'
      BY <1>2 DEF SubmitChecked
    <2>4. QED
      BY <2>1, <2>2, <2>3
  <1>3. CASE SubmitPush(s)
    <2>1. /\ offered[s] \in Tasks
          /\ queue_mutex = s
          /\ Len(task_queue) < MaxQueue
          /\ Len(task_queue) \in Nat
      BY <1>3, EmptySeq DEF SubmitPush
    <2>2. /\ task_queue' \in Seq(Tasks)
          /\ Len(task_queue') = Len(task_queue) + 1
      BY <1>3, <2>1, AppendFacts DEF SubmitPush
    <2>3. TypeOK'
      BY <1>3, <2>2 DEF SubmitPush
    <2>4. Control'
      BY <1>3, <2>1 DEF SubmitPush
    <2>5. QueueBounded'
      BY <1>3, <2>1, <2>2 DEF SubmitPush
    <2>6. QED
      BY <2>3, <2>4, <2>5
  <1>4. CASE SubmitRelease(s)
    BY <1>4 DEF SubmitRelease
  <1>5. QED
    BY <1>1, <1>2, <1>3, <1>4 DEF SubmitStep

(* A step of a worker thread keeps them as well. *)
LEMMA TypedControlWorker ==
  ASSUME TypedControl, NEW w \in Workers, WorkerStep(w)
  PROVE  TypedControl'
  <1> USE NoneAssumption, CapacityAssumption
      DEF TypedControl, TypeOK, Control, QueueBounded, Goto,
          queueVars, submitVars, workerVars, stopVars
  <1>1. CASE CheckStop(w)
    BY <1>1 DEF CheckStop
  <1>2. CASE Timeout(w)
    BY <1>2 DEF Timeout
  <1>3. CASE Acquire(w)
    BY <1>3 DEF Acquire
  <1>4. CASE PopEmpty(w)
    BY <1>4 DEF PopEmpty
  <1>5. CASE Pop(w)
    <2>1. /\ task_queue # <<>>
          /\ Head(task_queue) \in Tasks
          /\ task_queue' \in Seq(Tasks)
          /\ Len(task_queue) \in Nat \ {0}
          /\ Len(task_queue') = Len(task_queue) - 1
      BY <1>5, TailFacts DEF Pop
    <2>2. TypeOK'
      BY <1>5, <2>1 DEF Pop
    <2>3. Control'
      BY <1>5, <2>1 DEF Pop
    <2>4. QueueBounded'
      BY <1>5, <2>1 DEF Pop
    <2>5. QED
      BY <2>2, <2>3, <2>4
  <1>6. CASE BeginTask(w)
    BY <1>6 DEF BeginTask
  <1>7. CASE EndTask(w)
    BY <1>7 DEF EndTask
  <1>8. QED
    BY <1>1, <1>2, <1>3, <1>4, <1>5, <1>6, <1>7 DEF WorkerStep, ServeStep

(* And so does a step of stop_all(). *)
LEMMA TypedControlStop ==
  ASSUME TypedControl, StopStep
  PROVE  TypedControl'
  <1> USE NoneAssumption, CapacityAssumption
      DEF TypedControl, TypeOK, Control, QueueBounded,
          queueVars, submitVars, workerVars, stopVars
  <1>1. CASE StopAccepting
    BY <1>1 DEF StopAccepting
  <1>2. ASSUME NEW w \in Workers, RequestStop(w)
        PROVE  TypedControl'
    BY <1>2 DEF RequestStop
  <1>3. CASE ReleaseAll
    <2>1. Cardinality(Workers) \in Nat
      BY WorkersAssumption, FS_CardinalityType
    <2>2. QED
      BY <1>3, <2>1 DEF ReleaseAll
  <1>4. CASE JoinAll
    BY <1>4 DEF JoinAll
  <1>5. QED
    BY <1>1, <1>2, <1>3, <1>4 DEF StopStep

(* Types and control agree in every reachable state. *)
LEMMA TypedControlInvariant == Spec => []TypedControl
  <1>1. TypedControl /\ UNCHANGED vars => TypedControl'
    BY DEF TypedControl, TypeOK, Control, QueueBounded, vars,
           queueVars, submitVars, workerVars, stopVars
  <1>2. TypedControl /\ [Next]_vars => TypedControl'
    BY <1>1, TypedControlSubmit, TypedControlWorker, TypedControlStop DEF Next
  <1>3. QED
    BY <1>2, TypedControlInit, PTL DEF Spec

(* Every variable of the pool keeps its type; in particular the semaphore    *)
(* never goes below zero.                                                    *)
THEOREM TypeCorrect == Spec => []TypeOK
  BY TypedControlInvariant, PTL DEF TypedControl

(* The queue never exceeds queue_capacity, although submit() checks and        *)
(* pushes in two steps, and pending_tasks is its length at every step.         *)
THEOREM CapacityRespected == Spec => []QueueBounded
  BY TypedControlInvariant, PTL DEF TypedControl

-----------------------------------------------------------------------------
(***************************************************************************)
(* Counting permits and busy workers                                       *)
(***************************************************************************)

(* A worker that moves leaves one location and enters another; the sets of   *)
(* workers at every other location stay what they were.                      *)
LEMMA GotoCounts ==
  ASSUME TypeOK, NEW w \in Workers, NEW from, NEW to, from # to,
         Goto(w, from, to)
  PROVE  /\ Cardinality(At(from)) > 0
         /\ Cardinality(At(from)') = Cardinality(At(from)) - 1
         /\ Cardinality(At(to)') = Cardinality(At(to)) + 1
         /\ \A loc : loc # from /\ loc # to => At(loc)' = At(loc)
         /\ \A loc : Cardinality(At(loc)) \in Nat
  <1>1. \A loc : IsFiniteSet(At(loc)) /\ Cardinality(At(loc)) \in Nat
    BY WorkersAssumption, FS_Subset, FS_CardinalityType DEF At
  <1>2. At(from)' = At(from) \ {w} /\ w \in At(from)
    BY DEF At, Goto, TypeOK
  <1>3. At(to)' = At(to) \cup {w} /\ w \notin At(to)
    BY DEF At, Goto, TypeOK
  <1>4. \A loc : loc # from /\ loc # to => At(loc)' = At(loc)
    BY DEF At, Goto, TypeOK
  <1>5. /\ Cardinality(At(from)') = Cardinality(At(from)) - 1
        /\ Cardinality(At(from)) > 0
    <2>1. Cardinality(At(from)) # 0
      BY <1>1, <1>2, FS_EmptySet
    <2>2. QED
      BY <1>1, <1>2, <2>1, FS_RemoveElement
  <1>6. Cardinality(At(to)') = Cardinality(At(to)) + 1
    BY <1>1, <1>3, FS_AddElement
  <1>7. QED
    BY <1>1, <1>4, <1>5, <1>6

(* The same for a submitter that enters or leaves the release step.          *)
LEMMA ReleaserCounts ==
  ASSUME TypeOK, NEW s \in Submitters, NEW to,
         submitter' = [submitter EXCEPT ![s] = to]
  PROVE  /\ Cardinality(Releasers) \in Nat
         /\ submitter[s] # "release" /\ to = "release" =>
              Cardinality(Releasers') = Cardinality(Releasers) + 1
         /\ submitter[s] = "release" /\ to # "release" =>
              Cardinality(Releasers') = Cardinality(Releasers) - 1
         /\ submitter[s] # "release" /\ to # "release" =>
              Releasers' = Releasers
  <1>1. IsFiniteSet(Releasers) /\ Cardinality(Releasers) \in Nat
    BY SubmittersAssumption, FS_Subset, FS_CardinalityType DEF Releasers
  <1>2. CASE submitter[s] # "release" /\ to = "release"
    <2>1. Releasers' = Releasers \cup {s} /\ s \notin Releasers
      BY <1>2 DEF Releasers, TypeOK
    <2>2. QED
      BY <1>1, <1>2, <2>1, FS_AddElement
  <1>3. CASE submitter[s] = "release" /\ to # "release"
    <2>1. Releasers' = Releasers \ {s} /\ s \in Releasers
      BY <1>3 DEF Releasers, TypeOK
    <2>2. QED
      BY <1>1, <1>3, <2>1, FS_RemoveElement
  <1>4. CASE submitter[s] # "release" /\ to # "release"
    <2>1. Releasers' = Releasers
      BY <1>4 DEF Releasers, TypeOK
    <2>2. QED
      BY <1>1, <1>4, <2>1
  <1>5. QED
    BY <1>1, <1>2, <1>3, <1>4

(* NoLostWakeup is not inductive before stop_all(): only the equality shows   *)
(* that a permit taken from an empty queue would have been one too many.      *)
Counting ==
  /\ NoLostWakeup
  /\ stopper \in {"idle", "request"} => Len(task_queue) = Wakeups
  /\ active_workers = Cardinality(At("running"))

(* An idle pool balances its permits. *)
LEMMA CountingInit == Init => Counting
  <1> SUFFICES ASSUME Init
               PROVE  Counting
    OBVIOUS
  <1>1. At("acquired") = {} /\ At("running") = {} /\ Releasers = {}
    BY DEF Init, At, Releasers
  <1>2. Wakeups = 0
    <2>1. Cardinality(PermitHolders) = 0 /\ Cardinality(Releasers) = 0
      BY <1>1, FS_EmptySet DEF PermitHolders
    <2>2. QED
      BY <2>1 DEF Init, Wakeups
  <1>3. Cardinality(At("running")) = 0
    BY <1>1, FS_EmptySet
  <1>4. Len(task_queue) = 0
    BY DEF Init
  <1>5. QED
    BY <1>2, <1>3, <1>4 DEF Init, Counting, NoLostWakeup

(* submit() moves tasks and permits in step. *)
LEMMA CountingSubmit ==
  ASSUME TypedControl, Counting, NEW s \in Submitters, SubmitStep(s)
  PROVE  Counting'
  <1> USE DEF Counting, NoLostWakeup, Wakeups, PermitHolders, TypedControl
  <1>0. /\ Len(task_queue) \in Nat
        /\ Cardinality(At("acquired")) \in Nat
        /\ semaphore \in Nat
    BY WorkersAssumption, FS_Subset, FS_CardinalityType DEF At, TypeOK
  <1>1. ASSUME NEW t \in Tasks, SubmitRefused(s, t)
        PROVE  Counting'
    BY <1>1 DEF SubmitRefused, queueVars, workerVars, stopVars, At, Releasers
  <1>2. ASSUME NEW t \in Tasks, SubmitChecked(s, t)
        PROVE  Counting'
    <2>1. Releasers' = Releasers
      BY <1>2 DEF SubmitChecked, Releasers, TypeOK
    <2>2. QED
      BY <1>2, <2>1 DEF SubmitChecked, queueVars, workerVars, stopVars, At
  <1>3. CASE SubmitPush(s)
    <2>1. /\ Cardinality(Releasers') = Cardinality(Releasers) + 1
          /\ Cardinality(Releasers) \in Nat
      BY <1>3, ReleaserCounts DEF SubmitPush
    <2>2. offered[s] \in Tasks
      BY <1>3 DEF SubmitPush, TypeOK, Control
    <2>3. Len(task_queue') = Len(task_queue) + 1
      BY <1>3, <2>2, AppendFacts DEF SubmitPush, TypeOK
    <2>4. semaphore' = semaphore /\ At("acquired")' = At("acquired")
          /\ At("running")' = At("running")
      BY <1>3 DEF SubmitPush, workerVars, At
    <2>5. QED
      BY <1>0, <1>3, <2>1, <2>3, <2>4 DEF SubmitPush, workerVars, stopVars
  <1>4. CASE SubmitRelease(s)
    <2>1. /\ submitter' = [submitter EXCEPT ![s] = "idle"]
          /\ submitter[s] = "release"
          /\ "idle" # "release"
          /\ TypeOK
      BY <1>4 DEF SubmitRelease
    <2>3. /\ Cardinality(Releasers') = Cardinality(Releasers) - 1
          /\ Cardinality(Releasers) \in Nat
      BY <2>1, ReleaserCounts
    <2>2. At("acquired")' = At("acquired") /\ At("running")' = At("running")
      BY <1>4 DEF SubmitRelease, workerVars, At
    <2>4. QED
      BY <1>0, <1>4, <2>2, <2>3
         DEF SubmitRelease, queueVars, workerVars, stopVars
  <1>5. QED
    BY <1>1, <1>2, <1>3, <1>4 DEF SubmitStep

(* So does a worker. *)
LEMMA CountingWorker ==
  ASSUME TypedControl, Counting, NEW w \in Workers, WorkerStep(w)
  PROVE  Counting'
  <1> USE DEF Counting, NoLostWakeup, Wakeups, PermitHolders, TypedControl
  <1>0. /\ Len(task_queue) \in Nat
        /\ \A loc : Cardinality(At(loc)) \in Nat
        /\ Cardinality(Releasers) \in Nat
        /\ semaphore \in Nat
        /\ TypeOK
    BY WorkersAssumption, SubmittersAssumption, FS_Subset, FS_CardinalityType
       DEF At, Releasers, TypeOK
  <1>1. CASE CheckStop(w)
    <2>1. At("acquired")' = At("acquired") /\ At("running")' = At("running")
      BY <1>0, <1>1, GotoCounts DEF CheckStop
    <2>2. QED
      BY <1>1, <2>1 DEF CheckStop, queueVars, submitVars, stopVars, Releasers
  <1>2. CASE Timeout(w)
    <2>1. At("acquired")' = At("acquired") /\ At("running")' = At("running")
      BY <1>0, <1>2, GotoCounts DEF Timeout
    <2>2. QED
      BY <1>2, <2>1 DEF Timeout, queueVars, submitVars, stopVars, Releasers
  <1>3. CASE Acquire(w)
    <2>1. /\ Cardinality(At("acquired")') = Cardinality(At("acquired")) + 1
          /\ At("running")' = At("running")
      BY <1>0, <1>3, GotoCounts DEF Acquire
    <2>2. QED
      BY <1>0, <1>3, <2>1
         DEF Acquire, queueVars, submitVars, stopVars, Releasers
  <1>4. CASE PopEmpty(w)
    <2>1. /\ Cardinality(At("acquired")) > 0
          /\ Cardinality(At("acquired")') = Cardinality(At("acquired")) - 1
          /\ At("running")' = At("running")
      BY <1>0, <1>4, GotoCounts DEF PopEmpty
    <2>2. Len(task_queue) = 0
      BY <1>4 DEF PopEmpty
    <2>3. stopper \notin {"idle", "request"}
      BY <1>0, <2>1, <2>2
    <2>4. QED
      BY <1>0, <1>4, <2>1, <2>2, <2>3
         DEF PopEmpty, queueVars, submitVars, stopVars, Releasers
  <1>5. CASE Pop(w)
    <2>1. /\ Cardinality(At("acquired")') = Cardinality(At("acquired")) - 1
          /\ At("running")' = At("running")
      BY <1>0, <1>5, GotoCounts DEF Pop
    <2>2. Len(task_queue') = Len(task_queue) - 1
      BY <1>0, <1>5, TailFacts DEF Pop, TypeOK
    <2>3. QED
      BY <1>0, <1>5, <2>1, <2>2 DEF Pop, submitVars, stopVars, Releasers
  <1>6. CASE BeginTask(w)
    <2>1. /\ Cardinality(At("running")') = Cardinality(At("running")) + 1
          /\ At("acquired")' = At("acquired")
      BY <1>0, <1>6, GotoCounts DEF BeginTask
    <2>2. QED
      BY <1>0, <1>6, <2>1
         DEF BeginTask, queueVars, submitVars, stopVars, Releasers
  <1>7. CASE EndTask(w)
    <2>1. /\ Cardinality(At("running")') = Cardinality(At("running")) - 1
          /\ At("acquired")' = At("acquired")
      BY <1>0, <1>7, GotoCounts DEF EndTask
    <2>2. QED
      BY <1>0, <1>7, <2>1
         DEF EndTask, queueVars, submitVars, stopVars, Releasers
  <1>8. QED
    BY <1>1, <1>2, <1>3, <1>4, <1>5, <1>6, <1>7 DEF WorkerStep, ServeStep

(* So does stop_all(), which adds permits only at its end. *)
LEMMA CountingStop ==
  ASSUME TypedControl, Counting, StopStep
  PROVE  Counting'
  <1> USE DEF Counting, NoLostWakeup, Wakeups, PermitHolders, TypedControl,
              At, Releasers, queueVars, submitVars, workerVars
  <1>1. CASE StopAccepting
    BY <1>1 DEF StopAccepting
  <1>2. ASSUME NEW w \in Workers, RequestStop(w)
        PROVE  Counting'
    BY <1>2 DEF RequestStop
  <1>3. CASE ReleaseAll
    <2>1. /\ Cardinality(Workers) \in Nat
          /\ Cardinality(At("acquired")) \in Nat
          /\ Cardinality(Releasers) \in Nat
          /\ Len(task_queue) \in Nat
          /\ semaphore \in Nat
      BY WorkersAssumption, SubmittersAssumption, FS_Subset,
         FS_CardinalityType DEF TypeOK
    <2>2. QED
      BY <1>3, <2>1 DEF ReleaseAll
  <1>4. CASE JoinAll
    BY <1>4 DEF JoinAll
  <1>5. QED
    BY <1>1, <1>2, <1>3, <1>4 DEF StopStep

(* Permits and tasks balance in every reachable state. *)
LEMMA CountingInvariant == Spec => []Counting
  <1>1. Counting /\ UNCHANGED vars => Counting'
    BY DEF Counting, NoLostWakeup, Wakeups, PermitHolders, At, Releasers,
           vars, queueVars, submitVars, workerVars, stopVars
  <1>2. TypedControl /\ Counting /\ [Next]_vars => Counting'
    BY <1>1, CountingSubmit, CountingWorker, CountingStop DEF Next
  <1>3. QED
    BY <1>2, CountingInit, TypedControlInvariant, PTL DEF Spec

(* No queued task is left without a wakeup, in spite of release() being called *)
(* after the mutex was dropped and of stop_all() racing with submit().         *)
THEOREM NoWakeupIsLost == Spec => []NoLostWakeup
  BY CountingInvariant, PTL DEF Counting

(* Before stop_all() hands out its extra permits, a worker that got a permit   *)
(* always finds a task.                                                        *)
THEOREM PermitsAreTasks == Spec => []PermitsMatchTasks
  <1>1. TypedControl /\ Counting => PermitsMatchTasks
    <2> SUFFICES ASSUME TypedControl, Counting,
                        stopper \in {"idle", "request"},
                        PermitHolders # {}
                 PROVE  task_queue # <<>>
      BY DEF Counting, PermitsMatchTasks
    <2>1. /\ IsFiniteSet(PermitHolders)
          /\ Cardinality(PermitHolders) \in Nat
          /\ Cardinality(Releasers) \in Nat
          /\ semaphore \in Nat
      BY WorkersAssumption, SubmittersAssumption, FS_Subset,
         FS_CardinalityType
         DEF PermitHolders, At, Releasers, TypedControl, TypeOK
    <2>2. Cardinality(PermitHolders) # 0
      BY <2>1, FS_EmptySet
    <2>3. Len(task_queue) # 0
      BY <2>1, <2>2 DEF Counting, Wakeups
    <2>4. QED
      BY <2>3
  <1>2. QED
    BY <1>1, TypedControlInvariant, CountingInvariant, PTL

(* active_workers is the number of workers inside a task, and stop_all()       *)
(* returns only when no worker holds a task.                                   *)
THEOREM StopIsQuiet == Spec => []Quiescence
  <1>1. TypedControl /\ Counting => Quiescence
    BY DEF TypedControl, Control, Counting, Quiescence
  <1>2. QED
    BY <1>1, TypedControlInvariant, CountingInvariant, PTL

-----------------------------------------------------------------------------
(***************************************************************************)
(* Where the tasks are                                                     *)
(***************************************************************************)

(* ExactlyOnce needs the task in a submitter's hand to be somewhere new too. *)
Places ==
  /\ ExactlyOnce
  /\ InHand \cap (Elements(task_queue) \cup Held \cup finished \cup refused) = {}

(* The mutex has one owner, so at most one task is in hand.                  *)
LEMMA InHandIsOwners ==
  ASSUME TypedControl
  PROVE  /\ queue_mutex = None => InHand = {}
         /\ queue_mutex # None => InHand = {offered[queue_mutex]}
  BY NoneAssumption DEF TypedControl, TypeOK, Control, InHand

(* Nothing is anywhere at first. *)
LEMMA PlacesInit == Init => Places
  <1> SUFFICES ASSUME Init
               PROVE  Places
    OBVIOUS
  <1>1. Elements(task_queue) = {} /\ Held = {} /\ InHand = {}
    BY DEF Init, Elements, Held, InHand
  <1>2. QED
    BY <1>1 DEF Init, Places, ExactlyOnce

(* submit() puts a new task in one place. *)
LEMMA PlacesSubmit ==
  ASSUME TypedControl, Places, NEW s \in Submitters, SubmitStep(s)
  PROVE  Places'
  <1> USE DEF Places, ExactlyOnce
  <1>1. ASSUME NEW t \in Tasks, SubmitRefused(s, t)
        PROVE  Places'
    <2>1. /\ UNCHANGED <<task_queue, task, offered, finished>>
          /\ refused' = refused \cup {t}
          /\ t \notin Known
      BY <1>1 DEF SubmitRefused, queueVars, workerVars
    <2>2. UNCHANGED <<Elements(task_queue), Held, InHand>>
      BY <2>1 DEF Elements, Held, InHand
    <2>3. QED
      BY <2>1, <2>2 DEF Known
  <1>2. ASSUME NEW t \in Tasks, SubmitChecked(s, t)
        PROVE  Places'
    <2>1. /\ UNCHANGED <<task_queue, task, refused, finished>>
          /\ offered' = [offered EXCEPT ![s] = t]
          /\ queue_mutex' = s
          /\ t \notin Known
      BY <1>2 DEF SubmitChecked, queueVars, workerVars
    <2>2. UNCHANGED <<Elements(task_queue), Held>>
      BY <2>1 DEF Elements, Held
    <2>3. \A r \in Submitters : offered[r] = None
      BY <1>2, NoneAssumption DEF SubmitChecked, TypedControl, Control
    <2>4. InHand' \subseteq {t}
      BY <2>1, <2>3 DEF InHand, TypedControl, TypeOK
    <2>5. QED
      BY <2>1, <2>2, <2>4 DEF Known
  <1>3. CASE SubmitPush(s)
    <2>1. /\ UNCHANGED <<task, refused, finished>>
          /\ task_queue' = Append(task_queue, offered[s])
          /\ offered' = [offered EXCEPT ![s] = None]
          /\ submitter[s] = "push"
          /\ queue_mutex = s
          /\ offered[s] \in Tasks
          /\ offered[s] \in InHand
      BY <1>3 DEF SubmitPush, workerVars, TypedControl, TypeOK, Control, InHand
    <2>2. /\ Elements(task_queue)' = Elements(task_queue) \cup {offered[s]}
          /\ Len(task_queue') = Len(task_queue) + 1
          /\ \A i \in 1..Len(task_queue) : task_queue'[i] = task_queue[i]
          /\ task_queue'[Len(task_queue) + 1] = offered[s]
          /\ Len(task_queue) \in Nat
      BY <2>1, AppendFacts, LenProperties DEF TypedControl, TypeOK
    <2>3. Held' = Held
      BY <2>1 DEF Held
    <2>4. InHand' = {}
      BY <2>1, NoneAssumption DEF InHand, TypedControl, TypeOK, Control
    <2>5. offered[s] \notin Elements(task_queue) \cup Held \cup finished
                              \cup refused
      BY <2>1
    <2>6. \A i, j \in 1..Len(task_queue') :
            task_queue'[i] = task_queue'[j] => i = j
      <3>1. \A i \in 1..Len(task_queue) : task_queue[i] # offered[s]
        BY <2>5 DEF Elements
      <3>2. QED
        BY <2>2, <3>1
    <2>7. QED
      BY <2>1, <2>2, <2>3, <2>4, <2>5, <2>6
  <1>4. CASE SubmitRelease(s)
    <2>1. UNCHANGED <<task_queue, task, offered, refused, finished>>
      BY <1>4 DEF SubmitRelease, queueVars, workerVars
    <2>2. QED
      BY <2>1 DEF Elements, Held, InHand
  <1>5. QED
    BY <1>1, <1>2, <1>3, <1>4 DEF SubmitStep

(* A worker moves a task from one place to the next. *)
LEMMA PlacesWorker ==
  ASSUME TypedControl, Places, NEW w \in Workers, WorkerStep(w)
  PROVE  Places'
  <1> USE DEF Places, ExactlyOnce
  <1>1. CASE Pop(w)
    <2>1. /\ UNCHANGED <<offered, refused, finished>>
          /\ task_queue \in Seq(Tasks)
          /\ task_queue # <<>>
          /\ task_queue' = Tail(task_queue)
          /\ task' = [task EXCEPT ![w] = Head(task_queue)]
          /\ task[w] = None
          /\ InHand = {}
      BY <1>1, InHandIsOwners
         DEF Pop, Goto, submitVars, TypedControl, TypeOK, Control
    <2>2. /\ Head(task_queue) \in Tasks
          /\ Head(task_queue) = task_queue[1]
          /\ Len(task_queue) \in Nat \ {0}
          /\ Len(task_queue') = Len(task_queue) - 1
          /\ \A i \in 1..(Len(task_queue) - 1) :
               task_queue'[i] = task_queue[i + 1]
          /\ Elements(task_queue)
               = Elements(task_queue)' \cup {Head(task_queue)}
      BY <2>1, TailFacts
    <2>3. Head(task_queue) \notin Elements(task_queue)'
      BY <2>2 DEF Elements
    <2>4. /\ Held' = Held \cup {Head(task_queue)}
          /\ InHand' = {}
      <3>1. InHand' = InHand
        BY <2>1 DEF InHand
      <3>2. /\ task'[w] = Head(task_queue)
            /\ Head(task_queue) # None
            /\ \A v \in Workers : v # w => task'[v] = task[v]
        BY <2>1, <2>2, NoneAssumption DEF TypedControl, TypeOK
      <3>3. Held' \subseteq Held \cup {Head(task_queue)}
        BY <3>2 DEF Held
      <3>4. Held \cup {Head(task_queue)} \subseteq Held'
        BY <2>1, <3>2 DEF Held
      <3>5. QED
        BY <2>1, <3>1, <3>3, <3>4
    <2>5. \A i, j \in 1..Len(task_queue') :
            task_queue'[i] = task_queue'[j] => i = j
      BY <2>2
    <2>6. \A u, v \in Workers : task'[u] = task'[v] /\ task'[u] # None => u = v
      <3>1. \A v \in Workers : task[v] # Head(task_queue)
        <4>1. Head(task_queue) \in Elements(task_queue)
          BY <2>2
        <4>2. Head(task_queue) \notin Held /\ Head(task_queue) # None
          BY <2>2, <4>1, NoneAssumption
        <4>3. QED
          BY <4>2 DEF Held
      <3>2. QED
        BY <2>1, <3>1 DEF TypedControl, TypeOK
    <2>7. QED
      BY <2>1, <2>2, <2>3, <2>4, <2>5, <2>6
  <1>2. CASE EndTask(w)
    <2>1. /\ UNCHANGED <<task_queue, offered, refused>>
          /\ finished' = finished \cup {task[w]}
          /\ task' = [task EXCEPT ![w] = None]
          /\ task[w] # None
          /\ task[w] \in Held
      BY <1>2 DEF EndTask, Goto, queueVars, submitVars, TypedControl, Control,
                  Held
    <2>2. UNCHANGED <<Elements(task_queue), InHand>>
      BY <2>1 DEF Elements, InHand
    <2>3. Held' = Held \ {task[w]}
      BY <2>1 DEF Held, TypedControl, TypeOK
    <2>4. \A u, v \in Workers : task'[u] = task'[v] /\ task'[u] # None => u = v
      BY <2>1 DEF TypedControl, TypeOK
    <2>5. QED
      BY <2>1, <2>2, <2>3, <2>4
  <1>3. CASE ~ Pop(w) /\ ~ EndTask(w)
    <2>1. UNCHANGED <<task_queue, task, offered, refused, finished>>
      BY <1>3 DEF WorkerStep, ServeStep, CheckStop, Timeout, Acquire, PopEmpty,
                  BeginTask, queueVars, submitVars
    <2>2. UNCHANGED <<Elements(task_queue), Held, InHand>>
      BY <2>1 DEF Elements, Held, InHand
    <2>3. QED
      BY <2>1, <2>2
  <1>4. QED
    BY <1>1, <1>2, <1>3

(* Places are disjoint in every reachable state. *)
LEMMA PlacesInvariant == Spec => []Places
  <1>1. Places /\ (StopStep \/ UNCHANGED vars) => Places'
    <2>1. StopStep \/ UNCHANGED vars =>
            UNCHANGED <<task_queue, task, offered, refused, finished>>
      BY DEF StopStep, StopAccepting, RequestStop, ReleaseAll, JoinAll,
             vars, queueVars, submitVars, workerVars
    <2>2. UNCHANGED <<task_queue, task, offered, refused, finished>> =>
            /\ UNCHANGED <<Elements(task_queue), Held, InHand>>
            /\ UNCHANGED <<task_queue, task, refused, finished>>
      BY DEF Elements, Held, InHand
    <2>3. QED
      BY <2>1, <2>2 DEF Places, ExactlyOnce
  <1>2. TypedControl /\ Places /\ [Next]_vars => Places'
    BY <1>1, PlacesSubmit, PlacesWorker DEF Next
  <1>3. QED
    BY <1>2, PlacesInit, TypedControlInvariant, PTL DEF Spec

(* No interleaving loses, duplicates or re-runs an accepted task, and a         *)
(* rejected task is never executed.                                            *)
THEOREM EachTaskOnce == Spec => []ExactlyOnce
  BY PlacesInvariant, PTL DEF Places

-----------------------------------------------------------------------------
(***************************************************************************)
(* The pool implements TaskPool: every step is a step of the abstract pool *)
(* under the mapping of WorkerPool, or leaves its variables alone.         *)
(***************************************************************************)

(* All that is used of the invariants.                                        *)
Inv == TypedControl /\ Places

(* While the mutex is free the abstract and the real queue are the same.      *)
LEMMA MappingFree ==
  ASSUME TypedControl, queue_mutex = None
  PROVE  Linearized = task_queue /\ Abstract!Known = Known
  <1>1. Linearized = task_queue /\ InHand = {}
    BY InHandIsOwners DEF Linearized
  <1>2. QED
    BY <1>1 DEF Abstract!Known, Known, Abstract!Elements, Elements

(* Initial states map to initial states. *)
LEMMA InitImplements == Init => Abstract!Init
  BY DEF Init, Abstract!Init, Linearized, Held

(* Steps of submit() are Accept, Refuse or stutters of TaskPool. *)
LEMMA SubmitImplements ==
  ASSUME Inv, NEW s \in Submitters, SubmitStep(s)
  PROVE  [Abstract!Next]_(Abstract!poolVars)
  <1> USE DEF Inv
  <1>1. ASSUME NEW t \in Tasks, SubmitRefused(s, t)
        PROVE  Abstract!Refuse(t)
    <2>1. /\ queue_mutex = None /\ queue_mutex' = None
          /\ UNCHANGED <<task_queue, task, accepting, stopper, finished>>
          /\ refused' = refused \cup {t}
          /\ ~accepting \/ Len(task_queue) >= MaxQueue
          /\ t \notin Known
      BY <1>1 DEF SubmitRefused, queueVars, workerVars, stopVars
    <2>2. /\ Linearized = task_queue /\ Linearized' = task_queue'
          /\ t \notin Abstract!Known
          /\ Held' = Held
      BY <2>1, MappingFree DEF Linearized, Held
    <2>3. QED
      BY <2>1, <2>2 DEF Abstract!Refuse
  <1>2. ASSUME NEW t \in Tasks, SubmitChecked(s, t)
        PROVE  Abstract!Accept(t)
    <2>1. /\ queue_mutex = None /\ queue_mutex' = s /\ s # None
          /\ UNCHANGED <<task_queue, task, accepting, stopper, finished,
                         refused>>
          /\ offered' = [offered EXCEPT ![s] = t]
          /\ accepting /\ Len(task_queue) < MaxQueue
          /\ t \notin Known
      BY <1>2, NoneAssumption
         DEF SubmitChecked, queueVars, workerVars, stopVars
    <2>2. /\ Linearized = task_queue
          /\ t \notin Abstract!Known
          /\ Held' = Held
      BY <2>1, MappingFree DEF Held
    <2>3. Linearized' = Append(task_queue, t)
      BY <2>1 DEF Linearized, TypedControl, TypeOK
    <2>4. QED
      BY <2>1, <2>2, <2>3 DEF Abstract!Accept
  <1>3. CASE SubmitPush(s)
    <2>1. /\ queue_mutex = s /\ queue_mutex' = None /\ s # None
          /\ UNCHANGED <<task, accepting, stopper, finished, refused>>
          /\ task_queue' = Append(task_queue, offered[s])
      BY <1>3, NoneAssumption
         DEF SubmitPush, workerVars, stopVars, TypedControl, Control
    <2>2. Linearized' = Linearized /\ Held' = Held
      BY <2>1 DEF Linearized, Held
    <2>3. QED
      BY <2>1, <2>2 DEF Abstract!poolVars
  <1>4. CASE SubmitRelease(s)
    BY <1>4 DEF SubmitRelease, queueVars, workerVars, stopVars,
                Abstract!poolVars, Linearized, Held
  <1>5. QED
    BY <1>1, <1>2, <1>3, <1>4 DEF SubmitStep, Abstract!Next

(* A worker without a task leaves room for one more: fewer tasks are held       *)
(* than there are workers.                                                      *)
LEMMA RoomToStart ==
  ASSUME TypedControl, NEW w \in Workers, task[w] = None
  PROVE  Cardinality(Held) < Cardinality(Workers)
  <1> DEFINE Busy == {v \in Workers : task[v] # None}
             f == [v \in Busy |-> task[v]]
  <1>1. /\ IsFiniteSet(Workers \ {w})
        /\ Cardinality(Workers \ {w}) = Cardinality(Workers) - 1
        /\ Cardinality(Workers) \in Nat
    BY WorkersAssumption, FS_RemoveElement, FS_CardinalityType
  <1>2. Busy \subseteq Workers \ {w}
    OBVIOUS
  <1>3. /\ IsFiniteSet(Busy)
        /\ Cardinality(Busy) <= Cardinality(Workers) - 1
        /\ Cardinality(Busy) \in Nat
    BY <1>1, <1>2, FS_Subset, FS_CardinalityType
  <1>4. f \in Surjection(Busy, Held)
    BY DEF Surjection, Held
  <1>5. IsFiniteSet(Held) /\ Cardinality(Held) <= Cardinality(Busy)
    BY <1>3, <1>4, FS_Surjection
  <1>6. Cardinality(Held) \in Nat
    BY <1>5, FS_CardinalityType
  <1>7. QED
    BY <1>1, <1>3, <1>5, <1>6

(* Steps of a worker are Start, Finish or stutters of TaskPool. *)
LEMMA WorkerImplements ==
  ASSUME Inv, NEW w \in Workers, WorkerStep(w)
  PROVE  [Abstract!Next]_(Abstract!poolVars)
  <1> USE DEF Inv
  <1>1. CASE Pop(w)
    <2>1. /\ queue_mutex = None /\ queue_mutex' = None
          /\ UNCHANGED <<accepting, stopper, finished, refused>>
          /\ worker[w] = "acquired"
          /\ task_queue # <<>>
          /\ task_queue' = Tail(task_queue)
          /\ task' = [task EXCEPT ![w] = Head(task_queue)]
      BY <1>1 DEF Pop, Goto, submitVars, stopVars
    <2>2. task[w] = None /\ stopper # "stopped"
      BY <2>1 DEF TypedControl, Control
    <2>3. Linearized = task_queue /\ Linearized' = task_queue'
      BY <2>1 DEF Linearized
    <2>4. Head(task_queue) \in Tasks
      BY <2>1, TailFacts DEF TypedControl, TypeOK
    <2>5. Held' = Held \cup {Head(task_queue)}
      <3>1. /\ task'[w] = Head(task_queue)
            /\ Head(task_queue) # None
            /\ \A v \in Workers : v # w => task'[v] = task[v]
        BY <2>1, <2>4, NoneAssumption DEF TypedControl, TypeOK
      <3>2. Held' \subseteq Held \cup {Head(task_queue)}
        BY <3>1 DEF Held
      <3>3. Held \cup {Head(task_queue)} \subseteq Held'
        BY <2>2, <3>1 DEF Held
      <3>4. QED
        BY <3>2, <3>3
    <2>6. Cardinality(Held) < Cardinality(Workers)
      BY <2>2, RoomToStart
    <2>7. Abstract!Start
      <3>1. /\ Linearized # <<>>
            /\ Linearized' = Tail(Linearized)
            /\ Held' = Held \cup {Head(Linearized)}
        BY <2>1, <2>3, <2>5
      <3>2. /\ ~ (stopper = "stopped")
            /\ UNCHANGED <<accepting, finished, refused, stopper>>
        BY <2>1, <2>2
      <3>3. Abstract!Cardinality(Held) = Cardinality(Held)
        BY Zenon DEF Abstract!Cardinality, Cardinality
      <3>4. QED
        BY <2>6, <3>1, <3>2, <3>3 DEF Abstract!Start
    <2>8. QED
      BY <2>7 DEF Abstract!Next
  <1>2. CASE EndTask(w)
    <2>1. /\ UNCHANGED <<task_queue, queue_mutex, offered, accepting, stopper,
                         refused>>
          /\ finished' = finished \cup {task[w]}
          /\ task' = [task EXCEPT ![w] = None]
          /\ task[w] # None
      BY <1>2 DEF EndTask, Goto, queueVars, submitVars, stopVars,
                  TypedControl, Control
    <2>2. task[w] \in Held /\ task[w] \in Tasks
      BY <2>1 DEF Held, TypedControl, TypeOK
    <2>3. Held' = Held \ {task[w]}
      BY <2>1 DEF Held, Places, ExactlyOnce, TypedControl, TypeOK
    <2>4. Linearized' = Linearized
      BY <2>1 DEF Linearized
    <2>5. Abstract!Finish(task[w])
      BY <2>1, <2>2, <2>3, <2>4 DEF Abstract!Finish
    <2>6. QED
      BY <2>2, <2>5 DEF Abstract!Next
  <1>3. CASE ~ Pop(w) /\ ~ EndTask(w)
    <2>1. UNCHANGED <<task_queue, queue_mutex, task, offered, accepting,
                      stopper, refused, finished>>
      BY <1>3 DEF WorkerStep, ServeStep, CheckStop, Timeout, Acquire, PopEmpty,
                  BeginTask, queueVars, submitVars, stopVars
    <2>2. QED
      BY <2>1 DEF Abstract!poolVars, Linearized, Held
  <1>4. QED
    BY <1>1, <1>2, <1>3

(* Steps of stop_all() are Close, Halt or stutters of TaskPool. *)
LEMMA StopImplements ==
  ASSUME Inv, StopStep
  PROVE  [Abstract!Next]_(Abstract!poolVars)
  <1> USE DEF Inv
  <1>0. UNCHANGED <<Linearized, Held, finished, refused>>
    BY DEF StopStep, StopAccepting, RequestStop, ReleaseAll, JoinAll,
           queueVars, submitVars, workerVars, Linearized, Held
  <1>1. CASE StopAccepting
    <2>1. Abstract!Close
      BY <1>0, <1>1 DEF StopAccepting, Abstract!Close, TypedControl, Control
    <2>2. QED
      BY <2>1 DEF Abstract!Next
  <1>2. ASSUME NEW w \in Workers, RequestStop(w)
        PROVE  UNCHANGED Abstract!poolVars
    BY <1>0, <1>2 DEF RequestStop, Abstract!poolVars
  <1>3. CASE ReleaseAll
    BY <1>0, <1>3 DEF ReleaseAll, Abstract!poolVars
  <1>4. CASE JoinAll
    <2>1. Held = {}
      BY <1>4 DEF JoinAll, Held, TypedControl, Control
    <2>2. Abstract!Halt
      BY <1>0, <1>4, <2>1 DEF JoinAll, Abstract!Halt, TypedControl, Control
    <2>3. QED
      BY <2>2 DEF Abstract!Next
  <1>5. QED
    BY <1>1, <1>2, <1>3, <1>4 DEF StopStep

(* What submit(), the worker threads and stop_all() do with a mutex, a          *)
(* semaphore and atomics is what a bounded FIFO with a door and a halt does.     *)
THEOREM PoolImplementsTaskPool == Spec => ImplementsTaskPool
  <1>1. Inv /\ [Next]_vars => [Abstract!Next]_(Abstract!poolVars)
    <2>1. UNCHANGED vars => UNCHANGED Abstract!poolVars
      BY DEF vars, queueVars, submitVars, workerVars, stopVars,
             Abstract!poolVars, Linearized, Held
    <2>2. QED
      BY <2>1, SubmitImplements, WorkerImplements, StopImplements DEF Next
  <1>2. QED
    BY <1>1, InitImplements, TypedControlInvariant, PlacesInvariant, PTL
       DEF Spec, ImplementsTaskPool, Abstract!Spec, Inv

=============================================================================
