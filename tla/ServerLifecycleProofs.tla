------------------------ MODULE ServerLifecycleProofs ------------------------
(***************************************************************************)
(* What ServerLifecycle promises, for any environments, command lines and  *)
(* machines and any number of signals.                                     *)
(***************************************************************************)
EXTENDS ServerLifecycle, TLAPS

(* What the tuning makes of a count that is not given is positive, and the *)
(* threads it asks for altogether are there.                               *)
LEMMA QuotientFits ==
  ASSUME NEW h \in Nat, NEW t \in Nat \ {0}, NEW w \in Nat, w <= h \div t
  PROVE  w * t <= h
<1>1. t * (h \div t) <= h
  OBVIOUS
<1>2. w * t <= (h \div t) * t
  OBVIOUS
<1> QED
  BY <1>1, <1>2

(* A configuration that is not refused has numbers where it needs them. *)
LEMMA MergedNumbers ==
  ASSUME NEW e \in Environments, NEW o \in CommandLines, ~Refused(e, o)
  PROVE  /\ \A s \in Numbers : Merged(e, o)[s] \in Int
         /\ Merged(e, o).worker_count >= 0
         /\ Merged(e, o).inference_threads >= 0
         /\ Merged(e, o).queue_capacity >= 0
<1>1. Numbers \subseteq Settings
  BY DEF Numbers, Settings, Defaults
<1>2. \A s \in Numbers : Defaults[s] \in Int
  BY DEF Numbers, Defaults
<1>3. \A s \in Numbers : e[s] \in Int \cup {Unset} /\ o[s] \in Int \cup {Unset}
  <2>1. \A s \in Numbers : /\ e[s] \in Int \cup {Unset, Malformed}
                           /\ o[s] \in Int \cup {Unset, Malformed}
    BY LifecycleAssumption
  <2>2. \A s \in Numbers : e[s] # Malformed
    BY DEF Refused, EnvironmentRefused
  <2>3. \A s \in Numbers : o[s] # Malformed
    <3>1. ~OptionsRefused(o)
      BY DEF Refused
    <3>2. \A s \in Settings : o[s] # Malformed
      BY <3>1 DEF OptionsRefused
    <3> QED
      BY <1>1, <3>2
  <2> QED
    BY <2>1, <2>2, <2>3
<1>4. \A s \in Numbers :
        Overlay(Overlay(Defaults, e), o)[s]
          = IF o[s] = Unset THEN IF e[s] = Unset THEN Defaults[s] ELSE e[s] ELSE o[s]
  BY <1>1 DEF Overlay
<1>5. \A s \in Numbers : Merged(e, o)[s] = Overlay(Overlay(Defaults, e), o)[s]
  <2>1. \A s \in Numbers : s # "model_version"
    BY DEF Numbers
  <2> QED
    BY <1>1, <2>1 DEF Merged, Overlay
<1>6. \A s \in Numbers : Merged(e, o)[s] \in Int
  BY <1>2, <1>3, <1>4, <1>5
<1>7. ~MergedRefused(Merged(e, o))
  BY DEF Refused
<1>8. {"worker_count", "inference_threads", "queue_capacity"} \subseteq Numbers
  BY DEF Numbers
<1> QED
  BY <1>6, <1>7, <1>8 DEF MergedRefused

(* The tuning leaves no zero behind. *)
LEMMA TunedNumbers ==
  ASSUME NEW c, NEW h \in Nat \ {0},
         c = [s \in Settings |-> c[s]],
         \A s \in Numbers : c[s] \in Int,
         c.worker_count >= 0, c.inference_threads >= 0, c.queue_capacity >= 0
  PROVE  LET t == Tuned(c, h)
         IN  /\ t.worker_count \in Nat \ {0}
             /\ t.inference_threads \in Nat \ {0}
             /\ t.queue_capacity \in Nat \ {0}
             /\ c.worker_count = 0 /\ ~c.use_gpu /\ t.worker_count > 1
                  => t.worker_count * t.inference_threads <= h
<1> DEFINE each == AutoThreads(c, h)
           crew == AutoWorkers(c, h)
<1>1. /\ c.worker_count \in Nat /\ c.inference_threads \in Nat
      /\ c.queue_capacity \in Nat
  BY DEF Numbers
<1>2. each \in Nat \ {0}
  BY <1>1 DEF AutoThreads, Smaller
<1>3. h \div each \in Nat
  BY <1>2
<1>4. crew \in Nat \ {0}
  BY <1>1, <1>3 DEF AutoWorkers, Smaller, Larger
<1>5. c.worker_count = 0 /\ ~c.use_gpu /\ crew > 1 => crew <= h \div each
  BY <1>1, <1>3 DEF AutoWorkers, Smaller, Larger
<1>6. c.worker_count = 0 /\ ~c.use_gpu /\ crew > 1 => crew * each <= h
  BY <1>2, <1>4, <1>5, QuotientFits
<1>7. {"worker_count", "inference_threads", "queue_capacity"} \subseteq Settings
  BY DEF Settings, Defaults
<1>8. /\ Tuned(c, h).worker_count = crew
      /\ Tuned(c, h).inference_threads = each
      /\ Tuned(c, h).queue_capacity
           = IF c.queue_capacity > 0 THEN c.queue_capacity ELSE Larger(16, crew * 4)
  BY <1>7 DEF Tuned
<1>9. Tuned(c, h).queue_capacity \in Nat \ {0}
  BY <1>1, <1>4, <1>8 DEF Larger
<1> QED
  BY <1>2, <1>4, <1>6, <1>8, <1>9

(* Who is configured has a worker, a thread and a queue. *)
Fits(c, e, o, m) ==
  /\ c.worker_count \in Nat \ {0}
  /\ c.inference_threads \in Nat \ {0}
  /\ c.queue_capacity \in Nat \ {0}
  /\ Merged(e, o).worker_count = 0 /\ ~Merged(e, o).use_gpu /\ c.worker_count > 1
       => c.worker_count * c.inference_threads <= m.threads

(* Every configuration that parse_server_config() returns fits. *)
LEMMA ConfigurationFits ==
  ASSUME NEW e \in Environments, NEW o \in CommandLines, NEW m \in Machines,
         ~Refused(e, o)
  PROVE  Fits(ServerConfig(e, o, m), e, o, m)
<1> DEFINE c == Merged(e, o)
           t == Tuned(c, m.threads)
<1>1. c = [s \in Settings |-> c[s]]
  BY DEF Merged, Overlay
<1>2. m.threads \in Nat \ {0}
  BY LifecycleAssumption
<1>3. Fits(t, e, o, m)
  BY <1>1, <1>2, MergedNumbers, TunedNumbers DEF Fits
<1>4. {"worker_count", "inference_threads", "queue_capacity"} \subseteq Settings \ {"use_gpu"}
  BY DEF Settings, Defaults
<1>5. t = [s \in Settings |-> t[s]]
  BY <1>1 DEF Tuned
<1>6. \A s \in Settings \ {"use_gpu"} : ServerConfig(e, o, m)[s] = t[s]
  BY <1>5 DEF ServerConfig, Inspected
<1> QED
  BY <1>3, <1>4, <1>6 DEF Fits

-----------------------------------------------------------------------------
(* Types *)

(* Who is past the configuration has one that fits. *)
Configured ==
  /\ given \in [env : Environments, opt : CommandLines, machine : Machines]
  /\ main = "start" => config = Unset
  /\ config # Unset \/ main \notin {"start", "exited"} =>
       Fits(config, given.env, given.opt, given.machine)

(* Nobody gets past the configuration without one that fits. *)
LEMMA ConfiguredStays ==
  ASSUME Configured, [Next]_vars
  PROVE  Configured'
<1>1. CASE Configure
  <2>1. CASE Refused(given.env, given.opt)
    BY <1>1, <2>1 DEF Configure, Configured
  <2>2. CASE ~Refused(given.env, given.opt)
    <3>1. /\ given' = given
          /\ config' = ServerConfig(given.env, given.opt, given.machine)
          /\ main' = "ready"
      BY <1>1, <2>2 DEF Configure
    <3>2. Fits(config', given.env, given.opt, given.machine)
      BY <2>2, <3>1, ConfigurationFits DEF Configured
    <3> QED
      BY <3>1, <3>2 DEF Configured
  <2> QED
    BY <2>1, <2>2
<1>2. CASE UNCHANGED <<given, config, main>>
  BY <1>2 DEF Configured
<1>3. CASE UNCHANGED <<given, config>> /\ main # "start" /\ main # "exited" /\ main' # "start"
  BY <1>3 DEF Configured
<1>4. CASE RunStep /\ ~Configure
  BY <1>3, <1>4 DEF RunStep, BeginRun, AllocatePool, CheckModel, FetchManifest, TryFallback,
     DownloadModel, LoadWorker, StartPool, StartTcp, EnterLoop, LeaveLoop, Goto, At, startVars
<1>5. CASE StartupFails \/ LoopThrows
  BY <1>3, <1>5 DEF StartupFails, LoopThrows, At, startVars
<1>6. CASE StopStep
  BY <1>2, <1>6 DEF StopStep, QuitHttp, StopTcp, StopPool, StopLogCleanup, startVars
<1>7. CASE ExitStep
  BY <1>3, <1>7 DEF ExitStep, StopAfterThrow, ClearTarget, Destructor, Exit, Goto, At, startVars
<1>8. CASE Signal \/ UNCHANGED vars
  BY <1>2, <1>8 DEF Signal, startVars, vars
<1> QED
  BY <1>1, <1>4, <1>5, <1>6, <1>7, <1>8 DEF Next

(* Every configuration in use has a worker, a thread and a queue, whatever   *)
(* the environment, the command line and the machine say (parse_server_      *)
(* config, resolve_auto_tuning).                                             *)
THEOREM TuningFits == Spec => []AutoTuningFits
<1>1. Init => Configured
  BY DEF Init, Configured
<1>2. Configured /\ [Next]_vars => Configured'
  BY ConfiguredStays
<1>3. Configured => AutoTuningFits
  BY DEF Configured, AutoTuningFits, Fits
<1> QED
  BY <1>1, <1>2, <1>3, PTL DEF Spec

(* The pool has as many loaded models as workers. *)
Loading ==
  /\ loaded \in Nat
  /\ config # Unset => loaded <= config.worker_count
  /\ loaded > 0 => model = "loadable"
  /\ main \in {"start", "ready", "begun", "checking model", "primary source",
               "fallback source", "downloading"} => loaded = 0
  /\ main \in {"pool started", "tcp started", "in loop"} => loaded = config.worker_count

(* Every step loads at most one model for each worker. *)
LEMMA LoadingStays ==
  ASSUME Configured, Loading, [Next]_vars
  PROVE  Loading'
<1>1. CASE Configure
  <2>1. Configured'
    BY ConfiguredStays
  <2>2. loaded' = 0 /\ main' \in {"ready", "exited"}
    BY <1>1 DEF Configure, Loading, poolVars
  <2>3. config' # Unset => config'.worker_count \in Nat
    BY <2>1 DEF Configured, Fits
  <2>4. loaded' \in Nat
    BY <2>2
  <2>5. config' # Unset => loaded' <= config'.worker_count
    BY <2>2, <2>3
  <2>6. ~(loaded' > 0)
    BY <2>2
  <2>7. main' \notin {"pool started", "tcp started", "in loop"}
    BY <2>2
  <2> QED
    BY <2>2, <2>4, <2>5, <2>6, <2>7 DEF Loading
<1>2. CASE BeginRun \/ AllocatePool \/ CheckModel \/ FetchManifest \/ TryFallback
  BY <1>2 DEF BeginRun, AllocatePool, CheckModel, FetchManifest, TryFallback, Goto, At,
     Loading, startVars, poolVars
<1>3. CASE DownloadModel \/ StartupFails
  <2>1. CASE main = "downloading"
    <3>1. UNCHANGED <<loaded, config>> /\ main' \in {"loading", "returned"}
      BY <1>3, <2>1 DEF DownloadModel, StartupFails, Goto, poolVars
    <3>2. loaded = 0
      BY <2>1 DEF Loading
    <3>3. ~(loaded > 0)
      BY <3>2
    <3> QED
      BY <3>1, <3>2, <3>3 DEF Loading
  <2>2. CASE main # "downloading"
    <3>1. UNCHANGED <<loaded, model, config>> /\ main' = "returned"
      BY <1>3, <2>2 DEF DownloadModel, StartupFails, Goto, At, poolVars
    <3> QED
      BY <3>1 DEF Loading
  <2> QED
    BY <2>1, <2>2
<1>4. CASE LoadWorker
  <2>1. config.worker_count \in Nat
    BY <1>4 DEF LoadWorker, At, Configured, Fits
  <2> QED
    BY <1>4, <2>1 DEF LoadWorker, At, Loading, startVars
<1>5. CASE StartPool
  BY <1>5 DEF StartPool, Goto, At, Loading, startVars
<1>6. CASE StartTcp \/ EnterLoop \/ LeaveLoop \/ LoopThrows
  BY <1>6 DEF StartTcp, EnterLoop, LeaveLoop, LoopThrows, Goto, At, Loading, startVars,
     poolVars
<1>7. CASE StopStep
  BY <1>7 DEF StopStep, QuitHttp, StopTcp, StopPool, StopLogCleanup, Loading, startVars,
     poolVars
<1>8. CASE ExitStep
  BY <1>8 DEF ExitStep, StopAfterThrow, ClearTarget, Destructor, Exit, Goto, At, Loading,
     startVars, poolVars
<1>9. CASE Signal \/ UNCHANGED vars
  BY <1>9 DEF Signal, Loading, startVars, poolVars, vars
<1> QED
  BY <1>1, <1>2, <1>3, <1>4, <1>5, <1>6, <1>7, <1>8, <1>9 DEF Next, RunStep

-----------------------------------------------------------------------------
(* Start and stop *)

(* HTTP is served from within the loop only, the pool is up from its start   *)
(* to stop(), and stop() takes TCP down before the pool.                     *)
Standing ==
  /\ http # "idle" => main = "in loop"
  /\ frame # "none" => stopping
  /\ main \in {"pool started", "tcp started", "in loop"} /\ ~stopping =>
       accepting /\ workers = "running"
  /\ ~early /\ stopping =>
       main \in {"in loop", "catching", "returned", "cleared", "destroying", "exited"}
  /\ frame \in {"pool", "log"} => tcp # "running"
  /\ tcp = "running" /\ ~early => workers = "running" /\ accepting

(* Every step keeps up what has to be up. *)
LEMMA StandingStays ==
  ASSUME Standing, [Next]_vars
  PROVE  Standing'
<1>1. CASE Configure
  BY <1>1 DEF Configure, Standing, stopVars, poolVars
<1>2. CASE BeginRun
  BY <1>2 DEF BeginRun, Goto, At, Standing, poolVars
<1>3. CASE AllocatePool
  BY <1>3 DEF AllocatePool, Goto, At, Standing, stopVars
<1>4. CASE CheckModel \/ FetchManifest \/ TryFallback \/ DownloadModel
  <2>1. /\ main \in {"checking model", "primary source", "fallback source", "downloading"}
        /\ main' \in {"loading", "primary source", "fallback source", "downloading"}
        /\ UNCHANGED <<stopVars, poolVars, tcp, http, early>>
    BY <1>4 DEF CheckModel, FetchManifest, TryFallback, DownloadModel, Goto, At
  <2> QED
    BY <2>1 DEF Standing, stopVars, poolVars
<1>5. CASE StartupFails
  BY <1>5 DEF StartupFails, At, Standing, stopVars, poolVars
<1>6. CASE LoadWorker
  BY <1>6 DEF LoadWorker, Standing, stopVars
<1>7. CASE StartPool
  BY <1>7 DEF StartPool, Goto, At, Standing, stopVars
<1>8. CASE StartTcp
  BY <1>8 DEF StartTcp, Goto, At, Standing, stopVars, poolVars
<1>9. CASE EnterLoop
  BY <1>9 DEF EnterLoop, Goto, At, Standing, stopVars, poolVars
<1>10. CASE LeaveLoop
  BY <1>10 DEF LeaveLoop, Goto, At, Standing, stopVars, poolVars
<1>11. CASE LoopThrows
  BY <1>11 DEF LoopThrows, At, Standing, stopVars, poolVars
<1>12. CASE QuitHttp
  BY <1>12 DEF QuitHttp, Standing, startVars, poolVars
<1>13. CASE StopTcp
  BY <1>13 DEF StopTcp, Standing, startVars, poolVars
<1>14. CASE StopPool
  BY <1>14 DEF StopPool, Standing, startVars
<1>15. CASE StopLogCleanup
  BY <1>15 DEF StopLogCleanup, Standing, startVars, poolVars
<1>16. CASE StopAfterThrow
  BY <1>16 DEF StopAfterThrow, Stop, Goto, At, Standing, poolVars
<1>17. CASE ClearTarget \/ Exit
  BY <1>17 DEF ClearTarget, Exit, Goto, At, Standing, stopVars, poolVars
<1>18. CASE Destructor
  BY <1>18 DEF Destructor, Stop, Goto, At, Standing, poolVars
<1>19. CASE Signal
  BY <1>19 DEF Signal, Stop, Standing, poolVars
<1>20. CASE UNCHANGED vars
  BY <1>20 DEF Standing, vars, stopVars, poolVars
<1> QED
  BY <1>1, <1>2, <1>3, <1>4, <1>5, <1>6, <1>7, <1>8, <1>9, <1>10, <1>11, <1>12, <1>13,
     <1>14, <1>15, <1>16, <1>17, <1>18, <1>19, <1>20
     DEF Next, RunStep, StopStep, ExitStep

(* How far stop() has come, and what the process has given up when it ends.  *)
(* A signal during the start spoils it: stop() is not run twice.             *)
TornDown ==
  /\ ~early /\ stopping =>
       /\ frame # "quit" => http # "serving"
       /\ frame \notin {"quit", "tcp"} => tcp # "running"
       /\ frame \notin {"quit", "tcp", "pool"} => workers # "running" /\ ~accepting
       /\ frame = "none" => log_cleanup # "running"
  /\ main = "start" => Live = {} /\ ~accepting /\ ~stopping /\ frame = "none"
  /\ main = "destroying" => stopping
  /\ main = "exited" => frame = "none" /\ (~early => Live = {} /\ ~accepting)

(* Nothing is alive exactly when none of the three parts runs. *)
LEMMA LiveIsEmpty ==
  Live = {} <=> workers # "running" /\ tcp # "running" /\ log_cleanup # "running"
  BY DEF Live

(* What stop() has taken down stays down. *)
LEMMA TornDownStays ==
  ASSUME Standing, TornDown, [Next]_vars
  PROVE  TornDown'
<1>1. CASE Configure
  <2>1. /\ main = "start" /\ main' \in {"ready", "exited"}
        /\ UNCHANGED <<stopVars, poolVars, tcp, log_cleanup>>
    BY <1>1 DEF Configure
  <2> QED
    BY <2>1 DEF TornDown, Live, stopVars, poolVars
<1>2. CASE BeginRun
  BY <1>2 DEF BeginRun, Goto, At, TornDown, poolVars
<1>3. CASE AllocatePool
  BY <1>3 DEF AllocatePool, Goto, At, Standing, TornDown, stopVars
<1>4. CASE CheckModel \/ FetchManifest \/ TryFallback \/ DownloadModel
  <2>1. /\ main' \in {"loading", "primary source", "fallback source", "downloading"}
        /\ UNCHANGED <<stopVars, poolVars, tcp, http, log_cleanup, early>>
    BY <1>4 DEF CheckModel, FetchManifest, TryFallback, DownloadModel, Goto, At
  <2> QED
    BY <2>1 DEF TornDown, stopVars, poolVars
<1>5. CASE StartupFails
  BY <1>5 DEF StartupFails, At, TornDown, stopVars, poolVars
<1>6. CASE LoadWorker
  BY <1>6 DEF LoadWorker, At, TornDown, stopVars
<1>7. CASE StartPool
  BY <1>7 DEF StartPool, Goto, At, Standing, TornDown, stopVars
<1>8. CASE StartTcp
  BY <1>8 DEF StartTcp, Goto, At, Standing, TornDown, stopVars, poolVars
<1>9. CASE EnterLoop
  BY <1>9 DEF EnterLoop, Goto, At, Standing, TornDown, stopVars, poolVars
<1>10. CASE LeaveLoop
  BY <1>10 DEF LeaveLoop, Goto, At, TornDown, stopVars, poolVars
<1>11. CASE LoopThrows
  BY <1>11 DEF LoopThrows, At, TornDown, stopVars, poolVars
<1>12. CASE QuitHttp
  BY <1>12 DEF QuitHttp, TornDown, startVars, poolVars
<1>13. CASE StopTcp
  BY <1>13 DEF StopTcp, TornDown, startVars, poolVars
<1>14. CASE StopPool
  BY <1>14 DEF StopPool, TornDown, startVars
<1>15. CASE StopLogCleanup
  BY <1>15 DEF StopLogCleanup, TornDown, startVars, poolVars
<1>16. CASE StopAfterThrow
  BY <1>16 DEF StopAfterThrow, Stop, Goto, At, TornDown, poolVars
<1>17. CASE ClearTarget \/ Exit
  BY <1>17 DEF ClearTarget, Exit, Goto, At, TornDown, Live, stopVars, poolVars
<1>18. CASE Destructor
  BY <1>18 DEF Destructor, Stop, Goto, At, TornDown, poolVars
<1>19. CASE Signal
  BY <1>19 DEF Signal, Stop, Standing, TornDown, poolVars
<1>20. CASE UNCHANGED vars
  BY <1>20 DEF TornDown, Live, vars, stopVars, poolVars
<1> QED
  BY <1>1, <1>2, <1>3, <1>4, <1>5, <1>6, <1>7, <1>8, <1>9, <1>10, <1>11, <1>12, <1>13,
     <1>14, <1>15, <1>16, <1>17, <1>18, <1>19, <1>20
     DEF Next, RunStep, StopStep, ExitStep

LifecycleInv == Configured /\ Loading /\ Standing /\ TornDown

(* The four parts hold in every state: what each place of main() and of      *)
(* stop() implies for the threads of the process.                            *)
THEOREM LifecycleInvariant == Spec => []LifecycleInv
<1>1. Init => LifecycleInv
  <2> SUFFICES ASSUME Init PROVE LifecycleInv
    OBVIOUS
  <2>1. Configured
    BY DEF Init, Configured
  <2>2. Loading
    BY DEF Init, Loading
  <2>3. Standing
    BY DEF Init, Standing
  <2>4. TornDown
    BY LiveIsEmpty DEF Init, TornDown
  <2> QED
    BY <2>1, <2>2, <2>3, <2>4 DEF LifecycleInv
<1>2. LifecycleInv /\ [Next]_vars => LifecycleInv'
  BY ConfiguredStays, LoadingStays, StandingStays, TornDownStays DEF LifecycleInv
<1> QED
  BY <1>1, <1>2, PTL DEF Spec

(* HTTP is answered only with every model loaded and a pool that accepts     *)
(* work, and TCP never outlives the pool, whatever fails in the start and    *)
(* whenever signals come (OcrServer::run, OcrServer::stop).                  *)
THEOREM ServedOnlyWhenReady == Spec => []ServesWhenReady
<1>1. LifecycleInv => ServesWhenReady
  <2> SUFFICES ASSUME LifecycleInv PROVE ServesWhenReady
    OBVIOUS
  <2>1. ASSUME http # "idle"
        PROVE  /\ loaded = config.worker_count /\ model = "loadable"
               /\ ~stopping => accepting /\ workers = "running"
    <3>1. main = "in loop"
      BY <2>1 DEF LifecycleInv, Standing
    <3>2. config.worker_count \in Nat \ {0}
      BY <3>1 DEF LifecycleInv, Configured, Fits
    <3>3. loaded = config.worker_count
      BY <3>1 DEF LifecycleInv, Loading
    <3>4. loaded > 0
      BY <3>2, <3>3
    <3>5. model = "loadable"
      BY <3>4 DEF LifecycleInv, Loading
    <3> QED
      BY <3>1, <3>3, <3>5 DEF LifecycleInv, Standing
  <2>2. tcp = "running" /\ ~early => workers = "running" /\ accepting
    BY DEF LifecycleInv, Standing
  <2> QED
    BY <2>1, <2>2 DEF ServesWhenReady
<1> QED
  BY <1>1, LifecycleInvariant, PTL

(* A stop() that no signal of the start has spent leaves no thread, and the  *)
(* process ends only after one (OcrServer::stop, OcrServer::~OcrServer).     *)
THEOREM NothingIsLeft == Spec => []NothingOutlivesServer
<1>1. LifecycleInv => NothingOutlivesServer
  BY LiveIsEmpty DEF LifecycleInv, TornDown, NothingOutlivesServer
<1> QED
  BY <1>1, LifecycleInvariant, PTL

(* Every step keeps the places in their types. *)
LEMMA PlacesStay ==
  ASSUME PlacesTyped, [Next]_vars
  PROVE  PlacesTyped'
<1>1. CASE RunStep
  BY <1>1 DEF RunStep, Configure, BeginRun, AllocatePool, CheckModel, FetchManifest, TryFallback,
     DownloadModel, LoadWorker, StartPool, StartTcp, EnterLoop, LeaveLoop, Goto, At,
     PlacesTyped, startVars, stopVars, poolVars
<1>2. CASE StartupFails \/ LoopThrows
  BY <1>2 DEF StartupFails, LoopThrows, PlacesTyped, startVars, stopVars, poolVars
<1>3. CASE StopStep
  BY <1>3 DEF StopStep, QuitHttp, StopTcp, StopPool, StopLogCleanup, PlacesTyped,
     startVars, poolVars
<1>4. CASE ExitStep
  BY <1>4 DEF ExitStep, StopAfterThrow, ClearTarget, Destructor, Exit, Stop, Goto, At,
     PlacesTyped, startVars, stopVars, poolVars
<1>5. CASE Signal \/ UNCHANGED vars
  BY <1>5 DEF Signal, Stop, PlacesTyped, vars, startVars, stopVars, poolVars
<1> QED
  BY <1>1, <1>2, <1>3, <1>4, <1>5 DEF Next

(* Every step keeps the flags truth values. *)
LEMMA FlagsStay ==
  ASSUME FlagsTyped, [Next]_vars
  PROVE  FlagsTyped'
<1>1. CASE RunStep
  BY <1>1 DEF RunStep, Configure, BeginRun, AllocatePool, CheckModel, FetchManifest, TryFallback,
     DownloadModel, LoadWorker, StartPool, StartTcp, EnterLoop, LeaveLoop, Goto, At,
     FlagsTyped, startVars, stopVars, poolVars
<1>2. CASE StartupFails \/ LoopThrows
  BY <1>2 DEF StartupFails, LoopThrows, FlagsTyped, startVars, stopVars, poolVars
<1>3. CASE StopStep
  BY <1>3 DEF StopStep, QuitHttp, StopTcp, StopPool, StopLogCleanup, FlagsTyped,
     startVars, poolVars
<1>4. CASE ExitStep
  BY <1>4 DEF ExitStep, StopAfterThrow, ClearTarget, Destructor, Exit, Stop, Goto, At,
     FlagsTyped, startVars, stopVars, poolVars
<1>5. CASE Signal \/ UNCHANGED vars
  BY <1>5 DEF Signal, Stop, FlagsTyped, vars, startVars, stopVars, poolVars
<1> QED
  BY <1>1, <1>2, <1>3, <1>4, <1>5 DEF Next

(* Every step keeps the counts natural. *)
LEMMA CountsStay ==
  ASSUME CountsTyped, LifecycleInv', [Next]_vars
  PROVE  CountsTyped'
<1>1. config' # Unset => loaded' \in 0..config'.worker_count
  <2>1. config' # Unset => config'.worker_count \in Nat
    BY DEF LifecycleInv, Configured, Fits
  <2>2. loaded' \in Nat /\ (config' # Unset => loaded' <= config'.worker_count)
    BY DEF LifecycleInv, Loading
  <2> QED
    BY <2>1, <2>2
<1>2. code' \in {code, -1, 1}
  BY DEF Next, RunStep, Configure, BeginRun, AllocatePool, CheckModel, FetchManifest, TryFallback,
     DownloadModel, LoadWorker, StartPool, StartTcp, EnterLoop, LeaveLoop,
     StartupFails, LoopThrows, StopStep, QuitHttp, StopTcp, StopPool, StopLogCleanup,
     ExitStep, StopAfterThrow, ClearTarget, Destructor, Exit, Signal, vars
<1>3. signals' = signals \/ (signals < MaxSignals /\ signals' = signals + 1)
  BY DEF Next, RunStep, Configure, BeginRun, AllocatePool, CheckModel, FetchManifest, TryFallback,
     DownloadModel, LoadWorker, StartPool, StartTcp, EnterLoop, LeaveLoop,
     StartupFails, LoopThrows, StopStep, QuitHttp, StopTcp, StopPool, StopLogCleanup,
     ExitStep, StopAfterThrow, ClearTarget, Destructor, Exit, Signal, vars
<1>4. MaxSignals \in Nat
  BY LifecycleAssumption
<1>5. signals' \in 0..MaxSignals
  BY <1>3, <1>4 DEF CountsTyped
<1>6. code' \in {0, -1, 1}
  BY <1>2 DEF CountsTyped
<1> QED
  BY <1>1, <1>5, <1>6 DEF CountsTyped

(* Every variable keeps its type. *)
THEOREM LifecycleTypeCorrect == Spec => []TypeOK
<1>1. Init => TypeOK
  <2> SUFFICES ASSUME Init PROVE TypeOK
    OBVIOUS
  <2>1. MaxSignals \in Nat
    BY LifecycleAssumption
  <2>2. PlacesTyped
    BY DEF Init, PlacesTyped
  <2>3. FlagsTyped
    BY DEF Init, FlagsTyped
  <2>4. CountsTyped
    BY <2>1 DEF Init, CountsTyped
  <2> QED
    BY <2>2, <2>3, <2>4 DEF TypeOK
<1>2. TypeOK /\ LifecycleInv' /\ [Next]_vars => TypeOK'
  BY PlacesStay, FlagsStay, CountsStay DEF TypeOK
<1> QED
  BY <1>1, <1>2, LifecycleInvariant, PTL DEF Spec
==============================================================================
