-------------------------- MODULE ServerLifecycle --------------------------
(***************************************************************************)
(* The life of the server process: main() from the configuration on,       *)
(* OcrServer::run() from the model check and the automatic download to the *)
(* drogon loop, OcrServer::stop() from its three callers, and              *)
(* SIGINT/SIGTERM, whose handler calls stop() on the main thread, wherever *)
(* that thread happens to be.  ModelDownload and CasOcr say what a         *)
(* download leaves and what a load finds; here a model is absent, there    *)
(* but of no use to the engine, or loadable.                               *)
(*                                                                         *)
(* The main thread and the handler that interrupts it are one thread:      *)
(* while stop() has a frame, run() does not move.  WorkerPool says how     *)
(* stop_all() behaves; here it is one step.                                *)
(***************************************************************************)
EXTENDS ServerConfig

CONSTANTS
  Environments, \* the environments a server may be started in
  CommandLines, \* and its command lines
  Machines,     \* the machines: [threads, vulkan]
  MaxSignals    \* bound: signals sent to the process

ASSUME LifecycleAssumption ==
  /\ \A e \in Environments \cup CommandLines, s \in Numbers :
       e[s] \in Int \cup {Unset, Malformed}
  /\ \A m \in Machines : m.threads \in Nat \ {0} /\ m.vulkan \in BOOLEAN
  /\ MaxSignals \in Nat

VARIABLES
  given,       \* the environment, the command line and the machine
  config,      \* the configuration, Unset before it is known
  model,       \* what is in the model directory for this configuration
  main,        \* where main() is, most of it inside run()
  frame,       \* the next thing stop() does, or "none"
  caller,      \* who called the stop() in progress
  running, stopping,          \* atomics of OcrServer::Impl
  g_server,    \* the handler's target is set
  loaded,      \* workers whose model is loaded
  accepting,   \* pool->accepting
  workers,     \* the worker threads
  tcp,         \* the TCP server and its loop thread
  http,        \* the drogon application loop
  log_cleanup, \* the log cleanup thread
  code,        \* the return code of run()
  signals,     \* bound: signals sent so far
  early        \* history: a signal was handled before the loop ran

stopVars == <<frame, caller, running, stopping>>
poolVars == <<loaded, accepting, workers>>
startVars == <<given, config, model>>
vars == <<startVars, main, stopVars, g_server, poolVars, tcp, http, log_cleanup, code,
          signals, early>>

Init ==
  /\ given \in [env : Environments, opt : CommandLines, machine : Machines]
  /\ config = Unset
  /\ model \in {"absent", "unusable", "loadable"}
  /\ main = "start"
  /\ frame = "none"
  /\ caller = "none"
  /\ running = FALSE
  /\ stopping = FALSE
  /\ g_server = FALSE
  /\ loaded = 0
  /\ accepting = FALSE
  /\ workers = "none"
  /\ tcp = "none"
  /\ http = "idle"
  /\ log_cleanup = "none"
  /\ code = 0
  /\ signals = 0
  /\ early = FALSE

-----------------------------------------------------------------------------
(* main() up to run() *)

(* The process ends with 1, or has a configuration, a server and handlers. *)
Configure ==
  /\ main = "start"
  /\ IF Refused(given.env, given.opt)
     THEN /\ main' = "exited"
          /\ code' = 1
          /\ UNCHANGED <<config, g_server>>
     ELSE /\ main' = "ready"
          /\ config' = ServerConfig(given.env, given.opt, given.machine)
          /\ g_server' = TRUE
          /\ UNCHANGED code
  /\ UNCHANGED <<given, model, stopVars, poolVars, tcp, http, log_cleanup,
                 signals, early>>

(* run() *)

At(from) == main = from /\ frame = "none"
Goto(from, to) == At(from) /\ main' = to

BeginRun ==
  /\ Goto("ready", "begun")
  /\ running' = TRUE
  /\ stopping' = FALSE
  /\ UNCHANGED <<startVars, frame, caller, g_server, poolVars, tcp, http, log_cleanup,
                 code, signals, early>>

(* The pool is allocated, accepting by default, without workers. *)
AllocatePool ==
  /\ Goto("begun", IF config.model_version = "V2" THEN "checking model" ELSE "loading")
  /\ accepting' = TRUE
  /\ log_cleanup' = IF config.log_cleanup_interval_secs > 0
                       /\ config.log_retention_days > 0
                    THEN "running" ELSE "none"
  /\ UNCHANGED <<startVars, stopVars, g_server, loaded, workers, tcp, http, code,
                 signals, early>>

(* A V2 model is loaded to see whether it is there. *)
CheckModel ==
  /\ Goto("checking model", IF model = "loadable" THEN "loading" ELSE "primary source")
  /\ UNCHANGED <<startVars, stopVars, g_server, poolVars, tcp, http, log_cleanup,
                 code, signals, early>>

(* fetchLatestV2Tag() always has a tag; its manifest is asked from          *)
(* model_source and then from the other source.                             *)
FetchManifest ==
  /\ \E source \in {"primary source", "fallback source"} : Goto(source, "downloading")
  /\ UNCHANGED <<startVars, stopVars, g_server, poolVars, tcp, http, log_cleanup,
                 code, signals, early>>

TryFallback ==
  /\ Goto("primary source", "fallback source")
  /\ UNCHANGED <<startVars, stopVars, g_server, poolVars, tcp, http, log_cleanup,
                 code, signals, early>>

(* The first model of the manifest arrives whole.  It need not be the one   *)
(* the engine reads, and something in v2/ may hide it.                      *)
DownloadModel ==
  /\ Goto("downloading", "loading")
  /\ model' \in {"unusable", "loadable"}
  /\ UNCHANGED <<given, config, stopVars, g_server, poolVars, tcp, http, log_cleanup,
                 code, signals, early>>

(* No manifest, an empty one, a download that fails and leaves less than    *)
(* there was, a worker that cannot load: return -1.                         *)
StartupFails ==
  /\ \/ At("fallback source") /\ UNCHANGED model
     \/ At("downloading") /\ model' \in {model, "absent"}
     \/ At("loading") /\ loaded < config.worker_count /\ UNCHANGED model
  /\ main' = "returned"
  /\ code' = -1
  /\ UNCHANGED <<given, config, stopVars, g_server, poolVars, tcp, http, log_cleanup,
                 signals, early>>

LoadWorker ==
  /\ At("loading")
  /\ model = "loadable"
  /\ loaded < config.worker_count
  /\ loaded' = loaded + 1
  /\ UNCHANGED <<startVars, main, stopVars, g_server, accepting, workers, tcp, http,
                 log_cleanup, code, signals, early>>

(* Mutant: a worker that cannot load its model does not end the start. *)
StartAnyway ==
  /\ Goto("loading", "pool started")
  /\ accepting' = TRUE
  /\ workers' = "running"
  /\ UNCHANGED <<startVars, stopVars, g_server, loaded, tcp, http, log_cleanup, code,
                 signals, early>>

(* pool->start() sets accepting, whatever it was, and spawns the threads. *)
StartPool ==
  /\ Goto("loading", "pool started")
  /\ loaded = config.worker_count
  /\ accepting' = TRUE
  /\ workers' = "running"
  /\ UNCHANGED <<startVars, stopVars, g_server, loaded, tcp, http, log_cleanup, code,
                 signals, early>>

StartTcp ==
  /\ Goto("pool started", "tcp started")
  /\ tcp' = "running"
  /\ UNCHANGED <<startVars, stopVars, g_server, poolVars, http, log_cleanup, code,
                 signals, early>>

(* drogon::app().run() enters its loop. *)
EnterLoop ==
  /\ Goto("tcp started", "in loop")
  /\ http' = "serving"
  /\ UNCHANGED <<startVars, stopVars, g_server, poolVars, tcp, log_cleanup, code,
                 signals, early>>

(* The loop, told to quit, ends and run() returns 0. *)
LeaveLoop ==
  /\ Goto("in loop", "returned")
  /\ http = "quitting"
  /\ http' = "idle"
  /\ UNCHANGED <<startVars, stopVars, g_server, poolVars, tcp, log_cleanup, code,
                 signals, early>>

(* run() throws, for instance because the port is taken: stop(), then -1. *)
LoopThrows ==
  /\ At("tcp started") \/ At("in loop")
  /\ main' = "catching"
  /\ http' = "idle"
  /\ UNCHANGED <<startVars, stopVars, g_server, poolVars, tcp, log_cleanup, code,
                 signals, early>>

-----------------------------------------------------------------------------
(* stop(): stopping.exchange(true) decides whether anything is done *)

Stop(who) ==
  /\ stopping' = TRUE
  /\ IF stopping
     THEN UNCHANGED <<frame, caller>>
     ELSE frame' = "quit" /\ caller' = who

(* catch: stop(); return -1. *)
StopAfterThrow ==
  /\ Goto("catching", "returned")
  /\ code' = -1
  /\ Stop("catch")
  /\ UNCHANGED <<startVars, running, g_server, poolVars, tcp, http, log_cleanup, signals,
                 early>>

(* Mutant: stop() without quit(). *)
QuitNothing ==
  /\ frame = "quit"
  /\ frame' = "tcp"
  /\ running' = FALSE
  /\ UNCHANGED <<startVars, main, caller, stopping, g_server, poolVars, tcp, http,
                 log_cleanup, code, signals, early>>

(* quit() does nothing to a loop that is not running. *)
QuitHttp ==
  /\ frame = "quit"
  /\ frame' = "tcp"
  /\ running' = FALSE
  /\ http' = IF http = "serving" THEN "quitting" ELSE http
  /\ UNCHANGED <<startVars, main, caller, stopping, g_server, poolVars, tcp, log_cleanup,
                 code, signals, early>>

StopTcp ==
  /\ frame = "tcp"
  /\ frame' = "pool"
  /\ tcp' = IF tcp = "running" THEN "stopped" ELSE tcp
  /\ UNCHANGED <<startVars, main, caller, running, stopping, g_server, poolVars, http,
                 log_cleanup, code, signals, early>>

(* stop_all(): close, request, release, join. *)
StopPool ==
  /\ frame = "pool"
  /\ frame' = "log"
  /\ accepting' = FALSE
  /\ workers' = IF workers = "running" THEN "joined" ELSE workers
  /\ UNCHANGED <<startVars, main, caller, running, stopping, g_server, loaded, tcp, http,
                 log_cleanup, code, signals, early>>

StopLogCleanup ==
  /\ frame = "log"
  /\ frame' = "none"
  /\ caller' = "none"
  /\ log_cleanup' = IF log_cleanup = "running" THEN "joined" ELSE log_cleanup
  /\ UNCHANGED <<startVars, main, running, stopping, g_server, poolVars, tcp, http, code,
                 signals, early>>

(* SIGINT or SIGTERM: interrupts run(), another stop(), or the end of main(). *)
Signal ==
  /\ main \notin {"start", "exited"}
  /\ signals < MaxSignals
  /\ signals' = signals + 1
  /\ IF g_server
     THEN /\ Stop("signal")
          /\ early' = (early \/ (main # "in loop" /\ ~stopping))
     ELSE UNCHANGED <<stopping, frame, caller, early>>
  /\ UNCHANGED <<startVars, main, running, g_server, poolVars, tcp, http, log_cleanup,
                 code>>

-----------------------------------------------------------------------------
(* The end of main() *)

ClearTarget ==
  /\ Goto("returned", "cleared")
  /\ g_server' = FALSE
  /\ UNCHANGED <<startVars, stopVars, poolVars, tcp, http, log_cleanup, code, signals,
                 early>>

(* Mutant: a defaulted destructor. *)
DestroyOnly ==
  /\ Goto("cleared", "destroying")
  /\ UNCHANGED <<startVars, stopVars, g_server, poolVars, tcp, http, log_cleanup, code,
                 signals, early>>

(* ~OcrServer() calls stop() once more. *)
Destructor ==
  /\ Goto("cleared", "destroying")
  /\ Stop("destructor")
  /\ UNCHANGED <<startVars, running, g_server, poolVars, tcp, http, log_cleanup, code,
                 signals, early>>

Exit ==
  /\ Goto("destroying", "exited")
  /\ UNCHANGED <<startVars, stopVars, g_server, poolVars, tcp, http, log_cleanup, code,
                 signals, early>>

-----------------------------------------------------------------------------
RunStep ==
  \/ Configure
  \/ BeginRun
  \/ AllocatePool
  \/ CheckModel
  \/ FetchManifest
  \/ TryFallback
  \/ DownloadModel
  \/ LoadWorker
  \/ StartPool
  \/ StartTcp
  \/ EnterLoop
  \/ LeaveLoop

StopStep ==
  \/ QuitHttp
  \/ StopTcp
  \/ StopPool
  \/ StopLogCleanup

ExitStep ==
  \/ StopAfterThrow
  \/ ClearTarget
  \/ Destructor
  \/ Exit

Next ==
  \/ RunStep
  \/ StartupFails
  \/ LoopThrows
  \/ StopStep
  \/ ExitStep
  \/ Signal

Spec == Init /\ [][Next]_vars

(* The main thread runs.  Nobody is obliged to send a signal, and nothing is
   obliged to fail. *)
Fairness == WF_vars(RunStep) /\ WF_vars(StopStep) /\ WF_vars(ExitStep)

FairSpec == Spec /\ Fairness

-----------------------------------------------------------------------------
PlacesTyped ==
  /\ main \in {"start", "ready", "begun", "checking model", "primary source",
               "fallback source", "downloading", "loading", "pool started", "tcp started",
               "in loop", "catching", "returned", "cleared",
               "destroying", "exited"}
  /\ frame \in {"none", "quit", "tcp", "pool", "log"}
  /\ caller \in {"none", "signal", "catch", "destructor"}
  /\ workers \in {"none", "running", "joined"}
  /\ tcp \in {"none", "running", "stopped"}
  /\ http \in {"idle", "serving", "quitting"}
  /\ log_cleanup \in {"none", "running", "joined"}

FlagsTyped ==
  /\ running \in BOOLEAN /\ stopping \in BOOLEAN /\ g_server \in BOOLEAN
  /\ accepting \in BOOLEAN /\ early \in BOOLEAN

CountsTyped ==
  /\ config # Unset => loaded \in 0..config.worker_count
  /\ code \in {0, -1, 1}
  /\ signals \in 0..MaxSignals

(* Types of the places, flags, threads and counts of the process. *)
TypeOK == PlacesTyped /\ FlagsTyped /\ CountsTyped

Live == {t \in {"workers", "tcp", "log"} :
          \/ t = "workers" /\ workers = "running"
          \/ t = "tcp" /\ tcp = "running"
          \/ t = "log" /\ log_cleanup = "running"}

(* The server answers HTTP only with every model loaded and, unless it is   *)
(* being stopped, a pool that accepts work: a failed start never serves.    *)
(* TCP stops before the pool does, so that no TCP request meets a pool      *)
(* without workers.                                                         *)
ServesWhenReady ==
  /\ http # "idle" => /\ loaded = config.worker_count /\ model = "loadable"
                      /\ ~stopping => accepting /\ workers = "running"
  /\ tcp = "running" /\ ~early => workers = "running" /\ accepting

(* If no signal fell into the startup, stop() leaves no thread behind and   *)
(* nothing that it stopped comes back; and OcrServer is destroyed only      *)
(* after that, whether run() ended by a signal, an exception or a failed    *)
(* start or download.                                                       *)
NothingOutlivesServer ==
  ~early =>
    /\ stopping /\ frame = "none" => Live = {} /\ http # "serving"
    /\ main = "exited" => Live = {} /\ ~accepting

(* Every configuration that is accepted has a worker, a thread and a queue, *)
(* whoever left them out; and where the number of workers is left to the    *)
(* server, more than one of them never want more threads than the machine   *)
(* has (server_config.cpp:165-188).                                         *)
AutoTuningFits ==
  config # Unset =>
    /\ config.worker_count > 0 /\ config.inference_threads > 0
    /\ config.queue_capacity > 0
    /\ LET asked == Merged(given.env, given.opt)
       IN  asked.worker_count = 0 /\ ~asked.use_gpu /\ config.worker_count > 1
           => config.worker_count * config.inference_threads <= given.machine.threads

(* A signal that finds the server in its loop ends the process. *)
SignalInLoopExits ==
  (main = "in loop" /\ caller = "signal" /\ ~early) ~> main = "exited"
=============================================================================
