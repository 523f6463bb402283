---------------------------- MODULE ServerConfig ----------------------------
(***************************************************************************)
(* parse_server_config() and inspect_gpu_runtime(): how the environment,   *)
(* the command line and the machine decide the configuration of a server.  *)
(* Names, directories and the settings of glog are left out; they are      *)
(* copied as they are.                                                     *)
(*                                                                         *)
(* An environment env and a command line opt are functions from settings   *)
(* to values, Unset where nothing is said and Malformed where something is *)
(* that does not parse.                                                    *)
(***************************************************************************)
EXTENDS Integers

CONSTANTS Unset, Malformed

Numbers == {"http_port", "tcp_port", "worker_count", "inference_threads",
            "queue_capacity", "log_cleanup_interval_secs", "log_retention_days"}

(* struct ServerConfig *)
Defaults ==
  [http_port |-> 21600, tcp_port |-> 21601, worker_count |-> 0,
   inference_threads |-> 0, queue_capacity |-> 0,
   log_cleanup_interval_secs |-> 3600, log_retention_days |-> 7,
   precision |-> "fp16", model_version |-> "V2", model_source |-> "gitee",
   use_gpu |-> FALSE]

Settings == DOMAIN Defaults

Smaller(a, b) == IF a <= b THEN a ELSE b
Larger(a, b) == IF a <= b THEN b ELSE a

(* `over' where it says something, `base' elsewhere. *)
Overlay(base, over) ==
  [s \in Settings |-> IF over[s] = Unset THEN base[s] ELSE over[s]]

(* apply_env_overrides() returns an error; the precision is checked later,  *)
(* and any text is some model version.                                      *)
EnvironmentRefused(env) ==
  \/ \E s \in Numbers \cup {"use_gpu"} : env[s] = Malformed
  \/ env.model_source \notin {Unset, "gitee", "github"}

Ports == 1..65535

(* What CLI11 and the tests for conflicting flags refuse. *)
OptionsRefused(opt) ==
  \/ \E s \in Settings : opt[s] = Malformed
  \/ \E s \in {"http_port", "tcp_port"} : opt[s] # Unset /\ opt[s] \notin Ports
  \/ \E s \in Numbers : opt[s] # Unset /\ opt[s] < 0

(* The version is that of the command line or its default: what the         *)
(* environment said has been overwritten.                                   *)
Merged(env, opt) ==
  [Overlay(Overlay(Defaults, env), opt) EXCEPT
     !.model_version = IF opt.model_version = Unset THEN "V2" ELSE opt.model_version]

(* The last tests of parse_server_config(). *)
MergedRefused(c) ==
  \/ c.precision \notin {"fp16", "fp32"}
  \/ c.http_port <= 0 \/ c.tcp_port <= 0
  \/ c.worker_count < 0 \/ c.queue_capacity < 0 \/ c.inference_threads < 0

Refused(env, opt) ==
  EnvironmentRefused(env) \/ OptionsRefused(opt) \/ MergedRefused(Merged(env, opt))

AutoThreads(c, hardware_threads) ==
  IF c.inference_threads > 0 THEN c.inference_threads
  ELSE IF c.use_gpu THEN 1 ELSE Smaller(hardware_threads, 4)

(* Mutant: every hardware thread gets a worker. *)
WorkerPerThread(c, hardware_threads) ==
  IF c.worker_count > 0 THEN c.worker_count
  ELSE IF c.use_gpu THEN Smaller(hardware_threads, 2)
  ELSE Smaller(hardware_threads, 8)

AutoWorkers(c, hardware_threads) ==
  IF c.worker_count > 0 THEN c.worker_count
  ELSE IF c.use_gpu THEN Smaller(hardware_threads, 2)
  ELSE Larger(1, Smaller(hardware_threads \div AutoThreads(c, hardware_threads), 8))

(* resolve_auto_tuning() *)
Tuned(c, hardware_threads) ==
  LET workers == AutoWorkers(c, hardware_threads)
  IN  [c EXCEPT !.inference_threads = AutoThreads(c, hardware_threads),
                !.worker_count = workers,
                !.queue_capacity = IF @ > 0 THEN @ ELSE Larger(16, workers * 4)]

(* inspect_gpu_runtime(): too late for the tuning to know. *)
Inspected(c, has_vulkan) == [c EXCEPT !.use_gpu = @ /\ has_vulkan]

ServerConfig(env, opt, machine) ==
  Inspected(Tuned(Merged(env, opt), machine.threads), machine.vulkan)
=============================================================================
