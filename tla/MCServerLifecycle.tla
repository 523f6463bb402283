-------------------------- MODULE MCServerLifecycle --------------------------
(* Small worlds for ServerLifecycle: what the environment and the command   *)
(* line may leave out, set to zero, set too high or misspell.               *)
EXTENDS ServerLifecycle

Silent == [s \in Settings |-> Unset]

MCEnvironments ==
  {Silent,
   [Silent EXCEPT !.worker_count = 0, !.inference_threads = 3],
   [Silent EXCEPT !.worker_count = 2, !.use_gpu = TRUE, !.model_version = "V1",
                  !.http_port = 70000, !.log_retention_days = -1],
   [Silent EXCEPT !.worker_count = -1],
   [Silent EXCEPT !.http_port = Malformed],
   [Silent EXCEPT !.precision = "int8"]}

MCCommandLines ==
  {Silent,
   [Silent EXCEPT !.precision = "fp32", !.worker_count = 1, !.queue_capacity = 2],
   [Silent EXCEPT !.model_version = "V1", !.log_cleanup_interval_secs = 0],
   [Silent EXCEPT !.inference_threads = 1, !.use_gpu = FALSE],
   [Silent EXCEPT !.tcp_port = 0],
   [Silent EXCEPT !.use_gpu = Malformed]}

MCMachines == {[threads |-> 1, vulkan |-> FALSE], [threads |-> 2, vulkan |-> TRUE],
               [threads |-> 10, vulkan |-> FALSE]}
==============================================================================
