----------------------------- MODULE OcrService -----------------------------
(***************************************************************************)
(* The two request front ends of the server over its worker pool: the HTTP *)
(* handlers of server_http.cpp (drogon threads), the TCP protocol of       *)
(* server_tcp.cpp (one event loop thread), the completion callbacks that   *)
(* run on worker threads, the request counters, and the part of            *)
(* OcrServer::stop() that takes the TCP loop and the pool away while       *)
(* requests are in flight.                                                 *)
(*                                                                         *)
(* The pool is its abstract specification, TaskPool, which WorkerPool      *)
(* implements.  /api/ocr and /api/ocr/upload differ only in how they parse *)
(* their input and are one kind of request.  A payload is an identity: the *)
(* bytes matter only in that a chunk completes a payload or does not.      *)
(***************************************************************************)
EXTENDS Integers, Sequences, FiniteSets

CONSTANTS
  HttpRequests,  \* POST requests to /api/ocr or /api/ocr/upload
  TcpRequests,   \* payloads terminated by <END>
  Conns,         \* TCP connections
  MaxQueue,      \* config.queue_capacity
  NumWorkers,    \* config.worker_count
  NoConn         \* a payload that has not been sent

Requests == HttpRequests \cup TcpRequests

ASSUME RequestsAssumption ==
  IsFiniteSet(Requests) /\ HttpRequests \cap TcpRequests = {}
ASSUME LimitsAssumption == MaxQueue \in Nat /\ NumWorkers \in Nat
ASSUME ConnsAssumption == NoConn \notin Conns

VARIABLES
  open, queue, running, finished, refused, halted,  \* the pool
  phase,        \* how far each request is
  verdict,      \* what its response says, once that is decided
  total_requests, successful_requests, failed_requests,
  conn,         \* each connection: unknown, connected, after shutdown(), gone
  tcp_buffers,  \* connections with an entry in tcp_buffers
  owner,        \* the connection each payload came over
  loop,         \* functors queued in the TCP loop, oldest first
  sent,         \* history: responses written to each connection
  stage         \* progress of OcrServer::stop()

Pool == INSTANCE TaskPool WITH Tasks <- Requests

poolVars == <<open, queue, running, finished, refused, halted>>
counters == <<total_requests, successful_requests, failed_requests>>
tcpVars  == <<conn, tcp_buffers, owner, loop, sent>>
vars == <<poolVars, phase, verdict, counters, tcpVars, stage>>

Init ==
  /\ Pool!Init
  /\ phase = [r \in Requests |-> "new"]
  /\ verdict = [r \in Requests |-> "none"]
  /\ total_requests = 0
  /\ successful_requests = 0
  /\ failed_requests = 0
  /\ conn = [c \in Conns |-> "new"]
  /\ tcp_buffers = {}
  /\ owner = [r \in TcpRequests |-> NoConn]
  /\ loop = <<>>
  /\ sent = [c \in Conns |-> <<>>]
  /\ stage = "serving"

Goto(r, from, to) ==
  /\ phase[r] = from
  /\ phase' = [phase EXCEPT ![r] = to]

Decide(r, v) == verdict' = [verdict EXCEPT ![r] = v]

-----------------------------------------------------------------------------
(* HTTP handlers: one thread per request; total_requests first *)

HttpArrive(r) ==
  /\ r \in HttpRequests
  /\ Goto(r, "new", "counted")
  /\ total_requests' = total_requests + 1
  /\ UNCHANGED <<poolVars, verdict, successful_requests, failed_requests,
                 tcpVars, stage>>

(* Body is not JSON, base64 missing or invalid, no multipart file. *)
HttpBadRequest(r) ==
  /\ r \in HttpRequests
  /\ Goto(r, "counted", "rejected")
  /\ Decide(r, "bad request")
  /\ UNCHANGED <<poolVars, counters, tcpVars, stage>>

(* A JSON body that is no object: isMember() throws, drogon answers 500, and
   no counter but total_requests has heard of the request. *)
HttpThrows(r) ==
  /\ r \in HttpRequests
  /\ Goto(r, "counted", "answered")
  /\ Decide(r, "server error")
  /\ UNCHANGED <<poolVars, counters, tcpVars, stage>>

HttpAccepted(r) ==
  /\ r \in HttpRequests
  /\ Goto(r, "counted", "accepted")
  /\ Pool!Accept(r)
  /\ UNCHANGED <<verdict, counters, tcpVars, stage>>

(* Mutant: the result of submit() is tested the wrong way round. *)
HttpInverted(r) ==
  /\ r \in HttpRequests
  /\ Goto(r, "counted", "rejected")
  /\ Pool!Accept(r)
  /\ Decide(r, "overloaded")
  /\ UNCHANGED <<counters, tcpVars, stage>>

HttpOverloaded(r) ==
  /\ r \in HttpRequests
  /\ Goto(r, "counted", "rejected")
  /\ Pool!Refuse(r)
  /\ Decide(r, "overloaded")
  /\ UNCHANGED <<counters, tcpVars, stage>>

(* Mutant: return without calling the drogon callback. *)
HttpForgotten(r) ==
  /\ r \in HttpRequests
  /\ Goto(r, "rejected", "dropped")
  /\ failed_requests' = failed_requests + 1
  /\ UNCHANGED <<poolVars, verdict, total_requests, successful_requests,
                 tcpVars, stage>>

(* failed_requests is incremented before the 400 or 503 goes out. *)
HttpScoreRejected(r) ==
  /\ r \in HttpRequests
  /\ Goto(r, "rejected", "scored")
  /\ failed_requests' = failed_requests + 1
  /\ UNCHANGED <<poolVars, verdict, total_requests, successful_requests,
                 tcpVars, stage>>

HttpReplyRejected(r) ==
  /\ r \in HttpRequests
  /\ verdict[r] \in {"bad request", "overloaded"}
  /\ Goto(r, "scored", "answered")
  /\ UNCHANGED <<poolVars, verdict, counters, tcpVars, stage>>

-----------------------------------------------------------------------------
(* Worker threads: predict(), then the completion callback *)

StartTask ==
  /\ Pool!Start
  /\ UNCHANGED <<phase, verdict, counters, tcpVars, stage>>

Predict(r) ==
  /\ r \in running
  /\ Goto(r, "accepted", "predicted")
  /\ \E v \in {"recognised", "not recognised"} : Decide(r, v)
  /\ UNCHANGED <<poolVars, counters, tcpVars, stage>>

(* predict() or the callback throws; catch (...) in the worker drops it.  A
   throw out of predict() leaves the request without a verdict for good. *)
Throw(r) ==
  /\ \/ Goto(r, "accepted", "lost")
     \/ Goto(r, "scored", "lost")
  /\ Pool!Finish(r)
  /\ UNCHANGED <<verdict, counters, tcpVars, stage>>

(* Mutant: only successes are counted. *)
ScoreSuccesses(r) ==
  /\ r \in running
  /\ Goto(r, "predicted", "scored")
  /\ IF verdict[r] = "recognised"
     THEN successful_requests' = successful_requests + 1
     ELSE UNCHANGED successful_requests
  /\ UNCHANGED <<poolVars, verdict, total_requests, failed_requests, tcpVars,
                 stage>>

Score(r) ==
  /\ r \in running
  /\ Goto(r, "predicted", "scored")
  /\ IF verdict[r] = "recognised"
     THEN /\ successful_requests' = successful_requests + 1
          /\ UNCHANGED failed_requests
     ELSE /\ failed_requests' = failed_requests + 1
          /\ UNCHANGED successful_requests
  /\ UNCHANGED <<poolVars, verdict, total_requests, tcpVars, stage>>

(* handle_predict_result: the drogon callback sends the 200. *)
HttpReply(r) ==
  /\ r \in HttpRequests
  /\ Goto(r, "scored", "answered")
  /\ Pool!Finish(r)
  /\ UNCHANGED <<verdict, counters, tcpVars, stage>>

(* Mutant: the functor never reaches the loop. *)
TcpPostLost(r) ==
  /\ r \in TcpRequests
  /\ Goto(r, "scored", "posted")
  /\ Pool!Finish(r)
  /\ UNCHANGED <<verdict, counters, tcpVars, stage>>

(* conn->getLoop()->queueInLoop(...).  Once stop_tcp_server() has destroyed the
   loop the call goes through a dangling pointer. *)
TcpPost(r) ==
  /\ r \in TcpRequests
  /\ IF stage = "serving"
     THEN Goto(r, "scored", "posted") /\ loop' = Append(loop, r)
     ELSE Goto(r, "scored", "dangling") /\ UNCHANGED loop
  /\ Pool!Finish(r)
  /\ UNCHANGED <<verdict, counters, conn, tcp_buffers, owner, sent, stage>>

-----------------------------------------------------------------------------
(* The TCP event loop: one thread, so each callback is one step *)

LoopRuns == stage = "serving"

(* A peer may go on sending after the server has shut down its own side. *)
Receiving(c) == conn[c] \in {"connected", "shut down"}

TcpConnect(c) ==
  /\ LoopRuns
  /\ conn[c] = "new"
  /\ conn' = [conn EXCEPT ![c] = "connected"]
  /\ tcp_buffers' = tcp_buffers \cup {c}
  /\ UNCHANGED <<poolVars, phase, verdict, counters, owner, loop, sent, stage>>

(* A chunk without a complete end marker: buffered, operator[] creates. *)
TcpPartial(c) ==
  /\ LoopRuns
  /\ Receiving(c)
  /\ tcp_buffers' = tcp_buffers \cup {c}
  /\ UNCHANGED <<poolVars, phase, verdict, counters, conn, owner, loop, sent,
                 stage>>

(* A chunk that completes a payload: the buffer entry is erased, trailing bytes
   and all, and the payload is counted and submitted. *)
TcpPayload(c, r) ==
  /\ LoopRuns
  /\ Receiving(c)
  /\ tcp_buffers' = tcp_buffers \ {c}
  /\ owner' = [owner EXCEPT ![r] = c]
  /\ total_requests' = total_requests + 1

TcpAccepted(c, r) ==
  /\ r \in TcpRequests
  /\ TcpPayload(c, r)
  /\ Goto(r, "new", "accepted")
  /\ Pool!Accept(r)
  /\ UNCHANGED <<verdict, successful_requests, failed_requests, conn, loop,
                 sent, stage>>

(* send("") puts nothing on the wire; shutdown() is all the peer sees. *)
TcpOverloaded(c, r) ==
  /\ r \in TcpRequests
  /\ TcpPayload(c, r)
  /\ Goto(r, "new", "answered")
  /\ Pool!Refuse(r)
  /\ Decide(r, "overloaded")
  /\ failed_requests' = failed_requests + 1
  /\ conn' = [conn EXCEPT ![c] = "shut down"]
  /\ UNCHANGED <<successful_requests, loop, sent, stage>>

(* Mutant: the connection callback leaves the buffer behind. *)
TcpDisconnectOnly(c) ==
  /\ LoopRuns
  /\ Receiving(c)
  /\ conn' = [conn EXCEPT ![c] = "closed"]
  /\ UNCHANGED <<poolVars, phase, verdict, counters, tcp_buffers, owner, loop,
                 sent, stage>>

TcpDisconnect(c) ==
  /\ LoopRuns
  /\ Receiving(c)
  /\ conn' = [conn EXCEPT ![c] = "closed"]
  /\ tcp_buffers' = tcp_buffers \ {c}
  /\ UNCHANGED <<poolVars, phase, verdict, counters, owner, loop, sent, stage>>

(* The queued functor: dropped unless the connection is still connected. *)
Respond(live) ==
  /\ LoopRuns
  /\ loop # <<>>
  /\ loop' = Tail(loop)
  /\ LET r == Head(loop)
         c == owner[r]
     IN IF c \in live
        THEN /\ Goto(r, "posted", "answered")
             /\ sent' = [sent EXCEPT ![c] = Append(@, r)]
             /\ conn' = [conn EXCEPT ![c] = "shut down"]
        ELSE /\ Goto(r, "posted", "dropped")
             /\ UNCHANGED <<sent, conn>>
  /\ UNCHANGED <<poolVars, verdict, counters, tcp_buffers, owner, stage>>

(* Mutants: no test of connected(); the buffer entry tested in its place. *)
RespondAlways == Respond(Conns)
RespondIfBuffered == Respond(tcp_buffers)

TcpRespond == Respond({c \in Conns : conn[c] = "connected"})

-----------------------------------------------------------------------------
(* OcrServer::stop(): first the TCP server, then the pool *)

(* Connections are closed, functors not yet run go away with the loop. *)
StopTcp ==
  /\ stage = "serving"
  /\ stage' = "tcp stopped"
  /\ conn' = [c \in Conns |-> "closed"]
  /\ tcp_buffers' = {}
  /\ loop' = <<>>
  /\ phase' = [r \in Requests |->
                 IF phase[r] = "posted" THEN "dropped" ELSE phase[r]]
  /\ UNCHANGED <<poolVars, verdict, counters, owner, sent>>

StopPool ==
  /\ stage = "tcp stopped"
  /\ stage' = "pool closed"
  /\ Pool!Close
  /\ UNCHANGED <<phase, verdict, counters, tcpVars>>

PoolStopped ==
  /\ stage = "pool closed"
  /\ stage' = "stopped"
  /\ Pool!Halt
  /\ UNCHANGED <<phase, verdict, counters, tcpVars>>

-----------------------------------------------------------------------------
HttpStep(r) ==
  \/ HttpArrive(r)
  \/ HttpBadRequest(r)
  \/ HttpThrows(r)
  \/ HttpAccepted(r)
  \/ HttpOverloaded(r)
  \/ HttpScoreRejected(r)
  \/ HttpReplyRejected(r)

WorkerStep(r) ==
  \/ Predict(r)
  \/ Throw(r)
  \/ Score(r)
  \/ HttpReply(r)
  \/ TcpPost(r)

TcpStep(c) ==
  \/ TcpConnect(c)
  \/ TcpPartial(c)
  \/ \E r \in TcpRequests : TcpAccepted(c, r) \/ TcpOverloaded(c, r)
  \/ TcpDisconnect(c)

StopStep == StopTcp \/ StopPool \/ PoolStopped

Next ==
  \/ \E r \in Requests : HttpStep(r) \/ WorkerStep(r)
  \/ StartTask
  \/ \E c \in Conns : TcpStep(c)
  \/ TcpRespond
  \/ StopStep

Spec == Init /\ [][Next]_vars

(* An HTTP handler that was entered runs to its end, workers keep taking and
   finishing tasks, the TCP loop drains its functors, stop() goes on once begun.
   Clients owe nothing. *)
Fairness ==
  /\ \A r \in HttpRequests :
       WF_vars(HttpStep(r) /\ phase[r] # "new")
  /\ \A r \in Requests : WF_vars(WorkerStep(r))
  /\ WF_vars(StartTask)
  /\ WF_vars(TcpRespond)
  /\ WF_vars(StopPool \/ PoolStopped)

FairSpec == Spec /\ Fairness

-----------------------------------------------------------------------------
Phases == {"new", "counted", "rejected", "accepted", "predicted", "scored",
           "posted", "answered", "dropped", "lost", "dangling"}
Verdicts == {"none", "bad request", "server error", "overloaded",
             "recognised", "not recognised"}

RequestsTyped ==
  /\ phase \in [Requests -> Phases]
  /\ verdict \in [Requests -> Verdicts]

CountersTyped ==
  /\ total_requests \in Nat
  /\ successful_requests \in Nat
  /\ failed_requests \in Nat

ConnsTyped ==
  /\ conn \in [Conns -> {"new", "connected", "shut down", "closed"}]
  /\ tcp_buffers \subseteq Conns
  /\ owner \in [TcpRequests -> Conns \cup {NoConn}]

ResponsesTyped ==
  /\ loop \in Seq(TcpRequests)
  /\ sent \in [Conns -> Seq(TcpRequests)]

(* Types of the request, counter, connection and response state. *)
TypeOK ==
  /\ RequestsTyped
  /\ CountersTyped
  /\ ConnsTyped
  /\ ResponsesTyped
  /\ stage \in {"serving", "tcp stopped", "pool closed", "stopped"}

(* Requests whose outcome is still open. *)
Open == {r \in Requests :
           phase[r] \in {"counted", "rejected", "accepted", "predicted"}}

(* Requests an exception took away before they were scored: one of predict(),
   without an answer, or one of the HTTP handler, answered with a 500. *)
Uncounted ==
  {r \in Requests : \/ phase[r] = "lost" /\ verdict[r] = "none"
                    \/ phase[r] = "answered" /\ verdict[r] = "server error"}

(* /api/status drifts by exceptions and by nothing else: whatever the
   interleaving of handlers, TCP loop, workers and shutdown, totalRequests is
   successCount plus failureCount plus the requests still open plus those an
   exception took, which stay in neither counter for ever.  A client that has
   an answer other than drogon's 500 finds itself in one of the two. *)
CountersAddUp ==
  total_requests =
    successful_requests + failed_requests + Cardinality(Open \cup Uncounted)

(* A connection gets at most one response, however many payloads its client
   pushed through it and whichever worker finishes first. *)
OneResponsePerConnection == \A c \in Conns : Len(sent[c]) <= 1

(* A recognition result is dropped only when its client is gone, the server is
   stopping, or another payload of the same connection was answered first: a
   client that uses one connection per recognition and waits gets its result. *)
DropsAreExplained ==
  \A r \in TcpRequests :
    phase[r] = "dropped" =>
      \/ conn[owner[r]] = "closed"
      \/ \E q \in TcpRequests \ {r} :
           owner[q] = owner[r] /\ phase[q] = "answered"

(* tcp_buffers has no entry for a connection that is gone, although every
   received chunk recreates the entry a completed payload erased. *)
BuffersAreLive ==
  tcp_buffers \subseteq {c \in Conns : Receiving(c)}

(* A request is answered with the verdict of its own execution: 503 without
   having been executed, 200 only after having been executed. *)
AnswersMatchExecution ==
  \A r \in Requests : phase[r] = "answered" =>
    /\ verdict[r] \in {"recognised", "not recognised"} <=> r \in finished
    /\ verdict[r] = "overloaded" <=> r \in refused

(* Every HTTP request gets an answer, be it drogon's 500, unless predict() or
   the callback throws on the worker or the server is being stopped. *)
HttpIsAnswered ==
  \A r \in HttpRequests :
    phase[r] = "counted" ~> (phase[r] \in {"answered", "lost"} \/ ~LoopRuns)

(* Every TCP payload that was accepted is answered or its answer dropped, with
   the same exceptions. *)
TcpIsAnswered ==
  \A r \in TcpRequests :
    phase[r] = "accepted" ~>
      (phase[r] \in {"answered", "dropped", "lost"} \/ ~LoopRuns)

(* What "shutting down gracefully" would need: no completion callback is left
   to run against a TCP loop that has been destroyed. *)
NoUseOfDestroyedLoop == \A r \in TcpRequests : phase[r] # "dangling"

=============================================================================
