-------------------------- MODULE OcrServiceProofs --------------------------
(***************************************************************************)
(* Proofs of the safety properties of OcrService, for every number of      *)
(* requests, connections and workers and every queue capacity.             *)
(*                                                                         *)
(* The inductive invariant is TypeOK, the property itself, and what links  *)
(* the phase of a request to its verdict (VerdictFits), to its place in    *)
(* the pool (Ledger), and to its connection (Owned, Exhausted).            *)
(***************************************************************************)
EXTENDS OcrService, FiniteSetTheorems, SequenceTheorems, TLAPS

-----------------------------------------------------------------------------
(* Type correctness, one group of variables at a time *)

(* Which actions write which variables. *)
LEMMA Writers ==
  ASSUME [Next]_vars
  PROVE  /\ sent' = sent \/ TcpRespond
         /\ UNCHANGED <<loop, sent>> \/ TcpRespond \/ StopTcp
              \/ \E r \in Requests : TcpPost(r)
         /\ queue' = queue \/ StartTask \/ (\E r \in Requests : HttpAccepted(r))
              \/ \E c \in Conns, r \in TcpRequests : TcpAccepted(c, r)
         /\ UNCHANGED <<conn, tcp_buffers, owner>> \/ StopTcp \/ TcpRespond
              \/ \E c \in Conns :
                   \/ TcpConnect(c) \/ TcpPartial(c) \/ TcpDisconnect(c)
                   \/ \E r \in TcpRequests :
                        TcpAccepted(c, r) \/ TcpOverloaded(c, r)
<1> USE DEF Next, HttpStep, WorkerStep, TcpStep, StopStep, vars, poolVars,
            tcpVars, HttpArrive, HttpBadRequest, HttpThrows, HttpOverloaded,
            HttpScoreRejected, HttpReplyRejected, Predict, Throw, Score,
            HttpReply, TcpConnect, TcpPartial, TcpOverloaded, TcpDisconnect,
            StopPool, PoolStopped
<1>1. sent' = sent \/ TcpRespond
  BY DEF HttpAccepted, StartTask, TcpPost, StopTcp, TcpAccepted
<1>2. UNCHANGED <<loop, sent>> \/ TcpRespond \/ StopTcp
        \/ \E r \in Requests : TcpPost(r)
  BY DEF HttpAccepted, StartTask, TcpAccepted
<1>3. queue' = queue \/ StartTask \/ (\E r \in Requests : HttpAccepted(r))
        \/ \E c \in Conns, r \in TcpRequests : TcpAccepted(c, r)
  BY DEF Pool!Refuse, Pool!Finish, Pool!Close, Pool!Halt, TcpPost, StopTcp,
     TcpRespond, Respond
<1>4. UNCHANGED <<conn, tcp_buffers, owner>> \/ StopTcp \/ TcpRespond
        \/ \E c \in Conns :
             \/ TcpConnect(c) \/ TcpPartial(c) \/ TcpDisconnect(c)
             \/ \E r \in TcpRequests :
                  TcpAccepted(c, r) \/ TcpOverloaded(c, r)
  BY DEF HttpAccepted, StartTask, TcpPost
<1> QED
  BY <1>1, <1>2, <1>3, <1>4

(* Every step keeps phases and verdicts in range. *)
LEMMA RequestsStayTyped ==
  ASSUME TypeOK, [Next]_vars
  PROVE  RequestsTyped'
  <1>1. ASSUME NEW r \in Requests, HttpArrive(r) PROVE RequestsTyped'
    BY <1>1 DEF TypeOK, RequestsTyped, Phases, Verdicts, Requests, counters,
       tcpVars, HttpArrive, Goto
  <1>2. ASSUME NEW r \in Requests, HttpBadRequest(r) \/ HttpThrows(r)
       PROVE  RequestsTyped'
    BY <1>2 DEF TypeOK, RequestsTyped, Phases, Verdicts, Requests, counters,
       tcpVars, HttpBadRequest, HttpThrows, Goto, Decide
  <1>3. ASSUME NEW r \in Requests, HttpAccepted(r) PROVE RequestsTyped'
    BY <1>3 DEF TypeOK, RequestsTyped, Phases, Verdicts, Requests, counters,
       tcpVars, HttpAccepted, Goto
  <1>4. ASSUME NEW r \in Requests, HttpOverloaded(r) PROVE RequestsTyped'
    BY <1>4 DEF TypeOK, RequestsTyped, Phases, Verdicts, Requests, counters,
       tcpVars, HttpOverloaded, Goto, Decide
  <1>5. ASSUME NEW r \in Requests, HttpScoreRejected(r) PROVE RequestsTyped'
    BY <1>5 DEF TypeOK, RequestsTyped, Phases, Verdicts, Requests, counters,
       tcpVars, HttpScoreRejected, Goto
  <1>6. ASSUME NEW r \in Requests, HttpReplyRejected(r) PROVE RequestsTyped'
    BY <1>6 DEF TypeOK, RequestsTyped, Phases, Verdicts, Requests, counters,
       tcpVars, HttpReplyRejected, Goto
  <1>7. ASSUME NEW r \in Requests, Predict(r) PROVE RequestsTyped'
    BY <1>7 DEF TypeOK, RequestsTyped, Phases, Verdicts, Requests, counters,
       tcpVars, Predict, Goto, Decide
  <1>8. ASSUME NEW r \in Requests, Throw(r) PROVE RequestsTyped'
    BY <1>8 DEF TypeOK, RequestsTyped, Phases, Verdicts, Requests, counters,
       tcpVars, Throw, Goto
  <1>9. ASSUME NEW r \in Requests, Score(r) PROVE RequestsTyped'
    BY <1>9 DEF TypeOK, RequestsTyped, Phases, Verdicts, Requests, counters,
       tcpVars, Score, Goto
  <1>10. ASSUME NEW r \in Requests, HttpReply(r) PROVE RequestsTyped'
    BY <1>10 DEF TypeOK, RequestsTyped, Phases, Verdicts, Requests, counters,
       tcpVars, HttpReply, Goto
  <1>11. ASSUME NEW r \in Requests, TcpPost(r) PROVE RequestsTyped'
    BY <1>11 DEF TypeOK, RequestsTyped, Phases, Verdicts, Requests, counters,
       tcpVars, TcpPost, Goto
  <1>12. CASE StartTask
    BY <1>12 DEF TypeOK, RequestsTyped, Phases, Verdicts, Requests, counters,
       tcpVars, StartTask
  <1>13. ASSUME NEW c \in Conns, TcpConnect(c) PROVE RequestsTyped'
    BY <1>13 DEF TypeOK, RequestsTyped, Phases, Verdicts, Requests, counters,
       tcpVars, TcpConnect
  <1>14. ASSUME NEW c \in Conns, TcpPartial(c) PROVE RequestsTyped'
    BY <1>14 DEF TypeOK, RequestsTyped, Phases, Verdicts, Requests, counters,
       tcpVars, TcpPartial
  <1>15. ASSUME NEW c \in Conns, NEW r \in TcpRequests, TcpAccepted(c, r)
       PROVE RequestsTyped'
    BY <1>15 DEF TypeOK, RequestsTyped, Phases, Verdicts, Requests, counters,
       tcpVars, TcpAccepted, TcpPayload, Goto
  <1>16. ASSUME NEW c \in Conns, NEW r \in TcpRequests, TcpOverloaded(c, r)
       PROVE RequestsTyped'
    BY <1>16 DEF TypeOK, RequestsTyped, Phases, Verdicts, Requests, counters,
       tcpVars, TcpOverloaded, TcpPayload, Goto, Decide
  <1>17. ASSUME NEW c \in Conns, TcpDisconnect(c) PROVE RequestsTyped'
    BY <1>17 DEF TypeOK, RequestsTyped, Phases, Verdicts, Requests, counters,
       tcpVars, TcpDisconnect
  <1>18. CASE TcpRespond
    <2>1. Head(loop) \in TcpRequests
      <3>1. loop \in Seq(TcpRequests) /\ loop # <<>>
        BY <1>18 DEF TypeOK, ResponsesTyped, TcpRespond, Respond
      <3> QED
        BY <3>1
    <2> QED
      BY <1>18, <2>1 DEF TypeOK, RequestsTyped, Phases, Requests, TcpRespond,
         Respond, Goto
  <1>19. CASE StopTcp
    BY <1>19 DEF TypeOK, RequestsTyped, Phases, Verdicts, Requests, counters,
       tcpVars, StopTcp
  <1>20. CASE StopPool
    BY <1>20 DEF TypeOK, RequestsTyped, Phases, Verdicts, Requests, counters,
       tcpVars, StopPool
  <1>21. CASE PoolStopped
    BY <1>21 DEF TypeOK, RequestsTyped, Phases, Verdicts, Requests, counters,
       tcpVars, PoolStopped
  <1>22. CASE UNCHANGED vars
    BY <1>22 DEF TypeOK, RequestsTyped, Phases, Verdicts, Requests, vars,
       counters, tcpVars
  <1> QED
    BY <1>1, <1>2, <1>3, <1>4, <1>5, <1>6, <1>7, <1>8, <1>9, <1>10, <1>11,
       <1>12, <1>13, <1>14, <1>15, <1>16, <1>17, <1>18, <1>19, <1>20, <1>21,
       <1>22 DEF Next, HttpStep, WorkerStep, TcpStep, StopStep, Requests

(* Every step keeps the counters natural. *)
LEMMA CountersStayTyped ==
  ASSUME CountersTyped, [Next]_vars
  PROVE  CountersTyped'
  <1>1. ASSUME NEW r \in Requests, HttpArrive(r) PROVE CountersTyped'
    BY <1>1 DEF CountersTyped, counters, tcpVars, HttpArrive, Goto
  <1>2. ASSUME NEW r \in Requests, HttpBadRequest(r) \/ HttpThrows(r)
       PROVE  CountersTyped'
    BY <1>2 DEF CountersTyped, counters, tcpVars, HttpBadRequest, HttpThrows,
       Goto, Decide
  <1>3. ASSUME NEW r \in Requests, HttpAccepted(r) PROVE CountersTyped'
    BY <1>3 DEF CountersTyped, counters, tcpVars, HttpAccepted, Goto
  <1>4. ASSUME NEW r \in Requests, HttpOverloaded(r) PROVE CountersTyped'
    BY <1>4 DEF CountersTyped, counters, tcpVars, HttpOverloaded, Goto, Decide
  <1>5. ASSUME NEW r \in Requests, HttpScoreRejected(r) PROVE CountersTyped'
    BY <1>5 DEF CountersTyped, counters, tcpVars, HttpScoreRejected, Goto
  <1>6. ASSUME NEW r \in Requests, HttpReplyRejected(r) PROVE CountersTyped'
    BY <1>6 DEF CountersTyped, counters, tcpVars, HttpReplyRejected, Goto
  <1>7. ASSUME NEW r \in Requests, Predict(r) PROVE CountersTyped'
    BY <1>7 DEF CountersTyped, counters, tcpVars, Predict, Goto, Decide
  <1>8. ASSUME NEW r \in Requests, Throw(r) PROVE CountersTyped'
    BY <1>8 DEF CountersTyped, counters, tcpVars, Throw, Goto
  <1>9. ASSUME NEW r \in Requests, Score(r) PROVE CountersTyped'
    BY <1>9 DEF CountersTyped, counters, tcpVars, Score, Goto
  <1>10. ASSUME NEW r \in Requests, HttpReply(r) PROVE CountersTyped'
    BY <1>10 DEF CountersTyped, counters, tcpVars, HttpReply, Goto
  <1>11. ASSUME NEW r \in Requests, TcpPost(r) PROVE CountersTyped'
    BY <1>11 DEF CountersTyped, counters, tcpVars, TcpPost, Goto
  <1>12. CASE StartTask
    BY <1>12 DEF CountersTyped, counters, tcpVars, StartTask
  <1>13. ASSUME NEW c \in Conns, TcpConnect(c) PROVE CountersTyped'
    BY <1>13 DEF CountersTyped, counters, tcpVars, TcpConnect
  <1>14. ASSUME NEW c \in Conns, TcpPartial(c) PROVE CountersTyped'
    BY <1>14 DEF CountersTyped, counters, tcpVars, TcpPartial
  <1>15. ASSUME NEW c \in Conns, NEW r \in TcpRequests, TcpAccepted(c, r)
       PROVE CountersTyped'
    BY <1>15 DEF CountersTyped, counters, tcpVars, TcpAccepted, TcpPayload,
       Goto
  <1>16. ASSUME NEW c \in Conns, NEW r \in TcpRequests, TcpOverloaded(c, r)
       PROVE CountersTyped'
    <2>1. total_requests \in Nat /\ successful_requests \in Nat
            /\ failed_requests \in Nat
      BY DEF CountersTyped
    <2>2. /\ total_requests' = total_requests + 1
          /\ failed_requests' = failed_requests + 1
          /\ successful_requests' = successful_requests
      BY <1>16 DEF TcpOverloaded, TcpPayload
    <2> QED
      BY <2>1, <2>2 DEF CountersTyped
  <1>17. ASSUME NEW c \in Conns, TcpDisconnect(c) PROVE CountersTyped'
    BY <1>17 DEF CountersTyped, counters, tcpVars, TcpDisconnect
  <1>18. CASE TcpRespond
    BY <1>18 DEF CountersTyped, counters, tcpVars, TcpRespond, Respond
  <1>19. CASE StopTcp
    BY <1>19 DEF CountersTyped, counters, tcpVars, StopTcp
  <1>20. CASE StopPool
    BY <1>20 DEF CountersTyped, counters, tcpVars, StopPool
  <1>21. CASE PoolStopped
    BY <1>21 DEF CountersTyped, counters, tcpVars, PoolStopped
  <1>22. CASE UNCHANGED vars
    BY <1>22 DEF CountersTyped, vars, counters, tcpVars
  <1> QED
    BY <1>1, <1>2, <1>3, <1>4, <1>5, <1>6, <1>7, <1>8, <1>9, <1>10, <1>11,
       <1>12, <1>13, <1>14, <1>15, <1>16, <1>17, <1>18, <1>19, <1>20, <1>21,
       <1>22 DEF Next, HttpStep, WorkerStep, TcpStep, StopStep, Requests

(* Every step keeps connections, buffers and owners in range. *)
LEMMA ConnsStayTyped ==
  ASSUME ConnsTyped, [Next]_vars
  PROVE  ConnsTyped'
  <1>1. ASSUME NEW c \in Conns, TcpConnect(c) PROVE ConnsTyped'
    BY <1>1 DEF ConnsTyped, TcpConnect
  <1>2. ASSUME NEW c \in Conns, TcpPartial(c) PROVE ConnsTyped'
    BY <1>2 DEF ConnsTyped, TcpPartial
  <1>3. ASSUME NEW c \in Conns, TcpDisconnect(c) PROVE ConnsTyped'
    BY <1>3 DEF ConnsTyped, TcpDisconnect
  <1>4. ASSUME NEW c \in Conns, NEW r \in TcpRequests, TcpAccepted(c, r)
       PROVE  ConnsTyped'
    BY <1>4 DEF ConnsTyped, TcpAccepted, TcpPayload, Goto
  <1>5. ASSUME NEW c \in Conns, NEW r \in TcpRequests, TcpOverloaded(c, r)
       PROVE  ConnsTyped'
    BY <1>5 DEF ConnsTyped, TcpOverloaded, TcpPayload, Goto, Decide
  <1>6. CASE TcpRespond
    BY <1>6 DEF ConnsTyped, TcpRespond, Respond
  <1>7. CASE StopTcp
    BY <1>7 DEF ConnsTyped, StopTcp
  <1>8. CASE UNCHANGED <<conn, tcp_buffers, owner>>
    BY <1>8 DEF ConnsTyped
  <1> QED
    BY Writers, <1>1, <1>2, <1>3, <1>4, <1>5, <1>6, <1>7, <1>8

(* Every step keeps the queued functors and the sent responses in range. *)
LEMMA ResponsesStayTyped ==
  ASSUME ResponsesTyped, [Next]_vars
  PROVE  ResponsesTyped'
  <1>1. ASSUME NEW r \in Requests, TcpPost(r) PROVE ResponsesTyped'
    <2>1. loop \in Seq(TcpRequests) /\ r \in TcpRequests
      BY <1>1 DEF ResponsesTyped, TcpPost
    <2>2. Append(loop, r) \in Seq(TcpRequests)
      BY <2>1
    <2>3. loop' \in Seq(TcpRequests)
      BY <1>1, <2>1, <2>2 DEF TcpPost
    <2> QED
      BY <1>1, <2>3 DEF ResponsesTyped, TcpPost
  <1>2. CASE TcpRespond
    <2>1. loop \in Seq(TcpRequests) /\ loop # <<>> /\ loop' = Tail(loop)
      BY <1>2 DEF ResponsesTyped, TcpRespond, Respond
    <2>2. Head(loop) \in TcpRequests /\ loop' \in Seq(TcpRequests)
      BY <2>1
    <2>3. \A c \in Conns : Append(sent[c], Head(loop)) \in Seq(TcpRequests)
      BY <2>2 DEF ResponsesTyped
    <2>4. sent' \in [Conns -> Seq(TcpRequests)]
      BY <1>2, <2>3 DEF ResponsesTyped, TcpRespond, Respond
    <2> QED
      BY <2>2, <2>4 DEF ResponsesTyped
  <1>3. CASE StopTcp
    <2>1. loop' = <<>> /\ sent' = sent
      BY <1>3 DEF StopTcp
    <2> QED
      BY <2>1 DEF ResponsesTyped
  <1>4. CASE UNCHANGED <<loop, sent>>
    BY <1>4 DEF ResponsesTyped
  <1> QED
    BY Writers, <1>1, <1>2, <1>3, <1>4

(* All variables of the service stay in their types. *)
THEOREM ServiceTypeCorrect == Spec => []TypeOK
<1>1. Init => TypeOK
  BY DEF Init, TypeOK, RequestsTyped, CountersTyped, ConnsTyped,
     ResponsesTyped, Phases, Verdicts, Requests
<1>2. TypeOK /\ [Next]_vars
        => stage' \in {"serving", "tcp stopped", "pool closed", "stopped"}
  BY DEF TypeOK, Next, HttpStep, WorkerStep, TcpStep, StopStep, vars,
     HttpArrive, HttpBadRequest, HttpThrows, HttpAccepted, HttpOverloaded,
     HttpScoreRejected, HttpReplyRejected, StartTask, Predict, Throw, Score,
     HttpReply, TcpPost, TcpConnect, TcpPartial, TcpAccepted, TcpOverloaded,
     TcpDisconnect, TcpRespond, Respond, StopTcp, StopPool, PoolStopped
<1>3. TypeOK /\ [Next]_vars => TypeOK'
  BY <1>2, RequestsStayTyped, CountersStayTyped, ConnsStayTyped,
     ResponsesStayTyped DEF TypeOK
<1> QED
  BY <1>1, <1>3, PTL DEF Spec

-----------------------------------------------------------------------------
(* The counters *)

(* A request has a verdict exactly from the moment its outcome is known. *)
VerdictFits ==
  \A r \in Requests :
    /\ phase[r] \in {"new", "counted", "accepted"} => verdict[r] = "none"
    /\ phase[r] \in {"rejected", "predicted", "scored", "posted", "answered",
                     "dropped", "dangling"} => verdict[r] # "none"
    /\ verdict[r] = "server error" => phase[r] = "answered"

(* Phases and verdicts change together. *)
LEMMA VerdictsKeepFitting ==
  ASSUME TypeOK, VerdictFits, [Next]_vars
  PROVE  VerdictFits'
  <1>1. ASSUME NEW r \in Requests, HttpArrive(r) PROVE VerdictFits'
    BY <1>1 DEF TypeOK, RequestsTyped, VerdictFits, Requests, counters,
       tcpVars, HttpArrive, Goto
  <1>2. ASSUME NEW r \in Requests, HttpBadRequest(r) \/ HttpThrows(r)
       PROVE  VerdictFits'
    BY <1>2 DEF TypeOK, RequestsTyped, VerdictFits, Requests, counters,
       tcpVars, HttpBadRequest, HttpThrows, Goto, Decide
  <1>3. ASSUME NEW r \in Requests, HttpAccepted(r) PROVE VerdictFits'
    BY <1>3 DEF TypeOK, RequestsTyped, VerdictFits, Requests, counters,
       tcpVars, HttpAccepted, Goto
  <1>4. ASSUME NEW r \in Requests, HttpOverloaded(r) PROVE VerdictFits'
    BY <1>4 DEF TypeOK, RequestsTyped, VerdictFits, Requests, counters,
       tcpVars, HttpOverloaded, Goto, Decide
  <1>5. ASSUME NEW r \in Requests, HttpScoreRejected(r) PROVE VerdictFits'
    BY <1>5 DEF TypeOK, RequestsTyped, VerdictFits, Requests, counters,
       tcpVars, HttpScoreRejected, Goto
  <1>6. ASSUME NEW r \in Requests, HttpReplyRejected(r) PROVE VerdictFits'
    BY <1>6 DEF TypeOK, RequestsTyped, VerdictFits, Requests, counters,
       tcpVars, HttpReplyRejected, Goto
  <1>7. ASSUME NEW r \in Requests, Predict(r) PROVE VerdictFits'
    BY <1>7 DEF TypeOK, RequestsTyped, VerdictFits, Requests, counters,
       tcpVars, Predict, Goto, Decide
  <1>8. ASSUME NEW r \in Requests, Throw(r) PROVE VerdictFits'
    BY <1>8 DEF TypeOK, RequestsTyped, VerdictFits, Requests, counters,
       tcpVars, Throw, Goto
  <1>9. ASSUME NEW r \in Requests, Score(r) PROVE VerdictFits'
    BY <1>9 DEF TypeOK, RequestsTyped, VerdictFits, Requests, counters,
       tcpVars, Score, Goto
  <1>10. ASSUME NEW r \in Requests, HttpReply(r) PROVE VerdictFits'
    BY <1>10 DEF TypeOK, RequestsTyped, VerdictFits, Requests, counters,
       tcpVars, HttpReply, Goto
  <1>11. ASSUME NEW r \in Requests, TcpPost(r) PROVE VerdictFits'
    BY <1>11 DEF TypeOK, RequestsTyped, VerdictFits, Requests, counters,
       tcpVars, TcpPost, Goto
  <1>12. CASE StartTask
    BY <1>12 DEF TypeOK, RequestsTyped, VerdictFits, Requests, counters,
       tcpVars, StartTask
  <1>13. ASSUME NEW c \in Conns, TcpConnect(c) PROVE VerdictFits'
    BY <1>13 DEF TypeOK, RequestsTyped, VerdictFits, Requests, counters,
       tcpVars, TcpConnect
  <1>14. ASSUME NEW c \in Conns, TcpPartial(c) PROVE VerdictFits'
    BY <1>14 DEF TypeOK, RequestsTyped, VerdictFits, Requests, counters,
       tcpVars, TcpPartial
  <1>15. ASSUME NEW c \in Conns, NEW r \in TcpRequests, TcpAccepted(c, r)
       PROVE VerdictFits'
    BY <1>15 DEF TypeOK, RequestsTyped, VerdictFits, Requests, counters,
       tcpVars, TcpAccepted, TcpPayload, Goto
  <1>16. ASSUME NEW c \in Conns, NEW r \in TcpRequests, TcpOverloaded(c, r)
       PROVE VerdictFits'
    BY <1>16 DEF TypeOK, RequestsTyped, VerdictFits, Requests, counters,
       tcpVars, TcpOverloaded, TcpPayload, Goto, Decide
  <1>17. ASSUME NEW c \in Conns, TcpDisconnect(c) PROVE VerdictFits'
    BY <1>17 DEF TypeOK, RequestsTyped, VerdictFits, Requests, counters,
       tcpVars, TcpDisconnect
  <1>18. CASE TcpRespond
    <2>1. Head(loop) \in TcpRequests
      <3>1. loop \in Seq(TcpRequests) /\ loop # <<>>
        BY <1>18 DEF TypeOK, ResponsesTyped, TcpRespond, Respond
      <3> QED
        BY <3>1
    <2> QED
      BY <1>18, <2>1 DEF TypeOK, RequestsTyped, VerdictFits, Requests,
         TcpRespond, Respond, Goto
  <1>19. CASE StopTcp
    BY <1>19 DEF TypeOK, RequestsTyped, VerdictFits, Requests, counters,
       tcpVars, StopTcp
  <1>20. CASE StopPool
    BY <1>20 DEF TypeOK, RequestsTyped, VerdictFits, Requests, counters,
       tcpVars, StopPool
  <1>21. CASE PoolStopped
    BY <1>21 DEF TypeOK, RequestsTyped, VerdictFits, Requests, counters,
       tcpVars, PoolStopped
  <1>22. CASE UNCHANGED vars
    BY <1>22 DEF TypeOK, RequestsTyped, VerdictFits, Requests, vars, counters,
       tcpVars
  <1> QED
    BY <1>1, <1>2, <1>3, <1>4, <1>5, <1>6, <1>7, <1>8, <1>9, <1>10, <1>11,
       <1>12, <1>13, <1>14, <1>15, <1>16, <1>17, <1>18, <1>19, <1>20, <1>21,
       <1>22 DEF Next, HttpStep, WorkerStep, TcpStep, StopStep, Requests

(* Received, and in neither of the other two counters. *)
Unscored == Open \cup Uncounted

(* How the number of open requests follows the set of them. *)
LEMMA OpenRequests ==
  /\ IsFiniteSet(Unscored)
  /\ Cardinality(Unscored) \in Nat
  /\ \A r \in Unscored :
       Cardinality(Unscored) = Cardinality(Unscored \ {r}) + 1
  /\ \A r : r \notin Unscored =>
       Cardinality(Unscored \cup {r}) = Cardinality(Unscored) + 1
<1>1. IsFiniteSet(Unscored)
  <2>1. Unscored \subseteq Requests
    BY DEF Unscored, Open, Uncounted
  <2> QED
    BY <2>1, RequestsAssumption, FS_Subset
<1>2. Cardinality(Unscored) \in Nat
  BY <1>1, FS_CardinalityType
<1>3. ASSUME NEW r \in Unscored
      PROVE  Cardinality(Unscored) = Cardinality(Unscored \ {r}) + 1
  <2>1. Cardinality(Unscored \ {r}) = Cardinality(Unscored) - 1
    BY <1>1, FS_RemoveElement
  <2> QED
    BY <2>1, <1>2
<1>4. ASSUME NEW r, r \notin Unscored
      PROVE  Cardinality(Unscored \cup {r}) = Cardinality(Unscored) + 1
  BY <1>1, <1>4, FS_AddElement
<1> QED
  BY <1>1, <1>2, <1>3, <1>4

(* The balance, with its types, as the arithmetic steps below use it. *)
LEMMA Balance ==
  ASSUME TypeOK, CountersAddUp
  PROVE  /\ total_requests \in Nat
         /\ successful_requests \in Nat
         /\ failed_requests \in Nat
         /\ Cardinality(Unscored) \in Nat
         /\ total_requests = successful_requests + failed_requests
                               + Cardinality(Unscored)
  BY OpenRequests DEF TypeOK, CountersTyped, CountersAddUp, Unscored

(* Every step moves the counters and the set of open requests together. *)
LEMMA CountersKeepAddingUp ==
  ASSUME TypeOK, VerdictFits, CountersAddUp, [Next]_vars
  PROVE  CountersAddUp'
  <1>1. ASSUME NEW r \in Requests, HttpArrive(r) PROVE CountersAddUp'
    <2>1. r \notin Unscored /\ Unscored' = Unscored \cup {r}
      BY <1>1 DEF TypeOK, RequestsTyped, VerdictFits, Unscored, Open,
         Uncounted, Requests, HttpArrive, Goto
    <2>2. /\ total_requests' = total_requests + 1
          /\ UNCHANGED <<successful_requests, failed_requests>>
      BY <1>1 DEF HttpArrive
    <2>3. Cardinality(Unscored') = Cardinality(Unscored) + 1
      BY <2>1, OpenRequests
    <2> QED
      BY <2>2, <2>3, Balance DEF CountersAddUp, Unscored
  <1>2. ASSUME NEW r \in Requests, HttpBadRequest(r) \/ HttpThrows(r)
       PROVE  CountersAddUp'
    <2>1. Unscored' = Unscored
      BY <1>2 DEF TypeOK, RequestsTyped, VerdictFits, Unscored, Open,
         Uncounted, Requests, counters, tcpVars, HttpBadRequest, HttpThrows,
         Goto, Decide
    <2> QED
      BY <1>2, <2>1 DEF CountersAddUp, Unscored, counters, HttpBadRequest,
         HttpThrows
  <1>3. ASSUME NEW r \in Requests, HttpAccepted(r) PROVE CountersAddUp'
    <2>1. Unscored' = Unscored
      BY <1>3 DEF TypeOK, RequestsTyped, VerdictFits, Unscored, Open,
         Uncounted, Requests, counters, tcpVars, HttpAccepted, Goto
    <2> QED
      BY <1>3, <2>1 DEF CountersAddUp, Unscored, counters, HttpAccepted
  <1>4. ASSUME NEW r \in Requests, HttpOverloaded(r) PROVE CountersAddUp'
    <2>1. Unscored' = Unscored
      BY <1>4 DEF TypeOK, RequestsTyped, VerdictFits, Unscored, Open,
         Uncounted, Requests, counters, tcpVars, HttpOverloaded, Goto, Decide
    <2> QED
      BY <1>4, <2>1 DEF CountersAddUp, Unscored, counters, HttpOverloaded
  <1>5. ASSUME NEW r \in Requests, HttpScoreRejected(r) PROVE CountersAddUp'
    <2>1. r \in Unscored /\ Unscored' = Unscored \ {r}
      BY <1>5 DEF TypeOK, RequestsTyped, VerdictFits, Unscored, Open,
         Uncounted, Requests, HttpScoreRejected, Goto
    <2>2. /\ failed_requests' = failed_requests + 1
          /\ UNCHANGED <<total_requests, successful_requests>>
      BY <1>5 DEF HttpScoreRejected
    <2>3. /\ Cardinality(Unscored) = Cardinality(Unscored') + 1
          /\ Cardinality(Unscored) \in Nat /\ Cardinality(Unscored') \in Nat
      BY <2>1, OpenRequests, FS_Subset, FS_CardinalityType
    <2> QED
      BY <2>2, <2>3, Balance DEF CountersAddUp, Unscored
  <1>6. ASSUME NEW r \in Requests, HttpReplyRejected(r) PROVE CountersAddUp'
    <2>1. Unscored' = Unscored
      BY <1>6 DEF TypeOK, RequestsTyped, VerdictFits, Unscored, Open,
         Uncounted, Requests, counters, tcpVars, HttpReplyRejected, Goto
    <2> QED
      BY <1>6, <2>1 DEF CountersAddUp, Unscored, counters, HttpReplyRejected
  <1>7. ASSUME NEW r \in Requests, Predict(r) PROVE CountersAddUp'
    <2>1. Unscored' = Unscored
      BY <1>7 DEF TypeOK, RequestsTyped, VerdictFits, Unscored, Open,
         Uncounted, Requests, counters, tcpVars, Predict, Goto, Decide
    <2> QED
      BY <1>7, <2>1 DEF CountersAddUp, Unscored, counters, Predict
  <1>8. ASSUME NEW r \in Requests, Throw(r) PROVE CountersAddUp'
    <2>1. Unscored' = Unscored
      BY <1>8 DEF TypeOK, RequestsTyped, VerdictFits, Unscored, Open,
         Uncounted, Requests, counters, tcpVars, Throw, Goto
    <2> QED
      BY <1>8, <2>1 DEF CountersAddUp, Unscored, counters, Throw
  <1>9. ASSUME NEW r \in Requests, Score(r) PROVE CountersAddUp'
    <2>1. r \in Unscored /\ Unscored' = Unscored \ {r}
      BY <1>9 DEF TypeOK, RequestsTyped, VerdictFits, Unscored, Open,
         Uncounted, Requests, Score, Goto
    <2>2. /\ total_requests' = total_requests
          /\ \/ /\ successful_requests' = successful_requests + 1
                /\ failed_requests' = failed_requests
             \/ /\ failed_requests' = failed_requests + 1
                /\ successful_requests' = successful_requests
      BY <1>9 DEF Score
    <2>3. /\ Cardinality(Unscored) = Cardinality(Unscored') + 1
          /\ Cardinality(Unscored) \in Nat /\ Cardinality(Unscored') \in Nat
      BY <2>1, OpenRequests, FS_Subset, FS_CardinalityType
    <2> QED
      BY <2>2, <2>3, Balance DEF CountersAddUp, Unscored
  <1>10. ASSUME NEW r \in Requests, HttpReply(r) PROVE CountersAddUp'
    <2>1. Unscored' = Unscored
      BY <1>10 DEF TypeOK, RequestsTyped, VerdictFits, Unscored, Open,
         Uncounted, Requests, counters, tcpVars, HttpReply, Goto
    <2> QED
      BY <1>10, <2>1 DEF CountersAddUp, Unscored, counters, HttpReply
  <1>11. ASSUME NEW r \in Requests, TcpPost(r) PROVE CountersAddUp'
    <2>1. Unscored' = Unscored
      BY <1>11 DEF TypeOK, RequestsTyped, VerdictFits, Unscored, Open,
         Uncounted, Requests, counters, tcpVars, TcpPost, Goto
    <2> QED
      BY <1>11, <2>1 DEF CountersAddUp, Unscored, counters, TcpPost
  <1>12. CASE StartTask
    <2>1. Unscored' = Unscored
      BY <1>12 DEF TypeOK, RequestsTyped, VerdictFits, Unscored, Open,
         Uncounted, Requests, counters, tcpVars, StartTask
    <2> QED
      BY <1>12, <2>1 DEF CountersAddUp, Unscored, counters, StartTask
  <1>13. ASSUME NEW c \in Conns, TcpConnect(c) PROVE CountersAddUp'
    <2>1. Unscored' = Unscored
      BY <1>13 DEF TypeOK, RequestsTyped, VerdictFits, Unscored, Open,
         Uncounted, Requests, counters, tcpVars, TcpConnect
    <2> QED
      BY <1>13, <2>1 DEF CountersAddUp, Unscored, counters, TcpConnect
  <1>14. ASSUME NEW c \in Conns, TcpPartial(c) PROVE CountersAddUp'
    <2>1. Unscored' = Unscored
      BY <1>14 DEF TypeOK, RequestsTyped, VerdictFits, Unscored, Open,
         Uncounted, Requests, counters, tcpVars, TcpPartial
    <2> QED
      BY <1>14, <2>1 DEF CountersAddUp, Unscored, counters, TcpPartial
  <1>15. ASSUME NEW c \in Conns, NEW r \in TcpRequests, TcpAccepted(c, r)
       PROVE CountersAddUp'
    <2>1. r \notin Unscored /\ Unscored' = Unscored \cup {r}
      BY <1>15 DEF TypeOK, RequestsTyped, VerdictFits, Unscored, Open,
         Uncounted, Requests, TcpAccepted, TcpPayload, Goto
    <2>2. /\ total_requests' = total_requests + 1
          /\ UNCHANGED <<successful_requests, failed_requests>>
      BY <1>15 DEF TcpAccepted, TcpPayload
    <2>3. Cardinality(Unscored') = Cardinality(Unscored) + 1
      BY <2>1, OpenRequests
    <2> QED
      BY <2>2, <2>3, Balance DEF CountersAddUp, Unscored
  <1>16. ASSUME NEW c \in Conns, NEW r \in TcpRequests, TcpOverloaded(c, r)
       PROVE CountersAddUp'
    <2>1. Unscored' = Unscored
      BY <1>16 DEF TypeOK, RequestsTyped, VerdictFits, Unscored, Open,
         Uncounted, Requests, TcpOverloaded, TcpPayload, Goto, Decide
    <2>2. /\ total_requests' = total_requests + 1
          /\ failed_requests' = failed_requests + 1
          /\ successful_requests' = successful_requests
      BY <1>16 DEF TcpOverloaded, TcpPayload
    <2>3. Cardinality(Unscored') = Cardinality(Unscored)
      BY <2>1
    <2> QED
      BY <2>2, <2>3, Balance DEF CountersAddUp, Unscored
  <1>17. ASSUME NEW c \in Conns, TcpDisconnect(c) PROVE CountersAddUp'
    <2>1. Unscored' = Unscored
      BY <1>17 DEF TypeOK, RequestsTyped, VerdictFits, Unscored, Open,
         Uncounted, Requests, counters, tcpVars, TcpDisconnect
    <2> QED
      BY <1>17, <2>1 DEF CountersAddUp, Unscored, counters, TcpDisconnect
  <1>18. CASE TcpRespond
    <2>1. Head(loop) \in TcpRequests
      <3>1. loop \in Seq(TcpRequests) /\ loop # <<>>
        BY <1>18 DEF TypeOK, ResponsesTyped, TcpRespond, Respond
      <3> QED
        BY <3>1
    <2>2. Unscored' = Unscored
      BY <1>18, <2>1 DEF TypeOK, RequestsTyped, VerdictFits, Unscored, Open,
         Uncounted, Requests, counters, tcpVars, TcpRespond, Respond, Goto
    <2> QED
      BY <1>18, <2>2 DEF CountersAddUp, Unscored, counters, TcpRespond, Respond
  <1>19. CASE StopTcp
    <2>1. Unscored' = Unscored
      BY <1>19 DEF TypeOK, RequestsTyped, VerdictFits, Unscored, Open,
         Uncounted, Requests, counters, tcpVars, StopTcp
    <2> QED
      BY <1>19, <2>1 DEF CountersAddUp, Unscored, counters, StopTcp
  <1>20. CASE StopPool
    <2>1. Unscored' = Unscored
      BY <1>20 DEF TypeOK, RequestsTyped, VerdictFits, Unscored, Open,
         Uncounted, Requests, counters, tcpVars, StopPool
    <2> QED
      BY <1>20, <2>1 DEF CountersAddUp, Unscored, counters, StopPool
  <1>21. CASE PoolStopped
    <2>1. Unscored' = Unscored
      BY <1>21 DEF TypeOK, RequestsTyped, VerdictFits, Unscored, Open,
         Uncounted, Requests, counters, tcpVars, PoolStopped
    <2> QED
      BY <1>21, <2>1 DEF CountersAddUp, Unscored, counters, PoolStopped
  <1>22. CASE UNCHANGED vars
    BY <1>22 DEF CountersAddUp, Unscored, Open, Uncounted, vars, counters,
       tcpVars
  <1> QED
    BY <1>1, <1>2, <1>3, <1>4, <1>5, <1>6, <1>7, <1>8, <1>9, <1>10, <1>11,
       <1>12, <1>13, <1>14, <1>15, <1>16, <1>17, <1>18, <1>19, <1>20, <1>21,
       <1>22 DEF Next, HttpStep, WorkerStep, TcpStep, StopStep, Requests

(* totalRequests = successCount + failureCount + the requests still open +   *)
(* those an exception took away unscored (handle_predict_result,             *)
(* respond_bad_request and the overloaded paths of both front ends).         *)
THEOREM NoRequestIsMiscounted == Spec => []CountersAddUp
<1> DEFINE IInv == TypeOK /\ VerdictFits /\ CountersAddUp
<1>1. Init => VerdictFits /\ CountersAddUp
  <2> SUFFICES ASSUME Init PROVE VerdictFits /\ CountersAddUp
    OBVIOUS
  <2>1. VerdictFits
    BY DEF Init, VerdictFits
  <2>2. Unscored = {}
    BY DEF Init, Unscored, Open, Uncounted
  <2>3. Cardinality(Unscored) = 0
    BY <2>2, FS_EmptySet
  <2> QED
    BY <2>1, <2>3 DEF Init, CountersAddUp, Unscored
<1>2. TypeOK /\ VerdictFits /\ CountersAddUp /\ [Next]_vars
        => VerdictFits' /\ CountersAddUp'
  BY VerdictsKeepFitting, CountersKeepAddingUp
<1> QED
  BY <1>1, <1>2, ServiceTypeCorrect, PTL DEF Spec

-----------------------------------------------------------------------------
(* Connections, buffers and responses *)

(* What one step may do to a request and to a connection. *)
RequestsMoveOn ==
  \A r \in TcpRequests :
    /\ phase[r] # "new" => phase'[r] # "new" /\ owner'[r] = owner[r]
    /\ phase[r] = "new" /\ phase'[r] # "new" =>
         owner'[r] \in Conns /\ conn'[owner'[r]] # "new"
    /\ phase[r] \in {"answered", "dropped"} => phase'[r] = phase[r]

ConnsMoveOn ==
  \A c \in Conns :
    /\ conn[c] # "new" => conn'[c] # "new"
    /\ conn[c] = "closed" => conn'[c] = "closed"
    /\ conn'[c] = "shut down" =>
         \/ conn[c] = "shut down"
         \/ \E q \in TcpRequests : owner'[q] = c /\ phase'[q] = "answered"

DropsHaveCause ==
  \A r \in TcpRequests :
    phase'[r] = "dropped" /\ phase[r] # "dropped" =>
      /\ phase[r] # "new"
      /\ \/ \A c \in Conns : conn'[c] = "closed"
         \/ /\ UNCHANGED <<conn, owner>>
            /\ owner[r] \notin {c \in Conns : conn[c] = "connected"}

(* A payload that arrived belongs to a connection that exists. *)
Owned ==
  \A r \in TcpRequests :
    phase[r] # "new" => owner[r] \in Conns /\ conn[owner[r]] # "new"

(* shutdown() is called only after some payload was disposed of. *)
Exhausted ==
  \A c \in Conns : conn[c] = "shut down" =>
    \E q \in TcpRequests : owner[q] = c /\ phase[q] = "answered"

(* Whoever got a response was shut down with it. *)
Spent ==
  \A c \in Conns : sent[c] # <<>> => conn[c] \in {"shut down", "closed"}

(* A request keeps its connection, and what is settled stays settled. *)
LEMMA RequestSteps ==
  ASSUME TypeOK, [Next]_vars
  PROVE  RequestsMoveOn
  <1>1. ASSUME NEW r \in Requests, HttpArrive(r) PROVE RequestsMoveOn
    BY RequestsAssumption, <1>1 DEF TypeOK, RequestsTyped, ConnsTyped,
       Requests, RequestsMoveOn, counters, tcpVars, HttpArrive, Goto
  <1>2. ASSUME NEW r \in Requests, HttpBadRequest(r) \/ HttpThrows(r)
       PROVE  RequestsMoveOn
    BY <1>2 DEF TypeOK, RequestsTyped, ConnsTyped, Requests, RequestsMoveOn,
       counters, tcpVars, HttpBadRequest, HttpThrows, Goto, Decide
  <1>3. ASSUME NEW r \in Requests, HttpAccepted(r) PROVE RequestsMoveOn
    BY <1>3 DEF TypeOK, RequestsTyped, ConnsTyped, Requests, RequestsMoveOn,
       counters, tcpVars, HttpAccepted, Goto
  <1>4. ASSUME NEW r \in Requests, HttpOverloaded(r) PROVE RequestsMoveOn
    BY <1>4 DEF TypeOK, RequestsTyped, ConnsTyped, Requests, RequestsMoveOn,
       counters, tcpVars, HttpOverloaded, Goto, Decide
  <1>5. ASSUME NEW r \in Requests, HttpScoreRejected(r) PROVE RequestsMoveOn
    BY <1>5 DEF TypeOK, RequestsTyped, ConnsTyped, Requests, RequestsMoveOn,
       counters, tcpVars, HttpScoreRejected, Goto
  <1>6. ASSUME NEW r \in Requests, HttpReplyRejected(r) PROVE RequestsMoveOn
    BY <1>6 DEF TypeOK, RequestsTyped, ConnsTyped, Requests, RequestsMoveOn,
       counters, tcpVars, HttpReplyRejected, Goto
  <1>7. ASSUME NEW r \in Requests, Predict(r) PROVE RequestsMoveOn
    BY <1>7 DEF TypeOK, RequestsTyped, ConnsTyped, Requests, RequestsMoveOn,
       counters, tcpVars, Predict, Goto, Decide
  <1>8. ASSUME NEW r \in Requests, Throw(r) PROVE RequestsMoveOn
    BY <1>8 DEF TypeOK, RequestsTyped, ConnsTyped, Requests, RequestsMoveOn,
       counters, tcpVars, Throw, Goto
  <1>9. ASSUME NEW r \in Requests, Score(r) PROVE RequestsMoveOn
    BY <1>9 DEF TypeOK, RequestsTyped, ConnsTyped, Requests, RequestsMoveOn,
       counters, tcpVars, Score, Goto
  <1>10. ASSUME NEW r \in Requests, HttpReply(r) PROVE RequestsMoveOn
    BY <1>10 DEF TypeOK, RequestsTyped, ConnsTyped, Requests, RequestsMoveOn,
       counters, tcpVars, HttpReply, Goto
  <1>11. ASSUME NEW r \in Requests, TcpPost(r) PROVE RequestsMoveOn
    BY <1>11 DEF TypeOK, RequestsTyped, ConnsTyped, Requests, RequestsMoveOn,
       counters, tcpVars, TcpPost, Goto
  <1>12. CASE StartTask
    BY <1>12 DEF TypeOK, RequestsTyped, ConnsTyped, Requests, RequestsMoveOn,
       counters, tcpVars, StartTask
  <1>13. ASSUME NEW c \in Conns, TcpConnect(c) PROVE RequestsMoveOn
    BY <1>13 DEF TypeOK, RequestsTyped, ConnsTyped, Requests, RequestsMoveOn,
       counters, tcpVars, TcpConnect
  <1>14. ASSUME NEW c \in Conns, TcpPartial(c) PROVE RequestsMoveOn
    BY <1>14 DEF TypeOK, RequestsTyped, ConnsTyped, Requests, RequestsMoveOn,
       counters, tcpVars, TcpPartial
  <1>15. ASSUME NEW c \in Conns, NEW r \in TcpRequests, TcpAccepted(c, r)
       PROVE RequestsMoveOn
    <2>1. conn[c] # "new" /\ conn' = conn
      BY <1>15 DEF TcpAccepted, TcpPayload, Receiving
    <2> QED
      BY <1>15, <2>1 DEF TypeOK, RequestsTyped, ConnsTyped, Requests,
         RequestsMoveOn, TcpAccepted, TcpPayload, Goto
  <1>16. ASSUME NEW c \in Conns, NEW r \in TcpRequests, TcpOverloaded(c, r)
       PROVE RequestsMoveOn
    BY <1>16 DEF TypeOK, RequestsTyped, ConnsTyped, Requests, RequestsMoveOn,
       counters, tcpVars, TcpOverloaded, TcpPayload, Goto, Decide
  <1>17. ASSUME NEW c \in Conns, TcpDisconnect(c) PROVE RequestsMoveOn
    BY <1>17 DEF TypeOK, RequestsTyped, ConnsTyped, Requests, RequestsMoveOn,
       counters, tcpVars, TcpDisconnect
  <1>18. CASE TcpRespond
    <2>1. Head(loop) \in TcpRequests
      <3>1. loop \in Seq(TcpRequests) /\ loop # <<>>
        BY <1>18 DEF TypeOK, ResponsesTyped, TcpRespond, Respond
      <3> QED
        BY <3>1
    <2> QED
      BY <1>18, <2>1 DEF TypeOK, RequestsTyped, Requests, RequestsMoveOn,
         ConnsTyped, TcpRespond, Respond, Goto
  <1>19. CASE StopTcp
    BY <1>19 DEF TypeOK, RequestsTyped, ConnsTyped, Requests, RequestsMoveOn,
       counters, tcpVars, StopTcp
  <1>20. CASE StopPool
    BY <1>20 DEF TypeOK, RequestsTyped, ConnsTyped, Requests, RequestsMoveOn,
       counters, tcpVars, StopPool
  <1>21. CASE PoolStopped
    BY <1>21 DEF TypeOK, RequestsTyped, ConnsTyped, Requests, RequestsMoveOn,
       counters, tcpVars, PoolStopped
  <1>22. CASE UNCHANGED vars
    BY <1>22 DEF TypeOK, RequestsTyped, ConnsTyped, Requests, RequestsMoveOn,
       vars, counters, tcpVars
  <1> QED
    BY <1>1, <1>2, <1>3, <1>4, <1>5, <1>6, <1>7, <1>8, <1>9, <1>10, <1>11,
       <1>12, <1>13, <1>14, <1>15, <1>16, <1>17, <1>18, <1>19, <1>20, <1>21,
       <1>22 DEF Next, HttpStep, WorkerStep, TcpStep, StopStep, Requests

(* A connection is shut down only for a payload that is answered. *)
LEMMA ConnSteps ==
  ASSUME TypeOK, [Next]_vars
  PROVE  ConnsMoveOn
  <1>1. ASSUME NEW c \in Conns, TcpConnect(c) PROVE ConnsMoveOn
    BY <1>1 DEF TypeOK, ConnsTyped, ConnsMoveOn, TcpConnect
  <1>2. ASSUME NEW c \in Conns, TcpPartial(c) PROVE ConnsMoveOn
    BY <1>2 DEF TypeOK, ConnsTyped, ConnsMoveOn, TcpPartial
  <1>3. ASSUME NEW c \in Conns, TcpDisconnect(c) PROVE ConnsMoveOn
    BY <1>3 DEF TypeOK, ConnsTyped, ConnsMoveOn, TcpDisconnect
  <1>4. ASSUME NEW c \in Conns, NEW r \in TcpRequests, TcpAccepted(c, r)
       PROVE  ConnsMoveOn
    BY <1>4 DEF TypeOK, ConnsTyped, ConnsMoveOn, TcpAccepted, TcpPayload, Goto
  <1>5. ASSUME NEW c \in Conns, NEW r \in TcpRequests, TcpOverloaded(c, r)
       PROVE  ConnsMoveOn
    <2>1. /\ conn' = [conn EXCEPT ![c] = "shut down"]
          /\ owner'[r] = c /\ phase'[r] = "answered"
      BY <1>5 DEF TypeOK, RequestsTyped, ConnsTyped, Requests, TcpOverloaded,
         TcpPayload, Goto
    <2>2. \A d \in Conns : d # c => conn'[d] = conn[d]
      BY <2>1 DEF TypeOK, ConnsTyped
    <2>3. conn[c] \in {"connected", "shut down"} /\ conn'[c] = "shut down"
      BY <1>5, <2>1 DEF TypeOK, ConnsTyped, TcpOverloaded, TcpPayload,
         Receiving
    <2> QED
      BY <2>1, <2>2, <2>3 DEF ConnsMoveOn
  <1>6. CASE TcpRespond
    <2>1. Head(loop) \in TcpRequests
      <3>1. loop \in Seq(TcpRequests) /\ loop # <<>>
        BY <1>6 DEF TypeOK, ResponsesTyped, TcpRespond, Respond
      <3> QED
        BY <3>1
    <2> DEFINE q == Head(loop)
               d == owner[q]
    <2>2. CASE conn' = conn
      BY <2>2 DEF ConnsMoveOn
    <2>3. CASE /\ d \in Conns /\ conn[d] = "connected"
               /\ conn' = [conn EXCEPT ![d] = "shut down"]
               /\ owner' = owner /\ phase'[q] = "answered"
      <3>1. \A c \in Conns : c # d => conn'[c] = conn[c]
        BY <2>3 DEF TypeOK, ConnsTyped
      <3>2. conn'[d] = "shut down"
        BY <2>3 DEF TypeOK, ConnsTyped
      <3> QED
        BY <2>1, <2>3, <3>1, <3>2 DEF ConnsMoveOn
    <2> QED
      BY <1>6, <2>1, <2>2, <2>3 DEF TypeOK, RequestsTyped, Requests,
         TcpRespond, Respond, Goto
  <1>7. CASE StopTcp
    BY <1>7 DEF TypeOK, ConnsTyped, ConnsMoveOn, StopTcp
  <1>8. CASE UNCHANGED <<conn, tcp_buffers, owner>>
    BY <1>8 DEF TypeOK, ConnsTyped, ConnsMoveOn
  <1> QED
    BY Writers, <1>1, <1>2, <1>3, <1>4, <1>5, <1>6, <1>7, <1>8

(* A response is dropped by the functor, or by the end of the TCP server. *)
LEMMA DropSteps ==
  ASSUME TypeOK, [Next]_vars
  PROVE  DropsHaveCause
  <1>1. ASSUME NEW r \in Requests, HttpArrive(r) PROVE DropsHaveCause
    BY <1>1 DEF TypeOK, RequestsTyped, Requests, DropsHaveCause, counters,
       tcpVars, HttpArrive, Goto
  <1>2. ASSUME NEW r \in Requests, HttpBadRequest(r) \/ HttpThrows(r)
       PROVE  DropsHaveCause
    BY <1>2 DEF TypeOK, RequestsTyped, Requests, DropsHaveCause, counters,
       tcpVars, HttpBadRequest, HttpThrows, Goto, Decide
  <1>3. ASSUME NEW r \in Requests, HttpAccepted(r) PROVE DropsHaveCause
    BY <1>3 DEF TypeOK, RequestsTyped, Requests, DropsHaveCause, counters,
       tcpVars, HttpAccepted, Goto
  <1>4. ASSUME NEW r \in Requests, HttpOverloaded(r) PROVE DropsHaveCause
    BY <1>4 DEF TypeOK, RequestsTyped, Requests, DropsHaveCause, counters,
       tcpVars, HttpOverloaded, Goto, Decide
  <1>5. ASSUME NEW r \in Requests, HttpScoreRejected(r) PROVE DropsHaveCause
    BY <1>5 DEF TypeOK, RequestsTyped, Requests, DropsHaveCause, counters,
       tcpVars, HttpScoreRejected, Goto
  <1>6. ASSUME NEW r \in Requests, HttpReplyRejected(r) PROVE DropsHaveCause
    BY <1>6 DEF TypeOK, RequestsTyped, Requests, DropsHaveCause, counters,
       tcpVars, HttpReplyRejected, Goto
  <1>7. ASSUME NEW r \in Requests, Predict(r) PROVE DropsHaveCause
    BY <1>7 DEF TypeOK, RequestsTyped, Requests, DropsHaveCause, counters,
       tcpVars, Predict, Goto, Decide
  <1>8. ASSUME NEW r \in Requests, Throw(r) PROVE DropsHaveCause
    BY <1>8 DEF TypeOK, RequestsTyped, Requests, DropsHaveCause, counters,
       tcpVars, Throw, Goto
  <1>9. ASSUME NEW r \in Requests, Score(r) PROVE DropsHaveCause
    BY <1>9 DEF TypeOK, RequestsTyped, Requests, DropsHaveCause, counters,
       tcpVars, Score, Goto
  <1>10. ASSUME NEW r \in Requests, HttpReply(r) PROVE DropsHaveCause
    BY <1>10 DEF TypeOK, RequestsTyped, Requests, DropsHaveCause, counters,
       tcpVars, HttpReply, Goto
  <1>11. ASSUME NEW r \in Requests, TcpPost(r) PROVE DropsHaveCause
    BY <1>11 DEF TypeOK, RequestsTyped, Requests, DropsHaveCause, counters,
       tcpVars, TcpPost, Goto
  <1>12. CASE StartTask
    BY <1>12 DEF TypeOK, RequestsTyped, Requests, DropsHaveCause, counters,
       tcpVars, StartTask
  <1>13. ASSUME NEW c \in Conns, TcpConnect(c) PROVE DropsHaveCause
    BY <1>13 DEF TypeOK, RequestsTyped, Requests, DropsHaveCause, counters,
       tcpVars, TcpConnect
  <1>14. ASSUME NEW c \in Conns, TcpPartial(c) PROVE DropsHaveCause
    BY <1>14 DEF TypeOK, RequestsTyped, Requests, DropsHaveCause, counters,
       tcpVars, TcpPartial
  <1>15. ASSUME NEW c \in Conns, NEW r \in TcpRequests, TcpAccepted(c, r)
       PROVE DropsHaveCause
    BY <1>15 DEF TypeOK, RequestsTyped, Requests, DropsHaveCause, counters,
       tcpVars, TcpAccepted, TcpPayload, Goto
  <1>16. ASSUME NEW c \in Conns, NEW r \in TcpRequests, TcpOverloaded(c, r)
       PROVE DropsHaveCause
    BY <1>16 DEF TypeOK, RequestsTyped, Requests, DropsHaveCause, counters,
       tcpVars, TcpOverloaded, TcpPayload, Goto, Decide
  <1>17. ASSUME NEW c \in Conns, TcpDisconnect(c) PROVE DropsHaveCause
    BY <1>17 DEF TypeOK, RequestsTyped, Requests, DropsHaveCause, counters,
       tcpVars, TcpDisconnect
  <1>18. CASE TcpRespond
    <2>1. Head(loop) \in TcpRequests
      <3>1. loop \in Seq(TcpRequests) /\ loop # <<>>
        BY <1>18 DEF TypeOK, ResponsesTyped, TcpRespond, Respond
      <3> QED
        BY <3>1
    <2> DEFINE q == Head(loop)
    <2>2. CASE phase' = [phase EXCEPT ![q] = "answered"]
      BY <2>1, <2>2 DEF TypeOK, RequestsTyped, Requests, DropsHaveCause
    <2>3. CASE /\ phase' = [phase EXCEPT ![q] = "dropped"]
               /\ phase[q] = "posted"
               /\ UNCHANGED <<conn, owner>>
               /\ owner[q] \notin {c \in Conns : conn[c] = "connected"}
      BY <2>1, <2>3 DEF TypeOK, RequestsTyped, Requests, DropsHaveCause
    <2> QED
      BY <1>18, <2>1, <2>2, <2>3 DEF TcpRespond, Respond, Goto
  <1>19. CASE StopTcp
    BY <1>19 DEF TypeOK, RequestsTyped, Requests, DropsHaveCause, counters,
       tcpVars, StopTcp
  <1>20. CASE StopPool
    BY <1>20 DEF TypeOK, RequestsTyped, Requests, DropsHaveCause, counters,
       tcpVars, StopPool
  <1>21. CASE PoolStopped
    BY <1>21 DEF TypeOK, RequestsTyped, Requests, DropsHaveCause, counters,
       tcpVars, PoolStopped
  <1>22. CASE UNCHANGED vars
    BY <1>22 DEF TypeOK, RequestsTyped, Requests, DropsHaveCause, vars,
       counters, tcpVars
  <1> QED
    BY <1>1, <1>2, <1>3, <1>4, <1>5, <1>6, <1>7, <1>8, <1>9, <1>10, <1>11,
       <1>12, <1>13, <1>14, <1>15, <1>16, <1>17, <1>18, <1>19, <1>20, <1>21,
       <1>22 DEF Next, HttpStep, WorkerStep, TcpStep, StopStep, Requests

(* A connection with a response never becomes connected again. *)
LEMMA ResponsesSpend ==
  ASSUME TypeOK, Spent, [Next]_vars
  PROVE  Spent'
  <1>1. ASSUME NEW r \in Requests, HttpArrive(r) PROVE Spent'
    BY <1>1 DEF TypeOK, ConnsTyped, ResponsesTyped, Spent, counters, tcpVars,
       HttpArrive, Goto
  <1>2. ASSUME NEW r \in Requests, HttpBadRequest(r) \/ HttpThrows(r)
       PROVE  Spent'
    BY <1>2 DEF TypeOK, ConnsTyped, ResponsesTyped, Spent, counters, tcpVars,
       HttpBadRequest, HttpThrows, Goto, Decide
  <1>3. ASSUME NEW r \in Requests, HttpAccepted(r) PROVE Spent'
    BY <1>3 DEF TypeOK, ConnsTyped, ResponsesTyped, Spent, counters, tcpVars,
       HttpAccepted, Goto
  <1>4. ASSUME NEW r \in Requests, HttpOverloaded(r) PROVE Spent'
    BY <1>4 DEF TypeOK, ConnsTyped, ResponsesTyped, Spent, counters, tcpVars,
       HttpOverloaded, Goto, Decide
  <1>5. ASSUME NEW r \in Requests, HttpScoreRejected(r) PROVE Spent'
    BY <1>5 DEF TypeOK, ConnsTyped, ResponsesTyped, Spent, counters, tcpVars,
       HttpScoreRejected, Goto
  <1>6. ASSUME NEW r \in Requests, HttpReplyRejected(r) PROVE Spent'
    BY <1>6 DEF TypeOK, ConnsTyped, ResponsesTyped, Spent, counters, tcpVars,
       HttpReplyRejected, Goto
  <1>7. ASSUME NEW r \in Requests, Predict(r) PROVE Spent'
    BY <1>7 DEF TypeOK, ConnsTyped, ResponsesTyped, Spent, counters, tcpVars,
       Predict, Goto, Decide
  <1>8. ASSUME NEW r \in Requests, Throw(r) PROVE Spent'
    BY <1>8 DEF TypeOK, ConnsTyped, ResponsesTyped, Spent, counters, tcpVars,
       Throw, Goto
  <1>9. ASSUME NEW r \in Requests, Score(r) PROVE Spent'
    BY <1>9 DEF TypeOK, ConnsTyped, ResponsesTyped, Spent, counters, tcpVars,
       Score, Goto
  <1>10. ASSUME NEW r \in Requests, HttpReply(r) PROVE Spent'
    BY <1>10 DEF TypeOK, ConnsTyped, ResponsesTyped, Spent, counters, tcpVars,
       HttpReply, Goto
  <1>11. ASSUME NEW r \in Requests, TcpPost(r) PROVE Spent'
    BY <1>11 DEF TypeOK, ConnsTyped, ResponsesTyped, Spent, counters, tcpVars,
       TcpPost, Goto
  <1>12. CASE StartTask
    BY <1>12 DEF TypeOK, ConnsTyped, ResponsesTyped, Spent, counters, tcpVars,
       StartTask
  <1>13. ASSUME NEW c \in Conns, TcpConnect(c) PROVE Spent'
    BY <1>13 DEF TypeOK, ConnsTyped, ResponsesTyped, Spent, counters, tcpVars,
       TcpConnect
  <1>14. ASSUME NEW c \in Conns, TcpPartial(c) PROVE Spent'
    BY <1>14 DEF TypeOK, ConnsTyped, ResponsesTyped, Spent, counters, tcpVars,
       TcpPartial
  <1>15. ASSUME NEW c \in Conns, NEW r \in TcpRequests, TcpAccepted(c, r)
       PROVE Spent'
    BY <1>15 DEF TypeOK, ConnsTyped, ResponsesTyped, Spent, counters, tcpVars,
       TcpAccepted, TcpPayload, Goto
  <1>16. ASSUME NEW c \in Conns, NEW r \in TcpRequests, TcpOverloaded(c, r)
       PROVE Spent'
    BY <1>16 DEF TypeOK, ConnsTyped, ResponsesTyped, Spent, counters, tcpVars,
       TcpOverloaded, TcpPayload, Goto, Decide
  <1>17. ASSUME NEW c \in Conns, TcpDisconnect(c) PROVE Spent'
    BY <1>17 DEF TypeOK, ConnsTyped, ResponsesTyped, Spent, counters, tcpVars,
       TcpDisconnect
  <1>18. CASE TcpRespond
    BY <1>18 DEF TypeOK, ConnsTyped, ResponsesTyped, Spent, counters, tcpVars,
       TcpRespond, Respond
  <1>19. CASE StopTcp
    BY <1>19 DEF TypeOK, ConnsTyped, ResponsesTyped, Spent, counters, tcpVars,
       StopTcp
  <1>20. CASE StopPool
    BY <1>20 DEF TypeOK, ConnsTyped, ResponsesTyped, Spent, counters, tcpVars,
       StopPool
  <1>21. CASE PoolStopped
    BY <1>21 DEF TypeOK, ConnsTyped, ResponsesTyped, Spent, counters, tcpVars,
       PoolStopped
  <1>22. CASE UNCHANGED vars
    BY <1>22 DEF TypeOK, ConnsTyped, ResponsesTyped, Spent, vars, counters,
       tcpVars
  <1> QED
    BY <1>1, <1>2, <1>3, <1>4, <1>5, <1>6, <1>7, <1>8, <1>9, <1>10, <1>11,
       <1>12, <1>13, <1>14, <1>15, <1>16, <1>17, <1>18, <1>19, <1>20, <1>21,
       <1>22 DEF Next, HttpStep, WorkerStep, TcpStep, StopStep, Requests

(* No second response is written to a connection. *)
LEMMA OneResponseStays ==
  ASSUME TypeOK, Spent, OneResponsePerConnection, [Next]_vars
  PROVE  OneResponsePerConnection'
  <1>1. CASE TcpRespond
    <2>1. Head(loop) \in TcpRequests
      <3>1. loop \in Seq(TcpRequests) /\ loop # <<>>
        BY <1>1 DEF TypeOK, ResponsesTyped, TcpRespond, Respond
      <3> QED
        BY <3>1
    <2> DEFINE d == owner[Head(loop)]
    <2>2. CASE sent' = sent
      BY <2>2 DEF OneResponsePerConnection
    <2>3. CASE /\ conn[d] = "connected"
               /\ sent' = [sent EXCEPT ![d] = Append(@, Head(loop))]
      <3> SUFFICES ASSUME NEW c \in Conns PROVE Len(sent'[c]) <= 1
        BY DEF OneResponsePerConnection
      <3>1. CASE c # d
        BY <2>3, <3>1 DEF OneResponsePerConnection, TypeOK, ResponsesTyped
      <3>2. CASE c = d
        <4>1. sent[d] = <<>>
          BY <2>3, <3>2 DEF Spent
        <4>2. sent'[d] = Append(<<>>, Head(loop))
          BY <2>3, <3>2, <4>1 DEF TypeOK, ResponsesTyped
        <4>3. Len(sent'[d]) = 1
          BY <4>2
        <4>4. Len(sent'[c]) = 1
          BY <4>3, <3>2, Zenon
        <4> QED
          BY <4>4
      <3> QED
        BY <3>1, <3>2
    <2> QED
      BY <1>1, <2>2, <2>3 DEF TcpRespond, Respond
  <1>2. CASE UNCHANGED <<sent>>
    BY <1>2 DEF OneResponsePerConnection
  <1> QED
    BY Writers, <1>1, <1>2

(* No step leaves a buffer to a connection that is gone. *)
LEMMA BuffersStayLive ==
  ASSUME TypeOK, BuffersAreLive, [Next]_vars
  PROVE  BuffersAreLive'
  <1>1. ASSUME NEW c \in Conns, TcpConnect(c) PROVE BuffersAreLive'
    BY <1>1 DEF TypeOK, ConnsTyped, BuffersAreLive, Receiving, TcpConnect
  <1>2. ASSUME NEW c \in Conns, TcpPartial(c) PROVE BuffersAreLive'
    BY <1>2 DEF TypeOK, ConnsTyped, BuffersAreLive, Receiving, TcpPartial
  <1>3. ASSUME NEW c \in Conns, TcpDisconnect(c) PROVE BuffersAreLive'
    BY <1>3 DEF TypeOK, ConnsTyped, BuffersAreLive, Receiving, TcpDisconnect
  <1>4. ASSUME NEW c \in Conns, NEW r \in TcpRequests, TcpAccepted(c, r)
       PROVE  BuffersAreLive'
    BY <1>4 DEF TypeOK, ConnsTyped, BuffersAreLive, Receiving, TcpAccepted,
       TcpPayload, Goto
  <1>5. ASSUME NEW c \in Conns, NEW r \in TcpRequests, TcpOverloaded(c, r)
       PROVE  BuffersAreLive'
    BY <1>5 DEF TypeOK, ConnsTyped, BuffersAreLive, Receiving, TcpOverloaded,
       TcpPayload, Goto, Decide
  <1>6. CASE TcpRespond
    BY <1>6 DEF TypeOK, ConnsTyped, BuffersAreLive, Receiving, TcpRespond,
       Respond
  <1>7. CASE StopTcp
    BY <1>7 DEF TypeOK, ConnsTyped, BuffersAreLive, Receiving, StopTcp
  <1>8. CASE UNCHANGED <<conn, tcp_buffers, owner>>
    BY <1>8 DEF TypeOK, ConnsTyped, BuffersAreLive, Receiving
  <1> QED
    BY Writers, <1>1, <1>2, <1>3, <1>4, <1>5, <1>6, <1>7, <1>8

(* A payload keeps a connection that exists, and exhaustion its witness. *)
LEMMA OwnersStay ==
  ASSUME TypeOK, Owned, Exhausted, [Next]_vars
  PROVE  Owned' /\ Exhausted'
<1>1. RequestsMoveOn /\ ConnsMoveOn
  BY RequestSteps, ConnSteps
<1>2. Owned'
  <2> SUFFICES ASSUME NEW r \in TcpRequests, phase'[r] # "new"
               PROVE  owner'[r] \in Conns /\ conn'[owner'[r]] # "new"
    BY DEF Owned
  <2>1. CASE phase[r] = "new"
    BY <1>1, <2>1 DEF RequestsMoveOn
  <2>2. CASE phase[r] # "new"
    <3>1. owner[r] \in Conns /\ conn[owner[r]] # "new"
      BY <2>2 DEF Owned
    <3>2. owner'[r] = owner[r] /\ conn'[owner[r]] # "new"
      BY <1>1, <2>2, <3>1 DEF RequestsMoveOn, ConnsMoveOn
    <3> QED
      BY <3>1, <3>2
  <2> QED
    BY <2>1, <2>2
<1>3. Exhausted'
  <2> SUFFICES ASSUME NEW c \in Conns, conn'[c] = "shut down"
               PROVE  \E q \in TcpRequests :
                        owner'[q] = c /\ phase'[q] = "answered"
    BY DEF Exhausted
  <2>1. CASE conn[c] = "shut down"
    <3>1. PICK q \in TcpRequests : owner[q] = c /\ phase[q] = "answered"
      BY <2>1 DEF Exhausted
    <3>2. owner'[q] = c /\ phase'[q] = "answered"
      BY <1>1, <3>1 DEF RequestsMoveOn
    <3> QED
      BY <3>2
  <2>2. CASE conn[c] # "shut down"
    BY <1>1, <2>2 DEF ConnsMoveOn
  <2> QED
    BY <2>1, <2>2
<1> QED
  BY <1>2, <1>3

(* A drop stays explained, and a new one has an explanation. *)
LEMMA DropsStayExplained ==
  ASSUME TypeOK, Owned, Exhausted, DropsAreExplained, [Next]_vars
  PROVE  DropsAreExplained'
<1>1. RequestsMoveOn /\ ConnsMoveOn /\ DropsHaveCause /\ Owned' /\ Exhausted'
  BY RequestSteps, ConnSteps, DropSteps, OwnersStay
<1> SUFFICES ASSUME NEW r \in TcpRequests, phase'[r] = "dropped"
             PROVE  \/ conn'[owner'[r]] = "closed"
                    \/ \E q \in TcpRequests \ {r} :
                         owner'[q] = owner'[r] /\ phase'[q] = "answered"
  BY DEF DropsAreExplained
<1>2. owner'[r] \in Conns /\ conn'[owner'[r]] # "new"
  BY <1>1 DEF Owned
<1>3. CASE phase[r] = "dropped"
  <2>1. owner'[r] = owner[r] /\ owner[r] \in Conns
    BY <1>1, <1>3 DEF RequestsMoveOn, Owned
  <2>2. CASE conn[owner[r]] = "closed"
    BY <1>1, <2>1, <2>2 DEF ConnsMoveOn
  <2>3. CASE conn[owner[r]] # "closed"
    <3>1. PICK q \in TcpRequests \ {r} :
            owner[q] = owner[r] /\ phase[q] = "answered"
      BY <1>3, <2>3 DEF DropsAreExplained
    <3>2. owner'[q] = owner'[r] /\ phase'[q] = "answered"
      BY <1>1, <2>1, <3>1 DEF RequestsMoveOn
    <3> QED
      BY <3>1, <3>2
  <2> QED
    BY <2>2, <2>3
<1>4. CASE phase[r] # "dropped"
  <2>1. CASE \A c \in Conns : conn'[c] = "closed"
    BY <1>2, <2>1
  <2>2. CASE /\ UNCHANGED <<conn, owner>>
             /\ owner[r] \notin {c \in Conns : conn[c] = "connected"}
    <3>1. conn'[owner'[r]] \in {"shut down", "closed"}
      BY <1>2, <2>2 DEF TypeOK, ConnsTyped
    <3>2. CASE conn'[owner'[r]] = "shut down"
      <4>1. PICK q \in TcpRequests :
              owner'[q] = owner'[r] /\ phase'[q] = "answered"
        BY <1>1, <1>2, <3>2 DEF Exhausted
      <4> QED
        BY <4>1
    <3> QED
      BY <3>1, <3>2
  <2> QED
    BY <1>1, <1>4, <2>1, <2>2 DEF DropsHaveCause
<1> QED
  BY <1>3, <1>4

(* One response per connection, explained drops and live buffers, always. *)
THEOREM ConnectionsAreServedOnce ==
  Spec => [](OneResponsePerConnection /\ DropsAreExplained /\ BuffersAreLive)
<1>1. Init => /\ Owned /\ Exhausted /\ Spent
              /\ OneResponsePerConnection /\ DropsAreExplained /\ BuffersAreLive
  <2> SUFFICES ASSUME Init
               PROVE  /\ Owned /\ Exhausted /\ Spent
                      /\ OneResponsePerConnection /\ DropsAreExplained
                      /\ BuffersAreLive
    OBVIOUS
  <2>1. Owned /\ Exhausted /\ Spent
    BY DEF Init, Owned, Exhausted, Spent, Requests
  <2>2. DropsAreExplained /\ BuffersAreLive
    BY DEF Init, DropsAreExplained, BuffersAreLive, Requests
  <2>3. OneResponsePerConnection
    BY DEF Init, OneResponsePerConnection
  <2> QED
    BY <2>1, <2>2, <2>3
<1>2. /\ TypeOK /\ [Next]_vars
      /\ Owned /\ Exhausted /\ Spent
      /\ OneResponsePerConnection /\ DropsAreExplained /\ BuffersAreLive
   => /\ Owned' /\ Exhausted' /\ Spent'
      /\ OneResponsePerConnection' /\ DropsAreExplained' /\ BuffersAreLive'
  <2> SUFFICES ASSUME TypeOK, [Next]_vars, Owned, Exhausted, Spent,
                      OneResponsePerConnection, DropsAreExplained,
                      BuffersAreLive
               PROVE  /\ Owned' /\ Exhausted' /\ Spent'
                      /\ OneResponsePerConnection' /\ DropsAreExplained'
                      /\ BuffersAreLive'
    OBVIOUS
  <2>1. Owned' /\ Exhausted'
    BY OwnersStay
  <2>2. Spent' /\ OneResponsePerConnection'
    BY ResponsesSpend, OneResponseStays
  <2>3. DropsAreExplained' /\ BuffersAreLive'
    BY DropsStayExplained, BuffersStayLive
  <2> QED
    BY <2>1, <2>2, <2>3
<1> QED
  BY <1>1, <1>2, ServiceTypeCorrect, PTL DEF Spec

(* A connection gets one response at most, however many payloads come        *)
(* through it (onMessage and the completion callback).                       *)
THEOREM OneResponseEach == Spec => []OneResponsePerConnection
  BY ConnectionsAreServedOnce, PTL

(* A result is dropped only when its client is gone or another payload of    *)
(* the same connection was answered first (the completion callback).         *)
THEOREM DropsHaveReasons == Spec => []DropsAreExplained
  BY ConnectionsAreServedOnce, PTL

(* A buffer belongs to an open connection and not to one that is gone.       *)
THEOREM BuffersBelongToConnections == Spec => []BuffersAreLive
  BY ConnectionsAreServedOnce, PTL

-----------------------------------------------------------------------------
(* Answers and executions *)

Recognition == {"recognised", "not recognised"}

(* What the phase and the verdict of a request say of its place in the pool. *)
Ledger ==
  \A r \in Requests :
    /\ phase[r] \in {"new", "counted"} => r \notin Pool!Known
    /\ verdict[r] \in {"bad request", "server error"} => r \notin Pool!Known
    /\ verdict[r] = "overloaded" =>
         r \in refused /\ r \notin Pool!Elements(queue) \cup running \cup finished
    /\ phase[r] = "accepted" \/ verdict[r] \in Recognition => r \notin refused
    /\ verdict[r] \in Recognition /\ phase[r] \notin {"predicted", "scored"} =>
         r \in finished

(* The pool's queue holds requests. *)
PoolTyped == queue \in Seq(Requests)

(* What the pool's operations do to the set of queued requests. *)
LEMMA QueueSets ==
  ASSUME PoolTyped
  PROVE  /\ \A r \in Requests :
              Pool!Elements(Append(queue, r)) = Pool!Elements(queue) \cup {r}
         /\ queue # <<>> => /\ Head(queue) \in Pool!Elements(queue)
                           /\ Pool!Elements(Tail(queue)) \subseteq Pool!Elements(queue)
<1>1. ASSUME NEW r \in Requests
      PROVE  Pool!Elements(Append(queue, r)) = Pool!Elements(queue) \cup {r}
  <2>1. /\ Len(Append(queue, r)) = Len(queue) + 1
        /\ Len(queue) \in Nat
        /\ \A i \in 1..Len(queue) : Append(queue, r)[i] = queue[i]
        /\ Append(queue, r)[Len(queue) + 1] = r
    BY AppendProperties DEF PoolTyped
  <2> QED
    BY <2>1 DEF Pool!Elements
<1>2. ASSUME queue # <<>>
      PROVE  /\ Head(queue) \in Pool!Elements(queue)
             /\ Pool!Elements(Tail(queue)) \subseteq Pool!Elements(queue)
  <2>1. /\ Len(queue) \in Nat /\ Len(queue) > 0
        /\ Head(queue) = queue[1]
    BY <1>2 DEF PoolTyped
  <2>2. /\ Len(Tail(queue)) = Len(queue) - 1
        /\ \A i \in 1..Len(Tail(queue)) : Tail(queue)[i] = queue[i + 1]
    BY <1>2, HeadTailProperties DEF PoolTyped
  <2> QED
    BY <2>1, <2>2 DEF Pool!Elements
<1> QED
  BY <1>1, <1>2

(* Only requests are queued. *)
LEMMA QueueStaysTyped ==
  ASSUME PoolTyped, [Next]_vars
  PROVE  PoolTyped'
  <1>1. CASE StartTask
    <2>1. queue \in Seq(Requests) /\ queue # <<>> /\ queue' = Tail(queue)
      BY <1>1 DEF PoolTyped, StartTask, Pool!Start
    <2> QED
      BY <2>1 DEF PoolTyped
  <1>2. ASSUME NEW r \in Requests, HttpAccepted(r) PROVE PoolTyped'
    BY <1>2 DEF PoolTyped, Requests, Pool!Accept, HttpAccepted, Goto
  <1>3. ASSUME NEW c \in Conns, NEW r \in TcpRequests, TcpAccepted(c, r)
       PROVE  PoolTyped'
    BY <1>3 DEF PoolTyped, Requests, Pool!Accept, TcpAccepted, TcpPayload,
       Goto
  <1>4. CASE UNCHANGED <<queue>>
    BY <1>4 DEF PoolTyped
  <1> QED
    BY Writers, <1>1, <1>2, <1>3, <1>4

(* Verdicts, phases and the pool change together. *)
LEMMA LedgerStays ==
  ASSUME TypeOK, VerdictFits, PoolTyped, Ledger, [Next]_vars
  PROVE  Ledger'
  <1>0. ASSUME UNCHANGED <<phase, verdict, queue, running, finished, refused>>
        PROVE  Ledger'
    BY <1>0 DEF Ledger, Pool!Known, Pool!Elements
  <1>1. ASSUME NEW r \in Requests, HttpArrive(r) PROVE Ledger'
    BY <1>1 DEF TypeOK, RequestsTyped, Ledger, Recognition, Requests,
       VerdictFits, Pool!Known, Pool!Elements, poolVars, counters, tcpVars,
       HttpArrive, Goto
  <1>2. ASSUME NEW r \in Requests, HttpBadRequest(r) \/ HttpThrows(r)
       PROVE  Ledger'
    <2>1. /\ UNCHANGED <<queue, running, finished, refused>>
          /\ phase[r] = "counted" /\ phase'[r] \in {"rejected", "answered"}
          /\ verdict'[r] \in {"bad request", "server error"}
          /\ \A q \in Requests \ {r} :
               phase'[q] = phase[q] /\ verdict'[q] = verdict[q]
      BY <1>2 DEF TypeOK, RequestsTyped, HttpBadRequest, HttpThrows, Goto,
         Decide, poolVars
    <2>2. Pool!Known' = Pool!Known /\ Pool!Elements(queue') = Pool!Elements(queue)
      BY <2>1 DEF Pool!Known, Pool!Elements
    <2>3. r \notin Pool!Known'
      BY <2>1, <2>2 DEF Ledger
    <2>4. /\ verdict'[r] \notin Recognition /\ verdict'[r] # "overloaded"
          /\ phase'[r] # "accepted"
      BY <2>1 DEF Recognition
    <2> QED
      BY <2>1, <2>2, <2>3, <2>4 DEF Ledger
  <1>3. ASSUME NEW r \in Requests, HttpAccepted(r) PROVE Ledger'
    <2>1. /\ queue' = Append(queue, r) /\ r \in Requests /\ r \notin Pool!Known
          /\ UNCHANGED <<open, running, finished, refused, halted, verdict>>
          /\ phase' = [phase EXCEPT ![r] = "accepted"] /\ phase[r] \in {"new", "counted"}
      BY <1>3 DEF HttpAccepted, Goto, Pool!Accept, Requests
    <2>2. Pool!Elements(queue') = Pool!Elements(queue) \cup {r}
      BY <2>1, QueueSets
    <2> QED
      BY <2>1, <2>2 DEF TypeOK, RequestsTyped, Ledger, Recognition, Requests,
         VerdictFits, Pool!Known
  <1>4. ASSUME NEW r \in Requests, HttpOverloaded(r) PROVE Ledger'
    <2>1. /\ r \in Requests /\ r \notin Pool!Known
          /\ refused' = refused \cup {r}
          /\ UNCHANGED <<queue, running, finished>>
          /\ verdict' = [verdict EXCEPT ![r] = "overloaded"]
          /\ \A q \in Requests \ {r} : phase'[q] = phase[q]
          /\ phase'[r] \notin {"new", "counted", "accepted"}
      BY <1>4 DEF TypeOK, RequestsTyped, HttpOverloaded, Goto, Decide,
         Pool!Refuse, Requests
    <2>2. Pool!Elements(queue') = Pool!Elements(queue)
      BY <2>1
    <2> QED
      BY <2>1, <2>2 DEF TypeOK, RequestsTyped, Ledger, Recognition, Pool!Known
  <1>5. ASSUME NEW r \in Requests, HttpScoreRejected(r) PROVE Ledger'
    BY <1>5 DEF TypeOK, RequestsTyped, Ledger, Recognition, Requests,
       VerdictFits, Pool!Known, Pool!Elements, poolVars, counters, tcpVars,
       HttpScoreRejected, Goto
  <1>6. ASSUME NEW r \in Requests, HttpReplyRejected(r) PROVE Ledger'
    <2>1. /\ UNCHANGED <<queue, running, finished, refused, verdict>>
          /\ phase[r] = "scored" /\ phase'[r] = "answered"
          /\ verdict[r] \in {"bad request", "overloaded"}
          /\ \A q \in Requests \ {r} : phase'[q] = phase[q]
      BY <1>6 DEF TypeOK, RequestsTyped, HttpReplyRejected, Goto, poolVars
    <2>2. Pool!Known' = Pool!Known /\ Pool!Elements(queue') = Pool!Elements(queue)
      BY <2>1 DEF Pool!Known, Pool!Elements
    <2> QED
      BY <2>1, <2>2 DEF Ledger, Recognition
  <1>7. ASSUME NEW r \in Requests, Predict(r) PROVE Ledger'
    <2>1. /\ UNCHANGED <<queue, running, finished, refused>>
          /\ phase[r] = "accepted" /\ phase'[r] = "predicted"
          /\ verdict'[r] \in Recognition
          /\ \A q \in Requests \ {r} :
               phase'[q] = phase[q] /\ verdict'[q] = verdict[q]
      BY <1>7 DEF TypeOK, RequestsTyped, Recognition, poolVars, Predict, Goto,
         Decide
    <2>2. Pool!Known' = Pool!Known /\ Pool!Elements(queue') = Pool!Elements(queue)
      BY <2>1 DEF Pool!Known
    <2> QED
      BY <2>1, <2>2 DEF Ledger, Recognition
  <1>8. ASSUME NEW r \in Requests, Throw(r) PROVE Ledger'
    <2>1. /\ r \in running /\ running' = running \ {r}
          /\ finished' = finished \cup {r}
          /\ UNCHANGED <<queue, refused, verdict>>
          /\ \A q \in Requests \ {r} : phase'[q] = phase[q]
          /\ phase[r] \in {"accepted", "scored"}
          /\ phase'[r] \notin {"new", "counted", "accepted"}
      BY <1>8 DEF TypeOK, RequestsTyped, Throw, Goto, Pool!Finish
    <2>2. Pool!Elements(queue') = Pool!Elements(queue)
      BY <2>1
    <2> QED
      BY <2>1, <2>2 DEF Ledger, Recognition, Pool!Known
  <1>9. ASSUME NEW r \in Requests, Score(r) PROVE Ledger'
    BY <1>9 DEF TypeOK, RequestsTyped, Ledger, Recognition, Requests,
       VerdictFits, Pool!Known, Pool!Elements, poolVars, counters, tcpVars,
       Score, Goto
  <1>10. ASSUME NEW r \in Requests, HttpReply(r) PROVE Ledger'
    <2>1. /\ r \in running /\ running' = running \ {r}
          /\ finished' = finished \cup {r}
          /\ UNCHANGED <<queue, refused, verdict>>
          /\ \A q \in Requests \ {r} : phase'[q] = phase[q]
          /\ phase[r] \in {"accepted", "scored"}
          /\ phase'[r] \notin {"new", "counted", "accepted"}
      BY <1>10 DEF TypeOK, RequestsTyped, HttpReply, Goto, Pool!Finish
    <2>2. Pool!Elements(queue') = Pool!Elements(queue)
      BY <2>1
    <2> QED
      BY <2>1, <2>2 DEF Ledger, Recognition, Pool!Known
  <1>11. ASSUME NEW r \in Requests, TcpPost(r) PROVE Ledger'
    <2>1. /\ r \in running /\ running' = running \ {r}
          /\ finished' = finished \cup {r}
          /\ UNCHANGED <<queue, refused, verdict>>
          /\ \A q \in Requests \ {r} : phase'[q] = phase[q]
          /\ phase[r] \in {"accepted", "scored"}
          /\ phase'[r] \notin {"new", "counted", "accepted"}
      BY <1>11 DEF TypeOK, RequestsTyped, TcpPost, Goto, Pool!Finish
    <2>2. Pool!Elements(queue') = Pool!Elements(queue)
      BY <2>1
    <2> QED
      BY <2>1, <2>2 DEF Ledger, Recognition, Pool!Known
  <1>12. CASE StartTask
    <2>1. /\ queue' = Tail(queue) /\ queue # <<>>
          /\ running' = running \cup {Head(queue)}
          /\ UNCHANGED <<finished, refused, phase, verdict>>
      BY <1>12 DEF StartTask, Pool!Start
    <2>2. /\ Head(queue) \in Pool!Elements(queue)
          /\ Pool!Elements(queue') \subseteq Pool!Elements(queue)
      BY <2>1, QueueSets
    <2> QED
      BY <2>1, <2>2 DEF TypeOK, RequestsTyped, Ledger, Recognition, Requests,
         Pool!Known
  <1>13. ASSUME NEW c \in Conns, TcpConnect(c) PROVE Ledger'
    BY <1>0, <1>13 DEF TcpConnect, poolVars
  <1>14. ASSUME NEW c \in Conns, TcpPartial(c) PROVE Ledger'
    BY <1>0, <1>14 DEF TcpPartial, poolVars
  <1>15. ASSUME NEW c \in Conns, NEW r \in TcpRequests, TcpAccepted(c, r)
       PROVE Ledger'
    <2>1. /\ queue' = Append(queue, r) /\ r \in Requests /\ r \notin Pool!Known
          /\ UNCHANGED <<open, running, finished, refused, halted, verdict>>
          /\ phase' = [phase EXCEPT ![r] = "accepted"] /\ phase[r] \in {"new", "counted"}
      BY <1>15 DEF TcpAccepted, TcpPayload, Goto, Pool!Accept, Requests
    <2>2. Pool!Elements(queue') = Pool!Elements(queue) \cup {r}
      BY <2>1, QueueSets
    <2> QED
      BY <2>1, <2>2 DEF TypeOK, RequestsTyped, Ledger, Recognition, Requests,
         VerdictFits, Pool!Known
  <1>16. ASSUME NEW c \in Conns, NEW r \in TcpRequests, TcpOverloaded(c, r)
       PROVE Ledger'
    <2>1. /\ r \in Requests /\ r \notin Pool!Known
          /\ refused' = refused \cup {r}
          /\ UNCHANGED <<queue, running, finished>>
          /\ verdict' = [verdict EXCEPT ![r] = "overloaded"]
          /\ \A q \in Requests \ {r} : phase'[q] = phase[q]
          /\ phase'[r] \notin {"new", "counted", "accepted"}
      BY <1>16 DEF TypeOK, RequestsTyped, TcpOverloaded, TcpPayload, Goto,
         Decide, Pool!Refuse, Requests
    <2>2. Pool!Elements(queue') = Pool!Elements(queue)
      BY <2>1
    <2> QED
      BY <2>1, <2>2 DEF TypeOK, RequestsTyped, Ledger, Recognition, Pool!Known
  <1>17. ASSUME NEW c \in Conns, TcpDisconnect(c) PROVE Ledger'
    BY <1>17 DEF TypeOK, RequestsTyped, Ledger, Recognition, Requests,
       VerdictFits, Pool!Known, Pool!Elements, poolVars, counters, tcpVars,
       TcpDisconnect
  <1>18. CASE TcpRespond
    <2>1. Head(loop) \in TcpRequests
      <3>1. loop \in Seq(TcpRequests) /\ loop # <<>>
        BY <1>18 DEF TypeOK, ResponsesTyped, TcpRespond, Respond
      <3> QED
        BY <3>1
    <2>2. /\ UNCHANGED <<queue, running, finished, refused, verdict>>
          /\ phase[Head(loop)] = "posted"
          /\ phase'[Head(loop)] \in {"answered", "dropped"}
          /\ \A q \in Requests \ {Head(loop)} : phase'[q] = phase[q]
      BY <1>18, <2>1 DEF TypeOK, RequestsTyped, Requests, poolVars,
         TcpRespond, Respond, Goto
    <2>3. Pool!Known' = Pool!Known /\ Pool!Elements(queue') = Pool!Elements(queue)
      BY <2>2 DEF Pool!Known
    <2> QED
      BY <2>1, <2>2, <2>3 DEF Ledger, Recognition, Requests
  <1>19. CASE StopTcp
    BY <1>19 DEF TypeOK, RequestsTyped, Ledger, Recognition, Requests,
       VerdictFits, Pool!Known, Pool!Elements, poolVars, counters, tcpVars,
       StopTcp
  <1>20. CASE StopPool
    BY <1>20 DEF TypeOK, RequestsTyped, Ledger, Recognition, Requests,
       VerdictFits, Pool!Known, Pool!Elements, poolVars, counters, tcpVars,
       StopPool, Pool!Close
  <1>21. CASE PoolStopped
    BY <1>0, <1>21 DEF PoolStopped, Pool!Halt
  <1>22. CASE UNCHANGED vars
    BY <1>0, <1>22 DEF vars, poolVars
  <1> QED
    BY <1>1, <1>2, <1>3, <1>4, <1>5, <1>6, <1>7, <1>8, <1>9, <1>10, <1>11,
       <1>12, <1>13, <1>14, <1>15, <1>16, <1>17, <1>18, <1>19, <1>20, <1>21,
       <1>22 DEF Next, HttpStep, WorkerStep, TcpStep, StopStep, Requests

(* 503 without execution, 200 only after execution, always. *)
THEOREM AnswersAreTrue == Spec => []AnswersMatchExecution
<1>1. Init => VerdictFits /\ PoolTyped /\ Ledger
  <2> SUFFICES ASSUME Init PROVE VerdictFits /\ PoolTyped /\ Ledger
    OBVIOUS
  <2>1. VerdictFits /\ PoolTyped
    BY DEF Init, VerdictFits, PoolTyped, Pool!Init
  <2>2. Pool!Known = {}
    BY DEF Init, Pool!Init, Pool!Known, Pool!Elements
  <2> QED
    BY <2>1, <2>2 DEF Init, Ledger, Recognition
<1>2. TypeOK /\ [Next]_vars /\ VerdictFits /\ PoolTyped /\ Ledger
        => VerdictFits' /\ PoolTyped' /\ Ledger'
  BY VerdictsKeepFitting, QueueStaysTyped, LedgerStays
<1>3. TypeOK /\ VerdictFits /\ Ledger => AnswersMatchExecution
  <2> SUFFICES ASSUME TypeOK, VerdictFits, Ledger,
                      NEW r \in Requests, phase[r] = "answered"
               PROVE  /\ verdict[r] \in Recognition <=> r \in finished
                      /\ verdict[r] = "overloaded" <=> r \in refused
    BY DEF AnswersMatchExecution, Recognition
  <2>1. verdict[r] \in Verdicts /\ verdict[r] # "none"
    BY DEF TypeOK, RequestsTyped, VerdictFits
  <2> QED
    BY <2>1 DEF Ledger, Recognition, Verdicts, Pool!Known
<1> QED
  BY <1>1, <1>2, <1>3, ServiceTypeCorrect, PTL DEF Spec

-----------------------------------------------------------------------------
(* The service and its pool *)

(* A request that has been accepted and whose callback has not returned. *)
InHand(r) ==
  \/ phase[r] \in {"accepted", "predicted"}
  \/ phase[r] = "scored" /\ verdict[r] \in Recognition

(* Each step uses the pool through one of its operations or not at all, and  *)
(* a task ends with the request it was for.                                  *)
UsesPool ==
  \/ \E r \in Requests : Pool!Accept(r) \/ Pool!Refuse(r)
  \/ \E r \in Requests : Pool!Finish(r) /\ ~InHand(r)'
  \/ Pool!Start \/ Pool!Close \/ Pool!Halt
  \/ UNCHANGED poolVars

(* Every step of the service does. *)
LEMMA StepsUsePool ==
  ASSUME TypeOK, [Next]_vars
  PROVE  UsesPool
<1>1. ASSUME NEW r \in Requests, Throw(r) \/ HttpReply(r) \/ TcpPost(r)
      PROVE  UsesPool
  <2>1. Pool!Finish(r)
    BY <1>1 DEF Throw, HttpReply, TcpPost
  <2>2. phase'[r] \in {"lost", "answered", "posted", "dangling"}
    BY <1>1 DEF TypeOK, RequestsTyped, Throw, HttpReply, TcpPost, Goto
  <2>3. ~InHand(r)'
    BY <2>2 DEF InHand
  <2> QED
    BY <2>1, <2>3 DEF UsesPool
<1>2. ASSUME NEW r \in Requests,
             \/ HttpArrive(r) \/ HttpBadRequest(r) \/ HttpThrows(r)
             \/ HttpScoreRejected(r) \/ HttpReplyRejected(r)
             \/ Predict(r) \/ Score(r)
      PROVE  UsesPool
  BY <1>2 DEF UsesPool, HttpArrive, HttpBadRequest, HttpThrows,
     HttpScoreRejected, HttpReplyRejected, Predict, Score
<1>3. ASSUME NEW r \in Requests, HttpAccepted(r) \/ HttpOverloaded(r)
      PROVE  UsesPool
  BY <1>3 DEF UsesPool, HttpAccepted, HttpOverloaded
<1>4. ASSUME NEW c \in Conns, NEW r \in TcpRequests,
             TcpAccepted(c, r) \/ TcpOverloaded(c, r)
      PROVE  UsesPool
  BY <1>4 DEF UsesPool, TcpAccepted, TcpOverloaded, Requests
<1>5. ASSUME NEW c \in Conns, TcpConnect(c) \/ TcpPartial(c) \/ TcpDisconnect(c)
      PROVE  UsesPool
  BY <1>5 DEF UsesPool, TcpConnect, TcpPartial, TcpDisconnect
<1>6. CASE StartTask \/ TcpRespond
  BY <1>6 DEF UsesPool, StartTask, TcpRespond, Respond
<1>7. CASE StopTcp \/ StopPool \/ PoolStopped \/ UNCHANGED vars
  BY <1>7 DEF UsesPool, StopTcp, StopPool, PoolStopped, vars
<1> QED
  BY <1>1, <1>2, <1>3, <1>4, <1>5, <1>6, <1>7
     DEF Next, HttpStep, WorkerStep, TcpStep, StopStep

(* The service asks nothing of the pool that TaskPool does not offer, in any *)
(* interleaving of handlers, loop, workers and stop(): whatever implements   *)
(* TaskPool, as WorkerPool does, serves it (the calls of submit() at         *)
(* server_worker_pool.cpp:118 and of stop_all() at server.cpp:183).          *)
THEOREM ServiceKeepsToPool == Spec => Pool!Spec
<1>1. Init => Pool!Init
  BY DEF Init
<1>2. TypeOK /\ [Next]_vars => [Pool!Next]_(Pool!poolVars)
  BY StepsUsePool DEF UsesPool, Pool!Next, Pool!poolVars, poolVars
<1> QED
  BY <1>1, <1>2, ServiceTypeCorrect, PTL DEF Spec, Pool!Spec

-----------------------------------------------------------------------------
(* A request in hand is queued or being executed, and both are bounded. *)
Backlog ==
  /\ running \subseteq Requests
  /\ Len(queue) <= MaxQueue
  /\ Cardinality(running) <= NumWorkers
  /\ \A r \in Requests : InHand(r) => r \in Pool!Elements(queue) \cup running
  /\ \A r \in Requests : phase[r] = "rejected" => verdict[r] \notin Recognition

(* A request comes into hand when it is queued, and no other way. *)
HandsMove ==
  \A q \in Requests :
    /\ InHand(q)' => InHand(q) \/ queue' = Append(queue, q)
    /\ phase'[q] = "rejected" =>
         \/ verdict'[q] \notin Recognition
         \/ phase[q] = "rejected" /\ verdict'[q] = verdict[q]

(* Every step moves requests so. *)
LEMMA HandSteps ==
  ASSUME TypeOK, Backlog, [Next]_vars
  PROVE  HandsMove
<1> USE DEF TypeOK, RequestsTyped, Backlog, HandsMove, InHand, Recognition
<1>1. ASSUME NEW r \in Requests, HttpArrive(r) PROVE HandsMove
  BY <1>1 DEF HttpArrive, Goto
<1>2. ASSUME NEW r \in Requests, HttpBadRequest(r) \/ HttpThrows(r)
       PROVE  HandsMove
  BY <1>2 DEF HttpBadRequest, HttpThrows, Goto, Decide
<1>3. ASSUME NEW r \in Requests, HttpAccepted(r) PROVE HandsMove
  BY <1>3 DEF HttpAccepted, Goto, Pool!Accept
<1>4. ASSUME NEW r \in Requests, HttpOverloaded(r) PROVE HandsMove
  BY <1>4 DEF HttpOverloaded, Goto, Decide
<1>5. ASSUME NEW r \in Requests, HttpScoreRejected(r) PROVE HandsMove
  BY <1>5 DEF HttpScoreRejected, Goto
<1>6. ASSUME NEW r \in Requests, HttpReplyRejected(r) PROVE HandsMove
  BY <1>6 DEF HttpReplyRejected, Goto
<1>7. ASSUME NEW r \in Requests, Predict(r) PROVE HandsMove
  BY <1>7 DEF Predict, Goto, Decide
<1>8. ASSUME NEW r \in Requests, Throw(r) PROVE HandsMove
  BY <1>8 DEF Throw, Goto
<1>9. ASSUME NEW r \in Requests, Score(r) PROVE HandsMove
  BY <1>9 DEF Score, Goto
<1>10. ASSUME NEW r \in Requests, HttpReply(r) PROVE HandsMove
  BY <1>10 DEF HttpReply, Goto
<1>11. ASSUME NEW r \in Requests, TcpPost(r) PROVE HandsMove
  BY <1>11 DEF TcpPost, Goto
<1>12. CASE StartTask
  BY <1>12 DEF StartTask
<1>13. ASSUME NEW c \in Conns, TcpConnect(c) \/ TcpPartial(c) \/ TcpDisconnect(c)
       PROVE  HandsMove
  BY <1>13 DEF TcpConnect, TcpPartial, TcpDisconnect
<1>14. ASSUME NEW c \in Conns, NEW r \in TcpRequests, TcpAccepted(c, r)
       PROVE  HandsMove
  BY <1>14 DEF TcpAccepted, Goto, Pool!Accept, Requests
<1>15. ASSUME NEW c \in Conns, NEW r \in TcpRequests, TcpOverloaded(c, r)
       PROVE  HandsMove
  BY <1>15 DEF TcpOverloaded, Goto, Decide, Requests
<1>16. CASE TcpRespond
  BY <1>16 DEF TcpRespond, Respond, Goto
<1>17. CASE StopTcp
  BY <1>17 DEF StopTcp
<1>18. CASE StopPool \/ PoolStopped
  BY <1>18 DEF StopPool, PoolStopped
<1>19. CASE UNCHANGED vars
  BY <1>19 DEF vars
<1> QED
  BY <1>1, <1>2, <1>3, <1>4, <1>5, <1>6, <1>7, <1>8, <1>9, <1>10, <1>11,
     <1>12, <1>13, <1>14, <1>15, <1>16, <1>17, <1>18, <1>19
     DEF Next, HttpStep, WorkerStep, TcpStep, StopStep

(* What leaves the queue is at its head. *)
LEMMA HeadAndTail ==
  ASSUME PoolTyped, queue # <<>>
  PROVE  /\ Head(queue) \in Requests
         /\ Len(Tail(queue)) = Len(queue) - 1
         /\ Pool!Elements(queue) \subseteq Pool!Elements(Tail(queue)) \cup {Head(queue)}
<1>1. /\ Len(queue) \in Nat /\ Len(queue) > 0
      /\ Head(queue) = queue[1] /\ Head(queue) \in Requests
  BY DEF PoolTyped
<1>2. /\ Len(Tail(queue)) = Len(queue) - 1
      /\ \A i \in 1..Len(Tail(queue)) : Tail(queue)[i] = queue[i + 1]
  BY HeadTailProperties DEF PoolTyped
<1>3. ASSUME NEW i \in 1..Len(queue), i # 1
      PROVE  queue[i] \in Pool!Elements(Tail(queue))
  <2>1. i - 1 \in 1..Len(Tail(queue)) /\ (i - 1) + 1 = i
    BY <1>1, <1>2, <1>3
  <2> QED
    BY <1>2, <2>1 DEF Pool!Elements
<1> QED
  BY <1>1, <1>2, <1>3 DEF Pool!Elements

(* Every step keeps to the bounds. *)
LEMMA BacklogStays ==
  ASSUME TypeOK, PoolTyped, Backlog, [Next]_vars
  PROVE  Backlog'
<1> DEFINE Inside == Pool!Elements(queue) \cup running
<1>1. /\ HandsMove /\ UsesPool
      /\ Len(queue) \in Nat /\ MaxQueue \in Nat /\ NumWorkers \in Nat
  BY HandSteps, StepsUsePool, LimitsAssumption DEF PoolTyped
<1>2. IsFiniteSet(running) /\ Cardinality(running) \in Nat
  <2>1. IsFiniteSet(Requests)
    BY RequestsAssumption
  <2> QED
    BY <2>1, FS_Subset, FS_CardinalityType DEF Backlog
<1>3. \A r \in Requests : phase'[r] = "rejected" => verdict'[r] \notin Recognition
  BY <1>1 DEF HandsMove, Backlog
<1>4. ASSUME NEW r \in Requests, Pool!Accept(r)
      PROVE  Backlog'
  <2>1. /\ queue' = Append(queue, r) /\ Len(queue) < MaxQueue /\ running' = running
        /\ Pool!Elements(queue') = Pool!Elements(queue) \cup {r}
    BY <1>4, QueueSets DEF Pool!Accept
  <2>2. Len(queue') = Len(queue) + 1 /\ queue'[Len(queue) + 1] = r
    BY <2>1, AppendProperties DEF PoolTyped
  <2>3. ASSUME NEW q \in Requests, InHand(q)'
        PROVE  q \in Pool!Elements(queue') \cup running'
    <3>1. CASE InHand(q)
      BY <2>1, <3>1 DEF Backlog
    <3>2. CASE queue' = Append(queue, q)
      <4>1. Append(queue, q)[Len(queue) + 1] = q
        BY AppendProperties DEF PoolTyped
      <4> QED
        BY <2>1, <2>2, <3>2, <4>1
    <3> QED
      BY <1>1, <2>3, <3>1, <3>2 DEF HandsMove
  <2> QED
    BY <1>1, <1>3, <2>1, <2>2, <2>3 DEF Backlog, Pool!Elements
<1>5. ASSUME queue' = queue \/ (queue' = Tail(queue) /\ queue # <<>>)
      PROVE  \A q \in Requests : InHand(q)' => InHand(q)
  <2>1. \A q \in Requests : Append(queue, q) # queue'
    <3>1. \A q \in Requests : Len(Append(queue, q)) = Len(queue) + 1
      BY AppendProperties DEF PoolTyped
    <3>2. Len(queue') <= Len(queue)
      BY <1>1, <1>5, HeadAndTail
    <3> QED
      BY <1>1, <3>1, <3>2
  <2> QED
    BY <1>1, <2>1 DEF HandsMove
<1>6. ASSUME UNCHANGED <<queue, running>> PROVE Backlog'
  <2>1. Pool!Elements(queue') = Pool!Elements(queue)
    BY <1>6
  <2> QED
    BY <1>3, <1>5, <1>6, <2>1 DEF Backlog
<1>7. CASE Pool!Start
  <2>1. /\ queue # <<>> /\ queue' = Tail(queue) /\ Cardinality(running) < NumWorkers
        /\ running' = running \cup {Head(queue)}
    <3>1. Pool!Cardinality(running) = Cardinality(running)
      BY Zenon DEF Pool!Cardinality, Cardinality
    <3> QED
      BY <1>7, <3>1, Zenon DEF Pool!Start
  <2>2. Head(queue) \in Requests /\ Len(queue') = Len(queue) - 1
    BY <2>1, HeadAndTail
  <2>3. Cardinality(running') <= NumWorkers
    <3>1. Cardinality(running \cup {Head(queue)})
            \in {Cardinality(running), Cardinality(running) + 1}
      BY <1>2, FS_AddElement
    <3> QED
      BY <1>1, <1>2, <2>1, <3>1
  <2>4. Inside \subseteq Pool!Elements(queue') \cup running'
    BY <2>1, HeadAndTail
  <2>5. \A q \in Requests : InHand(q)' => q \in Inside
    BY <1>5, <2>1 DEF Backlog
  <2>6. Len(queue') <= MaxQueue /\ running' \subseteq Requests
    BY <1>1, <2>1, <2>2 DEF Backlog
  <2> HIDE DEF Inside
  <2> QED
    BY <1>3, <2>3, <2>4, <2>5, <2>6 DEF Backlog
<1>8. ASSUME NEW r \in Requests, Pool!Finish(r), ~InHand(r)'
      PROVE  Backlog'
  <2>1. queue' = queue /\ running' = running \ {r}
    BY <1>8 DEF Pool!Finish
  <2>2. Cardinality(running') <= NumWorkers
    <3>1. Cardinality(running \ {r}) \in {Cardinality(running), Cardinality(running) - 1}
      BY <1>2, FS_RemoveElement
    <3> QED
      BY <1>1, <1>2, <2>1, <3>1 DEF Backlog
  <2>3. Pool!Elements(queue') = Pool!Elements(queue)
    BY <2>1
  <2> QED
    BY <1>3, <1>5, <1>8, <2>1, <2>2, <2>3 DEF Backlog
<1>9. (\E r \in Requests : Pool!Refuse(r)) \/ Pool!Close \/ Pool!Halt \/ UNCHANGED poolVars
        => UNCHANGED <<queue, running>>
  BY DEF Pool!Refuse, Pool!Close, Pool!Halt, poolVars
<1> QED
  BY <1>1, <1>4, <1>6, <1>7, <1>8, <1>9 DEF UsesPool

(* However many clients push requests in, the server never has more of them  *)
(* in hand than its queue and its workers hold: the others were refused      *)
(* (submit in server_worker_pool.cpp, the 503 of server_http.cpp).           *)
THEOREM BacklogIsBounded ==
  Spec => [](Cardinality({r \in Requests : InHand(r)}) <= MaxQueue + NumWorkers)
<1>1. Init => PoolTyped /\ Backlog
  <2> SUFFICES ASSUME Init PROVE PoolTyped /\ Backlog
    OBVIOUS
  <2>1. /\ queue = <<>> /\ running = {} /\ MaxQueue \in Nat /\ NumWorkers \in Nat
        /\ \A r \in Requests : phase[r] = "new"
    BY LimitsAssumption DEF Init, Pool!Init
  <2>2. Len(queue) = 0 /\ Cardinality(running) = 0
    BY <2>1, FS_EmptySet
  <2> QED
    BY <2>1, <2>2 DEF PoolTyped, Backlog, InHand
<1>2. TypeOK /\ [Next]_vars /\ PoolTyped /\ Backlog => PoolTyped' /\ Backlog'
  BY QueueStaysTyped, BacklogStays
<1>3. PoolTyped /\ Backlog
        => Cardinality({r \in Requests : InHand(r)}) <= MaxQueue + NumWorkers
  <2> SUFFICES ASSUME PoolTyped, Backlog
               PROVE  Cardinality({r \in Requests : InHand(r)}) <= MaxQueue + NumWorkers
    OBVIOUS
  <2> DEFINE Hand == {r \in Requests : InHand(r)}
             E == Pool!Elements(queue)
             n == Len(queue)
             f == [i \in 1..n |-> queue[i]]
  <2>1. n \in Nat /\ MaxQueue \in Nat /\ NumWorkers \in Nat /\ IsFiniteSet(Requests)
    BY LimitsAssumption, RequestsAssumption DEF PoolTyped
  <2>2. IsFiniteSet(E) /\ Cardinality(E) <= n
    <3>1. f \in Surjection(1..n, E)
      BY DEF Surjection, Pool!Elements
    <3>2. IsFiniteSet(1..n) /\ Cardinality(1..n) = n
      BY <2>1, FS_Interval
    <3> HIDE DEF f, E, n
    <3> QED
      BY <3>1, <3>2, FS_Surjection
  <2>3. IsFiniteSet(running) /\ Cardinality(running) <= NumWorkers /\ n <= MaxQueue
    BY <2>1, FS_Subset DEF Backlog
  <2>4. Hand \subseteq E \cup running
    BY DEF Backlog
  <2> HIDE DEF Hand, E, n
  <2>5. /\ IsFiniteSet(E \cup running)
        /\ Cardinality(E \cup running)
             = Cardinality(E) + Cardinality(running) - Cardinality(E \cap running)
    BY <2>2, <2>3, FS_Union
  <2>6. Cardinality(Hand) <= Cardinality(E \cup running)
    BY <2>4, <2>5, FS_Subset
  <2>7. IsFiniteSet(E \cap running) /\ IsFiniteSet(Hand)
    BY <2>2, <2>4, <2>5, FS_Subset
  <2>8. /\ Cardinality(E) \in Nat /\ Cardinality(running) \in Nat
        /\ Cardinality(E \cap running) \in Nat /\ Cardinality(Hand) \in Nat
    BY <2>2, <2>3, <2>7, FS_CardinalityType
  <2>9. Cardinality(E \cup running) <= MaxQueue + NumWorkers
    BY <2>1, <2>2, <2>3, <2>5, <2>8
  <2>10. Cardinality(E \cup running) \in Nat
    BY <2>5, FS_CardinalityType
  <2> QED
    BY <2>1, <2>6, <2>8, <2>9, <2>10 DEF Hand
<1> QED
  BY <1>1, <1>2, <1>3, ServiceTypeCorrect, PTL DEF Spec
=============================================================================
