---------------------------- MODULE IpmbdProofs ----------------------------
(***************************************************************************)
(* Proofs about Ipmbd for every size of the table and of the queues, every  *)
(* number of handlers that ipc admits and every number of requests.         *)
(***************************************************************************)
EXTENDS Ipmbd, IpmbSeqProofs, FiniteSetTheorems

(***************************************************************************)
(* The inductive invariant, in parts.                                       *)
(***************************************************************************)

\* A handler past conn_handler's ipc_recv_req has a request, no other handler
\* has the same one, and it is one of those made so far.
OwnRequest ==
  \A h \in Handler :
    /\ req[h] # NULL <=> pc[h] \notin {"idle", "recv"}
    /\ req[h] # NULL => req[h] < nextReq
    /\ \A g \in Handler : g # h /\ req[h] # NULL => req[g] # req[h]

\* A handler inside ipmb_handle has a slot, in use, which points back to it and
\* whose number is in its request.
Holding ==
  \A h \in Handler : Holds(h) =>
    /\ index[h] \in Slot
    /\ in_use[index[h]]
    /\ p_buf[index[h]] = h
    /\ seq_of[req[h]] = index[h]

\* Whatever the satellite may answer, and every queued response, has a seq#.
Routable ==
  /\ \A i \in Req : copies[i] > 0 => seq_of[i] \in Slot
  /\ \A k \in 1 .. Len(mq_res) : seq_of[mq_res[k]] \in Slot

\* Until the handler has been through sem_timedwait, a response in its slot
\* comes with a token.
Tokens ==
  \A h \in Handler :
    pc[h] \in {"prepare", "lock", "ioctl", "wait"} /\ len[index[h]]
      => seq_sem[index[h]] > 0

\* ipmb_req_handler answers a request that it has taken from the queue.
Serving == Serves => peer \in PeerReq

IInv == TypeOK /\ OwnRequest /\ Holding /\ Routable /\ Tokens /\ Serving

-----------------------------------------------------------------------------
\* A queue with room stays within its capacity when a message is added.
LEMMA QueueAppend ==
  ASSUME NEW S, NEW n \in Nat, NEW q \in Seq(S), Len(q) < n, NEW x \in S
  PROVE  /\ Append(q, x) \in Seq(S)
         /\ Len(Append(q, x)) = Len(q) + 1
         /\ Len(Append(q, x)) <= n
         /\ \A k \in 1 .. Len(q) : Append(q, x)[k] = q[k]
         /\ Append(q, x)[Len(q) + 1] = x
OBVIOUS

\* Taking the first message of a queue that is not empty.
LEMMA QueueTail ==
  ASSUME NEW S, NEW n \in Nat, NEW q \in Seq(S), Len(q) <= n, q # <<>>
  PROVE  /\ Head(q) \in S
         /\ Head(q) = q[1]
         /\ 1 \in 1 .. Len(q)
         /\ Tail(q) \in Seq(S)
         /\ Len(Tail(q)) <= n
         /\ \A k \in 1 .. Len(Tail(q)) :
              k + 1 \in 1 .. Len(q) /\ Tail(q)[k] = q[k + 1]
OBVIOUS

\* What the satellite and ipmb_req_handler do leaves handlers and slots alone.
LEMMA OtherThreads ==
  ASSUME \/ rx_start \/ (\E i \in Req : rx_response(i))
         \/ rx_request \/ ReqThreadStep
  PROVE  UNCHANGED <<in_use, len, p_buf, seq_sem, curr_seq, res_buf, pc, req,
                     index, res_len, seq_of, nextReq, answer>>
BY DEF rx_start, rx_response, rx_request, ReqThreadStep, req_start,
       req_start_fails, req_ignore, req_take,
       req_handled, req_lock, req_ioctl, seqVars, hdlVars, satVars, cliVars

-----------------------------------------------------------------------------
\* Every action keeps the types.
LEMMA TypeStep == ASSUME IInv, Next PROVE TypeOK'
<1> USE DEF IInv, cfgVars
<1>1. ASSUME NEW h \in Handler, Connect(h) PROVE TypeOK'
  BY <1>1 DEF TypeOK, Connect, Goto, SeqTypeOK, HandlerPc, busVars, mqVars, peerVars,
              satVars, cliVars
<1>2. ASSUME NEW h \in Handler, conn_handler_returns(h) PROVE TypeOK'
  BY <1>2 DEF TypeOK, conn_handler_returns, Goto, SeqTypeOK, HandlerPc, seqVars,
              busVars, mqVars, peerVars, satVars, cliVars
<1>3. ASSUME NEW h \in Handler, conn_handler_request(h) PROVE TypeOK'
  <2>1. nextReq \in Req /\ nextReq' \in 1 .. (MaxReq + 1)
    BY <1>3, MaxReqAssumption DEF TypeOK, conn_handler_request, Req
  <2>2. req' \in [Handler -> Req \cup {NULL}]
    BY <1>3, <2>1 DEF TypeOK, conn_handler_request
  <2> QED BY <1>3, <2>1, <2>2
             DEF TypeOK, conn_handler_request, Goto, SeqTypeOK, HandlerPc, seqVars,
                 busVars, mqVars, peerVars, satVars
<1>4. ASSUME NEW h \in Handler, get_seq(h) PROVE TypeOK'
  <2>1. PICK s \in Slot :
          /\ seq_get_new(h, s)
          /\ index' = [index EXCEPT ![h] = s]
          /\ seq_of' = [seq_of EXCEPT ![req[h]] = s]
    BY <1>4 DEF TypeOK, get_seq
  <2>2. SeqTypeOK'
    BY <2>1, SeqTypeGet DEF TypeOK
  <2> QED BY <1>4, <2>1, <2>2
             DEF TypeOK, get_seq, Goto, HandlerPc, busVars, mqVars, peerVars, cliVars
<1>5. ASSUME NEW h \in Handler, get_seq_fails(h) \/ prepare(h) \/ addr_fails(h)
      PROVE  TypeOK'
  BY <1>5 DEF TypeOK, get_seq_fails, prepare, addr_fails, seq_get_new_fails, Goto,
              SeqTypeOK, HandlerPc, seqVars, busVars, mqVars, peerVars,
              satVars, cliVars
<1>6. ASSUME NEW h \in Handler, lock(h) PROVE TypeOK'
  BY <1>6, BusAssumption
     DEF TypeOK, lock, LockBus, Goto, SeqTypeOK, HandlerPc, Thread, seqVars, mqVars,
         peerVars, satVars, cliVars
<1>7. ASSUME NEW h \in Handler, ioctl(h) PROVE TypeOK'
  <2>1. copies' \in [Req -> Nat]
    <3>1. req[h] \in Req
      BY <1>7 DEF TypeOK, ioctl, OwnRequest
    <3>2. copies' = copies \/ copies' = [copies EXCEPT ![req[h]] = @ + 1]
      BY <1>7 DEF ioctl, Reached, MayHaveReached
    <3>3. copies \in [Req -> Nat]
      BY DEF TypeOK
    <3> QED BY <3>1, <3>2, <3>3
  <2>2. pc' \in [Handler -> HandlerPc]
    BY <1>7 DEF TypeOK, ioctl, Goto, HandlerPc
  <2>3. /\ tries' \in 0 .. (I2C_RETRIES_MAX - 1)
        /\ i2c_mutex' \in Thread \cup {NULL}
    BY <1>7, BusAssumption
       DEF TypeOK, ioctl, TransferDone, TransferRetry, TransferGivesUp
  <2> QED BY <1>7, <2>1, <2>2, <2>3
             DEF TypeOK, ioctl, SeqTypeOK, seqVars, mqVars, peerVars, cliVars
<1>8. ASSUME NEW h \in Handler, wait(h) PROVE TypeOK'
  <2>1. SeqTypeOK'
    BY <1>8, SeqTypeSem
       DEF TypeOK, wait, sem_timed_out, SeqTypeOK, seqVars, Holding, Holds
  <2> QED BY <1>8, <2>1
             DEF TypeOK, wait, Goto, HandlerPc, busVars, mqVars, peerVars, satVars,
                 cliVars
<1>9. ASSUME NEW h \in Handler, ipmb_handle_out(h) PROVE TypeOK'
  <2>1. index[h] \in Slot
    BY <1>9 DEF TypeOK, ipmb_handle_out, Holding, Holds
  <2>2. SeqTypeOK'
    BY <1>9, <2>1, SeqTypeRelease DEF TypeOK, ipmb_handle_out
  <2>3. len[index[h]] \in BOOLEAN
    BY <2>1 DEF TypeOK, SeqTypeOK
  <2> QED BY <1>9, <2>2, <2>3
             DEF TypeOK, ipmb_handle_out, Goto, HandlerPc, busVars, mqVars, peerVars,
                 satVars, cliVars
<1>10. ASSUME NEW h \in Handler, send(h) PROVE TypeOK'
  BY <1>10 DEF TypeOK, send, Goto, SeqTypeOK, HandlerPc, seqVars, busVars, mqVars,
               peerVars, satVars, cliVars
<1>11. ASSUME NEW i \in Req, rx_response(i) PROVE TypeOK'
  <2>1. copies' \in [Req -> Nat]
    BY <1>11 DEF TypeOK, rx_response
  <2>2. mq_res' \in Seq(Req) /\ Len(mq_res') <= MQ_MAX_NUM_MSGS
    <3>1. mq_res \in Seq(Req) /\ Len(mq_res) <= MQ_MAX_NUM_MSGS
      BY DEF TypeOK
    <3>2. \/ mq_res' = mq_res
          \/ Len(mq_res) < MQ_MAX_NUM_MSGS /\ mq_res' = Append(mq_res, i)
      BY <1>11 DEF rx_response
    <3> QED BY <3>1, <3>2, BusAssumption, QueueAppend
  <2> QED BY <1>11, <2>1, <2>2
             DEF TypeOK, rx_response, SeqTypeOK, seqVars, hdlVars, busVars, peerVars,
                 cliVars
<1>12. ASSUME rx_request PROVE TypeOK'
  <2>1. mq_req' \in Seq(PeerReq) /\ Len(mq_req') <= MQ_MAX_NUM_MSGS
    <3>1. nextPeer \in PeerReq
      BY <1>12, BusAssumption DEF TypeOK, rx_request, PeerReq
    <3>2. mq_req \in Seq(PeerReq) /\ Len(mq_req) <= MQ_MAX_NUM_MSGS
      BY DEF TypeOK
    <3>3. \/ mq_req' = mq_req
          \/ Len(mq_req) < MQ_MAX_NUM_MSGS /\ mq_req' = Append(mq_req, nextPeer)
      BY <1>12 DEF rx_request
    <3> QED BY <3>1, <3>2, <3>3, BusAssumption, QueueAppend
  <2> QED BY <1>12, <2>1, BusAssumption
             DEF TypeOK, rx_request, SeqTypeOK, seqVars, hdlVars, busVars, satVars,
                 cliVars
<1>13. ASSUME ipmb_res_handler PROVE TypeOK'
  <2>1. /\ Head(mq_res) \in Req
        /\ seq_of[Head(mq_res)] \in Slot
    BY <1>13, BusAssumption, QueueTail DEF TypeOK, ipmb_res_handler, Routable
  <2>2. SeqTypeOK'
    BY <1>13, <2>1, SeqTypePut DEF TypeOK, ipmb_res_handler
  <2>3. mq_res' \in Seq(Req) /\ Len(mq_res') <= MQ_MAX_NUM_MSGS
    BY <1>13, BusAssumption, QueueTail DEF TypeOK, ipmb_res_handler
  <2> QED BY <1>13, <2>2, <2>3
             DEF TypeOK, ipmb_res_handler, hdlVars, busVars, peerVars, satVars, cliVars
<1>14. ASSUME req_ignore \/ req_take PROVE TypeOK'
  <2>1. /\ mq_req' \in Seq(PeerReq) /\ Len(mq_req') <= MQ_MAX_NUM_MSGS
        /\ peer' \in PeerReq \cup {0}
    <3>1. mq_req \in Seq(PeerReq) /\ Len(mq_req) <= MQ_MAX_NUM_MSGS
      BY DEF TypeOK
    <3>2. mq_req # <<>> /\ mq_req' = Tail(mq_req)
      BY <1>14 DEF req_ignore, req_take
    <3>3. peer' = peer \/ peer' = Head(mq_req)
      BY <1>14 DEF req_ignore, req_take, peerVars
    <3>4. peer \in PeerReq \cup {0}
      BY DEF TypeOK
    <3> QED BY <3>1, <3>2, <3>3, <3>4, BusAssumption, QueueTail
  <2> QED BY <1>14, <2>1
             DEF TypeOK, req_ignore, req_take, SeqTypeOK, ReqThreadPc, seqVars,
                 hdlVars, busVars, peerVars, satVars, cliVars
<1>15. ASSUME req_handled \/ req_lock PROVE TypeOK'
  BY <1>15, BusAssumption
     DEF TypeOK, req_handled, req_lock, LockBus, Thread, SeqTypeOK, ReqThreadPc,
         seqVars, hdlVars, busVars, mqVars, satVars, cliVars
<1>16. ASSUME req_ioctl PROVE TypeOK'
  <2>1. /\ tries' \in 0 .. (I2C_RETRIES_MAX - 1)
        /\ i2c_mutex' \in Thread \cup {NULL}
    BY <1>16, BusAssumption
       DEF TypeOK, req_ioctl, TransferDone, TransferRetry, TransferGivesUp
  <2>2. peer_res' \in Seq(PeerReq)
    <3>1. peer_res \in Seq(PeerReq) /\ peer \in PeerReq
      BY <1>16 DEF TypeOK, req_ioctl, Serving, Serves
    <3>2. peer_res' = peer_res \/ peer_res' = Append(peer_res, peer)
      BY <1>16 DEF req_ioctl
    <3> QED BY <3>1, <3>2
  <2> QED BY <1>16, <2>1, <2>2
             DEF TypeOK, req_ioctl, SeqTypeOK, ReqThreadPc, seqVars, hdlVars, mqVars,
                 satVars, cliVars
<1>17. ASSUME rx_start PROVE TypeOK'
  BY <1>17 DEF rx_start, TypeOK, SeqTypeOK, seqVars, hdlVars, busVars, mqVars,
               peerVars, satVars, cliVars
<1>18. ASSUME req_start \/ req_start_fails PROVE TypeOK'
  <2>1. addr_known' \in BOOLEAN
    BY <1>18 DEF req_start, req_start_fails, TypeOK
  <2> QED BY <1>18, <2>1
             DEF req_start, req_start_fails, TypeOK, SeqTypeOK, ReqThreadPc, seqVars,
                 hdlVars, busVars, mqVars, satVars, cliVars
<1> QED BY <1>1, <1>2, <1>3, <1>4, <1>5, <1>6, <1>7, <1>8, <1>9, <1>10, <1>11,
           <1>12, <1>13, <1>14, <1>15, <1>16, <1>17, <1>18
        DEF Next, HandlerStep, ReqThreadStep

\* Requests stay apart: a new one gets a number nobody has.
LEMMA OwnRequestStep == ASSUME IInv, Next PROVE OwnRequest'
<1> USE DEF IInv
<1>0. /\ req \in [Handler -> Req \cup {NULL}]
      /\ pc \in [Handler -> HandlerPc]
      /\ nextReq \in Nat
      /\ Req \subseteq Nat
      /\ NULL \notin Nat
  BY NullAssumption, MaxReqAssumption DEF TypeOK, Req
<1>1. ASSUME NEW h \in Handler, conn_handler_request(h) PROVE OwnRequest'
  <2>1. /\ pc' = [pc EXCEPT ![h] = "get"]
        /\ req' = [req EXCEPT ![h] = nextReq]
        /\ nextReq' = nextReq + 1
    BY <1>1 DEF conn_handler_request, Goto
  <2>2. \A g \in Handler : req[g] # NULL => req[g] \in Nat /\ req[g] < nextReq
    BY <1>0 DEF OwnRequest
  <2>3. \A g \in Handler :
          /\ req'[g] # NULL <=> pc'[g] \notin {"idle", "recv"}
          /\ req'[g] # NULL => req'[g] < nextReq'
    BY <1>0, <2>1, <2>2 DEF OwnRequest
  <2>4. \A g, k \in Handler : k # g /\ req'[g] # NULL => req'[k] # req'[g]
    BY <1>0, <2>1, <2>2 DEF OwnRequest
  <2> QED BY <2>3, <2>4 DEF OwnRequest
<1>2. ASSUME NEW h \in Handler, send(h) PROVE OwnRequest'
  BY <1>0, <1>2 DEF send, OwnRequest, Goto
<1>3. ASSUME NEW h \in Handler, Connect(h) \/ conn_handler_returns(h)
      PROVE  OwnRequest'
  BY <1>0, <1>3 DEF Connect, conn_handler_returns, OwnRequest, Goto, cliVars
<1>4. ASSUME NEW h \in Handler,
             \/ get_seq(h) \/ get_seq_fails(h) \/ prepare(h) \/ addr_fails(h)
             \/ lock(h) \/ ioctl(h) \/ wait(h) \/ ipmb_handle_out(h)
      PROVE  OwnRequest'
  <2>1. /\ pc[h] \notin {"idle", "recv"}
        /\ pc'[h] \notin {"idle", "recv"}
        /\ \A g \in Handler : g # h => pc'[g] = pc[g]
        /\ UNCHANGED <<req, nextReq>>
    BY <1>0, <1>4 DEF get_seq, get_seq_fails, prepare, addr_fails, lock, ioctl,
                      wait, ipmb_handle_out, Goto, cliVars
  <2> QED BY <2>1 DEF OwnRequest
<1>5. ASSUME UNCHANGED <<pc, req, nextReq>> PROVE OwnRequest'
  BY <1>5 DEF OwnRequest
<1>6. ASSUME ipmb_res_handler PROVE UNCHANGED <<pc, req, nextReq>>
  BY <1>6 DEF ipmb_res_handler, hdlVars, cliVars
<1> QED BY <1>1, <1>2, <1>3, <1>4, <1>5, <1>6, OtherThreads
        DEF Next, HandlerStep

\* A handler keeps its slot until it releases it: seq_get_new takes a free one
\* and every handler releases its own.
LEMMA HoldingStep == ASSUME IInv, Next PROVE Holding'
<1> USE DEF IInv
<1>0. /\ pc \in [Handler -> HandlerPc]
      /\ req \in [Handler -> Req \cup {NULL}]
      /\ index \in [Handler -> Slot \cup {-1}]
      /\ in_use \in [Slot -> BOOLEAN]
      /\ p_buf \in [Slot -> Handler \cup {NULL}]
      /\ seq_of \in [Req -> Slot \cup {NULL}]
  BY DEF TypeOK, SeqTypeOK
<1>1. ASSUME NEW h \in Handler, get_seq(h) PROVE Holding'
  <2>1. PICK s \in Slot :
          /\ seq_get_new(h, s)
          /\ index' = [index EXCEPT ![h] = s]
          /\ seq_of' = [seq_of EXCEPT ![req[h]] = s]
    BY <1>1 DEF get_seq
  <2>2. req[h] \in Req /\ \A g \in Handler : g # h => req[g] # req[h]
    BY <1>0, <1>1 DEF get_seq, OwnRequest
  <2>3. pc[h] = "get" /\ pc' = [pc EXCEPT ![h] = "prepare"] /\ req' = req
    BY <1>1 DEF get_seq, Goto
  <2>4. ~in_use[s] /\ in_use' = [in_use EXCEPT ![s] = TRUE]
                  /\ p_buf' = [p_buf EXCEPT ![s] = h]
    BY <2>1 DEF seq_get_new, FirstFree
  <2>5. ASSUME NEW g \in Handler, Holds(g)'
        PROVE  /\ index'[g] \in Slot /\ in_use'[index'[g]]
               /\ p_buf'[index'[g]] = g /\ seq_of'[req'[g]] = index'[g]
    <3>1. CASE g = h
      BY <1>0, <2>1, <2>2, <2>3, <2>4, <3>1
    <3>2. CASE g # h
      <4>1. Holds(g)
        BY <1>0, <2>3, <2>5, <3>2 DEF Holds
      <4>2. req[g] \in Req
        BY <1>0, <4>1 DEF Holds, OwnRequest
      <4> QED BY <1>0, <2>1, <2>2, <2>3, <2>4, <3>2, <4>1, <4>2 DEF Holding
    <3> QED BY <3>1, <3>2
  <2> QED BY <2>5 DEF Holding
<1>2. ASSUME NEW h \in Handler, ipmb_handle_out(h) PROVE Holding'
  <2>1. /\ Holds(h) /\ pc' = [pc EXCEPT ![h] = "send"]
        /\ in_use' = [in_use EXCEPT ![index[h]] = FALSE]
        /\ p_buf' = [p_buf EXCEPT ![index[h]] = NULL]
        /\ UNCHANGED <<req, index, seq_of>>
    BY <1>2 DEF ipmb_handle_out, seq_release, Goto, Holds, satVars
  <2>2. ASSUME NEW g \in Handler, Holds(g)' PROVE g # h /\ Holds(g)
    BY <1>0, <2>1, <2>2 DEF Holds
  <2> QED BY <1>0, <2>1, <2>2 DEF Holding
<1>3. ASSUME NEW h \in Handler, send(h) PROVE Holding'
  <2>1. /\ pc' = [pc EXCEPT ![h] = "idle"]
        /\ req' = [req EXCEPT ![h] = NULL]
        /\ index' = [index EXCEPT ![h] = -1]
        /\ UNCHANGED <<in_use, p_buf, seq_of>>
    BY <1>3 DEF send, Goto, seqVars, satVars
  <2>2. ASSUME NEW g \in Handler, Holds(g)' PROVE g # h /\ Holds(g)
    BY <1>0, <2>1, <2>2 DEF Holds
  <2> QED BY <1>0, <2>1, <2>2 DEF Holding
<1>4. ASSUME NEW h \in Handler, conn_handler_request(h) PROVE Holding'
  <2>1. /\ pc' = [pc EXCEPT ![h] = "get"]
        /\ req' = [req EXCEPT ![h] = nextReq]
        /\ UNCHANGED <<index, in_use, p_buf, seq_of>>
    BY <1>4 DEF conn_handler_request, Goto, seqVars, satVars
  <2>2. ASSUME NEW g \in Handler, Holds(g)' PROVE g # h /\ Holds(g)
    BY <1>0, <2>1, <2>2 DEF Holds
  <2> QED BY <1>0, <2>1, <2>2 DEF Holding
<1>5. ASSUME NEW h \in Handler,
             \/ Connect(h) \/ conn_handler_returns(h) \/ get_seq_fails(h)
             \/ prepare(h) \/ addr_fails(h) \/ lock(h) \/ ioctl(h) \/ wait(h)
      PROVE  Holding'
  <2>1. UNCHANGED <<in_use, p_buf, req, index, seq_of>>
    BY <1>5 DEF Connect, conn_handler_returns, get_seq_fails, prepare,
                addr_fails, lock, ioctl, wait, sem_acquired, sem_timed_out,
                seq_get_new_fails, seqVars, satVars
  <2>2. ASSUME NEW g \in Handler, Holds(g)' PROVE Holds(g)
    BY <1>0, <1>5, <2>2
       DEF Connect, conn_handler_returns, get_seq_fails, prepare, addr_fails,
           lock, ioctl, wait, Goto, Holds
  <2> QED BY <2>1, <2>2 DEF Holding
<1>6. ASSUME UNCHANGED <<pc, req, index, in_use, p_buf, seq_of>> PROVE Holding'
  BY <1>6 DEF Holding, Holds
<1>7. ASSUME ipmb_res_handler
      PROVE  UNCHANGED <<pc, req, index, in_use, p_buf, seq_of>>
  BY <1>7 DEF ipmb_res_handler, seq_put, seqVars, hdlVars, satVars
<1> QED BY <1>1, <1>2, <1>3, <1>4, <1>5, <1>6, <1>7, OtherThreads
        DEF Next, HandlerStep

\* A request gets its seq# before it is written to the bus, and keeps it.
LEMMA RoutableStep == ASSUME IInv, Next PROVE Routable'
<1> USE DEF IInv
<1>0. /\ seq_of \in [Req -> Slot \cup {NULL}]
      /\ copies \in [Req -> Nat]
      /\ mq_res \in Seq(Req) /\ Len(mq_res) <= MQ_MAX_NUM_MSGS
  BY DEF TypeOK
<1>1. ASSUME NEW h \in Handler, get_seq(h) PROVE Routable'
  <2>1. PICK s \in Slot : seq_of' = [seq_of EXCEPT ![req[h]] = s]
    BY <1>1 DEF get_seq
  <2>2. UNCHANGED <<copies, mq_res>>
    BY <1>1 DEF get_seq, mqVars
  <2>3. \A i \in Req : seq_of[i] \in Slot => seq_of'[i] \in Slot
    BY <1>0, <2>1
  <2>4. \A k \in 1 .. Len(mq_res) : mq_res[k] \in Req
    BY <1>0
  <2> QED BY <2>2, <2>3, <2>4 DEF Routable
<1>2. ASSUME NEW h \in Handler, ioctl(h) PROVE Routable'
  <2>1. pc[h] = "ioctl"
    BY <1>2 DEF ioctl
  <2>2. req[h] \in Req
    BY <2>1 DEF OwnRequest, TypeOK
  <2>3. seq_of[req[h]] \in Slot
    BY <2>1 DEF Holding, Holds
  <2>4. copies' = copies \/ copies' = [copies EXCEPT ![req[h]] = @ + 1]
    BY <1>2 DEF ioctl, Reached, MayHaveReached
  <2>5. UNCHANGED <<seq_of, mq_res>>
    BY <1>2 DEF ioctl, mqVars
  <2> QED BY <1>0, <2>2, <2>3, <2>4, <2>5 DEF Routable
<1>3. ASSUME NEW i \in Req, rx_response(i) PROVE Routable'
  <2>1. /\ copies[i] > 0
        /\ copies' = [copies EXCEPT ![i] = @ - 1]
        /\ seq_of' = seq_of
        /\ \/ mq_res' = mq_res
           \/ Len(mq_res) < MQ_MAX_NUM_MSGS /\ mq_res' = Append(mq_res, i)
    BY <1>3 DEF rx_response
  <2>2. \A j \in Req : copies'[j] > 0 => seq_of[j] \in Slot
    BY <1>0, <2>1 DEF Routable
  <2>3. \A k \in 1 .. Len(mq_res') : seq_of[mq_res'[k]] \in Slot
    BY <1>0, <2>1, BusAssumption, QueueAppend DEF Routable
  <2> QED BY <2>1, <2>2, <2>3 DEF Routable
<1>4. ASSUME ipmb_res_handler PROVE Routable'
  <2>1. /\ mq_res # <<>> /\ mq_res' = Tail(mq_res)
        /\ UNCHANGED <<seq_of, copies>>
    BY <1>4 DEF ipmb_res_handler, satVars
  <2>2. \A k \in 1 .. Len(mq_res') : seq_of[mq_res'[k]] \in Slot
    BY <1>0, <2>1, BusAssumption, QueueTail DEF Routable
  <2> QED BY <2>1, <2>2 DEF Routable
<1>5. ASSUME UNCHANGED <<seq_of, copies, mq_res>> PROVE Routable'
  BY <1>5 DEF Routable
<1>6. ASSUME NEW h \in Handler, Connect(h) \/ HandlerStep(h)
      PROVE  Routable'
  <2>1. \/ get_seq(h) \/ ioctl(h)
        \/ UNCHANGED <<seq_of, copies, mq_res>>
    BY <1>6 DEF HandlerStep, Connect, conn_handler_returns,
                conn_handler_request, get_seq_fails, prepare, addr_fails, lock,
                wait, ipmb_handle_out, send, satVars, mqVars
  <2> QED BY <1>1, <1>2, <1>5, <2>1
<1>7. ASSUME rx_start \/ rx_request \/ ReqThreadStep
      PROVE  UNCHANGED <<seq_of, copies, mq_res>>
  BY <1>7 DEF rx_start, rx_request, ReqThreadStep, req_start, req_start_fails,
              req_ignore, req_take, req_handled, req_lock, req_ioctl, satVars, mqVars
<1> QED BY <1>3, <1>4, <1>5, <1>6, <1>7 DEF Next

\* A response and its token come together, and only the slot's own handler
\* takes the token away.
LEMMA TokensStep == ASSUME IInv, Next PROVE Tokens'
<1> USE DEF IInv
<1> DEFINE Asleep(h) == pc[h] \in {"prepare", "lock", "ioctl", "wait"}
<1>0. /\ pc \in [Handler -> HandlerPc]
      /\ index \in [Handler -> Slot \cup {-1}]
      /\ len \in [Slot -> BOOLEAN]
      /\ seq_sem \in [Slot -> Nat]
      /\ \A h \in Handler : Asleep(h) => index[h] \in Slot
      /\ \A g, h \in Handler :
           g # h /\ Asleep(g) /\ Holds(h) => index[g] # index[h]
  BY DEF TypeOK, SeqTypeOK, Holding, Holds
<1>1. ASSUME NEW h \in Handler, get_seq(h) PROVE Tokens'
  <2>1. PICK s \in Slot :
          seq_get_new(h, s) /\ index' = [index EXCEPT ![h] = s]
    BY <1>1 DEF get_seq
  <2>2. /\ pc' = [pc EXCEPT ![h] = "prepare"]
        /\ len' = [len EXCEPT ![s] = FALSE] /\ UNCHANGED seq_sem
    BY <1>1, <2>1 DEF get_seq, seq_get_new, Goto
  <2> QED BY <1>0, <2>1, <2>2 DEF Tokens
<1>2. ASSUME NEW h \in Handler, wait(h) PROVE Tokens'
  <2>1. /\ pc[h] = "wait" /\ pc' = [pc EXCEPT ![h] = "out"]
        /\ UNCHANGED <<index, len>>
        /\ seq_sem' = seq_sem \/ seq_sem' = [seq_sem EXCEPT ![index[h]] = @ - 1]
    BY <1>2 DEF wait, sem_acquired, sem_timed_out, seqVars, Goto
  <2> QED BY <1>0, <2>1 DEF Tokens, Holds
<1>3. ASSUME ipmb_res_handler PROVE Tokens'
  <2>1. seq_of[Head(mq_res)] \in Slot
    BY <1>3, BusAssumption, QueueTail DEF ipmb_res_handler, Routable, TypeOK
  <2>2. PICK s \in Slot : \E m : seq_put(s, m)
    BY <1>3, <2>1 DEF ipmb_res_handler
  <2>3. \/ /\ len' = [len EXCEPT ![s] = TRUE]
           /\ seq_sem' = [seq_sem EXCEPT ![s] = @ + 1]
        \/ UNCHANGED <<len, seq_sem>>
    BY <2>2 DEF seq_put, seqVars
  <2>4. UNCHANGED <<pc, index>>
    BY <1>3 DEF ipmb_res_handler, hdlVars
  <2> QED BY <1>0, <2>3, <2>4 DEF Tokens
<1>4. ASSUME NEW h \in Handler, ipmb_handle_out(h) \/ send(h) PROVE Tokens'
  <2>1. /\ pc' = [pc EXCEPT ![h] = "send"] \/ pc' = [pc EXCEPT ![h] = "idle"]
        /\ index' = index \/ index' = [index EXCEPT ![h] = -1]
        /\ UNCHANGED <<len, seq_sem>>
    BY <1>4 DEF ipmb_handle_out, seq_release, send, seqVars, Goto
  <2> QED BY <1>0, <2>1 DEF Tokens
<1>5. ASSUME NEW h \in Handler,
             \/ Connect(h) \/ conn_handler_returns(h)
             \/ conn_handler_request(h) \/ get_seq_fails(h)
             \/ prepare(h) \/ addr_fails(h) \/ lock(h) \/ ioctl(h)
      PROVE  Tokens'
  <2>1. UNCHANGED <<len, seq_sem, index>>
    BY <1>5 DEF Connect, conn_handler_returns, conn_handler_request,
                get_seq_fails, prepare, addr_fails, lock, ioctl,
                seq_get_new_fails, seqVars
  <2>2. ASSUME NEW g \in Handler, Asleep(g)' PROVE Asleep(g)
    BY <1>0, <1>5, <2>2
       DEF Connect, conn_handler_returns, conn_handler_request, get_seq_fails,
           prepare, addr_fails, lock, ioctl, Goto
  <2> QED BY <2>1, <2>2 DEF Tokens
<1>6. ASSUME UNCHANGED <<pc, index, len, seq_sem>> PROVE Tokens'
  BY <1>6 DEF Tokens
<1> QED BY <1>1, <1>2, <1>3, <1>4, <1>5, <1>6, OtherThreads
        DEF Next, HandlerStep

\* ipmb_req_handler leaves mq_receive only with a request.
LEMMA ServingStep == ASSUME IInv, Next PROVE Serving'
<1> USE DEF IInv
<1>1. ASSUME req_take PROVE Serving'
  BY <1>1, BusAssumption, QueueTail DEF req_take, TypeOK, Serving, Serves
<1>2. ASSUME \/ req_start \/ req_start_fails \/ req_ignore \/ req_handled
             \/ req_lock \/ req_ioctl
      PROVE  Serving'
  BY <1>2 DEF req_start, req_start_fails, req_ignore, req_handled, req_lock, req_ioctl, peerVars, Serving, Serves
<1>3. ASSUME UNCHANGED <<rpc, peer>> PROVE Serving'
  BY <1>3 DEF Serving, Serves
<1>4. ASSUME NEW h \in Handler, Connect(h) \/ HandlerStep(h)
      PROVE  UNCHANGED <<rpc, peer>>
  BY <1>4 DEF HandlerStep, Connect, conn_handler_returns,
              conn_handler_request, get_seq, get_seq_fails, prepare,
              addr_fails, lock, ioctl, wait, ipmb_handle_out, send, peerVars
<1>5. ASSUME \/ \E i \in Req : rx_response(i)
             \/ rx_start \/ rx_request \/ ipmb_res_handler
      PROVE  UNCHANGED <<rpc, peer>>
  BY <1>5 DEF rx_start, rx_response, rx_request, ipmb_res_handler, peerVars
<1> QED BY <1>1, <1>2, <1>3, <1>4, <1>5 DEF Next, ReqThreadStep

-----------------------------------------------------------------------------
\* Every state the daemon reaches satisfies the inductive invariant.
LEMMA Invariant == Spec => []IInv
<1>1. Init => IInv
  <2> SUFFICES ASSUME Init PROVE IInv
    OBVIOUS
  <2>1. SeqTypeOK
    BY SeqTypeInit DEF Init
  <2>2. TypeOK
    BY <2>1, BusAssumption, MaxReqAssumption
       DEF Init, TypeOK, HandlerPc, ReqThreadPc
  <2>3. OwnRequest /\ Holding /\ Tokens
    BY DEF Init, OwnRequest, Holding, Holds, Tokens
  <2>4. Routable /\ Serving
    BY DEF Init, Routable, Serving, Serves
  <2> QED BY <2>2, <2>3, <2>4 DEF IInv
<1>2. IInv /\ [Next]_vars => IInv'
  <2> SUFFICES ASSUME IInv, [Next]_vars PROVE IInv'
    OBVIOUS
  <2>1. CASE Next
    BY <2>1, TypeStep, OwnRequestStep, HoldingStep, RoutableStep, TokensStep,
       ServingStep DEF IInv
  <2>2. CASE UNCHANGED vars
    BY <2>2 DEF vars, seqVars, hdlVars, cfgVars, busVars, mqVars, peerVars,
                satVars, cliVars, IInv, TypeOK, SeqTypeOK, OwnRequest, Holding, Holds,
                Routable, Tokens, Serving, Serves
  <2> QED BY <2>1, <2>2
<1> QED BY <1>1, <1>2, PTL DEF Spec

\* Types, for every value of the constants: the retry counter stays below
\* I2C_RETRIES_MAX, neither queue grows past its capacity, every index into the
\* table is a slot.
THEOREM TypeCorrect == Spec => []TypeOK
<1>1. IInv => TypeOK
  BY DEF IInv
<1> QED BY <1>1, Invariant, PTL

\* A handler never sleeps on a response that seq_put has already copied.  This
\* holds even where ipmb_handle leaks slots (AddrMayFail).
THEOREM WakeupsNotLost == Spec => []NoLostWakeup
<1>1. IInv => NoLostWakeup
  BY DEF IInv, Tokens, NoLostWakeup
<1> QED BY <1>1, Invariant, PTL

-----------------------------------------------------------------------------
(***************************************************************************)
(* Platforms on which pal_get_bmc_ipmb_slave_addr does not fail: then every *)
(* way out of ipmb_handle goes through ipmb_handle_out.                     *)
(***************************************************************************)

\* Slots and handlers stay matched.
LEMMA SlotOwnershipStep ==
  ASSUME ~AddrMayFail, IInv, SlotOwnership, Next PROVE SlotOwnership'
<1>0. /\ pc \in [Handler -> HandlerPc]
      /\ index \in [Handler -> Slot \cup {-1}]
      /\ in_use \in [Slot -> BOOLEAN]
      /\ p_buf \in [Slot -> Handler \cup {NULL}]
      /\ NULL \notin Handler
  BY NullAssumption DEF IInv, TypeOK, SeqTypeOK
<1>1. ASSUME NEW h \in Handler, get_seq(h) PROVE SlotOwnership'
  <2>1. PICK s \in Slot :
          seq_get_new(h, s) /\ index' = [index EXCEPT ![h] = s]
    BY <1>1 DEF get_seq
  <2>2. /\ pc[h] = "get" /\ pc' = [pc EXCEPT ![h] = "prepare"]
        /\ ~in_use[s] /\ in_use' = [in_use EXCEPT ![s] = TRUE]
        /\ p_buf' = [p_buf EXCEPT ![s] = h]
    BY <1>1, <2>1 DEF get_seq, seq_get_new, FirstFree, Goto
  <2>3. Holds(h)' /\ ~Holds(h) /\ \A g \in Handler : g # h => Holds(g)' = Holds(g)
    BY <1>0, <2>2 DEF Holds
  <2>4. \A t \in Slot : t # s => p_buf[t] # h
    BY <1>0, <2>3 DEF SlotOwnership
  <2>5. \A t \in Slot :
          /\ in_use'[t] <=> p_buf'[t] # NULL
          /\ in_use'[t] => Holds(p_buf[t])' /\ index'[p_buf'[t]] = t
    <3> TAKE t \in Slot
    <3>1. CASE t = s
      BY <1>0, <2>1, <2>2, <2>3, <3>1 DEF Holds
    <3>2. CASE t # s
      BY <1>0, <2>1, <2>2, <2>3, <2>4, <3>2 DEF SlotOwnership, Holds
    <3> QED BY <3>1, <3>2
  <2>6. \A g \in Handler : Holds(g)' => index'[g] \in Slot /\ p_buf'[index'[g]] = g
    BY <1>0, <2>1, <2>2, <2>3 DEF SlotOwnership, IInv, Holding
  <2> QED BY <2>5, <2>6 DEF SlotOwnership, Holds
<1>2. ASSUME NEW h \in Handler, ipmb_handle_out(h) PROVE SlotOwnership'
  <2>1. /\ Holds(h) /\ pc' = [pc EXCEPT ![h] = "send"]
        /\ in_use' = [in_use EXCEPT ![index[h]] = FALSE]
        /\ p_buf' = [p_buf EXCEPT ![index[h]] = NULL]
        /\ index' = index
    BY <1>2 DEF ipmb_handle_out, seq_release, Goto, Holds
  <2>2. ~Holds(h)' /\ \A g \in Handler : g # h => Holds(g)' = Holds(g)
    BY <1>0, <2>1 DEF Holds
  <2>3. index[h] \in Slot /\ p_buf[index[h]] = h
    BY <2>1 DEF SlotOwnership
  <2>4. \A t \in Slot : t # index[h] => p_buf[t] # h
    BY <1>0, <2>3 DEF SlotOwnership
  <2>5. \A t \in Slot :
          /\ in_use'[t] <=> p_buf'[t] # NULL
          /\ in_use'[t] => Holds(p_buf[t])' /\ index'[p_buf'[t]] = t
    <3> TAKE t \in Slot
    <3>1. CASE t = index[h]
      BY <1>0, <2>1, <3>1
    <3>2. CASE t # index[h]
      BY <1>0, <2>1, <2>2, <2>4, <3>2 DEF SlotOwnership, Holds
    <3> QED BY <3>1, <3>2
  <2>6. \A g \in Handler : Holds(g)' => index'[g] \in Slot /\ p_buf'[index'[g]] = g
    BY <1>0, <2>1, <2>2, <2>3 DEF SlotOwnership
  <2> QED BY <2>5, <2>6 DEF SlotOwnership, Holds
<1>3. ASSUME UNCHANGED <<in_use, p_buf>>,
             \A g \in Handler : Holds(g)' = Holds(g),
             \A g \in Handler : Holds(g) => index'[g] = index[g]
      PROVE  SlotOwnership'
  BY <1>0, <1>3 DEF SlotOwnership
<1>4. ASSUME NEW h \in Handler, send(h) PROVE SlotOwnership'
  <2>1. /\ pc[h] = "send" /\ pc' = [pc EXCEPT ![h] = "idle"]
        /\ index' = [index EXCEPT ![h] = -1]
        /\ UNCHANGED <<in_use, p_buf>>
    BY <1>4 DEF send, Goto, seqVars
  <2>2. \A g \in Handler : Holds(g)' = Holds(g)
    BY <1>0, <2>1 DEF Holds
  <2>3. \A g \in Handler : Holds(g) => index'[g] = index[g]
    BY <1>0, <2>1 DEF Holds
  <2> QED BY <1>3, <2>1, <2>2, <2>3
<1>5. ASSUME NEW h \in Handler,
             \/ Connect(h) \/ conn_handler_returns(h)
             \/ conn_handler_request(h) \/ get_seq_fails(h)
             \/ prepare(h) \/ lock(h) \/ ioctl(h) \/ wait(h)
      PROVE  SlotOwnership'
  <2>1. UNCHANGED <<in_use, p_buf, index>>
    BY <1>5 DEF Connect, conn_handler_returns, conn_handler_request,
                get_seq_fails, prepare, lock, ioctl, wait, sem_acquired,
                sem_timed_out, seq_get_new_fails, seqVars
  <2>2. \A g \in Handler : Holds(g)' = Holds(g)
    BY <1>0, <1>5
       DEF Connect, conn_handler_returns, conn_handler_request, get_seq_fails,
           prepare, lock, ioctl, wait, Goto, Holds
  <2> QED BY <1>3, <2>1, <2>2
<1>6. ASSUME UNCHANGED <<in_use, p_buf, index, pc>> PROVE SlotOwnership'
  BY <1>6 DEF SlotOwnership, Holds
<1>7. ASSUME ipmb_res_handler PROVE UNCHANGED <<in_use, p_buf, index, pc>>
  BY <1>7 DEF ipmb_res_handler, seq_put, seqVars, hdlVars
<1> QED BY <1>1, <1>2, <1>4, <1>5, <1>6, <1>7, OtherThreads
        DEF Next, HandlerStep, addr_fails

\* The busy slots are those of the handlers inside ipmb_handle, one each: no
\* slot is shared, leaked, or left pointing to a handler that has returned.
THEOREM SlotsOwned == ASSUME ~AddrMayFail PROVE Spec => []SlotOwnership
<1>1. Init => SlotOwnership
  BY DEF Init, ipmb_seq_buf_init, SlotOwnership, Holds
<1>2. IInv /\ SlotOwnership /\ [Next]_vars => SlotOwnership'
  <2> SUFFICES ASSUME IInv, SlotOwnership, [Next]_vars PROVE SlotOwnership'
    OBVIOUS
  <2>1. CASE UNCHANGED vars
    BY <2>1 DEF vars, seqVars, hdlVars, SlotOwnership, Holds
  <2> QED BY <2>1, SlotOwnershipStep
<1> QED BY <1>1, <1>2, Invariant, PTL DEF Spec

\* Were every slot in use, each would point to a different handler, none of
\* them the one that asks: more handlers than ipc admits.
LEMMA SlotLeft ==
  ASSUME TypeOK, SlotOwnership PROVE AllocNeverFails
<1> SUFFICES ASSUME NEW h \in Handler, pc[h] = "get", \A s \in Slot : in_use[s]
             PROVE  FALSE
  BY DEF AllocNeverFails
<1> DEFINE Others == Handler \ {h}
<1>1. IsFiniteSet(Slot) /\ Cardinality(Slot) = SEQ_NUM_MAX
  <2>1. 0 \in Int /\ SEQ_NUM_MAX - 1 \in Int /\ 0 <= SEQ_NUM_MAX - 1 + 1
    BY SeqNumAssumption
  <2> QED BY <2>1, FS_Interval, SeqNumAssumption DEF Slot
<1>2. IsFiniteSet(Others) /\ Cardinality(Others) = Cardinality(Handler) - 1
  BY HandlerAssumption, FS_RemoveElement
<1>3. p_buf \in Injection(Slot, Others)
  <2>1. \A s \in Slot : p_buf[s] \in Handler /\ p_buf[s] # h
    <3>1. ~Holds(h)
      BY DEF Holds
    <3>2. \A s \in Slot : p_buf[s] # NULL /\ Holds(p_buf[s])
      BY DEF SlotOwnership
    <3> QED BY <3>1, <3>2 DEF TypeOK, SeqTypeOK
  <2>2. p_buf \in [Slot -> Others]
    BY <2>1 DEF TypeOK, SeqTypeOK
  <2>3. \A s, t \in Slot : p_buf[s] = p_buf[t] => s = t
    BY DEF SlotOwnership
  <2> QED BY <2>2, <2>3 DEF Injection, IsInjective
<1>4. Cardinality(Slot) <= Cardinality(Others)
  BY <1>1, <1>2, <1>3, FS_Injection DEF ExistsInjection
<1>5. Cardinality(Handler) \in Nat
  BY HandlerAssumption, FS_CardinalityType
<1> QED BY <1>1, <1>2, <1>4, <1>5, HandlerAssumption, SeqNumAssumption

\* seq_get_new never returns -1, whatever the size of the table, as long as ipc
\* admits no more handlers than there are slots.
THEOREM SlotAlwaysLeft == ASSUME ~AddrMayFail PROVE Spec => []AllocNeverFails
<1>1. TypeOK /\ SlotOwnership => AllocNeverFails
  BY SlotLeft
<1> QED BY <1>1, TypeCorrect, SlotsOwned, PTL

\* ipmb_res_handler writes to a handler's stack only while that handler is
\* inside ipmb_handle with the seq# of the response.
THEOREM OnlyLiveBuffersWritten ==
  ASSUME ~AddrMayFail PROVE Spec => WritesLiveBuffer
<1> DEFINE Live ==
      \A h \in Handler : res_buf'[h] # res_buf[h] /\ res_buf'[h] # NULL
        => Holds(h) /\ seq_of[res_buf'[h]] = index[h]
<1>1. IInv /\ SlotOwnership /\ [Next]_vars => [Live]_vars
  <2> SUFFICES ASSUME IInv, SlotOwnership, Next PROVE Live
    BY DEF vars
  <2>0. res_buf \in [Handler -> Req \cup {NULL}]
    BY DEF IInv, TypeOK, SeqTypeOK
  <2>1. ASSUME ipmb_res_handler PROVE Live
    <3> DEFINE m == Head(mq_res)
               s == seq_of[m]
    <3>1. m \in Req /\ s \in Slot /\ seq_put(s, m)
      BY <2>1, BusAssumption, QueueTail
         DEF ipmb_res_handler, IInv, TypeOK, Routable
    <3> HIDE DEF m
    <3>2. CASE res_buf' = res_buf
      BY <3>2
    <3>3. CASE /\ in_use[s] /\ p_buf[s] \in Handler
               /\ res_buf' = [res_buf EXCEPT ![p_buf[s]] = m]
      BY <2>0, <3>1, <3>3 DEF SlotOwnership
    <3> QED BY <3>1, <3>2, <3>3, SeqPutCases DEF IInv, TypeOK
  <2>2. ASSUME NEW h \in Handler, Connect(h) PROVE Live
    BY <2>0, <2>2 DEF Connect
  <2>3. ASSUME NEW h \in Handler, HandlerStep(h) PROVE res_buf' = res_buf
    BY <2>3 DEF HandlerStep, conn_handler_returns, conn_handler_request,
                get_seq, get_seq_fails, prepare, addr_fails, lock, ioctl, wait,
                ipmb_handle_out, send, seq_get_new, seq_get_new_fails,
                sem_acquired, sem_timed_out, seq_release, seqVars
  <2> QED BY <2>1, <2>2, <2>3, OtherThreads DEF Next
<1> QED BY <1>1, Invariant, SlotsOwned, PTL DEF Spec, WritesLiveBuffer

\* The daemon implements the table's contract: its steps take, wait on, fill and
\* release slots only as TableNext allows.
THEOREM ImplementsTable == ASSUME ~AddrMayFail PROVE Spec => TableSpec
<1>1. Init => ipmb_seq_buf_init
  BY DEF Init
<1>2. IInv /\ SlotOwnership /\ [Next]_vars => [TableNext]_seqVars
  <2> SUFFICES ASSUME IInv, SlotOwnership, [Next]_vars
               PROVE  [TableNext]_seqVars
    OBVIOUS
  <2>0. NULL \notin Handler /\ \A h \in Handler : ~Holds(h) => Unreferenced(h)
    BY NullAssumption DEF SlotOwnership, Unreferenced
  <2>1. ASSUME NEW h \in Handler, Connect(h) PROVE NewStack(h)
    BY <2>0, <2>1 DEF Connect, NewStack, Holds
  <2>2. ASSUME NEW h \in Handler, get_seq(h) PROVE Take(h)
    BY <2>0, <2>2 DEF get_seq, Take, Holds
  <2>3. ASSUME NEW h \in Handler, wait(h)
        PROVE  index[h] \in Slot /\ (Await(index[h]) \/ UNCHANGED seqVars)
    BY <2>3 DEF wait, sem_timed_out, Await, IInv, Holding, Holds
  <2>4. ASSUME NEW h \in Handler, ipmb_handle_out(h)
        PROVE  index[h] \in Slot /\ Release(index[h])
    BY <2>4 DEF ipmb_handle_out, Release, IInv, Holding, Holds
  <2>5. ASSUME NEW h \in Handler,
               \/ conn_handler_returns(h) \/ conn_handler_request(h)
               \/ get_seq_fails(h) \/ prepare(h) \/ addr_fails(h) \/ lock(h)
               \/ ioctl(h) \/ send(h)
        PROVE  UNCHANGED seqVars
    BY <2>5 DEF conn_handler_returns, conn_handler_request, get_seq_fails,
                seq_get_new_fails, prepare, addr_fails, lock, ioctl, send
  <2>6. ASSUME ipmb_res_handler
        PROVE  \E s \in Slot, m \in Req : seq_put(s, m)
    <3>1. Head(mq_res) \in Req /\ seq_of[Head(mq_res)] \in Slot
      BY <2>6, BusAssumption, QueueTail
         DEF ipmb_res_handler, IInv, TypeOK, Routable
    <3> QED BY <2>6, <3>1 DEF ipmb_res_handler
  <2>7. ASSUME \/ rx_start \/ (\E i \in Req : rx_response(i))
         \/ rx_request \/ ReqThreadStep
        PROVE  UNCHANGED seqVars
    BY <2>7, OtherThreads DEF seqVars
  <2>8. CASE UNCHANGED vars
    BY <2>8 DEF vars
  <2>9. CASE Next
    BY <2>1, <2>2, <2>3, <2>4, <2>5, <2>6, <2>7, <2>9
       DEF Next, HandlerStep, TableNext
  <2> QED BY <2>8, <2>9
<1> QED BY <1>1, <1>2, Invariant, SlotsOwned, PTL DEF Spec, TableSpec

-----------------------------------------------------------------------------
(***************************************************************************)
(* Which response a client is given.                                        *)
(***************************************************************************)

\* m is a response with the seq# of request i.
SameSeq(m, i) == m \in Req /\ seq_of[m] \in Slot /\ seq_of[m] = seq_of[i]

\* No handler is inside ipmb_handle with request m.
NotHeld(m) == \A g \in Handler : req[g] = m => ~Holds(g)

\* A request has no seq# before seq_get_new.
Fresh ==
  /\ \A i \in Req : i >= nextReq => seq_of[i] = NULL
  /\ \A h \in Handler : pc[h] = "get" => seq_of[req[h]] = NULL

\* A handler that has been given a length has a response with its own seq#.
Filled ==
  \A h \in Handler :
    /\ Holds(h) /\ len[index[h]] => SameSeq(res_buf[h], req[h])
    /\ res_len[h] => /\ pc[h] = "send"
                     /\ SameSeq(res_buf[h], req[h])
                     /\ NotHeld(res_buf[h])

Answered ==
  \A i \in Req : answer[i] \in Req => SameSeq(answer[i], i) /\ NotHeld(answer[i])

\* A request without an answer is in some handler's hands.
Attended ==
  \A i \in 1 .. (nextReq - 1) :
    answer[i] = NULL => \E h \in Handler : req[h] = i

AInv == Fresh /\ Filled /\ Answered /\ Attended

\* Only get_seq changes which requests have a seq#, and only ipmb_handle_out,
\* ipmb_res_handler, Connect and send what handlers and clients have.
LEMMA AnswerStep ==
  ASSUME ~AddrMayFail, IInv, SlotOwnership, AInv, Next PROVE AInv'
<1> USE DEF AInv
<1>0. /\ pc \in [Handler -> HandlerPc]
      /\ req \in [Handler -> Req \cup {NULL}]
      /\ index \in [Handler -> Slot \cup {-1}]
      /\ res_len \in [Handler -> BOOLEAN]
      /\ seq_of \in [Req -> Slot \cup {NULL}]
      /\ res_buf \in [Handler -> Req \cup {NULL}]
      /\ answer \in [Req -> Req \cup {0, NULL}]
      /\ len \in [Slot -> BOOLEAN]
      /\ nextReq \in 1 .. (MaxReq + 1)
  BY DEF IInv, TypeOK, SeqTypeOK
<1>01. NULL \notin Slot /\ NULL \notin Req /\ NULL # 0 /\ Req = 1 .. MaxReq
      /\ NULL \notin Handler /\ MaxReq \in Nat
  BY NullAssumption, MaxReqAssumption, SeqNumAssumption DEF Req, Slot
<1>02. \A g, k \in Handler : Holds(g) /\ Holds(k) /\ index[g] = index[k] => g = k
  BY DEF SlotOwnership
<1>1. ASSUME NEW h \in Handler, get_seq(h) PROVE AInv'
  <2>1. PICK s \in Slot :
          /\ seq_get_new(h, s)
          /\ index' = [index EXCEPT ![h] = s]
          /\ seq_of' = [seq_of EXCEPT ![req[h]] = s]
    BY <1>1 DEF get_seq
  <2>2. /\ pc[h] = "get" /\ pc' = [pc EXCEPT ![h] = "prepare"]
        /\ ~in_use[s] /\ len' = [len EXCEPT ![s] = FALSE]
        /\ UNCHANGED <<req, res_len, res_buf, nextReq, answer>>
    BY <1>1, <2>1 DEF get_seq, seq_get_new, FirstFree, Goto, cliVars
  <2>3. /\ req[h] \in Req /\ req[h] < nextReq /\ seq_of[req[h]] = NULL
        /\ \A g \in Handler : g # h => req[g] # req[h]
    BY <1>0, <2>2 DEF IInv, OwnRequest, Fresh
  <2>4. \A g \in Handler : g # h => Holds(g)' = Holds(g) /\ index'[g] = index[g]
    BY <1>0, <2>1, <2>2 DEF Holds
  <2>5. \A m, i \in Req : SameSeq(m, i) => SameSeq(m, i)'
    BY <1>0, <1>01, <2>1, <2>3 DEF SameSeq
  <2>6. \A m \in Req : seq_of[m] \in Slot /\ NotHeld(m) => NotHeld(m)'
    BY <1>01, <2>2, <2>3, <2>4 DEF NotHeld
  <2>7. Fresh'
    BY <1>0, <1>01, <2>1, <2>2, <2>3 DEF Fresh
  <2>8. Filled'
    <3> SUFFICES ASSUME NEW g \in Handler
                 PROVE  /\ Holds(g)' /\ len'[index'[g]]
                              => SameSeq(res_buf[g], req[g])'
                        /\ res_len'[g] => /\ pc'[g] = "send"
                                          /\ SameSeq(res_buf[g], req[g])'
                                          /\ NotHeld(res_buf[g])'
      BY DEF Filled
    <3>1. CASE g = h
      BY <1>0, <2>1, <2>2, <3>1 DEF Filled
    <3>2. CASE g # h
      <4>1. Holds(g) => index[g] # s /\ index[g] \in Slot
        BY <2>2 DEF IInv, Holding
      <4>2. Holds(g) \/ res_len[g] => req[g] \in Req
        BY <1>0 DEF IInv, OwnRequest, Holds, Filled
      <4>3. Holds(g)' /\ len'[index'[g]] => SameSeq(res_buf[g], req[g])'
        BY <1>0, <2>2, <2>4, <2>5, <3>2, <4>1, <4>2 DEF Filled, SameSeq
      <4>4. res_len'[g] => /\ pc'[g] = "send"
                           /\ SameSeq(res_buf[g], req[g])'
                           /\ NotHeld(res_buf[g])'
        BY <1>0, <2>2, <2>5, <2>6, <3>2, <4>2 DEF Filled, SameSeq, NotHeld
      <4> QED BY <4>3, <4>4
    <3> QED BY <3>1, <3>2
  <2>9. Answered'
    BY <2>2, <2>5, <2>6 DEF Answered, SameSeq, NotHeld
  <2>10. Attended'
    BY <2>2 DEF Attended
  <2> QED BY <2>7, <2>8, <2>9, <2>10
<1>2. ASSUME NEW h \in Handler, ipmb_handle_out(h) PROVE AInv'
  <2>1. /\ pc[h] = "out" /\ pc' = [pc EXCEPT ![h] = "send"]
        /\ res_len' = [res_len EXCEPT ![h] = len[index[h]]]
        /\ UNCHANGED <<req, index, len, res_buf, seq_of, nextReq, answer>>
    BY <1>2 DEF ipmb_handle_out, seq_release, Goto, satVars, cliVars
  <2>2. Holds(h) /\ ~Holds(h)' /\ \A g \in Handler : g # h => Holds(g)' = Holds(g)
    BY <1>0, <2>1 DEF Holds
  <2>3. \A m : NotHeld(m) => NotHeld(m)'
    BY <2>1, <2>2 DEF NotHeld
  <2>4. len[index[h]] => NotHeld(res_buf[h])'
    <3> SUFFICES ASSUME len[index[h]], NEW g \in Handler,
                        req[g] = res_buf[h], Holds(g)'
                 PROVE  FALSE
      BY <2>1 DEF NotHeld
    <3>1. g # h /\ Holds(g)
      BY <2>2
    <3>2. seq_of[req[g]] = index[g] /\ seq_of[req[h]] = index[h]
      BY <2>2, <3>1 DEF IInv, Holding
    <3>3. seq_of[res_buf[h]] = seq_of[req[h]]
      BY <2>2 DEF Filled, SameSeq
    <3> QED BY <1>02, <2>2, <3>1, <3>2, <3>3
  <2>5. Fresh' /\ Attended'
    BY <1>0, <2>1 DEF Fresh, Attended
  <2>6. Answered'
    BY <2>1, <2>3 DEF Answered, SameSeq, NotHeld
  <2>7. Filled'
    <3> SUFFICES ASSUME NEW g \in Handler
                 PROVE  /\ Holds(g)' /\ len[index[g]]
                              => SameSeq(res_buf[g], req[g])
                        /\ res_len'[g] => /\ pc'[g] = "send"
                                          /\ SameSeq(res_buf[g], req[g])
                                          /\ NotHeld(res_buf[g])'
      BY <2>1 DEF Filled, SameSeq
    <3>1. CASE g = h
      BY <1>0, <2>1, <2>2, <2>4, <3>1 DEF Filled
    <3>2. CASE g # h
      BY <1>0, <2>1, <2>2, <2>3, <3>2 DEF Filled, NotHeld
    <3> QED BY <3>1, <3>2
  <2> QED BY <2>5, <2>6, <2>7
<1>3. ASSUME NEW h \in Handler, send(h) PROVE AInv'
  <2>1. /\ pc[h] = "send" /\ pc' = [pc EXCEPT ![h] = "idle"]
        /\ answer' = [answer EXCEPT ![req[h]] =
                                     IF res_len[h] THEN res_buf[h] ELSE 0]
        /\ req' = [req EXCEPT ![h] = NULL]
        /\ index' = [index EXCEPT ![h] = -1]
        /\ res_len' = [res_len EXCEPT ![h] = FALSE]
        /\ UNCHANGED <<len, res_buf, seq_of, nextReq>>
    BY <1>3 DEF send, Goto, seqVars, satVars
  <2>2. ~Holds(h) /\ ~Holds(h)' /\ \A g \in Handler : g # h => Holds(g)' = Holds(g)
    BY <1>0, <2>1 DEF Holds
  <2>3. \A m : NotHeld(m) => NotHeld(m)'
    BY <1>0, <2>1, <2>2 DEF NotHeld
  <2>4. req[h] \in Req
    BY <1>0, <2>1 DEF IInv, OwnRequest
  <2>5. Fresh'
    BY <1>0, <2>1 DEF Fresh
  <2>6. Answered'
    <3> SUFFICES ASSUME NEW i \in Req, answer'[i] \in Req
                 PROVE  SameSeq(answer'[i], i) /\ NotHeld(answer[i])'
      BY <2>1 DEF Answered, SameSeq
    <3>1. CASE i = req[h]
      <4>1. res_len[h] /\ answer'[i] = res_buf[h]
        BY <1>0, <1>01, <2>1, <2>4, <3>1
      <4> QED BY <2>1, <2>3, <3>1, <4>1 DEF Filled, NotHeld
    <3>2. CASE i # req[h]
      BY <1>0, <2>1, <2>3, <3>2 DEF Answered, NotHeld
    <3> QED BY <3>1, <3>2
  <2>7. Filled'
    BY <1>0, <2>1, <2>2, <2>3 DEF Filled, SameSeq, NotHeld
  <2>8. Attended'
    <3>1. answer'[req[h]] # NULL
      BY <1>0, <1>01, <2>1, <2>4 DEF Filled, SameSeq
    <3> SUFFICES ASSUME NEW i \in 1 .. (nextReq - 1), answer'[i] = NULL
                 PROVE  \E g \in Handler : req'[g] = i
      BY <2>1 DEF Attended
    <3>2. i # req[h] /\ answer[i] = NULL
      BY <1>0, <1>01, <2>1, <2>4, <3>1
    <3>3. PICK g \in Handler : req[g] = i
      BY <3>2 DEF Attended
    <3> QED BY <1>0, <2>1, <3>2, <3>3
  <2> QED BY <2>5, <2>6, <2>7, <2>8
<1>4. ASSUME NEW h \in Handler, conn_handler_request(h) PROVE AInv'
  <2>1. /\ pc[h] = "recv" /\ pc' = [pc EXCEPT ![h] = "get"]
        /\ nextReq <= MaxReq /\ nextReq' = nextReq + 1
        /\ req' = [req EXCEPT ![h] = nextReq]
        /\ UNCHANGED <<index, len, res_len, res_buf, seq_of, answer>>
    BY <1>4 DEF conn_handler_request, Goto, seqVars, satVars
  <2>2. ~Holds(h) /\ ~Holds(h)' /\ \A g \in Handler : g # h => Holds(g)' = Holds(g)
    BY <1>0, <2>1 DEF Holds
  <2>3. \A m : NotHeld(m) => NotHeld(m)'
    BY <1>0, <2>1, <2>2 DEF NotHeld
  <2>4. nextReq \in Req
    BY <1>0, <1>01, <2>1
  <2>5. Fresh'
    BY <1>0, <1>01, <2>1, <2>4 DEF Fresh
  <2>6. Answered'
    BY <2>1, <2>3 DEF Answered, SameSeq, NotHeld
  <2>7. Filled'
    BY <1>0, <2>1, <2>2, <2>3 DEF Filled, SameSeq, NotHeld
  <2>8. Attended'
    <3> SUFFICES ASSUME NEW i \in 1 .. (nextReq' - 1), answer[i] = NULL
                 PROVE  \E g \in Handler : req'[g] = i
      BY <2>1 DEF Attended
    <3>1. CASE i = nextReq
      BY <1>0, <2>1, <3>1
    <3>2. CASE i # nextReq
      <4>1. i \in 1 .. (nextReq - 1)
        BY <1>0, <2>1, <3>2
      <4>2. PICK g \in Handler : req[g] = i
        BY <4>1 DEF Attended
      <4>3. req[h] = NULL
        BY <2>1 DEF IInv, OwnRequest
      <4>4. i \in Req
        BY <1>0, <1>01, <4>1
      <4> QED BY <1>0, <1>01, <2>1, <4>2, <4>3, <4>4
    <3> QED BY <3>1, <3>2
  <2> QED BY <2>5, <2>6, <2>7, <2>8
<1>5. ASSUME ipmb_res_handler PROVE AInv'
  <2> DEFINE m == Head(mq_res)
             s == seq_of[m]
  <2>1. m \in Req /\ s \in Slot /\ seq_put(s, m)
    BY <1>5, BusAssumption, QueueTail
       DEF ipmb_res_handler, IInv, TypeOK, Routable
  <2> HIDE DEF m
  <2>2. UNCHANGED <<pc, req, index, res_len, seq_of, nextReq, answer>>
    BY <1>5 DEF ipmb_res_handler, hdlVars, satVars, cliVars
  <2>3. Fresh' /\ Answered' /\ Attended'
    BY <2>2 DEF Fresh, Answered, Attended, SameSeq, NotHeld, Holds
  <2>4. CASE UNCHANGED <<len, res_buf>>
    BY <2>2, <2>3, <2>4 DEF Filled, SameSeq, NotHeld, Holds
  <2>5. CASE /\ in_use[s] /\ p_buf[s] \in Handler
             /\ res_buf' = [res_buf EXCEPT ![p_buf[s]] = m]
             /\ len' = [len EXCEPT ![s] = TRUE]
    <3> DEFINE k == p_buf[s]
    <3>1. k \in Handler /\ Holds(k) /\ index[k] = s
      BY <2>1, <2>5 DEF SlotOwnership
    <3>2. SameSeq(m, req[k])
      BY <2>1, <3>1 DEF SameSeq, IInv, Holding
    <3>3. ~res_len[k]
      BY <3>1 DEF Filled, Holds
    <3>4. res_buf' = [res_buf EXCEPT ![k] = m]
      BY <2>5
    <3> HIDE DEF k
    <3>5. ASSUME NEW g \in Handler
          PROVE  /\ Holds(g) /\ len'[index[g]] => SameSeq(res_buf'[g], req[g])
                 /\ res_len[g] => /\ pc[g] = "send"
                                  /\ SameSeq(res_buf'[g], req[g])
                                  /\ NotHeld(res_buf'[g])
      <4>1. CASE g = k
        BY <1>0, <3>2, <3>3, <3>4, <4>1
      <4>2. CASE g # k
        <5>1. Holds(g) => index[g] # s /\ index[g] \in Slot
          BY <1>02, <3>1, <4>2 DEF IInv, Holding
        <5> QED BY <1>0, <2>5, <3>4, <4>2, <5>1 DEF Filled
      <4> QED BY <4>1, <4>2
    <3>6. Filled'
      BY <2>2, <3>5 DEF Filled, SameSeq, NotHeld, Holds
    <3> QED BY <2>3, <3>6
  <2> QED BY <2>1, <2>4, <2>5, SeqPutCases DEF IInv, TypeOK
<1>6. ASSUME NEW h \in Handler, Connect(h) PROVE AInv'
  <2>1. /\ pc[h] = "idle" /\ pc' = [pc EXCEPT ![h] = "recv"]
        /\ res_buf' = [res_buf EXCEPT ![h] = NULL]
        /\ UNCHANGED <<req, index, len, res_len, seq_of, nextReq, answer>>
    BY <1>6 DEF Connect, Goto, satVars, cliVars
  <2>2. ~Holds(h) /\ ~res_len[h] /\ \A g \in Handler : Holds(g)' = Holds(g)
    BY <1>0, <2>1 DEF Holds, Filled
  <2>3. \A m : NotHeld(m) => NotHeld(m)'
    BY <2>1, <2>2 DEF NotHeld
  <2>4. Fresh' /\ Attended' /\ Answered'
    BY <1>0, <2>1, <2>3 DEF Fresh, Attended, Answered, SameSeq, NotHeld
  <2>5. Filled'
    BY <1>0, <2>1, <2>2, <2>3 DEF Filled, SameSeq, NotHeld
  <2> QED BY <2>4, <2>5
<1>7. ASSUME NEW h \in Handler,
             \/ conn_handler_returns(h) \/ get_seq_fails(h) \/ prepare(h)
             \/ lock(h) \/ ioctl(h) \/ wait(h)
      PROVE  AInv'
  <2>1. UNCHANGED <<req, index, len, res_len, res_buf, seq_of, nextReq, answer>>
    BY <1>7 DEF conn_handler_returns, get_seq_fails, prepare, lock, ioctl, wait,
                sem_acquired, sem_timed_out, seq_get_new_fails, seqVars,
                satVars, cliVars
  <2>2. \A g \in Handler : /\ Holds(g)' = Holds(g)
                           /\ pc[g] = "send" => pc'[g] = "send"
                           /\ pc'[g] = "get" => pc[g] = "get"
    BY <1>0, <1>7 DEF conn_handler_returns, get_seq_fails, prepare, lock, ioctl,
                      wait, Goto, Holds
  <2>3. \A m : NotHeld(m) => NotHeld(m)'
    BY <2>1, <2>2 DEF NotHeld
  <2>4. Fresh' /\ Attended' /\ Answered'
    BY <2>1, <2>2, <2>3 DEF Fresh, Attended, Answered, SameSeq, NotHeld
  <2>5. Filled'
    BY <2>1, <2>2, <2>3 DEF Filled, SameSeq, NotHeld
  <2> QED BY <2>4, <2>5
<1>8. ASSUME UNCHANGED <<pc, req, index, len, res_len, res_buf, seq_of, nextReq,
                         answer>>
      PROVE  AInv'
  BY <1>8 DEF Fresh, Filled, Answered, Attended, SameSeq, NotHeld, Holds
<1> QED BY <1>1, <1>2, <1>3, <1>4, <1>5, <1>6, <1>7, <1>8, OtherThreads
        DEF Next, HandlerStep, addr_fails

\* In every state that the daemon reaches, the answers are in order.
LEMMA AnswerInvariant == ASSUME ~AddrMayFail PROVE Spec => []AInv
<1>1. Init => AInv
  <2> SUFFICES ASSUME Init PROVE AInv
    OBVIOUS
  <2>1. NULL \notin Req /\ 1 .. (nextReq - 1) = {}
    BY NullAssumption, MaxReqAssumption DEF Req, Init
  <2>2. Fresh /\ Filled
    BY DEF Init, Fresh, Filled, Holds
  <2>3. Answered /\ Attended
    BY <2>1 DEF Init, Answered, Attended
  <2> QED BY <2>2, <2>3 DEF AInv
<1>2. IInv /\ SlotOwnership /\ AInv /\ [Next]_vars => AInv'
  <2> SUFFICES ASSUME IInv, SlotOwnership, AInv, [Next]_vars PROVE AInv'
    OBVIOUS
  <2>1. CASE UNCHANGED vars
    BY <2>1 DEF vars, seqVars, hdlVars, satVars, cliVars, AInv, Fresh, Filled,
                Answered, Attended, SameSeq, NotHeld, Holds
  <2> QED BY <2>1, AnswerStep
<1> QED BY <1>1, <1>2, Invariant, SlotsOwned, PTL DEF Spec

\* A client is given a response only to a request with the seq# of its own, that
\* seq_put wrote during this request, and never one whose requester still waits
\* for it; a request without an answer is still being worked on.
THEOREM AnswersHaveOwnSeq == ASSUME ~AddrMayFail PROVE Spec => []AnswerHasOwnSeq
<1>1. AInv => AnswerHasOwnSeq
  BY DEF AInv, Answered, Attended, SameSeq, NotHeld, AnswerHasOwnSeq
<1> QED BY <1>1, AnswerInvariant, PTL

-----------------------------------------------------------------------------
(***************************************************************************)
(* What the clients see.                                                    *)
(***************************************************************************)

\* A request that a handler has, or that nobody has made yet, has no answer.
Unanswered ==
  /\ \A h \in Handler : req[h] # NULL => answer[req[h]] = NULL
  /\ \A i \in Req : i >= nextReq => answer[i] = NULL

\* Only these two change what the clients see.
LEMMA ClientsSeeNothing ==
  ASSUME Next,
         \A h \in Handler : ~conn_handler_request(h) /\ ~send(h)
  PROVE  UNCHANGED <<req, nextReq, answer>>
<1>1. ASSUME NEW h \in Handler,
             \/ Connect(h) \/ conn_handler_returns(h) \/ get_seq(h)
             \/ get_seq_fails(h) \/ prepare(h) \/ addr_fails(h) \/ lock(h)
             \/ ioctl(h) \/ wait(h) \/ ipmb_handle_out(h)
      PROVE  UNCHANGED <<req, nextReq, answer>>
  BY <1>1 DEF Connect, conn_handler_returns, get_seq, get_seq_fails, prepare,
              addr_fails, lock, ioctl, wait, ipmb_handle_out, cliVars
<1>2. ASSUME ipmb_res_handler PROVE UNCHANGED <<req, nextReq, answer>>
  BY <1>2 DEF ipmb_res_handler, hdlVars, cliVars
<1> QED BY <1>1, <1>2, OtherThreads DEF Next, HandlerStep

LEMMA UnansweredStep == ASSUME IInv, Unanswered, Next PROVE Unanswered'
<1>0. /\ req \in [Handler -> Req \cup {NULL}]
      /\ answer \in [Req -> Req \cup {0, NULL}]
      /\ nextReq \in Nat
      /\ NULL \notin Req /\ Req = 1 .. MaxReq /\ MaxReq \in Nat
      /\ \A h \in Handler : req[h] # NULL => req[h] \in Req /\ req[h] < nextReq
  BY NullAssumption, MaxReqAssumption DEF IInv, TypeOK, OwnRequest, Req
<1>1. ASSUME NEW h \in Handler, conn_handler_request(h) PROVE Unanswered'
  <2>1. /\ nextReq \in Req /\ nextReq' = nextReq + 1
        /\ req' = [req EXCEPT ![h] = nextReq] /\ answer' = answer
    BY <1>0, <1>1 DEF conn_handler_request, IInv, TypeOK
  <2> QED BY <1>0, <2>1 DEF Unanswered
<1>2. ASSUME NEW h \in Handler, send(h) PROVE Unanswered'
  <2>1. /\ req[h] # NULL /\ req' = [req EXCEPT ![h] = NULL] /\ nextReq' = nextReq
        /\ \A i \in Req : i # req[h] => answer'[i] = answer[i]
    BY <1>0, <1>2 DEF send, IInv, OwnRequest
  <2>2. \A g \in Handler : g # h /\ req[g] # NULL => req[g] # req[h]
    BY DEF IInv, OwnRequest
  <2> QED BY <1>0, <2>1, <2>2 DEF Unanswered
<1>3. CASE \A h \in Handler : ~conn_handler_request(h) /\ ~send(h)
  BY <1>3, ClientsSeeNothing DEF Unanswered
<1> QED BY <1>1, <1>2, <1>3

\* A handler without a request leaves room for one more.
LEMMA RoomForRequest ==
  ASSUME IInv, NEW h \in Handler, req[h] = NULL
  PROVE  Cardinality(OpenRequests) < Cardinality(Handler)
<1> DEFINE H == Handler \ {h}
           f == [i \in OpenRequests |-> CHOOSE g \in Handler : req[g] = i]
<1>1. /\ IsFiniteSet(H) /\ IsFiniteSet(Handler)
      /\ Cardinality(H) = Cardinality(Handler) - 1
      /\ Cardinality(Handler) \in Nat
  BY HandlerAssumption, FS_RemoveElement, FS_CardinalityType
<1>2. \A i \in OpenRequests : \E g \in Handler : req[g] = i
  BY DEF OpenRequests
<1>3. \A i \in OpenRequests : f[i] \in H /\ req[f[i]] = i
  BY <1>2 DEF OpenRequests
<1>4. f \in Injection(OpenRequests, H)
  <2>1. f \in [OpenRequests -> H]
    BY <1>3
  <2>2. \A i, j \in OpenRequests : f[i] = f[j] => i = j
    BY <1>3
  <2> HIDE DEF f
  <2> QED BY <2>1, <2>2 DEF Injection, IsInjective
<1>5. IsFiniteSet(OpenRequests) /\ Cardinality(OpenRequests) <= Cardinality(H)
  BY <1>1, <1>4, FS_Injection
<1>6. Cardinality(OpenRequests) \in Nat
  BY <1>5, FS_CardinalityType
<1> QED BY <1>1, <1>5, <1>6

\* conn_handler accepts a request.
LEMMA AcceptsRequest ==
  ASSUME IInv, NEW h \in Handler, conn_handler_request(h)
  PROVE  Client!Accept
<1>0. /\ req \in [Handler -> Req \cup {NULL}] /\ nextReq \in Nat /\ MaxReq \in Nat
      /\ NULL \notin Req /\ Req = 1 .. MaxReq
  BY NullAssumption, MaxReqAssumption DEF IInv, TypeOK, Req
<1>1. /\ pc[h] = "recv" /\ nextReq <= MaxReq /\ nextReq' = nextReq + 1
      /\ req' = [req EXCEPT ![h] = nextReq] /\ answer' = answer
  BY DEF conn_handler_request
<1>2. req[h] = NULL
  BY <1>1 DEF IInv, OwnRequest
<1>3. nextReq # NULL
  BY NullAssumption, <1>0
<1>4. OpenRequests' = OpenRequests \cup {nextReq}
  <2>1. \A g \in Handler : req'[g] = IF g = h THEN nextReq ELSE req[g]
    BY <1>0, <1>1
  <2> QED BY <1>2, <1>3, <2>1 DEF OpenRequests
<1>5. nextReq - 1 + 1 = nextReq /\ nextReq' - 1 = nextReq - 1 + 1
      /\ nextReq - 1 < MaxReq
  BY <1>0, <1>1
<1>6. OpenRequests' = OpenRequests \cup {nextReq - 1 + 1}
  BY <1>4, <1>5
<1>7. Cardinality(OpenRequests) < Cardinality(Handler)
  BY <1>2, RoomForRequest
<1>8. Client!Cardinality(OpenRequests) = Cardinality(OpenRequests)
  BY DEF Client!Cardinality, Cardinality
<1> QED BY <1>1, <1>5, <1>6, <1>7, <1>8 DEF Client!Accept

\* ipc_send_resp closes the request of its handler, with a response that came
\* for a request already accepted, or with none.
LEMMA ClosesRequest ==
  ASSUME IInv, AInv, Unanswered, NEW h \in Handler, send(h)
  PROVE  \E i \in 1 .. MaxReq : Client!CloseSome(i)
<1> DEFINE i == req[h]
           r == IF res_len[h] THEN res_buf[h] ELSE 0
<1>0. /\ req \in [Handler -> Req \cup {NULL}] /\ nextReq \in Nat /\ nextReq >= 1
      /\ NULL \notin Req /\ Req = 1 .. MaxReq /\ MaxReq \in Nat
  BY NullAssumption, MaxReqAssumption DEF IInv, TypeOK, Req
<1>1. /\ i # NULL
      /\ answer' = [answer EXCEPT ![i] = r]
      /\ req' = [req EXCEPT ![h] = NULL] /\ nextReq' = nextReq
  BY DEF send, IInv, OwnRequest
<1>2. i \in 1 .. MaxReq /\ i \in OpenRequests /\ answer[i] = NULL
  BY <1>0, <1>1 DEF OpenRequests, Unanswered
<1>3. r \in 0 .. (nextReq - 1)
  <2>1. CASE res_len[h]
    <3>1. res_buf[h] \in Req /\ seq_of[res_buf[h]] \in Slot
      BY <2>1 DEF AInv, Filled, SameSeq
    <3>2. NULL \notin Slot
      BY NullAssumption, SeqNumAssumption DEF Slot
    <3>3. ~(res_buf[h] >= nextReq)
      BY <3>1, <3>2 DEF AInv, Fresh
    <3> QED BY <1>0, <2>1, <3>1, <3>3
  <2>2. CASE ~res_len[h]
    BY <1>0, <2>2
  <2> QED BY <2>1, <2>2
<1>4. OpenRequests' = OpenRequests \ {i}
  <2>1. \A g \in Handler : req'[g] = IF g = h THEN NULL ELSE req[g]
    BY <1>0, <1>1
  <2>2. \A g \in Handler : g # h /\ req[g] # NULL => req[g] # req[h]
    BY DEF IInv, OwnRequest
  <2> QED BY <1>1, <2>1, <2>2 DEF OpenRequests
<1> HIDE DEF i, r
<1> QED BY <1>1, <1>2, <1>3, <1>4 DEF Client!CloseSome, Client!Close

\* The daemon's promise to its clients, without its fairness: a request is
\* accepted only while fewer are open than there are handlers, and is closed
\* once, by its own handler, with a response to an accepted request or with
\* none.
THEOREM ServesClients == ASSUME ~AddrMayFail PROVE Spec => Client!ClientSafety
<1>1. Init => Client!ClientInit /\ Unanswered
  <2> SUFFICES ASSUME Init PROVE Client!ClientInit /\ Unanswered
    OBVIOUS
  <2>1. OpenRequests = {}
    BY DEF Init, OpenRequests
  <2>2. nextReq - 1 = 0
    BY DEF Init
  <2> QED BY <2>1, <2>2 DEF Init, Req, Unanswered, Client!ClientInit
<1>2. IInv /\ Unanswered /\ [Next]_vars => Unanswered'
  <2> SUFFICES ASSUME IInv, Unanswered, [Next]_vars PROVE Unanswered'
    OBVIOUS
  <2>1. CASE UNCHANGED vars
    BY <2>1 DEF vars, hdlVars, cliVars, Unanswered
  <2> QED BY <2>1, UnansweredStep
<1>3. IInv /\ AInv /\ Unanswered /\ [Next]_vars
        => [Client!ClientNext]_Client!clientVars
  <2> SUFFICES ASSUME IInv, AInv, Unanswered, [Next]_vars
               PROVE  [Client!ClientNext]_Client!clientVars
    OBVIOUS
  <2>1. CASE \E h \in Handler : conn_handler_request(h)
    BY <2>1, AcceptsRequest DEF Client!ClientNext
  <2>2. CASE \E h \in Handler : send(h)
    BY <2>2, ClosesRequest DEF Client!ClientNext
  <2>3. CASE UNCHANGED <<req, nextReq, answer>>
    BY <2>3 DEF Client!clientVars, OpenRequests
  <2>4. UNCHANGED vars => UNCHANGED <<req, nextReq, answer>>
    BY DEF vars, hdlVars, cliVars
  <2> QED BY <2>1, <2>2, <2>3, <2>4, ClientsSeeNothing
<1> QED BY <1>1, <1>2, <1>3, Invariant, AnswerInvariant, PTL
        DEF Spec, Client!ClientSafety

-----------------------------------------------------------------------------
(***************************************************************************)
(* The satellite's requests.                                                *)
(***************************************************************************)

\* What is answered, what is being answered, what is queued and what is still
\* to come have growing serial numbers.
PeerInv ==
  /\ PeerOrder
  /\ \A i \in 1 .. Len(peer_res) :
       IF Serves THEN peer_res[i] < peer ELSE peer_res[i] <= peer
  /\ peer < nextPeer
  /\ \A k \in 1 .. Len(mq_req) : peer < mq_req[k] /\ mq_req[k] < nextPeer
  /\ \A j, k \in 1 .. Len(mq_req) : j < k => mq_req[j] < mq_req[k]

\* Queue and server handle requests in turn.
LEMMA PeerStep == ASSUME IInv, PeerInv, Next PROVE PeerInv'
<1>0. /\ mq_req \in Seq(PeerReq) /\ Len(mq_req) <= MQ_MAX_NUM_MSGS
      /\ peer_res \in Seq(PeerReq)
      /\ peer \in Nat /\ nextPeer \in Nat
      /\ PeerReq \subseteq Nat
      /\ MQ_MAX_NUM_MSGS \in Nat
      /\ DOMAIN peer_res = 1 .. Len(peer_res)
  BY BusAssumption DEF IInv, TypeOK, PeerReq
<1>01. /\ \A k \in 1 .. Len(mq_req) : mq_req[k] \in Nat
       /\ \A i \in 1 .. Len(peer_res) : peer_res[i] \in Nat
       /\ Len(mq_req) \in Nat /\ Len(peer_res) \in Nat
  <2>1. \A k \in 1 .. Len(mq_req) : mq_req[k] \in PeerReq
    BY <1>0
  <2>2. \A i \in 1 .. Len(peer_res) : peer_res[i] \in PeerReq
    BY <1>0
  <2>3. Len(mq_req) \in Nat /\ Len(peer_res) \in Nat
    BY <1>0
  <2> QED BY <2>1, <2>2, <2>3, BusAssumption DEF PeerReq
<1>1. ASSUME rx_request PROVE PeerInv'
  <2>1. /\ nextPeer' = nextPeer + 1
        /\ UNCHANGED <<rpc, peer, peer_res>>
        /\ \/ mq_req' = mq_req
           \/ Len(mq_req) < MQ_MAX_NUM_MSGS /\ mq_req' = Append(mq_req, nextPeer)
    BY <1>1 DEF rx_request
  <2>2. nextPeer \in PeerReq
    BY <1>1, BusAssumption DEF rx_request, IInv, TypeOK, PeerReq
  <2>3. \A k \in 1 .. Len(mq_req) : mq_req[k] \in Nat
    BY <1>01
  <2>4. CASE mq_req' = mq_req
    BY <1>0, <2>1, <2>3, <2>4 DEF PeerInv, Serves, PeerOrder
  <2>5. CASE Len(mq_req) < MQ_MAX_NUM_MSGS /\ mq_req' = Append(mq_req, nextPeer)
    <3>1. /\ Len(mq_req') = Len(mq_req) + 1
          /\ \A k \in 1 .. Len(mq_req) : mq_req'[k] = mq_req[k]
          /\ mq_req'[Len(mq_req) + 1] = nextPeer
      BY <1>0, <2>2, <2>5, QueueAppend
    <3>2. \A k \in 1 .. Len(mq_req') : peer < mq_req'[k] /\ mq_req'[k] < nextPeer'
      BY <1>0, <2>1, <2>3, <3>1 DEF PeerInv
    <3>3. ASSUME NEW j \in 1 .. Len(mq_req'), NEW k \in 1 .. Len(mq_req'), j < k
          PROVE  mq_req'[j] < mq_req'[k]
      <4>1. j \in 1 .. Len(mq_req) /\ mq_req'[j] = mq_req[j]
        BY <1>01, <3>1, <3>3
      <4>2. CASE k \in 1 .. Len(mq_req)
        BY <3>1, <3>3, <4>1, <4>2 DEF PeerInv
      <4>3. CASE k = Len(mq_req) + 1
        BY <3>1, <4>1, <4>3 DEF PeerInv
      <4> QED BY <1>01, <3>1, <4>2, <4>3
    <3> QED BY <1>0, <2>1, <3>2, <3>3 DEF PeerInv, Serves, PeerOrder
  <2> QED BY <2>1, <2>4, <2>5
<1>2. ASSUME req_ignore \/ req_take PROVE PeerInv'
  <2>1. /\ rpc = "mq_receive" /\ mq_req # <<>> /\ mq_req' = Tail(mq_req)
        /\ UNCHANGED <<nextPeer, peer_res>>
        /\ \/ UNCHANGED <<rpc, peer>>
           \/ peer' = Head(mq_req) /\ rpc' = "lib_ipmi_handle"
    BY <1>2 DEF req_ignore, req_take, peerVars
  <2>2. /\ Head(mq_req) = mq_req[1]
        /\ 1 \in 1 .. Len(mq_req)
        /\ Tail(mq_req) \in Seq(PeerReq)
        /\ \A k \in 1 .. Len(mq_req') :
             k + 1 \in 1 .. Len(mq_req) /\ mq_req'[k] = mq_req[k + 1]
    BY <1>0, <2>1, QueueTail
  <2>3. /\ \A k \in 1 .. Len(mq_req') :
             mq_req[1] < mq_req'[k] /\ peer < mq_req'[k] /\ mq_req'[k] < nextPeer
        /\ \A j, k \in 1 .. Len(mq_req') : j < k => mq_req'[j] < mq_req'[k]
    <3>1. Len(mq_req') \in Nat
      BY <2>1, <2>2
    <3>2. ASSUME NEW k \in 1 .. Len(mq_req')
          PROVE  mq_req[1] < mq_req'[k] /\ peer < mq_req'[k] /\ mq_req'[k] < nextPeer
      <4>1. 1 < k + 1 /\ k + 1 \in 1 .. Len(mq_req) /\ mq_req'[k] = mq_req[k + 1]
        BY <2>2, <3>1
      <4> QED BY <2>2, <4>1 DEF PeerInv
    <3>3. ASSUME NEW j \in 1 .. Len(mq_req'), NEW k \in 1 .. Len(mq_req'), j < k
          PROVE  mq_req'[j] < mq_req'[k]
      <4>1. j + 1 < k + 1
        BY <3>1, <3>3
      <4> QED BY <2>2, <4>1 DEF PeerInv
    <3> QED BY <3>2, <3>3
  <2>4. \A i \in 1 .. Len(peer_res) : peer_res[i] \in Nat /\ peer_res[i] <= peer
    BY <1>01, <2>1 DEF PeerInv, Serves
  <2>5. peer < mq_req[1] /\ mq_req[1] < nextPeer
    BY <2>2 DEF PeerInv
  <2>6. CASE UNCHANGED <<rpc, peer>>
    BY <2>1, <2>3, <2>6 DEF PeerInv, Serves, PeerOrder
  <2>7. CASE peer' = Head(mq_req) /\ rpc' = "lib_ipmi_handle"
    <3>1. \A i \in 1 .. Len(peer_res) : peer_res[i] < peer'
      BY <1>0, <1>01, <2>2, <2>4, <2>5, <2>7
    <3> QED BY <2>1, <2>2, <2>3, <2>5, <2>7, <3>1 DEF PeerInv, Serves, PeerOrder
  <2> QED BY <2>1, <2>6, <2>7
<1>3. ASSUME req_handled \/ req_lock PROVE PeerInv'
  BY <1>3 DEF req_handled, req_lock, mqVars, PeerInv, Serves, PeerOrder
<1>4. ASSUME req_ioctl PROVE PeerInv'
  <2>1. /\ rpc = "ioctl" /\ UNCHANGED <<mq_req, peer, nextPeer>>
        /\ \/ peer_res' = Append(peer_res, peer) /\ rpc' = "mq_receive"
           \/ UNCHANGED <<peer_res, rpc>>
           \/ peer_res' = peer_res /\ rpc' = "mq_receive"
    BY <1>4 DEF req_ioctl, mqVars
  <2>2. peer \in PeerReq
    BY <2>1 DEF IInv, Serving, Serves
  <2>3. \A i \in 1 .. Len(peer_res) : peer_res[i] \in Nat /\ peer_res[i] < peer
    BY <1>01, <2>1 DEF PeerInv, Serves
  <2>4. CASE peer_res' = peer_res
    <3>1. \A i \in 1 .. Len(peer_res) : peer_res[i] < peer /\ peer_res[i] <= peer
      BY <1>0, <2>3
    <3> QED BY <2>1, <2>4, <3>1 DEF PeerInv, PeerOrder
  <2>5. CASE peer_res' = Append(peer_res, peer) /\ rpc' = "mq_receive"
    <3>1. /\ Len(peer_res') = Len(peer_res) + 1
          /\ DOMAIN peer_res' = 1 .. Len(peer_res')
          /\ \A i \in 1 .. Len(peer_res) : peer_res'[i] = peer_res[i]
          /\ peer_res'[Len(peer_res) + 1] = peer
      BY <1>0, <2>2, <2>5
    <3>2. \A i \in 1 .. Len(peer_res') : peer_res'[i] <= peer
      BY <1>0, <2>3, <3>1
    <3>3. PeerOrder'
      BY <1>0, <2>3, <3>1 DEF PeerInv, PeerOrder
    <3> QED BY <2>1, <2>5, <3>2, <3>3 DEF PeerInv, Serves
  <2> QED BY <2>1, <2>4, <2>5
<1>5. ASSUME UNCHANGED <<mq_req, rpc, peer, nextPeer, peer_res>> PROVE PeerInv'
  BY <1>5 DEF PeerInv, Serves, PeerOrder
<1>6. ASSUME NEW h \in Handler, Connect(h) \/ HandlerStep(h)
      PROVE  UNCHANGED <<mq_req, rpc, peer, nextPeer, peer_res>>
  BY <1>6 DEF HandlerStep, Connect, conn_handler_returns,
              conn_handler_request, get_seq, get_seq_fails, prepare,
              addr_fails, lock, ioctl, wait, ipmb_handle_out, send, peerVars,
              mqVars
<1>7. ASSUME rx_start \/ (\E i \in Req : rx_response(i)) \/ ipmb_res_handler
      PROVE  UNCHANGED <<mq_req, rpc, peer, nextPeer, peer_res>>
  BY <1>7 DEF rx_start, rx_response, ipmb_res_handler, peerVars, mqVars
<1>8. ASSUME req_start \/ req_start_fails PROVE PeerInv'
  BY <1>8 DEF req_start, req_start_fails, mqVars, Serves, PeerInv, PeerOrder
<1> QED BY <1>1, <1>2, <1>3, <1>4, <1>5, <1>6, <1>7, <1>8 DEF Next, ReqThreadStep

\* ipmb_req_handler answers the satellite's requests in the order they came and
\* none of them twice, whatever the receive path drops.
THEOREM PeerAnsweredInOrder == Spec => []PeerOrder
<1>1. Init => PeerInv
  <2> SUFFICES ASSUME Init PROVE PeerInv
    OBVIOUS
  <2>1. Len(mq_req) = 0 /\ Len(peer_res) = 0 /\ DOMAIN peer_res = {}
    BY DEF Init
  <2> QED BY <2>1 DEF Init, PeerInv, PeerOrder
<1>2. IInv /\ PeerInv /\ [Next]_vars => PeerInv'
  <2> SUFFICES ASSUME IInv, PeerInv, [Next]_vars PROVE PeerInv'
    OBVIOUS
  <2>1. CASE UNCHANGED vars
    BY <2>1 DEF vars, mqVars, peerVars, PeerInv, Serves, PeerOrder
  <2> QED BY <2>1, PeerStep
<1>3. PeerInv => PeerOrder
  BY DEF PeerInv
<1> QED BY <1>1, <1>2, <1>3, Invariant, PTL DEF Spec
=============================================================================
