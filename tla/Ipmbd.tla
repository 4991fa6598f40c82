-------------------------------- MODULE Ipmbd --------------------------------
(***************************************************************************)
(* The IPMB daemon (ipmbd.c): one instance serves one I2C bus.              *)
(*                                                                         *)
(* Threads: one handler per client connection (conn_handler and            *)
(* ipmb_handle), ipmb_rx_handler that reads what the satellite writes to    *)
(* the BMC's slave address, ipmb_res_handler that hands responses to        *)
(* handlers, and ipmb_req_handler that serves the satellite's own requests. *)
(* They share the sequence table (IpmbSeq), the bus mutex i2c_mutex and two *)
(* bounded message queues.                                                  *)
(*                                                                         *)
(* The satellite and the bus are external: a transfer that the driver       *)
(* reports as failed may or may not have reached the satellite, a response  *)
(* may come at any later time, be corrupted, or never come.                 *)
(***************************************************************************)
EXTENDS IpmbSeq, Sequences

CONSTANTS
  ReqThread,         \* ipmb_req_handler's identity as an owner of i2c_mutex
  I2C_RETRIES_MAX,   \* transfers tried per message, 15 in the code
  MQ_MAX_NUM_MSGS,   \* capacity of each message queue, 256 in the code
  MaxPeerReq,        \* bound: requests the satellite makes in a behaviour
  AddrMayFail        \* pal_get_bmc_ipmb_slave_addr can fail on this platform
                     \* (fbal), as long as it has not succeeded once

ASSUME BusAssumption ==
  /\ ReqThread \notin Handler \cup {NULL}
  /\ I2C_RETRIES_MAX \in Nat \ {0}
  /\ MQ_MAX_NUM_MSGS \in Nat \ {0}
  /\ MaxPeerReq \in Nat
  /\ AddrMayFail \in BOOLEAN

PeerReq == 1 .. MaxPeerReq
Thread == Handler \cup {ReqThread}

VARIABLES
  pc,        \* pc[h]: where connection handler h is
  req,       \* req[h]: the request h works on, NULL before it is received
  index,     \* index[h]: the seq# h was given, -1 if none
  res_len,   \* res_len[h]: *res_len is not zero
  bic_update_enabled,  \* the -u option of the command line
  addr_known,  \* pal_get_bmc_ipmb_slave_addr cannot fail (any more)
  i2c_mutex, \* the thread that holds the bus, or NULL
  tries,     \* failed transfers of the message being written
  mq_res,    \* responses queued for ipmb_res_handler
  mq_req,    \* peer requests queued for ipmb_req_handler
  rpc,       \* where ipmb_req_handler is
  peer,      \* the peer request ipmb_req_handler works on, 0 before the first
  \* The satellite's side of the bus.
  seq_of,    \* seq_of[i]: the seq# in request i, NULL before it has one
  copies,    \* copies[i]: how often the satellite got i and may still answer
  nextPeer,  \* serial number of the satellite's next request
  peer_res,  \* peer requests answered, in order of their responses
  \* The clients' side.
  nextReq,   \* serial number of the next request
  answer     \* answer[i]: NULL while open, then the response ipc_send_resp
             \* got for i (named by the request it answers), 0 if none

hdlVars == <<pc, req, index, res_len>>
cfgVars == <<bic_update_enabled, addr_known>>
busVars == <<i2c_mutex, tries>>
mqVars == <<mq_res, mq_req>>
peerVars == <<rpc, peer, nextPeer, peer_res>>
satVars == <<seq_of, copies>>
cliVars == <<nextReq, answer>>
vars == <<seqVars, hdlVars, cfgVars, busVars, mqVars, peerVars,
          satVars, cliVars>>

HandlerPc == {"idle", "recv", "get", "prepare", "lock", "ioctl", "wait", "out",
              "send"}
ReqThreadPc == {"start", "mq_receive", "lib_ipmi_handle", "lock", "ioctl", "ended"}

TypeOK ==
  /\ SeqTypeOK
  /\ pc \in [Handler -> HandlerPc]
  /\ req \in [Handler -> Req \cup {NULL}]
  /\ index \in [Handler -> Slot \cup {-1}]
  /\ res_len \in [Handler -> BOOLEAN]
  /\ bic_update_enabled \in BOOLEAN
  /\ addr_known \in BOOLEAN
  /\ i2c_mutex \in Thread \cup {NULL}
  /\ tries \in 0 .. (I2C_RETRIES_MAX - 1)
  /\ mq_res \in Seq(Req) /\ Len(mq_res) <= MQ_MAX_NUM_MSGS
  /\ mq_req \in Seq(PeerReq) /\ Len(mq_req) <= MQ_MAX_NUM_MSGS
  /\ rpc \in ReqThreadPc
  /\ peer \in PeerReq \cup {0}
  /\ seq_of \in [Req -> Slot \cup {NULL}]
  /\ copies \in [Req -> Nat]
  /\ nextPeer \in 1 .. (MaxPeerReq + 1)
  /\ peer_res \in Seq(PeerReq)
  /\ nextReq \in 1 .. (MaxReq + 1)
  /\ answer \in [Req -> Req \cup {0, NULL}]

\* main: the queues and the table are made, then the threads started.
Init ==
  /\ ipmb_seq_buf_init
  /\ pc = [h \in Handler |-> "idle"]
  /\ req = [h \in Handler |-> NULL]
  /\ index = [h \in Handler |-> -1]
  /\ res_len = [h \in Handler |-> FALSE]
  /\ bic_update_enabled \in BOOLEAN
  /\ addr_known = ~AddrMayFail
  /\ i2c_mutex = NULL
  /\ tries = 0
  /\ mq_res = <<>>
  /\ mq_req = <<>>
  /\ rpc = "start"
  /\ peer = 0
  /\ seq_of = [i \in Req |-> NULL]
  /\ copies = [i \in Req |-> 0]
  /\ nextPeer = 1
  /\ peer_res = <<>>
  /\ nextReq = 1
  /\ answer = [i \in Req |-> NULL]

Goto(h, l) == pc' = [pc EXCEPT ![h] = l]

-----------------------------------------------------------------------------
(***************************************************************************)
(* ipmb_write_satellite(t): the whole transfer holds i2c_mutex, the sleeps  *)
(* between attempts included.                                               *)
(***************************************************************************)
LockBus(t) ==
  /\ i2c_mutex = NULL
  /\ i2c_mutex' = t
  /\ tries' = 0

\* ioctl succeeds: the loop ends and the bus is released.
TransferDone(t) ==
  /\ i2c_mutex = t
  /\ i2c_mutex' = NULL
  /\ tries' = 0

\* ioctl fails and "++i < I2C_RETRIES_MAX" still holds.
TransferRetry(t) ==
  /\ i2c_mutex = t
  /\ tries + 1 < I2C_RETRIES_MAX
  /\ tries' = tries + 1
  /\ UNCHANGED i2c_mutex

\* Mutant: the error path returns without unlocking.
TransferGivesUp_locked(t) ==
  /\ i2c_mutex = t
  /\ tries + 1 = I2C_RETRIES_MAX
  /\ tries' = 0
  /\ UNCHANGED i2c_mutex

\* ioctl fails for the last time.
TransferGivesUp(t) ==
  /\ i2c_mutex = t
  /\ tries + 1 = I2C_RETRIES_MAX
  /\ i2c_mutex' = NULL
  /\ tries' = 0

\* The satellite got request i.
Reached(i) == copies' = [copies EXCEPT ![i] = @ + 1]

\* The driver reported that the transfer of i failed.
MayHaveReached(i) == Reached(i) \/ UNCHANGED copies

-----------------------------------------------------------------------------
(***************************************************************************)
(* A connection handler.                                                    *)
(***************************************************************************)

\* ipc accepts a connection and starts conn_handler in a thread of its own:
\* its buffers and locals are new.
Connect(h) ==
  /\ pc[h] = "idle"
  /\ Goto(h, "recv")
  /\ res_buf' = [res_buf EXCEPT ![h] = NULL]
  /\ UNCHANGED <<in_use, len, p_buf, seq_sem, curr_seq, req, index, res_len,
                 cfgVars, busVars, mqVars, peerVars, satVars,
                 cliVars>>

\* conn_handler returns without calling ipmb_handle: ipc_recv_req failed or
\* timed out, the client only pinged, or the daemon is in BIC-update mode and
\* this is not the update command.
conn_handler_returns(h) ==
  /\ pc[h] = "recv"
  /\ Goto(h, "idle")
  /\ UNCHANGED <<seqVars, req, index, res_len, cfgVars, busVars,
                 mqVars, peerVars, satVars, cliVars>>

\* conn_handler has a request to pass to ipmb_handle (in BIC-update mode, the
\* update command).
conn_handler_request(h) ==
  /\ pc[h] = "recv"
  /\ nextReq <= MaxReq
  /\ nextReq' = nextReq + 1
  /\ req' = [req EXCEPT ![h] = nextReq]
  /\ Goto(h, "get")
  /\ UNCHANGED <<seqVars, index, res_len, cfgVars, busVars, mqVars,
                 peerVars, satVars, answer>>

\* ipmb_handle takes a sequence number, which it puts in the request ...
get_seq(h) ==
  /\ pc[h] = "get"
  /\ \E s \in Slot :
       /\ seq_get_new(h, s)
       /\ index' = [index EXCEPT ![h] = s]
       /\ seq_of' = [seq_of EXCEPT ![req[h]] = s]
  /\ Goto(h, "prepare")
  /\ UNCHANGED <<req, res_len, cfgVars, busVars, mqVars, peerVars,
                 copies, cliVars>>

\* ... or finds none.
get_seq_fails(h) ==
  /\ pc[h] = "get"
  /\ seq_get_new_fails
  /\ Goto(h, "send")
  /\ UNCHANGED <<req, index, res_len, cfgVars, busVars, mqVars,
                 peerVars, satVars, cliVars>>

\* Mutant: "return" in place of "goto ipmb_handle_out".
prepare_leaks(h) ==
  /\ pc[h] = "prepare"
  /\ Goto(h, "lock") \/ Goto(h, "send")
  /\ addr_known' = TRUE
  /\ UNCHANGED <<seqVars, req, index, res_len, bic_update_enabled, busVars,
                 mqVars, peerVars, satVars, cliVars>>

\* The addresses and the checksums are filled in and pal_ipmb_processing
\* agrees, or it does not.
prepare(h) ==
  /\ pc[h] = "prepare"
  /\ Goto(h, "lock") \/ Goto(h, "out")
  /\ addr_known' = TRUE
  /\ UNCHANGED <<seqVars, req, index, res_len, bic_update_enabled, busVars,
                 mqVars, peerVars, satVars, cliVars>>

\* pal_get_bmc_ipmb_slave_addr fails: ipmb_handle returns at once, and the
\* slot stays as it is.
addr_fails(h) ==
  /\ AddrMayFail
  /\ ~addr_known
  /\ pc[h] = "prepare"
  /\ Goto(h, "send")
  /\ UNCHANGED <<seqVars, req, index, res_len, cfgVars, busVars,
                 mqVars, peerVars, satVars, cliVars>>

lock(h) ==
  /\ pc[h] = "lock"
  /\ LockBus(h)
  /\ Goto(h, "ioctl")
  /\ UNCHANGED <<seqVars, req, index, res_len, cfgVars, mqVars,
                 peerVars, satVars, cliVars>>

\* One ioctl of ipmb_write_satellite, and what ipmb_handle does next.
ioctl(h) ==
  /\ pc[h] = "ioctl"
  /\ \/ TransferDone(h) /\ Reached(req[h]) /\ Goto(h, "wait")
     \/ TransferRetry(h) /\ MayHaveReached(req[h]) /\ UNCHANGED pc
     \/ TransferGivesUp(h) /\ MayHaveReached(req[h]) /\ Goto(h, "out")
  /\ UNCHANGED <<seqVars, req, index, res_len, cfgVars, mqVars,
                 peerVars, seq_of, cliVars>>

\* sem_timedwait returns, with a token or with a timeout; in both cases
\* ipmb_handle goes on to ipmb_handle_out.
wait(h) ==
  /\ pc[h] = "wait"
  /\ sem_acquired(index[h]) \/ sem_timed_out(index[h])
  /\ Goto(h, "out")
  /\ UNCHANGED <<req, index, res_len, cfgVars, busVars, mqVars,
                 peerVars, satVars, cliVars>>

\* Mutant: a response that came after the timeout is thrown away.
ipmb_handle_out_drops_late(h) ==
  /\ pc[h] = "out"
  /\ res_len' = [res_len EXCEPT ![h] = len[index[h]] /\ seq_sem[index[h]] = 0]
  /\ seq_release(index[h])
  /\ Goto(h, "send")
  /\ UNCHANGED <<req, index, cfgVars, busVars, mqVars, peerVars,
                 satVars, cliVars>>

\* ipmb_handle_out: read the length and release the slot.
ipmb_handle_out(h) ==
  /\ pc[h] = "out"
  /\ res_len' = [res_len EXCEPT ![h] = len[index[h]]]
  /\ seq_release(index[h])
  /\ Goto(h, "send")
  /\ UNCHANGED <<req, index, cfgVars, busVars, mqVars, peerVars,
                 satVars, cliVars>>

\* ipc_send_resp (refused when the length is zero), and the thread ends.
send(h) ==
  /\ pc[h] = "send"
  /\ answer' = [answer EXCEPT ![req[h]] = IF res_len[h] THEN res_buf[h] ELSE 0]
  /\ req' = [req EXCEPT ![h] = NULL]
  /\ index' = [index EXCEPT ![h] = -1]
  /\ res_len' = [res_len EXCEPT ![h] = FALSE]
  /\ Goto(h, "idle")
  /\ UNCHANGED <<seqVars, cfgVars, busVars, mqVars, peerVars,
                 satVars, nextReq>>

-----------------------------------------------------------------------------
(***************************************************************************)
(* ipmb_rx_handler.  A message is dropped when it is too short, when the    *)
(* repair of its header does not help, or when its data checksum is wrong,  *)
(* and also when the queue is full: mq_timedsend is given 10 ms as an       *)
(* absolute time, which is long past, so it never waits for room.           *)
(***************************************************************************)
\* The handler starts with pal_get_bmc_ipmb_slave_addr; without an address it
\* ends, and nothing is ever received, as if the satellite were silent.
rx_start ==
  /\ ~addr_known
  /\ addr_known' = TRUE
  /\ UNCHANGED <<seqVars, hdlVars, bic_update_enabled, busVars, mqVars,
                 peerVars, satVars, cliVars>>

\* A response of the satellite to request i.
rx_response(i) ==
  /\ copies[i] > 0
  /\ copies' = [copies EXCEPT ![i] = @ - 1]
  /\ \/ UNCHANGED mq_res
     \/ /\ Len(mq_res) < MQ_MAX_NUM_MSGS
        /\ mq_res' = Append(mq_res, i)
  /\ UNCHANGED <<seqVars, hdlVars, cfgVars, busVars, mq_req,
                 peerVars, seq_of, cliVars>>

\* Mutant: peer requests are queued with a rising priority.
rx_request_priority ==
  /\ addr_known
  /\ nextPeer <= MaxPeerReq
  /\ nextPeer' = nextPeer + 1
  /\ Len(mq_req) < MQ_MAX_NUM_MSGS
  /\ mq_req' = <<nextPeer>> \o mq_req
  /\ UNCHANGED <<seqVars, hdlVars, cfgVars, busVars, mq_res, rpc,
                 peer, peer_res, satVars, cliVars>>

\* A request of the satellite.
rx_request ==
  /\ addr_known
  /\ nextPeer <= MaxPeerReq
  /\ nextPeer' = nextPeer + 1
  /\ \/ UNCHANGED mq_req
     \/ /\ Len(mq_req) < MQ_MAX_NUM_MSGS
        /\ mq_req' = Append(mq_req, nextPeer)
  /\ UNCHANGED <<seqVars, hdlVars, cfgVars, busVars, mq_res, rpc,
                 peer, peer_res, satVars, cliVars>>

\* ipmb_res_handler: the response goes to whoever holds its seq# now.
ipmb_res_handler ==
  /\ mq_res # <<>>
  /\ mq_res' = Tail(mq_res)
  /\ seq_put(seq_of[Head(mq_res)], Head(mq_res))
  /\ UNCHANGED <<hdlVars, cfgVars, busVars, mq_req, peerVars,
                 satVars, cliVars>>

-----------------------------------------------------------------------------
(***************************************************************************)
(* ipmb_req_handler.                                                        *)
(***************************************************************************)

\* The queue is opened, the address asked for, the bus opened.
req_start ==
  /\ rpc = "start"
  /\ rpc' = "mq_receive"
  /\ addr_known' = TRUE
  /\ UNCHANGED <<seqVars, hdlVars, bic_update_enabled, busVars, mqVars, peer,
                 nextPeer, peer_res, satVars, cliVars>>

\* One of these fails: the thread ends, and nobody starts it again.
req_start_fails ==
  /\ rpc = "start"
  /\ rpc' = "ended"
  /\ addr_known' \in {addr_known, TRUE}
  /\ UNCHANGED <<seqVars, hdlVars, bic_update_enabled, busVars, mqVars, peer,
                 nextPeer, peer_res, satVars, cliVars>>

\* A request is taken and ignored: BIC-update mode, or a malformed request.
req_ignore ==
  /\ rpc = "mq_receive"
  /\ mq_req # <<>>
  /\ mq_req' = Tail(mq_req)
  /\ UNCHANGED <<seqVars, hdlVars, cfgVars, busVars, mq_res,
                 peerVars, satVars, cliVars>>

req_take ==
  /\ rpc = "mq_receive"
  /\ mq_req # <<>>
  /\ ~bic_update_enabled
  /\ mq_req' = Tail(mq_req)
  /\ peer' = Head(mq_req)
  /\ rpc' = "lib_ipmi_handle"
  /\ UNCHANGED <<seqVars, hdlVars, cfgVars, busVars, mq_res,
                 nextPeer, peer_res, satVars, cliVars>>

\* lib_ipmi_handle returns; whatever it returned, a response is built.
req_handled ==
  /\ rpc = "lib_ipmi_handle"
  /\ rpc' = "lock"
  /\ UNCHANGED <<seqVars, hdlVars, cfgVars, busVars, mqVars, peer,
                 nextPeer, peer_res, satVars, cliVars>>

req_lock ==
  /\ rpc = "lock"
  /\ LockBus(ReqThread)
  /\ rpc' = "ioctl"
  /\ UNCHANGED <<seqVars, hdlVars, cfgVars, mqVars, peer, nextPeer,
                 peer_res, satVars, cliVars>>

req_ioctl ==
  /\ rpc = "ioctl"
  /\ \/ /\ TransferDone(ReqThread)
        /\ peer_res' = Append(peer_res, peer)
        /\ rpc' = "mq_receive"
     \/ /\ TransferRetry(ReqThread)
        /\ UNCHANGED <<peer_res, rpc>>
     \/ /\ TransferGivesUp(ReqThread)
        /\ rpc' = "mq_receive"
        /\ UNCHANGED peer_res
  /\ UNCHANGED <<seqVars, hdlVars, cfgVars, mqVars, peer, nextPeer,
                 satVars, cliVars>>

\* ipmb_req_handler has a request.
Serves == rpc \in {"lib_ipmi_handle", "lock", "ioctl"}

-----------------------------------------------------------------------------
\* What a started handler does next.
HandlerStep(h) ==
  \/ conn_handler_returns(h)
  \/ conn_handler_request(h)
  \/ get_seq(h)
  \/ get_seq_fails(h)
  \/ prepare(h)
  \/ addr_fails(h)
  \/ lock(h)
  \/ ioctl(h)
  \/ wait(h)
  \/ ipmb_handle_out(h)
  \/ send(h)

ReqThreadStep ==
  \/ req_start
  \/ req_start_fails
  \/ req_ignore
  \/ req_take
  \/ req_handled
  \/ req_lock
  \/ req_ioctl

Next ==
  \/ \E h \in Handler : Connect(h) \/ HandlerStep(h)
  \/ rx_start
  \/ \E i \in Req : rx_response(i)
  \/ rx_request
  \/ ipmb_res_handler
  \/ ReqThreadStep

Spec == Init /\ [][Next]_vars

(***************************************************************************)
(* Fairness.  Every daemon thread that can run is eventually scheduled, and *)
(* every wait of a handler ends: ipc_recv_req and sem_timedwait have        *)
(* timeouts, the transfer loop a retry limit.  A thread that waits for      *)
(* i2c_mutex gets it if it is released again and again.  Nothing is assumed *)
(* of the satellite or of the clients.                                      *)
(***************************************************************************)
Fairness ==
  /\ \A h \in Handler : WF_vars(HandlerStep(h)) /\ SF_vars(lock(h))
  /\ WF_vars(ipmb_res_handler)
  /\ WF_vars(ReqThreadStep) /\ SF_vars(req_lock)

FairSpec == Spec /\ Fairness

-----------------------------------------------------------------------------
(***************************************************************************)
(* Safety.                                                                  *)
(***************************************************************************)

\* Handler h is between seq_get_new and the end of ipmb_handle_out.
Holds(h) == pc[h] \in {"prepare", "lock", "ioctl", "wait", "out"}

\* The slots in use are those of the handlers inside ipmb_handle, one each, and
\* the buffer a slot points to is its handler's: seq_get_new hands no slot to
\* two handlers, ipmb_handle_out leaves neither a busy slot nor a pointer to a
\* dead handler's stack behind.
SlotOwnership ==
  /\ \A s \in Slot :
       /\ in_use[s] <=> p_buf[s] # NULL
       /\ in_use[s] => Holds(p_buf[s]) /\ index[p_buf[s]] = s
  /\ \A h \in Handler : Holds(h) => index[h] \in Slot /\ p_buf[index[h]] = h

\* A handler never sleeps in sem_timedwait on a response that seq_put has
\* already copied for it: whatever thread got there first, the token is there.
NoLostWakeup ==
  \A h \in Handler :
    pc[h] = "wait" /\ len[index[h]] => seq_sem[index[h]] > 0

\* seq_get_new never returns -1: the limit that start_ipmb_lib_handler gives
\* ipc is the size of the table, and every way through ipmb_handle returns the
\* slot, so a handler that asks for one finds one.
AllocNeverFails ==
  \A h \in Handler : pc[h] = "get" => \E s \in Slot : ~in_use[s]

\* What a client is given is a response that seq_put wrote during this very
\* request (never an old or unset res_buf), to a request with the same seq#,
\* and that request is over: two requests in progress never swap responses.
AnswerHasOwnSeq ==
  /\ \A i \in Req : answer[i] \in Req =>
       /\ seq_of[answer[i]] = seq_of[i]
       /\ \A h \in Handler : req[h] = answer[i] => ~Holds(h)
  /\ \A i \in 1 .. (nextReq - 1) :
       answer[i] = NULL => \E h \in Handler : req[h] = i

\* ipmb_res_handler writes to a handler's stack only while that handler is in
\* ipmb_handle with the seq# of the response.
WritesLiveBuffer ==
  [][\A h \in Handler :
       res_buf'[h] # res_buf[h] /\ res_buf'[h] # NULL
         => Holds(h) /\ seq_of[res_buf'[h]] = index[h]]_vars

\* ipmb_req_handler answers the satellite's requests in the order they came,
\* and no request twice, whatever was dropped on the way.
PeerOrder ==
  \A i, j \in DOMAIN peer_res : i < j => peer_res[i] < peer_res[j]

(***************************************************************************)
(* Liveness, under FairSpec.                                                *)
(***************************************************************************)

\* Every connection ends, with or without an answer from the satellite, and
\* with any competition for the bus.
RequestFinishes ==
  \A h \in Handler : pc[h] # "idle" ~> pc[h] = "idle"

\* A response that seq_put accepted is passed to the client, also when it came
\* between the timeout of sem_timedwait and ipmb_handle_out.
AcceptedIsReturned ==
  \A h \in Handler, i \in Req :
    (req[h] = i /\ Holds(h) /\ len[index[h]]) ~> answer[i] \in Req

Pending(p) ==
  \/ \E k \in DOMAIN mq_req : mq_req[k] = p
  \/ peer = p /\ Serves

\* A queued request of the satellite is eventually answered or given up, unless
\* ipmb_req_handler could not start: ipmb_rx_handler does not know of that, and
\* goes on to queue what nobody takes.
PeerServed == \A p \in PeerReq : Pending(p) ~> ~Pending(p) \/ rpc = "ended"

(***************************************************************************)
(* Refinement.                                                              *)
(***************************************************************************)
OpenRequests == {req[h] : h \in Handler} \ {NULL}

Client == INSTANCE IpmbClient WITH
  accepted <- nextReq - 1, open <- OpenRequests, answer <- answer,
  MaxOpen <- Cardinality(Handler), NoAnswer <- NULL

\* The daemon keeps its promise to clients: every accepted request is closed,
\* exactly once, by its own handler, with a response to an accepted request or
\* with none.
ImplementsClient == Client!ClientSpec
=============================================================================
