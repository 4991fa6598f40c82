------------------------------- MODULE IpmbSeq -------------------------------
(***************************************************************************)
(* The sequence-number table of ipmbd (ipmb_seq_buf in ipmbd.c).            *)
(*                                                                         *)
(* Every IPMB request that leaves the BMC carries a 6-bit sequence number;  *)
(* the response is routed back to the requester by that number alone.  The *)
(* table has one slot per number: a busy flag, the address of the           *)
(* requester's response buffer, the length of what was copied there, and a *)
(* semaphore on which the requester waits.  Every operator below is one     *)
(* critical section of seq_mutex, or one call on the semaphore.             *)
(*                                                                         *)
(* The operators are the vocabulary of Ipmbd.tla, which models the threads  *)
(* that call them.  TableSpec is the discipline the table relies on: what   *)
(* its callers may do and when.  Ipmbd implements it; IpmbSeqOrder.tla      *)
(* derives from it in which order sequence numbers are reused.              *)
(***************************************************************************)
EXTENDS Integers, FiniteSets

CONSTANTS
  SEQ_NUM_MAX,  \* number of slots, 64 in the code
  Handler,      \* client connections that ipc serves at one time
  MaxReq,       \* bound: how many requests the clients make in a behaviour
  NULL          \* no buffer, no message, no owner

(***************************************************************************)
(* start_ipmb_lib_handler passes SEQ_NUM_MAX to ipc_start_svc as the limit  *)
(* on concurrent connections, hence the bound on Handler.                   *)
(***************************************************************************)
ASSUME SeqNumAssumption == SEQ_NUM_MAX \in Nat \ {0}
ASSUME MaxReqAssumption == MaxReq \in Nat
ASSUME HandlerAssumption ==
  /\ IsFiniteSet(Handler)
  /\ Cardinality(Handler) <= SEQ_NUM_MAX
ASSUME NullAssumption == NULL \notin Handler \cup Nat

Slot == 0 .. (SEQ_NUM_MAX - 1)

\* A request, and the response to it, are named by the request's serial number.
Req == 1 .. MaxReq

VARIABLES
  in_use,    \* in_use[s]: seq# s is being used
  len,       \* len[s]: a response has been copied (len /= 0 in the code)
  p_buf,     \* p_buf[s]: the handler whose res_buf the slot points to, or NULL
  seq_sem,   \* seq_sem[s]: the value of the slot's semaphore
  curr_seq,  \* where the next search starts
  res_buf    \* res_buf[h]: the response in handler h's buffer, NULL if none

seqVars == <<in_use, len, p_buf, seq_sem, curr_seq, res_buf>>

SeqTypeOK ==
  /\ in_use \in [Slot -> BOOLEAN]
  /\ len \in [Slot -> BOOLEAN]
  /\ p_buf \in [Slot -> Handler \cup {NULL}]
  /\ seq_sem \in [Slot -> Nat]
  /\ curr_seq \in Slot
  /\ res_buf \in [Handler -> Req \cup {NULL}]

ipmb_seq_buf_init ==
  /\ in_use = [s \in Slot |-> FALSE]
  /\ len = [s \in Slot |-> FALSE]
  /\ p_buf = [s \in Slot |-> NULL]
  /\ seq_sem = [s \in Slot |-> 0]
  /\ curr_seq = 0
  /\ res_buf = [h \in Handler |-> NULL]

\* "if (++index == ARRAY_SIZE(seq)) index = 0"
Succ(s) == IF s + 1 = SEQ_NUM_MAX THEN 0 ELSE s + 1

\* The slots a search that starts at c looks at before it looks at s.
Passed(c, s) == IF c <= s THEN c .. (s - 1)
                          ELSE (c .. (SEQ_NUM_MAX - 1)) \cup (0 .. (s - 1))

\* The free slot seq_get_new stops at.
FirstFree(s) ==
  /\ ~in_use[s]
  /\ \A t \in Passed(curr_seq, s) : in_use[t]

\* Mutant: the length of the slot's last response is not reset.
seq_get_new_keeps_len(h, s) ==
  /\ FirstFree(s)
  /\ in_use' = [in_use EXCEPT ![s] = TRUE]
  /\ p_buf' = [p_buf EXCEPT ![s] = h]
  /\ curr_seq' = Succ(s)
  /\ UNCHANGED <<len, seq_sem, res_buf>>

\* Mutant: the next search starts at the slot just handed out.
seq_get_new_rescans(h, s) ==
  /\ FirstFree(s)
  /\ in_use' = [in_use EXCEPT ![s] = TRUE]
  /\ len' = [len EXCEPT ![s] = FALSE]
  /\ p_buf' = [p_buf EXCEPT ![s] = h]
  /\ curr_seq' = s
  /\ UNCHANGED <<seq_sem, res_buf>>

\* seq_get_new(resp) returns s: the first free slot from curr_seq on, which
\* now belongs to h; the next search starts behind it.
seq_get_new(h, s) ==
  /\ FirstFree(s)
  /\ in_use' = [in_use EXCEPT ![s] = TRUE]
  /\ len' = [len EXCEPT ![s] = FALSE]
  /\ p_buf' = [p_buf EXCEPT ![s] = h]
  /\ curr_seq' = Succ(s)
  /\ UNCHANGED <<seq_sem, res_buf>>

\* seq_get_new returns -1: the search came round to curr_seq.
seq_get_new_fails ==
  /\ \A s \in Slot : in_use[s]
  /\ UNCHANGED seqVars

\* seq_put(s, buf, len) with the response to request m in buf: copied and
\* signalled if the slot is in use, refused (return -1) otherwise.
seq_put(s, m) ==
  IF in_use[s] /\ p_buf[s] # NULL
    THEN /\ res_buf' = [res_buf EXCEPT ![p_buf[s]] = m]
         /\ len' = [len EXCEPT ![s] = TRUE]
         /\ seq_sem' = [seq_sem EXCEPT ![s] = @ + 1]
         /\ UNCHANGED <<in_use, p_buf, curr_seq>>
    ELSE UNCHANGED seqVars

\* sem_timedwait on the slot's semaphore returns 0.
sem_acquired(s) ==
  /\ seq_sem[s] > 0
  /\ seq_sem' = [seq_sem EXCEPT ![s] = @ - 1]
  /\ UNCHANGED <<in_use, len, p_buf, curr_seq, res_buf>>

\* Mutant: sem_wait in place of sem_timedwait.
sem_wait_for_ever(s) == FALSE /\ UNCHANGED seqVars

\* sem_timedwait returns -1 after TIMEOUT_IPMB seconds (or on a signal).
sem_timed_out(s) ==
  /\ seq_sem[s] = 0
  /\ UNCHANGED seqVars

\* Mutant: the pointer to the handler's stack is left in the slot.
seq_release_keeps_buf(s) ==
  /\ in_use' = [in_use EXCEPT ![s] = FALSE]
  /\ UNCHANGED <<len, p_buf, seq_sem, curr_seq, res_buf>>

\* The critical section behind ipmb_handle_out.
seq_release(s) ==
  /\ in_use' = [in_use EXCEPT ![s] = FALSE]
  /\ p_buf' = [p_buf EXCEPT ![s] = NULL]
  /\ UNCHANGED <<len, seq_sem, curr_seq, res_buf>>

-----------------------------------------------------------------------------
(***************************************************************************)
(* The table's contract with its callers.                                   *)
(***************************************************************************)

\* No slot points into h's stack.
Unreferenced(h) == \A s \in Slot : p_buf[s] # h

\* A handler takes a slot only when it has none ...
Take(h) == Unreferenced(h) /\ \E s \in Slot : seq_get_new(h, s)

\* ... waits on and releases only a slot that is in use ...
Await(s) == in_use[s] /\ sem_acquired(s)
Release(s) == in_use[s] /\ seq_release(s)

\* ... and its stack goes away only when no slot points there.
NewStack(h) ==
  /\ Unreferenced(h)
  /\ res_buf' = [res_buf EXCEPT ![h] = NULL]
  /\ UNCHANGED <<in_use, len, p_buf, seq_sem, curr_seq>>

TableNext ==
  \/ \E h \in Handler : Take(h) \/ NewStack(h)
  \/ \E s \in Slot : Await(s) \/ Release(s)
  \/ \E s \in Slot, m \in Req : seq_put(s, m)

\* Whatever its threads do, in whatever order, the daemon uses the table as
\* the table needs it: no handler takes a second slot or ends while a slot
\* still points to its response buffer, no free slot is released or waited on.
TableSpec == ipmb_seq_buf_init /\ [][TableNext]_seqVars
=============================================================================
