----------------------------- MODULE IpcService -----------------------------
(***************************************************************************)
(* The server side of libipc (ipc.c): svc_thread accepts connections on a   *)
(* unix socket and starts one conn_handler thread for each, never more than *)
(* active_limit at a time.  get_client reserves the place of a connection   *)
(* before accept; cli_done gives it back.                                   *)
(*                                                                         *)
(* get_client reads its local rc although nothing has set it when there was *)
(* a free place and hence no wait.  It then has what is on the stack: if    *)
(* StackKept, possibly the ETIMEDOUT an earlier call left there.            *)
(***************************************************************************)
EXTENDS Naturals, FiniteSets

CONSTANTS
  Client,                 \* processes that connect to the service
  active_limit,           \* SEQ_NUM_MAX for ipmbd
  WAIT_CLIENT_RETRIES,    \* 5 in the code
  ACCEPT_RECOVER_RETRIES, \* 5 in the code
  StackKept               \* rc may keep its value from call to call

ASSUME IpcAssumption ==
  /\ IsFiniteSet(Client)
  /\ active_limit \in Nat \ {0}
  /\ WAIT_CLIENT_RETRIES \in Nat \ {0}
  /\ ACCEPT_RECOVER_RETRIES \in Nat \ {0, 1}
  /\ StackKept \in BOOLEAN

VARIABLES
  spc,          \* where svc_thread is
  cst,          \* cst[c]: where the connection of c is
  num_active,
  signalled,    \* svc_thread is woken from its wait by pthread_cond_signal
  rc,           \* the stack word of rc is ETIMEDOUT
  cli_retries,
  acc_retries,
  faulty        \* handlers may outlast the timed wait of get_client; accept,
                \* calloc and pthread_create may fail

svcVars == <<spc, cst, num_active, signalled, rc, cli_retries, acc_retries,
             faulty>>

(***************************************************************************)
(* cst: "off"; "backlog", connected and not accepted; "accepted", accepted  *)
(* and without a thread; "serving", its handler runs; "closing", its handler *)
(* called cli_done, which has closed the socket and not yet taken the mutex. *)
(***************************************************************************)
ConnState == {"off", "backlog", "accepted", "serving", "closing"}
SvcPc == {"get_client", "timedwait", "timedout", "no_client", "accept",
          "create", "exit"}

IpcTypeOK ==
  /\ spc \in SvcPc
  /\ cst \in [Client -> ConnState]
  /\ num_active \in Nat
  /\ signalled \in BOOLEAN
  /\ rc \in BOOLEAN
  /\ cli_retries \in 0 .. WAIT_CLIENT_RETRIES
  /\ acc_retries \in 0 .. ACCEPT_RECOVER_RETRIES
  /\ faulty \in BOOLEAN

\* ipc_start_svc, and svc_thread up to its loop.
IpcInit ==
  /\ spc = "get_client"
  /\ cst = [c \in Client |-> "off"]
  /\ num_active = 0
  /\ signalled = FALSE
  /\ rc = FALSE
  /\ cli_retries = WAIT_CLIENT_RETRIES
  /\ acc_retries = ACCEPT_RECOVER_RETRIES
  /\ faulty \in BOOLEAN

Move(c, from, to) ==
  /\ cst[c] = from
  /\ cst' = [cst EXCEPT ![c] = to]

\* Mutant: no pthread_cond_signal.
GiveBack_silent ==
  /\ num_active' = num_active - 1
  /\ UNCHANGED signalled

\* The critical section of cli_done.
GiveBack ==
  /\ num_active' = num_active - 1
  /\ signalled' = (signalled \/ spc = "timedwait")

\* get_client returns a client, for which svc_thread then calls accept.
Reserve ==
  /\ spc' = "accept"
  /\ num_active' = num_active + 1
  /\ cli_retries' = WAIT_CLIENT_RETRIES

\* get_client returns NULL.
ReturnNull ==
  /\ spc' = "no_client"
  /\ UNCHANGED <<num_active, cli_retries>>

-----------------------------------------------------------------------------
(* svc_thread *)

\* Mutant: "<=" in place of "<".
get_client_free_over ==
  /\ spc = "get_client"
  /\ num_active <= active_limit
  /\ \/ Reserve /\ rc' = FALSE
     \/ StackKept /\ rc /\ ReturnNull /\ UNCHANGED rc
  /\ UNCHANGED <<cst, signalled, acc_retries>>

\* get_client finds a free place, and reads an rc it did not set: another
\* value, or a stale ETIMEDOUT.  It may also fail in calloc.
get_client_free ==
  /\ spc = "get_client"
  /\ num_active < active_limit
  /\ \/ Reserve /\ rc' = FALSE
     \/ StackKept /\ rc /\ ReturnNull /\ UNCHANGED rc
     \/ faulty /\ ReturnNull /\ rc' = FALSE
  /\ UNCHANGED <<cst, signalled, acc_retries>>

\* get_client finds every place taken and waits.
get_client_full ==
  /\ spc = "get_client"
  /\ num_active >= active_limit
  /\ spc' = "timedwait"
  /\ signalled' = FALSE
  /\ UNCHANGED <<cst, num_active, rc, cli_retries, acc_retries>>

\* pthread_cond_timedwait returns 0: the loop tests num_active again, and rc
\* is set now.
WaitReturns ==
  /\ signalled' = FALSE
  /\ rc' = FALSE
  /\ \/ num_active < active_limit /\ Reserve
     \/ num_active < active_limit /\ faulty /\ ReturnNull
     \/ /\ num_active >= active_limit
        /\ UNCHANGED <<spc, num_active, cli_retries>>
  /\ UNCHANGED <<cst, acc_retries>>

wait_signalled == spc = "timedwait" /\ signalled /\ WaitReturns

wait_spurious == spc = "timedwait" /\ ~signalled /\ WaitReturns

\* The wait times out; a handler may still give its place back before the
\* thread has the mutex again, which changes nothing for it.
wait_timed_out ==
  /\ faulty
  /\ spc = "timedwait"
  /\ ~signalled
  /\ spc' = "timedout"
  /\ rc' = TRUE
  /\ UNCHANGED <<cst, num_active, signalled, cli_retries, acc_retries>>

get_client_timed_out ==
  /\ spc = "timedout"
  /\ spc' = "no_client"
  /\ UNCHANGED <<cst, num_active, signalled, rc, cli_retries, acc_retries>>

\* get_client returned NULL.
no_client ==
  /\ spc = "no_client"
  /\ cli_retries' = cli_retries - 1
  /\ spc' = IF cli_retries - 1 <= 0 THEN "exit" ELSE "get_client"
  /\ UNCHANGED <<cst, num_active, signalled, rc, acc_retries>>

\* accept returns a connection.
accept(c) ==
  /\ spc = "accept"
  /\ Move(c, "backlog", "accepted")
  /\ spc' = "create"
  /\ acc_retries' = ACCEPT_RECOVER_RETRIES
  /\ UNCHANGED <<num_active, signalled, rc, cli_retries>>

\* accept fails.  "--acc_retries > 0" is tested before each call, so there are
\* ACCEPT_RECOVER_RETRIES - 1 calls; then the place is given back and the
\* service ends.
accept_fails ==
  /\ faulty
  /\ spc = "accept"
  /\ acc_retries' = acc_retries - 1
  /\ IF acc_retries - 1 > 1
       THEN UNCHANGED <<spc, num_active, signalled>>
       ELSE spc' = "exit" /\ GiveBack
  /\ UNCHANGED <<cst, rc, cli_retries>>

\* Mutant: a failed pthread_create does not give the place back.
create_leaks(c) ==
  /\ spc = "create"
  /\ spc' = "get_client"
  /\ Move(c, "accepted", "serving") \/ Move(c, "accepted", "off")
  /\ UNCHANGED <<num_active, signalled, rc, cli_retries, acc_retries>>

\* pthread_create starts the handler, or fails and the connection is closed.
create(c) ==
  /\ spc = "create"
  /\ spc' = "get_client"
  /\ \/ /\ Move(c, "accepted", "serving")
        /\ UNCHANGED <<num_active, signalled>>
     \/ /\ faulty
        /\ Move(c, "accepted", "off")
        /\ GiveBack
  /\ UNCHANGED <<rc, cli_retries, acc_retries>>

-----------------------------------------------------------------------------
(* The handlers and the clients *)

Connect(c) ==
  /\ spc # "exit"
  /\ Move(c, "off", "backlog")
  /\ UNCHANGED <<spc, num_active, signalled, rc, cli_retries, acc_retries>>

\* svc_thread has closed the socket: waiting connections are reset.
Reset(c) ==
  /\ spc = "exit"
  /\ Move(c, "backlog", "off")
  /\ UNCHANGED <<spc, num_active, signalled, rc, cli_retries, acc_retries>>

\* The handler has sent its response, or returned an error: cli_done starts.
handler_returns(c) ==
  /\ Move(c, "serving", "closing")
  /\ UNCHANGED <<spc, num_active, signalled, rc, cli_retries, acc_retries>>

cli_done(c) ==
  /\ Move(c, "closing", "off")
  /\ GiveBack
  /\ UNCHANGED <<spc, rc, cli_retries, acc_retries>>

SvcStep ==
  \/ get_client_free
  \/ get_client_full
  \/ wait_signalled
  \/ wait_timed_out
  \/ get_client_timed_out
  \/ no_client
  \/ accept_fails
  \/ \E c \in Client : accept(c) \/ create(c)

IpcNext ==
  /\ \/ SvcStep
     \/ wait_spurious
     \/ \E c \in Client :
          Connect(c) \/ Reset(c) \/ handler_returns(c) \/ cli_done(c)
  /\ UNCHANGED faulty

IpcSpec == IpcInit /\ [][IpcNext]_svcVars

(***************************************************************************)
(* svc_thread and the handlers run; accept takes waiting connections in     *)
(* turn.  The clients need not do anything.                                 *)
(***************************************************************************)
IpcFairSpec ==
  /\ IpcSpec
  /\ WF_svcVars(SvcStep /\ UNCHANGED faulty)
  /\ \A c \in Client :
       /\ SF_svcVars(accept(c) /\ UNCHANGED faulty)
       /\ WF_svcVars(handler_returns(c) /\ UNCHANGED faulty)
       /\ WF_svcVars(cli_done(c) /\ UNCHANGED faulty)

-----------------------------------------------------------------------------
(* Properties *)

Live == {c \in Client : cst[c] \in {"accepted", "serving", "closing"}}
Reserved == IF spc = "accept" THEN 1 ELSE 0

\* num_active counts the connections that are accepted and not done, and the
\* place get_client reserved for the next one; no error path of svc_thread or
\* of a handler loses a place or gives one back twice.
PlacesConserved == num_active = Cardinality(Live) + Reserved

\* No more handlers run at a time than the limit: this is what lets ipmbd have
\* one sequence number for each.
LimitHolds == Cardinality(Live) + Reserved <= active_limit

\* svc_thread never sleeps in get_client while there is a free place, unless
\* it has been signalled: cli_done's decrement and signal cannot be missed.
NoMissedSignal ==
  spc = "timedwait" /\ ~signalled => num_active >= active_limit

\* If no handler outlasts the wait and nothing fails, the service goes on for
\* ever and every client that connects is served, however many compete.
ClientServed ==
  \A c \in Client : (cst[c] = "backlog" /\ ~faulty) ~> cst[c] = "serving"
=============================================================================
