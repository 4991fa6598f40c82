------------------------------- MODULE Pldmd -------------------------------
(***************************************************************************)
(* pldmd (pldmd.cpp, pldm_fd_handler.cpp, instance_id.cpp): one poll loop    *)
(* between mctpd and the clients of two sockets, one of them for firmware   *)
(* updates.  Each client gets an instance id, by which the answers of the   *)
(* devices find their way back.                                             *)
(*                                                                         *)
(* A client that goes is only marked, and removed at the start of the next  *)
(* round.  A connection stands for its file descriptor too: both are used   *)
(* again once they are closed.  Messages are abstracted to what they are    *)
(* and, for a request, its instance id and its sender.  The requests of     *)
(* devices that pldmd answers itself, in a thread of their own, touch none  *)
(* of this state.  poll, realloc and the socket of mctpd do not fail; mctpd *)
(* may close it.  accept4 and recv may fail.                                *)
(***************************************************************************)
EXTENDS Integers, Sequences, FiniteSets

CONSTANTS
  Conn,             \* connections, by file descriptor
  maxInstanceIds,   \* 32 in the code
  MayConnect,       \* <<c, k>>: c may connect to the socket for k
  MaySend,          \* connections that may send
  Gone, NoClient

ASSUME PldmdAssumption ==
  /\ maxInstanceIds \in Nat \ {0}
  /\ Gone \notin Conn
  /\ NoClient \notin Conn

Kind == {"normal", "update"}
Iid == 0 .. maxInstanceIds - 1

VARIABLES
  pc,                   \* where run_daemon is
  index,                \* its loop over the clients
  clients_data, pollfds,
  client_change,
  is_fw_update_active, fw_update_client,
  id, last_idx,         \* InstanceId: the ids in use, the last one given out
  revents, ready,       \* what poll reported: sockets; indices of clients
  state,                \* "off", "backlog" or "open", of each connection
  hung,                 \* the client has closed its end
  sent,                 \* a message of the client waits to be read
  backlog,              \* backlog[k]: connections not yet accepted
  pending               \* requests a device may answer: [iid, owner]

loopVars == <<pc, index, revents, ready>>
handlerVars == <<clients_data, pollfds, client_change, is_fw_update_active,
                 fw_update_client, id, last_idx>>
connVars == <<state, hung, sent, backlog, pending>>
vars == <<loopVars, handlerVars, connVars>>

Client == [fd: Conn, iid: Iid, type: Kind, active: BOOLEAN]
Fds == {clients_data[i].fd : i \in DOMAIN clients_data}

TypeOK ==
  /\ pc \in {"update", "poll", "mctp", "clients", "normal", "update_client",
             "exit"}
  /\ index \in 1 .. maxInstanceIds + 1
  /\ clients_data \in Seq(Client)
  /\ Len(clients_data) <= maxInstanceIds
  /\ pollfds \in Seq(Conn)
  /\ client_change \in BOOLEAN
  /\ is_fw_update_active \in BOOLEAN
  /\ fw_update_client \in Conn \union {NoClient}
  /\ id \subseteq Iid
  /\ last_idx \in Iid
  /\ revents \subseteq {"mctp"} \union Kind
  /\ ready \subseteq 1 .. maxInstanceIds
  /\ state \in [Conn -> {"off", "backlog", "open"}]
  /\ hung \in [Conn -> BOOLEAN]
  /\ sent \in [Conn -> BOOLEAN]
  /\ backlog \in [Kind -> Seq(Conn)]
  /\ pending \subseteq [iid: Iid, owner: Conn \union {Gone}]

\* do_init()
Init ==
  /\ pc = "update" /\ index = 1 /\ revents = {} /\ ready = {}
  /\ clients_data = <<>> /\ pollfds = <<>> /\ client_change = FALSE
  /\ is_fw_update_active = FALSE /\ fw_update_client = NoClient
  /\ id = {} /\ last_idx = 0
  /\ state = [c \in Conn |-> "off"]
  /\ hung = [c \in Conn |-> FALSE]
  /\ sent = [c \in Conn |-> FALSE]
  /\ backlog = [k \in Kind |-> <<>>]
  /\ pending = {}

-----------------------------------------------------------------------------
(* The clients. *)

Connect(c, k) ==
  /\ <<c, k>> \in MayConnect
  /\ pc # "exit"
  /\ state[c] = "off"
  /\ state' = [state EXCEPT ![c] = "backlog"]
  /\ backlog' = [backlog EXCEPT ![k] = Append(@, c)]
  /\ UNCHANGED <<loopVars, handlerVars, hung, sent, pending>>

Send(c) ==
  /\ c \in MaySend
  /\ state[c] # "off" /\ ~hung[c] /\ ~sent[c]
  /\ sent' = [sent EXCEPT ![c] = TRUE]
  /\ UNCHANGED <<loopVars, handlerVars, state, hung, backlog, pending>>

\* What the connections C have asked for and not got, they will not get.
Orphan(C) ==
  pending' = {IF r.owner \in C THEN [r EXCEPT !.owner = Gone] ELSE r : r \in pending}

HangUp(c) ==
  /\ state[c] # "off" /\ ~hung[c]
  /\ hung' = [hung EXCEPT ![c] = TRUE]
  /\ Orphan({c})
  /\ UNCHANGED <<loopVars, handlerVars, state, sent, backlog>>

\* close(): the descriptors of the set C are free again, and what a client
\* there has sent is lost.
CloseAll(C) ==
  /\ state' = [c \in Conn |-> IF c \in C THEN "off" ELSE state[c]]
  /\ hung' = [c \in Conn |-> c \notin C /\ hung[c]]
  /\ sent' = [c \in Conn |-> c \notin C /\ sent[c]]

-----------------------------------------------------------------------------
(* InstanceId *)

\* The ids in the order in which next() tries them.
Tried == [i \in 1 .. maxInstanceIds |-> (last_idx + i) % maxInstanceIds]

Free == {i \in 1 .. maxInstanceIds : Tried[i] \notin id}

\* Mutant: the id is not tested.
InstanceId_next_untested == Tried[1]

\* next(), if there is a free one.
InstanceId_next == Tried[CHOOSE i \in Free : \A j \in Free : i <= j]

-----------------------------------------------------------------------------
(* pldm_fd_handler *)

Kept == {i \in DOMAIN clients_data : clients_data[i].active}
Popped == DOMAIN clients_data \ Kept

\* tmp_clients_data: the clients that stay, in their order.  The k-th of them
\* is the one with k kept clients up to it.
Rank(i) == Cardinality({j \in Kept : j <= i})
tmp_clients_data ==
  [k \in 1 .. Cardinality(Kept) |->
     clients_data[CHOOSE i \in Kept : Rank(i) = k]]

\* Mutant: the ids are not given back.
markFree_none == UNCHANGED id

markFree == id' = id \ {clients_data[i].iid : i \in Popped}

\* Mutant: only a new client makes the array longer.
Pollfds_of_old(cls) ==
  IF Len(cls) < Len(pollfds) THEN pollfds
  ELSE [i \in DOMAIN cls |-> cls[i].fd]

Pollfds(cls) == [i \in DOMAIN cls |-> cls[i].fd]

\* Mutant: the descriptor of the client is kept.
UpdateEnds_kept == is_fw_update_active' = FALSE /\ UNCHANGED fw_update_client

UpdateEnds == is_fw_update_active' = FALSE /\ fw_update_client' = NoClient

update_pollfds ==
  /\ pc = "update"
  /\ pc' = "poll"
  /\ IF client_change
     THEN /\ clients_data' = tmp_clients_data
          /\ pollfds' = Pollfds(clients_data')
          /\ client_change' = FALSE
          /\ markFree
          /\ IF \E i \in Popped : clients_data[i].type = "update"
             THEN UpdateEnds
             ELSE UNCHANGED <<fw_update_client, is_fw_update_active>>
          /\ CloseAll({clients_data[i].fd : i \in Popped})
          /\ Orphan({clients_data[i].fd : i \in Popped})
     ELSE UNCHANGED <<clients_data, pollfds, client_change, id, state, hung,
                      sent, pending, fw_update_client, is_fw_update_active>>
  /\ UNCHANGED <<index, revents, ready, last_idx, backlog>>

\* poll: mctpd may have a message at any time.
polling ==
  /\ pc = "poll"
  /\ ready' = {i \in DOMAIN pollfds : hung[pollfds[i]] \/ sent[pollfds[i]]}
  /\ \E mctp \in SUBSET {"mctp"} :
       revents' = {k \in Kind : backlog[k] # <<>>} \union mctp
  /\ ready' # {} \/ revents' # {}
  /\ pc' = "mctp"
  /\ UNCHANGED <<index, handlerVars, connVars>>

AfterMctp == pc' = "clients" /\ UNCHANGED <<index, revents, ready>>

no_mctpd_msg ==
  /\ pc = "mctp"
  /\ "mctp" \notin revents
  /\ AfterMctp
  /\ UNCHANGED <<handlerVars, connVars>>

\* A response: get_client_fd finds its client, or there is none.
mctpd_response ==
  /\ pc = "mctp"
  /\ "mctp" \in revents
  /\ \E r \in pending : pending' = pending \ {r}
  /\ AfterMctp
  /\ UNCHANGED <<handlerVars, state, hung, sent, backlog>>

\* A request, for the update client or for pldmd itself.
mctpd_request ==
  /\ pc = "mctp"
  /\ "mctp" \in revents
  /\ AfterMctp
  /\ UNCHANGED <<handlerVars, connVars>>

\* "MCTP daemon close socket, then PLDM daemon is useless"
mctpd_closed ==
  /\ pc = "mctp"
  /\ "mctp" \in revents
  /\ pc' = "exit"
  /\ CloseAll(Conn)
  /\ backlog' = [k \in Kind |-> <<>>]
  /\ pending' = {}
  /\ UNCHANGED <<index, revents, ready, handlerVars>>

NextClient == index' = index + 1 /\ UNCHANGED <<pc, revents, ready>>

no_client_msg ==
  /\ pc = "clients"
  /\ index <= Len(clients_data)
  /\ index \notin ready
  /\ NextClient
  /\ UNCHANGED <<handlerVars, connVars>>

\* A message goes to mctpd: a request with the id of the client, or a response.
client_send_data ==
  /\ pc = "clients"
  /\ index <= Len(clients_data)
  /\ index \in ready
  /\ sent[pollfds[index]]
  /\ sent' = [sent EXCEPT ![pollfds[index]] = FALSE]
  /\ \/ pending' = pending \union
          {[iid |-> clients_data[index].iid,
            owner |-> IF hung[pollfds[index]] THEN Gone ELSE pollfds[index]]}
     \/ UNCHANGED pending
  /\ NextClient
  /\ UNCHANGED <<handlerVars, state, hung, backlog>>

\* Mutant: the change is not noted.
pop_client_unnoticed ==
  /\ clients_data' = [clients_data EXCEPT ![index].active = FALSE]
  /\ UNCHANGED <<client_change, pollfds, is_fw_update_active,
                 fw_update_client, id, last_idx>>

pop_client ==
  /\ clients_data' = [clients_data EXCEPT ![index].active = FALSE]
  /\ client_change' = TRUE
  /\ UNCHANGED <<pollfds, is_fw_update_active, fw_update_client, id, last_idx>>

\* End of file or an error; an empty packet of a client that is still there is
\* taken for the end of file.
client_gone ==
  /\ pc = "clients"
  /\ index <= Len(clients_data)
  /\ index \in ready
  /\ pop_client
  /\ NextClient
  /\ UNCHANGED connVars

clients_done ==
  /\ pc = "clients"
  /\ index > Len(clients_data)
  /\ pc' = "normal" /\ index' = 1 /\ ready' = {}
  /\ UNCHANGED <<revents, handlerVars, connVars>>

\* add_client() refuses.
Refused(k) == (k = "update" /\ is_fw_update_active) \/ Free = {}

add_client(c, k) ==
  /\ clients_data' = Append(clients_data, [fd |-> c, iid |-> InstanceId_next,
                                           type |-> k, active |-> TRUE])
  /\ client_change' = TRUE
  /\ id' = id \union {InstanceId_next}
  /\ last_idx' = InstanceId_next
  /\ IF k = "update" THEN fw_update_client' = c /\ is_fw_update_active' = TRUE
                     ELSE UNCHANGED <<fw_update_client, is_fw_update_active>>
  /\ UNCHANGED pollfds

\* From the socket for clients to the one for updates, to the next round.
NextServer(k) ==
  /\ pc' = IF k = "normal" THEN "update_client" ELSE "update"
  /\ revents' = IF k = "normal" THEN revents ELSE {}
  /\ UNCHANGED <<index, ready>>

AtServer(k) == pc = IF k = "normal" THEN "normal" ELSE "update_client"

no_new_client(k) ==
  /\ AtServer(k)
  /\ k \notin revents
  /\ NextServer(k)
  /\ UNCHANGED <<handlerVars, connVars>>

new_client_handle(k) ==
  /\ AtServer(k)
  /\ k \in revents
  /\ ~Refused(k)
  /\ add_client(Head(backlog[k]), k)
  /\ state' = [state EXCEPT ![Head(backlog[k])] = "open"]
  /\ backlog' = [backlog EXCEPT ![k] = Tail(@)]
  /\ NextServer(k)
  /\ UNCHANGED <<hung, sent, pending>>

\* Mutant: it is left in the backlog.
new_client_refused_left(k) ==
  /\ AtServer(k)
  /\ k \in revents
  /\ Refused(k)
  /\ NextServer(k)
  /\ UNCHANGED <<handlerVars, connVars>>

new_client_refused(k) ==
  /\ AtServer(k)
  /\ k \in revents
  /\ Refused(k)
  /\ CloseAll({Head(backlog[k])})
  /\ backlog' = [backlog EXCEPT ![k] = Tail(@)]
  /\ NextServer(k)
  /\ UNCHANGED <<handlerVars, pending>>

\* accept4 fails: the connection stays where it is.
accept_fails(k) ==
  /\ AtServer(k)
  /\ k \in revents
  /\ NextServer(k)
  /\ UNCHANGED <<handlerVars, connVars>>

-----------------------------------------------------------------------------
Mctpd == no_mctpd_msg \/ mctpd_response \/ mctpd_request \/ mctpd_closed

Clients == no_client_msg \/ client_send_data \/ client_gone \/ clients_done

accepted(k) == new_client_handle(k) \/ new_client_refused(k)

Servers == \E k \in Kind : no_new_client(k) \/ accepted(k) \/ accept_fails(k)

run_daemon == update_pollfds \/ polling \/ Mctpd \/ Clients \/ Servers

Next ==
  \/ run_daemon
  \/ \E c \in Conn : Send(c) \/ HangUp(c) \/ \E k \in Kind : Connect(c, k)

Spec == Init /\ [][Next]_vars

\* The daemon runs, and accept4 does not fail each time for ever: it is asked
\* again in every round, and what it lacks (descriptors, memory) comes back.
\* Nothing makes clients or devices do anything.
FairSpec ==
  /\ Spec
  /\ WF_vars(run_daemon)
  /\ \A k \in Kind : SF_vars(accepted(k))

-----------------------------------------------------------------------------
(* Properties *)

\* Where the array of poll is passed to poll, or read by the index of a
\* client, it has one entry for each client, in the same order: events are
\* never read behind its end or taken for another client.
PollfdsMatch ==
  pc \in {"poll", "mctp", "clients"} =>
    /\ Len(pollfds) = Len(clients_data)
    /\ \A i \in DOMAIN clients_data : pollfds[i] = clients_data[i].fd

\* The ids in use are the ids of the clients, each of one client, and the open
\* descriptors are theirs: a client that goes, or is refused, leaks neither.
NothingLeaks ==
  /\ pc # "exit" => {c \in Conn : state[c] = "open"} = Fds
  /\ id = {clients_data[i].iid : i \in DOMAIN clients_data}
  /\ \A i, j \in DOMAIN clients_data :
       i # j => /\ clients_data[i].iid # clients_data[j].iid
                /\ clients_data[i].fd # clients_data[j].fd

\* is_fw_update_active and fw_update_client tell if there is an update client,
\* and which, and no descriptor stays behind when it has gone;
\* "pldmd only support update one device at a time."
UpdateTracked ==
  LET U == {i \in DOMAIN clients_data : clients_data[i].type = "update"}
  IN  /\ is_fw_update_active = (U # {})
      /\ Cardinality(U) <= 1
      /\ \A i \in U : clients_data[i].fd = fw_update_client
      /\ U = {} => fw_update_client = NoClient

\* The answer to a request of a client that is still there finds that client
\* by its id, whatever clients came and went since.
AnswerFindsOwner ==
  \A r \in pending : r.owner # Gone =>
    \A i \in DOMAIN clients_data :
      (clients_data[i].iid = r.iid) <=> (clients_data[i].fd = r.owner)

\* Every connection is taken from the backlog, to be served or closed, however
\* often accept4 fails before it succeeds.
ConnectionTaken ==
  \A c \in Conn : (state[c] = "backlog") ~> (state[c] # "backlog")

\* A client that has hung up is removed, and its id is free again.
GoneIsRemoved == \A c \in Conn : hung[c] ~> ~hung[c]
=============================================================================
