---------------------------- MODULE PldmdProofs ----------------------------
(***************************************************************************)
(* Proofs about Pldmd for any number of connections and instance ids.       *)
(***************************************************************************)
EXTENDS Pldmd, FiniteSetTheorems, SequenceTheorems, WellFoundedInduction, TLAPS

-----------------------------------------------------------------------------
(* The inductive invariant, in parts. *)

\* One entry for each client, in the same order.
Matching ==
  /\ Len(pollfds) = Len(clients_data)
  /\ \A i \in DOMAIN clients_data : pollfds[i] = clients_data[i].fd

\* Whoever changes the clients behind poll's back tells update_pollfds.
ChangeNoted ==
  pc \in {"poll", "mctp", "clients"} \/ ~client_change => Matching

\* The loop over the clients stays inside them.
LoopInside ==
  /\ pc = "clients" => index <= Len(clients_data) + 1
  /\ pc # "clients" => index = 1

\* A client that is marked as gone is one that the loop has passed, and the
\* mark is noted until update_pollfds runs.
MarkedBehind ==
  \A i \in DOMAIN clients_data : ~clients_data[i].active =>
    /\ client_change
    /\ pc \in {"clients", "normal", "update_client", "update"}
    /\ pc = "clients" => i < index

\* No two clients share an id or a descriptor.
Distinct ==
  \A i, j \in DOMAIN clients_data :
    i # j => /\ clients_data[i].iid # clients_data[j].iid
             /\ clients_data[i].fd # clients_data[j].fd

\* The update client, if there is one, is the only one and is known; if there is
\* none, no descriptor is kept.
OneUpdate ==
  /\ is_fw_update_active <=>
       \E i \in DOMAIN clients_data : clients_data[i].type = "update"
  /\ \A i, j \in DOMAIN clients_data :
       clients_data[i].type = "update" /\ clients_data[j].type = "update" => i = j
  /\ \A i \in DOMAIN clients_data :
       clients_data[i].type = "update" => clients_data[i].fd = fw_update_client
  /\ \/ fw_update_client = NoClient
     \/ \E i \in DOMAIN clients_data : clients_data[i].type = "update"

\* Who waits for an answer is a client that has not hung up.
OwnerThere ==
  \A r \in pending : r.owner # Gone =>
    /\ ~hung[r.owner]
    /\ \E i \in DOMAIN clients_data :
         /\ clients_data[i].iid = r.iid
         /\ clients_data[i].fd = r.owner

\* The backlogs hold the connections that wait, each of them once.
BacklogWaits ==
  \A k \in Kind : \A i \in DOMAIN backlog[k] :
    /\ state[backlog[k][i]] = "backlog"
    /\ \A l \in Kind : \A j \in DOMAIN backlog[l] :
         backlog[k][i] = backlog[l][j] => k = l /\ i = j

\* A socket that poll reported has a connection until it is accepted.
ReportedWaits ==
  /\ pc \in {"mctp", "clients", "normal"} =>
       \A k \in Kind : k \in revents => backlog[k] # <<>>
  /\ pc = "update_client" =>
       ("update" \in revents => backlog["update"] # <<>>)

\* The open descriptors and the ids in use are those of the clients.
Opened == pc # "exit" => {c \in Conn : state[c] = "open"} = Fds
IdsUsed == id = {clients_data[i].iid : i \in DOMAIN clients_data}

PInv ==
  /\ TypeOK
  /\ ChangeNoted
  /\ LoopInside
  /\ MarkedBehind
  /\ Distinct
  /\ OneUpdate
  /\ OwnerThere
  /\ BacklogWaits
  /\ ReportedWaits
  /\ Opened
  /\ IdsUsed

-----------------------------------------------------------------------------
(* The id that InstanceId::next gives out. *)

LEMMA LeastNat ==
  ASSUME NEW S \in SUBSET Nat, S # {}
  PROVE  \E i \in S : \A j \in S : i <= j
<1>1. PICK i \in S : \A j \in S : ~(<<j, i>> \in OpToRel(<, Nat))
  BY NatLessThanWellFounded, WFMin
<1>2. \A j \in S : ~(j < i)
  BY <1>1 DEF OpToRel
<1> QED BY <1>2

\* It is an id, and not in use.
LEMMA NextIsFree ==
  ASSUME last_idx \in Iid, Free # {}
  PROVE  InstanceId_next \in Iid \ id
<1> DEFINE i == CHOOSE i \in Free : \A j \in Free : i <= j
<1>1. i \in Free
  <2>1. Free \in SUBSET Nat
    BY PldmdAssumption DEF Free
  <2> QED BY <2>1, LeastNat
<1>2. i \in 1 .. maxInstanceIds /\ Tried[i] \notin id
  BY <1>1 DEF Free
<1>3. Tried[i] \in Iid
  <2>1. /\ last_idx \in Nat /\ i \in Nat /\ maxInstanceIds \in Nat
        /\ maxInstanceIds > 0
    BY <1>2, PldmdAssumption DEF Iid
  <2>2. (last_idx + i) % maxInstanceIds \in 0 .. maxInstanceIds - 1
    BY <2>1
  <2> QED BY <1>2, <2>2 DEF Tried, Iid
<1> QED BY <1>2, <1>3 DEF InstanceId_next

-----------------------------------------------------------------------------
(* The clients that update_pollfds keeps. *)

\* The ranks number the kept clients, in their order.
LEMMA RankNumbers ==
  ASSUME clients_data \in Seq(Client)
  PROVE  /\ IsFiniteSet(Kept) /\ Cardinality(Kept) \in Nat
         /\ \A i \in Kept : Rank(i) \in 1 .. Cardinality(Kept)
         /\ \A i, j \in Kept : i < j => Rank(i) < Rank(j)
         /\ \A k \in 1 .. Cardinality(Kept) : \E i \in Kept : Rank(i) = k
<1>0. DOMAIN clients_data = 1 .. Len(clients_data) /\ Len(clients_data) \in Nat
  OBVIOUS
<1>1. Kept \subseteq Nat /\ Kept \in SUBSET (1 .. Len(clients_data))
  BY <1>0 DEF Kept
<1>2. IsFiniteSet(Kept) /\ Cardinality(Kept) \in Nat
  <2>1. IsFiniteSet(1 .. Len(clients_data))
    BY <1>0, FS_Interval
  <2>2. IsFiniteSet(Kept)
    BY <1>1, <2>1, FS_Subset
  <2> QED BY <2>2, FS_CardinalityType
<1> DEFINE UpTo(i) == {j \in Kept : j <= i}
<1>3. \A i \in Kept : IsFiniteSet(UpTo(i)) /\ Cardinality(UpTo(i)) \in Nat
                      /\ Cardinality(UpTo(i)) <= Cardinality(Kept)
  BY <1>2, FS_Subset, FS_CardinalityType
<1>4. ASSUME NEW i \in Kept PROVE Rank(i) \in 1 .. Cardinality(Kept)
  <2>1. i \in UpTo(i)
    BY <1>1
  <2>2. Cardinality(UpTo(i)) # 0
    BY <1>3, <2>1, FS_EmptySet
  <2>3. Rank(i) = Cardinality(UpTo(i))
    BY DEF Rank
  <2> HIDE DEF UpTo
  <2> QED BY <1>2, <1>3, <2>2, <2>3
<1>5. ASSUME NEW i \in Kept, NEW j \in Kept, i < j PROVE Rank(i) < Rank(j)
  <2>1. UpTo(i) \in SUBSET UpTo(j)
    <3>1. i \in Nat /\ j \in Nat /\ \A x \in Kept : x \in Nat
      BY <1>1
    <3>2. \A x \in Kept : x <= i => x <= j
      BY <1>5, <3>1
    <3> QED BY <3>2
  <2>2. UpTo(i) # UpTo(j)
    BY <1>1, <1>5
  <2>3. /\ Cardinality(UpTo(i)) <= Cardinality(UpTo(j))
        /\ Cardinality(UpTo(j)) # Cardinality(UpTo(i))
    BY <1>3, <2>1, <2>2, FS_Subset
  <2>4. Rank(i) = Cardinality(UpTo(i)) /\ Rank(j) = Cardinality(UpTo(j))
    BY DEF Rank
  <2> HIDE DEF UpTo
  <2> QED BY <1>3, <2>3, <2>4
<1> DEFINE N == 1 .. Cardinality(Kept)
           f == [i \in Kept |-> Rank(i)]
<1>6. f \in Injection(Kept, N)
  <2>1. f \in [Kept -> N]
    BY <1>4
  <2>2. \A i, j \in Kept : f[i] = f[j] => i = j
    <3> SUFFICES ASSUME NEW i \in Kept, NEW j \in Kept, i # j PROVE f[i] # f[j]
      OBVIOUS
    <3>1. Rank(i) \in Nat /\ Rank(j) \in Nat
      BY <1>2, <1>4
    <3>2. i < j \/ j < i
      BY <1>1
    <3> QED BY <1>5, <3>1, <3>2
  <2> QED BY <2>1, <2>2 DEF Injection, IsInjective
<1>7. IsFiniteSet(N) /\ Cardinality(N) = Cardinality(Kept)
  BY <1>2, FS_Interval
<1>8. f \in Surjection(Kept, N)
  BY <1>6, <1>7, FS_Injection
<1>9. \A k \in N : \E i \in Kept : Rank(i) = k
  BY <1>8 DEF Surjection
<1> QED BY <1>2, <1>4, <1>5, <1>9

\* Which client of clients_data each one of tmp_clients_data is.
LEMMA KeptClients ==
  ASSUME clients_data \in Seq(Client)
  PROVE  /\ tmp_clients_data \in Seq(Client)
         /\ \E f \in [DOMAIN tmp_clients_data -> Kept] :
              /\ \A k \in DOMAIN tmp_clients_data :
                   tmp_clients_data[k] = clients_data[f[k]]
              /\ \A k, l \in DOMAIN tmp_clients_data : k < l => f[k] < f[l]
              /\ \A i \in Kept : \E k \in DOMAIN tmp_clients_data : f[k] = i
<1> DEFINE N == 1 .. Cardinality(Kept)
           f == [k \in N |-> CHOOSE i \in Kept : Rank(i) = k]
<1>1. \A k \in N : f[k] \in Kept /\ Rank(f[k]) = k
  BY RankNumbers
<1>2. f \in [N -> Kept]
  BY <1>1
<1>3. DOMAIN tmp_clients_data = N /\ \A k \in N : tmp_clients_data[k] = clients_data[f[k]]
  BY DEF tmp_clients_data
<1>4. tmp_clients_data \in Seq(Client)
  <2>1. \A k \in N : clients_data[f[k]] \in Client
    BY <1>1 DEF Kept
  <2>2. tmp_clients_data \in [N -> Client]
    BY <2>1 DEF tmp_clients_data
  <2> QED BY <2>2, RankNumbers, SeqDef
<1>5. ASSUME NEW k \in N, NEW l \in N, k < l PROVE f[k] < f[l]
  <2>1. f[k] \in Nat /\ f[l] \in Nat
    BY <1>1 DEF Kept
  <2>2. f[k] # f[l]
    BY <1>1, <1>5, RankNumbers
  <2>3. ~(f[l] < f[k])
    <3> SUFFICES ASSUME f[l] < f[k] PROVE FALSE
      OBVIOUS
    <3>1. Rank(f[l]) < Rank(f[k])
      BY <1>1, RankNumbers
    <3> QED BY <1>1, <1>5, <3>1, RankNumbers
  <2> QED BY <2>1, <2>2, <2>3
<1>6. ASSUME NEW i \in Kept PROVE \E k \in N : f[k] = i
  <2>1. Rank(i) \in N /\ f[Rank(i)] \in Kept /\ Rank(f[Rank(i)]) = Rank(i)
    BY <1>1, RankNumbers
  <2>2. f[Rank(i)] \in Nat /\ i \in Nat /\ Rank(i) \in Nat
    BY <2>1, RankNumbers DEF Kept
  <2>3. ~(f[Rank(i)] < i) /\ ~(i < f[Rank(i)])
    BY <2>1, <2>2, RankNumbers
  <2> QED BY <2>1, <2>2, <2>3
<1> HIDE DEF N, f
<1>7. \E g \in [N -> Kept] :
        /\ \A k \in N : tmp_clients_data[k] = clients_data[g[k]]
        /\ \A k, l \in N : k < l => g[k] < g[l]
        /\ \A i \in Kept : \E k \in N : g[k] = i
  BY <1>2, <1>3, <1>5, <1>6, Zenon
<1> QED BY <1>3, <1>4, <1>7

\* Clients with ids of their own are at most as many as there are ids.
LEMMA FewClients ==
  ASSUME NEW s \in Seq(Client),
         \A i, j \in DOMAIN s : i # j => s[i].iid # s[j].iid
  PROVE  Len(s) <= maxInstanceIds
<1> DEFINE D == DOMAIN s
           f == [i \in D |-> s[i].iid]
<1>1. f \in Injection(D, Iid)
  <2>1. \A i \in D : s[i].iid \in Iid
    <3>1. \A i \in D : s[i] \in Client
      OBVIOUS
    <3>2. \A x \in Client : x.iid \in Iid
      BY DEF Client
    <3> HIDE DEF D
    <3> QED BY <3>1, <3>2
  <2>2. f \in [D -> Iid]
    BY <2>1
  <2>3. \A i, j \in D : f[i] = f[j] => i = j
    OBVIOUS
  <2> HIDE DEF f
  <2> QED BY <2>2, <2>3 DEF Injection, IsInjective
<1>2. IsFiniteSet(Iid) /\ Cardinality(Iid) = maxInstanceIds
  BY PldmdAssumption, FS_Interval DEF Iid
<1>3. D = 1 .. Len(s) /\ Len(s) \in Nat
  OBVIOUS
<1>4. Cardinality(D) = Len(s)
  BY <1>3, FS_Interval
<1>5. Cardinality(D) <= Cardinality(Iid)
  BY <1>1, <1>2, FS_Injection
<1> QED BY <1>2, <1>4, <1>5

-----------------------------------------------------------------------------
(* What a step that leaves the handler alone leaves true. *)

LEMMA SameClients ==
  ASSUME PInv, UNCHANGED handlerVars
  PROVE  /\ Distinct' /\ OneUpdate' /\ IdsUsed'
         /\ Fds' = Fds
         /\ Matching' <=> Matching
BY DEF PInv, handlerVars, Distinct, OneUpdate, IdsUsed, Fds, Matching

LEMMA SameHandlerType ==
  ASSUME PInv, UNCHANGED handlerVars,
         pc' \in {"update", "poll", "mctp", "clients", "normal", "update_client",
                  "exit"},
         index' \in 1 .. maxInstanceIds + 1,
         revents' \subseteq {"mctp"} \union Kind,
         ready' \subseteq 1 .. maxInstanceIds,
         state' \in [Conn -> {"off", "backlog", "open"}],
         hung' \in [Conn -> BOOLEAN],
         sent' \in [Conn -> BOOLEAN],
         backlog' \in [Kind -> Seq(Conn)],
         pending' \subseteq [iid: Iid, owner: Conn \union {Gone}]
  PROVE  TypeOK'
BY DEF PInv, handlerVars, TypeOK

-----------------------------------------------------------------------------
(* The clients. *)

LEMMA StepConnect ==
  ASSUME PInv, NEW c \in Conn, NEW k \in Kind, Connect(c, k)
  PROVE  PInv'
<1> USE DEF Connect
<1>0. /\ UNCHANGED <<pc, index, revents, ready, hung, sent, pending>>
      /\ UNCHANGED handlerVars
      /\ clients_data' = clients_data /\ client_change' = client_change
  BY DEF loopVars, handlerVars
<1>1. /\ backlog \in [Kind -> Seq(Conn)]
      /\ state \in [Conn -> {"off", "backlog", "open"}]
  BY DEF PInv, TypeOK
<1>2. backlog' \in [Kind -> Seq(Conn)]
  BY <1>1
<1>3. state' \in [Conn -> {"off", "backlog", "open"}]
  BY <1>1
<1>4. TypeOK'
  BY <1>0, <1>2, <1>3, SameHandlerType DEF PInv, TypeOK
<1>5. BacklogWaits'
  <2>1. \A l \in Kind : l # k => backlog'[l] = backlog[l]
    BY <1>1
  <2>2. /\ DOMAIN backlog'[k] = 1 .. Len(backlog[k]) + 1
        /\ DOMAIN backlog[k] = 1 .. Len(backlog[k])
        /\ Len(backlog[k]) \in Nat
        /\ \A i \in 1 .. Len(backlog[k]) : backlog'[k][i] = backlog[k][i]
        /\ backlog'[k][Len(backlog[k]) + 1] = c
    BY <1>1
  <2>3. \A l \in Kind : \A i \in DOMAIN backlog[l] :
          backlog[l][i] # c /\ state'[backlog[l][i]] = "backlog"
    BY <1>1 DEF PInv, BacklogWaits
  <2>4. \A l \in Kind : \A i \in DOMAIN backlog'[l] :
          \/ i \in DOMAIN backlog[l] /\ backlog'[l][i] = backlog[l][i]
          \/ l = k /\ i = Len(backlog[k]) + 1 /\ backlog'[l][i] = c
    BY <2>1, <2>2
  <2>5. state'[c] = "backlog"
    BY <1>1
  <2> QED BY <2>3, <2>4, <2>5 DEF PInv, BacklogWaits
<1>6. ReportedWaits'
  <2>1. \A l \in Kind : backlog[l] # <<>> => backlog'[l] # <<>>
    BY <1>1
  <2> QED BY <1>0, <2>1 DEF PInv, ReportedWaits, Kind
<1>7. Opened'
  BY <1>0, <1>1, SameClients DEF PInv, Opened
<1>8. ChangeNoted' /\ LoopInside' /\ MarkedBehind' /\ OwnerThere'
  BY <1>0, SameClients DEF PInv, ChangeNoted, LoopInside, MarkedBehind, OwnerThere
<1> QED BY <1>0, <1>4, <1>5, <1>6, <1>7, <1>8, SameClients DEF PInv

LEMMA StepSend ==
  ASSUME PInv, NEW c \in Conn, Send(c)
  PROVE  PInv'
<1>0. /\ UNCHANGED <<pc, index, revents, ready, state, hung, backlog, pending>>
      /\ UNCHANGED handlerVars
      /\ clients_data' = clients_data /\ client_change' = client_change
      /\ sent' = [sent EXCEPT ![c] = TRUE]
  BY DEF loopVars, handlerVars, Send
<1>1. TypeOK'
  BY <1>0, SameHandlerType DEF PInv, TypeOK
<1>2. ChangeNoted' /\ LoopInside' /\ MarkedBehind' /\ OwnerThere'
  BY <1>0, SameClients DEF PInv, ChangeNoted, LoopInside, MarkedBehind, OwnerThere
<1>3. BacklogWaits' /\ ReportedWaits' /\ Opened'
  BY <1>0, SameClients DEF PInv, BacklogWaits, ReportedWaits, Opened
<1> QED BY <1>0, <1>1, <1>2, <1>3, SameClients DEF PInv

\* The requests that still have an owner are those of the other connections.
LEMMA Orphaned ==
  ASSUME PInv, NEW C, Orphan(C)
  PROVE  /\ pending' \subseteq [iid: Iid, owner: Conn \union {Gone}]
         /\ \A r \in pending' : r.owner # Gone =>
              r \in pending /\ r.owner \notin C /\ r.owner \in Conn
<1> DEFINE Req == [iid: Iid, owner: Conn \union {Gone}]
<1>1. pending \subseteq Req
  BY DEF PInv, TypeOK
<1>2. \A q \in Req : /\ [q EXCEPT !.owner = Gone] \in Req
                     /\ [q EXCEPT !.owner = Gone].owner = Gone
  OBVIOUS
<1>3. \A r \in pending' : \/ r \in pending /\ r.owner \notin C
                          \/ \E q \in pending : r = [q EXCEPT !.owner = Gone]
  BY DEF Orphan
<1>4. \A q \in Req : q.owner # Gone => q.owner \in Conn
  OBVIOUS
<1> QED BY <1>1, <1>2, <1>3, <1>4, Zenon

LEMMA StepHangUp ==
  ASSUME PInv, NEW c \in Conn, HangUp(c)
  PROVE  PInv'
<1>0. /\ UNCHANGED <<pc, index, revents, ready, state, sent, backlog>>
      /\ UNCHANGED handlerVars
      /\ clients_data' = clients_data /\ client_change' = client_change
      /\ hung' = [hung EXCEPT ![c] = TRUE]
  BY DEF loopVars, handlerVars, HangUp
<1>1. Orphan({c})
  BY DEF HangUp
<1>3. TypeOK'
  BY <1>0, <1>1, Orphaned, SameHandlerType DEF PInv, TypeOK
<1>4. OwnerThere'
  <2> SUFFICES ASSUME NEW r \in pending', r.owner # Gone
               PROVE  r \in pending /\ hung'[r.owner] = hung[r.owner]
    BY <1>0 DEF PInv, OwnerThere
  <2>1. r \in pending /\ r.owner # c /\ r.owner \in Conn
    BY <1>1, Orphaned
  <2> QED BY <1>0, <2>1 DEF PInv, TypeOK
<1>5. ChangeNoted' /\ LoopInside' /\ MarkedBehind'
  BY <1>0, SameClients DEF PInv, ChangeNoted, LoopInside, MarkedBehind
<1>6. BacklogWaits' /\ ReportedWaits' /\ Opened'
  BY <1>0, SameClients DEF PInv, BacklogWaits, ReportedWaits, Opened
<1> QED BY <1>0, <1>3, <1>4, <1>5, <1>6, SameClients DEF PInv

-----------------------------------------------------------------------------
(* update_pollfds *)

\* There is nothing to do.
LEMMA StepNoChange ==
  ASSUME PInv, update_pollfds, ~client_change
  PROVE  PInv'
<1>0. /\ pc = "update" /\ pc' = "poll"
      /\ UNCHANGED <<index, revents, ready, state, hung, sent, backlog, pending>>
      /\ UNCHANGED handlerVars
      /\ clients_data' = clients_data /\ client_change' = client_change
  BY DEF handlerVars, update_pollfds
<1>1. TypeOK'
  BY <1>0, SameHandlerType DEF PInv, TypeOK
<1>2. ChangeNoted' /\ LoopInside' /\ MarkedBehind' /\ OwnerThere'
  BY <1>0, SameClients DEF PInv, ChangeNoted, LoopInside, MarkedBehind, OwnerThere
<1>3. BacklogWaits' /\ ReportedWaits' /\ Opened'
  BY <1>0, SameClients DEF PInv, BacklogWaits, ReportedWaits, Opened
<1> QED BY <1>0, <1>1, <1>2, <1>3, SameClients DEF PInv

\* The clients that are marked go.
LEMMA StepRemove ==
  ASSUME PInv, update_pollfds, client_change
  PROVE  PInv'
<1> DEFINE C == {clients_data[i].fd : i \in Popped}
<1>0. /\ pc = "update" /\ pc' = "poll"
      /\ clients_data' = tmp_clients_data
      /\ pollfds' = [i \in DOMAIN clients_data' |-> clients_data'[i].fd]
      /\ client_change' = FALSE
      /\ id' = id \ {clients_data[i].iid : i \in Popped}
      /\ IF \E i \in Popped : clients_data[i].type = "update"
         THEN fw_update_client' = NoClient /\ is_fw_update_active' = FALSE
         ELSE UNCHANGED <<fw_update_client, is_fw_update_active>>
      /\ state' = [c \in Conn |-> IF c \in C THEN "off" ELSE state[c]]
      /\ hung' = [c \in Conn |-> c \notin C /\ hung[c]]
      /\ sent' = [c \in Conn |-> c \notin C /\ sent[c]]
      /\ Orphan(C)
      /\ UNCHANGED <<index, revents, ready, last_idx, backlog>>
  BY DEF update_pollfds, UpdateEnds, markFree, CloseAll, Pollfds
<1>1. /\ clients_data \in Seq(Client)
      /\ DOMAIN clients_data = 1 .. Len(clients_data)
      /\ \A i \in DOMAIN clients_data : clients_data[i] \in Client
      /\ Kept \subseteq DOMAIN clients_data
      /\ Popped = DOMAIN clients_data \ Kept
      /\ \A i \in DOMAIN clients_data : i \in Kept <=> clients_data[i].active
  BY DEF PInv, TypeOK, Kept, Popped
<1>2. clients_data' \in Seq(Client)
  BY <1>0, <1>1, KeptClients
<1>3. PICK f \in [DOMAIN clients_data' -> Kept] :
        /\ \A k \in DOMAIN clients_data' : clients_data'[k] = clients_data[f[k]]
        /\ \A k, l \in DOMAIN clients_data' : k < l => f[k] < f[l]
        /\ \A i \in Kept : \E k \in DOMAIN clients_data' : f[k] = i
  BY <1>0, <1>1, KeptClients
<1>4. /\ DOMAIN clients_data' = 1 .. Len(clients_data')
      /\ Len(clients_data') \in Nat
      /\ \A k \in DOMAIN clients_data' : clients_data'[k] \in Client
  BY <1>2
<1>5. \A k, l \in DOMAIN clients_data' : f[k] = f[l] => k = l
  <2> SUFFICES ASSUME NEW k \in DOMAIN clients_data', NEW l \in DOMAIN clients_data',
                      k # l
               PROVE  f[k] # f[l]
    OBVIOUS
  <2>1. k < l \/ l < k
    BY <1>4
  <2>2. f[k] \in Nat /\ f[l] \in Nat
    BY <1>1
  <2> QED BY <1>3, <2>1, <2>2
<1>6. \A i \in Kept : clients_data[i].fd \notin C
  BY <1>1 DEF PInv, Distinct
<1>7. \A k \in DOMAIN clients_data' :
        /\ f[k] \in DOMAIN clients_data /\ f[k] \in Kept
        /\ clients_data'[k] = clients_data[f[k]]
        /\ clients_data'[k].active
  BY <1>1, <1>3
<1>8. Distinct'
  BY <1>5, <1>7 DEF PInv, Distinct
<1>9. TypeOK'
  <2>1. Len(clients_data') <= maxInstanceIds
    BY <1>2, <1>8, FewClients DEF Distinct
  <2>2. pollfds' \in Seq(Conn)
    <3>1. \A k \in 1 .. Len(clients_data') : clients_data'[k].fd \in Conn
      BY <1>4 DEF Client
    <3> QED BY <1>0, <1>4, <3>1
  <2>3. /\ is_fw_update_active' \in BOOLEAN
        /\ fw_update_client' \in Conn \union {NoClient}
    BY <1>0 DEF PInv, TypeOK
  <2>4. /\ state' \in [Conn -> {"off", "backlog", "open"}]
        /\ hung' \in [Conn -> BOOLEAN]
        /\ sent' \in [Conn -> BOOLEAN]
    BY <1>0 DEF PInv, TypeOK
  <2>5. id' \subseteq Iid
    BY <1>0 DEF PInv, TypeOK
  <2>6. pending' \subseteq [iid: Iid, owner: Conn \union {Gone}]
    BY <1>0, Orphaned
  <2> QED BY <1>0, <1>2, <2>1, <2>2, <2>3, <2>4, <2>5, <2>6 DEF PInv, TypeOK
<1>10. ChangeNoted'
  BY <1>0, <1>4 DEF ChangeNoted, Matching
<1>11. LoopInside' /\ MarkedBehind' /\ ReportedWaits'
  BY <1>0, <1>7 DEF PInv, LoopInside, MarkedBehind, ReportedWaits
<1>12. OneUpdate'
  <2>1. CASE \E i \in Popped : clients_data[i].type = "update"
    <3>1. \A k \in DOMAIN clients_data' : clients_data'[k].type # "update"
      BY <1>1, <1>7, <2>1 DEF PInv, OneUpdate
    <3> QED BY <1>0, <2>1, <3>1 DEF OneUpdate
  <2>2. CASE ~\E i \in Popped : clients_data[i].type = "update"
    <3>1. /\ UNCHANGED <<fw_update_client, is_fw_update_active>>
          /\ \A i \in DOMAIN clients_data :
               clients_data[i].type = "update" => i \in Kept
      BY <1>0, <1>1, <2>2
    <3>2. (\E i \in DOMAIN clients_data : clients_data[i].type = "update")
             <=> (\E k \in DOMAIN clients_data' : clients_data'[k].type = "update")
      BY <1>3, <1>7, <3>1
    <3> QED BY <1>5, <1>7, <3>1, <3>2 DEF PInv, OneUpdate
  <2> QED BY <2>1, <2>2
<1>13. OwnerThere'
  <2> SUFFICES ASSUME NEW r \in pending', r.owner # Gone
               PROVE  /\ ~hung'[r.owner]
                      /\ \E k \in DOMAIN clients_data' :
                           /\ clients_data'[k].iid = r.iid
                           /\ clients_data'[k].fd = r.owner
    BY DEF OwnerThere
  <2>1. r \in pending /\ r.owner \notin C /\ r.owner \in Conn
    BY <1>0, Orphaned
  <2>2. PICK i \in DOMAIN clients_data : /\ clients_data[i].iid = r.iid
                                         /\ clients_data[i].fd = r.owner
    BY <2>1 DEF PInv, OwnerThere
  <2>3. i \in Kept
    BY <1>1, <2>1, <2>2
  <2>4. PICK k \in DOMAIN clients_data' : f[k] = i
    BY <1>3, <2>3
  <2>5. ~hung[r.owner]
    BY <2>1 DEF PInv, OwnerThere
  <2> QED BY <1>0, <1>7, <2>1, <2>2, <2>4, <2>5
<1>14. \A i \in DOMAIN clients_data : state[clients_data[i].fd] = "open"
  BY <1>0, <1>1 DEF PInv, Opened, Fds
<1>15. BacklogWaits'
  <2>1. \A k \in Kind : \A i \in DOMAIN backlog[k] :
          /\ backlog[k][i] \in Conn
          /\ state[backlog[k][i]] = "backlog"
    BY DEF PInv, TypeOK, BacklogWaits
  <2>2. \A k \in Kind : \A i \in DOMAIN backlog[k] : backlog[k][i] \notin C
    <3>1. \A c \in C : state[c] = "open"
      BY <1>1, <1>14
    <3> HIDE DEF C
    <3> QED BY <2>1, <3>1
  <2> QED BY <1>0, <2>1, <2>2 DEF PInv, BacklogWaits
<1>16. Opened'
  <2>1. \A c \in Conn : state'[c] = "open" <=> state[c] = "open" /\ c \notin C
    BY <1>0
  <2>2. \A c \in Conn : state[c] = "open" <=> c \in Fds
    BY <1>0 DEF PInv, Opened
  <2>3. \A c : c \in Fds' <=> c \in Fds /\ c \notin C
    <3>1. ASSUME NEW k \in DOMAIN clients_data'
          PROVE  clients_data'[k].fd \in Fds /\ clients_data'[k].fd \notin C
      BY <1>6, <1>7 DEF Fds
    <3>2. ASSUME NEW i \in DOMAIN clients_data, clients_data[i].fd \notin C
          PROVE  clients_data[i].fd \in Fds'
      <4>1. i \in Kept
        BY <1>1, <3>2
      <4>2. PICK k \in DOMAIN clients_data' : f[k] = i
        BY <1>3, <4>1
      <4> QED BY <1>7, <4>2 DEF Fds
    <3> QED BY <3>1, <3>2 DEF Fds
  <2>4. Fds' \subseteq Conn
    <3>1. \A k \in DOMAIN clients_data' : clients_data'[k].fd \in Conn
      BY <1>4 DEF Client
    <3> QED BY <3>1 DEF Fds
  <2> HIDE DEF C
  <2> QED BY <2>1, <2>2, <2>3, <2>4 DEF Opened
<1>17. IdsUsed'
  <2>1. \A x : x \in id' => \E k \in DOMAIN clients_data' : clients_data'[k].iid = x
    <3> SUFFICES ASSUME NEW x \in id'
                 PROVE  \E k \in DOMAIN clients_data' : clients_data'[k].iid = x
      OBVIOUS
    <3>1. PICK i \in DOMAIN clients_data : clients_data[i].iid = x
      BY <1>0 DEF PInv, IdsUsed
    <3>2. i \in Kept
      BY <1>0, <1>1, <3>1
    <3>3. PICK k \in DOMAIN clients_data' : f[k] = i
      BY <1>3, <3>2
    <3> QED BY <1>7, <3>1, <3>3
  <2>2. \A k \in DOMAIN clients_data' : clients_data'[k].iid \in id'
    <3> SUFFICES ASSUME NEW k \in DOMAIN clients_data'
                 PROVE  clients_data'[k].iid \in id'
      OBVIOUS
    <3>1. clients_data[f[k]].iid \in id
      BY <1>7 DEF PInv, IdsUsed
    <3>2. \A i \in Popped : clients_data[i].iid # clients_data[f[k]].iid
      BY <1>1, <1>7 DEF PInv, Distinct
    <3> QED BY <1>0, <1>7, <3>1, <3>2
  <2> QED BY <2>1, <2>2 DEF IdsUsed
<1> QED BY <1>8, <1>9, <1>10, <1>11, <1>12, <1>13, <1>15, <1>16, <1>17 DEF PInv

-----------------------------------------------------------------------------
(* poll, and what comes from mctpd. *)

LEMMA StepPolling ==
  ASSUME PInv, polling
  PROVE  PInv'
<1>0. /\ pc = "poll" /\ pc' = "mctp"
      /\ UNCHANGED <<index, state, hung, sent, backlog, pending>>
      /\ UNCHANGED handlerVars
      /\ clients_data' = clients_data /\ client_change' = client_change
      /\ ready' \subseteq DOMAIN pollfds
  BY DEF handlerVars, connVars, polling
<1>1. /\ revents' \subseteq {"mctp"} \union Kind
      /\ \A k \in Kind : k \in revents' => backlog[k] # <<>>
  BY DEF polling, Kind
<1>2. ready' \subseteq 1 .. maxInstanceIds
  <2>1. Matching
    BY <1>0 DEF PInv, ChangeNoted
  <2>2. DOMAIN pollfds = 1 .. Len(pollfds) /\ Len(pollfds) \in Nat
        /\ Len(clients_data) <= maxInstanceIds
    BY DEF PInv, TypeOK
  <2> QED BY <1>0, <2>1, <2>2, PldmdAssumption DEF Matching
<1>3. TypeOK'
  BY <1>0, <1>1, <1>2, SameHandlerType DEF PInv, TypeOK
<1>4. ChangeNoted' /\ LoopInside' /\ MarkedBehind' /\ OwnerThere'
  BY <1>0, SameClients DEF PInv, ChangeNoted, LoopInside, MarkedBehind, OwnerThere
<1>5. BacklogWaits' /\ ReportedWaits' /\ Opened'
  BY <1>0, <1>1, SameClients DEF PInv, BacklogWaits, ReportedWaits, Opened
<1> QED BY <1>0, <1>3, <1>4, <1>5, SameClients DEF PInv

LEMMA StepMctpd ==
  ASSUME PInv, no_mctpd_msg \/ mctpd_response \/ mctpd_request
  PROVE  PInv'
<1>0. /\ pc = "mctp" /\ pc' = "clients"
      /\ UNCHANGED <<index, revents, ready, state, hung, sent, backlog>>
      /\ UNCHANGED handlerVars
      /\ clients_data' = clients_data /\ client_change' = client_change
      /\ pending' \subseteq pending
  BY DEF handlerVars, connVars, no_mctpd_msg, mctpd_response, mctpd_request, AfterMctp
<1>1. TypeOK'
  BY <1>0, SameHandlerType DEF PInv, TypeOK
<1>2. ChangeNoted' /\ MarkedBehind' /\ OwnerThere'
  BY <1>0, SameClients DEF PInv, ChangeNoted, MarkedBehind, OwnerThere
<1>3. LoopInside'
  <2>1. Len(clients_data) \in Nat
    BY DEF PInv, TypeOK
  <2> QED BY <1>0, <2>1 DEF PInv, LoopInside
<1>4. BacklogWaits' /\ ReportedWaits' /\ Opened'
  BY <1>0, SameClients DEF PInv, BacklogWaits, ReportedWaits, Opened
<1> QED BY <1>0, <1>1, <1>2, <1>3, <1>4, SameClients DEF PInv

\* Without mctpd pldmd stops.
LEMMA StepClosed ==
  ASSUME PInv, mctpd_closed
  PROVE  PInv'
<1>0. /\ pc = "mctp" /\ pc' = "exit"
      /\ state' = [c \in Conn |-> IF c \in Conn THEN "off" ELSE state[c]]
      /\ hung' = [c \in Conn |-> c \notin Conn /\ hung[c]]
      /\ sent' = [c \in Conn |-> c \notin Conn /\ sent[c]]
      /\ backlog' = [k \in Kind |-> <<>>]
      /\ pending' = {}
      /\ UNCHANGED <<index, revents, ready>>
      /\ UNCHANGED handlerVars
      /\ clients_data' = clients_data /\ client_change' = client_change
  BY DEF handlerVars, mctpd_closed, CloseAll
<1>1. /\ state' \in [Conn -> {"off", "backlog", "open"}]
      /\ hung' \in [Conn -> BOOLEAN] /\ sent' \in [Conn -> BOOLEAN]
      /\ backlog' \in [Kind -> Seq(Conn)]
  BY <1>0
<1>2. TypeOK'
  BY <1>0, <1>1, SameHandlerType DEF PInv, TypeOK
<1>3. ChangeNoted' /\ LoopInside' /\ MarkedBehind' /\ OwnerThere'
  BY <1>0, SameClients DEF PInv, ChangeNoted, LoopInside, MarkedBehind, OwnerThere
<1>4. BacklogWaits' /\ ReportedWaits' /\ Opened'
  BY <1>0 DEF BacklogWaits, ReportedWaits, Opened
<1> QED BY <1>0, <1>2, <1>3, <1>4, SameClients DEF PInv

-----------------------------------------------------------------------------
(* The loop over the clients. *)

LEMMA StepNoClientMsg ==
  ASSUME PInv, no_client_msg
  PROVE  PInv'
<1>0. /\ pc = "clients" /\ pc' = "clients" /\ index <= Len(clients_data)
      /\ index' = index + 1
      /\ UNCHANGED <<revents, ready, state, hung, sent, backlog, pending>>
      /\ UNCHANGED handlerVars
      /\ clients_data' = clients_data /\ client_change' = client_change
  BY DEF handlerVars, connVars, no_client_msg, NextClient
<1>1. /\ index \in Nat /\ index >= 1 /\ Len(clients_data) \in Nat
      /\ maxInstanceIds \in Nat /\ Len(clients_data) <= maxInstanceIds
      /\ DOMAIN clients_data = 1 .. Len(clients_data)
  BY PldmdAssumption DEF PInv, TypeOK
<1>2. index' \in 1 .. maxInstanceIds + 1
  BY <1>0, <1>1
<1>3. TypeOK'
  BY <1>0, <1>2, SameHandlerType DEF PInv, TypeOK
<1>4. ChangeNoted' /\ OwnerThere'
  BY <1>0, SameClients DEF PInv, ChangeNoted, OwnerThere
<1>5. LoopInside' /\ MarkedBehind'
  BY <1>0, <1>1 DEF PInv, LoopInside, MarkedBehind
<1>6. BacklogWaits' /\ ReportedWaits' /\ Opened'
  BY <1>0, SameClients DEF PInv, BacklogWaits, ReportedWaits, Opened
<1> QED BY <1>0, <1>3, <1>4, <1>5, <1>6, SameClients DEF PInv

LEMMA StepSendData ==
  ASSUME PInv, client_send_data
  PROVE  PInv'
<1> DEFINE c == pollfds[index]
           r == [iid |-> clients_data[index].iid,
                 owner |-> IF hung[c] THEN Gone ELSE c]
<1>0. /\ pc = "clients" /\ pc' = "clients" /\ index <= Len(clients_data)
      /\ index' = index + 1
      /\ sent' = [sent EXCEPT ![c] = FALSE]
      /\ UNCHANGED <<revents, ready, state, hung, backlog>>
      /\ UNCHANGED handlerVars
      /\ clients_data' = clients_data /\ client_change' = client_change
  BY DEF handlerVars, client_send_data, NextClient
<1>01. pending' \subseteq pending \union {r}
  BY DEF client_send_data
<1>1. /\ index \in Nat /\ index >= 1 /\ Len(clients_data) \in Nat
      /\ maxInstanceIds \in Nat /\ Len(clients_data) <= maxInstanceIds
      /\ DOMAIN clients_data = 1 .. Len(clients_data)
  BY PldmdAssumption DEF PInv, TypeOK
<1>2. index' \in 1 .. maxInstanceIds + 1
  BY <1>0, <1>1
<1>3. index \in DOMAIN clients_data /\ clients_data[index] \in Client
  BY <1>0, <1>1 DEF PInv, TypeOK
<1>4. c = clients_data[index].fd /\ c \in Conn /\ clients_data[index].iid \in Iid
  BY <1>0, <1>3 DEF PInv, ChangeNoted, Matching, Client
<1>5. r \in [iid: Iid, owner: Conn \union {Gone}]
  BY <1>4
<1>6. TypeOK'
  <2>1. pending' \subseteq [iid: Iid, owner: Conn \union {Gone}]
    BY <1>01, <1>5 DEF PInv, TypeOK
  <2>2. sent' \in [Conn -> BOOLEAN]
    BY <1>0 DEF PInv, TypeOK
  <2> QED BY <1>0, <1>2, <2>1, <2>2, SameHandlerType DEF PInv, TypeOK
<1>7. OwnerThere'
  <2>2. r.iid = clients_data[index].iid
        /\ (r.owner # Gone => r.owner = c /\ ~hung[c])
    OBVIOUS
  <2> HIDE DEF r
  <2>3. \A q \in pending' : q \in pending \/ q = r
    BY <1>01
  <2> QED BY <1>0, <1>3, <1>4, <2>2, <2>3 DEF PInv, OwnerThere
<1>8. ChangeNoted'
  BY <1>0, SameClients DEF PInv, ChangeNoted
<1>9. LoopInside' /\ MarkedBehind'
  BY <1>0, <1>1 DEF PInv, LoopInside, MarkedBehind
<1>10. BacklogWaits' /\ ReportedWaits' /\ Opened'
  BY <1>0, SameClients DEF PInv, BacklogWaits, ReportedWaits, Opened
<1> QED BY <1>0, <1>6, <1>7, <1>8, <1>9, <1>10, SameClients DEF PInv

\* The client that is marked stays in its place until update_pollfds runs.
LEMMA StepGone ==
  ASSUME PInv, client_gone
  PROVE  PInv'
<1>0. /\ pc = "clients" /\ pc' = "clients" /\ index <= Len(clients_data)
      /\ index' = index + 1
      /\ clients_data' = [clients_data EXCEPT ![index].active = FALSE]
      /\ client_change' = TRUE
      /\ UNCHANGED <<pollfds, is_fw_update_active, fw_update_client, id, last_idx>>
      /\ UNCHANGED <<revents, ready, state, hung, sent, backlog, pending>>
  BY DEF client_gone, pop_client, NextClient, connVars
<1>1. /\ index \in Nat /\ index >= 1 /\ Len(clients_data) \in Nat
      /\ maxInstanceIds \in Nat /\ Len(clients_data) <= maxInstanceIds
      /\ DOMAIN clients_data = 1 .. Len(clients_data)
      /\ clients_data \in Seq(Client)
  BY PldmdAssumption DEF PInv, TypeOK
<1>2. index \in DOMAIN clients_data /\ clients_data[index] \in Client
  BY <1>0, <1>1
<1>3. [clients_data[index] EXCEPT !.active = FALSE] \in Client
  BY <1>2 DEF Client
<1>4. clients_data' \in Seq(Client) /\ Len(clients_data') = Len(clients_data)
      /\ DOMAIN clients_data' = DOMAIN clients_data
  BY <1>0, <1>1, <1>2, <1>3
<1>5. \A i \in DOMAIN clients_data :
        /\ clients_data'[i].fd = clients_data[i].fd
        /\ clients_data'[i].iid = clients_data[i].iid
        /\ clients_data'[i].type = clients_data[i].type
        /\ i # index => clients_data'[i].active = clients_data[i].active
  BY <1>0, <1>1, <1>2 DEF Client
<1>6. TypeOK'
  BY <1>0, <1>1, <1>4 DEF PInv, TypeOK
<1>7. Matching /\ ChangeNoted'
  BY <1>0, <1>4, <1>5 DEF PInv, ChangeNoted, Matching
<1>8. LoopInside' /\ MarkedBehind'
  BY <1>0, <1>1, <1>4, <1>5 DEF PInv, LoopInside, MarkedBehind
<1>9. Distinct' /\ OneUpdate' /\ IdsUsed'
  BY <1>0, <1>4, <1>5 DEF PInv, Distinct, OneUpdate, IdsUsed
<1>10. OwnerThere'
  BY <1>0, <1>4, <1>5 DEF PInv, OwnerThere
<1>11. Fds' = Fds
  BY <1>4, <1>5 DEF Fds
<1>12. BacklogWaits' /\ ReportedWaits' /\ Opened'
  BY <1>0, <1>11 DEF PInv, BacklogWaits, ReportedWaits, Opened
<1> QED BY <1>6, <1>7, <1>8, <1>9, <1>10, <1>12 DEF PInv

LEMMA StepClientsDone ==
  ASSUME PInv, clients_done
  PROVE  PInv'
<1>0. /\ pc = "clients" /\ pc' = "normal" /\ index' = 1 /\ ready' = {}
      /\ UNCHANGED <<revents, state, hung, sent, backlog, pending>>
      /\ UNCHANGED handlerVars
      /\ clients_data' = clients_data /\ client_change' = client_change
  BY DEF handlerVars, connVars, clients_done
<1>1. TypeOK'
  BY <1>0, PldmdAssumption, SameHandlerType DEF PInv, TypeOK
<1>2. ChangeNoted' /\ LoopInside' /\ MarkedBehind' /\ OwnerThere'
  BY <1>0, SameClients DEF PInv, ChangeNoted, LoopInside, MarkedBehind, OwnerThere
<1>3. BacklogWaits' /\ ReportedWaits' /\ Opened'
  BY <1>0, SameClients DEF PInv, BacklogWaits, ReportedWaits, Opened
<1> QED BY <1>0, <1>1, <1>2, <1>3, SameClients DEF PInv

-----------------------------------------------------------------------------
(* The two sockets for new clients. *)

LEMMA ServerMoves ==
  ASSUME PInv, NEW k \in Kind, AtServer(k), NextServer(k)
  PROVE  /\ \/ /\ pc = "normal" /\ k = "normal"
               /\ pc' = "update_client" /\ revents' = revents
            \/ /\ pc = "update_client" /\ k = "update"
               /\ pc' = "update" /\ revents' = {}
         /\ UNCHANGED <<index, ready>>
         /\ index' = 1
BY DEF PInv, LoopInside, AtServer, NextServer, Kind

\* Nobody is there, or accept4 fails.
LEMMA StepNoNewClient ==
  ASSUME PInv, NEW k \in Kind, no_new_client(k) \/ accept_fails(k)
  PROVE  PInv'
<1>0. /\ AtServer(k) /\ NextServer(k)
      /\ UNCHANGED <<state, hung, sent, backlog, pending>>
      /\ UNCHANGED handlerVars
      /\ clients_data' = clients_data /\ client_change' = client_change
  BY DEF handlerVars, connVars, no_new_client, accept_fails
<1>1. TypeOK'
  BY <1>0, ServerMoves, SameHandlerType DEF PInv, TypeOK
<1>2. ChangeNoted' /\ LoopInside' /\ MarkedBehind' /\ OwnerThere'
  BY <1>0, ServerMoves, SameClients
     DEF PInv, ChangeNoted, LoopInside, MarkedBehind, OwnerThere
<1>3. BacklogWaits' /\ ReportedWaits' /\ Opened'
  BY <1>0, ServerMoves, SameClients
     DEF PInv, BacklogWaits, ReportedWaits, Opened, Kind
<1> QED BY <1>0, <1>1, <1>2, <1>3, SameClients DEF PInv

\* accept() takes a connection that waits, and the others still do.
LEMMA Accepted ==
  ASSUME PInv, NEW k \in Kind, AtServer(k), k \in revents, NextServer(k),
         backlog' = [backlog EXCEPT ![k] = Tail(@)],
         \A x \in Conn : x # Head(backlog[k]) => state'[x] = state[x]
  PROVE  /\ Head(backlog[k]) \in Conn
         /\ state[Head(backlog[k])] = "backlog"
         /\ backlog' \in [Kind -> Seq(Conn)]
         /\ BacklogWaits' /\ ReportedWaits'
<1>1. backlog \in [Kind -> Seq(Conn)]
  BY DEF PInv, TypeOK
<1>2. backlog[k] # <<>>
  BY ServerMoves DEF PInv, ReportedWaits, Kind
<1>3. /\ Len(backlog[k]) \in Nat \ {0}
      /\ DOMAIN backlog[k] = 1 .. Len(backlog[k])
      /\ Head(backlog[k]) = backlog[k][1]
      /\ Tail(backlog[k]) \in Seq(Conn)
      /\ DOMAIN Tail(backlog[k]) = 1 .. Len(backlog[k]) - 1
      /\ \A i \in 1 .. Len(backlog[k]) - 1 : Tail(backlog[k])[i] = backlog[k][i + 1]
  BY <1>1, <1>2
<1>4. backlog' \in [Kind -> Seq(Conn)]
  BY <1>1, <1>3
<1>5. 1 \in DOMAIN backlog[k]
  BY <1>3
<1>6. Head(backlog[k]) \in Conn /\ state[Head(backlog[k])] = "backlog"
  BY <1>1, <1>3, <1>5 DEF PInv, BacklogWaits
<1> DEFINE at(l, i) == IF l = k THEN i + 1 ELSE i
<1>7. ASSUME NEW l \in Kind, NEW i \in DOMAIN backlog'[l]
      PROVE  /\ i \in Nat
             /\ at(l, i) \in DOMAIN backlog[l]
             /\ backlog'[l][i] = backlog[l][at(l, i)]
             /\ l = k => at(l, i) # 1
  <2>1. CASE l = k
    <3>1. backlog'[l] = Tail(backlog[k])
      BY <1>1, <2>1
    <3>2. i \in 1 .. Len(backlog[k]) - 1
      BY <1>3, <3>1
    <3>3. i \in Nat /\ i + 1 \in 1 .. Len(backlog[k]) /\ i + 1 # 1
      BY <1>3, <3>2
    <3>4. backlog'[l][i] = backlog[k][i + 1]
      BY <1>3, <3>1, <3>2
    <3> QED BY <1>3, <2>1, <3>3, <3>4
  <2>2. CASE l # k
    <3>1. backlog'[l] = backlog[l]
      BY <1>1, <2>2
    <3>2. DOMAIN backlog[l] = 1 .. Len(backlog[l]) /\ Len(backlog[l]) \in Nat
      BY <1>1
    <3> QED BY <2>2, <3>1, <3>2
  <2> QED BY <2>1, <2>2
<1>8. BacklogWaits'
  <2> SUFFICES ASSUME NEW l \in Kind, NEW i \in DOMAIN backlog'[l]
               PROVE  /\ state'[backlog'[l][i]] = "backlog"
                      /\ \A m \in Kind : \A j \in DOMAIN backlog'[m] :
                           backlog'[l][i] = backlog'[m][j] => l = m /\ i = j
    BY DEF BacklogWaits
  <2>1. state'[backlog'[l][i]] = "backlog"
    <3>1. backlog'[l][i] # Head(backlog[k])
      BY <1>3, <1>5, <1>7 DEF PInv, BacklogWaits
    <3>2. backlog'[l][i] \in Conn /\ state[backlog'[l][i]] = "backlog"
      BY <1>1, <1>7 DEF PInv, BacklogWaits
    <3> QED BY <3>1, <3>2
  <2>2. ASSUME NEW m \in Kind, NEW j \in DOMAIN backlog'[m],
               backlog'[l][i] = backlog'[m][j]
        PROVE  l = m /\ i = j
    <3>1. l = m /\ at(l, i) = at(m, j)
      <4>1. /\ at(l, i) \in DOMAIN backlog[l] /\ at(m, j) \in DOMAIN backlog[m]
            /\ backlog[l][at(l, i)] = backlog[m][at(m, j)]
        BY <1>7, <2>2
      <4> HIDE DEF at
      <4> QED BY <4>1 DEF PInv, BacklogWaits
    <3>2. i \in Nat /\ j \in Nat
      BY <1>7
    <3> QED BY <3>1, <3>2
  <2> QED BY <2>1, <2>2
<1>9. ReportedWaits'
  <2>1. k = "normal" => backlog'["update"] = backlog["update"]
    BY <1>1 DEF Kind
  <2> QED BY <2>1, ServerMoves DEF PInv, ReportedWaits, Kind
<1> QED BY <1>4, <1>6, <1>8, <1>9

\* A new client: its descriptor is no other client's, and neither is its id.
LEMMA StepNewClient ==
  ASSUME PInv, NEW k \in Kind, new_client_handle(k)
  PROVE  PInv'
<1> DEFINE c == Head(backlog[k])
           n == InstanceId_next
           cl == [fd |-> c, iid |-> n, type |-> k, active |-> TRUE]
           L == Len(clients_data)
<1>0. /\ AtServer(k) /\ NextServer(k) /\ k \in revents
      /\ ~(k = "update" /\ is_fw_update_active) /\ Free # {}
      /\ clients_data' = Append(clients_data, cl)
      /\ client_change' = TRUE
      /\ id' = id \union {n} /\ last_idx' = n
      /\ IF k = "update" THEN fw_update_client' = c /\ is_fw_update_active' = TRUE
                         ELSE UNCHANGED <<fw_update_client, is_fw_update_active>>
      /\ state' = [state EXCEPT ![c] = "open"]
      /\ backlog' = [backlog EXCEPT ![k] = Tail(@)]
      /\ UNCHANGED <<pollfds, hung, sent, pending>>
  BY DEF new_client_handle, Refused, add_client
<1>1. /\ clients_data \in Seq(Client) /\ L \in Nat
      /\ DOMAIN clients_data = 1 .. L
      /\ state \in [Conn -> {"off", "backlog", "open"}]
      /\ last_idx \in Iid
  BY DEF PInv, TypeOK
<1>2. n \in Iid /\ n \notin id
  BY <1>0, <1>1, NextIsFree
<1>3. \A x \in Conn : x # c => state'[x] = state[x]
  BY <1>0, <1>1
<1>4. /\ c \in Conn /\ state[c] = "backlog"
      /\ backlog' \in [Kind -> Seq(Conn)]
      /\ BacklogWaits' /\ ReportedWaits'
  BY <1>0, <1>3, Accepted
<1>5. cl \in Client /\ cl.fd = c /\ cl.iid = n /\ cl.type = k /\ cl.active
  BY <1>2, <1>4 DEF Client
<1>6. pc # "exit" /\ c \notin Fds
  BY <1>0, <1>4, ServerMoves DEF PInv, Opened
<1> HIDE DEF cl, n, c
<1>7. /\ clients_data' \in Seq(Client)
      /\ DOMAIN clients_data' = 1 .. L + 1
      /\ \A i \in 1 .. L : clients_data'[i] = clients_data[i]
      /\ clients_data'[L + 1] = cl
  BY <1>0, <1>1, <1>5
<1>8. \A i \in DOMAIN clients_data' :
        \/ i \in DOMAIN clients_data /\ clients_data'[i] = clients_data[i]
        \/ i = L + 1 /\ clients_data'[i] = cl
  BY <1>1, <1>7
<1>9. /\ L + 1 \in DOMAIN clients_data' /\ L + 1 \notin DOMAIN clients_data
      /\ \A i \in DOMAIN clients_data :
           i \in DOMAIN clients_data' /\ clients_data'[i] = clients_data[i]
  BY <1>1, <1>7
<1>10. \A i \in DOMAIN clients_data : clients_data[i].iid # n /\ clients_data[i].fd # c
  BY <1>2, <1>6 DEF PInv, IdsUsed, Fds
<1>11. Distinct'
  BY <1>5, <1>8, <1>10 DEF PInv, Distinct
<1>12. TypeOK'
  <2>1. Len(clients_data') <= maxInstanceIds
    BY <1>7, <1>11, FewClients DEF Distinct
  <2>2. /\ state' \in [Conn -> {"off", "backlog", "open"}]
    BY <1>0, <1>1
  <2>3. /\ is_fw_update_active' \in BOOLEAN
        /\ fw_update_client' \in Conn \union {NoClient}
    BY <1>0, <1>4 DEF PInv, TypeOK
  <2>4. id' \subseteq Iid /\ last_idx' \in Iid
    BY <1>0, <1>2 DEF PInv, TypeOK
  <2>5. /\ pc' \in {"update_client", "update"}
        /\ revents' \subseteq {"mctp"} \union Kind
        /\ UNCHANGED <<index, ready>>
    BY <1>0, ServerMoves DEF PInv, TypeOK
  <2> QED BY <1>0, <1>4, <1>7, <2>1, <2>2, <2>3, <2>4, <2>5 DEF PInv, TypeOK
<1>13. ChangeNoted' /\ LoopInside'
  BY <1>0, ServerMoves DEF ChangeNoted, LoopInside
<1>14. MarkedBehind'
  BY <1>0, <1>5, <1>8, ServerMoves DEF PInv, MarkedBehind
<1>15. OneUpdate'
  <2>1. CASE k = "update"
    <3>1. ~is_fw_update_active /\ is_fw_update_active' = TRUE /\ fw_update_client' = c
      BY <1>0, <2>1
    <3>2. \A i \in DOMAIN clients_data : clients_data[i].type # "update"
      BY <3>1 DEF PInv, OneUpdate
    <3> QED BY <1>5, <1>8, <1>9, <2>1, <3>1, <3>2 DEF OneUpdate
  <2>2. CASE k # "update"
    <3>1. UNCHANGED <<fw_update_client, is_fw_update_active>>
      BY <1>0, <2>2
    <3> QED BY <1>5, <1>8, <1>9, <2>2, <3>1 DEF PInv, OneUpdate
  <2> QED BY <2>1, <2>2
<1>16. OwnerThere'
  BY <1>0, <1>9 DEF PInv, OwnerThere
<1>17. Opened'
  <2>1. \A x : x \in Fds' <=> x \in Fds \/ x = c
    BY <1>5, <1>8, <1>9 DEF Fds
  <2>2. \A x \in Conn : state'[x] = "open" <=> x \in Fds \/ x = c
    BY <1>0, <1>1, <1>3, <1>4, <1>6 DEF PInv, Opened
  <2>3. Fds \subseteq Conn
    BY <1>6 DEF PInv, Opened
  <2> QED BY <1>4, <2>1, <2>2, <2>3 DEF Opened
<1>18. IdsUsed'
  <2>1. \A x : x \in id' <=> x \in id \/ x = n
    BY <1>0
  <2> QED BY <1>5, <1>8, <1>9, <2>1 DEF PInv, IdsUsed
<1> QED BY <1>4, <1>11, <1>12, <1>13, <1>14, <1>15, <1>16, <1>17, <1>18 DEF PInv

\* A client that is refused leaves nothing behind.
LEMMA StepRefused ==
  ASSUME PInv, NEW k \in Kind, new_client_refused(k)
  PROVE  PInv'
<1> DEFINE c == Head(backlog[k])
<1>0. /\ AtServer(k) /\ NextServer(k) /\ k \in revents
      /\ state' = [x \in Conn |-> IF x \in {c} THEN "off" ELSE state[x]]
      /\ hung' = [x \in Conn |-> x \notin {c} /\ hung[x]]
      /\ sent' = [x \in Conn |-> x \notin {c} /\ sent[x]]
      /\ backlog' = [backlog EXCEPT ![k] = Tail(@)]
      /\ pending' = pending
      /\ UNCHANGED handlerVars
      /\ clients_data' = clients_data /\ client_change' = client_change
  BY DEF new_client_refused, CloseAll, handlerVars
<1>1. \A x \in Conn : x # c => state'[x] = state[x]
  BY <1>0
<1>2. /\ c \in Conn /\ state[c] = "backlog"
      /\ backlog' \in [Kind -> Seq(Conn)]
      /\ BacklogWaits' /\ ReportedWaits'
  BY <1>0, <1>1, Accepted
<1> HIDE DEF c
<1>3. /\ state' \in [Conn -> {"off", "backlog", "open"}]
      /\ hung' \in [Conn -> BOOLEAN] /\ sent' \in [Conn -> BOOLEAN]
  BY <1>0 DEF PInv, TypeOK
<1>4. TypeOK'
  BY <1>0, <1>2, <1>3, ServerMoves, SameHandlerType DEF PInv, TypeOK
<1>5. ChangeNoted' /\ LoopInside' /\ MarkedBehind'
  BY <1>0, ServerMoves, SameClients DEF PInv, ChangeNoted, LoopInside, MarkedBehind
<1>6. OwnerThere'
  <2>1. \A r \in pending : r.owner # Gone => r.owner \in Conn
    BY DEF PInv, TypeOK
  <2> QED BY <1>0, <2>1 DEF PInv, OwnerThere
<1>7. Opened'
  <2>1. \A x \in Conn : state'[x] = "open" <=> state[x] = "open"
    BY <1>0, <1>2
  <2>2. pc # "exit"
    BY <1>0, ServerMoves
  <2> QED BY <1>0, <2>1, <2>2, SameClients DEF PInv, Opened
<1> QED BY <1>0, <1>2, <1>4, <1>5, <1>6, <1>7, SameClients DEF PInv

-----------------------------------------------------------------------------
(* The theorems. *)

LEMMA PInvInit == Init => PInv
<1> SUFFICES ASSUME Init PROVE PInv
  OBVIOUS
<1> USE DEF Init
<1>1. clients_data = <<>> /\ DOMAIN clients_data = {} /\ Len(clients_data) = 0
  OBVIOUS
<1>2. TypeOK
  <2>1. 0 \in Iid
    BY PldmdAssumption DEF Iid
  <2>2. 1 \in 1 .. maxInstanceIds + 1 /\ 0 <= maxInstanceIds
    BY PldmdAssumption
  <2>3. clients_data \in Seq(Client) /\ pollfds \in Seq(Conn)
    OBVIOUS
  <2>4. backlog \in [Kind -> Seq(Conn)]
    OBVIOUS
  <2> QED BY <1>1, <2>1, <2>2, <2>3, <2>4 DEF TypeOK
<1>3. ChangeNoted /\ LoopInside /\ MarkedBehind /\ Distinct /\ OwnerThere
  BY <1>1 DEF ChangeNoted, Matching, LoopInside, MarkedBehind, Distinct, OwnerThere
<1>4. OneUpdate /\ IdsUsed
  BY <1>1 DEF OneUpdate, IdsUsed
<1>5. BacklogWaits /\ ReportedWaits /\ Opened
  BY <1>1 DEF BacklogWaits, ReportedWaits, Opened, Fds
<1> QED BY <1>2, <1>3, <1>4, <1>5 DEF PInv

LEMMA PInvNext == ASSUME PInv, [Next]_vars PROVE PInv'
<1>1. CASE UNCHANGED vars
  <2>1. UNCHANGED <<pc, index, revents, ready, clients_data, pollfds,
                    client_change, is_fw_update_active, fw_update_client, id,
                    last_idx, state, hung, sent, backlog, pending>>
    BY <1>1 DEF vars, loopVars, handlerVars, connVars
  <2>2. TypeOK' /\ ChangeNoted' /\ LoopInside' /\ MarkedBehind' /\ OwnerThere'
    BY <2>1 DEF PInv, TypeOK, ChangeNoted, Matching, LoopInside, MarkedBehind, OwnerThere
  <2>3. BacklogWaits' /\ ReportedWaits' /\ Opened'
    BY <2>1 DEF PInv, BacklogWaits, ReportedWaits, Opened, Fds
  <2>4. Distinct' /\ OneUpdate' /\ IdsUsed'
    BY <2>1 DEF PInv, Distinct, OneUpdate, IdsUsed
  <2> QED BY <2>2, <2>3, <2>4 DEF PInv
<1>2. CASE Next
  <2>1. CASE update_pollfds
    BY <2>1, StepNoChange, StepRemove
  <2>2. CASE polling \/ Mctpd
    BY <2>2, StepPolling, StepMctpd, StepClosed DEF Mctpd
  <2>3. CASE Clients
    BY <2>3, StepNoClientMsg, StepSendData, StepGone, StepClientsDone DEF Clients
  <2>4. CASE Servers
    BY <2>4, StepNoNewClient, StepNewClient, StepRefused DEF Servers, accepted
  <2>5. ASSUME NEW c \in Conn,
               Send(c) \/ HangUp(c) \/ \E k \in Kind : Connect(c, k)
        PROVE  PInv'
    BY <2>5, StepSend, StepHangUp, StepConnect
  <2> QED BY <1>2, <2>1, <2>2, <2>3, <2>4, <2>5 DEF Next, run_daemon
<1> QED BY <1>1, <1>2

\* The invariant holds always.
THEOREM PInvHolds == Spec => []PInv
BY PInvInit, PInvNext, PTL DEF Spec

\* The variables of pldmd keep their types; there are never more clients than
\* instance ids.
THEOREM TypeCorrect == Spec => []TypeOK
<1>1. PInv => TypeOK
  BY DEF PInv
<1> QED BY <1>1, PInvHolds, PTL

\* The array of poll and the clients agree wherever the array is read.
THEOREM PollfdsAlwaysMatch == Spec => []PollfdsMatch
<1>1. PInv => PollfdsMatch
  BY DEF PInv, ChangeNoted, Matching, PollfdsMatch
<1> QED BY <1>1, PInvHolds, PTL

\* Ids and descriptors belong to the clients, one of each to each, whatever
\* clients come, go and are refused.
THEOREM NothingEverLeaks == Spec => []NothingLeaks
<1>1. PInv => NothingLeaks
  BY DEF PInv, Opened, IdsUsed, Distinct, NothingLeaks
<1> QED BY <1>1, PInvHolds, PTL

\* There is at most one update client and pldmd knows which; when it has gone,
\* pldmd has forgotten its descriptor, which the next client may get.
THEOREM UpdateAlwaysTracked == Spec => []UpdateTracked
<1>1. PInv => UpdateTracked
  <2> SUFFICES ASSUME PInv PROVE UpdateTracked
    OBVIOUS
  <2> DEFINE U == {i \in DOMAIN clients_data : clients_data[i].type = "update"}
  <2>1. is_fw_update_active = (U # {})
    BY DEF PInv, TypeOK, OneUpdate
  <2>2. Cardinality(U) <= 1
    <3>1. CASE U = {}
      BY <3>1, FS_EmptySet
    <3>2. CASE U # {}
      <4>1. PICK i : U = {i}
        BY <3>2 DEF PInv, OneUpdate
      <4>2. Cardinality({i}) = 1
        BY FS_Singleton
      <4> HIDE DEF U
      <4> QED BY <4>1, <4>2
    <3> QED BY <3>1, <3>2
  <2>3. \A i \in U : clients_data[i].fd = fw_update_client
    BY DEF PInv, OneUpdate
  <2>4. U = {} => fw_update_client = NoClient
    BY DEF PInv, OneUpdate
  <2> QED BY <2>1, <2>2, <2>3, <2>4 DEF UpdateTracked
<1> QED BY <1>1, PInvHolds, PTL

\* An answer whose client is there finds that client.
THEOREM AnswerAlwaysFindsOwner == Spec => []AnswerFindsOwner
<1>1. PInv => AnswerFindsOwner
  BY DEF PInv, OwnerThere, Distinct, AnswerFindsOwner
<1> QED BY <1>1, PInvHolds, PTL
=============================================================================
