------------------------------ MODULE SelProofs ------------------------------
(***************************************************************************)
(* Proofs about Sel: the types for any number of threads and any failures;  *)
(* for one thread whose header writes succeed, that saved records are kept, *)
(* that the log is in order, and that it implements SelLog, whatever writes *)
(* of records fail or are lost.                                             *)
(***************************************************************************)
EXTENDS Sel, SequenceTheorems, TLAPS

\* What the constants are, for the provers.
LEMMA Constants ==
  /\ MAX_NODES \in Nat /\ MAX_NODES >= 1
  /\ SEL_RECORDS_MAX \in Nat /\ SEL_RECORDS_MAX >= 1
  /\ SEL_RSVID_MAX \in Nat /\ SEL_RSVID_MAX >= 1
  /\ MaxAdd \in Nat /\ MaxRestart \in Nat
  /\ StorageThread \in Thread
  /\ 1 \in Node /\ Node \subseteq Nat /\ \A n \in Node : n <= MAX_NODES
  /\ 0 \in Index /\ Index \subseteq Nat /\ \A i \in Index : i <= SEL_RECORDS_MAX
  /\ EmptyHdr \in Header /\ EmptyData \in [Index -> Slot]
  BY SelAssumption DEF Node, Index, SEL_INDEX_MIN, SEL_INDEX_MAX, EmptyHdr,
                       Header, EmptyData, Slot, Blank

\* The ring index stays in the ring.
LEMMA IncrType == ASSUME NEW i \in Index PROVE Incr(i) \in Index
  BY Constants DEF Incr, Index, SEL_INDEX_MIN, SEL_INDEX_MAX

\* The slot that is written next is never one of the records.
LEMMA EndNotLive == ASSUME NEW h \in Header PROVE h.end \notin Live(h)
  BY Constants DEF Live, Header, Index, SEL_INDEX_MIN, SEL_INDEX_MAX

CacheType ==
  /\ g_sel_hdr \in [Node -> Header]
  /\ g_sel_data \in [Node -> [Index -> Slot]]
  /\ g_rsv_id \in [Node -> 0 .. SEL_RSVID_MAX]

FileType ==
  /\ file \in [Node -> {"absent", "partial", "ok"}]
  /\ f_hdr \in [Node -> Header]
  /\ f_data \in [Node -> [Index -> Slot]]

BootType == boot \in 1 .. (MAX_NODES + 1) /\ creating \in BOOLEAN

ThreadType ==
  /\ pc \in [Thread -> SelPc]
  /\ node \in [Thread -> Node]
  /\ msg \in [Thread -> Slot]
  /\ rec_id \in [Thread -> 0 .. (SEL_INDEX_MAX + 1)]

BoundType == added \in 0 .. MaxAdd /\ restarts \in 0 .. MaxRestart

Types == CacheType /\ FileType /\ BootType /\ ThreadType /\ BoundType

\* TypeOK, one part for each group of variables.
LEMMA TypeParts == TypeOK <=> Types
  BY DEF TypeOK, Types, CacheType, FileType, BootType, ThreadType, BoundType

-----------------------------------------------------------------------------
\* sel_init and a restart.
LEMMA BootTypes == ASSUME Types, sel_init \/ Restart PROVE Types'
<1>0. CacheType /\ FileType /\ BootType /\ ThreadType /\ BoundType
  BY DEF Types
<1>1. CASE ~Up /\ sel_init
  <2>1. boot \in Node /\ boot + 1 \in 1 .. (MAX_NODES + 1)
    BY <1>0, <1>1, Constants DEF BootType, Up, Node
  <2>2. MAX_NODES + 1 \in 1 .. (MAX_NODES + 1)
    BY Constants
  <2>3. CacheType'
    <3>1. CASE node_init_load \/ node_init_fails
      BY <1>0, <2>1, <3>1 DEF node_init_load, node_init_fails, CacheType, FileType
    <3>2. CASE node_init_create
      BY <1>0, <3>2 DEF node_init_create, CacheType, cacheVars
    <3>3. CASE node_init_fill
      <4>1. SEL_RSVID_MIN \in 0 .. SEL_RSVID_MAX
        BY Constants DEF SEL_RSVID_MIN
      <4> QED BY <1>0, <2>1, <3>3, <4>1, Constants DEF node_init_fill, CacheType
    <3>4. CASE node_init_fill_fails
      BY <1>0, <2>1, <3>4, Constants DEF node_init_fill_fails, CacheType
    <3> QED BY <1>1, <3>1, <3>2, <3>3, <3>4 DEF sel_init
  <2>4. FileType'
    BY <1>0, <1>1, <2>1, Constants
       DEF sel_init, node_init_load, node_init_fails, node_init_create,
           node_init_fill, node_init_fill_fails, FileType, fileVars
  <2>5. BootType'
    BY <1>0, <1>1, <2>1, <2>2
       DEF sel_init, node_init_load, node_init_fails, node_init_create,
           node_init_fill, node_init_fill_fails, BootType
  <2>6. ThreadType' /\ BoundType'
    BY <1>0, <1>1
       DEF sel_init, node_init_load, node_init_fails, node_init_create,
           node_init_fill, node_init_fill_fails, ThreadType, BoundType, threadVars
  <2> QED BY <2>3, <2>4, <2>5, <2>6 DEF Types
<1>2. CASE Restart
  <2>1. CacheType'
    BY <1>2, Constants DEF Restart, CacheType
  <2>2. FileType'
    BY <1>0, <1>2 DEF Restart, FileType, fileVars
  <2>3. BootType'
    <3>1. boot' \in 1 .. (MAX_NODES + 1)
      BY <1>2, Constants DEF Restart
    <3>2. creating' \in BOOLEAN
      BY <1>2 DEF Restart
    <3> QED BY <3>1, <3>2 DEF BootType
  <2>4. ThreadType'
    BY <1>2, Constants DEF Restart, ThreadType, SelPc, SEL_INDEX_MAX, Blank, Slot
  <2>5. BoundType'
    BY <1>0, <1>2, Constants DEF Restart, BoundType
  <2> QED BY <2>1, <2>2, <2>3, <2>4, <2>5 DEF Types
<1> QED BY <1>1, <1>2
        DEF sel_init, node_init_load, node_init_fails, node_init_create,
            node_init_fill, node_init_fill_fails

\* sel_add_entry.
LEMMA AddTypes == ASSUME Types, NEW t \in Thread, AddStep(t) PROVE Types'
<1>0. CacheType /\ FileType /\ BootType /\ ThreadType /\ BoundType
  BY DEF Types
<1>1. /\ node[t] \in Node /\ msg[t] \in Slot
      /\ g_sel_hdr[node[t]] \in Header /\ g_sel_hdr[node[t]].end \in Index
  BY <1>0 DEF ThreadType, CacheType, Header
<1>2. ASSUME NEW n \in Node, add_make_room(t, n) PROVE Types'
  <2>1. /\ [id |-> added + 1, stamp |-> "added"] \in Slot
        /\ added + 1 \in 0 .. MaxAdd
    BY <1>0, <1>2, Constants DEF add_make_room, BoundType, Slot, Id
  <2>2. g_sel_hdr[n] \in Header /\ Incr(g_sel_hdr[n].begin) \in Index
    BY <1>0, IncrType DEF CacheType, Header
  <2>3. g_sel_hdr' \in [Node -> Header]
    BY <1>0, <1>2, <2>2 DEF add_make_room, CacheType, Header
  <2>4. ThreadType'
    BY <1>0, <1>2, <2>1 DEF add_make_room, Goto, ThreadType, SelPc
  <2> QED BY <1>0, <1>2, <2>1, <2>3, <2>4
          DEF Types, add_make_room, CacheType, FileType, BootType, BoundType,
              fileVars, bootVars
<1>3. CASE add_copy(t)
  <2>1. g_sel_hdr[node[t]].end + 1 \in 0 .. (SEL_INDEX_MAX + 1)
    <3>1. /\ g_sel_hdr[node[t]].end \in Nat
          /\ g_sel_hdr[node[t]].end <= SEL_RECORDS_MAX
      BY <1>1, Constants
    <3> QED BY <3>1, Constants DEF SEL_INDEX_MAX
  <2>2. ThreadType'
    BY <1>0, <1>3, <2>1 DEF add_copy, Goto, ThreadType, SelPc
  <2>3. g_sel_data' \in [Node -> [Index -> Slot]]
    BY <1>0, <1>1, <1>3 DEF add_copy, CacheType
  <2> QED BY <1>0, <1>3, <2>2, <2>3
          DEF Types, add_copy, CacheType, FileType, BootType, BoundType, fileVars, bootVars
<1>4. CASE add_store_data(t)
  <2>1. f_data' \in [Node -> [Index -> Slot]]
    BY <1>0, <1>1, <1>4 DEF add_store_data, FileType
  <2>2. ThreadType'
    BY <1>0, <1>4 DEF add_store_data, Goto, ThreadType, SelPc
  <2>3. file' \in [Node -> {"absent", "partial", "ok"}]
    BY <1>0, <1>4 DEF add_store_data, FileType
  <2> QED BY <1>0, <1>4, <2>1, <2>2, <2>3
          DEF Types, add_store_data, CacheType, FileType, BootType, BoundType,
              cacheVars, bootVars
<1>5. CASE add_store_data_fails(t)
  <2>1. ThreadType'
    BY <1>0, <1>5 DEF add_store_data_fails, Goto, ThreadType, SelPc
  <2> QED BY <1>0, <1>5, <2>1
          DEF Types, add_store_data_fails, CacheType, FileType, BootType, BoundType,
              cacheVars, fileVars, bootVars
<1>6. CASE add_advance(t)
  <2>1. Incr(g_sel_hdr[node[t]].end) \in Index
    BY <1>1, IncrType
  <2>2. g_sel_hdr' \in [Node -> Header]
    BY <1>0, <1>1, <1>6, <2>1 DEF add_advance, CacheType, Header
  <2>3. ThreadType'
    BY <1>0, <1>6 DEF add_advance, Goto, ThreadType, SelPc
  <2> QED BY <1>0, <1>6, <2>2, <2>3
          DEF Types, add_advance, CacheType, FileType, BootType, BoundType,
              fileVars, bootVars
<1>7. CASE store_hdr(t)
  <2>1. f_hdr' \in [Node -> Header]
    BY <1>0, <1>1, <1>7 DEF store_hdr, FileType
  <2>2. ThreadType'
    BY <1>0, <1>7 DEF store_hdr, Goto, ThreadType, SelPc
  <2> QED BY <1>0, <1>7, <2>1, <2>2
          DEF Types, store_hdr, CacheType, FileType, BootType, BoundType,
              cacheVars, bootVars
<1>8. CASE add_parse(t)
  <2>1. PICK s \in {"added", "parsed"} : msg' = [msg EXCEPT ![t].stamp = s]
    BY <1>8 DEF add_parse
  <2>3. [msg[t] EXCEPT !.stamp = s] \in Slot
    BY <1>1 DEF Slot
  <2>4. msg' \in [Thread -> Slot]
    BY <1>0, <2>1, <2>3 DEF ThreadType
  <2>2. ThreadType'
    BY <1>0, <1>8, <2>4 DEF add_parse, Goto, ThreadType, SelPc
  <2> QED BY <1>0, <1>8, <2>2
          DEF Types, add_parse, CacheType, FileType, BootType, BoundType,
              cacheVars, fileVars, bootVars
<1>9. CASE add_store_data_lost(t)
  <2>1. f_data' \in [Node -> [Index -> Slot]]
    BY <1>0, <1>9 DEF add_store_data_lost, FileType, Slot, Lost
  <2>2. ThreadType'
    BY <1>0, <1>9 DEF add_store_data_lost, Goto, ThreadType, SelPc
  <2> QED BY <1>0, <1>9, <2>1, <2>2
          DEF Types, add_store_data_lost, CacheType, FileType, BootType, BoundType,
              cacheVars, bootVars
<1> QED BY <1>2, <1>3, <1>4, <1>5, <1>6, <1>7, <1>8, <1>9 DEF AddStep

\* sel_rsv_id and sel_erase.
LEMMA EraseTypes ==
  ASSUME Types, NEW n \in Node, NEW r, sel_rsv_id(n) \/ sel_erase(n, r)
  PROVE  Types'
<1>0. CacheType /\ FileType /\ BootType /\ ThreadType /\ BoundType
  BY DEF Types
<1>1. CASE sel_rsv_id(n)
  <2>1. g_rsv_id' \in [Node -> 0 .. SEL_RSVID_MAX]
    BY <1>0, <1>1, Constants DEF sel_rsv_id, CacheType, SEL_RSVID_MIN
  <2> QED BY <1>0, <1>1, <2>1
          DEF Types, sel_rsv_id, CacheType, FileType, BootType, ThreadType, BoundType,
              fileVars, bootVars, threadVars
<1>2. CASE sel_erase(n, r)
  <2>1. g_sel_hdr' \in [Node -> Header]
    BY <1>0, <1>2, Constants DEF sel_erase, CacheType
  <2>2. ThreadType'
    BY <1>0, <1>2 DEF sel_erase, Goto, ThreadType, SelPc
  <2> QED BY <1>0, <1>2, <2>1, <2>2
          DEF Types, sel_erase, CacheType, FileType, BootType, BoundType, fileVars, bootVars
<1> QED BY <1>1, <1>2

\* A first start of ipmid.
LEMMA InitTypes == ASSUME Init PROVE Types
<1>1. CacheType
  BY Constants DEF Init, ZeroCache, CacheType
<1>2. FileType
  BY Constants DEF Init, FileType
<1>3. BootType /\ BoundType
  <2>1. boot \in 1 .. (MAX_NODES + 1)
    BY Constants DEF Init
  <2>2. creating \in BOOLEAN
    BY DEF Init
  <2>3. BoundType
    BY Constants DEF Init, BoundType
  <2> QED BY <2>1, <2>2, <2>3 DEF BootType
<1>4. ThreadType
  BY Constants DEF Init, ThreadType, SelPc, SEL_INDEX_MAX, Blank, Slot
<1> QED BY <1>1, <1>2, <1>3, <1>4 DEF Types

\* No sequence of requests, failures and restarts takes an index of the log, a
\* reservation id or a record id out of its range, however many threads there are.
THEOREM TypeCorrect == Spec => []TypeOK
<1>1. Init => TypeOK
  BY InitTypes, TypeParts
<1>2. TypeOK /\ [Next]_vars => TypeOK'
  <2> SUFFICES ASSUME TypeOK, [Next]_vars PROVE TypeOK'
    OBVIOUS
  <2>1. CASE UNCHANGED vars
    BY <2>1 DEF vars, cacheVars, fileVars, bootVars, threadVars, TypeOK
  <2>2. CASE Next
    <3>1. Types
      BY TypeParts
    <3>2. Types'
      BY <2>2, <3>1, BootTypes, AddTypes, EraseTypes DEF Next
    <3> QED BY <3>2 DEF TypeOK, Types, CacheType, FileType, BootType, ThreadType,
                        BoundType
  <2> QED BY <2>1, <2>2
<1> QED BY <1>1, <1>2, PTL DEF Spec

-----------------------------------------------------------------------------
(***************************************************************************)
(* The saved records.  With one thread the slot that sel_add_entry writes   *)
(* is the end of the cached log.  The end in the file is the same, but      *)
(* between the change of the cached header and its store: so it must be the *)
(* same after sel_init too, when that ended early.  It ends early at a file *)
(* without records, whose header it has read; the files behind it do not    *)
(* exist, and their nodes have empty headers.                               *)
(***************************************************************************)
S == StorageThread

\* A request is only handled after sel_init.
BusyIsUp == pc[S] # "idle" => Up

\* The slot to write is the end of the log.
WritesEnd ==
  pc[S] \in {"parse", "store_data"} => rec_id[S] - 1 = g_sel_hdr[node[S]].end

\* A record that passes for stored has a file.
StoredOk == pc[S] = "advance" => file[node[S]] # "absent"

\* The files are created in order, and the ones before boot are complete.
CreatedInOrder ==
  /\ \A m, n \in Node : m < n /\ file[m] # "ok" => file[n] = "absent"
  /\ ~Up => \A n \in Node : n < boot => file[n] = "ok"
  /\ creating => boot \in Node /\ file[boot] = "partial" /\ f_hdr[boot] = EmptyHdr

\* The log of a node without a file is empty.
AbsentIsEmpty ==
  \A n \in Node : file[n] = "absent" => g_sel_hdr[n] = EmptyHdr /\ f_hdr[n] = EmptyHdr

\* The cache and the file agree on the end of the log.
EndsAgree ==
  \A n \in Node :
    boot > n /\ ~(pc[S] = "store_hdr" /\ node[S] = n)
      => g_sel_hdr[n].end = f_hdr[n].end

SInv ==
  /\ Types
  /\ BusyIsUp /\ WritesEnd /\ StoredOk
  /\ CreatedInOrder /\ AbsentIsEmpty /\ EndsAgree

\* Before sel_init nothing is loaded and no file exists.
LEMMA SInvInit == ASSUME Init PROVE SInv
<1>1. Types
  BY InitTypes
<1>2. S \in Thread /\ pc[S] = "idle"
  BY Constants DEF Init, S
<1>3. BusyIsUp /\ WritesEnd /\ StoredOk
  BY <1>2 DEF BusyIsUp, WritesEnd, StoredOk
<1>4. CreatedInOrder /\ AbsentIsEmpty
  BY Constants DEF Init, ZeroCache, CreatedInOrder, AbsentIsEmpty, Node
<1>5. EndsAgree
  BY Constants DEF Init, EndsAgree, Node
<1> QED BY <1>1, <1>3, <1>4, <1>5 DEF SInv

\* sel_init and a restart.
LEMMA SInvBoot ==
  ASSUME SInv, sel_init \/ Restart PROVE SInv'
<1>0. Types /\ CacheType /\ FileType /\ BootType /\ Types'
  BY BootTypes DEF SInv, Types
<1>t. S \in Thread
  BY Constants DEF S
<1>1. CASE Restart
  <2>1. /\ pc'[S] = "idle" /\ boot' = 1 /\ creating' = FALSE
        /\ file' = file /\ f_hdr' = f_hdr
        /\ \A n \in Node : g_sel_hdr'[n] = EmptyHdr
    BY <1>1, <1>t DEF Restart, fileVars
  <2>2. BusyIsUp' /\ WritesEnd' /\ StoredOk'
    BY <2>1 DEF BusyIsUp, WritesEnd, StoredOk
  <2>3. CreatedInOrder' /\ EndsAgree'
    BY <2>1, Constants DEF SInv, CreatedInOrder, EndsAgree, Node
  <2>4. AbsentIsEmpty'
    BY <2>1 DEF SInv, AbsentIsEmpty
  <2> QED BY <1>0, <2>2, <2>3, <2>4 DEF SInv
<1>2. CASE ~Up /\ sel_init
  <2>1. /\ boot \in Node /\ boot \in Nat /\ boot <= MAX_NODES
        /\ pc[S] = "idle" /\ pc' = pc
    BY <1>0, <1>2, Constants
       DEF SInv, BusyIsUp, BootType, Up, Node, sel_init, node_init_load,
           node_init_fails, node_init_create, node_init_fill, node_init_fill_fails, threadVars
  <2>2. BusyIsUp' /\ WritesEnd' /\ StoredOk'
    BY <2>1 DEF BusyIsUp, WritesEnd, StoredOk
  <2>3. /\ \A n \in Node : n \in Nat
        /\ \A n \in Node : n < boot => file[n] = "ok"
        /\ \A m, n \in Node : m < n /\ file[m] # "ok" => file[n] = "absent"
        /\ \A n \in Node : file[n] = "absent" => g_sel_hdr[n] = EmptyHdr
                                                  /\ f_hdr[n] = EmptyHdr
        /\ \A n \in Node : boot > n => g_sel_hdr[n].end = f_hdr[n].end
    BY <1>2, <2>1, Constants
       DEF SInv, CreatedInOrder, AbsentIsEmpty, EndsAgree
  <2>4. CASE node_init_load
    <3>1. /\ boot' = boot + 1 /\ creating' = creating /\ file[boot] = "ok"
          /\ file' = file /\ f_hdr' = f_hdr
          /\ g_sel_hdr' = [g_sel_hdr EXCEPT ![boot] = f_hdr[boot]]
      BY <2>4 DEF node_init_load, fileVars
    <3>2. CreatedInOrder'
      BY <2>1, <2>3, <3>1 DEF SInv, CreatedInOrder
    <3>3. /\ g_sel_hdr'[boot] = f_hdr[boot]
          /\ \A n \in Node : n # boot => g_sel_hdr'[n] = g_sel_hdr[n]
      BY <1>0, <2>1, <3>1 DEF CacheType
    <3>4. AbsentIsEmpty'
      BY <2>3, <3>1, <3>3 DEF AbsentIsEmpty
    <3>5. EndsAgree'
      BY <2>1, <2>3, <3>1, <3>3 DEF EndsAgree
    <3> QED BY <1>0, <2>2, <3>2, <3>4, <3>5 DEF SInv
  <2>5. CASE node_init_fails
    <3>1. /\ boot' = MAX_NODES + 1 /\ ~creating /\ creating' = creating
          /\ file[boot] = "partial" /\ file' = file /\ f_hdr' = f_hdr
          /\ g_sel_hdr' = [g_sel_hdr EXCEPT ![boot] = f_hdr[boot]]
      BY <2>5 DEF node_init_fails, fileVars
    <3>2. /\ g_sel_hdr'[boot] = f_hdr[boot]
          /\ \A n \in Node : n # boot => g_sel_hdr'[n] = g_sel_hdr[n]
      BY <1>0, <2>1, <3>1 DEF CacheType
    <3>3. Up' /\ CreatedInOrder' /\ AbsentIsEmpty'
      BY <2>3, <3>1, <3>2, Constants DEF Up, CreatedInOrder, AbsentIsEmpty
    <3>4. ASSUME NEW n \in Node PROVE g_sel_hdr'[n].end = f_hdr[n].end
      <4>1. n \in Nat /\ boot \in Nat
        BY <2>1, <2>3
      <4>2. CASE n > boot
        BY <2>1, <2>3, <3>1, <3>2, <4>1, <4>2
      <4>3. CASE n = boot
        BY <3>2, <4>3
      <4> QED BY <2>3, <3>2, <4>1, <4>2, <4>3
    <3>5. EndsAgree'
      BY <3>1, <3>4 DEF EndsAgree
    <3> QED BY <1>0, <2>2, <3>3, <3>5 DEF SInv
  <2>6. CASE node_init_create
    <3>1. /\ boot' = boot /\ creating' = TRUE /\ file[boot] = "absent"
          /\ file' = [file EXCEPT ![boot] = "partial"]
          /\ f_hdr' = f_hdr /\ g_sel_hdr' = g_sel_hdr
      BY <2>6 DEF node_init_create, cacheVars
    <3>2. /\ file'[boot] = "partial"
          /\ \A n \in Node : n # boot => file'[n] = file[n]
      BY <1>0, <2>1, <3>1 DEF FileType
    <3>3. \A m, n \in Node : m < n /\ file'[m] # "ok" => file'[n] = "absent"
      <4> SUFFICES ASSUME NEW m \in Node, NEW n \in Node, m < n, file'[m] # "ok"
                   PROVE  file'[n] = "absent"
        OBVIOUS
      <4>0. m \in Nat /\ n \in Nat /\ boot \in Nat
        BY <2>1, Constants
      <4>1. ~(m < boot) /\ n # boot
        <5>1. ~(m < boot)
          BY <2>3, <3>2, <4>0
        <5> QED BY <4>0, <5>1
      <4>2. file[m] # "ok"
        BY <3>1, <3>2
      <4> QED BY <2>3, <3>2, <4>1, <4>2
    <3>4. CreatedInOrder'
      BY <2>1, <2>3, <3>1, <3>2, <3>3 DEF CreatedInOrder
    <3>5. AbsentIsEmpty' /\ EndsAgree'
      BY <2>1, <2>3, <3>1, <3>2 DEF AbsentIsEmpty, EndsAgree
    <3> QED BY <1>0, <2>2, <3>4, <3>5 DEF SInv
  <2>7. CASE node_init_fill \/ node_init_fill_fails
    <3>1. /\ creating' = FALSE /\ file[boot] = "partial"
          /\ f_hdr' = [f_hdr EXCEPT ![boot] = EmptyHdr]
          /\ g_sel_hdr' = [g_sel_hdr EXCEPT ![boot] = EmptyHdr]
      BY <2>7 DEF node_init_fill, node_init_fill_fails, SInv, CreatedInOrder
    <3>2. /\ f_hdr'[boot] = EmptyHdr /\ g_sel_hdr'[boot] = EmptyHdr
          /\ \A n \in Node : n # boot => /\ f_hdr'[n] = f_hdr[n]
                                         /\ g_sel_hdr'[n] = g_sel_hdr[n]
      BY <1>0, <2>1, <3>1 DEF FileType, CacheType
    <3>3. /\ file'[boot] \in {"partial", "ok"}
          /\ \A n \in Node : n # boot => file'[n] = file[n]
          /\ \/ boot' = boot + 1 /\ file'[boot] = "ok"
             \/ boot' = MAX_NODES + 1
      <4>1. CASE node_init_fill
        BY <1>0, <2>1, <4>1 DEF node_init_fill, FileType
      <4>2. CASE node_init_fill_fails
        BY <1>0, <2>1, <4>2 DEF node_init_fill_fails, FileType
      <4> QED BY <2>7, <4>1, <4>2
    <3>4. \A n \in Node : n > boot => file'[n] = "absent"
      BY <2>1, <2>3, <3>1, <3>3
    <3>5. ~Up' => \A n \in Node : n < boot' => file'[n] = "ok"
      <4>1. CASE boot' = MAX_NODES + 1
        BY <4>1, Constants DEF Up
      <4>2. CASE boot' = boot + 1 /\ file'[boot] = "ok"
        BY <2>1, <2>3, <3>3, <4>2
      <4> QED BY <3>3, <4>1, <4>2
    <3>6. \A m, n \in Node : m < n /\ file'[m] # "ok" => file'[n] = "absent"
      <4> SUFFICES ASSUME NEW m \in Node, NEW n \in Node, m < n, file'[m] # "ok"
                   PROVE  file'[n] = "absent"
        OBVIOUS
      <4>1. m \in Nat /\ n \in Nat
        BY <2>3
      <4>2. ~(m < boot)
        BY <2>1, <2>3, <3>3, <4>1
      <4>3. n > boot
        BY <2>1, <4>1, <4>2
      <4> QED BY <3>4, <4>3
    <3>7. CreatedInOrder'
      BY <3>1, <3>5, <3>6 DEF CreatedInOrder
    <3>8. AbsentIsEmpty'
      BY <2>3, <3>2, <3>3 DEF AbsentIsEmpty
    <3>9. EndsAgree'
      <4> SUFFICES ASSUME NEW n \in Node PROVE g_sel_hdr'[n].end = f_hdr'[n].end
        BY DEF EndsAgree
      <4>1. CASE n > boot
        BY <2>1, <3>1, <3>2, <2>3, <4>1
      <4> QED BY <2>1, <2>3, <3>2, <4>1
    <3> QED BY <1>0, <2>2, <3>7, <3>8, <3>9 DEF SInv
  <2> QED BY <1>2, <2>4, <2>5, <2>6, <2>7 DEF sel_init
<1> QED BY <1>1, <1>2
        DEF sel_init, node_init_load, node_init_fails, node_init_create,
            node_init_fill, node_init_fill_fails

\* sel_add_entry, and the header store that sel_erase ends with too.
LEMMA SInvAdd ==
  ASSUME Thread = {StorageThread}, ~HdrStoreMayFail, SInv, AddStep(S)
  PROVE  SInv'
<1>0. Types /\ CacheType /\ FileType /\ BootType /\ ThreadType /\ S \in Thread
  BY Constants DEF SInv, Types, S
<1>1. Types'
  BY <1>0, AddTypes
<1>2. /\ node[S] \in Node /\ boot' = boot /\ creating' = creating
      /\ pc' = [pc EXCEPT ![S] = pc'[S]]
  BY <1>0 DEF ThreadType, AddStep, Goto, add_make_room, add_copy, add_store_data,
              add_store_data_lost, add_store_data_fails, add_parse, add_advance,
              store_hdr, bootVars
<1>3. ASSUME NEW n \in Node, add_make_room(S, n) PROVE SInv'
  <2>1. /\ Up /\ pc[S] = "idle" /\ pc'[S] = "copy"
        /\ file' = file /\ f_hdr' = f_hdr /\ boot' = boot /\ creating' = creating
    BY <1>0, <1>3 DEF add_make_room, Goto, ThreadType, fileVars, bootVars
  <2>2. ASSUME NEW k \in Node PROVE g_sel_hdr'[k].end = g_sel_hdr[k].end
    BY <1>0, <1>3, <2>2 DEF add_make_room, CacheType, Header
  <2>3. ASSUME NEW k \in Node, file[k] = "absent"
        PROVE  g_sel_hdr'[k] = g_sel_hdr[k]
    <3>1. g_sel_hdr[k] = EmptyHdr
      BY <2>3 DEF SInv, AbsentIsEmpty
    <3>2. sel_num_entries(k) # SEL_RECORDS_MAX
      BY <3>1, Constants
         DEF sel_num_entries, NumEntries, EmptyHdr, SEL_INDEX_MIN
    <3> QED BY <1>0, <1>3, <3>2 DEF add_make_room, CacheType
  <2>4. BusyIsUp' /\ WritesEnd' /\ StoredOk'
    BY <2>1 DEF BusyIsUp, WritesEnd, StoredOk, Up
  <2>5. CreatedInOrder'
    BY <2>1 DEF SInv, CreatedInOrder, Up
  <2>6. AbsentIsEmpty' /\ EndsAgree'
    BY <2>1, <2>2, <2>3 DEF SInv, AbsentIsEmpty, EndsAgree
  <2> QED BY <1>1, <2>4, <2>5, <2>6 DEF SInv
<1>4. CASE add_copy(S)
  <2>1. /\ pc[S] = "copy" /\ pc'[S] = "parse"
        /\ g_sel_hdr' = g_sel_hdr /\ node' = node
        /\ file' = file /\ f_hdr' = f_hdr /\ boot' = boot /\ creating' = creating
        /\ rec_id'[S] = g_sel_hdr[node[S]].end + 1
    BY <1>0, <1>4 DEF add_copy, Goto, ThreadType, fileVars, bootVars
  <2>2. g_sel_hdr[node[S]].end \in Nat
    BY <1>0, <1>2, Constants DEF CacheType, Header
  <2>3. BusyIsUp' /\ WritesEnd' /\ StoredOk'
    BY <2>1, <2>2 DEF SInv, BusyIsUp, WritesEnd, StoredOk, Up
  <2>4. CreatedInOrder' /\ AbsentIsEmpty' /\ EndsAgree'
    BY <2>1 DEF SInv, CreatedInOrder, AbsentIsEmpty, EndsAgree, Up
  <2> QED BY <1>1, <2>3, <2>4 DEF SInv
<1>5. CASE add_store_data(S)
  <2>1. /\ pc[S] = "store_data" /\ pc'[S] = "advance" /\ file[node[S]] # "absent"
        /\ g_sel_hdr' = g_sel_hdr /\ node' = node
        /\ f_hdr' = f_hdr /\ boot' = boot /\ creating' = creating
        /\ file' = [file EXCEPT ![node[S]] = "ok"]
    BY <1>0, <1>5 DEF add_store_data, Goto, ThreadType, cacheVars, bootVars
  <2>2. /\ file'[node[S]] = "ok"
        /\ \A n \in Node : n # node[S] => file'[n] = file[n]
    BY <1>0, <1>2, <2>1 DEF FileType
  <2>3. BusyIsUp' /\ WritesEnd' /\ StoredOk' /\ Up
    BY <2>1, <2>2 DEF SInv, BusyIsUp, WritesEnd, StoredOk, Up
  <2>4. ~creating
    <3>1. boot \notin Node
      BY <2>3, SelAssumption DEF Up, Node
    <3> QED BY <3>1 DEF SInv, CreatedInOrder
  <2>5. CreatedInOrder'
    BY <1>2, <2>1, <2>2, <2>3, <2>4 DEF SInv, CreatedInOrder, Up
  <2>6. AbsentIsEmpty' /\ EndsAgree'
    BY <2>1, <2>2 DEF SInv, AbsentIsEmpty, EndsAgree
  <2> QED BY <1>1, <2>3, <2>5, <2>6 DEF SInv
<1>6. CASE add_store_data_fails(S)
  <2>1. /\ pc[S] = "store_data" /\ pc'[S] = "idle"
        /\ g_sel_hdr' = g_sel_hdr /\ node' = node
        /\ file' = file /\ f_hdr' = f_hdr /\ boot' = boot /\ creating' = creating
    BY <1>0, <1>6
       DEF add_store_data_fails, Goto, ThreadType, cacheVars, fileVars, bootVars
  <2> QED BY <1>1, <2>1
          DEF SInv, BusyIsUp, WritesEnd, StoredOk, CreatedInOrder,
              AbsentIsEmpty, EndsAgree, Up
<1>7. CASE add_advance(S)
  <2>1. /\ pc[S] = "advance" /\ pc'[S] = "store_hdr" /\ node' = node
        /\ file' = file /\ f_hdr' = f_hdr /\ boot' = boot /\ creating' = creating
    BY <1>0, <1>7 DEF add_advance, Goto, ThreadType, fileVars, bootVars
  <2>2. ASSUME NEW n \in Node, n # node[S] PROVE g_sel_hdr'[n] = g_sel_hdr[n]
    BY <1>0, <1>7, <2>2 DEF add_advance, CacheType
  <2>3. BusyIsUp' /\ WritesEnd' /\ StoredOk'
    BY <2>1 DEF SInv, BusyIsUp, WritesEnd, StoredOk, Up
  <2>4. CreatedInOrder'
    BY <2>1 DEF SInv, CreatedInOrder, Up
  <2>5. AbsentIsEmpty' /\ EndsAgree'
    BY <2>1, <2>2 DEF SInv, StoredOk, AbsentIsEmpty, EndsAgree
  <2> QED BY <1>1, <2>3, <2>4, <2>5 DEF SInv
<1>8. CASE store_hdr(S)
  <2>1. /\ pc[S] = "store_hdr" /\ pc'[S] = "idle" /\ node' = node
        /\ g_sel_hdr' = g_sel_hdr
        /\ file' = file /\ boot' = boot /\ creating' = creating
        /\ \/ /\ file[node[S]] # "absent"
              /\ f_hdr' = [f_hdr EXCEPT ![node[S]] = g_sel_hdr[node[S]]]
           \/ file[node[S]] = "absent" /\ f_hdr' = f_hdr
    BY <1>0, <1>8 DEF store_hdr, Goto, ThreadType, cacheVars, bootVars
  <2>2. ASSUME NEW n \in Node, n # node[S] PROVE f_hdr'[n] = f_hdr[n]
    BY <1>0, <2>1, <2>2 DEF FileType
  <2>3. f_hdr'[node[S]] = g_sel_hdr[node[S]]
    BY <1>0, <1>2, <2>1 DEF SInv, AbsentIsEmpty, FileType
  <2>4. BusyIsUp' /\ WritesEnd' /\ StoredOk'
    BY <2>1 DEF BusyIsUp, WritesEnd, StoredOk
  <2>5. CreatedInOrder'
    <3>1. Up /\ boot \notin Node
      BY <2>1, SelAssumption DEF SInv, BusyIsUp, Up, Node
    <3> QED BY <2>1, <3>1 DEF SInv, CreatedInOrder, Up
  <2>6. AbsentIsEmpty' /\ EndsAgree'
    BY <2>1, <2>2, <2>3 DEF SInv, AbsentIsEmpty, EndsAgree
  <2> QED BY <1>1, <2>4, <2>5, <2>6 DEF SInv
<1>9. CASE add_parse(S)
  <2>1. /\ pc[S] = "parse" /\ pc'[S] = "store_data" /\ rec_id' = rec_id
        /\ g_sel_hdr' = g_sel_hdr /\ node' = node
        /\ file' = file /\ f_hdr' = f_hdr /\ boot' = boot /\ creating' = creating
    BY <1>0, <1>9
       DEF add_parse, Goto, ThreadType, cacheVars, fileVars, bootVars
  <2> QED BY <1>1, <2>1
          DEF SInv, BusyIsUp, WritesEnd, StoredOk, CreatedInOrder,
              AbsentIsEmpty, EndsAgree, Up
<1>10. CASE add_store_data_lost(S)
  <2>1. /\ pc[S] = "store_data" /\ pc'[S] = "advance" /\ file[node[S]] # "absent"
        /\ g_sel_hdr' = g_sel_hdr /\ node' = node
        /\ file' = file /\ f_hdr' = f_hdr /\ boot' = boot /\ creating' = creating
    BY <1>0, <1>10
       DEF add_store_data_lost, Goto, ThreadType, cacheVars, bootVars
  <2> QED BY <1>1, <2>1
          DEF SInv, BusyIsUp, WritesEnd, StoredOk, CreatedInOrder,
              AbsentIsEmpty, EndsAgree, Up
<1> QED BY <1>3, <1>4, <1>5, <1>6, <1>7, <1>8, <1>9, <1>10 DEF AddStep

\* sel_rsv_id and the change of the cache in sel_erase.
LEMMA SInvErase ==
  ASSUME SInv, NEW n \in Node, NEW r, sel_rsv_id(n) \/ sel_erase(n, r)
  PROVE  SInv'
<1>0. Types /\ CacheType /\ ThreadType /\ S \in Thread
  BY Constants DEF SInv, Types, S
<1>1. Types'
  BY <1>0, EraseTypes
<1>2. CASE sel_rsv_id(n)
  BY <1>1, <1>2
     DEF sel_rsv_id, fileVars, bootVars, threadVars, SInv, BusyIsUp, WritesEnd,
         StoredOk, CreatedInOrder, AbsentIsEmpty, EndsAgree, Up
<1>3. CASE sel_erase(n, r)
  <2>1. /\ Up /\ pc[S] = "idle" /\ pc'[S] = "store_hdr" /\ node'[S] = n
        /\ file' = file /\ f_hdr' = f_hdr /\ boot' = boot /\ creating' = creating
        /\ g_sel_hdr'[n] = EmptyHdr
        /\ \A k \in Node : k # n => g_sel_hdr'[k] = g_sel_hdr[k]
    BY <1>0, <1>3
       DEF sel_erase, Goto, S, ThreadType, CacheType, fileVars, bootVars
  <2>2. BusyIsUp' /\ WritesEnd' /\ StoredOk'
    BY <2>1 DEF BusyIsUp, WritesEnd, StoredOk, Up
  <2>3. CreatedInOrder'
    BY <2>1 DEF SInv, CreatedInOrder, Up
  <2>4. AbsentIsEmpty' /\ EndsAgree'
    BY <2>1 DEF SInv, AbsentIsEmpty, EndsAgree
  <2> QED BY <1>1, <2>2, <2>3, <2>4 DEF SInv
<1> QED BY <1>2, <1>3

\* Every step keeps the invariant.
LEMMA SInvNext ==
  ASSUME Thread = {StorageThread}, ~HdrStoreMayFail, SInv, [Next]_vars
  PROVE  SInv'
<1>1. CASE UNCHANGED vars
  BY <1>1 DEF vars, cacheVars, fileVars, bootVars, threadVars, SInv, Types,
              CacheType, FileType, BootType, ThreadType, BoundType, BusyIsUp,
              WritesEnd, StoredOk, CreatedInOrder, AbsentIsEmpty,
              EndsAgree, Up
<1>2. CASE sel_init \/ Restart
  BY <1>2, SInvBoot
<1>3. CASE \E t \in Thread : AddStep(t)
  BY <1>3, SInvAdd DEF S
<1>4. ASSUME NEW n \in Node, NEW r, sel_rsv_id(n) \/ sel_erase(n, r) PROVE SInv'
  BY <1>4, SInvErase
<1> QED BY <1>1, <1>2, <1>3, <1>4 DEF Next

\* If all that touches the log runs under m_storage and no write of a header
\* fails, sel_add_entry never overwrites a record the saved header counts: not
\* after a failed or lost write of a record, a restart at any point or a sel_init that
\* ended early, and for every size of the log and number of nodes.
THEOREM SavedRecordsAreKept ==
  ASSUME Thread = {StorageThread}, ~HdrStoreMayFail
  PROVE  Spec => []SavedRecordsKept
<1>1. Init => SInv
  BY SInvInit
<1>2. SInv /\ [Next]_vars => SInv'
  BY SInvNext
<1>3. SInv => SavedRecordsKept
  <2> SUFFICES ASSUME SInv, pc[S] = "store_data"
               PROVE  (rec_id[S] - 1) \notin Live(f_hdr[node[S]])
    BY DEF SavedRecordsKept, S
  <2>1. node[S] \in Node /\ f_hdr[node[S]] \in Header /\ boot \in Nat
    <3>1. S \in Thread /\ ThreadType /\ FileType /\ BootType
      BY Constants DEF SInv, Types, S
    <3>2. boot \in Nat
      BY <3>1, Constants DEF BootType
    <3> QED BY <3>1, <3>2 DEF ThreadType, FileType
  <2>2. boot > node[S]
    <3>1. node[S] \in Nat /\ node[S] <= MAX_NODES /\ MAX_NODES \in Nat
      BY <2>1, Constants
    <3>2. boot > MAX_NODES
      BY DEF SInv, BusyIsUp, Up
    <3> QED BY <2>1, <3>1, <3>2
  <2>3. rec_id[S] - 1 = f_hdr[node[S]].end
    BY <2>1, <2>2 DEF SInv, WritesEnd, EndsAgree
  <2> QED BY <2>1, <2>3, EndNotLive
<1> QED BY <1>1, <1>2, <1>3, PTL DEF Spec

-----------------------------------------------------------------------------
(***************************************************************************)
(* The records, in order.                                                   *)
(***************************************************************************)

Cached(n) == Contents(g_sel_hdr[n], g_sel_data[n])
Stored(n) == Contents(g_sel_hdr[n], f_data[n])
Saved(n) == Contents(f_hdr[n], f_data[n])
Adding == pc[S] \in {"copy", "parse", "store_data", "advance"}

\* x is the record that was added last.
IsNewest(x) == x \in Record /\ x.id = added

\* The record that is being added is the newest, there is room for it, and it is
\* behind the last one in the cache and then, if it is not lost, in the file.
NewRecord ==
  Adding =>
    LET n == node[S]
        e == g_sel_hdr[n].end
    IN  /\ sel_num_entries(n) < SEL_RECORDS_MAX
        /\ added # 0 /\ IsNewest(msg[S])
        /\ pc[S] # "copy" => IsNewest(g_sel_data[n][e])
        /\ pc[S] = "advance" => IsNewest(f_data[n][e]) \/ f_data[n][e] = Lost

\* The records of c that are not lost are in the order they were added, none is
\* blank and none is newer than m.
InOrder(c, m) ==
  /\ \A i, j \in DOMAIN c :
       (i < j /\ c[i] # Lost /\ c[j] # Lost) => c[i].id < c[j].id
  /\ \A i \in DOMAIN c : c[i] # Lost => c[i] # Blank /\ c[i].id <= m

\* The newest record that any log may have.
Newest == IF Adding THEN added - 1 ELSE added

AllInOrder ==
  \A n \in Node : /\ InOrder(Cached(n), Newest)
                  /\ InOrder(Stored(n), Newest)
                  /\ InOrder(Saved(n), Newest)

LInv == SInv /\ NewRecord /\ AllInOrder

-----------------------------------------------------------------------------
(* The ring. *)

LEMMA EntriesType ==
  ASSUME NEW h \in Header
  PROVE  NumEntries(h) \in Nat /\ NumEntries(h) <= SEL_RECORDS_MAX
BY Constants DEF NumEntries, Header, Index, SEL_INDEX_MIN, SEL_INDEX_MAX

\* The records of a log are in its live slots.
LEMMA PositionLive ==
  ASSUME NEW h \in Header, NEW k \in 1 .. NumEntries(h)
  PROVE  Position(h, k) \in Live(h) /\ Position(h, k) \in Index
<1>0. /\ h.begin \in Nat /\ h.end \in Nat
      /\ h.begin <= SEL_RECORDS_MAX /\ h.end <= SEL_RECORDS_MAX
      /\ SEL_RECORDS_MAX \in Nat
  BY Constants DEF Header
<1>1. k \in Nat /\ 1 <= k /\ k <= NumEntries(h)
  BY EntriesType
<1>2. CASE h.begin <= h.end
  <2>1. NumEntries(h) = h.end - h.begin
    BY <1>0, <1>2 DEF NumEntries
  <2>2. Position(h, k) = h.begin + k - 1
    BY <1>0, <1>1, <1>2, <2>1 DEF Position, SEL_INDEX_MAX
  <2> QED BY <1>0, <1>1, <1>2, <2>1, <2>2
          DEF Live, Index, SEL_INDEX_MIN, SEL_INDEX_MAX
<1>3. CASE h.end < h.begin
  <2>1. NumEntries(h) = h.end - h.begin + SEL_RECORDS_MAX + 1
    BY <1>0, <1>3 DEF NumEntries, SEL_INDEX_MIN, SEL_INDEX_MAX
  <2>2. Position(h, k) = IF h.begin + k - 1 <= SEL_RECORDS_MAX
                         THEN h.begin + k - 1
                         ELSE h.begin + k - 1 - (SEL_RECORDS_MAX + 1)
    BY <1>0, <1>1, <1>3, <2>1 DEF Position, SEL_INDEX_MAX
  <2> QED BY <1>0, <1>1, <1>3, <2>1, <2>2
          DEF Live, Index, SEL_INDEX_MIN, SEL_INDEX_MAX
<1> QED BY <1>0, <1>2, <1>3

\* One slot further, if there is room: one record more, at the old end.
LEMMA RingAdvance ==
  ASSUME NEW h \in Header, NEW g \in Header, NumEntries(h) < SEL_RECORDS_MAX,
         g.begin = h.begin, g.end = Incr(h.end)
  PROVE  /\ NumEntries(g) = NumEntries(h) + 1
         /\ \A k \in 1 .. NumEntries(h) : Position(g, k) = Position(h, k)
         /\ Position(g, NumEntries(h) + 1) = h.end
         /\ Live(g) = Live(h) \cup {h.end}
<1>0. /\ h.begin \in Nat /\ h.end \in Nat /\ g.begin \in Nat /\ g.end \in Nat
      /\ h.begin <= SEL_RECORDS_MAX /\ h.end <= SEL_RECORDS_MAX
      /\ SEL_RECORDS_MAX \in Nat
  BY Constants DEF Header
<1>1. NumEntries(g) = NumEntries(h) + 1
  BY <1>0 DEF NumEntries, Incr, SEL_INDEX_MIN, SEL_INDEX_MAX
<1>2. \A k \in 1 .. NumEntries(h) : Position(g, k) = Position(h, k)
  BY DEF Position
<1>3. Position(g, NumEntries(h) + 1) = h.end
  BY <1>0 DEF NumEntries, Position, SEL_INDEX_MAX
<1>4. Live(g) = Live(h) \cup {h.end}
  <2>1. \A i : i \in Live(g) => i \in Nat
    BY <1>0 DEF Live, SEL_INDEX_MIN, SEL_INDEX_MAX
  <2>2. \A i : i \in Live(h) => i \in Nat
    BY <1>0 DEF Live, SEL_INDEX_MIN, SEL_INDEX_MAX
  <2>3. \A i \in Nat : i \in Live(g) <=> i \in Live(h) \/ i = h.end
    BY <1>0 DEF Live, NumEntries, Incr, SEL_INDEX_MIN, SEL_INDEX_MAX
  <2> QED BY <1>0, <2>1, <2>2, <2>3
<1> QED BY <1>1, <1>2, <1>3, <1>4

\* A full ring loses its first record.
LEMMA RingDrop ==
  ASSUME NEW h \in Header, NEW g \in Header, NumEntries(h) = SEL_RECORDS_MAX,
         g.begin = Incr(h.begin), g.end = h.end
  PROVE  /\ NumEntries(g) = NumEntries(h) - 1
         /\ \A k \in 1 .. NumEntries(g) : Position(g, k) = Position(h, k + 1)
         /\ Live(g) \subseteq Live(h)
<1>0. /\ h.begin \in Nat /\ h.end \in Nat /\ g.begin \in Nat /\ g.end \in Nat
      /\ h.begin <= SEL_RECORDS_MAX /\ h.end <= SEL_RECORDS_MAX
      /\ SEL_RECORDS_MAX \in Nat /\ SEL_RECORDS_MAX >= 1
  BY Constants DEF Header
<1>1. NumEntries(g) = NumEntries(h) - 1
  BY <1>0 DEF NumEntries, Incr, SEL_INDEX_MIN, SEL_INDEX_MAX
<1>2. ASSUME NEW k \in 1 .. NumEntries(g) PROVE Position(g, k) = Position(h, k + 1)
  <2>1. k \in Nat /\ k >= 1
    BY EntriesType
  <2>2. Incr(h.begin) = IF h.begin = SEL_RECORDS_MAX THEN 0 ELSE h.begin + 1
    BY <1>0 DEF Incr, SEL_INDEX_MIN, SEL_INDEX_MAX
  <2>3. CASE h.begin = SEL_RECORDS_MAX
    <3>1. k - 1 <= SEL_RECORDS_MAX
      BY <1>0, <1>1, <2>1
    <3> QED BY <1>0, <2>1, <2>2, <2>3, <3>1 DEF Position, SEL_INDEX_MAX
  <2>4. CASE h.begin # SEL_RECORDS_MAX
    BY <1>0, <2>1, <2>2, <2>4 DEF Position, SEL_INDEX_MAX
  <2> QED BY <2>3, <2>4
<1>3. Live(g) \subseteq Live(h)
  <2>1. \A i : i \in Live(g) => i \in Nat
    BY <1>0 DEF Live, SEL_INDEX_MIN, SEL_INDEX_MAX
  <2>2. \A i \in Nat : i \in Live(g) => i \in Live(h)
    BY <1>0 DEF Live, NumEntries, Incr, SEL_INDEX_MIN, SEL_INDEX_MAX
  <2> QED BY <2>1, <2>2
<1> QED BY <1>1, <1>2, <1>3

\* The slots that hold records are slots of the ring.
LEMMA LiveIndex == ASSUME NEW h \in Header PROVE Live(h) \subseteq Index
BY Constants DEF Live, Header, Index, SEL_INDEX_MIN, SEL_INDEX_MAX

LEMMA RingEmpty == NumEntries(EmptyHdr) = 0 /\ Live(EmptyHdr) = {}
BY Constants DEF NumEntries, Live, EmptyHdr, SEL_INDEX_MIN

-----------------------------------------------------------------------------
(* The records of a log, as a sequence. *)

Data == [Index -> Slot]

LEMMA ContentsType ==
  ASSUME NEW h \in Header, NEW d \in Data
  PROVE  /\ Contents(h, d) \in Seq(Slot)
         /\ Len(Contents(h, d)) = NumEntries(h)
         /\ DOMAIN Contents(h, d) = 1 .. NumEntries(h)
<1>1. \A k \in 1 .. NumEntries(h) : d[Position(h, k)] \in Slot
  BY PositionLive DEF Data
<1> QED BY <1>1, EntriesType DEF Contents

\* The log depends on its live slots only.
LEMMA ContentsSame ==
  ASSUME NEW h \in Header, NEW d, NEW c, \A i \in Live(h) : c[i] = d[i]
  PROVE  Contents(h, c) = Contents(h, d)
BY PositionLive DEF Contents

LEMMA ContentsEmpty == ASSUME NEW d PROVE Contents(EmptyHdr, d) = << >>
BY RingEmpty DEF Contents

LEMMA ContentsAdvance ==
  ASSUME NEW h \in Header, NEW g \in Header, NEW d \in Data,
         NumEntries(h) < SEL_RECORDS_MAX, g.begin = h.begin, g.end = Incr(h.end)
  PROVE  Contents(g, d) = Append(Contents(h, d), d[h.end])
<1> DEFINE N == NumEntries(h)
<1>1. Contents(g, d) = [k \in 1 .. N + 1 |-> d[Position(g, k)]]
  BY RingAdvance DEF Contents
<1>2. /\ Contents(h, d) \in Seq(Slot) /\ Len(Contents(h, d)) = N
      /\ N \in Nat /\ d[h.end] \in Slot
  BY ContentsType, EntriesType DEF Data, Header
<1>3. Append(Contents(h, d), d[h.end])
        = [k \in 1 .. N + 1 |-> IF k = N + 1 THEN d[h.end] ELSE Contents(h, d)[k]]
  BY <1>2
<1>4. \A k \in 1 .. N + 1 :
        d[Position(g, k)] = IF k = N + 1 THEN d[h.end] ELSE Contents(h, d)[k]
  <2> TAKE k \in 1 .. N + 1
  <2>1. CASE k = N + 1
    BY <2>1, RingAdvance
  <2>2. CASE k # N + 1
    <3>1. k \in 1 .. N
      BY <1>2, <2>2
    <3>2. Contents(h, d)[k] = d[Position(h, k)]
      BY <3>1 DEF Contents
    <3> QED BY <2>2, <3>1, <3>2, RingAdvance
  <2> QED BY <2>1, <2>2
<1> QED BY <1>1, <1>3, <1>4

LEMMA ContentsDrop ==
  ASSUME NEW h \in Header, NEW g \in Header, NEW d \in Data,
         NumEntries(h) = SEL_RECORDS_MAX, g.begin = Incr(h.begin), g.end = h.end
  PROVE  Contents(g, d) = Tail(Contents(h, d))
<1> DEFINE N == NumEntries(g)
<1>1. Contents(g, d) = [k \in 1 .. N |-> d[Position(g, k)]]
  BY DEF Contents
<1>2. /\ Contents(h, d) \in Seq(Slot) /\ Len(Contents(h, d)) = N + 1
      /\ N \in Nat /\ DOMAIN Contents(h, d) = 1 .. N + 1
  BY ContentsType, EntriesType, RingDrop
<1>3. Tail(Contents(h, d)) = [k \in 1 .. N |-> Contents(h, d)[k + 1]]
  <2> DEFINE c == Contents(h, d)
  <2>1. /\ c \in Seq(Slot) /\ Len(c) = N + 1 /\ N \in Nat
        /\ c # << >>
    BY <1>2
  <2> HIDE DEF c, N
  <2>2. /\ Tail(c) \in Seq(Slot) /\ Len(Tail(c)) = N
        /\ \A k \in 1 .. N : Tail(c)[k] = c[k + 1]
    BY <2>1
  <2>3. Tail(c) = [k \in 1 .. N |-> c[k + 1]]
    <3>1. [k \in 1 .. N |-> c[k + 1]] \in Seq(Slot)
      <4>1. \A k \in 1 .. N : c[k + 1] \in Slot
        BY <2>1
      <4> QED BY <2>1, <4>1
    <3>2. Len([k \in 1 .. N |-> c[k + 1]]) = N
      BY <2>1
    <3> QED BY <2>2, <3>1, <3>2, SeqEqual
  <2> QED BY <2>3 DEF c
<1>4. \A k \in 1 .. N : d[Position(g, k)] = Contents(h, d)[k + 1]
  <2> TAKE k \in 1 .. N
  <2>1. NumEntries(h) = N + 1 /\ k + 1 \in 1 .. NumEntries(h)
    BY <1>2, EntriesType, RingDrop
  <2>2. Contents(h, d)[k + 1] = d[Position(h, k + 1)]
    BY <2>1 DEF Contents
  <2> QED BY <2>2, RingDrop
<1> QED BY <1>1, <1>3, <1>4

-----------------------------------------------------------------------------
(* What each step does to the log of a node, in the cache and in the file. *)

LEMMA LogTypes ==
  ASSUME SInv, NEW n \in Node
  PROVE  /\ g_sel_hdr[n] \in Header /\ g_sel_data[n] \in Data
         /\ f_hdr[n] \in Header /\ f_data[n] \in Data
         /\ Cached(n) \in Seq(Slot) /\ Stored(n) \in Seq(Slot)
         /\ Saved(n) \in Seq(Slot)
         /\ Len(Cached(n)) = sel_num_entries(n)
         /\ Len(Stored(n)) = sel_num_entries(n)
<1>1. /\ g_sel_hdr[n] \in Header /\ g_sel_data[n] \in Data
      /\ f_hdr[n] \in Header /\ f_data[n] \in Data
  BY DEF SInv, Types, CacheType, FileType, Data
<1> QED BY <1>1, ContentsType DEF Cached, Stored, Saved, sel_num_entries

\* sel_init: what is read from a node is the log in its file, before it is
\* loaded and behind that.
LEMMA BootLogs ==
  ASSUME SInv, sel_init, NEW n \in Node
  PROVE  /\ Saved(n)' = Saved(n)
         /\ Cached(n)' = Cached(n) \/ Cached(n)' = Saved(n)
         /\ Stored(n)' = Stored(n) \/ Stored(n)' = Saved(n)
         /\ LogOf(n)' = LogOf(n) /\ StoredOf(n)' = StoredOf(n)
<1>0. /\ g_sel_hdr \in [Node -> Header] /\ f_hdr \in [Node -> Header]
      /\ g_sel_data \in [Node -> Data] /\ f_data \in [Node -> Data]
  BY DEF SInv, Types, CacheType, FileType, Data
<1>1. /\ boot \in Node /\ boot \in Nat /\ n \in Nat /\ n <= MAX_NODES
      /\ MAX_NODES \in Nat
  BY Constants DEF SInv, Types, BootType, sel_init, node_init_load, node_init_fails,
                   node_init_create, node_init_fill, node_init_fill_fails, Up, Node
<1>2. file[n] = "absent" => Cached(n) = << >> /\ Stored(n) = << >> /\ Saved(n) = << >>
  BY ContentsEmpty DEF SInv, AbsentIsEmpty, Cached, Stored, Saved
<1>3. file[boot] # "ok" /\ n > boot => file[n] = "absent"
  BY <1>1 DEF SInv, CreatedInOrder
<1>4. ASSUME Saved(n)' = Saved(n), boot' = boot + 1 \/ boot' = MAX_NODES + 1,
             n # boot => Cached(n)' = Cached(n) /\ Stored(n)' = Stored(n),
             n = boot => Cached(n)' = Saved(n) /\ Stored(n)' = Saved(n),
             boot' = MAX_NODES + 1 => file[boot] # "ok" \/ boot' = boot + 1
      PROVE  LogOf(n)' = LogOf(n) /\ StoredOf(n)' = StoredOf(n)
  <2>1. CASE n < boot
    BY <1>1, <1>4, <2>1 DEF LogOf, StoredOf, Loaded, Cached, Stored
  <2>2. CASE n = boot
    <3>1. boot' > n /\ ~(boot > n)
      BY <1>1, <1>4, <2>2
    <3> QED BY <1>4, <2>2, <3>1 DEF LogOf, StoredOf, Loaded, Cached, Stored, Saved
  <2>3. CASE n > boot /\ boot' = boot + 1
    <3>1. ~(boot' > n) /\ ~(boot > n)
      BY <1>1, <1>4, <2>3
    <3> QED BY <1>4, <3>1 DEF LogOf, StoredOf, Loaded, Saved
  <2>4. CASE n > boot /\ file[boot] # "ok"
    <3>1. Cached(n)' = << >> /\ Stored(n)' = << >> /\ Saved(n) = << >>
      BY <1>1, <1>2, <1>3, <1>4, <2>4
    <3>2. Saved(n)' = << >> /\ ~(boot > n)
      BY <1>1, <1>4, <2>4, <3>1
    <3> QED BY <3>1, <3>2 DEF LogOf, StoredOf, Loaded, Cached, Stored, Saved
  <2> QED BY <1>1, <1>4, <2>1, <2>2, <2>3, <2>4
<1>5. CASE node_init_load \/ node_init_fails
  <2>1. /\ Saved(n)' = Saved(n)
        /\ n # boot => Cached(n)' = Cached(n) /\ Stored(n)' = Stored(n)
        /\ n = boot => Cached(n)' = Saved(n) /\ Stored(n)' = Saved(n)
        /\ \/ boot' = boot + 1
           \/ boot' = MAX_NODES + 1 /\ file[boot] # "ok"
    BY <1>0, <1>1, <1>5
       DEF node_init_load, node_init_fails, fileVars, Saved, Stored, Cached
  <2> QED BY <1>1, <1>4, <2>1
<1>6. CASE node_init_create
  BY <1>6 DEF node_init_create, cacheVars, Saved, Stored, Cached, LogOf, StoredOf, Loaded
<1>7. CASE node_init_fill \/ node_init_fill_fails
  <2>1. /\ n # boot => /\ Cached(n)' = Cached(n) /\ Stored(n)' = Stored(n)
                       /\ Saved(n)' = Saved(n)
        /\ n = boot => g_sel_hdr'[n] = EmptyHdr /\ f_hdr'[n] = EmptyHdr
        /\ boot' = boot + 1 \/ boot' = MAX_NODES + 1
    BY <1>0, <1>1, <1>7
       DEF node_init_fill, node_init_fill_fails, Saved, Stored, Cached
  <2>2. file[boot] = "partial" /\ f_hdr[boot] = EmptyHdr
    BY <1>7 DEF node_init_fill, node_init_fill_fails, SInv, CreatedInOrder
  <2>3. n = boot => /\ Cached(n)' = << >> /\ Stored(n)' = << >>
                    /\ Saved(n)' = << >> /\ Saved(n) = << >>
    BY <2>1, <2>2, ContentsEmpty DEF Saved, Stored, Cached
  <2>4. /\ Saved(n)' = Saved(n)
        /\ n = boot => Cached(n)' = Saved(n) /\ Stored(n)' = Saved(n)
    BY <2>1, <2>3
  <2> QED BY <1>4, <2>1, <2>2, <2>4
<1> QED BY <1>5, <1>6, <1>7 DEF sel_init

LEMMA RestartLogs ==
  ASSUME SInv, Restart, NEW n \in Node
  PROVE  /\ Saved(n)' = Saved(n) /\ Cached(n)' = << >> /\ Stored(n)' = << >>
         /\ LogOf(n)' = Saved(n) /\ StoredOf(n)' = Saved(n)
<1>1. /\ Saved(n)' = Saved(n) /\ g_sel_hdr'[n] = EmptyHdr /\ boot' = 1
  BY DEF Restart, fileVars, Saved
<1>2. ~(boot' > n)
  BY <1>1, Constants DEF Node
<1> QED BY <1>1, <1>2, ContentsEmpty DEF LogOf, StoredOf, Loaded, Cached, Stored, Saved

\* A full log loses its first record, and no other node's log changes.
LEMMA RoomLogs ==
  ASSUME SInv, NEW m \in Node, add_make_room(S, m), NEW n \in Node
  PROVE  /\ Saved(n)' = Saved(n)
         /\ n # m => Cached(n)' = Cached(n) /\ Stored(n)' = Stored(n)
         /\ \/ /\ Len(Cached(m)) = SEL_RECORDS_MAX
               /\ Cached(m)' = Tail(Cached(m)) /\ Stored(m)' = Tail(Stored(m))
            \/ /\ Len(Cached(m)) # SEL_RECORDS_MAX
               /\ Cached(m)' = Cached(m) /\ Stored(m)' = Stored(m)
         /\ sel_num_entries(m)' < SEL_RECORDS_MAX
<1>0. /\ g_sel_hdr \in [Node -> Header] /\ g_sel_hdr[m] \in Header
      /\ g_sel_data[m] \in Data /\ f_data[m] \in Data
      /\ Len(Cached(m)) = NumEntries(g_sel_hdr[m])
  BY LogTypes DEF SInv, Types, CacheType, sel_num_entries
<1>1. Saved(n)' = Saved(n) /\ g_sel_data' = g_sel_data /\ f_data' = f_data
  BY DEF add_make_room, fileVars, Saved
<1>2. CASE NumEntries(g_sel_hdr[m]) = SEL_RECORDS_MAX
  <2>1. g_sel_hdr' = [g_sel_hdr EXCEPT ![m] =
                        [g_sel_hdr[m] EXCEPT !.begin = Incr(g_sel_hdr[m].begin)]]
    BY <1>2 DEF add_make_room, sel_num_entries
  <2>2. Incr(g_sel_hdr[m].begin) \in Index
    BY <1>0, IncrType DEF Header
  <2>3. /\ g_sel_hdr'[m] \in Header
        /\ n # m => g_sel_hdr'[n] = g_sel_hdr[n]
        /\ g_sel_hdr'[m].begin = Incr(g_sel_hdr[m].begin)
        /\ g_sel_hdr'[m].end = g_sel_hdr[m].end
    BY <1>0, <2>1, <2>2 DEF Header
  <2>4. NumEntries(g_sel_hdr'[m]) < SEL_RECORDS_MAX
    BY <1>0, <1>2, <2>3, RingDrop, Constants
  <2> QED BY <1>0, <1>1, <1>2, <2>3, <2>4, ContentsDrop
          DEF Cached, Stored, sel_num_entries
<1>3. CASE NumEntries(g_sel_hdr[m]) # SEL_RECORDS_MAX
  <2>1. g_sel_hdr' = g_sel_hdr
    BY <1>3 DEF add_make_room, sel_num_entries
  <2>2. NumEntries(g_sel_hdr[m]) < SEL_RECORDS_MAX
    BY <1>0, <1>3, EntriesType, Constants
  <2> QED BY <1>0, <1>1, <1>3, <2>1, <2>2 DEF Cached, Stored, sel_num_entries
<1> QED BY <1>2, <1>3

\* Copying, parsing and storing a record goes to a slot that is not live, neither
\* in the cache nor in the file.
LEMMA WriteLogs ==
  ASSUME SInv, NEW n \in Node,
         \/ add_copy(S) \/ add_parse(S)
         \/ add_store_data(S) \/ add_store_data_lost(S) \/ add_store_data_fails(S)
  PROVE  Saved(n)' = Saved(n) /\ Cached(n)' = Cached(n) /\ Stored(n)' = Stored(n)
<1>0. /\ g_sel_hdr[n] \in Header /\ f_hdr[n] \in Header /\ S \in Thread
      /\ g_sel_data \in [Node -> Data] /\ f_data \in [Node -> Data]
      /\ node[S] \in Node /\ boot \in Nat
  BY LogTypes, Constants DEF SInv, Types, CacheType, FileType, ThreadType, BootType, Data, S
<1>1. CASE add_copy(S)
  <2>1. \A i \in Live(g_sel_hdr[n]) : g_sel_data'[n][i] = g_sel_data[n][i]
    BY <1>0, <1>1, EndNotLive DEF add_copy, Data
  <2>2. g_sel_hdr' = g_sel_hdr /\ Saved(n)' = Saved(n) /\ Stored(n)' = Stored(n)
    BY <1>1 DEF add_copy, fileVars, Saved, Stored
  <2> QED BY <1>0, <2>1, <2>2, ContentsSame DEF Cached
<1>2. CASE add_store_data(S) \/ add_store_data_lost(S)
  <2>1. /\ rec_id[S] - 1 = f_hdr[node[S]].end
        /\ rec_id[S] - 1 = g_sel_hdr[node[S]].end
    <3>1. boot > node[S]
      <4>1. node[S] \in Nat /\ node[S] <= MAX_NODES /\ MAX_NODES \in Nat
        BY <1>0, Constants
      <4>2. boot > MAX_NODES
        BY <1>2 DEF SInv, BusyIsUp, Up, add_store_data, add_store_data_lost
      <4> QED BY <1>0, <4>1, <4>2
    <3> QED BY <1>0, <1>2, <3>1
            DEF SInv, WritesEnd, EndsAgree, add_store_data, add_store_data_lost
  <2>2. \A i \in Index : ~(n = node[S] /\ i = rec_id[S] - 1)
                        => f_data'[n][i] = f_data[n][i]
    <3>1. f_data[node[S]] \in Data
      BY <1>0
    <3>2. CASE add_store_data(S)
      BY <1>0, <3>1, <3>2 DEF add_store_data, Data
    <3>3. CASE add_store_data_lost(S)
      BY <1>0, <3>1, <3>3 DEF add_store_data_lost, Data
    <3> QED BY <1>2, <3>2, <3>3
  <2>3. f_hdr' = f_hdr /\ g_sel_hdr' = g_sel_hdr /\ Cached(n)' = Cached(n)
    BY <1>2 DEF add_store_data, add_store_data_lost, cacheVars, Cached
  <2>4. /\ \A i \in Live(f_hdr[n]) : f_data'[n][i] = f_data[n][i]
        /\ \A i \in Live(g_sel_hdr[n]) : f_data'[n][i] = f_data[n][i]
    BY <1>0, <2>1, <2>2, EndNotLive, LiveIndex
  <2> QED BY <1>0, <2>3, <2>4, ContentsSame DEF Saved, Stored
<1>3. CASE add_parse(S) \/ add_store_data_fails(S)
  BY <1>3 DEF add_parse, add_store_data_fails, cacheVars, fileVars, Saved, Stored, Cached
<1> QED BY <1>1, <1>2, <1>3

\* The new record becomes the last one.
LEMMA AdvanceLogs ==
  ASSUME SInv, NewRecord, add_advance(S), NEW n \in Node
  PROVE  /\ Saved(n)' = Saved(n)
         /\ n # node[S] => Cached(n)' = Cached(n) /\ Stored(n)' = Stored(n)
         /\ n = node[S] =>
              LET e == g_sel_hdr[n].end
              IN /\ Cached(n)' = Append(Cached(n), g_sel_data[n][e])
                 /\ Stored(n)' = Append(Stored(n), f_data[n][e])
<1> DEFINE m == node[S]
<1>0. S \in Thread /\ m \in Node
  BY Constants DEF SInv, Types, ThreadType, S
<1>1. /\ g_sel_hdr \in [Node -> Header] /\ g_sel_hdr[m] \in Header
      /\ g_sel_data[m] \in Data /\ f_data[m] \in Data
  BY <1>0, LogTypes DEF SInv, Types, CacheType
<1>2. NumEntries(g_sel_hdr[m]) < SEL_RECORDS_MAX
  BY DEF NewRecord, Adding, add_advance, sel_num_entries
<1>3. /\ Saved(n)' = Saved(n) /\ g_sel_data' = g_sel_data /\ node' = node
      /\ f_data' = f_data
      /\ g_sel_hdr' = [g_sel_hdr EXCEPT ![m] =
                        [g_sel_hdr[m] EXCEPT !.end = Incr(g_sel_hdr[m].end)]]
  BY DEF add_advance, fileVars, Saved
<1>4. Incr(g_sel_hdr[m].end) \in Index
  BY <1>1, IncrType DEF Header
<1>5. /\ g_sel_hdr'[m] \in Header
      /\ n # m => g_sel_hdr'[n] = g_sel_hdr[n]
      /\ g_sel_hdr'[m].begin = g_sel_hdr[m].begin
      /\ g_sel_hdr'[m].end = Incr(g_sel_hdr[m].end)
  BY <1>0, <1>1, <1>3, <1>4 DEF Header
<1>6. /\ Contents(g_sel_hdr'[m], g_sel_data[m])
           = Append(Contents(g_sel_hdr[m], g_sel_data[m]),
                    g_sel_data[m][g_sel_hdr[m].end])
      /\ Contents(g_sel_hdr'[m], f_data[m])
           = Append(Contents(g_sel_hdr[m], f_data[m]), f_data[m][g_sel_hdr[m].end])
  BY <1>1, <1>2, <1>5, ContentsAdvance
<1> QED BY <1>3, <1>5, <1>6 DEF Cached, Stored

\* The saved log becomes what the file has of the log that is read, or stays.
LEMMA StoreLogs ==
  ASSUME SInv, store_hdr(S), NEW n \in Node
  PROVE  /\ Cached(n)' = Cached(n) /\ Stored(n)' = Stored(n)
         /\ n # node[S] => Saved(n)' = Saved(n)
         /\ Saved(n)' = Saved(n) \/ Saved(n)' = Stored(n)
<1>0. f_hdr \in [Node -> Header]
  BY DEF SInv, Types, FileType
<1>1. /\ Cached(n)' = Cached(n) /\ Stored(n)' = Stored(n) /\ f_data' = f_data
      /\ f_hdr'[n] = f_hdr[n] \/ f_hdr'[n] = g_sel_hdr[n]
      /\ n # node[S] => f_hdr'[n] = f_hdr[n]
  BY <1>0 DEF store_hdr, cacheVars, Cached, Stored
<1> QED BY <1>1 DEF Stored, Saved

LEMMA EraseLogs ==
  ASSUME SInv, NEW m \in Node, NEW r, sel_erase(m, r), NEW n \in Node
  PROVE  /\ Saved(n)' = Saved(n)
         /\ n # m => Cached(n)' = Cached(n) /\ Stored(n)' = Stored(n)
         /\ Cached(m)' = << >> /\ Stored(m)' = << >>
<1>0. g_sel_hdr \in [Node -> Header]
  BY DEF SInv, Types, CacheType
<1>1. /\ Saved(n)' = Saved(n) /\ g_sel_data' = g_sel_data /\ f_data' = f_data
      /\ g_sel_hdr'[m] = EmptyHdr
      /\ n # m => g_sel_hdr'[n] = g_sel_hdr[n]
  BY <1>0 DEF sel_erase, fileVars, Saved
<1> QED BY <1>1, ContentsEmpty DEF Cached, Stored

-----------------------------------------------------------------------------
(* Sequences of records in order. *)

LEMMA SlotFacts ==
  /\ \A x \in Slot : x.id \in Nat
  /\ \A x \in Record : x \in Slot /\ x # Blank /\ x # Lost
  /\ Lost \in Slot
BY Constants DEF Slot, Record, Blank, Lost, Id

LEMMA OrderTail ==
  ASSUME NEW c \in Seq(Slot), c # << >>, NEW m \in Int, InOrder(c, m)
  PROVE  InOrder(Tail(c), m)
<1>1. /\ Tail(c) \in Seq(Slot) /\ DOMAIN Tail(c) = 1 .. Len(c) - 1
      /\ \A k \in 1 .. Len(c) - 1 : Tail(c)[k] = c[k + 1]
      /\ DOMAIN c = 1 .. Len(c) /\ Len(c) \in Nat
  OBVIOUS
<1>2. \A k \in 1 .. Len(c) - 1 : k + 1 \in 1 .. Len(c)
  BY <1>1
<1>3. \A i, j \in 1 .. Len(c) - 1 : i < j => i + 1 < j + 1
  BY <1>1
<1> QED BY <1>1, <1>2, <1>3 DEF InOrder

\* A record that is newer than all, or a lost one, goes behind the last.
LEMMA OrderAppend ==
  ASSUME NEW c \in Seq(Slot), NEW m \in Nat, InOrder(c, m), NEW x \in Slot,
         x # Lost => x # Blank /\ x.id = m + 1
  PROVE  InOrder(Append(c, x), m + 1)
<1> DEFINE d == Append(c, x)
<1>1. /\ DOMAIN d = 1 .. Len(c) + 1 /\ d[Len(c) + 1] = x
      /\ \A k \in 1 .. Len(c) : d[k] = c[k]
      /\ DOMAIN c = 1 .. Len(c) /\ Len(c) \in Nat
      /\ \A k \in 1 .. Len(c) : c[k] \in Slot
  OBVIOUS
<1> HIDE DEF d
<1>2. \A k \in DOMAIN d : k \in 1 .. Len(c) \/ k = Len(c) + 1
  BY <1>1
<1>3. \A k \in 1 .. Len(c) :
        c[k] # Lost => c[k].id <= m /\ c[k] # Blank /\ c[k].id \in Nat
  BY <1>1, SlotFacts DEF InOrder
<1>4. ASSUME NEW i \in DOMAIN d, d[i] # Lost
      PROVE  d[i] # Blank /\ d[i].id <= m + 1
  <2>1. CASE i \in 1 .. Len(c)
    BY <1>1, <1>3, <1>4, <2>1
  <2>2. CASE i = Len(c) + 1
    BY <1>1, <1>4, <2>2
  <2> QED BY <1>2, <2>1, <2>2
<1>5. ASSUME NEW i \in DOMAIN d, NEW j \in DOMAIN d, i < j, d[i] # Lost, d[j] # Lost
      PROVE  d[i].id < d[j].id
  <2>1. i \in 1 .. Len(c)
    BY <1>1, <1>5
  <2>2. CASE j \in 1 .. Len(c)
    BY <1>1, <1>5, <2>1, <2>2 DEF InOrder
  <2>3. CASE j = Len(c) + 1
    BY <1>1, <1>3, <1>5, <2>1, <2>3
  <2> QED BY <1>2, <2>2, <2>3
<1> QED BY <1>4, <1>5 DEF InOrder, d

LEMMA OrderLater ==
  ASSUME NEW c \in Seq(Slot), NEW m \in Int, NEW k \in Int, m <= k, InOrder(c, m)
  PROVE  InOrder(c, k)
<1>1. \A i \in DOMAIN c : c[i].id \in Nat
  BY SlotFacts
<1> QED BY <1>1 DEF InOrder

LEMMA OrderEmpty == ASSUME NEW m PROVE InOrder(<< >>, m)
BY DEF InOrder

LEMMA NewestType == ASSUME SInv PROVE added \in Nat /\ Newest \in Int
BY Constants DEF SInv, Types, BoundType, Newest

\* A step that only moves or drops whole logs keeps them in order.
LEMMA OrderKept ==
  ASSUME SInv, AllInOrder, Newest' \in Int, Newest <= Newest',
         \A n \in Node :
           /\ Cached(n)' \in {Cached(n), Saved(n), << >>}
           /\ Stored(n)' \in {Stored(n), Saved(n), << >>}
           /\ Saved(n)' \in {Stored(n), Saved(n)}
  PROVE  AllInOrder'
<1> SUFFICES ASSUME NEW n \in Node
             PROVE  /\ InOrder(Cached(n)', Newest') /\ InOrder(Stored(n)', Newest')
                    /\ InOrder(Saved(n)', Newest')
  BY DEF AllInOrder, InOrder, Newest
<1>1. /\ InOrder(Cached(n), Newest') /\ InOrder(Stored(n), Newest')
      /\ InOrder(Saved(n), Newest')
  BY LogTypes, NewestType, OrderLater DEF AllInOrder
<1> QED BY <1>1, OrderEmpty

-----------------------------------------------------------------------------
LEMMA LInvInit == ASSUME Init PROVE LInv
<1>1. SInv /\ S \in Thread
  BY SInvInit, Constants DEF S
<1>2. ~Adding
  BY <1>1 DEF Init, Adding
<1>3. \A n \in Node : g_sel_hdr[n] = EmptyHdr /\ f_hdr[n] = EmptyHdr
  BY DEF Init, ZeroCache
<1>4. AllInOrder
  BY <1>3, ContentsEmpty, OrderEmpty DEF AllInOrder, Cached, Stored, Saved
<1> QED BY <1>1, <1>2, <1>4 DEF LInv, NewRecord

\* sel_init and a restart.
LEMMA LInvBoot ==
  ASSUME Thread = {StorageThread}, LInv, SInv', sel_init \/ Restart PROVE LInv'
<1>0. SInv /\ AllInOrder /\ S \in Thread /\ added \in Nat
  BY NewestType, Constants DEF LInv, S
<1>1. ~Adding' /\ added' = added
  <2>1. CASE Restart
    BY <1>0, <2>1 DEF Restart, Adding
  <2>2. CASE sel_init
    <3>1. pc' = pc /\ added' = added /\ ~Up
      BY <2>2 DEF sel_init, node_init_load, node_init_fails, node_init_create,
                  node_init_fill, node_init_fill_fails, threadVars
    <3> QED BY <1>0, <3>1 DEF SInv, BusyIsUp, Adding
  <2> QED BY <2>1, <2>2
<1>2. Newest' \in Int /\ Newest <= Newest'
  BY <1>0, <1>1 DEF Newest
<1>3. AllInOrder'
  BY <1>0, <1>2, OrderKept, BootLogs, RestartLogs
<1> QED BY <1>1, <1>3 DEF LInv, NewRecord

\* sel_add_entry.
LEMMA LInvAdd ==
  ASSUME Thread = {StorageThread}, ~HdrStoreMayFail, LInv, SInv', AddStep(S)
  PROVE  LInv'
<1>0. /\ SInv /\ NewRecord /\ AllInOrder /\ S \in Thread
      /\ added \in Nat /\ node[S] \in Node /\ pc \in [Thread -> SelPc]
      /\ msg \in [Thread -> Slot] /\ node \in [Thread -> Node]
      /\ g_sel_hdr \in [Node -> Header] /\ f_hdr \in [Node -> Header]
      /\ g_sel_data \in [Node -> Data] /\ f_data \in [Node -> Data]
      /\ added \in 0 .. MaxAdd
  BY NewestType, Constants
     DEF LInv, S, SInv, Types, CacheType, FileType, ThreadType, BoundType, Data
<1>1. ASSUME NEW n \in Node, add_make_room(S, n) PROVE LInv'
  <2>1. /\ ~Adding /\ Adding' /\ added' = added + 1 /\ node'[S] = n
        /\ msg'[S] = [id |-> added + 1, stamp |-> "added"] /\ pc'[S] = "copy"
    BY <1>0, <1>1 DEF add_make_room, Adding, Goto
  <2>2. Newest' = Newest
    BY <1>0, <2>1 DEF Newest
  <2>3. NewRecord'
    <3>1. IsNewest(msg[S])' /\ added' # 0
      <4>1. added + 1 \in Id
        BY <1>0, <1>1, Constants DEF add_make_room, Id
      <4> QED BY <1>0, <2>1, <4>1 DEF IsNewest, Record
    <3> QED BY <1>0, <1>1, <2>1, <3>1, RoomLogs DEF NewRecord
  <2>5. AllInOrder'
    <3> SUFFICES ASSUME NEW k \in Node
                 PROVE  /\ InOrder(Cached(k)', Newest) /\ InOrder(Stored(k)', Newest)
                        /\ InOrder(Saved(k)', Newest)
      BY <2>2 DEF AllInOrder, InOrder, Newest
    <3>1. /\ InOrder(Cached(k), Newest) /\ InOrder(Stored(k), Newest)
          /\ InOrder(Saved(k), Newest) /\ Newest \in Int
          /\ Cached(k) \in Seq(Slot) /\ Stored(k) \in Seq(Slot)
          /\ Len(Cached(k)) = Len(Stored(k))
      BY <1>0, NewestType, LogTypes DEF AllInOrder
    <3>2. CASE /\ Len(Cached(k)) = SEL_RECORDS_MAX
               /\ Cached(k)' = Tail(Cached(k)) /\ Stored(k)' = Tail(Stored(k))
      <4>1. Cached(k) # << >> /\ Stored(k) # << >>
        <5>1. Len(Cached(k)) # 0 /\ Len(Stored(k)) # 0
          BY <3>1, <3>2, Constants
        <5> QED BY <5>1
      <4>2. InOrder(Saved(k)', Newest)
        BY <1>0, <1>1, <3>1, RoomLogs
      <4> QED BY <3>1, <3>2, <4>1, <4>2, OrderTail
    <3>3. CASE Cached(k)' = Cached(k) /\ Stored(k)' = Stored(k)
      BY <1>0, <1>1, <3>1, <3>3, RoomLogs
    <3> QED BY <1>0, <1>1, <3>2, <3>3, RoomLogs
  <2> QED BY <2>3, <2>5 DEF LInv
<1>2. CASE \/ add_copy(S) \/ add_parse(S)
           \/ add_store_data(S) \/ add_store_data_lost(S)
  <2>1. /\ Adding /\ Adding' /\ added' = added /\ node' = node
        /\ g_sel_hdr' = g_sel_hdr
    BY <1>0, <1>2 DEF add_copy, add_parse, add_store_data, add_store_data_lost, Adding,
                      Goto, cacheVars
  <2>2. Newest' \in Int /\ Newest <= Newest'
    BY <1>0, <2>1 DEF Newest
  <2>3. AllInOrder'
    BY <1>0, <1>2, <2>2, OrderKept, WriteLogs
  <2>4. /\ g_sel_hdr[node[S]].end \in Index
        /\ pc[S] = "store_data" => rec_id[S] - 1 = g_sel_hdr[node[S]].end
    <3>1. g_sel_hdr[node[S]] \in Header
      BY <1>0
    <3> QED BY <1>0, <3>1 DEF SInv, WritesEnd, Header
  <2>5. /\ IsNewest(msg[S]) /\ added # 0
        /\ pc[S] # "copy" => IsNewest(g_sel_data[node[S]][g_sel_hdr[node[S]].end])
        /\ sel_num_entries(node[S]) < SEL_RECORDS_MAX
    BY <1>0, <2>1 DEF NewRecord
  <2>6. sel_num_entries(node[S])' = sel_num_entries(node[S])
    BY <2>1 DEF sel_num_entries
  <2>7. NewRecord'
    <3>1. CASE add_copy(S)
      <4>1. /\ pc'[S] = "parse" /\ msg' = msg
            /\ g_sel_data'[node[S]][g_sel_hdr[node[S]].end] = msg[S]
        BY <1>0, <2>4, <3>1 DEF add_copy, Goto, Data
      <4> QED BY <1>0, <2>1, <2>5, <2>6, <4>1 DEF NewRecord, IsNewest
    <3>2. CASE add_parse(S)
      <4>1. /\ pc[S] = "parse" /\ pc'[S] = "store_data" /\ g_sel_data' = g_sel_data
        BY <1>0, <3>2 DEF add_parse, Goto, cacheVars
      <4>2. PICK s \in {"added", "parsed"} : msg' = [msg EXCEPT ![S].stamp = s]
        BY <3>2 DEF add_parse
      <4>3. IsNewest([msg[S] EXCEPT !.stamp = s])
        BY <2>5 DEF IsNewest, Record
      <4>4. IsNewest(msg[S])'
        BY <1>0, <2>1, <4>2, <4>3 DEF IsNewest
      <4> QED BY <1>0, <2>1, <2>5, <2>6, <4>1, <4>4 DEF NewRecord, IsNewest
    <3>3. CASE add_store_data(S) \/ add_store_data_lost(S)
      <4>1. /\ pc[S] = "store_data" /\ pc'[S] = "advance" /\ msg' = msg
            /\ g_sel_data' = g_sel_data
            /\ f_data'[node[S]][g_sel_hdr[node[S]].end] \in {msg[S], Lost}
        BY <1>0, <2>4, <3>3
           DEF add_store_data, add_store_data_lost, Goto, Data, cacheVars
      <4> QED BY <1>0, <2>1, <2>5, <2>6, <4>1 DEF NewRecord, IsNewest
    <3> QED BY <1>2, <3>1, <3>2, <3>3
  <2> QED BY <2>3, <2>7 DEF LInv
<1>3. CASE add_store_data_fails(S)
  <2>1. ~Adding' /\ added' = added
    BY <1>0, <1>3 DEF add_store_data_fails, Adding, Goto
  <2>2. Newest' \in Int /\ Newest <= Newest'
    BY <1>0, <2>1 DEF Newest
  <2>3. AllInOrder'
    BY <1>0, <1>3, <2>2, OrderKept, WriteLogs
  <2> QED BY <2>1, <2>3 DEF LInv, NewRecord
<1>4. CASE add_advance(S)
  <2> DEFINE e == g_sel_hdr[node[S]].end
             x == g_sel_data[node[S]][e]
             y == f_data[node[S]][e]
  <2>1. Adding /\ ~Adding' /\ added' = added /\ pc[S] = "advance"
    BY <1>0, <1>4 DEF add_advance, Adding, Goto
  <2>2. /\ Newest = added - 1 /\ Newest' = added /\ added # 0
        /\ IsNewest(x) /\ (IsNewest(y) \/ y = Lost)
    BY <1>0, <2>1 DEF Newest, NewRecord
  <2>3. /\ x \in Slot /\ x # Blank /\ x.id = added
        /\ y \in Slot /\ (y # Lost => y # Blank /\ y.id = added)
    BY <2>2, SlotFacts DEF IsNewest
  <2> HIDE DEF x, y
  <2>4. AllInOrder'
    <3> SUFFICES ASSUME NEW k \in Node
                 PROVE  /\ InOrder(Cached(k)', added) /\ InOrder(Stored(k)', added)
                        /\ InOrder(Saved(k)', added)
      BY <2>2 DEF AllInOrder, InOrder
    <3>1. /\ InOrder(Cached(k), added - 1) /\ InOrder(Stored(k), added - 1)
          /\ InOrder(Saved(k), added - 1)
          /\ Cached(k) \in Seq(Slot) /\ Stored(k) \in Seq(Slot)
          /\ Saved(k) \in Seq(Slot)
      BY <1>0, <2>2, LogTypes DEF AllInOrder
    <3>2. added - 1 \in Nat /\ added - 1 <= added /\ (added - 1) + 1 = added
      BY <1>0, <2>2
    <3>3. /\ InOrder(Saved(k), added) /\ InOrder(Cached(k), added)
          /\ InOrder(Stored(k), added)
      BY <1>0, <3>1, <3>2, OrderLater
    <3>4. InOrder(Append(Cached(k), x), added)
      BY <2>3, <3>1, <3>2, OrderAppend
    <3>5. InOrder(Append(Stored(k), y), added)
      BY <2>3, <3>1, <3>2, OrderAppend
    <3>6. CASE k = node[S]
      <4>1. Cached(k)' = Append(Cached(k), x) /\ Stored(k)' = Append(Stored(k), y)
        BY <1>0, <1>4, <3>6, AdvanceLogs DEF x, y
      <4>2. Saved(k)' = Saved(k)
        BY <1>0, <1>4, AdvanceLogs
      <4> QED BY <3>3, <3>4, <3>5, <4>1, <4>2
    <3>7. CASE k # node[S]
      BY <1>0, <1>4, <3>3, <3>7, AdvanceLogs
    <3> QED BY <3>6, <3>7
  <2> QED BY <2>1, <2>4 DEF LInv, NewRecord
<1>5. CASE store_hdr(S)
  <2>1. ~Adding /\ ~Adding' /\ added' = added
    BY <1>0, <1>5 DEF store_hdr, Adding, Goto
  <2>2. Newest' \in Int /\ Newest <= Newest'
    BY <1>0, <2>1 DEF Newest
  <2>3. AllInOrder'
    BY <1>0, <1>5, <2>2, OrderKept, StoreLogs
  <2> QED BY <2>1, <2>3 DEF LInv, NewRecord
<1> QED BY <1>1, <1>2, <1>3, <1>4, <1>5 DEF AddStep

\* sel_rsv_id and sel_erase.
LEMMA LInvErase ==
  ASSUME LInv, SInv', NEW n \in Node, NEW r, sel_rsv_id(n) \/ sel_erase(n, r)
  PROVE  LInv'
<1>0. /\ SInv /\ NewRecord /\ AllInOrder /\ S \in Thread
      /\ added \in Nat /\ pc \in [Thread -> SelPc]
  BY NewestType, Constants DEF LInv, S, SInv, Types, ThreadType
<1>1. ~Adding /\ ~Adding' /\ added' = added
  BY <1>0 DEF sel_rsv_id, sel_erase, Adding, Goto, S, threadVars
<1>2. Newest' \in Int /\ Newest <= Newest'
  BY <1>0, <1>1 DEF Newest
<1>3. CASE sel_rsv_id(n)
  <2>1. \A k \in Node : /\ Cached(k)' = Cached(k) /\ Stored(k)' = Stored(k)
                        /\ Saved(k)' = Saved(k)
    BY <1>3 DEF sel_rsv_id, fileVars, Cached, Stored, Saved
  <2>2. AllInOrder'
    BY <1>0, <1>2, <2>1, OrderKept
  <2> QED BY <1>1, <2>2 DEF LInv, NewRecord
<1>4. CASE sel_erase(n, r)
  <2>1. \A k \in Node : /\ Saved(k)' = Saved(k)
                        /\ Cached(k)' = Cached(k) \/ Cached(k)' = << >>
                        /\ Stored(k)' = Stored(k) \/ Stored(k)' = << >>
    BY <1>0, <1>4, EraseLogs
  <2>2. AllInOrder'
    BY <1>0, <1>2, <2>1, OrderKept
  <2> QED BY <1>1, <2>2 DEF LInv, NewRecord
<1> QED BY <1>3, <1>4

\* Every step keeps the invariant.
LEMMA LInvNext ==
  ASSUME Thread = {StorageThread}, ~HdrStoreMayFail, LInv, [Next]_vars
  PROVE  LInv'
<1>1. SInv'
  BY SInvNext DEF LInv
<1>2. CASE UNCHANGED vars
  <2>1. UNCHANGED <<g_sel_hdr, g_sel_data, f_hdr, f_data, pc, node, msg, added>>
    BY <1>2 DEF vars, cacheVars, fileVars, threadVars
  <2> QED BY <1>1, <2>1
          DEF LInv, NewRecord, IsNewest, AllInOrder, InOrder, Newest, Adding,
              Cached, Stored, Saved, sel_num_entries
<1>3. CASE \E t \in Thread : AddStep(t)
  BY <1>1, <1>3, LInvAdd DEF S
<1>4. ASSUME NEW n \in Node, NEW r, sel_rsv_id(n) \/ sel_erase(n, r) PROVE LInv'
  BY <1>1, <1>4, LInvErase
<1> QED BY <1>1, <1>2, <1>3, <1>4, LInvBoot DEF Next

\* One thread at a time and no failing write of a header: whatever writes of
\* records fail or are lost and wherever ipmid is restarted, the log that
\* sel_get_entry reads has its records in the order they were added, none twice
\* and no blank one, but for slots whose write was lost.
THEOREM RecordsInOrder ==
  ASSUME Thread = {StorageThread}, ~HdrStoreMayFail
  PROVE  Spec => []LogInOrder
<1>1. LInv => LogInOrder
  <2> SUFFICES ASSUME LInv, NEW n \in Node
               PROVE  \A i, j \in {k \in DOMAIN Cached(n) : Cached(n)[k] # Lost} :
                        /\ Cached(n)[i] # Blank
                        /\ i < j => Cached(n)[i].id < Cached(n)[j].id
    BY DEF LogInOrder, Cached
  <2> QED BY DEF LInv, AllInOrder, InOrder
<1> QED BY <1>1, LInvInit, LInvNext, PTL DEF Spec

-----------------------------------------------------------------------------
(***************************************************************************)
(* The log of the first node implements SelLog.                             *)
(***************************************************************************)

LogAdding == Adding /\ node[S] = 1

\* The state of SelLog.
LEMMA LogState ==
  /\ Log!logVars = <<LogOf(1), StoredOf(1), Saved(1), LogAdding>>
  /\ Log!logVars' = <<LogOf(1)', StoredOf(1)', Saved(1)', LogAdding'>>
BY DEF Log!logVars, Saved, LogAdding, Adding, S

\* Behind sel_init what is read is the cache, before and behind a request.
LEMMA UpReadsCache ==
  ASSUME SInv, Up, boot' = boot
  PROVE  /\ LogOf(1) = Cached(1) /\ LogOf(1)' = Cached(1)'
         /\ StoredOf(1) = Stored(1) /\ StoredOf(1)' = Stored(1)'
<1>1. boot > 1
  BY Constants DEF Up, SInv, Types, BootType
<1> QED BY <1>1 DEF LogOf, StoredOf, Loaded, Cached, Stored

\* Every step of the SEL is a step of SelLog, or none that it sees.
LEMMA LogStep ==
  ASSUME Thread = {StorageThread}, ~HdrStoreMayFail, LInv, SInv', Next
  PROVE  Log!LogNext \/ UNCHANGED Log!logVars
<1>0. /\ SInv /\ NewRecord /\ S \in Thread /\ 1 \in Node
      /\ pc \in [Thread -> SelPc] /\ node \in [Thread -> Node] /\ node[S] \in Node
  BY Constants DEF LInv, S, SInv, Types, ThreadType
<1>1. CASE sel_init
  <2>1. /\ LogOf(1)' = LogOf(1) /\ StoredOf(1)' = StoredOf(1)
        /\ Saved(1)' = Saved(1)
    BY <1>0, <1>1, BootLogs
  <2>2. LogAdding' = LogAdding
    BY <1>1 DEF sel_init, node_init_load, node_init_fails, node_init_create,
                node_init_fill, node_init_fill_fails, threadVars, LogAdding, Adding
  <2> QED BY <2>1, <2>2, LogState
<1>2. CASE Restart
  <2>1. /\ LogOf(1)' = Saved(1) /\ StoredOf(1)' = Saved(1)
        /\ Saved(1)' = Saved(1)
    BY <1>0, <1>2, RestartLogs
  <2>2. LogAdding' = FALSE
    BY <1>0, <1>2 DEF Restart, LogAdding, Adding
  <2>3. Log!Restart
    BY <2>1, <2>2 DEF Log!Restart, Saved, LogAdding, Adding, S
  <2> QED BY <2>3 DEF Log!LogNext
<1>3. ASSUME Up, boot' = boot, Saved(1)' = Saved(1), Cached(1)' = Cached(1),
             Stored(1)' = Stored(1), LogAdding' <=> LogAdding
      PROVE  UNCHANGED Log!logVars
  <2>1. LogOf(1)' = LogOf(1) /\ StoredOf(1)' = StoredOf(1)
    BY <1>0, <1>3, UpReadsCache
  <2>2. LogAdding' = LogAdding
    BY <1>3 DEF LogAdding
  <2> QED BY <1>3, <2>1, <2>2, LogState
<1>4. ASSUME NEW n \in Node, add_make_room(S, n)
      PROVE  Log!LogNext \/ UNCHANGED Log!logVars
  <2>1. Up /\ boot' = boot /\ ~LogAdding /\ (LogAdding' <=> n = 1)
    BY <1>0, <1>4 DEF add_make_room, bootVars, Goto, LogAdding, Adding
  <2>2. /\ LogOf(1) = Cached(1) /\ LogOf(1)' = Cached(1)'
        /\ StoredOf(1) = Stored(1) /\ StoredOf(1)' = Stored(1)'
        /\ Saved(1)' = Saved(1)
    BY <1>0, <1>4, <2>1, UpReadsCache, RoomLogs
  <2>3. CASE n = 1
    <3>1. \/ /\ Len(Cached(1)) = SEL_RECORDS_MAX
             /\ Cached(1)' = Tail(Cached(1)) /\ Stored(1)' = Tail(Stored(1))
          \/ /\ Len(Cached(1)) # SEL_RECORDS_MAX
             /\ Cached(1)' = Cached(1) /\ Stored(1)' = Stored(1)
      BY <1>0, <1>4, <2>3, RoomLogs
    <3>2. Log!Begin
      BY <2>1, <2>2, <2>3, <3>1 DEF Log!Begin, Saved, LogAdding, Adding, S
    <3> QED BY <3>2 DEF Log!LogNext
  <2>4. CASE n # 1
    BY <1>0, <1>3, <1>4, <2>1, <2>4, RoomLogs
  <2> QED BY <2>3, <2>4
<1>5. CASE \/ add_copy(S) \/ add_parse(S)
           \/ add_store_data(S) \/ add_store_data_lost(S)
  <2>1. Up /\ boot' = boot /\ (LogAdding' <=> LogAdding)
    BY <1>0, <1>5 DEF add_copy, add_parse, add_store_data, add_store_data_lost,
                      bootVars, Goto, LogAdding, Adding, SInv, BusyIsUp
  <2> QED BY <1>0, <1>3, <1>5, <2>1, WriteLogs
<1>6. CASE add_store_data_fails(S)
  <2>1. /\ Up /\ boot' = boot /\ ~LogAdding' /\ (LogAdding <=> node[S] = 1)
        /\ Saved(1)' = Saved(1) /\ Cached(1)' = Cached(1) /\ Stored(1)' = Stored(1)
    BY <1>0, <1>6, WriteLogs DEF add_store_data_fails, bootVars, Goto, LogAdding, Adding,
                      SInv, BusyIsUp
  <2>2. CASE node[S] = 1
    <3>1. Log!GiveUp
      BY <1>0, <2>1, <2>2, UpReadsCache DEF Log!GiveUp, Saved, LogAdding, Adding, S
    <3> QED BY <3>1 DEF Log!LogNext
  <2>3. CASE node[S] # 1
    BY <1>3, <2>1, <2>3
  <2> QED BY <2>2, <2>3
<1>7. CASE add_advance(S)
  <2> DEFINE x == g_sel_data[node[S]][g_sel_hdr[node[S]].end]
             y == f_data[node[S]][g_sel_hdr[node[S]].end]
  <2>1. /\ Up /\ boot' = boot /\ ~LogAdding' /\ (LogAdding <=> node[S] = 1)
        /\ Saved(1)' = Saved(1)
    <3>1. Up /\ boot' = boot /\ ~LogAdding' /\ (LogAdding <=> node[S] = 1)
      BY <1>0, <1>7 DEF add_advance, bootVars, Goto, LogAdding, Adding, SInv, BusyIsUp
    <3> QED BY <1>0, <1>7, <3>1, AdvanceLogs
  <2>2. x \in Record /\ y \in Log!Images(x)
    <3>1. IsNewest(x) /\ (IsNewest(y) \/ y = Lost)
      BY <1>0, <1>7 DEF NewRecord, Adding, add_advance
    <3> QED BY <3>1 DEF IsNewest, Log!Images
  <2>3. CASE node[S] = 1
    <3>1. Cached(1)' = Append(Cached(1), x) /\ Stored(1)' = Append(Stored(1), y)
      BY <1>0, <1>7, <2>3, AdvanceLogs
    <3> HIDE DEF x, y
    <3>2. Log!Push(x, y)
      BY <1>0, <2>1, <2>3, <3>1, UpReadsCache DEF Log!Push, Saved, LogAdding, Adding, S
    <3> QED BY <2>2, <3>2 DEF Log!LogNext
  <2>4. CASE node[S] # 1
    BY <1>0, <1>3, <1>7, <2>1, <2>4, AdvanceLogs
  <2> QED BY <2>3, <2>4
<1>8. CASE store_hdr(S)
  <2>1. /\ Up /\ boot' = boot /\ ~LogAdding' /\ ~LogAdding
        /\ Cached(1)' = Cached(1) /\ Stored(1)' = Stored(1)
    BY <1>0, <1>8, StoreLogs DEF store_hdr, bootVars, Goto, LogAdding, Adding,
                      SInv, BusyIsUp
  <2>2. CASE Saved(1)' = Stored(1)
    <3>1. Log!Save
      BY <1>0, <2>1, <2>2, UpReadsCache DEF Log!Save, Saved, LogAdding, Adding, S
    <3> QED BY <3>1 DEF Log!LogNext
  <2>3. CASE Saved(1)' = Saved(1)
    BY <1>3, <2>1, <2>3
  <2> QED BY <1>0, <1>8, <2>2, <2>3, StoreLogs
<1>9. ASSUME NEW n \in Node, sel_rsv_id(n)
      PROVE  Log!LogNext \/ UNCHANGED Log!logVars
  <2>1. /\ Up /\ boot' = boot /\ (LogAdding' <=> LogAdding)
        /\ Saved(1)' = Saved(1) /\ Cached(1)' = Cached(1) /\ Stored(1)' = Stored(1)
    BY <1>9 DEF sel_rsv_id, bootVars, threadVars, fileVars, LogAdding, Adding,
                Saved, Stored, Cached
  <2> QED BY <1>3, <2>1
<1>10. ASSUME NEW n \in Node, NEW r, sel_erase(n, r)
       PROVE  Log!LogNext \/ UNCHANGED Log!logVars
  <2>1. /\ Up /\ boot' = boot /\ ~LogAdding' /\ ~LogAdding
        /\ Saved(1)' = Saved(1)
    BY <1>0, <1>10, EraseLogs DEF sel_erase, bootVars, Goto, LogAdding, Adding, S
  <2>2. CASE n = 1
    <3>1. Cached(1)' = << >> /\ Stored(1)' = << >>
      BY <1>0, <1>10, <2>2, EraseLogs
    <3>2. Log!Clear
      BY <1>0, <2>1, <3>1, UpReadsCache DEF Log!Clear, Saved, LogAdding, Adding, S
    <3> QED BY <3>2 DEF Log!LogNext
  <2>3. CASE n # 1
    BY <1>0, <1>3, <1>10, <2>1, <2>3, EraseLogs
  <2> QED BY <2>2, <2>3
<1> QED BY <1>1, <1>2, <1>4, <1>5, <1>6, <1>7, <1>8, <1>9, <1>10
        DEF Next, AddStep, S

\* With one thread at a time and no failing write of a header, the SEL is a
\* bounded log with a saved copy, with restarts at any point of sel_add_entry,
\* sel_erase and sel_init and with failed and lost writes of records: what the
\* file has of a record is settled when it is added, as the record with its time
\* stamp or the one of parse_sel, or as lost; no later step changes, reorders or
\* revives it, and adding one costs the oldest at most.
THEOREM SelImplementsLog ==
  ASSUME Thread = {StorageThread}, ~HdrStoreMayFail
  PROVE  Spec => ImplementsLog
<1>1. Init => Log!LogInit
  <2> SUFFICES ASSUME Init PROVE Log!LogInit
    OBVIOUS
  <2>1. /\ g_sel_hdr[1] = EmptyHdr /\ f_hdr[1] = EmptyHdr /\ pc[S] = "idle"
    BY Constants DEF Init, ZeroCache, S
  <2>2. LogOf(1) = << >> /\ StoredOf(1) = << >> /\ Saved(1) = << >>
    BY <2>1, ContentsEmpty DEF LogOf, StoredOf, Saved
  <2> QED BY <2>1, <2>2 DEF Log!LogInit, Saved, S
<1>2. LInv /\ [Next]_vars => LInv' /\ [Log!LogNext]_(Log!logVars)
  <2> SUFFICES ASSUME LInv, [Next]_vars
               PROVE  LInv' /\ [Log!LogNext]_(Log!logVars)
    OBVIOUS
  <2>1. LInv'
    BY LInvNext
  <2>2. CASE Next
    BY <2>1, <2>2, LogStep DEF LInv
  <2>3. CASE UNCHANGED vars
    <3>1. /\ LogOf(1)' = LogOf(1) /\ StoredOf(1)' = StoredOf(1)
          /\ Saved(1)' = Saved(1) /\ LogAdding' = LogAdding
      BY <2>3 DEF vars, cacheVars, fileVars, bootVars, threadVars, LogOf, StoredOf,
                  Loaded, Saved, LogAdding, Adding
    <3> QED BY <2>1, <3>1, LogState
  <2> QED BY <2>1, <2>2, <2>3
<1> QED BY <1>1, <1>2, LInvInit, PTL DEF Spec, ImplementsLog, Log!LogSpec
=============================================================================
