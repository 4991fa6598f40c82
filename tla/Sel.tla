--------------------------------- MODULE Sel ---------------------------------
(***************************************************************************)
(* The System Event Log of ipmid (sel.c): a ring of SEL_RECORDS_MAX records *)
(* for each node, cached in memory (g_sel_hdr, g_sel_data) and kept in the  *)
(* file /mnt/data/sel<node>.bin (f_hdr, f_data).                            *)
(*                                                                         *)
(* Requests come from handler threads.  ipmi_handle_storage serialises its  *)
(* requests with m_storage and ipmi_handle_sensor its own with m_sensor, so *)
(* there is at most one storage and one sensor request at a time; both may  *)
(* add records.  ipmid may be restarted at any point.                       *)
(*                                                                         *)
(* A header or a record is written with one fwrite and is taken to be       *)
(* written as a whole or not at all.  The write may fail with a report      *)
(* (fopen, fseek, fwrite) or without one: fwrite fills the buffer of stdio, *)
(* fclose writes it, and nobody looks at what fclose returns.               *)
(***************************************************************************)
EXTENDS Integers, Sequences

CONSTANTS
  MAX_NODES,         \* nodes (hosts) of the platform
  SEL_RECORDS_MAX,   \* 128 in the code
  SEL_RSVID_MAX,     \* 0xFFFE in the code
  Thread,            \* the requests that may be in progress at one time
  StorageThread,     \* the one under m_storage; others only add records
  DataStoreMayFail,  \* file_store_sel_data may fail, with a report or without
  HdrStoreMayFail,   \* file_store_sel_hdr may fail, with a report or without
  MaxAdd,            \* bound: records added in a behaviour
  MaxRestart         \* bound: restarts of ipmid in a behaviour

ASSUME SelAssumption ==
  /\ MAX_NODES \in Nat \ {0}
  /\ SEL_RECORDS_MAX \in Nat \ {0}
  /\ SEL_RECORDS_MAX < 65535          \* the record ids FIRST and LAST are none
  /\ SEL_RSVID_MAX \in Nat \ {0}
  /\ StorageThread \in Thread
  /\ DataStoreMayFail \in BOOLEAN
  /\ HdrStoreMayFail \in BOOLEAN
  /\ MaxAdd \in Nat
  /\ MaxRestart \in Nat

SEL_INDEX_MIN == 0
SEL_INDEX_MAX == SEL_RECORDS_MAX
SEL_RSVID_MIN == 1
Node == 1 .. MAX_NODES
Index == SEL_INDEX_MIN .. SEL_INDEX_MAX

(***************************************************************************)
(* What a slot holds: a record, named by its serial number, with the time   *)
(* stamp it was added with or as parse_sel has changed it; zeros; or, in a  *)
(* slot whose last write was lost, anything else.  That is an older record, *)
(* zeros, or behind the end of the file what file_get_sel_data finds in its *)
(* uninitialised buffer; the model does not tell them apart.                *)
(***************************************************************************)
Id == 1 .. MaxAdd
Record == [id : Id, stamp : {"added", "parsed"}]
Blank == [id |-> 0, stamp |-> "none"]
Lost == [id |-> 0, stamp |-> "lost"]
Slot == [id : Id \cup {0}, stamp : {"none", "added", "parsed", "lost"}]

Header == [begin : Index, end : Index]
EmptyHdr == [begin |-> SEL_INDEX_MIN, end |-> SEL_INDEX_MIN]
EmptyData == [i \in Index |-> Blank]

VARIABLES
  g_sel_hdr, g_sel_data,  \* the cache
  g_rsv_id,               \* the last reservation
  file,                   \* "absent", "partial" (created, without records) or "ok"
  f_hdr, f_data,          \* what is in the file
  boot,                   \* the node sel_init works on; MAX_NODES + 1 when done
  creating,               \* sel_node_init has made boot's file and not filled it
  pc, node, msg, rec_id,  \* each thread's request
  added, restarts         \* counters for the bounds

cacheVars == <<g_sel_hdr, g_sel_data, g_rsv_id>>
fileVars == <<file, f_hdr, f_data>>
threadVars == <<pc, node, msg, rec_id>>
bootVars == <<boot, creating>>
vars == <<cacheVars, fileVars, bootVars, threadVars, added, restarts>>

SelPc == {"idle", "copy", "parse", "store_data", "advance", "store_hdr"}

TypeOK ==
  /\ g_sel_hdr \in [Node -> Header]
  /\ g_sel_data \in [Node -> [Index -> Slot]]
  /\ g_rsv_id \in [Node -> 0 .. SEL_RSVID_MAX]
  /\ file \in [Node -> {"absent", "partial", "ok"}]
  /\ f_hdr \in [Node -> Header]
  /\ f_data \in [Node -> [Index -> Slot]]
  /\ boot \in 1 .. (MAX_NODES + 1)
  /\ creating \in BOOLEAN
  /\ pc \in [Thread -> SelPc]
  /\ node \in [Thread -> Node]
  /\ msg \in [Thread -> Slot]
  /\ rec_id \in [Thread -> 0 .. (SEL_INDEX_MAX + 1)]
  /\ added \in 0 .. MaxAdd
  /\ restarts \in 0 .. MaxRestart

\* What a started ipmid has in memory before sel_init.
ZeroCache ==
  /\ g_sel_hdr = [n \in Node |-> EmptyHdr]
  /\ g_sel_data = [n \in Node |-> EmptyData]
  /\ g_rsv_id = [n \in Node |-> 0]

Init ==
  /\ ZeroCache
  /\ file = [n \in Node |-> "absent"]
  /\ f_hdr = [n \in Node |-> EmptyHdr]
  /\ f_data = [n \in Node |-> EmptyData]
  /\ boot = 1
  /\ creating = FALSE
  /\ pc = [t \in Thread |-> "idle"]
  /\ node = [t \in Thread |-> 1]
  /\ msg = [t \in Thread |-> Blank]
  /\ rec_id = [t \in Thread |-> 0]
  /\ added = 0
  /\ restarts = 0

Up == boot > MAX_NODES

-----------------------------------------------------------------------------
(***************************************************************************)
(* Functions of the header and of the cache.                                *)
(***************************************************************************)

\* "if (++i > SEL_INDEX_MAX) i = SEL_INDEX_MIN"
Incr(i) == IF i + 1 > SEL_INDEX_MAX THEN SEL_INDEX_MIN ELSE i + 1

NumEntries(h) == IF h.begin <= h.end THEN h.end - h.begin
                                     ELSE h.end + (SEL_INDEX_MAX - h.begin + 1)

sel_num_entries(n) == NumEntries(g_sel_hdr[n])

\* The slots of the ring that hold records, and the records in order.
Live(h) == IF h.begin <= h.end
             THEN h.begin .. (h.end - 1)
             ELSE (h.begin .. SEL_INDEX_MAX) \cup (SEL_INDEX_MIN .. (h.end - 1))

Position(h, k) == LET i == h.begin + k - 1
                  IN IF i > SEL_INDEX_MAX THEN i - (SEL_INDEX_MAX + 1) ELSE i

Contents(h, d) == [k \in 1 .. NumEntries(h) |-> d[Position(h, k)]]

\* FIRST and LAST are the special record ids 0x0000 and 0xFFFF.
FIRST == 0
LAST == 65535


\* sel_get_entry for record id r: an error, or the record and the id of the
\* next one.
sel_get_entry(n, r) ==
  LET h == g_sel_hdr[n]
      index == CASE r = FIRST -> h.begin
                 [] r = LAST -> IF h.end # 0 THEN h.end - 1 ELSE SEL_INDEX_MAX
                 [] OTHER -> r
      next == IF r + 1 > SEL_INDEX_MAX THEN SEL_INDEX_MIN ELSE r + 1
  IN IF index \notin Live(h)
       THEN [ok |-> FALSE]
       ELSE [ok |-> TRUE, index |-> index, msg |-> g_sel_data[n][index],
             next |-> IF next = h.end THEN LAST ELSE next]

-----------------------------------------------------------------------------
(***************************************************************************)
(* sel_init: node by node; the first failure ends it, and main goes on.     *)
(***************************************************************************)

\* The file is there and is read.
node_init_load ==
  /\ ~Up
  /\ file[boot] = "ok"
  /\ g_sel_hdr' = [g_sel_hdr EXCEPT ![boot] = f_hdr[boot]]
  /\ g_sel_data' = [g_sel_data EXCEPT ![boot] = f_data[boot]]
  /\ boot' = boot + 1
  /\ UNCHANGED <<g_rsv_id, fileVars, creating, threadVars, added, restarts>>

\* The file is there but has no records: file_get_sel_data fails, behind
\* file_get_sel_hdr if there is a header, and sel_init ends.  The slots of the
\* cache keep their zeros, which are among what Lost stands for.
node_init_fails ==
  /\ ~Up
  /\ file[boot] = "partial"
  /\ ~creating
  /\ g_sel_hdr' = [g_sel_hdr EXCEPT ![boot] = f_hdr[boot]]
  /\ g_sel_data' = [g_sel_data EXCEPT ![boot] = f_data[boot]]
  /\ boot' = MAX_NODES + 1
  /\ UNCHANGED <<g_rsv_id, fileVars, creating, threadVars, added, restarts>>

\* The file is not there: it is made ...
node_init_create ==
  /\ ~Up
  /\ file[boot] = "absent"
  /\ file' = [file EXCEPT ![boot] = "partial"]
  /\ creating' = TRUE
  /\ UNCHANGED <<cacheVars, f_hdr, f_data, boot, threadVars, added, restarts>>

\* ... and then gets a header and blank records.  A write of zeros that is lost
\* leaves zeros, unless all of them are lost; that is left out.
node_init_fill ==
  /\ ~Up
  /\ creating
  /\ file' = [file EXCEPT ![boot] = "ok"]
  /\ g_sel_hdr' = [g_sel_hdr EXCEPT ![boot] = EmptyHdr]
  /\ f_hdr' = [f_hdr EXCEPT ![boot] = EmptyHdr]
  /\ f_data' = [f_data EXCEPT ![boot] = EmptyData]
  /\ g_rsv_id' = [g_rsv_id EXCEPT ![boot] = SEL_RSVID_MIN]
  /\ creating' = FALSE
  /\ boot' = boot + 1
  /\ UNCHANGED <<g_sel_data, threadVars, added, restarts>>

\* A write to the new file fails with a report: sel_init ends.  What is missing
\* in the header and between records reads as zeros.
node_init_fill_fails ==
  /\ ~Up
  /\ creating
  /\ DataStoreMayFail \/ HdrStoreMayFail
  /\ \E f \in {"partial", "ok"} : file' = [file EXCEPT ![boot] = f]
  /\ g_sel_hdr' = [g_sel_hdr EXCEPT ![boot] = EmptyHdr]
  /\ f_hdr' = [f_hdr EXCEPT ![boot] = EmptyHdr]
  /\ f_data' = [f_data EXCEPT ![boot] = EmptyData]
  /\ creating' = FALSE
  /\ boot' = MAX_NODES + 1
  /\ UNCHANGED <<g_sel_data, g_rsv_id, threadVars, added, restarts>>

\* ipmid ends and is started again: only the files are left.
Restart ==
  /\ restarts < MaxRestart
  /\ restarts' = restarts + 1
  /\ g_sel_hdr' = [n \in Node |-> EmptyHdr]
  /\ g_sel_data' = [n \in Node |-> EmptyData]
  /\ g_rsv_id' = [n \in Node |-> 0]
  /\ boot' = 1
  /\ creating' = FALSE
  /\ pc' = [t \in Thread |-> "idle"]
  /\ node' = [t \in Thread |-> 1]
  /\ msg' = [t \in Thread |-> Blank]
  /\ rec_id' = [t \in Thread |-> 0]
  /\ UNCHANGED <<fileVars, added>>

-----------------------------------------------------------------------------
(***************************************************************************)
(* sel_add_entry, step by step: what another thread or a restart may see.   *)
(***************************************************************************)
Goto(t, l) == pc' = [pc EXCEPT ![t] = l]

\* Mutant: the spare slot is filled as well.
add_make_room_all_slots(t, n) ==
  /\ Up
  /\ pc[t] = "idle"
  /\ added < MaxAdd
  /\ added' = added + 1
  /\ msg' = [msg EXCEPT ![t] = [id |-> added + 1, stamp |-> "added"]]
  /\ node' = [node EXCEPT ![t] = n]
  /\ Goto(t, "copy")
  /\ UNCHANGED <<g_sel_hdr, g_sel_data, g_rsv_id, fileVars, bootVars, rec_id,
                 restarts>>

\* The ring is full: the oldest record goes first.
add_make_room(t, n) ==
  /\ Up
  /\ pc[t] = "idle"
  /\ added < MaxAdd
  /\ added' = added + 1
  /\ msg' = [msg EXCEPT ![t] = [id |-> added + 1, stamp |-> "added"]]
  /\ node' = [node EXCEPT ![t] = n]
  /\ Goto(t, "copy")
  /\ g_sel_hdr' = IF sel_num_entries(n) = SEL_RECORDS_MAX
                    THEN [g_sel_hdr EXCEPT ![n].begin = Incr(@)]
                    ELSE g_sel_hdr
  /\ UNCHANGED <<g_sel_data, g_rsv_id, fileVars, bootVars, rec_id, restarts>>

\* Mutant: the record id is the index of the slot.
add_copy_zero_based(t) ==
  /\ pc[t] = "copy"
  /\ g_sel_data' =
       [g_sel_data EXCEPT ![node[t]][g_sel_hdr[node[t]].end] = msg[t]]
  /\ rec_id' = [rec_id EXCEPT ![t] = g_sel_hdr[node[t]].end]
  /\ Goto(t, "parse")
  /\ UNCHANGED <<g_sel_hdr, g_rsv_id, fileVars, bootVars, node, msg, added,
                 restarts>>

\* Mutant: the record id is used as the index of the slot in the cache.
add_copy_one_based(t) ==
  /\ pc[t] = "copy"
  /\ g_sel_data' =
       [g_sel_data EXCEPT ![node[t]][Incr(g_sel_hdr[node[t]].end)] = msg[t]]
  /\ rec_id' = [rec_id EXCEPT ![t] = g_sel_hdr[node[t]].end + 1]
  /\ Goto(t, "parse")
  /\ UNCHANGED <<g_sel_hdr, g_rsv_id, fileVars, bootVars, node, msg, added,
                 restarts>>

\* The record is copied behind the last one and gets its id.
add_copy(t) ==
  /\ pc[t] = "copy"
  /\ g_sel_data' =
       [g_sel_data EXCEPT ![node[t]][g_sel_hdr[node[t]].end] = msg[t]]
  /\ rec_id' = [rec_id EXCEPT ![t] = g_sel_hdr[node[t]].end + 1]
  /\ Goto(t, "parse")
  /\ UNCHANGED <<g_sel_hdr, g_rsv_id, fileVars, bootVars, node, msg, added,
                 restarts>>

\* parse_sel works on the caller's message, not on the copy, and may change the
\* time stamp in it (pal_is_modify_sel_time, and records of type 0xFB).
add_parse(t) ==
  /\ pc[t] = "parse"
  /\ \E s \in {"added", "parsed"} : msg' = [msg EXCEPT ![t].stamp = s]
  /\ Goto(t, "store_data")
  /\ UNCHANGED <<cacheVars, fileVars, bootVars, node, rec_id, added, restarts>>

\* file_store_sel_data writes it to the slot rec_id - 1 of the file.
add_store_data(t) ==
  /\ pc[t] = "store_data"
  /\ file[node[t]] # "absent"
  /\ f_data' = [f_data EXCEPT ![node[t]][rec_id[t] - 1] = msg[t]]
  /\ file' = [file EXCEPT ![node[t]] = "ok"]
  /\ Goto(t, "advance")
  /\ UNCHANGED <<cacheVars, f_hdr, bootVars, node, msg, rec_id, added, restarts>>

\* fclose fails: nothing is written and nobody knows.
add_store_data_lost(t) ==
  /\ pc[t] = "store_data"
  /\ file[node[t]] # "absent"
  /\ DataStoreMayFail
  /\ f_data' = [f_data EXCEPT ![node[t]][rec_id[t] - 1] = Lost]
  /\ Goto(t, "advance")
  /\ UNCHANGED <<cacheVars, file, f_hdr, bootVars, node, msg, rec_id, added,
                 restarts>>

\* It fails with a report, and with it the request.
add_store_data_fails(t) ==
  /\ pc[t] = "store_data"
  /\ DataStoreMayFail \/ file[node[t]] = "absent"
  /\ Goto(t, "idle")
  /\ UNCHANGED <<cacheVars, fileVars, bootVars, node, msg, rec_id, added,
                 restarts>>

\* The record becomes part of the log.
add_advance(t) ==
  /\ pc[t] = "advance"
  /\ g_sel_hdr' = [g_sel_hdr EXCEPT ![node[t]].end = Incr(@)]
  /\ Goto(t, "store_hdr")
  /\ UNCHANGED <<g_sel_data, g_rsv_id, fileVars, bootVars, node, msg, rec_id,
                 added, restarts>>

\* file_store_sel_hdr, the end of sel_add_entry and of sel_erase.
store_hdr(t) ==
  /\ pc[t] = "store_hdr"
  /\ \/ /\ file[node[t]] # "absent"
        /\ f_hdr' = [f_hdr EXCEPT ![node[t]] = g_sel_hdr[node[t]]]
     \/ /\ HdrStoreMayFail \/ file[node[t]] = "absent"
        /\ UNCHANGED f_hdr
  /\ Goto(t, "idle")
  /\ UNCHANGED <<cacheVars, file, f_data, bootVars, node, msg, rec_id, added,
                 restarts>>

\* sel_rsv_id: "if (g_rsv_id[node]++ == SEL_RSVID_MAX) g_rsv_id = MIN".
sel_rsv_id(n) ==
  /\ Up
  /\ pc[StorageThread] = "idle"
  /\ g_rsv_id' = [g_rsv_id EXCEPT ![n] =
                    IF @ = SEL_RSVID_MAX THEN SEL_RSVID_MIN ELSE @ + 1]
  /\ UNCHANGED <<g_sel_hdr, g_sel_data, fileVars, bootVars, threadVars, added,
                 restarts>>

\* sel_erase with the current reservation; with another one it does nothing.
sel_erase(n, rsv_id) ==
  /\ Up
  /\ pc[StorageThread] = "idle"
  /\ rsv_id = g_rsv_id[n]
  /\ g_sel_hdr' = [g_sel_hdr EXCEPT ![n] = EmptyHdr]
  /\ node' = [node EXCEPT ![StorageThread] = n]
  /\ Goto(StorageThread, "store_hdr")
  /\ UNCHANGED <<g_sel_data, g_rsv_id, fileVars, bootVars, msg, rec_id, added,
                 restarts>>

-----------------------------------------------------------------------------
sel_init ==
  \/ node_init_load
  \/ node_init_fails
  \/ node_init_create
  \/ node_init_fill
  \/ node_init_fill_fails

AddStep(t) ==
  \/ \E n \in Node : add_make_room(t, n)
  \/ add_copy(t)
  \/ add_parse(t)
  \/ add_store_data(t)
  \/ add_store_data_lost(t)
  \/ add_store_data_fails(t)
  \/ add_advance(t)
  \/ store_hdr(t)

Next ==
  \/ sel_init
  \/ Restart
  \/ \E t \in Thread : AddStep(t)
  \/ \E n \in Node : sel_rsv_id(n)
  \/ \E n \in Node, rsv_id \in 0 .. SEL_RSVID_MAX : sel_erase(n, rsv_id)

Spec == Init /\ [][Next]_vars

-----------------------------------------------------------------------------
(***************************************************************************)
(* Properties of a log that one thread at a time works on.                  *)
(***************************************************************************)

Loaded(n) == boot > n

\* sel_add_entry never writes to a slot of the file that the header in the
\* file counts as a record.  The ring has one slot more than records, so until
\* the new header is stored a restart finds the old log as it was.
SavedRecordsKept ==
  \A t \in Thread :
    pc[t] = "store_data" => (rec_id[t] - 1) \notin Live(f_hdr[node[t]])

\* The log that sel_get_entry reads has its records in the order they were
\* added, none twice and no blank one, through failed and lost writes of records
\* and restarts (writes of headers succeed).  A slot whose write was lost shows
\* something else after a restart; the order of the others is as it was.
LogInOrder ==
  \A n \in Node :
    LET c == Contents(g_sel_hdr[n], g_sel_data[n])
        R == {i \in DOMAIN c : c[i] # Lost}
    IN \A i, j \in R : c[i] # Blank /\ (i < j => c[i].id < c[j].id)

LogOf(n) ==
  IF Loaded(n) THEN Contents(g_sel_hdr[n], g_sel_data[n])
               ELSE Contents(f_hdr[n], f_data[n])

\* What the file has in the slots of the log that is read.
StoredOf(n) ==
  IF Loaded(n) THEN Contents(g_sel_hdr[n], f_data[n])
               ELSE Contents(f_hdr[n], f_data[n])

\* The nodes do not share anything but sel_init; the mapping is for the first.
Log == INSTANCE SelLog WITH
  log <- LogOf(1), stored <- StoredOf(1), saved <- Contents(f_hdr[1], f_data[1]),
  adding <- /\ pc[StorageThread] \in {"copy", "parse", "store_data", "advance"}
            /\ node[StorageThread] = 1,
  Max <- SEL_RECORDS_MAX

\* The SEL is a bounded log with a saved copy, with restarts at any point of
\* sel_add_entry, sel_erase and sel_init and with failed and lost writes of
\* records.  A record is stored once, when it is added, with its time stamp or
\* the one of parse_sel, or is lost then; nothing that happens later changes,
\* reorders or revives what is stored, and adding a record costs the oldest one
\* at most.
ImplementsLog == Log!LogSpec

\* A walk through the log: it begins with FIRST and goes on with the id each
\* sel_get_entry names, to the LAST or an error.
WalkId(n) ==
  LET id[k \in 1 .. SEL_INDEX_MAX + 2] ==
        IF k = 1 THEN FIRST
        ELSE LET r == id[k - 1]
                 e == sel_get_entry(n, r)
             IN IF r = LAST \/ ~e.ok THEN LAST ELSE e.next
  IN id

\* The walk reads every record once, oldest first, and ends.
WalkIsComplete(n) ==
  LET h == g_sel_hdr[n]
      id == WalkId(n)
  IN /\ \A k \in 1 .. NumEntries(h) :
          /\ id[k] # LAST
          /\ LET e == sel_get_entry(n, id[k])
             IN e.ok /\ e.index = Position(h, k)
     /\ id[NumEntries(h) + 1] = LAST


(***************************************************************************)
(* What comments in sel.c say and the code does not do.                     *)
(***************************************************************************)

\* "Return the newly added record ID".  Two records would not get the same id
\* while both are being added.
NewIdIsNew ==
  \A t, u \in Thread :
    /\ t # u
    /\ {pc[t], pc[u]} \subseteq {"parse", "store_data", "advance"}
    /\ node[t] = node[u]
    => rec_id[t] # rec_id[u]
=============================================================================
