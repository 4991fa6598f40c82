------------------------------ MODULE KvProofs ------------------------------
(***************************************************************************)
(* Proofs about the key-value store, for all sets of processes, files and   *)
(* values.  The invariant ties the lock of a file to the calls that are     *)
(* between flock and the destructor of FileHandle, in both directions.      *)
(***************************************************************************)
EXTENDS Kv, TLAPS

\* The calls that have the lock of their file.
LockedPc == {"set_check", "set_write", "get_read"}

HolderWorks ==
  \A i \in Inode : holder[i] # Nobody =>
    op[holder[i]].fd = i /\ op[holder[i]].pc \in LockedPc

WorkerHolds ==
  \A p \in Proc : op[p].pc \in LockedPc => holder[op[p].fd] = p

SetsValue == \A p \in Proc : op[p].pc \in SetPc => op[p].val \in Val

KInv == TypeOK /\ HolderWorks /\ WorkerHolds /\ SetsValue

\* What a step of p leaves alone in the call of another process.
SameCall(q) ==
  /\ op'[q].pc = op[q].pc
  /\ op'[q].fd = op[q].fd
  /\ op'[q].val = op[q].val

LEMMA IdleCall == Idle \in Call
  BY DEF Idle, Call, Outcome, Bytes, SetPc, DelPc, GetPc

LEMMA KvInit == Init => KInv
<1> SUFFICES ASSUME Init PROVE KInv
  OBVIOUS
<1>1. TypeOK
  BY IdleCall DEF Init, TypeOK, Outcome, Bytes, Idle, SetPc, GetPc
<1>2. HolderWorks /\ WorkerHolds /\ SetsValue
  BY DEF Init, HolderWorks, WorkerHolds, SetsValue, LockedPc, SetPc, Idle
<1> QED BY <1>1, <1>2 DEF KInv

\* The history keeps its type.
LEMMA MayBeKeeps ==
  ASSUME TypeOK, NEW S \in SUBSET Outcome, MayBe(S)
  PROVE  may' \subseteq Outcome /\ window' \in [Proc -> SUBSET Outcome]
  BY DEF TypeOK, MayBe

\* A process that has no lock before and after its step changes none.
LEMMA Unlocked ==
  ASSUME KInv, op' \in [Proc -> Call], NEW p \in Proc,
         op[p].pc \notin LockedPc, op'[p].pc \notin LockedPc,
         \A q \in Proc \ {p} : SameCall(q), UNCHANGED holder
  PROVE  HolderWorks' /\ WorkerHolds'
<1>1. \A i \in Inode : holder[i] # p
  BY KvAssumption DEF KInv, HolderWorks, Proc
<1>2. HolderWorks'
  BY <1>1 DEF KInv, HolderWorks, SameCall, TypeOK
<1>3. WorkerHolds'
  BY DEF KInv, WorkerHolds, SameCall
<1> QED BY <1>2, <1>3

\* Nor does one that stays between flock and the destructor.
LEMMA StaysLocked ==
  ASSUME KInv, op' \in [Proc -> Call], NEW p \in Proc,
         op[p].pc \in LockedPc, op'[p].pc \in LockedPc,
         op'[p].fd = op[p].fd,
         \A q \in Proc \ {p} : SameCall(q), UNCHANGED holder
  PROVE  HolderWorks' /\ WorkerHolds'
<1>1. HolderWorks'
  BY DEF KInv, HolderWorks, SameCall, TypeOK
<1>2. WorkerHolds'
  BY DEF KInv, WorkerHolds, SameCall
<1> QED BY <1>1, <1>2

\* The destructor gives back the lock of its own process and no other.
LEMMA Released ==
  ASSUME KInv, op' \in [Proc -> Call], NEW p \in Proc,
         op'[p].pc \notin LockedPc,
         \A q \in Proc \ {p} : SameCall(q), Close(p)
  PROVE  /\ holder' \in [Inode -> Proc \union {Nobody}]
         /\ HolderWorks' /\ WorkerHolds'
<1> USE DEF Close
<1>1. holder' \in [Inode -> Proc \union {Nobody}]
  BY DEF KInv, TypeOK
<1>2. HolderWorks'
  BY KvAssumption DEF KInv, HolderWorks, SameCall, TypeOK
<1>3. WorkerHolds'
  <2> SUFFICES ASSUME NEW q \in Proc, op'[q].pc \in LockedPc
               PROVE  holder'[op'[q].fd] = q
    BY DEF WorkerHolds
  <2>1. q # p /\ op[q].pc \in LockedPc /\ op'[q].fd = op[q].fd
    BY DEF SameCall
  <2>2. holder[op[q].fd] = q /\ op[q].fd \in Inode
    BY <2>1 DEF KInv, WorkerHolds, TypeOK, LockedPc, SetPc, GetPc
  <2> QED BY <2>1, <2>2
<1> QED BY <1>1, <1>2, <1>3

\* flock is granted to one process at a time.
LEMMA FlockKeeps ==
  ASSUME KInv, NEW p \in Proc, NEW l \in LockedPc, Flock(p, l),
         op[p].pc \in {"set_lock", "get_lock"},
         op[p].pc = "get_lock" => l = "get_read"
  PROVE  KInv'
<1> USE DEF Flock, Goto
<1>0. op[p].fd \in Inode /\ op[p].pc \notin LockedPc
  BY DEF KInv, TypeOK, SetPc, GetPc, LockedPc
<1>1. op' = [op EXCEPT ![p].pc = l] /\ op[p] \in Call
  BY DEF KInv, TypeOK
<1>2. op' \in [Proc -> Call]
  BY <1>1 DEF KInv, TypeOK, Call, LockedPc, SetPc, GetPc
<1>3. /\ op'[p].pc = l /\ op'[p].fd = op[p].fd /\ op'[p].val = op[p].val
      /\ \A q \in Proc \ {p} : SameCall(q)
  BY <1>1 DEF KInv, TypeOK, Call, SameCall
<1>4. TypeOK'
  BY <1>0, <1>2, <1>3 DEF KInv, TypeOK, hist, SameCall, SetPc, GetPc
<1>5. HolderWorks'
  <2>1. \A i \in Inode : holder[i] # p
    BY <1>0, KvAssumption DEF KInv, HolderWorks, Proc
  <2> QED BY <1>0, <1>3, <2>1 DEF KInv, HolderWorks, SameCall, TypeOK
<1>6. WorkerHolds'
  <2> SUFFICES ASSUME NEW q \in Proc, op'[q].pc \in LockedPc
               PROVE  holder'[op'[q].fd] = q
    BY DEF WorkerHolds
  <2>1. CASE q = p
    BY <1>0, <1>3, <2>1 DEF KInv, TypeOK
  <2>2. CASE q # p
    <3>1. op'[q].fd = op[q].fd /\ op[q].pc \in LockedPc
      BY <1>3, <2>2 DEF SameCall
    <3>2. holder[op[q].fd] = q
      BY <3>1 DEF KInv, WorkerHolds
    <3>3. op[q].fd # op[p].fd
      BY <3>2, KvAssumption DEF Proc
    <3> QED BY <1>0, <3>1, <3>2, <3>3 DEF KInv, TypeOK
  <2> QED BY <2>1, <2>2
<1>7. SetsValue'
  BY <1>3 DEF KInv, SetsValue, SameCall, SetPc, LockedPc
<1> QED BY <1>4, <1>5, <1>6, <1>7 DEF KInv

\* A process whose call ends keeps no lock, and the others go on.
LEMMA IdleAfter ==
  ASSUME KInv, NEW p \in Proc, op' = [op EXCEPT ![p] = Idle]
  PROVE  /\ op' \in [Proc -> Call]
         /\ op'[p] = Idle /\ op'[p].pc = "idle" /\ op'[p].pc \notin LockedPc
         /\ \A q \in Proc \ {p} : SameCall(q)
         /\ SetsValue'
         /\ \A q \in Proc : op'[q].pc \in (SetPc \ {"set_open"}) \union GetPc
                              => op'[q].fd \in Inode
<1>1. op' \in [Proc -> Call] /\ op'[p] = Idle
  BY IdleCall DEF KInv, TypeOK
<1>2. op'[p].pc = "idle"
  BY <1>1 DEF Idle
<1>3. \A q \in Proc \ {p} : SameCall(q)
  BY DEF KInv, TypeOK, SameCall
<1>4. SetsValue'
  BY <1>2, <1>3 DEF KInv, SetsValue, SameCall, SetPc
<1>5. \A q \in Proc : op'[q].pc \in (SetPc \ {"set_open"}) \union GetPc
                        => op'[q].fd \in Inode
  BY <1>2, <1>3 DEF KInv, TypeOK, SameCall, SetPc, GetPc
<1> QED BY <1>1, <1>2, <1>3, <1>4, <1>5 DEF LockedPc

\* A set or delete begins.
LEMMA BeginKeeps ==
  ASSUME KInv, NEW p \in Proc, op[p].pc = "idle", NEW call \in Call,
         call.pc \in {"set_open"} \union DelPc,
         call.pc = "set_open" => call.val \in Val,
         Begin(p, call), UNCHANGED <<path, content, holder>>
  PROVE  KInv'
<1> DEFINE new == [call EXCEPT !.was = may, !.alone = \A r \in Proc : ~Writing(r)]
<1>1. new \in Call /\ new.pc = call.pc /\ new.val = call.val
  BY DEF Call, KInv, TypeOK
<1>2. op' = [q \in Proc |-> IF q = p THEN new ELSE [op[q] EXCEPT !.alone = FALSE]]
  BY DEF Begin
<1>3. \A q \in Proc : op[q] \in Call /\ [op[q] EXCEPT !.alone = FALSE] \in Call
  BY DEF KInv, TypeOK, Call
<1>4. op' \in [Proc -> Call] /\ op'[p] = new
  BY <1>1, <1>2, <1>3
<1>5. \A q \in Proc \ {p} : SameCall(q)
  BY <1>2, <1>3 DEF SameCall, Call
<1>6. may' \subseteq Outcome /\ window' \in [Proc -> SUBSET Outcome]
  <2>1. /\ MayBe(may \union {call.val})
        /\ may \union {call.val} \in SUBSET Outcome
    BY DEF Begin, KInv, TypeOK, Call
  <2> QED BY <2>1, MayBeKeeps DEF KInv
<1>7. TypeOK'
  BY <1>1, <1>4, <1>5, <1>6 DEF KInv, TypeOK, SameCall, SetPc, GetPc, DelPc
<1>8. HolderWorks' /\ WorkerHolds'
  <2>1. op[p].pc \notin LockedPc /\ op'[p].pc \notin LockedPc
    BY <1>1, <1>4 DEF LockedPc, DelPc
  <2> QED BY <1>4, <1>5, <2>1, Unlocked
<1>9. SetsValue'
  BY <1>1, <1>4, <1>5 DEF KInv, SetsValue, SameCall, SetPc, DelPc
<1> QED BY <1>7, <1>8, <1>9 DEF KInv

\* A set opens its file.
LEMMA OpenKeeps ==
  ASSUME KInv, NEW p \in Proc, op[p].pc = "set_open", NEW i \in Inode,
         op' = [op EXCEPT ![p].pc = "set_lock", ![p].fd = i],
         path' \in Inode, content' \in [Inode -> Bytes],
         UNCHANGED <<holder, hist>>
  PROVE  KInv'
<1>1. op[p] \in Call
  BY DEF KInv, TypeOK
<1>2. op' \in [Proc -> Call]
  BY <1>1 DEF KInv, TypeOK, Call, SetPc
<1>3. /\ op'[p].pc = "set_lock" /\ op'[p].fd = i /\ op'[p].val = op[p].val
      /\ \A q \in Proc \ {p} : SameCall(q)
  BY <1>1 DEF KInv, TypeOK, Call, SameCall
<1>4. TypeOK'
  BY <1>2, <1>3 DEF KInv, TypeOK, hist, SameCall
<1>5. HolderWorks' /\ WorkerHolds'
  <2>1. op[p].pc \notin LockedPc /\ op'[p].pc \notin LockedPc
    BY <1>3 DEF LockedPc
  <2> QED BY <1>2, <1>3, <2>1, Unlocked
<1>6. SetsValue'
  BY <1>3 DEF KInv, SetsValue, SameCall, SetPc
<1> QED BY <1>4, <1>5, <1>6 DEF KInv

\* A set or delete that is over, with or without a lock to give back.
LEMMA SettleKeeps ==
  ASSUME KInv, NEW p \in Proc, NEW left \in SUBSET Outcome, Settle(p, left),
         path' \in Inode \union {NoFile},
         content' \in [Inode -> Bytes],
         Close(p) \/ (op[p].pc \notin LockedPc /\ UNCHANGED holder)
  PROVE  KInv'
<1>1. op' = [op EXCEPT ![p] = Idle]
  BY DEF Settle
<1>2. may' \subseteq Outcome /\ window' \in [Proc -> SUBSET Outcome]
  <2> DEFINE S == IF op[p].alone THEN left ELSE may
  <2>1. S \in SUBSET Outcome /\ MayBe(S)
    BY DEF Settle, KInv, TypeOK
  <2> QED BY <2>1, MayBeKeeps DEF KInv
<1>3. /\ holder' \in [Inode -> Proc \union {Nobody}]
      /\ HolderWorks' /\ WorkerHolds'
  <2>1. CASE Close(p)
    BY <1>1, <2>1, IdleAfter, Released
  <2>2. CASE op[p].pc \notin LockedPc /\ UNCHANGED holder
    BY <1>1, <2>2, IdleAfter, Unlocked DEF KInv, TypeOK
  <2> QED BY <2>1, <2>2
<1>4. TypeOK' /\ SetsValue'
  BY <1>1, <1>2, <1>3, IdleAfter DEF TypeOK
<1> QED BY <1>3, <1>4 DEF KInv

\* What a call may find in its file, and what a set may leave there.
LEMMA Written ==
  ASSUME KInv, NEW p \in Proc, op[p].pc \in {"set_check", "set_write", "set_close"}
  PROVE  /\ op[p].fd \in Inode /\ op[p].val \in Val
         /\ content[op[p].fd] \in Bytes
         /\ \A c \in {content[op[p].fd], op[p].val, Empty, Garbled} :
              [content EXCEPT ![op[p].fd] = c] \in [Inode -> Bytes]
         /\ op[p].was \subseteq Outcome
         /\ {op[p].val, Empty, Garbled} \subseteq Outcome
<1>1. op[p].fd \in Inode /\ op[p].val \in Val
  BY DEF KInv, TypeOK, SetsValue, SetPc
<1>2. op[p] \in Call
  BY DEF KInv, TypeOK
<1> QED BY <1>1, <1>2 DEF KInv, TypeOK, Call, Outcome, Bytes

\* Each step of a set keeps the invariant.
LEMMA SetKeeps == ASSUME KInv, NEW p \in Proc, set(p) PROVE KInv'
<1>0. /\ op[p] \in Call /\ path \in Inode \union {NoFile}
      /\ content \in [Inode -> Bytes]
  BY DEF KInv, TypeOK
<1>1. ASSUME NEW v \in Val, NEW c \in BOOLEAN, set_exists(p, v, c) PROVE KInv'
  <2> DEFINE call == [Idle EXCEPT !.pc = "set_open", !.present = (path # NoFile),
                                  !.create = c, !.val = v]
  <2>1. call \in Call /\ call.pc = "set_open" /\ call.val = v
    BY DEF Idle, Call, SetPc, Outcome, Bytes
  <2>2. /\ op[p].pc = "idle" /\ Begin(p, call)
        /\ UNCHANGED <<path, content, holder>>
    BY <1>1 DEF set_exists
  <2> HIDE DEF call
  <2> QED BY <2>1, <2>2, BeginKeeps
<1>2. CASE set_open_present(p)
  <2>1. CASE path # NoFile /\ op' = [op EXCEPT ![p].pc = "set_lock", ![p].fd = path]
             /\ UNCHANGED hist
    <3>1. path \in Inode
      BY <1>0, <2>1
    <3> QED BY <1>0, <1>2, <2>1, <3>1, OpenKeeps DEF set_open_present
  <2>2. CASE path = NoFile /\ Settle(p, op[p].was)
    <3>1. op[p].was \in SUBSET Outcome /\ op[p].pc \notin LockedPc
      BY <1>0, <1>2 DEF Call, set_open_present, LockedPc
    <3>2. UNCHANGED <<path, content, holder>>
      BY <1>2 DEF set_open_present
    <3> QED BY <1>0, <2>2, <3>1, <3>2, SettleKeeps
  <2> QED BY <1>2, <2>1, <2>2 DEF set_open_present
<1>3. CASE set_open_creates(p)
  <2>1. PICK i \in Inode :
          /\ path' = i
          /\ content' = [content EXCEPT ![i] = Empty]
          /\ op' = [op EXCEPT ![p].pc = "set_lock", ![p].fd = i]
    BY <1>3 DEF set_open_creates
  <2>2. content' \in [Inode -> Bytes]
    BY <1>0, <2>1 DEF Bytes
  <2> QED BY <1>3, <2>1, <2>2, OpenKeeps DEF set_open_creates
<1>4. CASE set_open_truncates(p)
  <2>1. path \in Inode
    BY <1>0, <1>4 DEF set_open_truncates
  <2>2. content' \in [Inode -> Bytes]
    BY <1>0, <1>4 DEF set_open_truncates, Bytes
  <2> QED BY <1>4, <2>1, <2>2, OpenKeeps DEF set_open_truncates
<1>5. CASE set_flock(p)
  BY <1>5, FlockKeeps DEF set_flock, LockedPc
<1>6. CASE set_refused(p)
  <2> DEFINE left == IF Exists(p) THEN op[p].was ELSE {op[p].val}
  <2>1. left \in SUBSET Outcome
    BY <1>6, Written DEF set_refused
  <2>2. Settle(p, left) /\ Close(p) /\ UNCHANGED <<path, content>>
    BY <1>6 DEF set_refused
  <2> QED BY <1>0, <2>1, <2>2, SettleKeeps
<1>7. CASE set_truncate(p)
  <2>1. /\ op[p].pc = "set_check" /\ op' = [op EXCEPT ![p].pc = "set_write"]
        /\ UNCHANGED <<path, holder, hist>>
        /\ content' \in [Inode -> Bytes]
    BY <1>7, Written DEF set_truncate, Goto
  <2>2. op' \in [Proc -> Call]
    BY <1>0, <2>1 DEF KInv, TypeOK, Call, SetPc
  <2>3. /\ op'[p].pc = "set_write" /\ op'[p].fd = op[p].fd
        /\ op'[p].val = op[p].val /\ \A q \in Proc \ {p} : SameCall(q)
    BY <1>0, <2>1 DEF KInv, TypeOK, Call, SameCall
  <2>4. TypeOK'
    BY <2>1, <2>2, <2>3 DEF KInv, TypeOK, hist, SameCall, SetPc
  <2>5. op[p].pc \in LockedPc /\ op'[p].pc \in LockedPc
    BY <2>1, <2>3 DEF LockedPc
  <2>6. HolderWorks' /\ WorkerHolds'
    BY <2>1, <2>2, <2>3, <2>5, StaysLocked
  <2>7. SetsValue'
    BY <2>1, <2>3 DEF KInv, SetsValue, SameCall, SetPc
  <2> QED BY <2>4, <2>6, <2>7 DEF KInv
<1>8. CASE set_write(p)
  <2>1. {op[p].val} \in SUBSET Outcome /\ content' \in [Inode -> Bytes]
    <3>1. PICK c \in {op[p].val, Garbled} : content' = [content EXCEPT ![op[p].fd] = c]
      BY <1>8 DEF set_write
    <3> QED BY <1>8, <3>1, Written DEF set_write
  <2> QED BY <1>0, <1>8, <2>1, SettleKeeps DEF set_write
<1>9. CASE set_write_fails(p)
  <2>1. /\ op[p].pc = "set_write" /\ op' = [op EXCEPT ![p].pc = "set_close"]
        /\ path' = path /\ Close(p) /\ MayBe(may \union {Empty, Garbled})
    BY <1>9 DEF set_write_fails, Goto
  <2>0. content' \in [Inode -> Bytes]
    <3>1. PICK c \in {content[op[p].fd], Garbled} :
            content' = [content EXCEPT ![op[p].fd] = c]
      BY <1>9 DEF set_write_fails
    <3> QED BY <2>1, <3>1, Written
  <2>2. op' \in [Proc -> Call]
    BY <1>0, <2>1 DEF KInv, TypeOK, Call, SetPc
  <2>3. /\ op'[p].pc = "set_close" /\ op'[p].fd = op[p].fd
        /\ op'[p].val = op[p].val /\ \A q \in Proc \ {p} : SameCall(q)
    BY <1>0, <2>1 DEF KInv, TypeOK, Call, SameCall
  <2>4. op'[p].pc \notin LockedPc
    BY <2>3 DEF LockedPc
  <2>5. /\ holder' \in [Inode -> Proc \union {Nobody}]
        /\ HolderWorks' /\ WorkerHolds'
    BY <2>1, <2>2, <2>3, <2>4, Released
  <2>6. may \union {Empty, Garbled} \in SUBSET Outcome
    BY DEF KInv, TypeOK, Outcome, Bytes
  <2>7. may' \subseteq Outcome /\ window' \in [Proc -> SUBSET Outcome]
    BY <2>1, <2>6, MayBeKeeps DEF KInv
  <2>8. TypeOK'
    BY <2>0, <2>1, <2>2, <2>3, <2>5, <2>7 DEF KInv, TypeOK, SameCall, SetPc
  <2>9. SetsValue'
    BY <2>1, <2>3 DEF KInv, SetsValue, SameCall, SetPc
  <2> QED BY <2>5, <2>8, <2>9 DEF KInv
<1>10. CASE set_close(p)
  <2>1. /\ {op[p].val, Empty, Garbled} \in SUBSET Outcome
        /\ content' \in [Inode -> Bytes]
    <3>1. PICK c \in {content[op[p].fd], op[p].val, Garbled} :
            content' = [content EXCEPT ![op[p].fd] = c]
      BY <1>10 DEF set_close
    <3> QED BY <1>10, <3>1, Written DEF set_close
  <2>2. op[p].pc \notin LockedPc
    BY <1>10 DEF set_close, LockedPc
  <2> QED BY <1>0, <1>10, <2>1, <2>2, SettleKeeps DEF set_close
<1> QED BY <1>1, <1>2, <1>3, <1>4, <1>5, <1>6, <1>7, <1>8, <1>9, <1>10 DEF set

LEMMA GetKeeps == ASSUME KInv, NEW p \in Proc, get(p) PROVE KInv'
<1>1. CASE get_open(p)
  <2> DEFINE new == [Idle EXCEPT !.pc = "get_lock", !.fd = path]
  <2>1. /\ path \in Inode /\ op[p].pc = "idle" /\ op' = [op EXCEPT ![p] = new]
        /\ UNCHANGED <<path, content, holder, may>>
        /\ window' = [window EXCEPT ![p] = may]
    BY <1>1 DEF get_open, KInv, TypeOK
  <2>2. new \in Call /\ new.pc = "get_lock" /\ new.fd = path
    BY <2>1 DEF Idle, Call, GetPc, Outcome, Bytes
  <2>3. op' \in [Proc -> Call] /\ op'[p] = new
    BY <2>1, <2>2 DEF KInv, TypeOK
  <2>4. \A q \in Proc \ {p} : SameCall(q)
    BY <2>1 DEF KInv, TypeOK, SameCall
  <2>5. TypeOK'
    BY <2>1, <2>2, <2>3, <2>4 DEF KInv, TypeOK, SameCall
  <2>6. HolderWorks' /\ WorkerHolds'
    <3>1. op[p].pc \notin LockedPc /\ op'[p].pc \notin LockedPc
      BY <2>1, <2>2, <2>3 DEF LockedPc
    <3> QED BY <2>1, <2>3, <2>4, <3>1, Unlocked
  <2>7. SetsValue'
    BY <2>2, <2>3, <2>4 DEF KInv, SetsValue, SameCall, SetPc
  <2> QED BY <2>5, <2>6, <2>7 DEF KInv
<1>2. CASE get_flock(p)
  BY <1>2, FlockKeeps DEF get_flock, LockedPc
<1>3. CASE get_read(p)
  <2>1. /\ op' = [op EXCEPT ![p] = Idle] /\ Close(p)
        /\ UNCHANGED <<path, content, may>> /\ window' = [window EXCEPT ![p] = {}]
    BY <1>3 DEF get_read
  <2>2. /\ holder' \in [Inode -> Proc \union {Nobody}]
        /\ HolderWorks' /\ WorkerHolds'
    BY <2>1, IdleAfter, Released
  <2>3. TypeOK' /\ SetsValue'
    BY <2>1, <2>2, IdleAfter DEF KInv, TypeOK
  <2> QED BY <2>2, <2>3 DEF KInv
<1> QED BY <1>1, <1>2, <1>3 DEF get

LEMMA DelKeeps == ASSUME KInv, NEW p \in Proc, del(p) PROVE KInv'
<1>1. CASE del_exists(p)
  <2> DEFINE call == [Idle EXCEPT !.pc = IF path # NoFile THEN "del_remove"
                                                         ELSE "del_search"]
  <2>1. call \in Call /\ call.pc \in DelPc /\ call.pc # "set_open"
    BY DEF Idle, Call, DelPc, Outcome, Bytes
  <2>2. /\ op[p].pc = "idle" /\ Begin(p, call)
        /\ UNCHANGED <<path, content, holder>>
    BY <1>1 DEF del_exists
  <2> HIDE DEF call
  <2> QED BY <2>1, <2>2, BeginKeeps
<1>2. CASE del_remove(p)
  <2>1. {NoFile} \in SUBSET Outcome /\ op[p].pc \notin LockedPc
    BY <1>2 DEF del_remove, Outcome, DelPc, LockedPc
  <2>2. /\ Settle(p, {NoFile}) /\ path' = NoFile /\ UNCHANGED <<content, holder>>
        /\ content \in [Inode -> Bytes]
    BY <1>2 DEF del_remove, KInv, TypeOK
  <2> QED BY <2>1, <2>2, SettleKeeps
<1> QED BY <1>1, <1>2 DEF del

LEMMA CrashKeeps == ASSUME KInv, NEW p \in Proc, Crash(p) PROVE KInv'
<1>1. op' = [op EXCEPT ![p] = Idle] /\ Close(p) /\ UNCHANGED <<path, content>>
  BY DEF Crash
<1>2. /\ holder' \in [Inode -> Proc \union {Nobody}]
      /\ HolderWorks' /\ WorkerHolds'
  BY <1>1, IdleAfter, Released
<1>3. may' \subseteq Outcome /\ window' \in [Proc -> SUBSET Outcome]
  <2>1. CASE MayBe(may \union {Empty})
    <3>1. may \union {Empty} \in SUBSET Outcome
      BY DEF KInv, TypeOK, Outcome, Bytes
    <3> QED BY <2>1, <3>1, MayBeKeeps DEF KInv
  <2>2. CASE window' = [window EXCEPT ![p] = {}] /\ UNCHANGED may
    BY <2>2 DEF KInv, TypeOK
  <2> QED BY <2>1, <2>2 DEF Crash
<1>4. TypeOK' /\ SetsValue'
  BY <1>1, <1>2, <1>3, IdleAfter DEF KInv, TypeOK
<1> QED BY <1>2, <1>4 DEF KInv

LEMMA CrashWritingKeeps ==
  ASSUME KInv, NEW p \in Proc, CrashWriting(p) PROVE KInv'
<1>1. /\ op' = [op EXCEPT ![p] = Idle] /\ Close(p) /\ path' = path
      /\ op[p].pc \in {"set_check", "set_write", "set_close"}
      /\ MayBe(may \union {Empty, Garbled})
  BY DEF CrashWriting
<1>2. /\ holder' \in [Inode -> Proc \union {Nobody}]
      /\ HolderWorks' /\ WorkerHolds'
  BY <1>1, IdleAfter, Released
<1>3. may' \subseteq Outcome /\ window' \in [Proc -> SUBSET Outcome]
  <2>1. may \union {Empty, Garbled} \in SUBSET Outcome
    BY DEF KInv, TypeOK, Outcome, Bytes
  <2> QED BY <1>1, <2>1, MayBeKeeps DEF KInv
<1>4. content' \in [Inode -> Bytes]
  <2>1. PICK c \in {content[op[p].fd], Garbled} :
          content' = [content EXCEPT ![op[p].fd] = c]
    BY DEF CrashWriting
  <2> QED BY <1>1, <2>1, Written
<1>5. TypeOK' /\ SetsValue'
  BY <1>1, <1>2, <1>3, <1>4, IdleAfter DEF KInv, TypeOK
<1> QED BY <1>2, <1>5 DEF KInv

LEMMA KvInvariant == Spec => []KInv
<1>1. KInv /\ [Next]_vars => KInv'
  <2> SUFFICES ASSUME KInv, [Next]_vars PROVE KInv'
    OBVIOUS
  <2>1. CASE UNCHANGED vars
    BY <2>1 DEF vars, hist, KInv, TypeOK, HolderWorks, WorkerHolds, SetsValue
  <2>2. CASE Next
    BY <2>2, SetKeeps, GetKeeps, DelKeeps, CrashKeeps, CrashWritingKeeps DEF Next
  <2> QED BY <2>1, <2>2
<1> QED BY <1>1, KvInit, PTL DEF Spec

\* Every variable of the store stays in its range; a call past fopen has a
\* file.
THEOREM TypeCorrect == Spec => []TypeOK
<1>1. KInv => TypeOK
  BY DEF KInv
<1> QED BY <1>1, KvInvariant, PTL

\* A file is changed under its lock, but for the fopen that makes or empties it
\* and the late write of a set that failed.
THEOREM AlwaysUnderLock == Spec => WritesUnderLock
<1> DEFINE Changed(i) ==
      content'[i] # content[i] =>
        \E p \in Proc :
          /\ op'[p].pc # op[p].pc
          /\ \/ holder[i] = p
             \/ op[p].pc = "set_open" /\ ~op[p].present /\ path' = i
             \/ op[p].pc = "set_close" /\ op[p].fd = i
<1>1. ASSUME KInv, [Next]_vars, NEW i \in Inode PROVE Changed(i)
  <2>0. content \in [Inode -> Bytes]
    BY <1>1 DEF KInv, TypeOK
  <2>1. CASE content' = content
    BY <2>1
  <2>2. ASSUME NEW p \in Proc, set_open_creates(p) \/ set_open_truncates(p)
        PROVE  Changed(i)
    <3>1. PICK j : op' = [op EXCEPT ![p].pc = "set_lock", ![p].fd = j]
      BY <2>2 DEF set_open_creates, set_open_truncates
    <3>2. op[p] \in Call /\ op'[p].pc = "set_lock"
      BY <1>1, <3>1 DEF KInv, TypeOK, Call
    <3>3. content'[i] # content[i] => path' = i
      BY <2>0, <2>2 DEF set_open_creates, set_open_truncates
    <3> QED BY <2>2, <3>2, <3>3 DEF set_open_creates, set_open_truncates
  <2>3. ASSUME NEW p \in Proc,
               \/ set_truncate(p) \/ set_write(p) \/ set_write_fails(p)
               \/ set_close(p) \/ CrashWriting(p)
        PROVE  Changed(i)
    <3>1. op[p].pc \in {"set_check", "set_write", "set_close"}
      BY <2>3 DEF set_truncate, set_write, set_write_fails, set_close, CrashWriting
    <3>2. op[p].pc \in LockedPc \/ op[p].pc = "set_close"
      BY <3>1 DEF LockedPc
    <3>3. \E c : content' = [content EXCEPT ![op[p].fd] = c]
      BY <2>3 DEF set_truncate, set_write, set_write_fails, set_close, CrashWriting
    <3>4. content'[i] # content[i] => i = op[p].fd
      BY <2>0, <3>3
    <3>5. op'[p].pc # op[p].pc
      <4>1. \/ op' = [op EXCEPT ![p] = Idle]
            \/ op[p].pc = "set_check" /\ op' = [op EXCEPT ![p].pc = "set_write"]
            \/ op[p].pc = "set_write" /\ op' = [op EXCEPT ![p].pc = "set_close"]
        BY <2>3 DEF set_truncate, set_write, set_write_fails, set_close,
                    CrashWriting, Settle, Goto
      <4>2. op[p] \in Call /\ op \in [Proc -> Call]
        BY <1>1 DEF KInv, TypeOK
      <4> QED BY <3>1, <4>1, <4>2 DEF Call, Idle
    <3> QED BY <1>1, <3>2, <3>4, <3>5 DEF KInv, WorkerHolds
  <2>4. CASE UNCHANGED vars
    BY <2>4 DEF vars
  <2>5. CASE Next
    <3>1. PICK p \in Proc : set(p) \/ get(p) \/ del(p) \/ Crash(p) \/ CrashWriting(p)
      BY <2>5 DEF Next
    <3>2. \/ content' = content
          \/ set_open_creates(p) \/ set_open_truncates(p)
          \/ set_truncate(p) \/ set_write(p) \/ set_write_fails(p)
          \/ set_close(p) \/ CrashWriting(p)
      BY <3>1 DEF set, get, del, Crash, set_exists, set_open_present, set_flock,
                  set_refused, get_open, get_flock, get_read, Flock, del_exists,
                  del_remove
    <3> QED BY <2>1, <2>2, <2>3, <3>2
  <2> QED BY <1>1, <2>4, <2>5
<1> HIDE DEF Changed
<1>2. KInv /\ [Next]_vars => \A i \in Inode : Changed(i)
  BY <1>1
<1>3. KInv /\ [Next]_vars => [\A i \in Inode : Changed(i)]_vars
  BY <1>2
<1>4. Spec => [][\A i \in Inode : Changed(i)]_vars
  BY <1>3, KvInvariant, PTL DEF Spec
<1> QED BY <1>4 DEF Changed, WritesUnderLock

-----------------------------------------------------------------------------
(***************************************************************************)
(* What is stored and read.  A call that is alone knows its file: it is the *)
(* one with the name, and nobody else changes it.  Of calls that overlap it *)
(* is enough that the value of each is among the ones the key may have.     *)
(***************************************************************************)

Aloneness ==
  \A p, q \in Proc : op[p].alone /\ Writing(p) /\ Writing(q) => q = p

\* What a set that is alone knows of the file, at each point.
KnowsFile(p) ==
  /\ op[p].pc = "set_open" =>
       Stored \in op[p].was /\ (op[p].present => path # NoFile)
  /\ op[p].pc \in {"set_lock", "set_check"} =>
       op[p].fd = path /\ (op[p].present => Stored \in op[p].was)
  /\ op[p].pc = "set_write" => op[p].fd = path /\ content[op[p].fd] = Empty
  /\ op[p].pc = "set_close" =>
       op[p].fd = path /\ content[op[p].fd] \in {Empty, Garbled}

AloneFile == \A p \in Proc : op[p].alone => KnowsFile(p)

Promised ==
  \A p \in Proc : /\ Writing(p) => op[p].val \in may
                  /\ op[p].pc \in DelPc => op[p].val = NoFile

\* GetIsAllowed, from fopen on.
GetsAllowed ==
  \A p \in Proc : op[p].pc \in GetPc =>
    \/ content[op[p].fd] \in window[p]
    \/ content[op[p].fd] = Empty /\ \E q \in Proc : Fills(q, op[p].fd)

\* A late write is still to come, or has come between ftruncate and the write
\* of another set, only after a write that failed.
LateIsKnown ==
  \A p \in Proc : \/ op[p].pc = "set_close"
                  \/ op[p].pc = "set_write" /\ content[op[p].fd] # Empty
                  => Garbled \in may

HInv ==
  /\ Aloneness /\ AloneFile /\ Promised /\ LateIsKnown
  /\ StoredIsAllowed /\ GetsAllowed

LEMMA HistInit == Init => HInv
<1> SUFFICES ASSUME Init PROVE HInv
  OBVIOUS
<1>1. \A p \in Proc : op[p].pc = "idle" /\ ~op[p].alone /\ ~Writing(p)
  BY DEF Init, Idle, Writing, SetPc, DelPc
<1>2. Stored \in may
  BY DEF Init, Stored
<1> QED BY <1>1, <1>2 DEF HInv, Aloneness, AloneFile, Promised, LateIsKnown,
                         StoredIsAllowed, GetsAllowed, DelPc, GetPc

\* A set or delete begins: it is alone only if nobody else writes, and then
\* the key is in a known state.
LEMMA BeginAllowed ==
  ASSUME KInv, HInv, NEW p \in Proc, op[p].pc = "idle", NEW call \in Call,
         call.pc \in {"set_open"} \union DelPc,
         call.pc \in DelPc => call.val = NoFile,
         call.present => path # NoFile,
         Begin(p, call), UNCHANGED <<path, content>>
  PROVE  HInv'
<1>1. /\ op'[p].pc = call.pc /\ op'[p].val = call.val
      /\ op'[p].present = call.present /\ op'[p].was = may
      /\ op'[p].alone = \A r \in Proc : ~Writing(r)
  BY DEF Begin, Call
<1>2. \A q \in Proc \ {p} :
        /\ op'[q].pc = op[q].pc /\ op'[q].fd = op[q].fd
        /\ op'[q].val = op[q].val /\ op'[q].present = op[q].present
        /\ ~op'[q].alone
  <2> SUFFICES ASSUME NEW q \in Proc \ {p}
               PROVE  /\ op'[q].pc = op[q].pc /\ op'[q].fd = op[q].fd
                      /\ op'[q].val = op[q].val /\ op'[q].present = op[q].present
                      /\ ~op'[q].alone
    OBVIOUS
  <2>1. op[q] \in Call /\ op'[q] = [op[q] EXCEPT !.alone = FALSE]
    BY DEF KInv, TypeOK, Begin
  <2> QED BY <2>1 DEF Call
<1>3. /\ may' = may \union {call.val}
      /\ \A q \in Proc : op[q].pc \in GetPc => window[q] \subseteq window'[q]
  BY DEF Begin, MayBe
<1>4. /\ \A q \in Proc \ {p} : Writing(q)' <=> Writing(q)
      /\ \A q \in Proc, i \in Inode : Fills(q, i) => Fills(q, i)'
  BY <1>2 DEF Writing, Fills
<1>5. Aloneness'
  BY <1>1, <1>2, <1>4 DEF Aloneness
<1>6. AloneFile'
  <2> SUFFICES ASSUME op'[p].alone PROVE KnowsFile(p)'
    BY <1>2 DEF AloneFile
  <2>1. \A q \in Proc : ~Fills(q, path)
    BY <1>1 DEF Fills, Writing, SetPc
  <2>2. Stored \in may
    BY <2>1 DEF HInv, StoredIsAllowed
  <2>3. Stored' = Stored /\ path' = path
    BY DEF Stored
  <2> QED BY <1>1, <2>2, <2>3 DEF KnowsFile, DelPc
<1>7. Promised' /\ LateIsKnown'
  <2>1. Promised'
    BY <1>1, <1>2, <1>3, <1>4 DEF HInv, Promised
  <2>2. LateIsKnown'
    BY <1>1, <1>2, <1>3 DEF HInv, LateIsKnown, DelPc
  <2> QED BY <2>1, <2>2
<1>8. StoredIsAllowed'
  <2>1. Stored' = Stored /\ path' = path
    BY DEF Stored
  <2>2. CASE Stored \in may
    BY <1>3, <2>1, <2>2 DEF StoredIsAllowed
  <2>3. CASE Stored = Empty /\ \E q \in Proc : Fills(q, path)
    <3>1. path \in Inode
      BY <2>3, KvAssumption DEF Stored, KInv, TypeOK
    <3> QED BY <1>4, <2>1, <2>3, <3>1 DEF StoredIsAllowed
  <2> QED BY <2>2, <2>3 DEF HInv, StoredIsAllowed
<1>9. GetsAllowed'
  <2> SUFFICES ASSUME NEW q \in Proc, op'[q].pc \in GetPc
               PROVE  \/ content'[op'[q].fd] \in window'[q]
                      \/ /\ content'[op'[q].fd] = Empty
                         /\ \E r \in Proc : Fills(r, op[q].fd)'
                         /\ op'[q].fd = op[q].fd
    BY DEF GetsAllowed, Fills
  <2>1. q # p /\ op[q].pc \in GetPc /\ op'[q].fd = op[q].fd
    BY <1>1, <1>2 DEF GetPc, DelPc
  <2>2. op[q].fd \in Inode
    BY <2>1 DEF KInv, TypeOK
  <2> QED BY <1>3, <1>4, <2>1, <2>2 DEF HInv, GetsAllowed
<1> QED BY <1>5, <1>6, <1>7, <1>8, <1>9 DEF HInv

\* A set or delete is over.
LEMMA SettleAllowed ==
  ASSUME KInv, HInv, NEW p \in Proc, Writing(p), NEW left, Settle(p, left),
         \A i \in Inode : \/ content'[i] \in may'
                          \/ content'[i] = content[i] /\ ~Fills(p, i),
         \/ Stored' \in may'
         \/ /\ Stored' = Stored /\ path' = path
            /\ ~op[p].alone /\ ~Fills(p, path),
         \/ Garbled \in may
         \/ \A q \in Proc \ {p} : op[q].pc = "set_write"
                                => content'[op[q].fd] = content[op[q].fd]
  PROVE  HInv'
<1>1. /\ op'[p] = Idle
      /\ \A q \in Proc \ {p} : op'[q] = op[q]
      /\ may' = IF op[p].alone THEN left ELSE may
      /\ \A q \in Proc : op[q].pc \in GetPc
                           => window'[q] = window[q] \union may'
  BY DEF Settle, MayBe, KInv, TypeOK
<1>2. op'[p].pc = "idle" /\ ~op'[p].alone
  BY <1>1 DEF Idle
<1>3. /\ ~Writing(p)'
      /\ \A q \in Proc \ {p} : Writing(q)' <=> Writing(q)
      /\ \A q \in Proc \ {p}, i \in Inode : Fills(q, i)' <=> Fills(q, i)
  BY <1>1, <1>2 DEF Writing, Fills, SetPc, DelPc
<1>4. \A q \in Proc \ {p} : Writing(q) => ~op[p].alone /\ ~op[q].alone
  BY DEF HInv, Aloneness
<1>5. Aloneness'
  BY <1>1, <1>3, <1>4 DEF Aloneness
<1>6. AloneFile'
  BY <1>1, <1>2, <1>4 DEF AloneFile, KnowsFile, Writing, SetPc
<1>7. Promised' /\ LateIsKnown'
  <2>1. Promised'
    BY <1>1, <1>2, <1>3, <1>4 DEF HInv, Promised, DelPc
  <2>2. LateIsKnown'
    <3> SUFFICES ASSUME NEW q \in Proc,
                        \/ op'[q].pc = "set_close"
                        \/ op'[q].pc = "set_write" /\ content'[op'[q].fd] # Empty
                 PROVE  Garbled \in may'
      BY DEF LateIsKnown
    <3>1. q # p /\ op'[q] = op[q]
      BY <1>1, <1>2
    <3>2. Writing(q)
      BY <3>1 DEF Writing, SetPc
    <3>3. may' = may
      BY <1>1, <1>4, <3>1, <3>2
    <3> QED BY <3>1, <3>3 DEF HInv, LateIsKnown
  <2> QED BY <2>1, <2>2
<1>8. StoredIsAllowed'
  <2>1. CASE Stored' \in may'
    BY <2>1 DEF StoredIsAllowed
  <2>2. CASE Stored' = Stored /\ path' = path /\ ~op[p].alone /\ ~Fills(p, path)
    <3>1. CASE Stored \in may
      BY <1>1, <2>2, <3>1 DEF StoredIsAllowed
    <3>2. CASE Stored = Empty /\ \E q \in Proc : Fills(q, path)
      <4>1. path \in Inode
        BY <3>2, KvAssumption DEF Stored, KInv, TypeOK
      <4>2. PICK q \in Proc \ {p} : Fills(q, path)
        BY <2>2, <3>2
      <4>3. Fills(q, path)'
        BY <1>3, <2>2, <4>1, <4>2 DEF Fills
      <4> QED BY <2>2, <3>2, <4>3 DEF StoredIsAllowed
    <3> QED BY <3>1, <3>2 DEF HInv, StoredIsAllowed
  <2> QED BY <2>1, <2>2
<1>9. GetsAllowed'
  <2> SUFFICES ASSUME NEW q \in Proc, op'[q].pc \in GetPc
               PROVE  \/ content'[op[q].fd] \in window'[q] /\ op'[q].fd = op[q].fd
                      \/ /\ content'[op[q].fd] = Empty
                         /\ \E r \in Proc : Fills(r, op[q].fd)'
                         /\ op'[q].fd = op[q].fd
    BY DEF GetsAllowed, Fills
  <2>1. q # p /\ op'[q] = op[q] /\ op[q].pc \in GetPc
    BY <1>1, <1>2 DEF GetPc
  <2>2. op[q].fd \in Inode
    BY <2>1 DEF KInv, TypeOK
  <2>3. CASE content'[op[q].fd] \in may'
    BY <1>1, <2>1, <2>3
  <2>4. CASE content'[op[q].fd] = content[op[q].fd] /\ ~Fills(p, op[q].fd)
    BY <1>1, <1>3, <2>1, <2>2, <2>4 DEF HInv, GetsAllowed
  <2> QED BY <2>2, <2>3, <2>4
<1> QED BY <1>5, <1>6, <1>7, <1>8, <1>9 DEF HInv

\* An empty file, and one with bytes nobody asked for, is one of the things a
\* reader may meet.
EmptyAllowed ==
  Empty \in may /\ \A q \in Proc : op[q].pc \in GetPc => Empty \in window[q]

GarbledAllowed ==
  Garbled \in may /\ \A q \in Proc : op[q].pc \in GetPc => Garbled \in window[q]

\* A set goes on.  It may empty a file it is going to fill, it stops filling one
\* only when an empty file is allowed, and spoils one only when that is.
LEMMA MoveAllowed ==
  ASSUME KInv, HInv, NEW p \in Proc, Writing(p), op'[p].pc \in SetPc,
         op'[p].alone = op[p].alone, op'[p].val = op[p].val,
         op[p].pc \in SetPc,
         \A q \in Proc \ {p} : op'[q] = op[q],
         may \subseteq may',
         \A q \in Proc : op[q].pc \in GetPc => window[q] \subseteq window'[q],
         op[p].alone => KnowsFile(p)',
         \A i \in Inode :
           /\ \/ content'[i] \in {content[i], Empty}
              \/ content'[i] = Garbled /\ GarbledAllowed'
           /\ \/ content'[i] = content[i] /\ ~Fills(p, i)
              \/ Fills(p, i)'
              \/ EmptyAllowed',
         \/ op'[p].pc = "set_close"
         \/ op'[p].pc = "set_write" /\ content'[op'[p].fd] # Empty
         => Garbled \in may',
         path' = path \/ (Stored' = Empty /\ Fills(p, path)')
  PROVE  HInv'
<1>1. /\ Writing(p)' /\ op'[p].pc \notin GetPc /\ op'[p].pc \notin DelPc
      /\ \A q \in Proc \ {p} : Writing(q)' <=> Writing(q)
      /\ \A q \in Proc \ {p}, i \in Inode : Fills(q, i)' <=> Fills(q, i)
  BY DEF Writing, Fills, SetPc, DelPc, GetPc
<1>2. Aloneness'
  BY <1>1 DEF HInv, Aloneness
<1>3. AloneFile'
  <2>1. \A q \in Proc \ {p} : op[q].alone => op[q].pc \notin SetPc
    BY DEF HInv, Aloneness, Writing
  <2> QED BY <2>1 DEF AloneFile, KnowsFile, SetPc
<1>4. Promised' /\ LateIsKnown'
  <2>1. Promised'
    BY <1>1 DEF HInv, Promised
  <2>2. LateIsKnown'
    <3> SUFFICES ASSUME NEW q \in Proc \ {p},
                        \/ op'[q].pc = "set_close"
                        \/ op'[q].pc = "set_write" /\ content'[op'[q].fd] # Empty
                 PROVE  Garbled \in may'
      BY DEF LateIsKnown
    <3>1. op'[q] = op[q]
      OBVIOUS
    <3>2. op[q].fd \in Inode
      BY <3>1 DEF KInv, TypeOK, SetPc
    <3>3. CASE Garbled \in may
      BY <3>3
    <3>4. CASE content'[op[q].fd] = Garbled /\ GarbledAllowed'
      BY <3>4 DEF GarbledAllowed
    <3>5. CASE content'[op[q].fd] = content[op[q].fd] \/ op[q].pc = "set_close"
      BY <3>1, <3>5 DEF HInv, LateIsKnown
    <3> QED BY <3>1, <3>2, <3>4, <3>5
  <2> QED BY <2>1, <2>2
<1>5. \A i \in Inode :
        content[i] = Empty /\ (\E q \in Proc : Fills(q, i)) =>
          \/ content'[i] = Garbled /\ GarbledAllowed'
          \/ content'[i] = Empty /\ ((\E q \in Proc : Fills(q, i)') \/ EmptyAllowed')
  BY <1>1
<1>6. StoredIsAllowed'
  <2>1. CASE Stored' = Empty /\ Fills(p, path)'
    BY <2>1 DEF StoredIsAllowed
  <2>2. CASE path' = path /\ path = NoFile
    <3>1. Stored = NoFile /\ Stored' = NoFile /\ NoFile # Empty
      BY <2>2, KvAssumption DEF Stored
    <3> QED BY <3>1 DEF HInv, StoredIsAllowed
  <2>3. CASE path' = path /\ path # NoFile
    <3>1. path \in Inode /\ Stored = content[path] /\ Stored' = content'[path]
      BY <2>3 DEF Stored, KInv, TypeOK
    <3>4. CASE Stored' = Garbled /\ GarbledAllowed'
      BY <3>4 DEF StoredIsAllowed, GarbledAllowed
    <3>2. CASE /\ Stored = Empty /\ \E q \in Proc : Fills(q, path)
               /\ ~(Stored' = Garbled /\ GarbledAllowed')
      <4>1. Stored' = Empty
        BY <3>1, <3>2
      <4>2. PICK r \in Proc : Fills(r, path)
        BY <3>2
      <4>3. CASE r # p
        <5>1. Fills(r, path)'
          BY <2>3, <4>2, <4>3 DEF Fills
        <5> QED BY <4>1, <5>1 DEF StoredIsAllowed
      <4>4. CASE r = p
        <5>1. Fills(p, path)' \/ EmptyAllowed'
          BY <2>3, <3>1, <4>2, <4>4 DEF Fills
        <5> QED BY <4>1, <5>1 DEF StoredIsAllowed, EmptyAllowed
      <4> QED BY <4>3, <4>4
    <3>3. CASE Stored \in may /\ ~(Stored' = Garbled /\ GarbledAllowed')
      <4>1. CASE Stored' = Stored
        BY <3>3, <4>1 DEF StoredIsAllowed
      <4>2. CASE Stored' # Stored
        <5>1. Stored' = Empty /\ (Fills(p, path)' \/ EmptyAllowed')
          BY <2>3, <3>1, <3>3, <4>2 DEF Fills
        <5> QED BY <5>1 DEF StoredIsAllowed, EmptyAllowed
      <4> QED BY <4>1, <4>2
    <3> QED BY <3>2, <3>3, <3>4 DEF HInv, StoredIsAllowed
  <2> QED BY <2>1, <2>2, <2>3
<1>7. GetsAllowed'
  <2> SUFFICES ASSUME NEW q \in Proc, op'[q].pc \in GetPc
               PROVE  \/ content'[op[q].fd] \in window'[q] /\ op'[q].fd = op[q].fd
                      \/ /\ content'[op[q].fd] = Empty
                         /\ \E r \in Proc : Fills(r, op[q].fd)'
                         /\ op'[q].fd = op[q].fd
    BY DEF GetsAllowed, Fills
  <2>1. q # p /\ op'[q] = op[q] /\ op[q].pc \in GetPc
    BY <1>1
  <2>2. op[q].fd \in Inode
    BY <2>1 DEF KInv, TypeOK
  <2>3. /\ EmptyAllowed' => Empty \in window'[q]
        /\ GarbledAllowed' => Garbled \in window'[q]
    BY DEF EmptyAllowed, GarbledAllowed
  <2>4. CASE content[op[q].fd] \in window[q]
    <3>1. \/ content'[op[q].fd] = content[op[q].fd]
          \/ content'[op[q].fd] = Garbled /\ GarbledAllowed'
          \/ content'[op[q].fd] = Empty /\ (Fills(p, op[q].fd)' \/ EmptyAllowed')
      BY <2>1, <2>2 DEF Fills
    <3> QED BY <2>1, <2>3, <2>4, <3>1
  <2>5. CASE content[op[q].fd] = Empty /\ \E r \in Proc : Fills(r, op[q].fd)
    <3>1. \/ content'[op[q].fd] = Garbled /\ GarbledAllowed'
          \/ /\ content'[op[q].fd] = Empty
             /\ (\E r \in Proc : Fills(r, op[q].fd)') \/ EmptyAllowed'
      BY <1>5, <2>1, <2>2, <2>5 DEF Fills
    <3> QED BY <2>1, <2>3, <3>1
  <2> QED BY <2>1, <2>4, <2>5 DEF HInv, GetsAllowed
<1> QED BY <1>2, <1>3, <1>4, <1>6, <1>7 DEF HInv

\* The fields of a call that a step of a set does not change.
LEMMA SetOf ==
  ASSUME KInv, NEW p \in Proc, NEW l, op' = [op EXCEPT ![p].pc = l]
  PROVE  /\ op'[p].pc = l /\ op'[p].fd = op[p].fd /\ op'[p].val = op[p].val
         /\ op'[p].alone = op[p].alone /\ op'[p].present = op[p].present
         /\ op'[p].was = op[p].was
         /\ \A q \in Proc \ {p} : op'[q] = op[q]
<1>1. op[p] \in Call
  BY DEF KInv, TypeOK
<1> QED BY <1>1 DEF KInv, TypeOK, Call

LEMMA SetOpens ==
  ASSUME KInv, NEW p \in Proc, NEW i,
         op' = [op EXCEPT ![p].pc = "set_lock", ![p].fd = i]
  PROVE  /\ op'[p].pc = "set_lock" /\ op'[p].fd = i /\ op'[p].val = op[p].val
         /\ op'[p].alone = op[p].alone /\ op'[p].present = op[p].present
         /\ op'[p].was = op[p].was
         /\ \A q \in Proc \ {p} : op'[q] = op[q]
<1>1. op[p] \in Call
  BY DEF KInv, TypeOK
<1> QED BY <1>1 DEF KInv, TypeOK, Call

\* Each step of a set leaves what it may.
LEMMA SetAllowed == ASSUME KInv, HInv, NEW p \in Proc, set(p) PROVE HInv'
<1>0. /\ op[p] \in Call /\ path \in Inode \union {NoFile}
      /\ content \in [Inode -> Bytes]
      /\ Writing(p) => op[p].val \in may
      /\ op[p].alone => KnowsFile(p)
      /\ op[p].pc = "set_close" => Garbled \in may
      /\ op[p].pc = "set_write" /\ content[op[p].fd] # Empty => Garbled \in may
  BY DEF KInv, TypeOK, HInv, Promised, AloneFile, LateIsKnown
<1>1. ASSUME NEW v \in Val, NEW c \in BOOLEAN, set_exists(p, v, c) PROVE HInv'
  <2> DEFINE call == [Idle EXCEPT !.pc = "set_open", !.present = (path # NoFile),
                                  !.create = c, !.val = v]
  <2>1. /\ call \in Call /\ call.pc = "set_open"
        /\ call.present <=> path # NoFile
    BY DEF Idle, Call, SetPc, Outcome, Bytes
  <2>2. /\ op[p].pc = "idle" /\ Begin(p, call)
        /\ UNCHANGED <<path, content>>
    BY <1>1 DEF set_exists
  <2> HIDE DEF call
  <2>3. call.pc \notin DelPc
    BY <2>1 DEF DelPc
  <2> QED BY <2>1, <2>2, <2>3, BeginAllowed
<1>2. CASE set_open_present(p)
  <2>0. /\ op[p].pc = "set_open" /\ op[p].present /\ Writing(p)
        /\ UNCHANGED <<path, content>> /\ \A i \in Inode : ~Fills(p, i)
        /\ Stored' = Stored
    BY <1>2 DEF set_open_present, Writing, SetPc, Fills, Stored
  <2>1. CASE path # NoFile /\ op' = [op EXCEPT ![p].pc = "set_lock", ![p].fd = path]
             /\ UNCHANGED hist
    <3>1. KnowsFile(p)' \/ ~op[p].alone
      BY <1>0, <2>0, <2>1, SetOpens DEF KnowsFile
    <3> QED BY <1>0, <2>0, <2>1, <3>1, SetOpens, MoveAllowed DEF SetPc, hist
  <2>2. CASE path = NoFile /\ Settle(p, op[p].was)
    <3>1. ~op[p].alone
      BY <1>0, <2>0, <2>2 DEF KnowsFile
    <3>2. ~Fills(p, path)
      BY <2>0 DEF Fills
    <3> QED BY <2>0, <2>2, <3>1, <3>2, SettleAllowed
  <2> QED BY <1>2, <2>1, <2>2 DEF set_open_present
<1>3. CASE set_open_creates(p)
  <2>1. PICK j \in Inode :
          /\ path' = j
          /\ content' = [content EXCEPT ![j] = Empty]
          /\ op' = [op EXCEPT ![p].pc = "set_lock", ![p].fd = j]
    BY <1>3 DEF set_open_creates
  <2>2. /\ op[p].pc = "set_open" /\ ~op[p].present /\ Writing(p) /\ UNCHANGED hist
        /\ \A i \in Inode : ~Fills(p, i)
    BY <1>3 DEF set_open_creates, Writing, SetPc, Fills
  <2>3. Fills(p, j)' /\ Fills(p, path)' /\ Stored' = Empty
    BY <1>0, <2>1, <2>2, SetOpens, KvAssumption DEF Fills, Stored
  <2>4. KnowsFile(p)'
    BY <2>1, <2>2, SetOpens DEF KnowsFile
  <2>5. \A i \in Inode : /\ content'[i] \in {content[i], Empty}
                         /\ content'[i] = content[i] \/ i = j
    BY <1>0, <2>1
  <2> QED BY <2>1, <2>2, <2>3, <2>4, <2>5, SetOpens, MoveAllowed DEF SetPc, hist
<1>4. CASE set_open_truncates(p)
  <2>1. /\ op[p].pc = "set_open" /\ ~op[p].present /\ Writing(p) /\ UNCHANGED hist
        /\ path \in Inode /\ path' = path
        /\ content' = [content EXCEPT ![path] = Empty]
        /\ op' = [op EXCEPT ![p].pc = "set_lock", ![p].fd = path]
        /\ \A i \in Inode : ~Fills(p, i)
    BY <1>0, <1>4 DEF set_open_truncates, Writing, SetPc, Fills
  <2>2. \A i \in Inode : i = path => Fills(p, i)'
    BY <2>1, SetOpens DEF Fills
  <2>3. KnowsFile(p)'
    BY <2>1, SetOpens DEF KnowsFile
  <2>4. \A i \in Inode : /\ content'[i] \in {content[i], Empty}
                         /\ content'[i] = content[i] \/ i = path
    BY <1>0, <2>1
  <2> QED BY <2>1, <2>2, <2>3, <2>4, SetOpens, MoveAllowed DEF SetPc, hist
<1>5. CASE set_flock(p)
  <2>1. /\ op[p].pc = "set_lock" /\ Writing(p)
        /\ op' = [op EXCEPT ![p].pc = "set_check"]
        /\ UNCHANGED <<path, content, hist>> /\ Stored' = Stored
    BY <1>5 DEF set_flock, Flock, Goto, Writing, SetPc, Stored
  <2>2. \A i \in Inode : Fills(p, i) => Fills(p, i)'
    BY <2>1, SetOf DEF Fills
  <2>3. KnowsFile(p)' \/ ~op[p].alone
    BY <1>0, <2>1, SetOf DEF KnowsFile
  <2> QED BY <2>1, <2>2, <2>3, SetOf, MoveAllowed DEF SetPc, hist
<1>6. CASE set_refused(p)
  <2> DEFINE left == IF Exists(p) THEN op[p].was ELSE {op[p].val}
  <2>1. /\ op[p].pc = "set_check" /\ Writing(p) /\ op[p].present
        /\ Exists(p) \/ content[op[p].fd] = op[p].val
        /\ Settle(p, left) /\ UNCHANGED <<path, content>> /\ Stored' = Stored
    BY <1>6 DEF set_refused, Exists, SameValue, Writing, SetPc, Stored
  <2>2. ~Fills(p, path) /\ \A i \in Inode : ~Fills(p, i)
    BY <2>1 DEF Fills
  <2>3. may' = IF op[p].alone THEN left ELSE may
    BY <2>1 DEF Settle, MayBe
  <2>4. ASSUME op[p].alone PROVE Stored' \in may'
    <3>1. op[p].fd = path /\ Stored \in op[p].was /\ op[p].fd \in Inode
      BY <1>0, <2>1, <2>4, Written DEF KnowsFile
    <3>2. Stored = content[op[p].fd]
      BY <3>1, KvAssumption DEF Stored
    <3> QED BY <2>1, <2>3, <2>4, <3>1, <3>2
  <2> HIDE DEF left
  <2> QED BY <2>1, <2>2, <2>4, SettleAllowed
<1>7. CASE set_truncate(p)
  <2>1. /\ op[p].pc = "set_check" /\ Writing(p)
        /\ op' = [op EXCEPT ![p].pc = "set_write"]
        /\ content' = [content EXCEPT ![op[p].fd] = Empty]
        /\ UNCHANGED <<path, hist>>
    BY <1>7 DEF set_truncate, Goto, Writing, SetPc
  <2>2. op[p].fd \in Inode
    BY <2>1, Written
  <2>3. \A i \in Inode : /\ Fills(p, i)' <=> i = op[p].fd
                         /\ Fills(p, i) => i = op[p].fd
    BY <2>1, SetOf DEF Fills
  <2>4. KnowsFile(p)' \/ ~op[p].alone
    <3>1. op'[p].pc = "set_write" /\ op'[p].fd = op[p].fd
      BY <2>1, SetOf
    <3>2. content'[op[p].fd] = Empty
      BY <1>0, <2>1, <2>2
    <3>3. op[p].alone => op[p].fd = path'
      BY <1>0, <2>1 DEF KnowsFile
    <3> QED BY <3>1, <3>2, <3>3 DEF KnowsFile
  <2>5. \A i \in Inode : /\ content'[i] \in {content[i], Empty}
                         /\ content'[i] = content[i] \/ i = op[p].fd
    BY <1>0, <2>1
  <2>6. op'[p].pc = "set_write" /\ content'[op'[p].fd] = Empty
    BY <1>0, <2>1, <2>2, SetOf
  <2> QED BY <2>1, <2>3, <2>4, <2>5, <2>6, SetOf, MoveAllowed DEF SetPc, hist
<1>8. CASE set_write(p)
  <2>1. /\ op[p].pc = "set_write" /\ Writing(p) /\ Settle(p, {op[p].val})
        /\ path' = path
    BY <1>8 DEF set_write, Writing, SetPc
  <2>2. op[p].fd \in Inode
    BY <2>1, Written
  <2>3. PICK c : /\ content' = [content EXCEPT ![op[p].fd] = c]
                 /\ c = op[p].val \/ (c = Garbled /\ content[op[p].fd] # Empty)
    BY <1>8 DEF set_write
  <2>4. c \in may'
    <3>1. CASE op[p].alone
      BY <1>0, <2>1, <2>3, <3>1 DEF Settle, MayBe, KnowsFile
    <3>2. CASE ~op[p].alone
      BY <1>0, <2>1, <2>3, <3>2 DEF Settle, MayBe
    <3> QED BY <3>1, <3>2
  <2>5. \A i \in Inode : \/ content'[i] \in may'
                         \/ content'[i] = content[i] /\ ~Fills(p, i)
    BY <1>0, <2>1, <2>3, <2>4 DEF Fills
  <2>6. \A q \in Proc \ {p} : op[q].pc = "set_write"
                              => content'[op[q].fd] = content[op[q].fd]
    <3> SUFFICES ASSUME NEW q \in Proc \ {p}, op[q].pc = "set_write"
                 PROVE  content'[op[q].fd] = content[op[q].fd]
      OBVIOUS
    <3>1. holder[op[q].fd] = q /\ holder[op[p].fd] = p /\ op[q].fd \in Inode
      BY <2>1, Written DEF KInv, WorkerHolds, LockedPc
    <3>2. op[q].fd # op[p].fd
      BY <3>1
    <3> QED BY <1>0, <2>3, <3>1, <3>2
  <2>7. CASE op[p].fd = path
    <3>1. Stored' = c
      BY <1>0, <2>1, <2>2, <2>3, <2>7, KvAssumption DEF Stored
    <3> QED BY <2>1, <2>4, <2>5, <2>6, <3>1, SettleAllowed
  <2>8. CASE op[p].fd # path
    <3>1. ~op[p].alone /\ ~Fills(p, path)
      BY <1>0, <2>1, <2>8 DEF KnowsFile, Fills
    <3>2. Stored' = Stored
      BY <1>0, <2>1, <2>3, <2>8 DEF Stored
    <3> QED BY <2>1, <2>5, <2>6, <3>1, <3>2, SettleAllowed
  <2> QED BY <2>7, <2>8
<1>9. CASE set_write_fails(p)
  <2>1. /\ op[p].pc = "set_write" /\ Writing(p)
        /\ op' = [op EXCEPT ![p].pc = "set_close"]
        /\ path' = path /\ MayBe(may \union {Empty, Garbled})
    BY <1>9 DEF set_write_fails, Writing, SetPc, Goto
  <2>2. /\ may \subseteq may'
        /\ \A q \in Proc : op[q].pc \in GetPc => window[q] \subseteq window'[q]
    BY <2>1 DEF MayBe
  <2>3. EmptyAllowed' /\ GarbledAllowed'
    BY <2>1, SetOf DEF MayBe, EmptyAllowed, GarbledAllowed, GetPc
  <2>4. PICK c \in {content[op[p].fd], Garbled} :
          content' = [content EXCEPT ![op[p].fd] = c]
    BY <1>9 DEF set_write_fails
  <2>5. \A i \in Inode : content'[i] = content[i] \/ content'[i] = Garbled
    BY <1>0, <2>4
  <2>6. KnowsFile(p)' \/ ~op[p].alone
    <3>1. op'[p].pc = "set_close" /\ op'[p].fd = op[p].fd /\ op[p].fd \in Inode
      BY <2>1, SetOf, Written
    <3>2. op[p].alone => op[p].fd = path' /\ content[op[p].fd] = Empty
      BY <1>0, <2>1 DEF KnowsFile
    <3> QED BY <2>5, <3>1, <3>2 DEF KnowsFile
  <2>7. Garbled \in may'
    BY <2>3 DEF GarbledAllowed
  <2> QED BY <2>1, <2>2, <2>3, <2>5, <2>6, <2>7, SetOf, MoveAllowed DEF SetPc
<1>10. CASE set_close(p)
  <2>1. /\ op[p].pc = "set_close" /\ Writing(p)
        /\ Settle(p, {op[p].val, Empty, Garbled}) /\ path' = path
    BY <1>10 DEF set_close, Writing, SetPc
  <2>2. op[p].fd \in Inode
    BY <2>1, Written
  <2>3. /\ op[p].val \in may' /\ Garbled \in may' /\ Garbled \in may
        /\ op[p].alone => Empty \in may'
    BY <1>0, <2>1 DEF Settle, MayBe
  <2>4. ~Fills(p, path) /\ \A i \in Inode : ~Fills(p, i)
    BY <2>1 DEF Fills
  <2>5. PICK c \in {content[op[p].fd], op[p].val, Garbled} :
          content' = [content EXCEPT ![op[p].fd] = c]
    BY <1>10 DEF set_close
  <2>6. \A i \in Inode : content'[i] \in may' \/ content'[i] = content[i]
    BY <1>0, <2>3, <2>5
  <2>7. CASE op[p].fd = path
    <3>1. Stored' = op[p].val \/ Stored' = Stored \/ Stored' = Garbled
      BY <1>0, <2>1, <2>2, <2>5, <2>7, KvAssumption DEF Stored
    <3>2. op[p].alone => Stored \in {Empty, Garbled}
      BY <1>0, <2>1, <2>2, <2>7, KvAssumption DEF Stored, KnowsFile
    <3> QED BY <2>1, <2>3, <2>4, <2>6, <3>1, <3>2, SettleAllowed
  <2>8. CASE op[p].fd # path
    <3>1. ~op[p].alone /\ Stored' = Stored
      BY <1>0, <2>1, <2>5, <2>8 DEF KnowsFile, Stored
    <3> QED BY <2>1, <2>3, <2>4, <2>6, <3>1, SettleAllowed
  <2> QED BY <2>7, <2>8
<1> QED BY <1>1, <1>2, <1>3, <1>4, <1>5, <1>6, <1>7, <1>8, <1>9, <1>10 DEF set

\* A get, or a process that ends, starts nothing for the others to wait for.
LEMMA LeaveAllowed ==
  ASSUME KInv, HInv, NEW p \in Proc, ~Writing(p)',
         op'[p].pc \notin SetPc \union DelPc,
         \A q \in Proc \ {p} : op'[q] = op[q],
         path' = path, may \subseteq may',
         \/ content' = content
         \/ /\ Writing(p) /\ GarbledAllowed'
            /\ \A i \in Inode : content'[i] \in {content[i], Garbled},
         \A q \in Proc \ {p} :
           op[q].pc \in GetPc => window[q] \subseteq window'[q],
         (\A i \in Inode : ~Fills(p, i)) \/ EmptyAllowed',
         op'[p].pc \in GetPc =>
           \/ content'[op'[p].fd] \in window'[p]
           \/ /\ content'[op'[p].fd] = Empty
              /\ \E q \in Proc \ {p} : Fills(q, op'[p].fd)
  PROVE  HInv'
<1>1. /\ \A q \in Proc \ {p} : Writing(q)' <=> Writing(q)
      /\ \A q \in Proc \ {p}, i \in Inode : Fills(q, i)' <=> Fills(q, i)
  BY DEF Writing, Fills
<1>2. Aloneness' /\ AloneFile' /\ Promised' /\ LateIsKnown'
  <2>1. \A q \in Proc \ {p} : op[q].alone => KnowsFile(q)'
    <3>1. CASE content' = content
      BY <3>1 DEF HInv, AloneFile, KnowsFile, Stored
    <3>2. CASE Writing(p)
      BY <3>2 DEF HInv, Aloneness, KnowsFile, Writing, SetPc
    <3> QED BY <3>1, <3>2
  <2>2. KnowsFile(p)'
    BY DEF KnowsFile, SetPc
  <2>3. Aloneness' /\ AloneFile' /\ Promised'
    BY <1>1, <2>1, <2>2 DEF HInv, Aloneness, AloneFile, Promised
  <2>4. LateIsKnown'
    <3>1. CASE content' = content
      BY <3>1 DEF HInv, LateIsKnown, SetPc
    <3>2. CASE GarbledAllowed'
      BY <3>2 DEF GarbledAllowed, LateIsKnown
    <3> QED BY <3>1, <3>2
  <2> QED BY <2>3, <2>4
<1>3. StoredIsAllowed'
  <2>1. \/ Stored' = Stored
        \/ Stored' = Garbled /\ GarbledAllowed'
    BY DEF Stored, KInv, TypeOK
  <2>2. CASE Stored' = Stored /\ Stored \in may
    BY <2>2 DEF StoredIsAllowed
  <2>3. CASE Stored' = Stored /\ Stored = Empty /\ \E q \in Proc : Fills(q, path)
    <3>1. path \in Inode
      BY <2>3, KvAssumption DEF Stored, KInv, TypeOK
    <3>2. PICK r \in Proc : Fills(r, path)
      BY <2>3
    <3>3. CASE r = p
      BY <2>3, <3>1, <3>2, <3>3 DEF StoredIsAllowed, EmptyAllowed
    <3>4. CASE r # p
      <4>1. Fills(r, path)'
        BY <3>2, <3>4 DEF Fills
      <4> QED BY <2>3, <4>1 DEF StoredIsAllowed
    <3> QED BY <3>3, <3>4
  <2>4. CASE Stored' = Garbled /\ GarbledAllowed'
    BY <2>4 DEF StoredIsAllowed, GarbledAllowed
  <2> QED BY <2>1, <2>2, <2>3, <2>4 DEF HInv, StoredIsAllowed
<1>4. GetsAllowed'
  <2> SUFFICES ASSUME NEW q \in Proc, op'[q].pc \in GetPc
               PROVE  \/ content'[op'[q].fd] \in window'[q]
                      \/ /\ content'[op'[q].fd] = Empty
                         /\ \E r \in Proc : Fills(r, op[q].fd)'
                         /\ q # p
                      \/ /\ content'[op'[q].fd] = Empty /\ q = p
                         /\ \E r \in Proc \ {p} : Fills(r, op'[p].fd)
    BY DEF GetsAllowed, Fills
  <2>1. CASE q = p
    BY <2>1 DEF Fills
  <2>2. CASE q # p
    <3>1. op'[q] = op[q] /\ op[q].fd \in Inode
      BY <2>2 DEF KInv, TypeOK
    <3>4. \/ content'[op[q].fd] = content[op[q].fd]
          \/ content'[op[q].fd] \in window'[q]
      BY <3>1 DEF GarbledAllowed
    <3>2. CASE content[op[q].fd] \in window[q]
      BY <2>2, <3>1, <3>2, <3>4
    <3>3. CASE content[op[q].fd] = Empty /\ \E r \in Proc : Fills(r, op[q].fd)
      <4>1. PICK r \in Proc : Fills(r, op[q].fd)
        BY <3>3
      <4>2. CASE r = p
        BY <3>1, <3>3, <3>4, <4>1, <4>2 DEF EmptyAllowed
      <4>3. CASE r # p
        <5>1. Fills(r, op[q].fd)'
          BY <3>1, <4>1, <4>3 DEF Fills
        <5> QED BY <2>2, <3>1, <3>3, <3>4, <5>1
      <4> QED BY <4>2, <4>3
    <3> QED BY <3>1, <3>2, <3>3 DEF HInv, GetsAllowed
  <2> QED BY <2>1, <2>2
<1> QED BY <1>2, <1>3, <1>4 DEF HInv

LEMMA GetAllowed == ASSUME KInv, HInv, NEW p \in Proc, get(p) PROVE HInv'
<1>0. op[p] \in Call /\ window \in [Proc -> SUBSET Outcome] /\ op \in [Proc -> Call]
  BY DEF KInv, TypeOK
<1>1. CASE get_open(p)
  <2> DEFINE new == [Idle EXCEPT !.pc = "get_lock", !.fd = path]
  <2>1. /\ op[p].pc = "idle" /\ op' = [op EXCEPT ![p] = new] /\ path # NoFile
        /\ UNCHANGED <<path, content, may>> /\ window' = [window EXCEPT ![p] = may]
    BY <1>1 DEF get_open
  <2>2. new.pc = "get_lock" /\ new.fd = path
    BY DEF Idle
  <2>3. op'[p] = new /\ \A q \in Proc \ {p} : op'[q] = op[q]
    BY <1>0, <2>1
  <2> HIDE DEF new
  <2>4. ~Writing(p)' /\ op'[p].pc \notin SetPc \union DelPc
    BY <2>2, <2>3 DEF Writing, SetPc, DelPc
  <2>5. \A i : ~Fills(p, i)
    BY <2>1 DEF Fills
  <2>6. Stored = content[path]
    BY <2>1 DEF Stored
  <2>7. \/ content[path] \in window'[p]
        \/ content[path] = Empty /\ \E q \in Proc \ {p} : Fills(q, path)
    BY <1>0, <2>1, <2>5, <2>6 DEF HInv, StoredIsAllowed
  <2>8. \/ content[op'[p].fd] \in window'[p]
        \/ /\ content[op'[p].fd] = Empty
           /\ \E q \in Proc \ {p} : Fills(q, op'[p].fd)
    BY <2>2, <2>3, <2>7
  <2> QED BY <1>0, <2>1, <2>2, <2>3, <2>4, <2>5, <2>8, LeaveAllowed
<1>2. CASE get_flock(p)
  <2>1. /\ op[p].pc = "get_lock" /\ op' = [op EXCEPT ![p].pc = "get_read"]
        /\ UNCHANGED <<path, content, may, window>>
    BY <1>2 DEF get_flock, Flock, Goto, hist
  <2>2. /\ op'[p].pc = "get_read" /\ op'[p].fd = op[p].fd
        /\ \A q \in Proc \ {p} : op'[q] = op[q]
    BY <2>1, SetOf
  <2>3. ~Writing(p)' /\ op'[p].pc \notin SetPc \union DelPc
    BY <2>2 DEF Writing, SetPc, DelPc
  <2>4. \A i : ~Fills(p, i)
    BY <2>1 DEF Fills
  <2>5. \/ content[op'[p].fd] \in window'[p]
        \/ /\ content[op'[p].fd] = Empty
           /\ \E q \in Proc \ {p} : Fills(q, op'[p].fd)
    BY <2>1, <2>2, <2>4 DEF HInv, GetsAllowed, GetPc
  <2> QED BY <2>1, <2>2, <2>3, <2>4, <2>5, LeaveAllowed
<1>3. CASE get_read(p)
  <2>1. /\ op[p].pc = "get_read" /\ op' = [op EXCEPT ![p] = Idle]
        /\ UNCHANGED <<path, content, may>> /\ window' = [window EXCEPT ![p] = {}]
    BY <1>3 DEF get_read
  <2>2. op'[p].pc = "idle" /\ \A q \in Proc \ {p} : op'[q] = op[q]
    BY <1>0, <2>1 DEF Idle
  <2>3. /\ ~Writing(p)' /\ op'[p].pc \notin SetPc \union DelPc \union GetPc
        /\ \A i : ~Fills(p, i)
    BY <2>1, <2>2 DEF Writing, SetPc, DelPc, GetPc, Fills
  <2>4. \A q \in Proc \ {p} : window'[q] = window[q]
    BY <1>0, <2>1
  <2> QED BY <2>1, <2>2, <2>3, <2>4, LeaveAllowed
<1> QED BY <1>1, <1>2, <1>3 DEF get

LEMMA DelAllowed == ASSUME KInv, HInv, NEW p \in Proc, del(p) PROVE HInv'
<1>1. CASE del_exists(p)
  <2> DEFINE call == [Idle EXCEPT !.pc = IF path # NoFile THEN "del_remove"
                                                         ELSE "del_search"]
  <2>1. /\ call \in Call /\ call.pc \in DelPc /\ call.val = NoFile
        /\ ~call.present
    BY DEF Idle, Call, DelPc, Outcome, Bytes
  <2>2. /\ op[p].pc = "idle" /\ Begin(p, call) /\ UNCHANGED <<path, content>>
    BY <1>1 DEF del_exists
  <2> HIDE DEF call
  <2> QED BY <2>1, <2>2, BeginAllowed
<1>2. CASE del_remove(p)
  <2>1. /\ op[p].pc \in DelPc /\ Writing(p) /\ Settle(p, {NoFile})
        /\ path' = NoFile /\ content' = content /\ Stored' = NoFile
    BY <1>2 DEF del_remove, Writing, Stored
  <2>2. NoFile \in may'
    BY <2>1 DEF Settle, MayBe, HInv, Promised
  <2>3. \A i \in Inode : ~Fills(p, i)
    BY <2>1 DEF Fills, DelPc
  <2> QED BY <2>1, <2>2, <2>3, SettleAllowed
<1> QED BY <1>1, <1>2 DEF del

LEMMA CrashAllowed == ASSUME KInv, HInv, NEW p \in Proc, Crash(p) PROVE HInv'
<1>0. window \in [Proc -> SUBSET Outcome] /\ op \in [Proc -> Call]
  BY DEF KInv, TypeOK
<1>1. op' = [op EXCEPT ![p] = Idle] /\ UNCHANGED <<path, content>>
  BY DEF Crash
<1>2. op'[p].pc = "idle" /\ \A q \in Proc \ {p} : op'[q] = op[q]
  BY <1>0, <1>1 DEF Idle
<1>3. ~Writing(p)' /\ op'[p].pc \notin SetPc \union DelPc \union GetPc
  BY <1>2 DEF Writing, SetPc, DelPc, GetPc
<1>4. CASE MayBe(may \union {Empty})
  <2>1. EmptyAllowed'
    BY <1>2, <1>4 DEF MayBe, EmptyAllowed, GetPc
  <2>2. /\ may \subseteq may'
        /\ \A q \in Proc \ {p} :
             op[q].pc \in GetPc => window[q] \subseteq window'[q]
    BY <1>4 DEF MayBe
  <2> QED BY <1>1, <1>2, <1>3, <2>1, <2>2, LeaveAllowed
<1>5. CASE ~(\E i \in Inode : Fills(p, i)) /\ window' = [window EXCEPT ![p] = {}]
           /\ UNCHANGED may
  <2>1. \A q \in Proc \ {p} : window'[q] = window[q]
    BY <1>0, <1>5
  <2> QED BY <1>1, <1>2, <1>3, <1>5, <2>1, LeaveAllowed
<1> QED BY <1>4, <1>5 DEF Crash

LEMMA CrashWritingAllowed ==
  ASSUME KInv, HInv, NEW p \in Proc, CrashWriting(p) PROVE HInv'
<1>0. op \in [Proc -> Call] /\ content \in [Inode -> Bytes]
  BY DEF KInv, TypeOK
<1>1. /\ op' = [op EXCEPT ![p] = Idle] /\ path' = path
      /\ MayBe(may \union {Empty, Garbled}) /\ Writing(p)
  BY DEF CrashWriting, Writing, SetPc
<1>2. op'[p].pc = "idle" /\ \A q \in Proc \ {p} : op'[q] = op[q]
  BY <1>0, <1>1 DEF Idle
<1>3. ~Writing(p)' /\ op'[p].pc \notin SetPc \union DelPc \union GetPc
  BY <1>2 DEF Writing, SetPc, DelPc, GetPc
<1>4. EmptyAllowed' /\ GarbledAllowed'
  BY <1>1, <1>2 DEF MayBe, EmptyAllowed, GarbledAllowed, GetPc
<1>5. \A i \in Inode : content'[i] \in {content[i], Garbled}
  <2>1. PICK c \in {content[op[p].fd], Garbled} :
          content' = [content EXCEPT ![op[p].fd] = c]
    BY DEF CrashWriting
  <2> QED BY <1>0, <2>1
<1>6. /\ may \subseteq may'
      /\ \A q \in Proc \ {p} :
           op[q].pc \in GetPc => window[q] \subseteq window'[q]
  BY <1>1 DEF MayBe
<1> QED BY <1>1, <1>2, <1>3, <1>4, <1>5, <1>6, LeaveAllowed

LEMMA HistInvariant == Spec => []HInv
<1>1. KInv /\ HInv /\ [Next]_vars => HInv'
  <2> SUFFICES ASSUME KInv, HInv, [Next]_vars PROVE HInv'
    OBVIOUS
  <2>1. CASE UNCHANGED vars
    BY <2>1 DEF vars, hist, HInv, Aloneness, AloneFile, KnowsFile, Promised,
                LateIsKnown, StoredIsAllowed, GetsAllowed, Writing, Fills, Stored
  <2>2. CASE Next
    BY <2>2, SetAllowed, GetAllowed, DelAllowed, CrashAllowed, CrashWritingAllowed
       DEF Next
  <2> QED BY <2>1, <2>2
<1> QED BY <1>1, HistInit, KvInvariant, PTL DEF Spec

\* What the store holds is what some set or delete left, or an empty file that
\* a set is about to fill, for any processes, failures and ends of processes.
THEOREM StoredAlwaysAllowed == Spec => []StoredIsAllowed
<1>1. HInv => StoredIsAllowed
  BY DEF HInv
<1> QED BY <1>1, HistInvariant, PTL

\* A get returns a value the key may have had meanwhile; the only gap it sees
\* is the one between fopen and flock of a set.
THEOREM GetAlwaysAllowed == Spec => []GetIsAllowed
<1>1. KInv /\ HInv => GetIsAllowed
  <2> SUFFICES ASSUME KInv, HInv, NEW p \in Proc, op[p].pc = "get_read"
               PROVE  \/ content[op[p].fd] \in window[p]
                      \/ /\ content[op[p].fd] = Empty
                         /\ \E q \in Proc : /\ Fills(q, op[p].fd)
                                            /\ op[q].pc = "set_lock"
    BY DEF GetIsAllowed
  <2>1. CASE content[op[p].fd] \in window[p]
    BY <2>1
  <2>2. CASE content[op[p].fd] = Empty /\ \E q \in Proc : Fills(q, op[p].fd)
    <3>1. PICK q \in Proc : Fills(q, op[p].fd)
      BY <2>2
    <3>2. op[q].pc \in {"set_lock", "set_check", "set_write"} /\ q # p
      BY <3>1 DEF Fills
    <3>3. op[q].pc \notin LockedPc
      BY <3>1, <3>2 DEF Fills, KInv, WorkerHolds, LockedPc
    <3> QED BY <2>2, <3>1, <3>2, <3>3 DEF LockedPc
  <2> QED BY <2>1, <2>2 DEF HInv, GetsAllowed, GetPc
<1> QED BY <1>1, KvInvariant, HistInvariant, PTL
=============================================================================
