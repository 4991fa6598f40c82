-------------------------------- MODULE Kv --------------------------------
(***************************************************************************)
(* The key-value store (kv.cpp, fileops.cpp): a key is a file, and several  *)
(* processes set, get and delete it.  Each open file is locked with flock,  *)
(* but a file is looked up, created, emptied by fopen "w" and removed       *)
(* without the lock.                                                        *)
(*                                                                         *)
(* One key is modelled.  A file is an inode: it lives on without a name     *)
(* while somebody has it open.  A process may end at any point, and the     *)
(* write to the file may fail, after some of its bytes or before the first. *)
(* What a step does to the file is one system call, together with the ones  *)
(* that nobody else can tell from it.                                       *)
(*                                                                         *)
(* Garbled stands for bytes nobody asked for: the beginning of a value, or  *)
(* parts of two.  Those that happen to be a value of their own are left     *)
(* out.                                                                     *)
(***************************************************************************)
EXTENDS FiniteSets

CONSTANTS
  Setter, Getter, Deleter,    \* processes that use the library, by its calls
  Inode,          \* files: enough for one per process and one with the name
  Val,            \* values
  Persist,        \* the key is in the persistent region
  Empty, Garbled, NoFile, Nobody

ASSUME KvAssumption ==
  /\ Persist \in BOOLEAN
  /\ Empty \notin Val
  /\ Garbled \notin Val \union {Empty}
  /\ NoFile \notin Inode \union Val \union {Empty, Garbled}
  /\ Nobody \notin Setter \union Getter \union Deleter

Proc == Setter \union Getter \union Deleter

VARIABLES
  path,           \* the inode that has the name of the key, or NoFile
  content,        \* of each inode
  holder,         \* who has the flock of each inode
  op,             \* op[p]: the call process p is in, see Call
  may,            \* history: what the key may be, see Settle
  window          \* history: what it may have been during the get of p

hist == <<may, window>>
vars == <<path, content, holder, op, hist>>

Stored == IF path = NoFile THEN NoFile ELSE content[path]

Bytes == Val \union {Empty, Garbled}
Outcome == Bytes \union {NoFile}
SetPc == {"set_open", "set_lock", "set_check", "set_write", "set_close"}
DelPc == {"del_remove", "del_search"}
GetPc == {"get_lock", "get_read"}

Call == [pc: SetPc \union DelPc \union GetPc \union {"idle"},
         fd: Inode \union {NoFile},
         present: BOOLEAN,        \* the file was there when it was looked up
         create: BOOLEAN,         \* KV_FCREATE
         val: Outcome,            \* what a set or a delete shall leave
         alone: BOOLEAN,          \* history: no other set or delete since
         was: SUBSET Outcome]     \* history: may, before it
Idle == [pc |-> "idle", fd |-> NoFile, present |-> FALSE, create |-> FALSE,
         val |-> NoFile, alone |-> FALSE, was |-> {}]

TypeOK ==
  /\ path \in Inode \union {NoFile}
  /\ content \in [Inode -> Bytes]
  /\ holder \in [Inode -> Proc \union {Nobody}]
  /\ op \in [Proc -> Call]
  /\ may \subseteq Outcome
  /\ window \in [Proc -> SUBSET Outcome]
  /\ \A p \in Proc : op[p].pc \in (SetPc \ {"set_open"}) \union GetPc
                       => op[p].fd \in Inode

\* A key that was never set.
Init ==
  /\ path = NoFile
  /\ content = [i \in Inode |-> Empty]
  /\ holder = [i \in Inode |-> Nobody]
  /\ op = [p \in Proc |-> Idle]
  /\ may = {NoFile}
  /\ window = [p \in Proc |-> {}]

Writing(p) == op[p].pc \in SetPc \union DelPc

\* p has emptied inode i, or has made it, and is going to write to it.
Fills(p, i) ==
  /\ op[p].fd = i
  /\ \/ op[p].pc = "set_write"
     \/ op[p].pc \in {"set_lock", "set_check"} /\ ~op[p].present

\* What the key may be is S from now on, also for the gets under way.
MayBe(S) ==
  /\ may' = S
  /\ window' = [p \in Proc |-> IF op[p].pc \in GetPc THEN window[p] \union S
                                                     ELSE {}]

Goto(p, l) == op' = [op EXCEPT ![p].pc = l]

\* A set or delete begins, and is alone if no other one is under way.
Begin(p, call) ==
  /\ op' = [q \in Proc |->
              IF q = p THEN [call EXCEPT !.was = may,
                               !.alone = \A r \in Proc : ~Writing(r)]
              ELSE [op[q] EXCEPT !.alone = FALSE]]
  /\ MayBe(may \union {call.val})

\* It is over: a call that was alone has left the key in a known state.
Settle(p, left) ==
  /\ op' = [op EXCEPT ![p] = Idle]
  /\ MayBe(IF op[p].alone THEN left ELSE may)

\* The destructor of FileHandle gives the lock back.
Close(p) ==
  holder' = [i \in Inode |-> IF holder[i] = p THEN Nobody ELSE holder[i]]

\* Mutant: the lock is not waited for.
Flock_shared(p, l) ==
  /\ holder' = [holder EXCEPT ![op[p].fd] = p]
  /\ Goto(p, l)
  /\ UNCHANGED <<path, content, hist>>

Flock(p, l) ==
  /\ holder[op[p].fd] = Nobody
  /\ holder' = [holder EXCEPT ![op[p].fd] = p]
  /\ Goto(p, l)
  /\ UNCHANGED <<path, content, hist>>

-----------------------------------------------------------------------------
(* kv_set *)

set_exists(p, v, c) ==
  /\ p \in Setter
  /\ op[p].pc = "idle"
  /\ Begin(p, [Idle EXCEPT !.pc = "set_open", !.present = (path # NoFile),
                           !.create = c, !.val = v])
  /\ UNCHANGED <<path, content, holder>>

\* fopen "r+" of a file that was there: it is, or it was removed meanwhile.
set_open_present(p) ==
  /\ op[p].pc = "set_open"
  /\ op[p].present
  /\ \/ /\ path # NoFile
        /\ op' = [op EXCEPT ![p].pc = "set_lock", ![p].fd = path]
        /\ UNCHANGED hist
     \/ path = NoFile /\ Settle(p, op[p].was)
  /\ UNCHANGED <<path, content, holder>>

\* fopen "w" of a file that was not there: it makes the file, ...
set_open_creates(p) ==
  /\ op[p].pc = "set_open"
  /\ ~op[p].present
  /\ path = NoFile
  /\ \E i \in Inode :
       /\ \A q \in Proc : op[q].fd # i
       /\ path' = i
       /\ content' = [content EXCEPT ![i] = Empty]
       /\ op' = [op EXCEPT ![p].pc = "set_lock", ![p].fd = i]
  /\ UNCHANGED <<holder, hist>>

\* ... or empties the one that came meanwhile, whoever has its lock.
set_open_truncates(p) ==
  /\ op[p].pc = "set_open"
  /\ ~op[p].present
  /\ path # NoFile
  /\ content' = [content EXCEPT ![path] = Empty]
  /\ op' = [op EXCEPT ![p].pc = "set_lock", ![p].fd = path]
  /\ UNCHANGED <<path, holder, hist>>

set_flock(p) == op[p].pc = "set_lock" /\ Flock(p, "set_check")

\* Mutant: also a file this call has made counts as already there.
Exists_now(p) == op[p].create

\* The key was there and must not have been.
Exists(p) == op[p].present /\ op[p].create

\* A persistent key is not written if it has the value already.
SameValue(p) == op[p].present /\ Persist /\ content[op[p].fd] = op[p].val

set_refused(p) ==
  /\ op[p].pc = "set_check"
  /\ Exists(p) \/ SameValue(p)
  /\ Settle(p, IF Exists(p) THEN op[p].was ELSE {op[p].val})
  /\ Close(p)
  /\ UNCHANGED <<path, content>>

set_truncate(p) ==
  /\ op[p].pc = "set_check"
  /\ ~Exists(p) /\ ~SameValue(p)
  /\ content' = [content EXCEPT ![op[p].fd] = Empty]
  /\ Goto(p, "set_write")
  /\ UNCHANGED <<path, holder, hist>>

\* The file is written from its beginning.  If somebody's late write has come in
\* behind ftruncate, some of that may be left behind the value.
set_write(p) ==
  /\ op[p].pc = "set_write"
  /\ \E c \in {op[p].val} \union (IF content[op[p].fd] = Empty THEN {} ELSE {Garbled}) :
       content' = [content EXCEPT ![op[p].fd] = c]
  /\ Settle(p, {op[p].val})
  /\ Close(p)
  /\ UNCHANGED path

\* fflush fails, before the first byte or in the middle.  The destructor unlocks
\* the file; fclose, behind it, tries to write what is still in the buffer.
set_write_fails(p) ==
  /\ op[p].pc = "set_write"
  /\ \E c \in {content[op[p].fd], Garbled} :
       content' = [content EXCEPT ![op[p].fd] = c]
  /\ Goto(p, "set_close")
  /\ MayBe(may \union {Empty, Garbled})
  /\ Close(p)
  /\ UNCHANGED path

\* The late write goes where the failed one ended, over whatever is there by
\* now.  It fails too, is cut short, or leaves the value or a mixture.
set_close(p) ==
  /\ op[p].pc = "set_close"
  /\ \E c \in {content[op[p].fd], op[p].val, Garbled} :
       content' = [content EXCEPT ![op[p].fd] = c]
  /\ Settle(p, {op[p].val, Empty, Garbled})
  /\ UNCHANGED <<path, holder>>

-----------------------------------------------------------------------------
(* kv_get *)

get_open(p) ==
  /\ p \in Getter
  /\ op[p].pc = "idle"
  /\ path # NoFile
  /\ op' = [op EXCEPT ![p] = [Idle EXCEPT !.pc = "get_lock", !.fd = path]]
  /\ UNCHANGED <<path, content, holder, may>>
  /\ window' = [window EXCEPT ![p] = may]

get_flock(p) == op[p].pc = "get_lock" /\ Flock(p, "get_read")

get_read(p) ==
  /\ op[p].pc = "get_read"
  /\ op' = [op EXCEPT ![p] = Idle]
  /\ Close(p)
  /\ UNCHANGED <<path, content, may>>
  /\ window' = [window EXCEPT ![p] = {}]

-----------------------------------------------------------------------------
(* kv_del *)

del_exists(p) ==
  /\ p \in Deleter
  /\ op[p].pc = "idle"
  /\ Begin(p, [Idle EXCEPT !.pc = IF path # NoFile THEN "del_remove"
                                                   ELSE "del_search"])
  /\ UNCHANGED <<path, content, holder>>

\* The key as a pattern matches itself, if there is a file by now; else the
\* call fails.
del_remove(p) ==
  /\ op[p].pc \in DelPc
  /\ path' = NoFile
  /\ Settle(p, {NoFile})
  /\ UNCHANGED <<content, holder>>

-----------------------------------------------------------------------------
\* A process ends in the middle of a call, ...
Crash(p) ==
  /\ op[p].pc \notin {"idle", "set_write", "set_close"}
  /\ op' = [op EXCEPT ![p] = Idle]
  /\ IF \E i \in Inode : Fills(p, i)
     THEN MayBe(may \union {Empty})
     ELSE window' = [window EXCEPT ![p] = {}] /\ UNCHANGED may
  /\ Close(p)
  /\ UNCHANGED <<path, content>>

\* ... or before or in the middle of a write.
CrashWriting(p) ==
  /\ op[p].pc \in {"set_write", "set_close"}
  /\ op' = [op EXCEPT ![p] = Idle]
  /\ \E c \in {content[op[p].fd], Garbled} :
       content' = [content EXCEPT ![op[p].fd] = c]
  /\ MayBe(may \union {Empty, Garbled})
  /\ Close(p)
  /\ UNCHANGED path

set(p) ==
  \/ \E v \in Val, c \in BOOLEAN : set_exists(p, v, c)
  \/ set_open_present(p) \/ set_open_creates(p) \/ set_open_truncates(p)
  \/ set_flock(p) \/ set_refused(p) \/ set_truncate(p)
  \/ set_write(p) \/ set_write_fails(p) \/ set_close(p)

get(p) == get_open(p) \/ get_flock(p) \/ get_read(p)

del(p) == del_exists(p) \/ del_remove(p)

Next == \E p \in Proc : set(p) \/ get(p) \/ del(p) \/ Crash(p) \/ CrashWriting(p)

Spec == Init /\ [][Next]_vars

-----------------------------------------------------------------------------
(* Properties *)

\* The key has a value that some set wrote, or is absent after a delete: the
\* value of the last call that was alone with it, or of a call that overlaps
\* or overlapped another one since.  It is empty only while a set is about to
\* write it; empty, cut short or mixed from two values only after a set whose
\* write failed or whose process ended, until a set has been alone with it.
StoredIsAllowed ==
  \/ Stored \in may
  \/ Stored = Empty /\ \E p \in Proc : Fills(p, path)

\* A get returns a value the key had or may have had while the get was
\* running.  It may see an empty file that a set has just made or emptied by
\* fopen, without the lock; never the gap between ftruncate and fwrite.
GetIsAllowed ==
  \A p \in Proc :
    op[p].pc = "get_read" =>
      LET i == op[p].fd IN
        \/ content[i] \in window[p]
        \/ /\ content[i] = Empty
           /\ \E q \in Proc : Fills(q, i) /\ op[q].pc = "set_lock"

\* The bytes of a file change by the call that has its lock.  There are two
\* exceptions, and only these: fopen "w" of a set that found no file when it
\* looked, and the late write of fclose after a write that failed.
WritesUnderLock ==
  [][\A i \in Inode : content'[i] # content[i] =>
       \E p \in Proc :
         /\ op'[p].pc # op[p].pc
         /\ \/ holder[i] = p
            \/ op[p].pc = "set_open" /\ ~op[p].present /\ path' = i
            \/ op[p].pc = "set_close" /\ op[p].fd = i]_vars
=============================================================================
