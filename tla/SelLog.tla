------------------------------- MODULE SelLog -------------------------------
(***************************************************************************)
(* What the System Event Log of one node is to its users: a log of at most  *)
(* Max records that drops its oldest record to make room, with a copy in a  *)
(* file that a restart of ipmid goes back to.  What the file has of a record *)
(* is decided when the record is added: the record, with another time stamp *)
(* perhaps, or nothing of it.  Records never change, move or appear out of  *)
(* order otherwise, and the copy is never taken while one is being added.   *)
(***************************************************************************)
EXTENDS Naturals, Sequences

CONSTANTS Record, Lost, Max

VARIABLES
  log,     \* what is read
  stored,  \* what the file has of each record of log
  saved,   \* what a restart goes back to
  adding   \* a record is being added

logVars == <<log, stored, saved, adding>>

LogInit == log = <<>> /\ stored = <<>> /\ saved = <<>> /\ adding = FALSE

\* What the file may have of the record r.
Images(r) == {s \in Record : s.id = r.id} \cup {Lost}

\* A record is to be added: a full log loses its oldest record, no other.
Begin ==
  /\ ~adding
  /\ adding' = TRUE
  /\ \/ Len(log) = Max /\ log' = Tail(log) /\ stored' = Tail(stored)
     \/ Len(log) # Max /\ UNCHANGED <<log, stored>>
  /\ UNCHANGED saved

Push(r, s) ==
  /\ adding
  /\ adding' = FALSE
  /\ log' = Append(log, r)
  /\ stored' = Append(stored, s)
  /\ UNCHANGED saved

\* The record could not be stored, and the caller is told.
GiveUp == adding /\ adding' = FALSE /\ UNCHANGED <<log, stored, saved>>

Clear == ~adding /\ log' = <<>> /\ stored' = <<>> /\ UNCHANGED <<saved, adding>>

Save == ~adding /\ saved' = stored /\ UNCHANGED <<log, stored, adding>>

Restart == log' = saved /\ stored' = saved /\ adding' = FALSE /\ UNCHANGED saved

LogNext ==
  \/ Begin
  \/ \E r \in Record : \E s \in Images(r) : Push(r, s)
  \/ GiveUp
  \/ Clear
  \/ Save
  \/ Restart

LogSpec == LogInit /\ [][LogNext]_logVars
=============================================================================
