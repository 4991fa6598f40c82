----------------------------- MODULE PollThread -----------------------------
(***************************************************************************)
(* The poll threads of rackmond (PollThread.h): a worker that calls func_   *)
(* once at its start and then each interval or tick, until it is stopped.   *)
(*                                                                         *)
(* eventMutex_ is held over more than one step only while func_ is called   *)
(* for the first time; the other critical sections are single steps, which  *)
(* wait for that one.  What func_ does is up to the module that extends     *)
(* this one.  No caller in the daemon uses the blocking form of tick.       *)
(***************************************************************************)
CONSTANT Poll     \* the poll threads

VARIABLES
  worker,         \* where the worker of each thread is; "none" without one
  started_, tick_

pollVars == <<worker, started_, tick_>>

WorkerPc == {"none", "created", "first", "asleep", "func", "after", "ended"}

PollTypeOK ==
  /\ worker \in [Poll -> WorkerPc]
  /\ started_ \in [Poll -> BOOLEAN]
  /\ tick_ \in [Poll -> BOOLEAN]

PollInit ==
  /\ worker = [t \in Poll |-> "none"]
  /\ started_ = [t \in Poll |-> FALSE]
  /\ tick_ = [t \in Poll |-> FALSE]

\* The worker has eventMutex_ while it calls func_ for the first time.
Locked(t) == worker[t] = "first"

InFunc(t) == worker[t] \in {"first", "func"}

WorkerGoto(t, l) == worker' = [worker EXCEPT ![t] = l]

\* Mutant: the loop does not look at started_.
LoopOrEnd_for_ever(t) == WorkerGoto(t, "asleep")

\* What the loop does next, with the mutex held: it waits or ends.
LoopOrEnd(t) == WorkerGoto(t, IF started_[t] THEN "asleep" ELSE "ended")

-----------------------------------------------------------------------------
\* A new object, and start().
start(t) ==
  /\ worker[t] = "none"
  /\ WorkerGoto(t, "created")
  /\ started_' = [started_ EXCEPT ![t] = TRUE]
  /\ UNCHANGED tick_

\* tick(true)
tick(t) ==
  /\ ~Locked(t)
  /\ tick_' = [tick_ EXCEPT ![t] = TRUE]
  /\ UNCHANGED <<worker, started_>>

notifyStop(t) ==
  /\ ~Locked(t)
  /\ started_' = [started_ EXCEPT ![t] = FALSE]
  /\ UNCHANGED <<worker, tick_>>

\* Mutant: the thread is not waited for.
join_detaches(t) ==
  /\ WorkerGoto(t, "none")
  /\ tick_' = [tick_ EXCEPT ![t] = FALSE]
  /\ UNCHANGED started_

\* The rest of stop(): the worker is joined and the object goes.
join(t) ==
  /\ worker[t] = "ended"
  /\ WorkerGoto(t, "none")
  /\ tick_' = [tick_ EXCEPT ![t] = FALSE]
  /\ UNCHANGED started_

\* "Call once at start": also if it has been stopped by now.
worker_first(t) ==
  /\ worker[t] = "created"
  /\ WorkerGoto(t, "first")
  /\ UNCHANGED <<started_, tick_>>

\* wait_for returns: on a tick, on a stop, or after the interval.
worker_wakes(t) ==
  /\ worker[t] = "asleep"
  /\ \/ /\ started_[t]
        /\ WorkerGoto(t, "func")
        /\ UNCHANGED tick_
     \/ /\ ~started_[t]
        /\ LoopOrEnd(t)
        /\ tick_' = [tick_ EXCEPT ![t] = FALSE]
  /\ UNCHANGED started_

\* func_ returns; the mutex is not yet taken again.
func_returns(t) ==
  /\ \/ worker[t] = "first" /\ LoopOrEnd(t)
     \/ worker[t] = "func" /\ WorkerGoto(t, "after")
  /\ UNCHANGED <<started_, tick_>>

\* A tick that came while func_ was running is taken as done.
worker_acks(t) ==
  /\ worker[t] = "after"
  /\ tick_' = [tick_ EXCEPT ![t] = FALSE]
  /\ LoopOrEnd(t)
  /\ UNCHANGED started_
=============================================================================
