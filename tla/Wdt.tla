-------------------------------- MODULE Wdt --------------------------------
(***************************************************************************)
(* The IPMI watchdog of one host in ipmid (ipmid.c).  The host sets, starts *)
(* and resets it with commands; the thread wdt_timer counts it down, every  *)
(* 100 ms, and acts on the power of the host when it expires.               *)
(*                                                                         *)
(* The commands and each count run under the mutex of the watchdog and are  *)
(* one step each; the action is executed behind the mutex, in several calls *)
(* into the platform library.  A command that asks for a pre-timeout is     *)
(* refused and changes nothing, nor does the command that reads the timer.  *)
(***************************************************************************)
EXTENDS Naturals

CONSTANTS
  Use,       \* what the host may use the timer for
  MaxCount   \* the longest time it may set, 2^16 - 1 in the code

ASSUME WdtAssumption == MaxCount \in Nat

Count == 0 .. MaxCount
Action == {"none", "reset", "off", "cycle", "reserved"}
PowerAction == {"reset", "off", "cycle"}

VARIABLES
  valid, run, no_log, use, action, expiration,
  init_count_down, present_count_down,
  pc, todo,         \* wdt_timer, and its local action
  host,             \* "off", "up" or "hung": on, and sends nothing
  crashdump,        \* autodump: "none", "timed" (runs, within its time), "overdue"
  fru_post, restart_cause,
  \* What the properties speak of.
  ticks,            \* counts since the timer was loaded
  armed,            \* the host started the timer and has not stopped it, nor has
                    \* it expired or seen the host off, since
  owed,             \* the action of an expiry that was neither executed nor dropped
  dumped,           \* a dump within its time runs since before the timer expired
  missed            \* an action was not executed, and the host still hangs

setting == <<no_log, use, action, init_count_down>>
timer == <<valid, run, expiration, present_count_down>>
platform == <<host, crashdump, fru_post, restart_cause>>
history == <<ticks, armed, owed, dumped, missed>>
vars == <<setting, timer, pc, todo, platform, history>>

TypeOK ==
  /\ valid \in BOOLEAN /\ run \in BOOLEAN /\ no_log \in BOOLEAN
  /\ use \in Use
  /\ action \in Action
  /\ expiration \subseteq Use
  /\ init_count_down \in Count /\ present_count_down \in Count
  /\ pc \in {"tick", "check", "cause", "power"}
  /\ todo \in Action /\ owed \in Action
  /\ host \in {"off", "up", "hung"}
  /\ crashdump \in {"none", "timed", "overdue"}
  /\ fru_post \in BOOLEAN
  /\ restart_cause \in {"other", "watchdog"}
  /\ ticks \in Nat
  /\ armed \in BOOLEAN /\ dumped \in BOOLEAN /\ missed \in BOOLEAN

\* calloc in main
Init ==
  /\ valid = FALSE /\ run = FALSE /\ no_log = FALSE
  /\ use \in Use
  /\ action = "none" /\ expiration = {}
  /\ init_count_down = 0 /\ present_count_down = 0
  /\ pc = "tick" /\ todo = "none"
  /\ host \in {"off", "up"}
  /\ crashdump = "none" /\ fru_post = FALSE /\ restart_cause = "other"
  /\ ticks = 0 /\ armed = FALSE /\ owed = "none"
  /\ dumped = FALSE /\ missed = FALSE

-----------------------------------------------------------------------------
(* The commands of the host *)

\* The timer is not valid before it has been set once.
app_reset_watchdog_timer ==
  /\ host = "up"
  /\ valid
  /\ present_count_down' = init_count_down
  /\ run' = TRUE
  /\ ticks' = 0 /\ armed' = TRUE
  /\ UNCHANGED <<setting, valid, expiration, pc, todo, platform, owed, dumped,
                 missed>>

\* Mutant: a timer that runs on is not loaded.
Load_stopped(n, keep) ==
  /\ init_count_down' = n
  /\ present_count_down' = IF keep /\ run THEN present_count_down ELSE n

Load(n, keep) ==
  /\ init_count_down' = n
  /\ present_count_down' = n

\* keep: the 'do not stop timer' bit; clear: the flags to clear.
app_set_watchdog_timer(u, a, n, log, keep, clear) ==
  /\ host = "up"
  /\ no_log' = ~log
  /\ use' = u
  /\ action' = a
  /\ expiration' = expiration \ clear
  /\ Load(n, keep)
  /\ run' = (run /\ keep)
  /\ valid' = TRUE
  /\ ticks' = 0
  /\ armed' = (armed /\ keep)
  /\ UNCHANGED <<pc, todo, platform, owed, dumped, missed>>

-----------------------------------------------------------------------------
(* wdt_timer *)

\* Mutant: a failed query of the power ends the count.
Counts_if_known(status) == status = "on"

\* The count goes on unless the host is known to be off.
Counts(status) == status # "off"

Decremented == IF present_count_down = 0 THEN 0 ELSE present_count_down - 1

\* What pal_get_server_power may report; it may fail.
Status == {"unknown", IF host = "off" THEN "off" ELSE "on"}

\* Behind the mutex: "if (action)".
AfterCount(a) == pc' = IF a = "none" THEN "tick" ELSE "check"

tick_idle ==
  /\ pc = "tick"
  /\ ~(valid /\ run)
  /\ AfterCount(todo)
  /\ UNCHANGED <<setting, timer, todo, platform, history>>

tick_off ==
  /\ pc = "tick"
  /\ valid /\ run
  /\ \E status \in Status : ~Counts(status)
  /\ run' = FALSE
  /\ armed' = FALSE
  /\ UNCHANGED <<setting, valid, expiration, present_count_down, pc, todo,
                 platform, ticks, owed, dumped, missed>>

tick_count ==
  /\ pc = "tick"
  /\ valid /\ run
  /\ \E status \in Status : Counts(status)
  /\ Decremented # 0
  /\ present_count_down' = Decremented
  /\ ticks' = ticks + 1
  /\ AfterCount(todo)
  /\ UNCHANGED <<setting, valid, run, expiration, todo, platform, armed, owed,
                 dumped, missed>>

StopTimer == run' = FALSE

tick_expires ==
  /\ pc = "tick"
  /\ valid /\ run
  /\ \E status \in Status : Counts(status)
  /\ Decremented = 0
  /\ present_count_down' = 0
  /\ expiration' = expiration \union {use}
  /\ todo' = action
  /\ fru_post' = FALSE
  /\ no_log' = FALSE
  /\ StopTimer
  /\ AfterCount(action)
  /\ ticks' = ticks + 1 /\ armed' = FALSE
  /\ owed' = IF armed THEN action ELSE "none"
  /\ dumped' = (crashdump = "timed")
  /\ UNCHANGED <<use, action, init_count_down, valid, host, crashdump,
                 restart_cause, missed>>

\* Mutant: "action = 0" is left out.
ActionDone_keeps == pc' = "tick" /\ owed' = "none" /\ UNCHANGED todo

ActionDone == pc' = "tick" /\ owed' = "none" /\ todo' = "none"

\* Mutant: the time of the dump is compared the other way round.
crashdump_ongoing_swapped(known) == crashdump = "overdue" /\ known

\* A dump whose end kv_get does not find, or whose time is over, is taken for
\* none although it runs.
crashdump_ongoing(known) == crashdump = "timed" /\ known

act_ignored ==
  /\ pc = "check"
  /\ \E known \in BOOLEAN : crashdump_ongoing(known)
  /\ ActionDone
  /\ missed' = (host = "hung" /\ (missed \/ (~run /\ todo \in PowerAction)))
  /\ UNCHANGED <<setting, timer, platform, ticks, armed, dumped>>

act_checked ==
  /\ pc = "check"
  /\ \E known \in BOOLEAN :
       /\ ~crashdump_ongoing(known)
       /\ dumped' = (dumped /\ known)
  /\ pc' = "cause"
  /\ UNCHANGED <<setting, timer, todo, platform, ticks, armed, owed, missed>>

act_cause ==
  /\ pc = "cause"
  /\ restart_cause' = "watchdog"
  /\ pc' = "power"
  /\ UNCHANGED <<setting, timer, todo, host, crashdump, fru_post, history>>

\* What pal_set_server_power does; nobody looks if it failed.
HostAfter(a) ==
  CASE a = "off"   -> {"off"}
    [] a = "cycle" -> {"up"}
    [] a = "reset" -> IF host = "off" THEN {"off"} ELSE {"up"}
    [] OTHER       -> {host}

act_power ==
  /\ pc = "power"
  /\ host' \in HostAfter(todo)
  /\ ActionDone
  /\ missed' = (missed /\ host' = "hung")
  /\ UNCHANGED <<setting, timer, crashdump, fru_post, restart_cause, ticks,
                 armed, dumped>>

act_power_fails ==
  /\ pc = "power"
  /\ todo \in PowerAction
  /\ ActionDone
  /\ missed' = (host = "hung" /\ (missed \/ ~run))
  /\ UNCHANGED <<setting, timer, platform, ticks, armed, dumped>>

wdt_timer ==
  \/ tick_idle \/ tick_off \/ tick_count \/ tick_expires
  \/ act_ignored \/ act_checked \/ act_cause \/ act_power \/ act_power_fails

-----------------------------------------------------------------------------
(* The host and the rest of the BMC *)

\* The host hangs, is switched on, off or restarted by hand, or goes on.
HostChanges ==
  /\ \/ host = "up" /\ host' \in {"hung", "off"}
     \/ host = "off" /\ host' = "up"
     \/ host = "hung" /\ host' \in {"up", "off"}
  /\ missed' = FALSE
  /\ UNCHANGED <<setting, timer, pc, todo, crashdump, fru_post, restart_cause,
                 ticks, armed, owed, dumped>>

HostPost ==
  /\ host = "up"
  /\ fru_post' = TRUE
  /\ UNCHANGED <<setting, timer, pc, todo, host, crashdump, restart_cause,
                 history>>

\* A dump begins, ends or takes longer than it should.
DumpChanges ==
  /\ \/ crashdump = "none" /\ crashdump' = "timed"
     \/ crashdump = "timed" /\ crashdump' \in {"none", "overdue"}
     \/ crashdump = "overdue" /\ crashdump' = "none"
  /\ dumped' = FALSE
  /\ UNCHANGED <<setting, timer, pc, todo, host, fru_post, restart_cause,
                 ticks, armed, owed, missed>>

HostCommand ==
  \/ app_reset_watchdog_timer
  \/ \E u \in Use, a \in Action, n \in Count, log, keep \in BOOLEAN,
        clear \in SUBSET Use :
       app_set_watchdog_timer(u, a, n, log, keep, clear)

Next == HostCommand \/ wdt_timer \/ HostChanges \/ HostPost \/ DumpChanges

Spec == Init /\ [][Next]_vars

\* The thread of the timer runs and its calls return; a host that hangs need
\* not recover by itself, nor a dump end.
FairSpec == Spec /\ WF_vars(wdt_timer)

-----------------------------------------------------------------------------
(* Properties *)

\* The timer acts on the power of the host once for each time the host started
\* it and it ran out, with the action that was set as it ran out: never twice
\* for one expiry, and never for a timer that had been stopped or had seen its
\* host off.  A host that stops or sets the timer after it ran out does not
\* stop that action.
ActsOnce == [][pc = "power" /\ pc' = "tick" => todo = owed]_vars

\* It expires with the count that completes the time set, never earlier or
\* later, however often it was loaded, stopped and started before; with the
\* time 0, at the first count.
ExpiresOnTime ==
  [][ticks' = ticks + 1 => (~armed' <=> ticks' >= init_count_down)]_vars

\* A crash dump that runs when the timer expires, and is within its time up to
\* the action, is not cut off by it, although the action is executed later and
\* behind the mutex; unless kv_get fails to tell the time of the dump.
DumpSpared == [][pc = "power" /\ pc' = "tick" => ~dumped]_vars

\* A host that hangs while its timer runs is restarted or switched off, even
\* if its power state cannot be read; unless the action is dropped for a crash
\* dump or fails in the platform library.
HungHostRestarted ==
  (host = "hung" /\ run /\ action \in PowerAction) ~> (host # "hung" \/ missed)
=============================================================================
