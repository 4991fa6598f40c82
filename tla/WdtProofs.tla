----------------------------- MODULE WdtProofs -----------------------------
(***************************************************************************)
(* Proofs about the watchdog, for every set of uses and every longest time. *)
(* The invariant says why the timer is on time: while it runs, the counts   *)
(* since it was loaded and the counts to come make up the time that was set. *)
(***************************************************************************)
EXTENDS Wdt, TLAPS

\* The history agrees with the state of the timer.
ArmedRuns == armed = run

\* What is left of the time, while the timer runs.
TimeLeft == run => present_count_down + ticks = init_count_down

\* The thread's local action is the one that is owed; there is none while it
\* counts.
OwesTodo ==
  /\ owed = todo
  /\ pc = "tick" => todo = "none"

\* Behind the test for a crash dump none is left that was there before it.
DumpTested ==
  /\ dumped => crashdump = "timed"
  /\ pc \in {"cause", "power"} => ~dumped

WInv == TypeOK /\ ArmedRuns /\ TimeLeft /\ OwesTodo /\ DumpTested

LEMMA WdtInit == Init => WInv
<1> SUFFICES ASSUME Init PROVE WInv
  OBVIOUS
<1>1. /\ valid \in BOOLEAN /\ run \in BOOLEAN /\ no_log \in BOOLEAN
      /\ fru_post \in BOOLEAN
      /\ armed \in BOOLEAN /\ dumped \in BOOLEAN /\ missed \in BOOLEAN
  BY Zenon DEF Init
<1>2. /\ use \in Use /\ action \in Action /\ expiration \subseteq Use
      /\ todo \in Action /\ owed \in Action
      /\ crashdump \in {"none", "timed", "overdue"}
      /\ pc \in {"tick", "check", "cause", "power"}
      /\ host \in {"off", "up", "hung"}
      /\ restart_cause \in {"other", "watchdog"}
  BY Zenon DEF Init, Action
<1>3. init_count_down \in Count /\ present_count_down \in Count /\ ticks \in Nat
  BY WdtAssumption, SMT DEF Init, Count
<1>4. TypeOK
  BY <1>1, <1>2, <1>3, Zenon DEF TypeOK
<1>5. ArmedRuns /\ TimeLeft /\ OwesTodo /\ DumpTested
  BY Zenon DEF Init, ArmedRuns, TimeLeft, OwesTodo, DumpTested
<1> QED BY <1>4, <1>5 DEF WInv

\* A new setting keeps the invariant.
LEMMA SetKeeps ==
  ASSUME WInv,
         NEW u \in Use, NEW a \in Action, NEW n \in Count, NEW log \in BOOLEAN,
         NEW keep \in BOOLEAN, NEW clear \in SUBSET Use,
         app_set_watchdog_timer(u, a, n, log, keep, clear)
  PROVE  WInv'
<1> USE DEF WInv, app_set_watchdog_timer, Load, platform
<1>1. TypeOK'
  BY WdtAssumption DEF TypeOK, Count
<1>2. ArmedRuns'
  BY DEF ArmedRuns, TypeOK
<1>3. TimeLeft'
  BY DEF TimeLeft, Count
<1>4. OwesTodo' /\ DumpTested'
  BY DEF OwesTodo, DumpTested
<1> QED BY <1>1, <1>2, <1>3, <1>4

\* Each step of the thread keeps the invariant.
LEMMA TimerKeeps == ASSUME WInv, wdt_timer PROVE WInv'
<1> USE DEF WInv, setting, timer, platform, history
<1>0. present_count_down \in Nat /\ init_count_down \in Nat /\ ticks \in Nat
  BY WdtAssumption DEF TypeOK, Count
<1>1. CASE tick_idle
  BY <1>1 DEF tick_idle, AfterCount, TypeOK, ArmedRuns, TimeLeft, OwesTodo,
              DumpTested
<1>2. CASE tick_off
  BY <1>2 DEF tick_off, TypeOK, ArmedRuns, TimeLeft, OwesTodo, DumpTested
<1>3. CASE tick_count
  <2>1. /\ present_count_down' = present_count_down - 1
        /\ present_count_down' \in Count /\ ticks' = ticks + 1
        /\ pc = "tick" /\ todo = "none" /\ pc' = "tick"
        /\ UNCHANGED <<setting, valid, run, expiration, todo, platform,
                       armed, owed, dumped, missed>>
    BY <1>0, <1>3, WdtAssumption
       DEF tick_count, Decremented, AfterCount, OwesTodo, TypeOK, Count
  <2>2. TypeOK'
    BY <1>0, <2>1 DEF TypeOK
  <2>3. TimeLeft'
    BY <1>0, <2>1 DEF TimeLeft
  <2> QED BY <2>1, <2>2, <2>3 DEF ArmedRuns, OwesTodo, DumpTested
<1>4. CASE tick_expires
  <2>1. /\ use \in Use /\ expiration \subseteq Use
        /\ expiration' = expiration \union {use}
        /\ action \in Action /\ todo' = action
        /\ pc' = IF action = "none" THEN "tick" ELSE "check"
        /\ fru_post' = FALSE /\ no_log' = FALSE /\ run /\ run' = FALSE
        /\ armed' = FALSE /\ dumped' = (crashdump = "timed")
        /\ owed' = IF armed THEN action ELSE "none"
        /\ present_count_down' = 0 /\ ticks' = ticks + 1
        /\ UNCHANGED <<use, action, init_count_down, valid, host, crashdump,
                       restart_cause, missed>>
    BY <1>4 DEF tick_expires, StopTimer, AfterCount, TypeOK
  <2>2. /\ expiration' \subseteq Use /\ todo' \in Action /\ owed' = action
        /\ pc' \in {"tick", "check", "cause", "power"}
    BY <2>1 DEF ArmedRuns
  <2>3. present_count_down' \in Count /\ ticks' \in Nat
    BY <1>0, <2>1, WdtAssumption DEF Count
  <2>4. /\ run' \in BOOLEAN /\ no_log' \in BOOLEAN /\ fru_post' \in BOOLEAN
        /\ armed' \in BOOLEAN /\ dumped' \in BOOLEAN
    BY <2>1, Zenon DEF TypeOK
  <2>5. TypeOK'
    BY <2>1, <2>2, <2>3, <2>4 DEF TypeOK
  <2>6. ArmedRuns' /\ TimeLeft' /\ DumpTested'
    BY <2>1 DEF ArmedRuns, TimeLeft, DumpTested
  <2>7. OwesTodo'
    BY <2>1, <2>2 DEF OwesTodo
  <2> QED BY <2>5, <2>6, <2>7
<1>5. CASE act_ignored
  BY <1>5 DEF act_ignored, ActionDone, TypeOK, Action, ArmedRuns, TimeLeft,
              OwesTodo, DumpTested
<1>6. CASE act_checked
  <2>1. PICK known \in BOOLEAN :
          ~(crashdump = "timed" /\ known) /\ dumped' = (dumped /\ known)
    BY <1>6 DEF act_checked, crashdump_ongoing
  <2>2. dumped' = FALSE
    BY <2>1 DEF DumpTested, TypeOK
  <2> QED BY <1>6, <2>2 DEF act_checked, TypeOK, ArmedRuns, TimeLeft, OwesTodo,
                            DumpTested
<1>7. CASE act_cause
  BY <1>7 DEF act_cause, TypeOK, ArmedRuns, TimeLeft, OwesTodo, DumpTested
<1>8. CASE act_power
  <2>1. host' \in {"off", "up", "hung"}
    BY <1>8 DEF act_power, HostAfter, TypeOK
  <2> QED BY <1>8, <2>1 DEF act_power, ActionDone, TypeOK, Action, ArmedRuns,
                            TimeLeft, OwesTodo, DumpTested
<1>9. CASE act_power_fails
  BY <1>9 DEF act_power_fails, ActionDone, TypeOK, Action, ArmedRuns, TimeLeft,
              OwesTodo, DumpTested
<1> QED BY <1>1, <1>2, <1>3, <1>4, <1>5, <1>6, <1>7, <1>8, <1>9 DEF wdt_timer

\* The host, its operators and the dump keep it too.
LEMMA WdtStep == ASSUME WInv, Next PROVE WInv'
<1> USE DEF WInv, setting, timer, platform, history
<1>1. CASE app_reset_watchdog_timer
  <2>1. TypeOK' /\ ArmedRuns' /\ OwesTodo' /\ DumpTested'
    BY <1>1 DEF app_reset_watchdog_timer, TypeOK, ArmedRuns, OwesTodo, DumpTested
  <2>2. TimeLeft'
    BY <1>1, WdtAssumption DEF app_reset_watchdog_timer, TypeOK, Count, TimeLeft
  <2> QED BY <2>1, <2>2
<1>2. CASE wdt_timer
  BY <1>2, TimerKeeps
<1>3. CASE HostChanges
  BY <1>3 DEF HostChanges, TypeOK, ArmedRuns, TimeLeft, OwesTodo, DumpTested
<1>4. CASE HostPost
  BY <1>4 DEF HostPost, TypeOK, ArmedRuns, TimeLeft, OwesTodo, DumpTested
<1>5. CASE DumpChanges
  <2>1. /\ crashdump' \in {"none", "timed", "overdue"} /\ dumped' = FALSE
        /\ UNCHANGED <<setting, timer, pc, todo, host, fru_post, restart_cause,
                       ticks, armed, owed, missed>>
    BY <1>5, Zenon DEF DumpChanges
  <2>2. dumped' \in BOOLEAN
    BY <2>1, Zenon
  <2>3. TypeOK'
    BY <2>1, <2>2 DEF TypeOK
  <2> QED BY <2>1, <2>3 DEF ArmedRuns, TimeLeft, OwesTodo, DumpTested
<1> QED BY <1>1, <1>2, <1>3, <1>4, <1>5, SetKeeps DEF Next, HostCommand

LEMMA WdtInvariant == Spec => []WInv
<1>1. WInv /\ [Next]_vars => WInv'
  <2> SUFFICES ASSUME WInv, [Next]_vars PROVE WInv'
    OBVIOUS
  <2>1. CASE UNCHANGED vars
    BY <2>1 DEF vars, setting, timer, platform, history, WInv, TypeOK,
                ArmedRuns, TimeLeft, OwesTodo, DumpTested
  <2> QED BY <2>1, WdtStep
<1> QED BY <1>1, WdtInit, PTL DEF Spec

\* The count never wraps below 0, and every variable stays in its range.
THEOREM TypeCorrect == Spec => []TypeOK
<1>1. WInv => TypeOK
  BY DEF WInv
<1> QED BY <1>1, WdtInvariant, PTL

\* Only the steps of the timer that count change the number of counts by one.
LEMMA WhoCounts ==
  ASSUME WInv, Next, ticks' = ticks + 1
  PROVE  tick_count \/ tick_expires
<1>1. ticks \in Nat
  BY DEF WInv, TypeOK
<1> QED BY <1>1 DEF Next, HostCommand, wdt_timer, app_reset_watchdog_timer,
     app_set_watchdog_timer, tick_idle, tick_off, act_ignored, act_checked, act_cause,
     act_power, act_power_fails, HostChanges, HostPost, DumpChanges, history

\* One action on the host for each expiry of a timer the host had started, for
\* any interleaving of its commands with the thread.
THEOREM AlwaysActsOnce == Spec => ActsOnce
<1>1. WInv /\ [Next]_vars => [pc = "power" /\ pc' = "tick" => todo = owed]_vars
  BY DEF WInv, OwesTodo, vars
<1> QED BY <1>1, WdtInvariant, PTL DEF Spec, ActsOnce

\* The timer expires with the count that completes the time set, for every
\* time and whatever the host did before.
THEOREM AlwaysOnTime == Spec => ExpiresOnTime
<1>1. WInv /\ [Next]_vars
        => [ticks' = ticks + 1 => (~armed' <=> ticks' >= init_count_down)]_vars
  <2> SUFFICES ASSUME WInv, Next, ticks' = ticks + 1
               PROVE  ~armed' <=> ticks' >= init_count_down
    BY DEF vars
  <2>0. /\ present_count_down \in Nat /\ init_count_down \in Nat /\ ticks \in Nat
    BY WdtAssumption DEF WInv, TypeOK, Count
  <2>1. CASE tick_count
    <3>1. run /\ armed' = armed /\ Decremented # 0
      BY <2>1 DEF tick_count
    <3>2. armed'
      BY <3>1 DEF WInv, ArmedRuns
    <3>3. present_count_down + ticks = init_count_down
      BY <3>1 DEF WInv, TimeLeft
    <3>4. present_count_down > 1
      BY <2>0, <3>1 DEF Decremented
    <3>5. ~(ticks' >= init_count_down)
      BY <2>0, <3>3, <3>4
    <3> QED BY <3>2, <3>5
  <2>2. CASE tick_expires
    <3>1. run /\ ~armed' /\ Decremented = 0
      BY <2>2 DEF tick_expires
    <3>2. present_count_down + ticks = init_count_down
      BY <3>1 DEF WInv, TimeLeft
    <3>3. present_count_down <= 1
      BY <2>0, <3>1 DEF Decremented
    <3>4. ticks' >= init_count_down
      BY <2>0, <3>2, <3>3
    <3> QED BY <3>1, <3>4
  <2> QED BY <2>1, <2>2, WhoCounts
<1> QED BY <1>1, WdtInvariant, PTL DEF Spec, ExpiresOnTime

\* The action of the timer never hits a crash dump that was running as it
\* expired and is within its time, if kv_get tells that time, although the test
\* and the action are behind the mutex.
THEOREM DumpAlwaysSpared == Spec => DumpSpared
<1>1. WInv /\ [Next]_vars => [pc = "power" /\ pc' = "tick" => ~dumped]_vars
  BY DEF WInv, DumpTested, vars
<1> QED BY <1>1, WdtInvariant, PTL DEF Spec, DumpSpared
=============================================================================
