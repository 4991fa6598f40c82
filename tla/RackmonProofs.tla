---------------------------- MODULE RackmonProofs ----------------------------
(***************************************************************************)
(* Proofs about Rackmon, for every number of addresses and of registers, any *)
(* devices, any numbers of attempts and any requests of clients.            *)
(***************************************************************************)
EXTENDS Rackmon, TLAPS

(***************************************************************************)
(* The inductive invariant, in parts.                                       *)
(***************************************************************************)

\* A worker exists only behind a pointer to its thread, and how far the client
\* that pauses and resumes has come says which pointers are set.
Control ==
  /\ \A t \in Poll : worker[t] # "none" => present[t]
  /\ cpc = "paused" => ~present["scan"]
  /\ cpc \in {"paused", "stop_scan", "join_scan"} => ~present["monitor"]
  /\ cpc \in {"running", "stop_flag"} => (present["scan"] => present["monitor"])

\* scan() is at work only inside its worker, sends commands only while it looks
\* at a dormant device, and inserts only at an address.
ScanInside ==
  /\ scan.pc # "idle" => InFunc("scan")
  /\ scan.pc = "idle" => scan = ScanIdle
  /\ scan.pc = "full_insert" => scan.pos \in Addr
  /\ cmd["scan"].st # "none" => scan.pc = "inspect" /\ scan.pos \in Addr

\* monitor() is at work only inside its worker, sends commands only inside its
\* loop, and is at a register only of a device that is known.
MonitorInside ==
  /\ mpos # 0 => InFunc("monitor")
  /\ mreg # 0 => mpos \in Addr /\ isDeviceKnown(mpos)
  /\ cmd["monitor"].st # "none" => mpos # 0

\* A command that is under way has an attempt left and is for a known device.
CommandsKnown ==
  \A u \in User :
    /\ cmd[u].st = "none" => cmd[u] = NoCommand
    /\ Sending(u) => /\ cmd[u].left # 0
                     /\ cmd[u].addr \in Addr
                     /\ isDeviceKnown(cmd[u].addr)

\* No full scan has begun since a request that is owed, so none can take the
\* flag back.
Owed == owed = "yes" => reqForceScan_ /\ ~InFullScan

\* Where scan() is about to insert a device, or has tried an address and will try
\* it again without another look, there is none yet.
Unknown ==
  /\ NeverReplaced
  /\ scan.pc = "full" /\ scan.tries # 0 =>
       scan.pos \in Addr /\ mode[scan.pos] = "unknown"

RInv ==
  /\ TypeOK /\ Control /\ ScanInside /\ MonitorInside /\ CommandsKnown
  /\ Unknown /\ Owed

-----------------------------------------------------------------------------
\* What the constants are, for the provers.
LEMMA Constants ==
  /\ LastAddr \in Nat /\ LastAddr >= 1
  /\ NumRegs \in Nat
  /\ kMaxConsecutiveFailures \in Nat /\ kMaxConsecutiveFailures >= 1
  /\ kScanNumRetry \in Nat /\ kScanNumRetry >= 1
  /\ numCommandRetries \in Nat /\ numCommandRetries >= 1
  /\ Poll = {"scan", "monitor"} /\ "scan" \in Poll /\ "monitor" \in Poll
  /\ "scan" \in User /\ "monitor" \in User /\ "client" \in User
  /\ \A a \in Addr : a \in Nat /\ a >= 1 /\ a <= LastAddr
  /\ \A a \in Nat : a >= 1 /\ a <= LastAddr => a \in Addr
BY RackmonAssumption DEF Addr, User

\* Nothing is at work, nothing is known and the first full scan is wanted.
LEMMA RInvInit == ASSUME Init PROVE RInv
<1>1. TypeOK
  <2>1. ScanIdle \in ScanState
    BY Constants DEF ScanIdle, ScanState
  <2>2. NoCommand \in Command
    BY Constants DEF NoCommand, Command
  <2>3. 1 \in Addr /\ 0 \in 0 .. LastAddr + 1 /\ 0 \in 0 .. NumRegs
        /\ 0 \in 0 .. kMaxConsecutiveFailures
    BY Constants
  <2> QED BY <2>1, <2>2, <2>3
          DEF Init, PollInit, TypeOK, PollTypeOK, WorkerPc, CtlPc
<1>2. Control /\ Owed
  BY Constants DEF Init, PollInit, Control, Owed, InFullScan, ScanIdle
<1>3. ScanInside /\ MonitorInside /\ CommandsKnown /\ Unknown
  BY Constants DEF Init, ScanInside, MonitorInside, CommandsKnown, Unknown, NeverReplaced,
                   Sending, ScanIdle, NoCommand
<1> QED BY <1>1, <1>2, <1>3 DEF RInv


\* Which devices are known does not change.
KnownSame == \A a \in Addr : isDeviceKnown(a)' = isDeviceKnown(a)

\* What a command may look like: over and forgotten, over for scan(), or under
\* way to the device at a.
Proper(c, a) ==
  /\ c \in Command
  /\ c.st = "none" => c = NoCommand
  /\ c.st \in {"try", "count"} => c.left # 0 /\ c.addr = a

\* The end of a command, and the attempt behind a failed one.
LEMMA ProperCommands ==
  ASSUME NEW u \in User, cmd \in [User -> Command], Sending(u), cmd[u].left # 0,
         CommandEnds(u, "ok") \/ NextAttempt(u)
  PROVE  \E c : Proper(c, cmd[u].addr) /\ cmd' = [cmd EXCEPT ![u] = c]
<1>1. NoCommand \in Command
  BY Constants DEF NoCommand, Command
<1>2. ASSUME NEW r \in {"ok", "fail"}, CommandEnds(u, r)
      PROVE  \E c : Proper(c, cmd[u].addr) /\ cmd' = [cmd EXCEPT ![u] = c]
  <2> DEFINE c == [NoCommand EXCEPT !.st = IF u = "scan" THEN r ELSE "none"]
  <2>1. Proper(c, cmd[u].addr)
    BY <1>1, Constants DEF Proper, NoCommand, Command
  <2> QED BY <1>2, <2>1 DEF CommandEnds
<1>3. CASE NextAttempt(u) /\ cmd[u].left # 1
  <2> DEFINE c == [cmd[u] EXCEPT !.st = "try", !.seen = 0, !.left = cmd[u].left - 1]
  <2>1. cmd[u] \in Command
    OBVIOUS
  <2>2. cmd[u].left - 1 \in 0 .. numCommandRetries /\ cmd[u].left - 1 # 0
    BY <1>3, <2>1, Constants DEF Command
  <2>3. Proper(c, cmd[u].addr)
    <3>0. 0 \in 0 .. kMaxConsecutiveFailures
      BY Constants
    <3>1. c \in Command
      BY <2>1, <2>2, <3>0 DEF Command
    <3>2. c.st = "try" /\ c.left # 0 /\ c.addr = cmd[u].addr
      BY <2>1, <2>2 DEF Command
    <3> QED BY <3>1, <3>2 DEF Proper
  <2>4. cmd' = [cmd EXCEPT ![u] = c]
    BY <1>3 DEF NextAttempt
  <2> QED BY <2>3, <2>4
<1> QED BY <1>2, <1>3 DEF NextAttempt

\* What a step of a command does: one more attempt or the end of it, and the
\* mode and the counter of its device.
LEMMA CommandEffect ==
  ASSUME RInv, NEW u \in User, CommandStep(u)
  PROVE  /\ Sending(u)
         /\ \E c : Proper(c, cmd[u].addr) /\ cmd' = [cmd EXCEPT ![u] = c]
         /\ mode' \in [Addr -> {"unknown", "ACTIVE", "DORMANT"}] /\ KnownSame
         /\ fails' \in [Addr -> 0 .. kMaxConsecutiveFailures]
         /\ UNCHANGED <<pollVars, exclusive, scanVars, monVars, ctlVars, reqVars>>
<1>0. /\ cmd \in [User -> Command] /\ cmd[u] \in Command
      /\ mode \in [Addr -> {"unknown", "ACTIVE", "DORMANT"}]
      /\ fails \in [Addr -> 0 .. kMaxConsecutiveFailures]
      /\ Sending(u) => /\ cmd[u].left # 0 /\ cmd[u].addr \in Addr
                       /\ mode[cmd[u].addr] # "unknown"
  BY DEF RInv, TypeOK, CommandsKnown, isDeviceKnown
<1>1. CASE command_ok(u)
  <2>1. Sending(u) /\ CommandEnds(u, "ok")
    BY <1>1 DEF command_ok, Sending
  <2>2. fails' \in [Addr -> 0 .. kMaxConsecutiveFailures]
    <3>1. 0 \in 0 .. kMaxConsecutiveFailures
      BY Constants
    <3> QED BY <1>0, <1>1, <3>1 DEF command_ok
  <2> QED BY <1>0, <1>1, <2>1, <2>2, ProperCommands
          DEF command_ok, KnownSame, isDeviceKnown
<1>2. CASE command_refused(u)
  <2>1. Sending(u) /\ NextAttempt(u)
    BY <1>2 DEF command_refused, Sending
  <2> QED BY <1>0, <1>2, <2>1, ProperCommands
          DEF command_refused, devVars, KnownSame, isDeviceKnown
<1>3. CASE command_fails(u)
  <2> DEFINE c == [cmd[u] EXCEPT !.st = "count", !.seen = fails[cmd[u].addr]]
  <2>1. Sending(u) /\ cmd' = [cmd EXCEPT ![u] = c]
    BY <1>3 DEF command_fails, Sending
  <2>2. fails[cmd[u].addr] \in 0 .. kMaxConsecutiveFailures
    BY <1>0, <2>1
  <2>3. Proper(c, cmd[u].addr)
    BY <1>0, <2>1, <2>2 DEF Proper, Command
  <2> QED BY <1>0, <1>3, <2>1, <2>3
          DEF command_fails, devVars, KnownSame, isDeviceKnown
<1>4. CASE handleCommandFailure(u)
  <2>1. Sending(u) /\ NextAttempt(u)
    BY <1>4 DEF handleCommandFailure, Sending
  <2>2. cmd[u].seen \in Nat /\ cmd[u].addr \in Addr
    BY <1>0, <2>1, Constants DEF Command
  <2>3. fails' \in [Addr -> 0 .. kMaxConsecutiveFailures]
    BY <1>0, <1>4, <2>2, Constants DEF handleCommandFailure
  <2>4. mode' \in [Addr -> {"unknown", "ACTIVE", "DORMANT"}] /\ KnownSame
    BY <1>0, <1>4, <2>1 DEF handleCommandFailure, KnownSame, isDeviceKnown
  <2> QED BY <1>0, <1>4, <2>1, <2>3, <2>4, ProperCommands
          DEF handleCommandFailure
<1> QED BY <1>1, <1>2, <1>3, <1>4 DEF CommandStep

LEMMA RInvCommand ==
  ASSUME RInv, NEW u \in User, CommandStep(u) PROVE RInv'
<1>1. PICK c : Proper(c, cmd[u].addr) /\ cmd' = [cmd EXCEPT ![u] = c]
  BY CommandEffect
<1>2. /\ Sending(u) /\ KnownSame
      /\ UNCHANGED <<pollVars, exclusive, scanVars, monVars, ctlVars, reqVars>>
  BY CommandEffect
<1>3. /\ TypeOK /\ Control /\ ScanInside /\ MonitorInside /\ CommandsKnown
      /\ Unknown /\ Owed /\ cmd \in [User -> Command]
  BY DEF RInv, TypeOK
<1>4. /\ cmd' \in [User -> Command] /\ cmd'[u] = c
      /\ \A v \in User : v # u => cmd'[v] = cmd[v]
  BY <1>1, <1>3 DEF Proper
<1>5. TypeOK'
  BY <1>2, <1>3, <1>4, CommandEffect
     DEF TypeOK, PollTypeOK, pollVars, scanVars, monVars, ctlVars, reqVars
<1>6. Control' /\ Owed'
  BY <1>2, <1>3 DEF Control, Owed, InFullScan, pollVars, scanVars, ctlVars, reqVars
<1>7. ScanInside' /\ MonitorInside'
  BY <1>2, <1>3, <1>4, Constants
     DEF ScanInside, MonitorInside, InFunc, Sending, KnownSame, pollVars, scanVars,
         monVars, isDeviceKnown
<1>8. CommandsKnown'
  BY <1>1, <1>2, <1>3, <1>4 DEF CommandsKnown, Sending, Proper, KnownSame, isDeviceKnown
<1>9. Unknown'
  BY <1>2, <1>3 DEF Unknown, NeverReplaced, KnownSame, isDeviceKnown, ScanInside, TypeOK, scanVars
<1> QED BY <1>5, <1>6, <1>7, <1>8, <1>9 DEF RInv

-----------------------------------------------------------------------------
\* A step that leaves scan(), monitor(), commands, devices and requests alone
\* and puts no thread into or out of its function while that is at work.
LEMMA RInvThreads ==
  ASSUME RInv, TypeOK', Control',
         UNCHANGED <<mode, scanVars, monVars, reqVars, cmd>>,
         scan.pc # "idle" /\ InFunc("scan") => InFunc("scan")',
         mpos # 0 /\ InFunc("monitor") => InFunc("monitor")'
  PROVE  RInv'
<1>1. ScanInside' /\ MonitorInside'
  BY DEF RInv, ScanInside, MonitorInside, scanVars, monVars, isDeviceKnown
<1>2. CommandsKnown' /\ Unknown' /\ Owed'
  BY DEF RInv, CommandsKnown, Unknown, NeverReplaced, Owed, Sending, InFullScan, scanVars,
         reqVars, isDeviceKnown
<1> QED BY <1>1, <1>2 DEF RInv

\* The worker of a poll thread, outside its function.
LEMMA RInvWorker == ASSUME RInv, NEW t \in Poll, Worker(t) PROVE RInv'
<1>0. /\ TypeOK /\ Control /\ worker \in [Poll -> WorkerPc]
      /\ UNCHANGED <<devVars, scanVars, monVars, ctlVars, reqVars, cmd>>
  BY DEF RInv, TypeOK, PollTypeOK, Worker
<1>1. /\ PollTypeOK' /\ worker[t] \notin {"none", "first", "func"}
      /\ worker' = [worker EXCEPT ![t] = worker'[t]]
  BY <1>0 DEF TypeOK, PollTypeOK, WorkerPc, Worker, worker_first, worker_wakes,
              worker_acks, WorkerGoto, LoopOrEnd
<1>2. TypeOK'
  BY <1>0, <1>1 DEF TypeOK, devVars, scanVars, monVars, ctlVars, reqVars
<1>3. \A r \in Poll : r # t => worker'[r] = worker[r]
  BY <1>0, <1>1
<1>4. Control'
  BY <1>0, <1>1, <1>3 DEF Control, ctlVars
<1>5. \A r \in Poll : InFunc(r) => InFunc(r)'
  BY <1>1, <1>3 DEF InFunc
<1> QED BY <1>0, <1>2, <1>4, <1>5, RInvThreads, Constants DEF devVars

\* Starting and stopping a thread, and what only touches its flags.
LEMMA RInvControl ==
  ASSUME RInv, \/ forceScan_tick \/ start_scan \/ start_monitor
               \/ stop_thread("monitor", "stop_monitor", "join_monitor")
               \/ stop_thread("scan", "stop_scan", "join_scan")
               \/ stop_exclusive \/ join_monitor \/ join_scan
  PROVE  RInv'
<1>0. /\ TypeOK /\ Control /\ worker \in [Poll -> WorkerPc]
      /\ present \in [Poll -> BOOLEAN]
  BY DEF RInv, TypeOK, PollTypeOK
<1>1. UNCHANGED <<mode, scanVars, monVars, reqVars, cmd>>
  BY DEF forceScan_tick, start_scan, start_monitor, StartThread, stop_thread,
         stop_exclusive, join_monitor, join_scan, devVars
<1>2. TypeOK'
  <2>1. PollTypeOK'
    BY <1>0, Constants
       DEF TypeOK, PollTypeOK, WorkerPc, forceScan_tick, start_scan,
           start_monitor, StartThread, stop_thread, stop_exclusive, join_monitor,
           join_scan, start, tick, notifyStop, join, WorkerGoto, pollVars
  <2>2. /\ fails' = fails /\ exclusive' \in [Addr -> BOOLEAN]
        /\ present' \in [Poll -> BOOLEAN] /\ cpc' \in CtlPc
        /\ rpc' \in {"idle", "tick"}
    BY <1>0
       DEF TypeOK, CtlPc, forceScan_tick, start_scan, start_monitor, StartThread,
           stop_thread, stop_exclusive, join_monitor, join_scan, devVars,
           isDeviceKnown
  <2> QED BY <1>0, <1>1, <2>1, <2>2 DEF TypeOK, scanVars, monVars, reqVars
<1>3. Control'
  BY <1>0, Constants
     DEF Control, forceScan_tick, start_scan,
         start_monitor, StartThread, stop_thread, stop_exclusive, join_monitor,
         join_scan, start, tick, notifyStop, join, WorkerGoto, pollVars
<1>4. \A t \in Poll : InFunc(t) => InFunc(t)'
  BY <1>0, Constants
     DEF InFunc, forceScan_tick, start_scan,
         start_monitor, StartThread, stop_thread, stop_exclusive, join_monitor,
         join_scan, start, tick, notifyStop, join, WorkerGoto, pollVars
<1> QED BY <1>1, <1>2, <1>3, <1>4, RInvThreads, Constants

\* The requests: one that is made is owed, unless a full scan is running; a
\* pause calls it off.
LEMMA RInvRequest ==
  ASSUME RInv, forceScan \/ stop_flag PROVE RInv'
<1>0. TypeOK /\ Control /\ Owed
  BY DEF RInv
<1>1. UNCHANGED <<pollVars, devVars, scanVars, monVars, present, cmd>>
  BY DEF forceScan, stop_flag
<1>2. TypeOK'
  BY <1>0, <1>1 DEF TypeOK, PollTypeOK, CtlPc, pollVars, devVars, scanVars, monVars,
                    forceScan, stop_flag
<1>3. Control' /\ Owed'
  BY <1>0, <1>1 DEF Control, Owed, InFullScan, pollVars, scanVars, forceScan, stop_flag
<1>4. ScanInside' /\ MonitorInside' /\ CommandsKnown' /\ Unknown'
  BY <1>1 DEF RInv, ScanInside, MonitorInside, CommandsKnown, Unknown, NeverReplaced, InFunc,
              Sending, isDeviceKnown, pollVars, devVars, scanVars, monVars
<1> QED BY <1>2, <1>3, <1>4 DEF RInv

-----------------------------------------------------------------------------
\* Commands and the monitor are at home with any change of scan() that leaves
\* commands alone and makes no device unknown.
LEMMA OthersKept ==
  ASSUME RInv, UNCHANGED <<monVars, cmd>>,
         \A a \in Addr : isDeviceKnown(a) => isDeviceKnown(a)',
         InFunc("monitor") => InFunc("monitor")'
  PROVE  MonitorInside' /\ CommandsKnown'
BY DEF RInv, MonitorInside, CommandsKnown, Sending, monVars

\* scan() goes from place to place, and wakes the monitor; only a full scan that
\* begins takes up a request.
ScanMove ==
  \/ scan_begin \/ full_skip \/ full_answer \/ full_silence \/ full_tick
  \/ probe_nothing \/ probe_answer \/ probe_tick \/ inspect_skip \/ inspect_end

LEMMA RInvScanMove == ASSUME RInv, ScanMove PROVE RInv'
<1>0. /\ TypeOK /\ Control /\ ScanInside /\ Unknown /\ Owed
      /\ scan \in ScanState /\ scan.pos \in 1 .. LastAddr + 1
      /\ scan.tries \in 0 .. kScanNumRetry - 1
  BY DEF RInv, TypeOK, ScanState
<1>1. /\ UNCHANGED <<devVars, nextDeviceToProbe_, monVars, ctlVars, reqForceScan_, cmd>>
      /\ worker' = worker /\ started_' = started_
      /\ tick_' \in [Poll -> BOOLEAN] /\ InFunc("scan")
  BY <1>0 DEF TypeOK, PollTypeOK, ScanMove, scan_begin, full_skip, full_answer, full_silence,
              full_tick, probe_nothing, probe_answer, probe_tick, inspect_skip,
              inspect_end, ScanGoto, TickMonitor, tick, Scanning, pollVars, reqVars
<1>2. scan' \in ScanState
  <2>1. CASE \E l \in {"full", "full_insert", "full_done", "probe", "insert", "tick",
                       "inspect", "recover"} : scan' = [scan EXCEPT !.pc = l]
    BY <1>0, <2>1 DEF ScanState
  <2>2. CASE full_skip \/ inspect_skip
    <3>1. scan' = [scan EXCEPT !.pos = scan.pos + 1] /\ scan.pos <= LastAddr
      BY <2>2 DEF full_skip, inspect_skip
    <3>2. scan.pos + 1 \in 1 .. LastAddr + 1
      BY <1>0, <3>1, Constants
    <3> QED BY <1>0, <3>1, <3>2 DEF ScanState
  <2>3. CASE full_silence /\ LastTry
    <3>1. /\ scan' = [scan EXCEPT !.tries = 0, !.pos = scan.pos + 1]
          /\ scan.pos <= LastAddr
      BY <2>3 DEF full_silence, Wanted, Skipped
    <3>2. scan.pos + 1 \in 1 .. LastAddr + 1 /\ 0 \in 0 .. kScanNumRetry - 1
      BY <1>0, <3>1, Constants
    <3> QED BY <1>0, <3>1, <3>2 DEF ScanState
  <2>4. CASE full_silence /\ ~LastTry
    <3>1. scan' = [scan EXCEPT !.tries = scan.tries + 1]
      BY <2>4 DEF full_silence
    <3>2. scan.tries + 1 \in 0 .. kScanNumRetry - 1
      BY <1>0, <2>4, Constants DEF LastTry
    <3> QED BY <1>0, <3>1, <3>2 DEF ScanState
  <2> QED BY <2>1, <2>2, <2>3, <2>4
          DEF ScanMove, scan_begin, full_answer, full_tick, probe_nothing,
              probe_answer, probe_tick, inspect_end, ScanGoto
<1>3. Owed' /\ owed' \in {"no", "yes", "late"}
  BY <1>0 DEF TypeOK, Owed, InFullScan, ScanState, ScanMove, scan_begin, full_skip, full_answer, full_silence,
              full_tick, probe_nothing, probe_answer, probe_tick, inspect_skip,
              inspect_end, ScanGoto, Scanning, reqVars, FullScanDue
<1>4. TypeOK'
  BY <1>0, <1>1, <1>2, <1>3
     DEF TypeOK, PollTypeOK, devVars, monVars, ctlVars
<1>5. ScanInside'
  <2>1. /\ scan'.pc # "idle"
        /\ scan'.pc = "full_insert" => scan'.pos = scan.pos /\ scan.pos <= LastAddr
    BY <1>0 DEF ScanState, ScanMove, scan_begin, full_skip, full_answer,
                full_silence, full_tick, probe_nothing, probe_answer, probe_tick,
                inspect_skip, inspect_end, ScanGoto, Scanning, Wanted, Skipped
  <2>2. cmd["scan"].st = "none"
    <3>1. CASE inspect_end
      <4>1. scan.pos \notin Addr
        BY <3>1, Constants DEF inspect_end
      <4> QED BY <1>0, <4>1 DEF ScanInside
    <3> QED BY <1>0, <3>1
            DEF ScanInside, ScanMove, scan_begin, full_skip, full_answer,
                full_silence, full_tick, probe_nothing, probe_answer, probe_tick,
                inspect_skip, Scanning
  <2>3. scan.pos <= LastAddr => scan.pos \in Addr
    BY <1>0, Constants
  <2> QED BY <1>1, <2>1, <2>2, <2>3 DEF ScanInside, InFunc
<1>6. Unknown'
  <2>0. UNCHANGED <<mode, nextDeviceToProbe_>>
    BY <1>1 DEF devVars
  <2>1. CASE full_silence
    <3>1. /\ scan.pc = "full" /\ scan.pos <= LastAddr
          /\ scan.tries = 0 => mode[scan.pos] = "unknown"
      BY <2>1 DEF full_silence, Scanning, Wanted, Skipped, isDeviceKnown
    <3>2. scan.pos \in Addr /\ mode[scan.pos] = "unknown"
      BY <1>0, <3>1, Constants DEF Unknown
    <3>3. /\ scan'.pc = "full"
          /\ scan'.tries = 0 \/ scan'.pos = scan.pos
      BY <1>0, <2>1, <3>1 DEF full_silence, ScanState
    <3> QED BY <2>0, <3>2, <3>3 DEF Unknown, NeverReplaced
  <2>2. CASE full_answer
    <3>1. /\ scan.pc = "full" /\ scan.tries = 0 => mode[scan.pos] = "unknown"
          /\ scan'.pc = "full_insert" /\ scan'.pos = scan.pos
      BY <1>0, <2>2 DEF full_answer, Scanning, Wanted, Skipped, isDeviceKnown, ScanGoto,
                        ScanState
    <3>2. scan.pc = "full"
      BY <2>2 DEF full_answer, Scanning
    <3>3. mode[scan.pos] = "unknown"
      BY <1>0, <3>1, <3>2 DEF Unknown
    <3> QED BY <2>0, <3>1, <3>3 DEF Unknown, NeverReplaced
  <2>3. CASE scan_begin
    <3>1. scan.tries = 0
      BY <1>0, <2>3 DEF scan_begin, Scanning, ScanInside, ScanIdle
    <3>2. scan'.pc \in {"full", "probe"} /\ scan'.tries = scan.tries
      BY <1>0, <2>3 DEF scan_begin, ScanGoto, ScanState
    <3> QED BY <3>1, <3>2 DEF Unknown, NeverReplaced
  <2>4. CASE full_skip
    <3>1. scan.pc = "full" /\ scan.tries = 0
      BY <2>4 DEF full_skip, Scanning, Skipped
    <3>2. scan'.pc = "full" /\ scan'.tries = 0
      BY <1>0, <2>4, <3>1 DEF full_skip, ScanState
    <3> QED BY <3>2 DEF Unknown, NeverReplaced
  <2>5. CASE probe_answer
    <3>1. mode[nextDeviceToProbe_] = "unknown" /\ scan'.pc = "insert"
      BY <1>0, <2>5 DEF probe_answer, isDeviceKnown, ScanGoto, ScanState
    <3> QED BY <2>0, <3>1 DEF Unknown, NeverReplaced
  <2>6. CASE full_tick \/ probe_nothing \/ probe_tick \/ inspect_skip \/ inspect_end
    <3>1. scan'.pc \in {"full_done", "inspect", "recover"}
      BY <1>0, <2>6 DEF full_tick, probe_nothing, probe_tick, inspect_skip, inspect_end,
                        ScanGoto, Scanning, ScanState
    <3> QED BY <3>1 DEF Unknown, NeverReplaced
  <2> QED BY <2>1, <2>2, <2>3, <2>4, <2>5, <2>6 DEF ScanMove
<1>7. MonitorInside' /\ CommandsKnown'
  BY <1>1, OthersKept DEF InFunc, isDeviceKnown, devVars
<1>8. Control'
  BY <1>0, <1>1 DEF Control, ctlVars
<1> QED BY <1>3, <1>4, <1>5, <1>6, <1>7, <1>8 DEF RInv

\* A command that starts has its first attempt before it.
LEMMA StartProper ==
  ASSUME RInv, NEW u \in User, NEW a \in Addr, CommandStart(u, a)
  PROVE  /\ cmd' \in [User -> Command]
         /\ \A v \in User : v # u => cmd'[v] = cmd[v]
         /\ cmd'[u].st = "try" /\ cmd'[u].left # 0 /\ cmd'[u].addr = a
<1> DEFINE c == [st |-> "try", addr |-> a, seen |-> 0,
                 left |-> IF exclusive[a] THEN 1 ELSE numCommandRetries]
<1>0. cmd \in [User -> Command]
  BY DEF RInv, TypeOK
<1>1. c.left \in 0 .. numCommandRetries /\ c.left # 0 /\ 0 \in 0 .. kMaxConsecutiveFailures
  BY Constants
<1>2. a \in 0 .. LastAddr
  BY Constants
<1>3. c \in Command
  BY <1>1, <1>2 DEF Command
<1>4. cmd' = [cmd EXCEPT ![u] = c]
  BY DEF CommandStart
<1> QED BY <1>0, <1>1, <1>3, <1>4

\* inspectDormant() sends to a device that is dormant, and takes the result.
LEMMA RInvInspect == ASSUME RInv, inspect_send \/ inspect_result PROVE RInv'
<1>0. /\ TypeOK /\ Control /\ ScanInside /\ MonitorInside /\ CommandsKnown
      /\ Unknown /\ Owed
      /\ scan \in ScanState /\ scan.pos \in 1 .. LastAddr + 1
      /\ scan.cands \subseteq Addr /\ cmd \in [User -> Command]
  BY DEF RInv, TypeOK, ScanState
<1>1. /\ UNCHANGED <<pollVars, devVars, nextDeviceToProbe_, monVars, ctlVars, reqVars>>
      /\ scan.pc = "inspect" /\ InFunc("scan") /\ scan.pos \in Addr
  BY <1>0, Constants DEF inspect_send, inspect_result, Scanning, ScanInside, scanVars
<1>2. /\ scan' \in ScanState /\ scan'.pc = "inspect"
      /\ scan' = scan \/ cmd'["scan"] = NoCommand
  <2>1. CASE inspect_send
    BY <1>0, <1>1, <2>1 DEF inspect_send, scanVars
  <2>2. CASE inspect_result
    <3>1. scan.pos + 1 \in 1 .. LastAddr + 1
      BY <1>1, Constants
    <3>2. scan' = [scan EXCEPT !.pos = scan.pos + 1,
                     !.cands = IF cmd["scan"].st = "ok"
                                 THEN scan.cands \union {scan.pos} ELSE scan.cands]
      BY <2>2 DEF inspect_result
    <3>3. scan' \in ScanState /\ scan'.pc = "inspect"
      BY <1>0, <1>1, <3>1, <3>2 DEF ScanState
    <3>4. cmd'["scan"] = NoCommand
      BY <1>0, <2>2, Constants DEF inspect_result
    <3> QED BY <3>3, <3>4
  <2> QED BY <2>1, <2>2
<1>3. /\ cmd' \in [User -> Command]
      /\ \A v \in User : v # "scan" => cmd'[v] = cmd[v]
      /\ cmd'["scan"] = NoCommand
           \/ /\ cmd'["scan"].st = "try" /\ cmd'["scan"].left # 0
              /\ cmd'["scan"].addr = scan.pos /\ mode[scan.pos] = "DORMANT"
  <2>1. CASE inspect_send
    BY <1>1, <2>1, StartProper, Constants DEF inspect_send
  <2>2. CASE inspect_result
    <3>1. NoCommand \in Command
      BY Constants DEF NoCommand, Command
    <3> QED BY <1>0, <2>2, <3>1, Constants DEF inspect_result
  <2> QED BY <2>1, <2>2
<1>4. TypeOK'
  BY <1>0, <1>1, <1>2, <1>3
     DEF TypeOK, PollTypeOK, pollVars, devVars, monVars, ctlVars, reqVars
<1>5. Control' /\ Owed' /\ Unknown'
  BY <1>0, <1>1, <1>2
     DEF Control, Owed, Unknown, NeverReplaced, InFullScan, pollVars, devVars, ctlVars, reqVars
<1>6. ScanInside'
  BY <1>1, <1>2 DEF ScanInside, InFunc, pollVars, NoCommand
<1>7. MonitorInside'
  BY <1>0, <1>1, <1>3, Constants
     DEF MonitorInside, InFunc, isDeviceKnown, pollVars, devVars, monVars
<1>8. CommandsKnown'
  BY <1>0, <1>1, <1>3
     DEF CommandsKnown, Sending, isDeviceKnown, devVars, NoCommand
<1> QED BY <1>4, <1>5, <1>6, <1>7, <1>8 DEF RInv

\* New devices and recovered ones: the scan thread holds the unique lock, no
\* device becomes unknown, and scan() goes on.
LEMMA RInvInsert ==
  ASSUME RInv, full_insert \/ probe_insert \/ recoverDormant PROVE RInv'
<1>0. /\ TypeOK /\ Control /\ ScanInside /\ Unknown /\ Owed
      /\ scan \in ScanState /\ scan.pos \in 1 .. LastAddr + 1
      /\ mode \in [Addr -> {"unknown", "ACTIVE", "DORMANT"}]
      /\ scan.cands \subseteq Addr
  BY DEF RInv, TypeOK, ScanState
<1>1. /\ UNCHANGED <<pollVars, nextDeviceToProbe_, monVars, ctlVars, reqVars, cmd>>
      /\ InFunc("scan") /\ scan.pc \in {"full_insert", "insert", "recover"}
  BY DEF full_insert, probe_insert, recoverDormant, Scanning, ScanGoto
<1>2. /\ mode' \in [Addr -> {"unknown", "ACTIVE", "DORMANT"}]
      /\ fails' \in [Addr -> 0 .. kMaxConsecutiveFailures]
      /\ exclusive' \in [Addr -> BOOLEAN]
      /\ \A a \in Addr : isDeviceKnown(a) => isDeviceKnown(a)'
  <2>1. 0 \in 0 .. kMaxConsecutiveFailures
    BY Constants
  <2>2. PICK a : /\ mode' = [mode EXCEPT ![a] = "ACTIVE"]
                 /\ fails' = [fails EXCEPT ![a] = 0]
                 /\ \/ exclusive' = [exclusive EXCEPT ![a] = FALSE]
                    \/ exclusive' = exclusive
    BY DEF full_insert, probe_insert, recoverDormant, Insert, setActive
  <2>3. /\ fails \in [Addr -> 0 .. kMaxConsecutiveFailures]
        /\ exclusive \in [Addr -> BOOLEAN]
    BY <1>0 DEF TypeOK
  <2> QED BY <1>0, <2>1, <2>2, <2>3 DEF isDeviceKnown
<1>3. /\ scan' \in ScanState /\ scan'.pc \in {"full", "tick", "recover"}
      /\ scan'.pc = "full" <=> scan.pc = "full_insert"
      /\ scan'.pc = "full" => scan'.tries = 0
  <2>1. CASE full_insert
    <3>1. scan.pos + 1 \in 1 .. LastAddr + 1 /\ 0 \in 0 .. kScanNumRetry - 1
      <4>1. scan.pos \in Addr
        BY <1>0, <2>1 DEF ScanInside, full_insert, Scanning
      <4> QED BY <4>1, Constants
    <3>2. scan' = [scan EXCEPT !.pc = "full", !.pos = scan.pos + 1, !.tries = 0,
                               !.found = TRUE]
      BY <2>1 DEF full_insert
    <3> QED BY <1>0, <2>1, <3>1, <3>2 DEF ScanState, full_insert, Scanning
  <2>2. CASE probe_insert
    BY <1>0, <2>2 DEF ScanState, probe_insert, ScanGoto, Scanning
  <2>3. CASE recoverDormant
    BY <1>0, <2>3 DEF ScanState, recoverDormant, Scanning
  <2> QED BY <2>1, <2>2, <2>3
<1>4. TypeOK'
  BY <1>0, <1>1, <1>2, <1>3
     DEF TypeOK, PollTypeOK, pollVars, monVars, ctlVars, reqVars
<1>5. Control' /\ Owed' /\ Unknown'
  BY <1>0, <1>1, <1>3
     DEF Control, Owed, Unknown, NeverReplaced, InFullScan, pollVars, ctlVars, reqVars
<1>6. ScanInside'
  BY <1>0, <1>1, <1>3 DEF ScanInside, InFunc, pollVars
<1>7. MonitorInside' /\ CommandsKnown'
  BY <1>1, <1>2, OthersKept DEF InFunc, pollVars
<1> QED BY <1>4, <1>5, <1>6, <1>7 DEF RInv

\* scan() returns: it leaves its worker idle, and only a full scan, which has
\* taken up every request that is owed, takes the flag back.
LEMMA RInvReturn ==
  ASSUME RInv, full_abort \/ full_done \/ advance PROVE RInv'
<1>0. /\ TypeOK /\ Control /\ ScanInside /\ Owed
      /\ worker \in [Poll -> WorkerPc] /\ nextDeviceToProbe_ \in Addr
  BY DEF RInv, TypeOK, PollTypeOK
<1>1. /\ UNCHANGED <<devVars, monVars, ctlVars, cmd, owed>>
      /\ scan' = ScanIdle /\ func_returns("scan") /\ cmd["scan"].st = "none"
      /\ reqForceScan_' \in BOOLEAN
      /\ InFullScan \/ reqForceScan_' = reqForceScan_
  BY <1>0 DEF TypeOK, ScanInside, full_abort, full_done, advance, ScanReturns,
              Scanning, AtScanEnd, reqVars, InFullScan
<1>2. /\ PollTypeOK' /\ worker["scan"] # "none"
      /\ \A t \in Poll : t # "scan" => worker'[t] = worker[t]
  BY <1>0, <1>1, Constants
     DEF TypeOK, PollTypeOK, WorkerPc, func_returns, LoopOrEnd, WorkerGoto
<1>3. nextDeviceToProbe_' \in Addr
  BY <1>0, Constants DEF full_abort, full_done, advance, NextToProbe
<1>4. ScanIdle \in ScanState /\ ScanIdle.pc = "idle"
  BY Constants DEF ScanIdle, ScanState
<1>5. TypeOK'
  BY <1>0, <1>1, <1>2, <1>3, <1>4 DEF TypeOK, devVars, monVars, ctlVars
<1>6. Control'
  BY <1>0, <1>1, <1>2, Constants DEF Control, ctlVars
<1>7. Owed' /\ Unknown' /\ ScanInside'
  BY <1>0, <1>1, <1>4 DEF Owed, Unknown, NeverReplaced, ScanInside, InFullScan
<1>8. MonitorInside' /\ CommandsKnown'
  BY <1>1, <1>2, OthersKept, Constants DEF InFunc, isDeviceKnown, devVars
<1> QED BY <1>5, <1>6, <1>7, <1>8 DEF RInv

-----------------------------------------------------------------------------
\* monitor() goes from register to register and from device to device, and
\* sends only to a device that is known.
LEMMA RInvMonitor == ASSUME RInv, Monitor PROVE RInv'
<1>0. /\ TypeOK /\ Control /\ ScanInside /\ MonitorInside /\ CommandsKnown
      /\ Unknown /\ Owed
      /\ mpos \in 0 .. LastAddr + 1 /\ mreg \in 0 .. NumRegs
      /\ worker \in [Poll -> WorkerPc] /\ cmd \in [User -> Command]
  BY DEF RInv, TypeOK, PollTypeOK
<1>1. /\ UNCHANGED <<devVars, scanVars, ctlVars, reqVars>>
      /\ InFunc("monitor") /\ cmd["monitor"].st = "none"
  BY DEF Monitor, monitor_begin, monitor_skip, monitor_device, monitor_register,
         monitor_break, monitor_end, Monitoring
<1>2. /\ mpos' \in 0 .. LastAddr + 1 /\ mreg' \in 0 .. NumRegs
      /\ mreg' # 0 => mpos' \in Addr /\ isDeviceKnown(mpos')
  <2>1. CASE monitor_begin
    <3>1. mreg = 0
      BY <1>0, <2>1, Constants DEF MonitorInside, monitor_begin
    <3> QED BY <1>0, <2>1, <3>1, Constants DEF monitor_begin
  <2>2. CASE monitor_skip \/ monitor_break
    BY <1>0, <2>2, Constants DEF monitor_skip, monitor_break, NextDevice
  <2>3. CASE monitor_device \/ monitor_register
    <3>1. mpos \in Addr /\ isDeviceKnown(mpos) /\ NextRegister
      BY <1>0, <2>3 DEF monitor_device, monitor_register, MonitorInside, isDeviceKnown
    <3> QED BY <1>0, <3>1, Constants DEF NextRegister, NextDevice
  <2>4. CASE monitor_end
    BY <1>0, <2>4, Constants DEF monitor_end, MonitorInside
  <2> QED BY <2>1, <2>2, <2>3, <2>4 DEF Monitor
<1>3. /\ cmd' \in [User -> Command]
      /\ \A u \in User : u # "monitor" => cmd'[u] = cmd[u]
      /\ \/ cmd'["monitor"] = cmd["monitor"]
         \/ /\ cmd'["monitor"].st = "try" /\ cmd'["monitor"].left # 0
            /\ cmd'["monitor"].addr \in Addr /\ isDeviceKnown(cmd'["monitor"].addr)
            /\ mpos' # 0
  <2>1. CASE UNCHANGED cmd
    BY <1>0, <2>1
  <2>2. CASE (monitor_device \/ monitor_register) /\ CommandStart("monitor", mpos)
    <3>1. mpos \in Addr /\ isDeviceKnown(mpos) /\ NextRegister
      BY <1>0, <2>2 DEF monitor_device, monitor_register, MonitorInside, isDeviceKnown
    <3>2. mpos' # 0
      BY <3>1, Constants DEF NextRegister, NextDevice
    <3> QED BY <2>2, <3>1, <3>2, StartProper, Constants
  <2> QED BY <2>1, <2>2
          DEF Monitor, monitor_begin, monitor_skip, monitor_device,
              monitor_register, monitor_break, monitor_end
<1>4. /\ PollTypeOK' /\ worker["monitor"] # "none"
      /\ \A t \in Poll : t # "monitor" => worker'[t] = worker[t]
      /\ worker' = worker \/ (mpos' = 0 /\ cmd' = cmd)
  <2>1. CASE monitor_end
    BY <1>0, <1>1, <2>1, Constants
       DEF TypeOK, PollTypeOK, WorkerPc, InFunc, monitor_end, func_returns, LoopOrEnd,
           WorkerGoto
  <2>2. CASE UNCHANGED pollVars
    <3>1. PollTypeOK'
      BY <1>0, <2>2 DEF TypeOK, PollTypeOK, pollVars
    <3>2. worker' = worker /\ worker["monitor"] # "none"
      BY <1>1, <2>2 DEF InFunc, pollVars
    <3> QED BY <3>1, <3>2
  <2> QED BY <2>1, <2>2
          DEF Monitor, monitor_begin, monitor_skip, monitor_device,
              monitor_register, monitor_break
<1>5. TypeOK'
  BY <1>0, <1>1, <1>2, <1>3, <1>4 DEF TypeOK, devVars, scanVars, ctlVars, reqVars
<1>6. Control' /\ Owed' /\ Unknown'
  BY <1>0, <1>1, <1>4, Constants
     DEF Control, Owed, Unknown, NeverReplaced, InFullScan, devVars, scanVars, ctlVars, reqVars
<1>7. ScanInside'
  BY <1>0, <1>1, <1>3, <1>4, Constants DEF ScanInside, InFunc, scanVars
<1>8. MonitorInside'
  BY <1>0, <1>1, <1>2, <1>3, <1>4, Constants
     DEF MonitorInside, InFunc, isDeviceKnown, devVars
<1>9. CommandsKnown'
  BY <1>0, <1>1, <1>3 DEF CommandsKnown, Sending, isDeviceKnown, devVars
<1> QED BY <1>5, <1>6, <1>7, <1>8, <1>9 DEF RInv

\* A client sends a command to an active device.
LEMMA RInvClient ==
  ASSUME RInv, NEW a \in Addr, client_command(a) PROVE RInv'
<1>0. /\ TypeOK /\ Control /\ ScanInside /\ MonitorInside /\ CommandsKnown
      /\ Unknown /\ Owed
  BY DEF RInv
<1>1. /\ UNCHANGED <<pollVars, devVars, scanVars, monVars, ctlVars, reqVars>>
      /\ mode[a] = "ACTIVE" /\ CommandStart("client", a)
  BY DEF client_command
<1>2. /\ cmd' \in [User -> Command]
      /\ \A v \in User : v # "client" => cmd'[v] = cmd[v]
      /\ cmd'["client"].st = "try" /\ cmd'["client"].left # 0
      /\ cmd'["client"].addr = a
  BY <1>1, StartProper, Constants
<1>3. TypeOK'
  BY <1>0, <1>1, <1>2
     DEF TypeOK, PollTypeOK, pollVars, devVars, scanVars, monVars, ctlVars, reqVars
<1>4. Control' /\ Owed' /\ Unknown'
  BY <1>0, <1>1
     DEF Control, Owed, Unknown, NeverReplaced, InFullScan, pollVars, devVars, scanVars,
         ctlVars, reqVars
<1>5. ScanInside' /\ MonitorInside'
  BY <1>0, <1>1, <1>2, Constants
     DEF ScanInside, MonitorInside, InFunc, isDeviceKnown, pollVars, devVars,
         scanVars, monVars
<1>6. CommandsKnown'
  BY <1>0, <1>1, <1>2 DEF CommandsKnown, Sending, isDeviceKnown, devVars
<1> QED BY <1>3, <1>4, <1>5, <1>6 DEF RInv

\* Every step keeps the invariant.
LEMMA RInvNext == ASSUME RInv, [Next]_vars PROVE RInv'
<1>1. CASE UNCHANGED vars
  BY <1>1 DEF vars, pollVars, devVars, scanVars, monVars, ctlVars, reqVars, RInv,
              TypeOK, PollTypeOK, Control, ScanInside, MonitorInside, CommandsKnown,
              Unknown, NeverReplaced, Owed, InFunc, InFullScan, Sending, isDeviceKnown
<1>2. CASE Scan
  BY <1>2, RInvScanMove, RInvInspect, RInvInsert, RInvReturn DEF Scan, ScanMove
<1>3. CASE Stop
  BY <1>3, RInvControl, RInvRequest DEF Stop
<1>4. CASE forceScan \/ forceScan_tick \/ start_scan \/ start_monitor \/ stop_exclusive
  BY <1>4, RInvControl, RInvRequest
<1> QED BY <1>1, <1>2, <1>3, <1>4, RInvWorker, RInvCommand, RInvMonitor, RInvClient
        DEF Next

-----------------------------------------------------------------------------
\* Every variable keeps its type: the counters of the loops, of attempts and of
\* failures stay in range with any interleaving of the two threads and clients.
THEOREM TypeCorrect == Spec => []TypeOK
<1>1. RInv => TypeOK
  BY DEF RInv
<1> QED BY <1>1, RInvInit, RInvNext, PTL DEF Spec

\* Full scan and ordinary scan insert only devices that are not in devices_ yet,
\* with commands of three threads failing and devices going dormant meanwhile.
THEOREM KnownNeverReplaced == Spec => []NeverReplaced
<1>1. RInv => NeverReplaced
  BY DEF RInv, Unknown
<1> QED BY <1>1, RInvInit, RInvNext, PTL DEF Spec

\* A request for a full scan stays in reqForceScan_ until a full scan that began
\* behind it, or a pause, takes it; ordinary scans never lose it.
THEOREM RequestsAreKept == Spec => []RequestKept
<1>1. RInv => RequestKept
  BY DEF RInv, Owed, RequestKept
<1> QED BY <1>1, RInvInit, RInvNext, PTL DEF Spec

\* When stop() has returned both workers are gone, and neither has left a round
\* or a command half-way.
THEOREM PausedAlwaysQuiet == Spec => []PausedIsQuiet
<1>1. RInv => PausedIsQuiet
  <2> SUFFICES ASSUME RInv, cpc = "paused"
               PROVE  /\ scan = ScanIdle /\ mpos = 0
                      /\ cmd["scan"] = NoCommand /\ cmd["monitor"] = NoCommand
                      /\ \A t \in Poll : worker[t] = "none"
    BY DEF PausedIsQuiet
  <2>1. \A t \in Poll : worker[t] = "none"
    BY Constants DEF RInv, Control
  <2>2. scan = ScanIdle /\ mpos = 0
    BY <2>1, Constants DEF RInv, ScanInside, MonitorInside, InFunc
  <2>3. cmd["scan"].st = "none" /\ cmd["monitor"].st = "none"
    BY <2>2 DEF RInv, ScanInside, MonitorInside, ScanIdle
  <2> QED BY <2>1, <2>2, <2>3, Constants DEF RInv, CommandsKnown
<1> QED BY <1>1, RInvInit, RInvNext, PTL DEF Spec
=============================================================================
