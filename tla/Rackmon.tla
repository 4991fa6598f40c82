------------------------------ MODULE Rackmon ------------------------------
(***************************************************************************)
(* rackmond (Rackmon.cpp, ModbusDevice.cpp): a scan thread that looks for   *)
(* devices on the Modbus and revives the dormant ones, a monitor thread     *)
(* that reads the registers of the active ones, and the service, whose      *)
(* clients send commands, pause and resume the threads and ask for a full   *)
(* scan.                                                                    *)
(*                                                                         *)
(* devices_ is guarded by a shared mutex.  Its readers hold it over many    *)
(* steps; a writer holds it for one step and needs all readers to be gone.  *)
(* numConsecutiveFailures is a plain counter that several readers of the    *)
(* mutex may increment: its increment is a read and a later write.          *)
(*                                                                         *)
(* Values of registers, times and baud rates are abstracted to whether a    *)
(* command is sent at all.  One client at a time pauses or resumes.         *)
(***************************************************************************)
EXTENDS PollThread, Naturals, FiniteSets

CONSTANTS
  LastAddr,                 \* addresses are 1 .. LastAddr
  Attached,                 \* the ones at which there is a device
  NumRegs,                  \* special handlers and registers of a device
  kMaxConsecutiveFailures,  \* 10 in the code
  kScanNumRetry,            \* 3 in the code
  numCommandRetries,        \* 5 in the code
  Requests                  \* what clients ask for

ASSUME RackmonAssumption ==
  /\ Poll = {"scan", "monitor"}
  /\ LastAddr \in Nat \ {0}
  /\ Attached \subseteq 1 .. LastAddr
  /\ NumRegs \in Nat
  /\ kMaxConsecutiveFailures \in Nat \ {0}
  /\ kScanNumRetry \in Nat \ {0}
  /\ numCommandRetries \in Nat \ {0}
  /\ Requests \subseteq {"command", "rescan", "pause"}

Addr == 1 .. LastAddr
User == {"scan", "monitor", "client"}     \* threads that send commands

VARIABLES
  mode,             \* of the devices in devices_; "unknown" for the others
  fails,            \* numConsecutiveFailures, up to kMaxConsecutiveFailures
  exclusive,        \* exclusiveMode_
  reqForceScan_,
  nextDeviceToProbe_,
  present,          \* present[t]: the pointer to poll thread t is not null
  cmd,              \* cmd[u]: the command u is in, see Command
  scan,             \* scan(): its place and local variables, see ScanState
  mpos, mreg,       \* monitor(): device and register; 0, 0 outside
  cpc,              \* where the client is that pauses and resumes
  rpc,              \* where the client is that forces a scan
  owed              \* history: a full scan was asked for and has not begun

devVars == <<mode, fails, exclusive>>
scanVars == <<scan, nextDeviceToProbe_>>
monVars == <<mpos, mreg>>
ctlVars == <<present, cpc, rpc>>
reqVars == <<reqForceScan_, owed>>
vars == <<pollVars, devVars, scanVars, monVars, ctlVars, reqVars, cmd>>

(***************************************************************************)
(* st: "none"; "try", before an attempt; "count", an attempt failed and     *)
(* handleCommandFailure has read the counter, which was seen; "ok" and       *)
(* "fail", over, for the scan thread.                                        *)
(***************************************************************************)
Command == [st: {"none", "try", "count", "ok", "fail"}, addr: 0 .. LastAddr,
            left: 0 .. numCommandRetries, seen: 0 .. kMaxConsecutiveFailures]
NoCommand == [st |-> "none", addr |-> 0, left |-> 0, seen |-> 0]

ScanState ==
  [pc: {"idle", "full", "full_insert", "full_done",
        "probe", "insert", "tick", "inspect", "recover"},
   pos: 1 .. LastAddr + 1,          \* the address a loop is at
   tries: 0 .. kScanNumRetry - 1,   \* attempts at it in a full scan
   found: BOOLEAN,                  \* atLeastOne
   cands: SUBSET Addr]              \* what inspectDormant returns
ScanIdle ==
  [pc |-> "idle", pos |-> 1, tries |-> 0, found |-> FALSE, cands |-> {}]

CtlPc == {"paused", "start_monitor", "running", "stop_flag", "stop_monitor",
          "join_monitor", "stop_scan", "join_scan"}

TypeOK ==
  /\ PollTypeOK
  /\ mode \in [Addr -> {"unknown", "ACTIVE", "DORMANT"}]
  /\ fails \in [Addr -> 0 .. kMaxConsecutiveFailures]
  /\ exclusive \in [Addr -> BOOLEAN]
  /\ reqForceScan_ \in BOOLEAN
  /\ nextDeviceToProbe_ \in Addr
  /\ present \in [Poll -> BOOLEAN]
  /\ cmd \in [User -> Command]
  /\ scan \in ScanState
  /\ mpos \in 0 .. LastAddr + 1
  /\ mreg \in 0 .. NumRegs
  /\ cpc \in CtlPc
  /\ rpc \in {"idle", "tick"}
  /\ owed \in {"no", "yes", "late"}

\* initialize() has loaded the configuration and is about to call start().
Init ==
  /\ PollInit
  /\ mode = [a \in Addr |-> "unknown"]
  /\ fails = [a \in Addr |-> 0]
  /\ exclusive = [a \in Addr |-> FALSE]
  /\ reqForceScan_ = TRUE /\ owed = "yes"
  /\ nextDeviceToProbe_ = 1
  /\ present = [t \in Poll |-> FALSE]
  /\ cmd = [u \in User |-> NoCommand]
  /\ scan = ScanIdle
  /\ mpos = 0 /\ mreg = 0
  /\ cpc = "paused" /\ rpc = "idle"

Sending(u) == cmd[u].st \in {"try", "count"}
InFullScan == scan.pc \in {"full", "full_insert", "full_done"}

\* Mutant: isDeviceKnown() looks for active devices.
isDeviceKnown_active(a) == mode[a] = "ACTIVE"

isDeviceKnown(a) == mode[a] # "unknown"

\* Nobody has the shared mutex of devices_.
NoReader == scan.pc # "inspect" /\ mpos = 0 /\ ~Sending("client")

-----------------------------------------------------------------------------
(* ModbusDevice::command, as a part of the thread u that calls it. *)

CommandStart(u, a) ==
  cmd' = [cmd EXCEPT ![u] =
            [st |-> "try", addr |-> a, seen |-> 0,
             left |-> IF exclusive[a] THEN 1 ELSE numCommandRetries]]

\* command() returns or throws.  scan() looks at the result; monitor() logs
\* it and goes on, and the client's request is over.
CommandEnds(u, result) ==
  cmd' = [cmd EXCEPT ![u] = [NoCommand EXCEPT
                               !.st = IF u = "scan" THEN result ELSE "none"]]

\* Behind a failed attempt: the next one, or the exception is thrown on.
NextAttempt(u) ==
  IF cmd[u].left = 1
  THEN CommandEnds(u, "fail")
  ELSE cmd' = [cmd EXCEPT ![u] = [@ EXCEPT !.st = "try", !.seen = 0,
                                           !.left = cmd[u].left - 1]]

command_ok(u) ==
  /\ cmd[u].st = "try"
  /\ cmd[u].addr \in Attached
  /\ CommandEnds(u, "ok")
  /\ fails' = [fails EXCEPT ![cmd[u].addr] = 0]
  /\ UNCHANGED <<pollVars, mode, exclusive, scanVars, monVars, ctlVars, reqVars>>

\* A ModbusError: the device answers, and handleCommandFailure counts nothing.
command_refused(u) ==
  /\ cmd[u].st = "try"
  /\ NextAttempt(u)
  /\ UNCHANGED <<pollVars, devVars, scanVars, monVars, ctlVars, reqVars>>

\* A timeout, a damaged answer or an error of the port.
command_fails(u) ==
  /\ cmd[u].st = "try"
  /\ cmd' = [cmd EXCEPT ![u].st = "count", ![u].seen = fails[cmd[u].addr]]
  /\ UNCHANGED <<pollVars, devVars, scanVars, monVars, ctlVars, reqVars>>

handleCommandFailure(u) ==
  /\ cmd[u].st = "count"
  /\ LET a == cmd[u].addr
         full == cmd[u].seen + 1 >= kMaxConsecutiveFailures
     IN  /\ fails' = [fails EXCEPT
                        ![a] = IF full THEN kMaxConsecutiveFailures
                                       ELSE cmd[u].seen + 1]
         /\ mode' = [mode EXCEPT
                       ![a] = IF full /\ ~exclusive[a] THEN "DORMANT" ELSE @]
  /\ NextAttempt(u)
  /\ UNCHANGED <<pollVars, exclusive, scanVars, monVars, ctlVars, reqVars>>

-----------------------------------------------------------------------------
(* scan(), in the worker of the scan thread. *)

Scanning(l) == InFunc("scan") /\ scan.pc = l

ScanGoto(l) ==
  /\ scan' = [scan EXCEPT !.pc = l]
  /\ UNCHANGED <<nextDeviceToProbe_, monVars, ctlVars, cmd>>

ScanReturns ==
  /\ scan' = ScanIdle
  /\ func_returns("scan")
  /\ UNCHANGED <<devVars, monVars, ctlVars, cmd>>

\* probe() has an answer: a new object in devices_, under the unique lock.
Insert(a) ==
  /\ NoReader
  /\ mode' = [mode EXCEPT ![a] = "ACTIVE"]
  /\ fails' = [fails EXCEPT ![a] = 0]
  /\ exclusive' = [exclusive EXCEPT ![a] = FALSE]

\* monThread->tick(true), if there is a monitor thread.
TickMonitor ==
  IF present["monitor"] THEN tick("monitor") ELSE UNCHANGED pollVars

\* Mutant: only the first call of a worker looks at the flag.
FullScanDue_first_only == reqForceScan_ /\ worker["scan"] = "first"

FullScanDue == reqForceScan_

scan_begin ==
  /\ Scanning("idle")
  /\ \/ FullScanDue /\ ScanGoto("full") /\ owed' = "no"
     \/ ~FullScanDue /\ ScanGoto("probe") /\ UNCHANGED owed
  /\ UNCHANGED <<pollVars, devVars, reqForceScan_>>

\* fullScan() looks an address up once, before its attempts.
Skipped == scan.tries = 0 /\ isDeviceKnown(scan.pos)

\* It is about to try an address, and is still wanted.
Wanted == scan.pos <= LastAddr /\ ~Skipped /\ reqForceScan_

full_skip ==
  /\ Scanning("full")
  /\ scan.pos <= LastAddr
  /\ Skipped
  /\ scan' = [scan EXCEPT !.pos = @ + 1]
  /\ UNCHANGED <<pollVars, devVars, nextDeviceToProbe_, monVars, ctlVars,
                 reqVars, cmd>>

full_abort ==
  /\ Scanning("full")
  /\ scan.pos <= LastAddr
  /\ ~Skipped
  /\ ~reqForceScan_
  /\ ScanReturns
  /\ UNCHANGED <<nextDeviceToProbe_, reqVars>>

full_answer ==
  /\ Scanning("full")
  /\ Wanted
  /\ scan.pos \in Attached
  /\ ScanGoto("full_insert")
  /\ UNCHANGED <<pollVars, devVars, reqVars>>

LastTry == scan.tries + 1 = kScanNumRetry

full_silence ==
  /\ Scanning("full")
  /\ Wanted
  /\ scan' = IF LastTry THEN [scan EXCEPT !.tries = 0, !.pos = @ + 1]
                        ELSE [scan EXCEPT !.tries = @ + 1]
  /\ UNCHANGED <<pollVars, devVars, nextDeviceToProbe_, monVars, ctlVars,
                 reqVars, cmd>>

full_insert ==
  /\ Scanning("full_insert")
  /\ Insert(scan.pos)
  /\ scan' = [scan EXCEPT !.pc = "full", !.pos = @ + 1, !.tries = 0,
                          !.found = TRUE]
  /\ UNCHANGED <<pollVars, nextDeviceToProbe_, monVars, ctlVars, reqVars, cmd>>

full_tick ==
  /\ Scanning("full")
  /\ scan.pos = LastAddr + 1
  /\ IF scan.found THEN TickMonitor ELSE UNCHANGED pollVars
  /\ ScanGoto("full_done")
  /\ UNCHANGED <<devVars, reqVars>>

\* A request that came while the scan was running goes with it.
full_done ==
  /\ Scanning("full_done")
  /\ reqForceScan_' = FALSE
  /\ ScanReturns
  /\ UNCHANGED <<nextDeviceToProbe_, owed>>

\* The one address an ordinary scan probes: it is known or silent, ...
probe_nothing ==
  /\ Scanning("probe")
  /\ ScanGoto("inspect")
  /\ UNCHANGED <<pollVars, devVars, reqVars>>

\* ... or it answers.
probe_answer ==
  /\ Scanning("probe")
  /\ ~isDeviceKnown(nextDeviceToProbe_)
  /\ nextDeviceToProbe_ \in Attached
  /\ ScanGoto("insert")
  /\ UNCHANGED <<pollVars, devVars, reqVars>>

probe_insert ==
  /\ Scanning("insert")
  /\ Insert(nextDeviceToProbe_)
  /\ ScanGoto("tick")
  /\ UNCHANGED <<pollVars, reqVars>>

probe_tick ==
  /\ Scanning("tick")
  /\ TickMonitor
  /\ ScanGoto("inspect")
  /\ UNCHANGED <<devVars, reqVars>>

\* inspectDormant(): not dormant, or dormant for less than 300 s.
inspect_skip ==
  /\ Scanning("inspect")
  /\ scan.pos <= LastAddr
  /\ cmd["scan"].st = "none"
  /\ scan' = [scan EXCEPT !.pos = @ + 1]
  /\ UNCHANGED <<pollVars, devVars, nextDeviceToProbe_, monVars, ctlVars,
                 reqVars, cmd>>

inspect_send ==
  /\ Scanning("inspect")
  /\ scan.pos <= LastAddr
  /\ mode[scan.pos] = "DORMANT"
  /\ cmd["scan"].st = "none"
  /\ CommandStart("scan", scan.pos)
  /\ UNCHANGED <<pollVars, devVars, scanVars, monVars, ctlVars, reqVars>>

inspect_result ==
  /\ Scanning("inspect")
  /\ cmd["scan"].st \in {"ok", "fail"}
  /\ cmd' = [cmd EXCEPT !["scan"] = NoCommand]
  /\ scan' = [scan EXCEPT !.pos = @ + 1,
                !.cands = IF cmd["scan"].st = "ok" THEN @ \union {scan.pos}
                                                   ELSE @]
  /\ UNCHANGED <<pollVars, devVars, nextDeviceToProbe_, monVars, ctlVars,
                 reqVars>>

inspect_end ==
  /\ Scanning("inspect")
  /\ scan.pos = LastAddr + 1
  /\ ScanGoto("recover")
  /\ UNCHANGED <<pollVars, devVars, reqVars>>


setActive(a) ==
  /\ fails' = [fails EXCEPT ![a] = 0]
  /\ mode' = [mode EXCEPT ![a] = "ACTIVE"]

\* recoverDormant() sets the candidates active, one lock after the other.
recoverDormant ==
  /\ Scanning("recover")
  /\ NoReader
  /\ \E a \in scan.cands :
       /\ \A b \in scan.cands : a <= b
       /\ setActive(a)
       /\ scan' = [scan EXCEPT !.cands = @ \ {a}]
  /\ UNCHANGED <<pollVars, exclusive, nextDeviceToProbe_, monVars, ctlVars,
                 reqVars, cmd>>

\* Mutant: every scan takes the request back, not only a full one.
AtScanEnd_takes_request == reqForceScan_' = FALSE /\ UNCHANGED owed

AtScanEnd == UNCHANGED reqVars


NextToProbe == IF nextDeviceToProbe_ = LastAddr THEN 1 ELSE nextDeviceToProbe_ + 1

advance ==
  /\ Scanning("recover")
  /\ scan.cands = {}
  /\ nextDeviceToProbe_' = NextToProbe
  /\ ScanReturns
  /\ AtScanEnd

-----------------------------------------------------------------------------
(* monitor(), in the worker of the monitor thread. *)

Monitoring == InFunc("monitor") /\ cmd["monitor"].st = "none"
NextDevice == mpos' = mpos + 1 /\ mreg' = 0
NextRegister ==
  IF mreg = NumRegs THEN NextDevice ELSE mreg' = mreg + 1 /\ UNCHANGED mpos

monitor_begin ==
  /\ Monitoring
  /\ mpos = 0
  /\ mpos' = 1
  /\ UNCHANGED <<mreg, pollVars, devVars, scanVars, ctlVars, reqVars, cmd>>

monitor_skip ==
  /\ Monitoring
  /\ mpos \in Addr /\ mreg = 0
  /\ mode[mpos] # "ACTIVE"
  /\ NextDevice
  /\ UNCHANGED <<pollVars, devVars, scanVars, ctlVars, reqVars, cmd>>

\* reloadRegisters(): the baud rate may have to be set, in any mode.
monitor_device ==
  /\ Monitoring
  /\ mpos \in Addr /\ mreg = 0
  /\ mode[mpos] = "ACTIVE"
  /\ NextRegister
  /\ CommandStart("monitor", mpos) \/ UNCHANGED cmd
  /\ UNCHANGED <<pollVars, devVars, scanVars, ctlVars, reqVars>>

\* A register that is disabled or not yet due is passed over.
monitor_register ==
  /\ Monitoring
  /\ mpos \in Addr /\ mreg > 0
  /\ ~exclusive[mpos]
  /\ NextRegister
  /\ CommandStart("monitor", mpos) \/ UNCHANGED cmd
  /\ UNCHANGED <<pollVars, devVars, scanVars, ctlVars, reqVars>>

\* "Break early, if we are entering exclusive mode"
monitor_break ==
  /\ Monitoring
  /\ mpos \in Addr /\ mreg > 0
  /\ exclusive[mpos]
  /\ NextDevice
  /\ UNCHANGED <<pollVars, devVars, scanVars, ctlVars, reqVars, cmd>>

monitor_end ==
  /\ Monitoring
  /\ mpos = LastAddr + 1
  /\ mpos' = 0
  /\ func_returns("monitor")
  /\ UNCHANGED <<mreg, devVars, scanVars, ctlVars, reqVars, cmd>>

-----------------------------------------------------------------------------
(* The clients of the service. *)

\* rawCmd() and the like; getModbusDevice() throws for any other device.
client_command(a) ==
  /\ "command" \in Requests
  /\ cmd["client"].st = "none"
  /\ mode[a] = "ACTIVE"
  /\ CommandStart("client", a)
  /\ UNCHANGED <<pollVars, devVars, scanVars, monVars, ctlVars, reqVars>>

\* forceScan() sets the flag, ...
forceScan ==
  /\ "rescan" \in Requests
  /\ rpc = "idle"
  /\ reqForceScan_' = TRUE
  /\ owed' = IF InFullScan THEN "late" ELSE "yes"
  /\ rpc' = IF present["scan"] THEN "tick" ELSE "idle"
  /\ UNCHANGED <<pollVars, devVars, scanVars, monVars, present, cpc, cmd>>

\* ... and wakes the scan thread it found.
forceScan_tick ==
  /\ rpc = "tick"
  /\ tick("scan")
  /\ rpc' = "idle"
  /\ UNCHANGED <<devVars, scanVars, monVars, present, cpc, reqVars, cmd>>

StartThread(t) ==
  /\ present' = [present EXCEPT ![t] = TRUE]
  /\ start(t)
  /\ UNCHANGED <<mode, fails, scanVars, monVars, rpc, reqVars, cmd>>

\* start(): while the threads run it throws instead.
start_scan ==
  /\ cpc = "paused"
  /\ exclusive' = [a \in Addr |-> FALSE]
  /\ StartThread("scan")
  /\ cpc' = "start_monitor"

start_monitor ==
  /\ cpc = "start_monitor"
  /\ StartThread("monitor")
  /\ cpc' = "running"
  /\ UNCHANGED exclusive

\* stop(): the devices known by now go to exclusive mode, ...
stop_exclusive ==
  /\ "pause" \in Requests
  /\ cpc \in {"paused", "running"}
  /\ exclusive' = [a \in Addr |-> isDeviceKnown(a)]
  /\ cpc' = "stop_flag"
  /\ UNCHANGED <<pollVars, mode, fails, scanVars, monVars, present, rpc,
                 reqVars, cmd>>

\* ... a full scan is called off (every caller has forceStop), ...
stop_flag ==
  /\ cpc = "stop_flag"
  /\ reqForceScan_' = FALSE
  /\ owed' = "no"
  /\ cpc' = IF present["monitor"] THEN "stop_monitor" ELSE "paused"
  /\ UNCHANGED <<pollVars, devVars, scanVars, monVars, present, rpc, cmd>>

\* ... and the threads are told to stop and joined, the monitor first.
stop_thread(t, at, to) ==
  /\ cpc = at
  /\ notifyStop(t)
  /\ cpc' = to
  /\ UNCHANGED <<devVars, scanVars, monVars, present, rpc, reqVars, cmd>>

join_monitor ==
  /\ cpc = "join_monitor"
  /\ join("monitor")
  /\ present' = [present EXCEPT !["monitor"] = FALSE]
  /\ cpc' = "stop_scan"
  /\ UNCHANGED <<devVars, scanVars, monVars, rpc, reqVars, cmd>>

\* A forceScan() that has not ticked yet will tick the thread that is gone.
join_scan ==
  /\ cpc = "join_scan"
  /\ join("scan")
  /\ present' = [present EXCEPT !["scan"] = FALSE]
  /\ cpc' = "paused"
  /\ rpc' = "idle"
  /\ UNCHANGED <<devVars, scanVars, monVars, reqVars, cmd>>

-----------------------------------------------------------------------------
Worker(t) ==
  /\ worker_first(t) \/ worker_wakes(t) \/ worker_acks(t)
  /\ UNCHANGED <<devVars, scanVars, monVars, ctlVars, reqVars, cmd>>

CommandStep(u) ==
  \/ command_ok(u) \/ command_refused(u)
  \/ command_fails(u) \/ handleCommandFailure(u)

Scan ==
  \/ scan_begin
  \/ full_skip \/ full_abort \/ full_answer \/ full_silence
  \/ full_insert \/ full_tick \/ full_done
  \/ probe_nothing \/ probe_answer \/ probe_insert \/ probe_tick
  \/ inspect_skip \/ inspect_send \/ inspect_result \/ inspect_end
  \/ recoverDormant \/ advance

Monitor ==
  \/ monitor_begin \/ monitor_skip \/ monitor_device
  \/ monitor_register \/ monitor_break \/ monitor_end

Stop ==
  \/ stop_flag
  \/ stop_thread("monitor", "stop_monitor", "join_monitor")
  \/ join_monitor
  \/ stop_thread("scan", "stop_scan", "join_scan")
  \/ join_scan

Next ==
  \/ \E t \in Poll : Worker(t)
  \/ \E u \in User : CommandStep(u)
  \/ Scan
  \/ Monitor
  \/ \E a \in Addr : client_command(a)
  \/ forceScan \/ forceScan_tick
  \/ start_scan \/ start_monitor
  \/ stop_exclusive \/ Stop

(***************************************************************************)
(* Threads run, and attempts end: by an answer or by a timeout.  A writer   *)
(* gets the mutex between the readers (strong fairness), a device that is   *)
(* attached answers now and then, and a dormant one becomes 300 s old.      *)
(* Nothing makes a client pause, resume, send or ask for a scan.            *)
(***************************************************************************)
Fairness ==
  /\ \A t \in Poll : WF_vars(Worker(t))
  /\ \A u \in User : WF_vars(CommandStep(u))
  /\ WF_vars(Scan)
  /\ WF_vars(Monitor)
  /\ WF_vars(forceScan_tick)
  /\ WF_vars(start_monitor)
  /\ WF_vars(Stop)
  /\ SF_vars(full_insert \/ probe_insert \/ recoverDormant)
  /\ SF_vars(full_answer \/ probe_answer)
  /\ SF_vars(inspect_send)
  /\ SF_vars(command_ok("scan"))

Spec == Init /\ [][Next]_vars
FairSpec == Spec /\ Fairness

-----------------------------------------------------------------------------
(* Properties *)

\* A device that is known is never replaced by a new object, which would lose
\* its history and leave exclusive mode: only the scan thread inserts, and
\* nothing comes between its look-up and its insertion.
NeverReplaced ==
  /\ scan.pc = "full_insert" => mode[scan.pos] = "unknown"
  /\ scan.pc = "insert" => mode[nextDeviceToProbe_] = "unknown"

\* A request for a full scan that no full scan has begun to serve, and no
\* pause has called off, is still in reqForceScan_, if it did not come while
\* a full scan was running.
RequestKept == owed = "yes" => reqForceScan_

\* Between the end of a pause and the next resume no thread of the daemon is
\* on the bus, and no full scan or monitor round is stuck half-way.
PausedIsQuiet ==
  cpc = "paused" =>
    /\ scan = ScanIdle /\ mpos = 0
    /\ cmd["scan"] = NoCommand /\ cmd["monitor"] = NoCommand
    /\ \A t \in Poll : worker[t] = "none"

\* stop() returns, wherever the two threads and the clients are.
PauseCompletes == (cpc = "stop_flag") ~> (cpc = "paused")

\* A full scan that was asked for begins, unless the threads are paused.
RequestServed == (owed = "yes") ~> (owed # "yes" \/ cpc = "paused")


=============================================================================
