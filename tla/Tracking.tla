------------------------------ MODULE Tracking ------------------------------
(***************************************************************************)
(* The execution statistics of one instance and the interrupts built on    *)
(* them: the statics of tracking.rs, the interrupt handler and the         *)
(* rejection tracker that init.rs installs, and the calls of instance.go   *)
(* that read and reset them.                                               *)
(*                                                                         *)
(* The life of an instance is a sequence of segments of JS: a unit (eval,  *)
(* eval_compiled or dispatch_event, which first discards what the unit     *)
(* before it left) and then one settlement (resolve_rpc, reject_rpc) for   *)
(* each RPC the unit made; between the segments the host waits.  QuickJS   *)
(* polls the interrupt handler every 10000 opcodes, wherever JS runs.      *)
(* Time is relative: a running clock holds the time since its start.       *)
(***************************************************************************)
EXTENDS Integers

CONSTANTS
  MaxOpcodes, MaxCPU,   \* the budget of the interrupt callback, 0 for none
  MaxUnits,             \* bound: units of an instance
  MaxPolls, MaxTime     \* bounds: polls counted and time seen since a reset

ASSUME TrackingAssumption ==
  /\ {MaxOpcodes, MaxCPU, MaxUnits, MaxPolls, MaxTime} \subseteq Nat

VARIABLES
  place,        \* where the guest is, see Places
  unit,         \* the number of the current unit
  opcodes,      \* OPCODE_COUNT
  cpu,          \* CPU_ELAPSED_US
  since,        \* EXEC_START: the time since the clock was started, or Off
  nextCheck,    \* NEXT_CHECK
  saved,        \* the statistics discard_stale_state saved
  draining,     \* DRAINING
  initialized,  \* INITIALIZED
  usedRpcCalls, \* USED_RPC_CALLS
  force,        \* FORCE_INTERRUPT
  trapped       \* a trap left the QuickJS context locked

VARIABLES
  polls,        \* history: polls of live JS since the statistics were reset
  passed,       \* history: those of them after which the JS went on
  spent,        \* history: time in JS since the statistics were reset
  held,         \* history: time in synchronous handlers since then
  forcedIn      \* history: the last unit during which a rejection forced a stop

statics == <<opcodes, cpu, since, nextCheck, saved, draining, initialized, usedRpcCalls,
             force>>
ledger == <<polls, passed, spent, held, forcedIn>>
tvars == <<place, unit, statics, trapped, ledger>>

PollOpcodes == 10000
CheckInterval == 1
Off == -1
NoUnit == -1

(***************************************************************************)
(* "host": no export runs; "drain" and "reset": discard_stale_state        *)
(* executes the stale jobs, then __reset; "js": a segment of the unit;     *)
(* "sync": the segment waits for the handler of host.rpcSync.              *)
(***************************************************************************)
Places == {"host", "drain", "reset", "js", "sync"}

Stats == Nat \X Nat \X (Nat \cup {Off}) \X Nat

TrackingTypeOK ==
  /\ place \in Places
  /\ unit \in 0..MaxUnits
  /\ {opcodes, cpu, nextCheck} \subseteq Nat
  /\ since \in Nat \cup {Off}
  /\ saved \in Stats
  /\ draining \in BOOLEAN /\ initialized \in BOOLEAN /\ usedRpcCalls \in BOOLEAN
  /\ force \in BOOLEAN /\ trapped \in BOOLEAN
  /\ {polls, passed, spent, held} \subseteq Nat
  /\ forcedIn \in 0..MaxUnits \cup {NoUnit}

\* The statistics of the snapshot that wizer took.
TrackingInit ==
  /\ place = "host" /\ unit = 0
  /\ opcodes = 0 /\ cpu = 0 /\ since = Off /\ nextCheck = CheckInterval
  /\ saved = <<0, 0, Off, 0>>
  /\ draining = FALSE /\ initialized = FALSE /\ usedRpcCalls = FALSE /\ force = FALSE
  /\ trapped = FALSE
  /\ polls = 0 /\ passed = 0 /\ spent = 0 /\ held = 0 /\ forcedIn = NoUnit

-----------------------------------------------------------------------------
(* The statistics, as the host sees them. *)

\* A variant the runs must reject: the clock is read whether it runs or not.
sampleAlways == since

\* sample_elapsed_us.
Sample == IF since = Off THEN cpu ELSE since

\* A variant the runs must reject: a reset that forgets NEXT_CHECK.
resetCounters ==
  /\ place = "host"
  /\ opcodes' = 0 /\ cpu' = 0 /\ since' = Off
  /\ polls' = 0 /\ passed' = 0 /\ spent' = 0 /\ held' = 0
  /\ UNCHANGED <<place, unit, nextCheck, saved, draining, initialized, usedRpcCalls, force,
                 trapped, forcedIn>>

\* ResetExecutionStats.
ResetExecutionStats ==
  /\ place = "host"
  /\ opcodes' = 0 /\ cpu' = 0 /\ since' = Off /\ nextCheck' = CheckInterval
  /\ polls' = 0 /\ passed' = 0 /\ spent' = 0 /\ held' = 0
  /\ UNCHANGED <<place, unit, saved, draining, initialized, usedRpcCalls, force, trapped,
                 forcedIn>>

\* GetExecutionStats; the reading is itself a sample.
GetExecutionStats ==
  /\ place = "host"
  /\ cpu' = Sample
  /\ UNCHANGED <<place, unit, opcodes, since, nextCheck, saved, draining, initialized,
                 usedRpcCalls, force, trapped, ledger>>

-----------------------------------------------------------------------------
(* The segments of JS. *)

\* A variant the runs must reject: the stop forced in one unit stays for the next.
startForced ==
  /\ place = "host" /\ unit < MaxUnits
  /\ unit' = unit + 1
  /\ initialized' = TRUE /\ usedRpcCalls' = FALSE
  /\ place' = IF trapped THEN "host" ELSE IF usedRpcCalls THEN "drain" ELSE "js"
  /\ IF usedRpcCalls
     THEN /\ saved' = <<opcodes, cpu, since, nextCheck>>
          /\ draining' = TRUE /\ UNCHANGED since
     ELSE since' = 0 /\ UNCHANGED <<saved, draining>>
  /\ UNCHANGED <<opcodes, cpu, nextCheck, force, trapped, ledger>>

\* The unit begins: discard_stale_state up to its drain, or its fast path and the
\* start of the clock.  Once a trap has locked the context, the unit traps where
\* it first enters it, and leaves the flag or the clock as they are there.
StartUnit ==
  /\ place = "host" /\ unit < MaxUnits
  /\ unit' = unit + 1
  /\ force' = FALSE /\ initialized' = TRUE /\ usedRpcCalls' = FALSE
  /\ place' = IF trapped THEN "host" ELSE IF usedRpcCalls THEN "drain" ELSE "js"
  /\ IF usedRpcCalls
     THEN /\ saved' = <<opcodes, cpu, since, nextCheck>>
          /\ draining' = TRUE /\ UNCHANGED since
     ELSE since' = 0 /\ UNCHANGED <<saved, draining>>
  /\ UNCHANGED <<opcodes, cpu, nextCheck, trapped, ledger>>

\* The queue is empty: the statistics are put back and __reset is called.
DrainEnds ==
  /\ place = "drain"
  /\ place' = "reset" /\ draining' = FALSE
  /\ opcodes' = saved[1] /\ cpu' = saved[2] /\ since' = saved[3] /\ nextCheck' = saved[4]
  /\ UNCHANGED <<unit, saved, initialized, usedRpcCalls, force, trapped, ledger>>

\* __reset has returned or was interrupted; the script of the unit begins.
ResetEnds ==
  /\ place = "reset"
  /\ place' = "js" /\ since' = 0
  /\ UNCHANGED <<unit, opcodes, cpu, nextCheck, saved, draining, initialized,
                 usedRpcCalls, force, trapped, ledger>>

\* call_js_rpc_settlement: an RPC of the unit, or of a job it drained, has its answer.
StartSettlement ==
  /\ place = "host" /\ usedRpcCalls /\ ~trapped
  /\ place' = "js" /\ since' = 0
  /\ UNCHANGED <<unit, opcodes, cpu, nextCheck, saved, draining, initialized,
                 usedRpcCalls, force, trapped, ledger>>

\* A variant the runs must reject: the clock runs on while the host waits.
leaveClockOn ==
  /\ place = "js"
  /\ place' = "host" /\ cpu' = Sample
  /\ UNCHANGED <<unit, opcodes, since, nextCheck, saved, draining, initialized,
                 usedRpcCalls, force, trapped, ledger>>

\* The export returns.
SegmentEnds ==
  /\ place = "js"
  /\ place' = "host" /\ cpu' = Sample /\ since' = Off
  /\ UNCHANGED <<unit, opcodes, nextCheck, saved, draining, initialized, usedRpcCalls,
                 force, trapped, ledger>>

\* The export traps: nothing of its epilogue runs.
Trap ==
  /\ place \notin {"host", "sync"}
  /\ place' = "host" /\ trapped' = TRUE
  /\ UNCHANGED <<unit, statics, ledger>>

-----------------------------------------------------------------------------
(* What the JS does to the statics. *)

Live == {"reset", "js"}            \* JS that the budget is for
RunsJS == Live \cup {"drain"}

\* The callback of the CLI, and of README's examples.
OverBudget(count, time) ==
  \/ MaxOpcodes > 0 /\ count > MaxOpcodes
  \/ MaxCPU > 0 /\ time > MaxCPU

\* The interrupt handler.  interrupted is the flag of Instance.Interrupt; polls in
\* the drain, and once a stop is forced, are answered without the host.
AskHost(interrupted) ==
  /\ opcodes' = opcodes + PollOpcodes
  /\ LET asks == initialized /\ opcodes' >= nextCheck IN
       /\ nextCheck' = IF asks THEN opcodes' + CheckInterval ELSE nextCheck
       /\ cpu' = IF asks THEN Sample ELSE cpu
       /\ passed' = IF asks /\ (interrupted \/ OverBudget(opcodes', Sample))
                    THEN passed ELSE passed + 1

\* A variant the runs must reject: the flag of the drain is not looked at.
pollIgnoringDrain(interrupted) ==
  /\ place \in RunsJS /\ polls < MaxPolls
  /\ polls' = IF place \in Live /\ ~force THEN polls + 1 ELSE polls
  /\ IF force THEN UNCHANGED <<opcodes, nextCheck, cpu, passed>> ELSE AskHost(interrupted)
  /\ UNCHANGED <<place, unit, since, saved, draining, initialized, usedRpcCalls, force,
                 trapped, spent, held, forcedIn>>

Poll(interrupted) ==
  /\ place \in RunsJS /\ polls < MaxPolls
  /\ polls' = IF place \in Live /\ ~force THEN polls + 1 ELSE polls
  /\ IF draining \/ force THEN UNCHANGED <<opcodes, nextCheck, cpu, passed>>
                          ELSE AskHost(interrupted)
  /\ UNCHANGED <<place, unit, since, saved, draining, initialized, usedRpcCalls, force,
                 trapped, spent, held, forcedIn>>

\* __host_rpc_native, by the unit or by a stale job.
IssueRPC ==
  /\ place \in {"drain", "js"}
  /\ usedRpcCalls' = TRUE
  /\ UNCHANGED <<place, unit, opcodes, cpu, since, nextCheck, saved, draining, initialized,
                 force, trapped, ledger>>

\* An unhandled rejection, by the unit or by a stale job, for which
\* hostPromiseRejection returns 1; without a handler it returns 0.
Reject ==
  /\ place \in {"drain", "js"}
  /\ force' = TRUE /\ forcedIn' = unit
  /\ UNCHANGED <<place, unit, opcodes, cpu, since, nextCheck, saved, draining, initialized,
                 usedRpcCalls, trapped, polls, passed, spent, held>>

\* host.rpcSync: the handler runs while the guest's clock does.
SyncBegins ==
  /\ place = "js" /\ place' = "sync"
  /\ UNCHANGED <<unit, statics, trapped, ledger>>

SyncEnds ==
  /\ place = "sync" /\ place' = "js"
  /\ UNCHANGED <<unit, statics, trapped, ledger>>

\* A running clock runs everywhere; the history knows where the time went.
TimePasses ==
  /\ spent + held < MaxTime /\ since < MaxTime
  /\ since' = IF since = Off THEN Off ELSE since + 1
  /\ spent' = IF place = "js" THEN spent + 1 ELSE spent
  /\ held' = IF place = "sync" THEN held + 1 ELSE held
  /\ UNCHANGED <<place, unit, opcodes, cpu, nextCheck, saved, draining, initialized,
                 usedRpcCalls, force, trapped, polls, passed, forcedIn>>

Inside ==
  \/ DrainEnds \/ ResetEnds \/ SegmentEnds \/ Trap
  \/ \E interrupted \in BOOLEAN : Poll(interrupted)
  \/ IssueRPC \/ Reject \/ SyncBegins \/ SyncEnds

TrackingNext ==
  \/ ResetExecutionStats \/ GetExecutionStats \/ StartUnit \/ StartSettlement
  \/ Inside \/ TimePasses

TrackingSpec == TrackingInit /\ [][TrackingNext]_tvars
-----------------------------------------------------------------------------
(* Properties. *)

\* Short of a trap, the flag and the clock follow the code: stale jobs and only they
\* are stopped by DRAINING, and the clock runs during a segment and only then.
FlagsFollowPlace ==
  ~trapped =>
    /\ draining <=> place = "drain"
    /\ since # Off <=> place \in {"js", "sync"}

\* OPCODE_COUNT counts the polls of live JS since the reset, over all the segments of
\* all units, and none of those that the drain or a forced stop answers.
OpcodesExact == opcodes = PollOpcodes * polls

\* NEXT_CHECK never hides a poll from the host.
EveryPollAsks == nextCheck <= opcodes + PollOpcodes

\* JS goes on after a poll only within the budget of opcodes: segments, drains,
\* settlements and units since the last reset taken together.
OpcodeBudgetKept == MaxOpcodes > 0 => PollOpcodes * passed <= MaxOpcodes

\* Short of a trap, the CPU time that is reported, or shown to the budget callback,
\* is time of the segments themselves: no waiting of the host for an answer or for
\* the next call, and no drain, is charged.
NotChargedForWaiting == ~trapped => Sample <= spent + held

\* A stop is forced exactly from the first rejection the handler condemns in a unit,
\* the drain at its start included, to the start of the next unit; settlements do
\* not lift it.
ForceIsOfUnit == force <=> forcedIn = unit

\* GetExecutionStats returns the CPU time accumulated since the last reset.
CPUAccumulates == (place = "host" /\ ~trapped) => Sample >= spent
=============================================================================
