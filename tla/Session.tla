------------------------------ MODULE Session ------------------------------
(***************************************************************************)
(* The session of the CLI (session.go), in each of its modes: it makes a   *)
(* Runtime and an instance, executes commands on the instance, replaces it *)
(* on a reset, and closes what it made.  What New, Instance and Close do   *)
(* inside is Runtime's; here each succeeds or fails as a whole.  Of the    *)
(* statistics there is OPCODE_COUNT, which Tracking shows to count the     *)
(* polls of live JS since the last reset; what the script of a command     *)
(* ends with, and prints as, is in Errors.                                 *)
(***************************************************************************)
EXTENDS Errors

CONSTANTS
  MaxOpcodes,    \* -max-opcodes in polls, 0 for none
  MaxInstances,  \* bound: instances made by one process
  MaxPolls       \* bound: polls of one command

ASSUME SessionAssumption == {MaxOpcodes, MaxInstances, MaxPolls} \subseteq Nat

VARIABLES
  mode,       \* "file", "json" or "interactive"
  step,       \* where the main goroutine is, see Steps
  cache,      \* s.cache: "none", "open" or "closed"
  rt,         \* s.rt: the same
  inst,       \* s.inst: the number of the current instance, or NoInstance
  guests,     \* the instances whose module is open
  made,       \* instances made so far
  rpcFallback,\* s.rpcFallback is set
  wired,      \* the router of the current instance has the fallback
  count,      \* OPCODE_COUNT of the current instance, in polls
  stopped,    \* the interrupt callback stopped the current command
  screen,     \* what the last step printed, or Blank
  ownPolls    \* history: polls of the live JS of the current command

opening == <<mode, cache, rt, rpcFallback>>
instance == <<inst, guests, made, wired>>
running == <<count, stopped, ownPolls>>
svars == <<opening, step, instance, running, screen>>

NoInstance == 0

(***************************************************************************)
(* "start" and "reset" are in newSession; "wire" is the second reset of    *)
(* the JSON and interactive modes; "ready" waits for a command, "begun"    *)
(* has reset the statistics, "running" is in Eval or DispatchEvent, "done" *)
(* has executed the file; the process ends by "returned" (the deferred     *)
(* close), "exited" (os.Exit), or "crashed" (a nil instance).              *)
(***************************************************************************)
Steps == {"start", "reset", "wire", "ready", "begun", "running", "done", "returned",
          "exited", "crashed"}

SessionTypeOK ==
  /\ mode \in {"file", "json", "interactive"} /\ step \in Steps
  /\ cache \in {"none", "open", "closed"} /\ rt \in {"none", "open", "closed"}
  /\ inst \in 0..MaxInstances /\ made \in 0..MaxInstances
  /\ guests \subseteq 1..MaxInstances
  /\ rpcFallback \in BOOLEAN /\ wired \in BOOLEAN /\ stopped \in BOOLEAN
  /\ count \in Nat /\ ownPolls \in Nat
  /\ screen \in Screens

SessionInit ==
  /\ mode \in {"file", "json", "interactive"} /\ step = "start"
  /\ cache = "none" /\ rt = "none" /\ rpcFallback = FALSE
  /\ inst = NoInstance /\ guests = {} /\ made = 0 /\ wired = FALSE
  /\ count = 0 /\ stopped = FALSE /\ ownPolls = 0
  /\ screen = Blank

Quiet == screen' = Blank

\* Each mode has its printer; a file is printed as -json says.
Prints(r) ==
  \/ mode # "interactive" /\ screen' = printJSON(r)
  \/ mode # "json" /\ screen' = printInteractive(r)

-----------------------------------------------------------------------------
(* newSession and close. *)

\* newFileCache succeeds or not; New succeeds.
NewSession ==
  /\ step = "start" /\ step' = "reset"
  /\ cache' \in {"none", "open"} /\ rt' = "open"
  /\ Quiet /\ UNCHANGED <<mode, rpcFallback, instance, running>>

\* New fails: the process exits, the cache closed if there was one.
NewFails ==
  /\ step = "start" /\ step' = "exited"
  /\ cache' \in {"none", "closed"}
  /\ Quiet /\ UNCHANGED <<mode, rt, rpcFallback, instance, running>>

CloseCache == IF cache = "open" THEN "closed" ELSE cache

\* rt.Close closes the instances that are left.
CloseAll == rt' = "closed" /\ cache' = CloseCache /\ guests' = {}

\* A variant the runs must reject: close leaves the cache open.
closeKeepingCache ==
  /\ step' = "returned"
  /\ rt' = "closed" /\ guests' = {} /\ UNCHANGED cache

\* The deferred close at the end of each mode.
SessionClose == step' = "returned" /\ CloseAll

-----------------------------------------------------------------------------
(* reset: the old instance is closed, and the new one is made or not. *)

\* A variant the runs must reject: the old instance is not closed.
ResetOverOld ==
  /\ made < MaxInstances
  /\ made' = made + 1 /\ inst' = made + 1
  /\ guests' = guests \cup {made + 1}
  /\ wired' = rpcFallback
  /\ count' = 0 /\ stopped' = FALSE /\ ownPolls' = 0

ResetWorks ==
  /\ made < MaxInstances
  /\ made' = made + 1 /\ inst' = made + 1
  /\ guests' = (guests \ {inst}) \cup {made + 1}
  /\ wired' = rpcFallback
  /\ count' = 0 /\ stopped' = FALSE /\ ownPolls' = 0

\* rt.Instance returned nil and an error, and both are stored.
ResetFails ==
  /\ inst' = NoInstance /\ guests' = guests \ {inst}
  /\ wired' = FALSE
  /\ UNCHANGED <<made, running>>

\* A variant the runs must reject: the instance made before the fallback was set is kept.
firstResetOnly ==
  /\ step = "reset" /\ step' = "ready"
  /\ rpcFallback' = (mode # "file")
  /\ ResetWorks
  /\ Quiet /\ UNCHANGED <<mode, cache, rt>>

\* newSession's own reset; its caller then sets the fallback, except in file mode.
FirstReset ==
  /\ step = "reset"
  /\ step' = IF mode = "file" THEN "ready" ELSE "wire"
  /\ rpcFallback' = (mode # "file")
  /\ ResetWorks
  /\ Quiet /\ UNCHANGED <<mode, cache, rt>>

\* It fails: newSession closes all and the process exits.
FirstResetFails ==
  /\ step = "reset" /\ step' = "exited"
  /\ CloseAll /\ inst' = NoInstance
  /\ Quiet /\ UNCHANGED <<mode, rpcFallback, made, wired, running>>

\* The reset that wires the fallback; when it fails the process exits at once.
WireFallback ==
  /\ step = "wire"
  /\ \/ ResetWorks /\ step' = "ready"
     \/ ResetFails /\ step' = "exited"
  /\ Quiet /\ UNCHANGED opening

-----------------------------------------------------------------------------
(* exec: the commands. *)

\* reset, which keeps the error of the instance it could not make.
ExecReset ==
  /\ step = "ready"
  /\ \/ ResetWorks /\ Prints(TextResult)
     \/ ResetFails /\ Prints(ErrorResult(GoError))
  /\ UNCHANGED <<opening, step>>

\* help and clear.
ExecText ==
  /\ step = "ready" /\ Prints(TextResult)
  /\ UNCHANGED <<opening, step, instance, running>>

\* A variant the runs must reject: the statistics are not reset before a command.
execWithoutReset ==
  /\ step = "ready"
  /\ step' = IF inst = NoInstance THEN "crashed" ELSE "begun"
  /\ stopped' = FALSE /\ ownPolls' = 0
  /\ Quiet /\ UNCHANGED <<opening, instance, count>>

\* execEval and execDispatch begin with the statistics; where the last reset left no
\* instance, by dereferencing nil.
Exec ==
  /\ step = "ready"
  /\ step' = IF inst = NoInstance THEN "crashed" ELSE "begun"
  /\ count' = 0 /\ stopped' = FALSE /\ ownPolls' = 0
  /\ Quiet /\ UNCHANGED <<opening, instance>>

CallBegins ==
  /\ step = "begun" /\ step' = "running"
  /\ Quiet /\ UNCHANGED <<opening, instance, running>>

\* The script, or a settlement of its RPC loop, is polled: the interrupt callback of reset.
Polled ==
  /\ step = "running" /\ ownPolls < MaxPolls
  /\ count' = count + 1 /\ ownPolls' = ownPolls + 1
  /\ stopped' = (stopped \/ (MaxOpcodes > 0 /\ count' > MaxOpcodes))
  /\ Quiet /\ UNCHANGED <<opening, step, instance>>

\* The call returned and the result, with its statistics, is printed.
ExecEnds(r) ==
  /\ step = "running"
  /\ step' = IF mode = "file" THEN "done" ELSE "ready"
  /\ Prints(r)
  /\ UNCHANGED <<opening, instance, running>>

-----------------------------------------------------------------------------
(* The ends of the process. *)

\* stdin ends, or the file was executed.
ModeReturns ==
  /\ step = IF mode = "file" THEN "done" ELSE "ready"
  /\ SessionClose
  /\ Quiet /\ UNCHANGED <<mode, rpcFallback, inst, made, wired, running>>

\* The command exit, which only the interactive mode has: os.Exit(0) runs no defer.
ExecExit ==
  /\ step = "ready" /\ step' = "exited"
  /\ screen' = Shown("text") /\ UNCHANGED <<opening, instance, running>>

\* What needs no command.
SessionGoesOn ==
  \/ NewSession \/ NewFails
  \/ FirstReset \/ FirstResetFails \/ WireFallback
  \/ CallBegins \/ Polled
  \/ ModeReturns

-----------------------------------------------------------------------------
(* Properties. *)

\* A command runs on an open instance of an open runtime, and no instance but the
\* current one is open: a reset leaves none behind, however often it fails.
OneInstance ==
  /\ guests \subseteq {inst} \ {NoInstance}
  /\ step \in {"ready", "begun", "running"} =>
       /\ rt = "open"
       /\ inst # NoInstance => guests = {inst}

\* When a mode returns, or newSession fails, all it made is closed.
ClosedAtReturn ==
  (step = "returned" \/ (step = "exited" /\ made = 0)) =>
    guests = {} /\ rt # "open" /\ cache # "open"

\* RPCs reach the peer: in the JSON and interactive modes every instance that commands
\* run on was made after the fallback was set.
FallbackWired ==
  (step \in {"ready", "begun", "running"} /\ mode # "file" /\ inst # NoInstance) => wired

\* The opcodes of a result are those of its own command, and it is stopped only for its
\* own: nothing of the commands before it on the same instance is charged to it.
BudgetIsOwn ==
  step \in {"running", "done"} =>
    /\ count = ownPolls
    /\ stopped => MaxOpcodes > 0 /\ ownPolls > MaxOpcodes
=============================================================================
