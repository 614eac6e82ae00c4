-------------------------------- MODULE Host --------------------------------
(***************************************************************************)
(* The host side of one kafig instance (kafig-go/instance.go): the calls   *)
(* Eval, EvalCompiled and DispatchEvent, one after the other on one        *)
(* goroutine, the prelude that runs when the instance is created, the host *)
(* imports the guest calls while an export runs, and the RPC service loop  *)
(* with its handler goroutines.                                            *)
(*                                                                         *)
(* The guest is an environment here: while one of its exports runs it may  *)
(* queue RPCs and report results in any order, then return or fail.        *)
(* A call is named by its number; 0 is the prelude, which runs before the  *)
(* caller has the instance.  A result or an error is abstracted to the     *)
(* number of the call during which the guest reported it.                  *)
(***************************************************************************)
EXTENDS Integers, FiniteSets

CONSTANTS
  PromiseIds,          \* the promise ids the guest may use, each at most once
  MaxCalls,            \* bound on the number of calls after the prelude
  ChanCap,             \* capacity of the results channel (16 in the code)
  CloseOnContextDone,  \* WithCloseOnContextDone(true) on the runtime
  MayCancel,           \* may the caller's context be cancelled during a call?
  MayInterrupt         \* may another goroutine call Interrupt()?

ASSUME HostAssumption ==
  /\ IsFiniteSet(PromiseIds)
  /\ MaxCalls \in Nat
  /\ ChanCap \in Nat \ {0}
  /\ CloseOnContextDone \in BOOLEAN
  /\ MayCancel \in BOOLEAN
  /\ MayInterrupt \in BOOLEAN

Calls == 0..MaxCalls
NoCall == -1

VARIABLES
  pc,           \* where the calling goroutine is: "idle", "wasm" (in the export
                \* of the call), "loop" (in serviceRPCLoop), "settle" (in
                \* resolve_rpc or reject_rpc)
  call,         \* the current or, when pc = "idle", the latest call
  isAsync,      \* the call's WithAsync option
  st,           \* what became of each RPC, see Stages
  during,       \* the call that was running when host_rpc queued the RPC
  owner,        \* the call whose service loop launched its handler
  inflight,     \* the loop's counter
  ctxDone,      \* the calls whose context is cancelled
  rpcDone,      \* the calls whose loop has run its deferred rpcCancel()
  scriptError,  \* NoCall when hasError is false
  resultValue,  \* NoCall when hasResult is false
  returned,     \* what each call returned to its caller
  interrupted,  \* the atomic flag of Interrupt()
  asked,        \* history: Interrupt() came since the current call began
  stopped,      \* history: host_should_interrupt saw the flag in the current call
  closed        \* the WASM module is closed

rpcVars == <<st, during, owner>>
ctxVars == <<ctxDone, rpcDone>>
registers == <<scriptError, resultValue>>
intVars == <<interrupted, asked, stopped>>
vars == <<pc, call, isAsync, rpcVars, inflight, ctxVars, registers, returned,
          intVars, closed>>

(***************************************************************************)
(* The stages of an RPC.  "queued" is an entry of inst.pendingRPCs;        *)
(* "handling" a goroutine inside its handler; "answered" a goroutine at    *)
(* its select; "buffered" an rpcResult in the results channel of its       *)
(* owner; "delivered" one the loop has received; "dropped" one whose       *)
(* goroutine took the ctx.Done() arm; "discarded" an entry that resetState *)
(* truncated.                                                              *)
(***************************************************************************)
Stages == {"fresh", "queued", "handling", "answered", "buffered", "delivered",
           "dropped", "discarded"}
Outcomes == [kind : {"open", "none", "value", "error", "failed"},
             from : Calls \cup {NoCall}]

Outcome(k, c) == [kind |-> k, from |-> c]

pendingRPCs == {id \in PromiseIds : st[id] = "queued"}
Launched(c) == {id \in PromiseIds : owner[id] = c}
Buffer(c) == {id \in Launched(c) : st[id] = "buffered"}

TypeOK ==
  /\ pc \in {"idle", "wasm", "loop", "settle"}
  /\ call \in Calls
  /\ isAsync \in [Calls -> BOOLEAN]
  /\ st \in [PromiseIds -> Stages]
  /\ during \in [PromiseIds -> Calls \cup {NoCall}]
  /\ owner \in [PromiseIds -> Calls \cup {NoCall}]
  /\ inflight \in Nat
  /\ ctxDone \subseteq Calls
  /\ rpcDone \subseteq Calls
  /\ scriptError \in Calls \cup {NoCall}
  /\ resultValue \in Calls \cup {NoCall}
  /\ returned \in [Calls -> Outcomes]
  /\ interrupted \in BOOLEAN
  /\ asked \in BOOLEAN
  /\ stopped \in BOOLEAN
  /\ closed \in BOOLEAN

(***************************************************************************)
(* newInstance: with a prelude, its bytecode is running as call 0; without *)
(* one, the instance is ready.                                             *)
(***************************************************************************)
Init ==
  /\ pc \in {"idle", "wasm"}
  /\ call = 0
  /\ isAsync = [c \in Calls |-> FALSE]
  /\ st = [id \in PromiseIds |-> "fresh"]
  /\ during = [id \in PromiseIds |-> NoCall]
  /\ owner = [id \in PromiseIds |-> NoCall]
  /\ inflight = 0
  /\ ctxDone = {}
  /\ rpcDone = {}
  /\ scriptError = NoCall
  /\ resultValue = NoCall
  /\ returned = [c \in Calls |-> IF c = 0 /\ pc = "idle" THEN Outcome("none", NoCall)
                                                         ELSE Outcome("open", NoCall)]
  /\ interrupted = FALSE
  /\ asked = FALSE
  /\ stopped = FALSE
  /\ closed = FALSE

Return(o) ==
  /\ pc' = "idle"
  /\ returned' = [returned EXCEPT ![call] = o]

\* A variant the runs must reject: the value first.
ValueFirst ==
  CASE resultValue # NoCall -> Outcome("value", resultValue)
    [] resultValue = NoCall /\ scriptError # NoCall -> Outcome("error", scriptError)
    [] OTHER -> Outcome("none", NoCall)

\* What Eval returns once the export and the loop are done: the error first.
RegisterOutcome ==
  CASE scriptError # NoCall -> Outcome("error", scriptError)
    [] scriptError = NoCall /\ resultValue # NoCall -> Outcome("value", resultValue)
    [] OTHER -> Outcome("none", NoCall)

\* Variants the runs must reject: the queue, or the result, is not reset.
resetRegistersOnly ==
  /\ scriptError' = NoCall
  /\ resultValue' = NoCall
  /\ UNCHANGED st

resetWithoutResult ==
  /\ scriptError' = NoCall
  /\ UNCHANGED resultValue
  /\ st' = [id \in PromiseIds |-> IF st[id] = "queued" THEN "discarded" ELSE st[id]]

resetState ==
  /\ scriptError' = NoCall
  /\ resultValue' = NoCall
  /\ st' = [id \in PromiseIds |-> IF st[id] = "queued" THEN "discarded" ELSE st[id]]

Launch ==
  /\ st' = [id \in PromiseIds |-> IF st[id] = "queued" THEN "handling" ELSE st[id]]
  /\ owner' = [id \in PromiseIds |-> IF st[id] = "queued" THEN call ELSE owner[id]]

\* Variants the runs must reject: = for +=, and -= for +=.
launchAssigning(n) == Launch /\ inflight' = Cardinality(pendingRPCs)
launchSubtracting(n) == Launch /\ inflight' = n - Cardinality(pendingRPCs)

\* inflight += launchPendingRPCs(...), inflight being n: one goroutine for each
\* queued RPC, the queue emptied.
launchPendingRPCs(n) == Launch /\ inflight' = n + Cardinality(pendingRPCs)

\* The deferred rpcCancel() of serviceRPCLoop, and the variant without it.
noCancel == UNCHANGED rpcDone
rpcCancel == rpcDone' = rpcDone \cup {call}

\* inst.interrupted.Store(false), and the variant without it.
keepInterrupt == UNCHANGED interrupted
clearInterrupt == interrupted' = FALSE

-----------------------------------------------------------------------------
(* The calling goroutine. *)

\* evalPrelude returned to newInstance: an error of the script closes the
\* module; otherwise the registers and the queue stay as the script left them.
PreludeReturns ==
  /\ pc = "wasm" /\ call = 0 /\ ~closed
  /\ IF scriptError # NoCall
     THEN /\ resetState
          /\ Return(Outcome("error", scriptError))
          /\ closed' = TRUE
     ELSE /\ Return(Outcome("none", NoCall))
          /\ UNCHANGED <<st, registers, closed>>
  /\ UNCHANGED <<call, isAsync, during, owner, inflight, ctxVars, intVars>>

\* The entry of Eval, EvalCompiled and DispatchEvent up to the first WASM call.
BeginCall(async) ==
  /\ pc = "idle" /\ call < MaxCalls
  /\ returned[0].kind = "none"      \* else the caller never got the instance
  /\ call' = call + 1
  /\ isAsync' = [isAsync EXCEPT ![call'] = async]
  /\ clearInterrupt
  /\ asked' = FALSE /\ stopped' = FALSE
  /\ resetState
  /\ pc' = "wasm"
  /\ UNCHANGED <<during, owner, inflight, ctxVars, returned, closed>>

\* The export returned and there is nothing to service.
ReturnWithoutLoop ==
  /\ pc = "wasm" /\ call # 0 /\ ~closed
  /\ isAsync[call] => pendingRPCs = {}
  /\ Return(RegisterOutcome)
  /\ UNCHANGED <<call, isAsync, rpcVars, inflight, ctxVars, registers, intVars, closed>>

\* The export of an async call returned with RPCs queued: serviceRPCLoop makes
\* its channel and launches the initial batch, whatever the registers hold.
EnterLoop ==
  /\ pc = "wasm" /\ call # 0 /\ ~closed
  /\ isAsync[call] /\ pendingRPCs # {}
  /\ launchPendingRPCs(0)
  /\ pc' = "loop"
  /\ UNCHANGED <<call, isAsync, during, ctxVars, registers, returned, intVars, closed>>

\* res := <-results, then the call of resolve_rpc or reject_rpc begins.
Receive(id) ==
  /\ pc = "loop" /\ inflight > 0
  /\ id \in Buffer(call)
  /\ st' = [st EXCEPT ![id] = "delivered"]
  /\ inflight' = inflight - 1
  /\ pc' = "settle"
  /\ UNCHANGED <<call, isAsync, during, owner, ctxVars, registers, returned, intVars, closed>>

\* The settlement returned without a script error: launch what it queued.
LoopAgain ==
  /\ pc = "settle" /\ ~closed
  /\ scriptError = NoCall
  /\ launchPendingRPCs(inflight)
  /\ pc' = "loop"
  /\ UNCHANGED <<call, isAsync, during, ctxVars, registers, returned, intVars, closed>>

\* The settlement returned with a script error: leave at once, rpcCancel() deferred.
ExitOnError ==
  /\ pc = "settle" /\ ~closed
  /\ scriptError # NoCall
  /\ Return(RegisterOutcome)
  /\ rpcCancel
  /\ UNCHANGED <<call, isAsync, rpcVars, inflight, ctxDone, registers, intVars, closed>>

LoopDone ==
  /\ pc = "loop" /\ inflight = 0
  /\ Return(RegisterOutcome)
  /\ rpcCancel
  /\ UNCHANGED <<call, isAsync, rpcVars, inflight, ctxDone, registers, intVars, closed>>

\* An export (alloc included) trapped, returned null, or met a closed module or,
\* with CloseOnContextDone, a cancelled context, which closes it.  A failing
\* prelude makes newInstance close it too.
ExportFails ==
  /\ pc \in {"wasm", "settle"}
  /\ Return(Outcome("failed", NoCall))
  /\ IF pc = "settle" THEN rpcCancel ELSE UNCHANGED rpcDone
  /\ closed' = (closed \/ call = 0 \/ (CloseOnContextDone /\ call \in ctxDone))
  /\ UNCHANGED <<call, isAsync, rpcVars, inflight, ctxDone, registers, intVars>>

Close ==
  /\ pc = "idle" /\ ~closed
  /\ closed' = TRUE
  /\ UNCHANGED <<pc, call, isAsync, rpcVars, inflight, ctxVars, registers, returned, intVars>>

-----------------------------------------------------------------------------
(* The host imports, called by the guest while one of its exports runs. *)

InWasm == pc \in {"wasm", "settle"} /\ ~closed

hostRPC(id) ==
  /\ InWasm
  /\ st[id] = "fresh"
  /\ st' = [st EXCEPT ![id] = "queued"]
  /\ during' = [during EXCEPT ![id] = call]
  /\ UNCHANGED <<pc, call, isAsync, owner, inflight, ctxVars, registers, returned,
                 intVars, closed>>

hostSetResult(isError) ==
  /\ InWasm
  /\ IF isError
     THEN scriptError' = call /\ UNCHANGED resultValue
     ELSE resultValue' = call /\ UNCHANGED scriptError
  /\ UNCHANGED <<pc, call, isAsync, rpcVars, inflight, ctxVars, returned, intVars, closed>>

\* The poll of the interrupt handler when the flag decides it.
hostShouldInterrupt ==
  /\ InWasm
  /\ interrupted
  /\ stopped' = TRUE
  /\ UNCHANGED <<pc, call, isAsync, rpcVars, inflight, ctxVars, registers, returned,
                 interrupted, asked, closed>>

-----------------------------------------------------------------------------
(* The handler goroutines and the other goroutines of the program. *)

\* The handler, found or not, panicking or not, has its value or its error.
HandlerReturns(id) ==
  /\ st[id] = "handling"
  /\ st' = [st EXCEPT ![id] = "answered"]
  /\ UNCHANGED <<pc, call, isAsync, during, owner, inflight, ctxVars, registers, returned,
                 intVars, closed>>

\* The two arms of the goroutine's select.
Send(id) ==
  /\ st[id] = "answered"
  /\ Cardinality(Buffer(owner[id])) < ChanCap
  /\ st' = [st EXCEPT ![id] = "buffered"]
  /\ UNCHANGED <<pc, call, isAsync, during, owner, inflight, ctxVars, registers, returned,
                 intVars, closed>>

\* A variant the runs must reject: a select with a default arm.
GiveUpWhenFull(id) ==
  /\ st[id] = "answered"
  /\ Cardinality(Buffer(owner[id])) >= ChanCap
  /\ st' = [st EXCEPT ![id] = "dropped"]
  /\ UNCHANGED <<pc, call, isAsync, during, owner, inflight, ctxVars, registers, returned,
                 intVars, closed>>

Abort(id) ==
  /\ st[id] = "answered"
  /\ owner[id] \in ctxDone \cup rpcDone
  /\ st' = [st EXCEPT ![id] = "dropped"]
  /\ UNCHANGED <<pc, call, isAsync, during, owner, inflight, ctxVars, registers, returned,
                 intVars, closed>>

\* The caller's context ends: a deadline, or a cancel from another goroutine.
CancelCtx ==
  /\ MayCancel
  /\ pc # "idle" /\ call \notin ctxDone
  /\ ctxDone' = ctxDone \cup {call}
  /\ UNCHANGED <<pc, call, isAsync, rpcVars, inflight, rpcDone, registers, returned,
                 intVars, closed>>

\* Interrupt() from any goroutine, at any time the caller has the instance.
Interrupt ==
  /\ MayInterrupt
  /\ returned[0].kind = "none"
  /\ interrupted' = TRUE
  /\ asked' = TRUE
  /\ UNCHANGED <<pc, call, isAsync, rpcVars, inflight, ctxVars, registers, returned,
                 stopped, closed>>

-----------------------------------------------------------------------------
HandlerStep(id) == HandlerReturns(id) \/ Send(id) \/ Abort(id)

Caller ==
  \/ PreludeReturns \/ ReturnWithoutLoop \/ EnterLoop
  \/ \E id \in PromiseIds : Receive(id)
  \/ LoopAgain \/ ExitOnError \/ LoopDone \/ ExportFails

\* Nothing left to do: the caller makes no more calls and no goroutine is left.
Terminated ==
  /\ pc = "idle"
  /\ \A id \in PromiseIds : st[id] \notin {"handling", "answered"}
  /\ UNCHANGED vars

Next ==
  \/ Caller
  \/ \E async \in BOOLEAN : BeginCall(async)
  \/ \E id \in PromiseIds : hostRPC(id) \/ HandlerStep(id)
  \/ \E isError \in BOOLEAN : hostSetResult(isError)
  \/ hostShouldInterrupt \/ CancelCtx \/ Interrupt \/ Close
  \/ Terminated

(***************************************************************************)
(* Fairness.  The guest's exports return (the interrupt callback is what   *)
(* bounds them), so the calling goroutine never stops where it can go on;  *)
(* a handler returns; a goroutine at its select takes an arm that is ready.*)
(***************************************************************************)
Fairness ==
  /\ WF_vars(Caller)
  /\ \A id \in PromiseIds : WF_vars(HandlerReturns(id)) /\ WF_vars(Send(id) \/ Abort(id))

Spec == Init /\ [][Next]_vars
FairSpec == Spec /\ Fairness
-----------------------------------------------------------------------------
(* Safety. *)

\* What the loop of the current call still owes an answer to its counter.
InFlight == {id \in Launched(call) :
               st[id] \in {"handling", "answered", "buffered", "dropped"}}

\* The counter of serviceRPCLoop is the number of goroutines it launched whose
\* result it has not received, through any number of launches and receipts.
Accounted == pc \in {"loop", "settle"} => inflight = Cardinality(InFlight)

\* The loop never waits on an empty world: unless the caller's context was
\* cancelled, some goroutine still holds or has sent the answer that the
\* receive of line 376 waits for.
LoopHasSource ==
  (pc = "loop" /\ inflight > 0 /\ call \notin ctxDone)
    => \E id \in Launched(call) : st[id] \in {"handling", "answered", "buffered"}

\* The loop of a call only runs handlers for RPCs queued during that call: what
\* an earlier call, the prelude or an early exit left in pendingRPCs is never
\* serviced later.
NoForeignService ==
  \A id \in PromiseIds : owner[id] # NoCall => owner[id] = during[id]

\* An async call that returns a value, or nothing, has fed the answer of every
\* RPC queued during it back into the guest.
AllServed ==
  \A id \in PromiseIds :
    LET c == during[id] IN
      (c # NoCall /\ isAsync[c] /\ returned[c].kind \in {"none", "value"})
        => st[id] = "delivered"

\* What a call returns was reported during that call, whatever earlier calls
\* and the prelude left in the registers.
OwnOutcome ==
  \A c \in Calls : returned[c].kind \in {"value", "error"} => returned[c].from = c

\* A call is stopped by the flag only if Interrupt() came after the call began:
\* one that came earlier, while an earlier call ran or between two, is forgotten.
StoppedWasAsked == stopped => asked

\* The strengthening under which Accounted, NoForeignService, AllServed and
\* OwnOutcome are inductive.  An RPC belongs to the call that was running when
\* it was queued; until a later call truncates the queue it is either still
\* queued or has been launched by that very call, and only in the call's loop.
RPCPlaces ==
  \A id \in PromiseIds :
    /\ during[id] <= call
    /\ st[id] = "fresh" <=> during[id] = NoCall
    /\ owner[id] = NoCall <=> st[id] \in {"fresh", "queued", "discarded"}
    /\ owner[id] \in {NoCall, during[id]}
    /\ st[id] = "queued" => during[id] = call /\ pc # "loop"
    /\ (st[id] = "discarded" /\ during[id] = call) => pc = "idle" /\ call = 0
    /\ owner[id] = call => pc # "wasm"
    /\ st[id] = "dropped" => owner[id] \in ctxDone \cup rpcDone

\* The registers speak of the current call only, the calls to come are open, and
\* a call whose loop runs is async, is not the prelude and is not cancelled by it.
CallPlaces ==
  /\ scriptError \in {NoCall, call} /\ resultValue \in {NoCall, call}
  /\ ~isAsync[0]
  /\ pc \in {"loop", "settle"} => call # 0 /\ isAsync[call]
  /\ \A c \in Calls : returned[c].kind = "open" <=> (c > call \/ (c = call /\ pc # "idle"))
  /\ \A c \in rpcDone : c < call \/ (c = call /\ pc = "idle")

IInv == RPCPlaces /\ CallPlaces /\ Accounted /\ AllServed /\ OwnOutcome

\* The host implements the contract of its calls.
Contract == INSTANCE CallContract WITH
  Ids <- PromiseIds,
  LastCall <- MaxCalls,
  open <- pc # "idle",
  current <- call,
  async <- isAsync,
  outstanding <- {id \in PromiseIds :
                    pc # "idle" /\ during[id] = call /\ st[id] # "delivered"},
  sawError <- (pc # "idle" /\ scriptError # NoCall),
  sawValue <- (pc # "idle" /\ resultValue # NoCall),
  outcome <- [c \in Calls |-> returned[c].kind]

\* Nothing of one call is left to the next, and a value is handed over only when
\* all the answers are in (CallContract).
ImplementsContract == Contract!Spec

-----------------------------------------------------------------------------
(* Liveness. *)

\* Every call returns to its caller, interrupted or not: the loop drains all the
\* RPCs of the call.  Excepted is a call whose context ends while it runs.
CallReturns == (pc # "idle") ~> (pc = "idle" \/ call \in ctxDone)

\* The loop leaves the receive of line 376, also when the caller's context ends.
LoopDrains == (pc = "loop") ~> (pc # "loop")

\* A handler goroutine never stays at its select: the channel takes its result
\* or the deferred rpcCancel() releases it.
GoroutinesEnd ==
  \A id \in PromiseIds : (st[id] = "answered") ~> (st[id] # "answered")

=============================================================================
