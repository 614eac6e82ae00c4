------------------------------ MODULE Instance ------------------------------
(***************************************************************************)
(* One kafig instance: the host (Host) and the guest (Guest) joined at the *)
(* WASM boundary.  An export the host calls is the guest's to run, and     *)
(* each import the guest calls is one joint step.  Where Host lets the     *)
(* guest do anything while an export runs, here the guest's own state says *)
(* what it may do; every step is still a step of Host.                     *)
(***************************************************************************)
EXTENDS Host, SequencesExt

CONSTANT Sharing   \* may the scripts of different calls share a promise?

ASSUME InstanceAssumption == Sharing \in BOOLEAN

VARIABLES gpc, arg, running, jobs, await, pendingRpcs, settled, issuer,
          spawned, gateOpen, usedRpcCalls, resetCut, dead

VARIABLES
  errorBy,   \* history: the unit that reported the error in the register
  valueBy,   \* history: the unit that reported the value in the register
  answerBy   \* history: the unit whose report each call returned

G == INSTANCE Guest

ASSUME PromiseIdAssumption == PromiseIds \cap {G!Nothing, G!Gate} = {}

guestVars == <<gpc, arg, running, jobs, await, pendingRpcs, settled, issuer,
               spawned, gateOpen, usedRpcCalls, resetCut, dead>>
reports == <<errorBy, valueBy, answerBy>>
ivars == <<vars, guestVars, reports>>

InstanceTypeOK ==
  /\ TypeOK
  /\ G!GuestTypeOK
  /\ errorBy \in Calls \cup {NoCall}
  /\ valueBy \in Calls \cup {NoCall}
  /\ answerBy \in [Calls -> Calls \cup {NoCall}]

InstanceInit ==
  /\ Init
  /\ G!GuestInit(pc = "wasm")
  /\ errorBy = NoCall /\ valueBy = NoCall
  /\ answerBy = [c \in Calls |-> NoCall]

-----------------------------------------------------------------------------
(* Calls into the guest and returns from it. *)

StartCall(async) ==
  /\ BeginCall(async) /\ G!Enter
  /\ errorBy' = IF scriptError' = NoCall THEN NoCall ELSE errorBy
  /\ valueBy' = IF resultValue' = NoCall THEN NoCall ELSE valueBy
  /\ UNCHANGED answerBy

StartSettlement(id) == Receive(id) /\ G!EnterSettle(id) /\ UNCHANGED reports

\* The call is over: what its registers hold is what its caller gets.
Answers ==
  /\ answerBy' = [answerBy EXCEPT ![call] =
                    IF returned'[call].kind = "error" THEN errorBy
                    ELSE IF returned'[call].kind = "value" THEN valueBy ELSE NoCall]
  /\ UNCHANGED <<errorBy, valueBy>>

ExportReturns ==
  /\ G!Leave
  /\ \/ (PreludeReturns \/ ReturnWithoutLoop \/ ExitOnError) /\ Answers
     \/ (EnterLoop \/ LoopAgain) /\ UNCHANGED reports

LoopEnds == LoopDone /\ Answers /\ UNCHANGED guestVars

GuestFails == ExportFails /\ G!Fail /\ Answers

-----------------------------------------------------------------------------
(* Steps inside the guest. *)

GuestRuns == InWasm /\ UNCHANGED <<vars, reports>>

\* The Rust code and the job queue.
Runtime ==
  /\ GuestRuns
  /\ G!DiscardStale(call) \/ G!DrainDone(call) \/ G!RunJob \/ G!JobsDone \/ G!SettleRPC

\* The JS, where it calls no import.
Script ==
  /\ GuestRuns /\ running # G!Nobody
  /\ \/ G!JsSpawn \/ G!JsOpenGate \/ G!JsTaskEnd
     \/ \E id \in PromiseIds : st[id] = "fresh" /\ G!JsRPCThrows(id)
     \/ isAsync[running.unit] /\ \E p \in PromiseIds \cup {G!Gate} : G!JsAwait(p)
     \/ isAsync[running.unit] /\ \E isError \in BOOLEAN : G!JsEnd(isError)

\* The import host_rpc.
CallRPC(id) == G!JsRPC(id) /\ hostRPC(id) /\ UNCHANGED reports

\* The import host_set_result, called for unit u.
ReportsFor(u, isError) ==
  /\ hostSetResult(isError)
  /\ IF isError THEN errorBy' = u /\ UNCHANGED valueBy
                ELSE valueBy' = u /\ UNCHANGED errorBy
  /\ UNCHANGED answerBy

CallSetResult(isError) ==
  \/ running # G!Nobody /\ G!JsEndDirect(isError, isAsync[call])
     /\ ReportsFor(running.unit, isError)
  \/ jobs # << >> /\ G!ReportJob(isError) /\ ReportsFor(Head(jobs).unit, isError)
  \/ isError /\ G!SettleThrows /\ ReportsFor(call, TRUE)

\* The import host_should_interrupt; the throw that follows is a step of the JS.
\* For a drained job the handler answers itself; for __reset it asks the host.
Polls ==
  /\ hostShouldInterrupt
  /\ \/ running # G!Nobody /\ gpc # "drain"
     \/ gpc = "settle"
     \/ gpc = "drain" /\ running = G!Nobody /\ jobs = << >>
  /\ UNCHANGED <<guestVars, reports>>

Outside ==
  /\ \/ \E id \in PromiseIds : HandlerStep(id)
     \/ CancelCtx \/ Interrupt \/ Close \/ Terminated
  /\ UNCHANGED <<guestVars, reports>>

InstanceNext ==
  \/ \E async \in BOOLEAN : StartCall(async)
  \/ \E id \in PromiseIds : StartSettlement(id) \/ CallRPC(id)
  \/ ExportReturns \/ LoopEnds \/ GuestFails
  \/ Runtime \/ Script
  \/ \E isError \in BOOLEAN : CallSetResult(isError)
  \/ Polls \/ Outside

InstanceSpec == InstanceInit /\ [][InstanceNext]_ivars
-----------------------------------------------------------------------------
(* Properties of the two sides together. *)

\* Once the script of a call runs, the guest's map holds promises of this call
\* only, and those the host was never told of: what an earlier call, the prelude or
\* a drained job left is cleared, unless __reset was interrupted, and USED_RPC_CALLS
\* never hides it from the fast path.
MapIsCurrent ==
  (gpc \in {"script", "settle", "jobs", "ret"} /\ ~resetCut) =>
    \A id \in pendingRpcs : during[id] \in {call, NoCall}

\* A promise of this call that the guest keeps while the loop waits has its answer
\* under way: host and guest agree on which RPCs are open.
PromiseHasAnswer ==
  (pc = "loop" /\ call \notin ctxDone) =>
    \A id \in pendingRpcs : during[id] = call => st[id] \in {"handling", "answered", "buffered"}

\* When an async call returns a value, or nothing, every RPC promise made during
\* it is settled in the guest.
PromisesSettled ==
  \A id \in pendingRpcs :
    LET c == during[id] IN
      ~(c # NoCall /\ isAsync[c] /\ returned[c].kind \in {"none", "value"})

\* An async call that returns a value, or nothing, leaves nothing of itself that
\* could still run: no job, and no main thread that waits for an RPC.
Quiescent ==
  (pc = "idle" /\ isAsync[call] /\ returned[call].kind \in {"none", "value"})
    => jobs = << >> /\ await[call] \notin PromiseIds

\* The result or error a call returns is that of its own script or handler.
OwnReport == \A c \in Calls : answerBy[c] \in {NoCall, c}

\* That can only fail where scripts of different calls share a promise of their own:
\* no RPC, late answer, drained job, interrupt or cancellation crosses two results.
UnsharedReport == ~gateOpen => OwnReport

\* Jobs left by an earlier call are discarded at the start of the next one: no JS
\* of an earlier unit calls host_rpc in a later call.
StaleJobsInert ==
  [][\A id \in PromiseIds : issuer'[id] # issuer[id] => issuer'[id] = call]_ivars
=============================================================================
