---------------------------- MODULE InstanceProofs ----------------------------
(***************************************************************************)
(* Proofs about Instance for every value of its constants: an instance is  *)
(* a Host, so what HostProofs shows of the host holds with the guest       *)
(* behind it, and the guest's map of promises is current (MapIsCurrent).   *)
(***************************************************************************)
EXTENDS Instance, HostProofs

\* Every step of the instance is a step of the host, or leaves the host alone.
LEMMA StepIsHostStep ==
  ASSUME [InstanceNext]_ivars
  PROVE  [Next]_vars
<1>1. CASE \E async \in BOOLEAN : StartCall(async)
  BY <1>1 DEF StartCall, Next
<1>2. CASE \E id \in PromiseIds : StartSettlement(id) \/ CallRPC(id)
  BY <1>2 DEF StartSettlement, CallRPC, Next, Caller
<1>3. CASE ExportReturns
  BY <1>3 DEF ExportReturns, Next, Caller
<1>4. CASE LoopEnds \/ GuestFails
  BY <1>4 DEF LoopEnds, GuestFails, Next, Caller
<1>5. CASE Runtime \/ Script
  BY <1>5 DEF Runtime, Script, GuestRuns
<1>6. CASE \E isError \in BOOLEAN : CallSetResult(isError)
  <2>1. PICK isError \in BOOLEAN : CallSetResult(isError)
    BY <1>6
  <2>2. hostSetResult(isError)
    BY <2>1 DEF CallSetResult, ReportsFor, hostSetResult
  <2> QED
    BY <2>2 DEF Next
<1>7. CASE Polls \/ Outside
  BY <1>7 DEF Polls, Outside, Next
<1>8. CASE UNCHANGED ivars
  BY <1>8 DEF ivars
<1> QED
  BY <1>1, <1>2, <1>3, <1>4, <1>5, <1>6, <1>7, <1>8 DEF InstanceNext

\* The instance implements the host: instance.go sees nothing from the guest
\* that the environment of Host could not do.
THEOREM InstanceIsHost == InstanceSpec => Spec
<1>1. InstanceInit => Init
  BY DEF InstanceInit
<1>2. [InstanceNext]_ivars => [Next]_vars
  BY StepIsHostStep
<1> QED
  BY <1>1, <1>2, PTL DEF InstanceSpec, Spec

-----------------------------------------------------------------------------
(* The map of promises. *)

\* Where the script's view of the map matters, the entries the host knows are of this
\* call; and while no export runs, such entries left in the map are announced by
\* USED_RPC_CALLS, unless __reset was interrupted or a trap has put every export out
\* of use.
MapInv ==
  /\ pendingRpcs \subseteq PromiseIds
  /\ gpc = "out" <=> pc \in {"idle", "loop"}
  /\ (gpc \in {"script", "settle", "jobs", "ret"} \/ pc = "loop") /\ ~resetCut
       => \A id \in pendingRpcs : during[id] \in {call, NoCall}
  /\ (\E id \in pendingRpcs : during[id] # NoCall)
       => usedRpcCalls \/ gpc = "drain" \/ dead \/ resetCut

LEMMA MapInvInit == InstanceInit => MapInv
  BY DEF InstanceInit, Init, G!GuestInit, MapInv

\* The calls into the guest and the returns from it.
LEMMA MapInvBoundary ==
  ASSUME TypeOK, MapInv,
         \/ \E async \in BOOLEAN : StartCall(async)
         \/ \E id \in PromiseIds : StartSettlement(id)
         \/ ExportReturns \/ LoopEnds \/ GuestFails
  PROVE  MapInv'
<1>1. CASE \E async \in BOOLEAN : StartCall(async)
  BY <1>1 DEF StartCall, BeginCall, G!Enter, MapInv
<1>2. CASE \E id \in PromiseIds : StartSettlement(id)
  BY <1>2 DEF StartSettlement, Receive, G!EnterSettle, MapInv
<1>3. CASE ExportReturns
  <2>1. /\ UNCHANGED <<call, during>>
        /\ pc' \in {"idle", "loop"}
    BY <1>3 DEF ExportReturns, PreludeReturns, ReturnWithoutLoop, ExitOnError, EnterLoop,
       LoopAgain, launchPendingRPCs, Launch, Return, rpcVars
  <2>2. /\ gpc = "ret" /\ gpc' = "out"
        /\ UNCHANGED <<pendingRpcs, usedRpcCalls, resetCut, dead>>
    BY <1>3 DEF ExportReturns, G!Leave
  <2> QED
    BY <2>1, <2>2 DEF MapInv
<1>4. CASE LoopEnds
  <2>1. /\ UNCHANGED <<call, during>> /\ pc = "loop" /\ pc' = "idle"
        /\ UNCHANGED <<gpc, pendingRpcs, usedRpcCalls, resetCut, dead>>
    BY <1>4 DEF LoopEnds, LoopDone, Return, rpcVars, guestVars
  <2> QED
    BY <2>1 DEF MapInv
<1>5. CASE GuestFails
  <2>1. /\ UNCHANGED <<call, during>> /\ pc' = "idle"
    BY <1>5 DEF GuestFails, ExportFails, Return, rpcVars
  <2>2. /\ gpc' = "out" /\ UNCHANGED <<pendingRpcs, usedRpcCalls, resetCut>>
        /\ dead' = (dead \/ gpc \notin {"enter", "settle"})
        /\ gpc # "out"
    BY <1>5 DEF GuestFails, G!Fail
  <2> QED
    BY <2>1, <2>2 DEF MapInv
<1> QED
  BY <1>1, <1>2, <1>3, <1>4, <1>5

\* The host's part of a step inside the guest leaves its place and call alone.
LEMMA MapInvGuest ==
  ASSUME TypeOK, RPCPlaces, MapInv,
         \/ Runtime \/ Script
         \/ \E id \in PromiseIds : CallRPC(id)
         \/ \E isError \in BOOLEAN : CallSetResult(isError)
  PROVE  MapInv'
<1>1. CASE Runtime
  <2>1. UNCHANGED <<pc, call, during>> /\ pc \in {"wasm", "settle"}
    BY <1>1 DEF Runtime, GuestRuns, InWasm, vars, rpcVars
  <2>2. CASE G!DiscardStale(call)
    BY <2>1, <2>2 DEF G!DiscardStale, MapInv
  <2>3. CASE G!DrainDone(call)
    BY <2>1, <2>3 DEF G!DrainDone, MapInv
  <2>4. CASE G!RunJob \/ G!JobsDone
    BY <2>1, <2>4 DEF G!RunJob, G!JobsDone, MapInv
  <2>5. CASE G!SettleRPC
    BY <2>1, <2>5 DEF G!SettleRPC, MapInv
  <2> QED
    BY <1>1, <2>2, <2>3, <2>4, <2>5 DEF Runtime
<1>2. CASE Script
  <2>1. UNCHANGED <<pc, call, during>> /\ pc \in {"wasm", "settle"}
    BY <1>2 DEF Script, GuestRuns, InWasm, vars, rpcVars
  <2>2. CASE \E id \in PromiseIds : st[id] = "fresh" /\ G!JsRPCThrows(id)
    <3>1. PICK id \in PromiseIds : st[id] = "fresh" /\ G!JsRPCThrows(id)
      BY <2>2
    <3>2. /\ UNCHANGED <<gpc, usedRpcCalls, resetCut, dead>>
          /\ pendingRpcs' = pendingRpcs \cup {id}
      BY <3>1 DEF G!JsRPCThrows
    <3>3. during[id] = NoCall
      BY <3>1 DEF RPCPlaces
    <3> QED
      BY <2>1, <3>2, <3>3 DEF MapInv
  <2>3. CASE ~ \E id \in PromiseIds : st[id] = "fresh" /\ G!JsRPCThrows(id)
    <3>1. /\ UNCHANGED <<pendingRpcs, usedRpcCalls, resetCut, dead>>
          /\ gpc' = gpc \/ (gpc = "script" /\ gpc' = "jobs")
      BY <1>2, <2>3 DEF Script, G!JsSpawn, G!JsOpenGate, G!JsTaskEnd, G!JsAwait, G!JsEnd,
         G!Suspends
    <3> QED
      BY <2>1, <3>1 DEF MapInv
  <2> QED
    BY <2>2, <2>3
<1>3. CASE \E id \in PromiseIds : CallRPC(id)
  <2>1. PICK id \in PromiseIds : CallRPC(id)
    BY <1>3
  <2>2. /\ UNCHANGED <<pc, call, gpc, resetCut, dead>> /\ pc \in {"wasm", "settle"}
        /\ during' = [during EXCEPT ![id] = call]
        /\ pendingRpcs' = pendingRpcs \cup {id} /\ usedRpcCalls'
    BY <2>1 DEF CallRPC, hostRPC, InWasm, G!JsRPC
  <2>3. \A x \in PromiseIds : during'[x] = IF x = id THEN call ELSE during[x]
    BY <2>2 DEF TypeOK
  <2> QED
    BY <2>2, <2>3 DEF MapInv
<1>4. CASE \E isError \in BOOLEAN : CallSetResult(isError)
  <2>1. PICK isError \in BOOLEAN : CallSetResult(isError)
    BY <1>4
  <2>2. UNCHANGED <<pc, call, during>> /\ pc \in {"wasm", "settle"}
    BY <2>1 DEF CallSetResult, ReportsFor, hostSetResult, InWasm, rpcVars
  <2>3. /\ pendingRpcs' \subseteq pendingRpcs
        /\ UNCHANGED <<usedRpcCalls, resetCut, dead>>
        /\ \/ gpc' = gpc
           \/ gpc \in {"script", "settle"} /\ gpc' \in {"jobs", "ret"}
    BY <2>1 DEF CallSetResult, G!JsEndDirect, G!ReportJob, G!SettleThrows
  <2> QED
    BY <2>2, <2>3 DEF MapInv
<1> QED
  BY <1>1, <1>2, <1>3, <1>4

LEMMA MapInvOutside ==
  ASSUME TypeOK, MapInv, Polls \/ Outside \/ UNCHANGED ivars
  PROVE  MapInv'
<1>1. UNCHANGED <<pc, call, during, guestVars>>
  BY DEF Polls, hostShouldInterrupt, Outside, HandlerStep, HandlerReturns, Send, Abort,
     CancelCtx, Interrupt, Close, Terminated, ivars, vars, rpcVars
<1> QED
  BY <1>1 DEF MapInv, guestVars

LEMMA MapInvStep == TypeOK /\ RPCPlaces /\ MapInv /\ [InstanceNext]_ivars => MapInv'
  BY MapInvBoundary, MapInvGuest, MapInvOutside DEF InstanceNext

\* Once the script of a call runs, and through all its settlements, the guest's
\* map holds promises of this call only, for any number of calls and promises:
\* the fast path of discard_stale_state (tracking.rs) never hides a stale entry.
THEOREM MapIsCurrentHolds == InstanceSpec => []MapIsCurrent
<1>1. MapInv => MapIsCurrent
  BY DEF MapInv, MapIsCurrent
<1>2. IInv => RPCPlaces
  BY DEF IInv
<1> QED
  BY <1>1, <1>2, InstanceIsHost, Inductive, MapInvInit, MapInvStep, PTL DEF InstanceSpec

\* With the guest behind it, an async call that returns a value, or nothing, has
\* had the answer of every RPC of its script.
THEOREM InstanceServesAll == InstanceSpec => []AllServed
  BY InstanceIsHost, AllServedHolds, PTL

\* The calls of an instance keep the contract of calls, whatever the guest does with
\* what earlier calls left in it.
THEOREM InstanceKeepsContract == InstanceSpec => ImplementsContract
  BY InstanceIsHost, Refinement, PTL
=============================================================================
