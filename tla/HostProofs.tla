----------------------------- MODULE HostProofs -----------------------------
(***************************************************************************)
(* Proofs about Host for every set of promise ids, number of calls and     *)
(* channel capacity.  TypeOK is inductive by itself; the safety properties *)
(* need the strengthening IInv of Host.                                    *)
(***************************************************************************)
EXTENDS Host, FiniteSetTheorems, TLAPS

-----------------------------------------------------------------------------
(* Lemmas about the finite sets that the counter counts. *)

\* The queue and the in-flight set are finite, so their sizes are numbers.
LEMMA FiniteQueues ==
  ASSUME TypeOK
  PROVE  /\ IsFiniteSet(pendingRPCs) /\ Cardinality(pendingRPCs) \in Nat
         /\ IsFiniteSet(InFlight) /\ Cardinality(InFlight) \in Nat
<1>1. pendingRPCs \in SUBSET PromiseIds
  BY DEF pendingRPCs
<1>2. InFlight \in SUBSET PromiseIds
  BY DEF InFlight, Launched
<1>3. \A S \in SUBSET PromiseIds : IsFiniteSet(S) /\ Cardinality(S) \in Nat
  BY HostAssumption, FS_Subset, FS_CardinalityType DEF HostAssumption
<1> QED
  BY <1>1, <1>2, <1>3

\* What a call returns from the registers is an outcome.
LEMMA RegisterOutcomeType ==
  ASSUME TypeOK
  PROVE  RegisterOutcome \in Outcomes
<1>1. CASE scriptError # NoCall
  BY <1>1 DEF TypeOK, RegisterOutcome, Outcomes, Outcome
<1>2. CASE scriptError = NoCall /\ resultValue # NoCall
  BY <1>2 DEF TypeOK, RegisterOutcome, Outcomes, Outcome
<1>3. CASE scriptError = NoCall /\ resultValue = NoCall
  BY <1>3 DEF TypeOK, RegisterOutcome, Outcomes, Outcome
<1> QED
  BY <1>1, <1>2, <1>3

-----------------------------------------------------------------------------
(* Type correctness. *)

LEMMA TypeInit == Init => TypeOK
<1> SUFFICES ASSUME Init PROVE TypeOK
  OBVIOUS
<1>1. 0 \in Calls
  BY HostAssumption DEF HostAssumption, Calls
<1>2. returned \in [Calls -> Outcomes]
  BY <1>1 DEF Init, Outcomes, Outcome
<1> QED
  BY <1>1, <1>2 DEF Init, TypeOK, Stages

LEMMA TypeNext == TypeOK /\ [Next]_vars => TypeOK'
<1> SUFFICES ASSUME TypeOK, [Next]_vars
             PROVE  TypeOK'
  OBVIOUS
<1> USE DEF Stages
<1>a. /\ Cardinality(pendingRPCs) \in Nat
      /\ RegisterOutcome \in Outcomes
  BY FiniteQueues, RegisterOutcomeType
<1>o. \A k \in {"open", "none", "value", "error", "failed"}, c \in Calls \cup {NoCall} :
         Outcome(k, c) \in Outcomes
  BY DEF Outcome, Outcomes
<1>r. ASSUME NEW o \in Outcomes, Return(o)
      PROVE  pc' = "idle" /\ returned' \in [Calls -> Outcomes]
  BY <1>r DEF TypeOK, Return
<1>1. CASE PreludeReturns
  <2>1. /\ Outcome("error", scriptError) \in Outcomes
        /\ Outcome("none", NoCall) \in Outcomes
    BY <1>o DEF TypeOK
  <2>2. pc' = "idle" /\ returned' \in [Calls -> Outcomes]
    BY <1>1, <1>r, <2>1 DEF PreludeReturns
  <2>3. /\ st' \in [PromiseIds -> Stages]
        /\ scriptError' \in Calls \cup {NoCall} /\ resultValue' \in Calls \cup {NoCall}
        /\ closed' \in BOOLEAN
    BY <1>1 DEF TypeOK, PreludeReturns, resetState, registers
  <2> QED
    BY <1>1, <2>2, <2>3 DEF TypeOK, PreludeReturns, ctxVars, intVars
<1>2. ASSUME NEW async \in BOOLEAN, BeginCall(async)
      PROVE  TypeOK'
  <2>1. call' \in Calls
    BY <1>2, HostAssumption DEF TypeOK, BeginCall, Calls, HostAssumption
  <2>2. /\ st' \in [PromiseIds -> Stages]
        /\ scriptError' \in Calls \cup {NoCall} /\ resultValue' \in Calls \cup {NoCall}
    BY <1>2 DEF TypeOK, BeginCall, resetState
  <2>3. isAsync' \in [Calls -> BOOLEAN]
    BY <1>2 DEF TypeOK, BeginCall
  <2> QED
    BY <1>2, <2>1, <2>2, <2>3 DEF TypeOK, BeginCall, ctxVars, clearInterrupt
<1>3. CASE ReturnWithoutLoop
  <2>1. pc' = "idle" /\ returned' \in [Calls -> Outcomes]
    BY <1>3, <1>a, <1>r DEF ReturnWithoutLoop
  <2> QED
    BY <1>3, <2>1 DEF TypeOK, ReturnWithoutLoop, rpcVars, ctxVars, registers, intVars
<1>l. ASSUME NEW n \in Nat, launchPendingRPCs(n)
      PROVE  /\ st' \in [PromiseIds -> Stages]
             /\ owner' \in [PromiseIds -> Calls \cup {NoCall}]
             /\ inflight' \in Nat
  BY <1>l, <1>a DEF TypeOK, launchPendingRPCs, Launch
<1>4. CASE EnterLoop
  BY <1>4, <1>l DEF TypeOK, EnterLoop, ctxVars, registers, intVars
<1>5. ASSUME NEW id \in PromiseIds, Receive(id)
      PROVE  TypeOK'
  BY <1>5 DEF TypeOK, Receive, ctxVars, registers, intVars
<1>6. CASE LoopAgain
  BY <1>6, <1>l DEF TypeOK, LoopAgain, ctxVars, registers, intVars
<1>7. CASE ExitOnError
  <2>1. pc' = "idle" /\ returned' \in [Calls -> Outcomes]
    BY <1>7, <1>a, <1>r DEF ExitOnError
  <2> QED
    BY <1>7, <2>1 DEF TypeOK, ExitOnError, rpcCancel, rpcVars, registers, intVars
<1>8. CASE LoopDone
  <2>1. pc' = "idle" /\ returned' \in [Calls -> Outcomes]
    BY <1>8, <1>a, <1>r DEF LoopDone
  <2> QED
    BY <1>8, <2>1 DEF TypeOK, LoopDone, rpcCancel, rpcVars, registers, intVars
<1>9. CASE ExportFails
  <2>1. Outcome("failed", NoCall) \in Outcomes
    BY <1>o
  <2>2. pc' = "idle" /\ returned' \in [Calls -> Outcomes]
    BY <1>9, <1>r, <2>1 DEF ExportFails
  <2>3. closed' \in BOOLEAN /\ rpcDone' \subseteq Calls
    BY <1>9 DEF TypeOK, ExportFails, rpcCancel
  <2> QED
    BY <1>9, <2>2, <2>3 DEF TypeOK, ExportFails, rpcVars, registers, intVars
<1>10. CASE Close
  BY <1>10 DEF TypeOK, Close, rpcVars, ctxVars, registers, intVars
<1>11. ASSUME NEW id \in PromiseIds, hostRPC(id)
       PROVE  TypeOK'
  BY <1>11 DEF TypeOK, hostRPC, ctxVars, registers, intVars
<1>12. ASSUME NEW isError \in BOOLEAN, hostSetResult(isError)
       PROVE  TypeOK'
  BY <1>12 DEF TypeOK, hostSetResult, rpcVars, ctxVars, intVars
<1>13. CASE hostShouldInterrupt
  BY <1>13 DEF TypeOK, hostShouldInterrupt, rpcVars, ctxVars, registers
<1>14. ASSUME NEW id \in PromiseIds, HandlerStep(id)
       PROVE  TypeOK'
  BY <1>14 DEF TypeOK, HandlerStep, HandlerReturns, Send, Abort, ctxVars, registers, intVars
<1>15. CASE CancelCtx
  BY <1>15 DEF TypeOK, CancelCtx, rpcVars, registers, intVars
<1>16. CASE Interrupt
  BY <1>16 DEF TypeOK, Interrupt, rpcVars, ctxVars, registers
<1>17. CASE UNCHANGED vars
  BY <1>17 DEF TypeOK, vars, rpcVars, ctxVars, registers, intVars
<1> QED
  BY <1>1, <1>2, <1>3, <1>4, <1>5, <1>6, <1>7, <1>8, <1>9, <1>10, <1>11, <1>12,
     <1>13, <1>14, <1>15, <1>16, <1>17 DEF Next, Caller, Terminated

\* Every variable of the host keeps its type: in particular the loop's counter
\* never goes below zero.
THEOREM TypeCorrect == Spec => []TypeOK
<1> QED
  BY TypeInit, TypeNext, PTL DEF Spec

-----------------------------------------------------------------------------
(* Safety: IInv is inductive. *)

LEMMA SafeInit == Init => IInv
<1> SUFFICES ASSUME Init PROVE IInv
  OBVIOUS
<1>1. 0 \in Calls /\ \A c \in Calls : c \in Nat
  BY HostAssumption DEF HostAssumption, Calls
<1>2. RPCPlaces
  BY DEF Init, RPCPlaces, NoCall
<1>3. CallPlaces
  BY <1>1 DEF Init, CallPlaces, Outcome, NoCall
<1>4. Accounted
  BY DEF Init, Accounted
<1>5. AllServed
  BY DEF Init, AllServed
<1>6. OwnOutcome
  BY <1>1 DEF Init, OwnOutcome, Outcome
<1> QED
  BY <1>2, <1>3, <1>4, <1>5, <1>6 DEF IInv

\* A step that changes neither the RPCs nor the loop's place, but at most the
\* flags and registers other properties speak of, keeps the counter right.
LEMMA SameCount ==
  ASSUME Accounted, UNCHANGED <<st, owner, call, inflight>>,
         pc' \in {"loop", "settle"} => pc \in {"loop", "settle"}
  PROVE  Accounted'
<1>1. InFlight' = InFlight
  BY DEF InFlight, Launched
<1> QED
  BY <1>1 DEF Accounted

\* The end of a call: its outcome is recorded, the RPCs stay where they are.
LEMMA ReturnSafe ==
  ASSUME TypeOK, IInv, NEW o \in Outcomes, Return(o), pc # "idle",
         UNCHANGED <<call, isAsync, rpcVars, inflight>>,
         UNCHANGED ctxDone, rpcDone' \in {rpcDone, rpcDone \cup {call}},
         UNCHANGED registers,
         o.kind # "open",
         o.kind \in {"value", "error"} => o.from = call,
         (isAsync[call] /\ o.kind \in {"none", "value"}) =>
            \A id \in PromiseIds : during[id] = call => st[id] = "delivered"
  PROVE  IInv'
<1>1. RPCPlaces'
  BY DEF IInv, RPCPlaces, Return, rpcVars
<1>2. CallPlaces'
  BY DEF IInv, CallPlaces, Return, TypeOK, registers, Calls
<1>3. Accounted'
  BY DEF Accounted, Return
<1>4. AllServed'
  BY DEF IInv, AllServed, Return, TypeOK, rpcVars
<1>5. OwnOutcome'
  BY DEF IInv, OwnOutcome, Return, TypeOK
<1> QED
  BY <1>1, <1>2, <1>3, <1>4, <1>5 DEF IInv

\* What the registers say when the call returns is the call's own.
LEMMA RegisterOutcomeOwn ==
  ASSUME TypeOK, IInv
  PROVE  /\ RegisterOutcome.kind # "open"
         /\ RegisterOutcome.kind \in {"value", "error"} => RegisterOutcome.from = call
<1>1. CASE scriptError # NoCall
  BY <1>1 DEF RegisterOutcome, Outcome, IInv, CallPlaces
<1>2. CASE scriptError = NoCall /\ resultValue # NoCall
  BY <1>2 DEF RegisterOutcome, Outcome, IInv, CallPlaces
<1>3. CASE scriptError = NoCall /\ resultValue = NoCall
  BY <1>3 DEF RegisterOutcome, Outcome
<1> QED
  BY <1>1, <1>2, <1>3

\* A launch adds exactly the queued RPCs to what the loop waits for.
LEMMA LaunchCounts ==
  ASSUME TypeOK, IInv, UNCHANGED call, Launch
  PROVE  Cardinality(InFlight') = Cardinality(InFlight) + Cardinality(pendingRPCs)
<1>1. InFlight' = InFlight \cup pendingRPCs
  BY DEF Launch, InFlight, Launched, pendingRPCs, TypeOK, IInv, RPCPlaces
<1>2. InFlight \cap pendingRPCs = {}
  BY DEF InFlight, pendingRPCs
<1>3. Cardinality(InFlight \cap pendingRPCs) = 0
  BY <1>2, FS_EmptySet
<1>4. Cardinality(InFlight \cup pendingRPCs)
        = Cardinality(InFlight) + Cardinality(pendingRPCs) - Cardinality(InFlight \cap pendingRPCs)
  BY FiniteQueues, FS_Union
<1> QED
  BY <1>1, <1>3, <1>4, FiniteQueues

\* Nor does a launch disturb the rest.
LEMMA LaunchSafe ==
  ASSUME TypeOK, IInv, NEW n \in Nat, launchPendingRPCs(n), n = Cardinality(InFlight),
         pc \in {"wasm", "settle"}, call # 0, isAsync[call], pc' = "loop",
         UNCHANGED <<call, isAsync, during, ctxVars, registers, returned>>
  PROVE  IInv'
<1> USE DEF launchPendingRPCs
<1>1. RPCPlaces'
  BY DEF IInv, RPCPlaces, Launch, TypeOK, ctxVars
<1>2. CallPlaces'
  BY DEF IInv, CallPlaces, TypeOK, ctxVars, registers
<1>3. Accounted'
  BY LaunchCounts DEF Accounted
<1>4. AllServed'
  BY DEF IInv, AllServed, Launch, TypeOK
<1>5. OwnOutcome'
  BY DEF IInv, OwnOutcome
<1> QED
  BY <1>1, <1>2, <1>3, <1>4, <1>5 DEF IInv

LEMMA SafeNext == TypeOK /\ IInv /\ [Next]_vars => IInv'
<1> SUFFICES ASSUME TypeOK, IInv, [Next]_vars
             PROVE  IInv'
  OBVIOUS
<1> USE DEF ctxVars, registers, rpcVars
<1>a. \A k \in {"none", "value", "error", "failed"}, c \in Calls \cup {NoCall} :
         /\ Outcome(k, c) \in Outcomes
         /\ Outcome(k, c).kind = k /\ Outcome(k, c).from = c
  BY DEF Outcome, Outcomes
<1>b. \A c \in Calls : c \in Nat
  BY HostAssumption DEF HostAssumption, Calls
<1>1. CASE PreludeReturns
  <2>1. CASE scriptError = NoCall
    <3>1. Outcome("none", NoCall) \in Outcomes
      BY <1>a
    <3>2. Outcome("none", NoCall).kind = "none"
      BY <1>a
    <3> QED
      BY <1>1, <2>1, <3>1, <3>2, ReturnSafe DEF PreludeReturns, IInv, CallPlaces
  <2>2. CASE scriptError # NoCall
    <3>1. /\ Outcome("error", scriptError).kind = "error"
          /\ Outcome("error", scriptError).from = 0
      BY <1>1, <2>2, <1>a DEF PreludeReturns, IInv, CallPlaces, TypeOK
    <3>2. /\ returned' = [returned EXCEPT ![0] = Outcome("error", scriptError)]
          /\ pc' = "idle" /\ call = 0 /\ call' = 0 /\ pc = "wasm"
          /\ resetState
          /\ UNCHANGED <<isAsync, during, owner, inflight, ctxDone, rpcDone>>
      BY <1>1, <2>2 DEF PreludeReturns, Return
    <3>3. RPCPlaces'
      BY <3>2 DEF IInv, RPCPlaces, resetState, TypeOK
    <3>4. CallPlaces'
      BY <3>1, <3>2, <1>b DEF IInv, CallPlaces, resetState, TypeOK
    <3>5. Accounted'
      BY <3>2 DEF Accounted
    <3>6. AllServed'
      BY <3>1, <3>2 DEF IInv, AllServed, resetState, TypeOK
    <3>7. OwnOutcome'
      BY <3>1, <3>2 DEF IInv, OwnOutcome, TypeOK
    <3> QED
      BY <3>3, <3>4, <3>5, <3>6, <3>7 DEF IInv
  <2> QED
    BY <2>1, <2>2
<1>2. ASSUME NEW async \in BOOLEAN, BeginCall(async)
      PROVE  IInv'
  <2> USE DEF BeginCall
  <2>1. call' = call + 1 /\ call \in Nat /\ call' \in Calls
    BY <1>2, <1>b, HostAssumption DEF TypeOK, Calls, HostAssumption
  <2>2. RPCPlaces'
    <3> SUFFICES ASSUME NEW id \in PromiseIds
                 PROVE  /\ during[id] <= call'
                        /\ st'[id] = "fresh" <=> during[id] = NoCall
                        /\ owner[id] = NoCall <=> st'[id] \in {"fresh", "queued", "discarded"}
                        /\ owner[id] \in {NoCall, during[id]}
                        /\ st'[id] # "queued"
                        /\ during[id] # call' /\ owner[id] # call'
                        /\ st'[id] = "dropped" => owner[id] \in ctxDone \cup rpcDone
      BY <1>2 DEF RPCPlaces
    <3>1. st'[id] = IF st[id] = "queued" THEN "discarded" ELSE st[id]
      BY <1>2 DEF resetState
    <3>2. during[id] \in Calls \cup {NoCall} /\ during[id] <= call /\ during[id] \in Int
      BY <1>b DEF TypeOK, IInv, RPCPlaces, NoCall
    <3>3. during[id] <= call' /\ during[id] # call'
      BY <3>2, <2>1
    <3>4. owner[id] # call'
      BY <3>3, <2>1 DEF IInv, RPCPlaces, NoCall
    <3> QED
      BY <3>1, <3>3, <3>4 DEF IInv, RPCPlaces
  <2>3. CallPlaces'
    BY <1>2, <1>b, <2>1 DEF IInv, CallPlaces, resetState, TypeOK
  <2>4. Accounted'
    BY <1>2 DEF Accounted
  <2>5. AllServed'
    BY <1>2, <1>b, <2>1 DEF IInv, AllServed, RPCPlaces, resetState, TypeOK
  <2>6. OwnOutcome'
    BY <1>2 DEF IInv, OwnOutcome
  <2> QED
    BY <2>2, <2>3, <2>4, <2>5, <2>6 DEF IInv
<1>3. CASE ReturnWithoutLoop
  <2>1. isAsync[call] => \A id \in PromiseIds : during[id] = call => st[id] = "delivered"
    BY <1>3, <1>b DEF ReturnWithoutLoop, IInv, RPCPlaces, TypeOK, pendingRPCs, NoCall, Stages
  <2> QED
    BY <1>3, <2>1, RegisterOutcomeType, RegisterOutcomeOwn, ReturnSafe DEF ReturnWithoutLoop
<1>4. CASE EnterLoop
  <2>1. InFlight = {}
    BY <1>4 DEF EnterLoop, InFlight, Launched, IInv, RPCPlaces
  <2> QED
    BY <1>4, <2>1, FS_EmptySet, LaunchSafe DEF EnterLoop
<1>5. ASSUME NEW id \in PromiseIds, Receive(id)
      PROVE  IInv'
  <2> USE DEF Receive, Buffer, Launched
  <2>1. RPCPlaces'
    BY <1>5 DEF IInv, RPCPlaces, TypeOK
  <2>2. CallPlaces'
    BY <1>5 DEF IInv, CallPlaces
  <2>3. Accounted'
    <3>1. InFlight' = InFlight \ {id} /\ id \in InFlight
      BY <1>5 DEF InFlight, TypeOK
    <3>2. Cardinality(InFlight') = Cardinality(InFlight) - 1
      BY <3>1, FiniteQueues, FS_RemoveElement
    <3> QED
      BY <1>5, <3>2, FiniteQueues DEF IInv, Accounted, TypeOK
  <2>4. AllServed'
    BY <1>5 DEF IInv, AllServed, TypeOK
  <2>5. OwnOutcome'
    BY <1>5 DEF IInv, OwnOutcome
  <2> QED
    BY <2>1, <2>2, <2>3, <2>4, <2>5 DEF IInv
<1>6. CASE LoopAgain
  BY <1>6, FiniteQueues, LaunchSafe DEF LoopAgain, IInv, Accounted, CallPlaces
<1>7. CASE ExitOnError
  <2>1. RegisterOutcome.kind = "error"
    BY <1>7 DEF ExitOnError, RegisterOutcome, Outcome
  <2> QED
    BY <1>7, <2>1, RegisterOutcomeType, RegisterOutcomeOwn, ReturnSafe
       DEF ExitOnError, rpcCancel
<1>8. CASE LoopDone
  <2>1. InFlight = {}
    BY <1>8, FiniteQueues, FS_EmptySet DEF LoopDone, IInv, Accounted
  <2>2. \A id \in PromiseIds : during[id] = call => st[id] = "delivered"
    BY <1>8, <2>1, <1>b
       DEF LoopDone, InFlight, Launched, IInv, RPCPlaces, TypeOK, NoCall, Stages
  <2> QED
    BY <1>8, <2>2, RegisterOutcomeType, RegisterOutcomeOwn, ReturnSafe DEF LoopDone, rpcCancel
<1>9. CASE ExportFails
  <2>1. /\ Outcome("failed", NoCall) \in Outcomes
        /\ Outcome("failed", NoCall).kind = "failed"
    BY <1>a
  <2> QED
    BY <1>9, <2>1, ReturnSafe DEF ExportFails, rpcCancel
<1>10. CASE Close
  BY <1>10, SameCount DEF Close, IInv, RPCPlaces, CallPlaces, AllServed, OwnOutcome
<1>11. ASSUME NEW id \in PromiseIds, hostRPC(id)
       PROVE  IInv'
  <2> USE DEF hostRPC, InWasm
  <2>1. RPCPlaces'
    BY <1>11, <1>b DEF IInv, RPCPlaces, TypeOK, NoCall
  <2>2. CallPlaces'
    BY <1>11 DEF IInv, CallPlaces
  <2>3. Accounted'
    <3>1. InFlight' = InFlight
      BY <1>11 DEF InFlight, Launched, TypeOK
    <3> QED
      BY <1>11, <3>1 DEF IInv, Accounted
  <2>4. AllServed'
    BY <1>11 DEF IInv, AllServed, CallPlaces, TypeOK
  <2>5. OwnOutcome'
    BY <1>11 DEF IInv, OwnOutcome
  <2> QED
    BY <2>1, <2>2, <2>3, <2>4, <2>5 DEF IInv
<1>12. ASSUME NEW isError \in BOOLEAN, hostSetResult(isError)
       PROVE  IInv'
  BY <1>12, SameCount
     DEF hostSetResult, IInv, RPCPlaces, CallPlaces, AllServed, OwnOutcome
<1>13. CASE hostShouldInterrupt
  BY <1>13, SameCount
     DEF hostShouldInterrupt, IInv, RPCPlaces, CallPlaces, AllServed, OwnOutcome
<1>14. ASSUME NEW id \in PromiseIds, HandlerStep(id)
       PROVE  IInv'
  <2> USE DEF HandlerStep, HandlerReturns, Send, Abort
  <2>1. RPCPlaces'
    BY <1>14 DEF IInv, RPCPlaces, TypeOK
  <2>2. CallPlaces'
    BY <1>14 DEF IInv, CallPlaces
  <2>3. Accounted'
    <3>1. InFlight' = InFlight
      BY <1>14 DEF InFlight, Launched, TypeOK
    <3> QED
      BY <1>14, <3>1 DEF IInv, Accounted
  <2>4. AllServed'
    BY <1>14 DEF IInv, AllServed, TypeOK
  <2>5. OwnOutcome'
    BY <1>14 DEF IInv, OwnOutcome
  <2> QED
    BY <2>1, <2>2, <2>3, <2>4, <2>5 DEF IInv
<1>15. CASE CancelCtx
  BY <1>15, SameCount DEF CancelCtx, IInv, RPCPlaces, CallPlaces, AllServed, OwnOutcome
<1>16. CASE Interrupt
  BY <1>16, SameCount DEF Interrupt, IInv, RPCPlaces, CallPlaces, AllServed, OwnOutcome
<1>17. CASE UNCHANGED vars
  BY <1>17, SameCount DEF vars, IInv, RPCPlaces, CallPlaces, AllServed, OwnOutcome
<1> QED
  BY <1>1, <1>2, <1>3, <1>4, <1>5, <1>6, <1>7, <1>8, <1>9, <1>10, <1>11, <1>12,
     <1>13, <1>14, <1>15, <1>16, <1>17 DEF Next, Caller, Terminated

\* The inductive invariant holds in every reachable state.
THEOREM Inductive == Spec => [](TypeOK /\ IInv)
<1> QED
  BY TypeInit, TypeNext, SafeInit, SafeNext, PTL DEF Spec

\* The loop's counter is the number of answers it still has to receive.
THEOREM CounterIsRight == Spec => []Accounted
<1>1. TypeOK /\ IInv => Accounted
  BY DEF IInv
<1> QED
  BY <1>1, Inductive, PTL

\* A service loop never waits for an answer that nobody holds, as long as the
\* context of its call is not cancelled.
THEOREM NeverWaitsInVain == Spec => []LoopHasSource
<1>1. TypeOK /\ IInv => LoopHasSource
  <2> SUFFICES ASSUME TypeOK, IInv, pc = "loop", inflight > 0, call \notin ctxDone
               PROVE  \E id \in Launched(call) : st[id] \in {"handling", "answered", "buffered"}
    BY DEF LoopHasSource
  <2>1. InFlight # {}
    <3>1. Cardinality(InFlight) = inflight /\ inflight # 0
      BY DEF IInv, Accounted
    <3>2. Cardinality({}) = 0
      BY FS_EmptySet
    <3> QED
      BY <3>1, <3>2
  <2>2. PICK id \in InFlight : TRUE
    BY <2>1
  <2>3. call \notin rpcDone
    <3>1. \A c \in Calls : c \in Nat
      BY HostAssumption DEF HostAssumption, Calls
    <3> QED
      BY <3>1 DEF IInv, CallPlaces, TypeOK
  <2>4. st[id] # "dropped"
    BY <2>2, <2>3 DEF IInv, RPCPlaces, InFlight, Launched
  <2> QED
    BY <2>2, <2>4 DEF InFlight, Launched
<1> QED
  BY <1>1, Inductive, PTL

\* No loop runs a handler for an RPC queued during another call.
THEOREM NoForeignServiceHolds == Spec => []NoForeignService
<1>1. TypeOK /\ IInv => NoForeignService
  BY DEF IInv, RPCPlaces, NoForeignService
<1> QED
  BY <1>1, Inductive, PTL

\* An async call that returns a value has had all its RPCs answered.
THEOREM AllServedHolds == Spec => []AllServed
<1>1. TypeOK /\ IInv => AllServed
  BY DEF IInv
<1> QED
  BY <1>1, Inductive, PTL

\* A call returns only what was reported during it.
THEOREM OwnOutcomeHolds == Spec => []OwnOutcome
<1>1. TypeOK /\ IInv => OwnOutcome
  BY DEF IInv
<1> QED
  BY <1>1, Inductive, PTL

-----------------------------------------------------------------------------
(* Refinement: Host implements CallContract. *)

\* The answers the running call waits for: what Contract!outstanding is here.
Outstanding == {id \in PromiseIds :
                  pc # "idle" /\ during[id] = call /\ st[id] # "delivered"}
Kinds == [c \in Calls |-> returned[c].kind]

LEMMA ContractInit == Init => Contract!Init
<1> SUFFICES ASSUME Init PROVE Contract!Init
  OBVIOUS
<1>1. 0 \in Calls /\ Calls = 0..MaxCalls
  BY HostAssumption DEF HostAssumption, Calls
<1>2. Outstanding = {}
  BY DEF Init, Outstanding, NoCall
<1>3. Kinds = [c \in 0..MaxCalls |-> IF c = 0 /\ ~(pc # "idle") THEN "none" ELSE "open"]
  BY <1>1 DEF Init, Kinds, Outcome
<1> QED
  BY <1>1, <1>2, <1>3 DEF Init, Contract!Init, Outstanding, Kinds

\* A step that changes nothing the caller can see is a stuttering step.
LEMMA Unseen ==
  ASSUME UNCHANGED <<call, isAsync, during, scriptError, resultValue, returned>>,
         (pc' = "idle") = (pc = "idle"),
         \A id \in PromiseIds : (st'[id] = "delivered") = (st[id] = "delivered")
  PROVE  UNCHANGED Contract!vars
<1>1. Outstanding' = Outstanding /\ Kinds' = Kinds
  BY DEF Outstanding, Kinds
<1> QED
  BY <1>1 DEF Contract!vars, Outstanding, Kinds

\* The end of a call is the contract's Finish.
LEMMA FinishStep ==
  ASSUME TypeOK, IInv, NEW o \in Outcomes, Return(o), pc # "idle",
         UNCHANGED <<call, isAsync>>, NEW k, o.kind = k
  PROVE  Contract!Finish(k)
<1>1. Kinds' = [Kinds EXCEPT ![call] = k] /\ Kinds[call] = "open"
  BY DEF Kinds, Return, TypeOK, IInv, CallPlaces
<1>2. Outstanding' = {}
  BY DEF Return, Outstanding
<1> QED
  BY <1>1, <1>2 DEF Contract!Finish, Return, Outstanding, Kinds

\* A return from the registers keeps the contract when the call is served.
LEMMA FinishFromRegisters ==
  ASSUME TypeOK, IInv, Return(RegisterOutcome), pc # "idle", call # 0,
         UNCHANGED <<call, isAsync>>,
         scriptError # NoCall \/ (isAsync[call] => Outstanding = {})
  PROVE  Contract!Next
<1>1. ASSUME NEW k, RegisterOutcome.kind = k PROVE Contract!Finish(k)
  BY <1>1, RegisterOutcomeType, FinishStep
<1>2. CASE scriptError # NoCall
  <2>1. RegisterOutcome.kind = "error"
    BY <1>2 DEF RegisterOutcome, Outcome
  <2>2. Contract!Finish("error")
    BY <1>1, <2>1
  <2> QED
    BY <1>2, <2>2 DEF Contract!Next
<1>3. CASE scriptError = NoCall /\ resultValue # NoCall
  <2>1. RegisterOutcome.kind = "value"
    BY <1>3 DEF RegisterOutcome, Outcome
  <2>2. Contract!Finish("value")
    BY <1>1, <2>1
  <2> QED
    BY <1>3, <2>2 DEF Contract!Next, Contract!Served, Outstanding
<1>4. CASE scriptError = NoCall /\ resultValue = NoCall
  <2>1. RegisterOutcome.kind = "none"
    BY <1>4 DEF RegisterOutcome, Outcome
  <2>2. Contract!Finish("none")
    BY <1>1, <2>1
  <2> QED
    BY <1>4, <2>2 DEF Contract!Next, Contract!Served, Outstanding
<1> QED
  BY <1>2, <1>3, <1>4

LEMMA ContractStep == TypeOK /\ IInv /\ [Next]_vars => [Contract!Next]_(Contract!vars)
<1> SUFFICES ASSUME TypeOK, IInv, [Next]_vars
             PROVE  [Contract!Next]_(Contract!vars)
  OBVIOUS
<1> USE DEF ctxVars, registers, rpcVars
<1>a. \A k \in {"none", "error", "failed"}, c \in Calls \cup {NoCall} :
         Outcome(k, c) \in Outcomes /\ Outcome(k, c).kind = k
  BY DEF Outcome, Outcomes
<1>b. \A c \in Calls : c \in Nat
  BY HostAssumption DEF HostAssumption, Calls
<1>1. CASE PreludeReturns
  <2>1. CASE scriptError = NoCall
    <3>1. Contract!Finish("none")
      BY <1>1, <2>1, <1>a, FinishStep DEF PreludeReturns
    <3> QED
      BY <1>1, <2>1, <3>1
         DEF PreludeReturns, Contract!Next, Contract!Served, IInv, CallPlaces
  <2>2. CASE scriptError # NoCall
    <3>1. Outcome("error", scriptError) \in Outcomes /\ Outcome("error", scriptError).kind = "error"
      BY <1>a DEF TypeOK
    <3>2. Contract!Finish("error")
      BY <1>1, <2>2, <3>1, FinishStep DEF PreludeReturns
    <3> QED
      BY <1>1, <2>2, <3>2 DEF PreludeReturns, Contract!Next
  <2> QED
    BY <2>1, <2>2
<1>2. ASSUME NEW async \in BOOLEAN, BeginCall(async)
      PROVE  Contract!Next
  <2>1. call' = call + 1 /\ call < MaxCalls
    BY <1>2 DEF BeginCall
  <2>2. Outstanding' = {}
    <3>1. \A id \in PromiseIds : during'[id] = during[id] /\ during[id] <= call
      BY <1>2 DEF BeginCall, IInv, RPCPlaces
    <3>2. \A id \in PromiseIds : during[id] \in Int /\ call \in Int
      BY <1>b DEF TypeOK, NoCall
    <3> QED
      BY <2>1, <3>1, <3>2 DEF Outstanding
  <2>3. Kinds' = Kinds
    BY <1>2 DEF BeginCall, Kinds
  <2> QED
    BY <1>2, <2>1, <2>2, <2>3
       DEF BeginCall, resetState, Contract!Next, Contract!Begin, Outstanding, Kinds
<1>3. CASE ReturnWithoutLoop
  <2>1. isAsync[call] => Outstanding = {}
    BY <1>3, <1>b
       DEF ReturnWithoutLoop, Outstanding, pendingRPCs, IInv, RPCPlaces, TypeOK, NoCall, Stages
  <2> QED
    BY <1>3, <2>1, FinishFromRegisters DEF ReturnWithoutLoop
<1>4. CASE EnterLoop
  BY <1>4, Unseen DEF EnterLoop, launchPendingRPCs, Launch
<1>5. ASSUME NEW id \in PromiseIds, Receive(id)
      PROVE  Contract!Next
  <2>1. /\ id \in Outstanding /\ isAsync[call]
        /\ Outstanding' = Outstanding \ {id}
        /\ Kinds' = Kinds
    BY <1>5, <1>b DEF Receive, Buffer, Launched, Outstanding, Kinds, IInv, RPCPlaces, CallPlaces,
                      TypeOK, NoCall
  <2> QED
    BY <1>5, <2>1 DEF Receive, Contract!Next, Contract!Answer, Outstanding, Kinds
<1>6. CASE LoopAgain
  BY <1>6, Unseen DEF LoopAgain, launchPendingRPCs, Launch
<1>7. CASE ExitOnError
  BY <1>7, FinishFromRegisters DEF ExitOnError, IInv, CallPlaces
<1>8. CASE LoopDone
  <2>1. InFlight = {}
    BY <1>8, FiniteQueues, FS_EmptySet DEF LoopDone, IInv, Accounted
  <2>2. Outstanding = {}
    BY <1>8, <2>1, <1>b
       DEF LoopDone, InFlight, Launched, Outstanding, IInv, RPCPlaces, TypeOK, NoCall, Stages
  <2> QED
    BY <1>8, <2>2, FinishFromRegisters DEF LoopDone, IInv, CallPlaces
<1>9. CASE ExportFails
  <2>1. Contract!Finish("failed")
    BY <1>9, <1>a, FinishStep DEF ExportFails
  <2> QED
    BY <2>1 DEF Contract!Next
<1>10. CASE Close
  BY <1>10, Unseen DEF Close
<1>11. ASSUME NEW id \in PromiseIds, hostRPC(id)
       PROVE  Contract!Next
  <2>1. /\ id \notin Outstanding
        /\ Outstanding' = Outstanding \cup {id}
        /\ Kinds' = Kinds
    BY <1>11, <1>b DEF hostRPC, InWasm, Outstanding, Kinds, IInv, RPCPlaces, TypeOK, NoCall
  <2> QED
    BY <1>11, <2>1 DEF hostRPC, InWasm, Contract!Next, Contract!Ask, Outstanding, Kinds
<1>12. ASSUME NEW isError \in BOOLEAN, hostSetResult(isError)
       PROVE  Contract!Next
  <2>1. Outstanding' = Outstanding /\ Kinds' = Kinds
    BY <1>12 DEF hostSetResult, Outstanding, Kinds
  <2>2. call # NoCall
    BY <1>b DEF TypeOK, NoCall
  <2>3. Contract!Report(isError)
    BY <1>12, <2>1, <2>2 DEF hostSetResult, InWasm, Contract!Report, Outstanding, Kinds
  <2> QED
    BY <2>3 DEF Contract!Next
<1>13. CASE hostShouldInterrupt
  BY <1>13, Unseen DEF hostShouldInterrupt
<1>14. ASSUME NEW id \in PromiseIds, HandlerStep(id)
       PROVE  UNCHANGED Contract!vars
  <2>1. \A j \in PromiseIds : (st'[j] = "delivered") = (st[j] = "delivered")
    BY <1>14 DEF HandlerStep, HandlerReturns, Send, Abort, TypeOK
  <2> QED
    BY <1>14, <2>1, Unseen DEF HandlerStep, HandlerReturns, Send, Abort
<1>15. CASE CancelCtx
  BY <1>15, Unseen DEF CancelCtx
<1>16. CASE Interrupt
  BY <1>16, Unseen DEF Interrupt
<1>17. CASE UNCHANGED vars
  BY <1>17, Unseen DEF vars
<1> QED
  BY <1>1, <1>2, <1>3, <1>4, <1>5, <1>6, <1>7, <1>8, <1>9, <1>10, <1>11, <1>12,
     <1>13, <1>14, <1>15, <1>16, <1>17 DEF Next, Caller, Terminated

\* Every behaviour of the host is one that the contract of its calls allows.
THEOREM Refinement == Spec => ImplementsContract
<1> QED
  BY Inductive, ContractInit, ContractStep, PTL
     DEF Spec, ImplementsContract, Contract!Spec

-----------------------------------------------------------------------------
(* The interrupt flag. *)

FlagIsRecent == interrupted => asked

LEMMA FlagNext ==
  TypeOK /\ FlagIsRecent /\ StoppedWasAsked /\ [Next]_vars
    => (FlagIsRecent /\ StoppedWasAsked)'
<1> SUFFICES ASSUME FlagIsRecent, StoppedWasAsked, [Next]_vars
             PROVE  (FlagIsRecent /\ StoppedWasAsked)'
  OBVIOUS
<1> USE DEF FlagIsRecent, StoppedWasAsked, intVars
<1>1. CASE PreludeReturns \/ ReturnWithoutLoop \/ EnterLoop \/ LoopAgain
  BY <1>1 DEF PreludeReturns, ReturnWithoutLoop, EnterLoop, LoopAgain
<1>2. CASE ExitOnError \/ LoopDone \/ ExportFails \/ Close \/ CancelCtx
  BY <1>2 DEF ExitOnError, LoopDone, ExportFails, Close, CancelCtx
<1>3. ASSUME NEW async \in BOOLEAN, BeginCall(async)
      PROVE  (FlagIsRecent /\ StoppedWasAsked)'
  BY <1>3 DEF BeginCall, clearInterrupt
<1>4. ASSUME NEW id \in PromiseIds, Receive(id) \/ hostRPC(id) \/ HandlerStep(id)
      PROVE  (FlagIsRecent /\ StoppedWasAsked)'
  BY <1>4 DEF Receive, hostRPC, HandlerStep, HandlerReturns, Send, Abort
<1>5. ASSUME NEW isError \in BOOLEAN, hostSetResult(isError)
      PROVE  (FlagIsRecent /\ StoppedWasAsked)'
  BY <1>5 DEF hostSetResult
<1>6. CASE hostShouldInterrupt
  BY <1>6 DEF hostShouldInterrupt
<1>7. CASE Interrupt
  BY <1>7 DEF Interrupt
<1>8. CASE UNCHANGED vars
  BY <1>8 DEF vars
<1> QED
  BY <1>1, <1>2, <1>3, <1>4, <1>5, <1>6, <1>7, <1>8 DEF Next, Caller, Terminated

\* A call is stopped by the flag only if Interrupt() came after it began.
THEOREM StaleInterruptForgotten == Spec => []StoppedWasAsked
<1>1. Init => FlagIsRecent /\ StoppedWasAsked
  BY DEF Init, FlagIsRecent, StoppedWasAsked
<1> QED
  BY <1>1, FlagNext, TypeCorrect, PTL DEF Spec
=============================================================================
